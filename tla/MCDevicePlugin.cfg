SPECIFICATION PluginSpec
CONSTANTS
  Bus <- MCBus
  MemoryMiB <- MCMemoryMiB
  slicesPerGPU = 2
  Pods <- MCPods
  Template <- MCTemplate
INVARIANTS
  GPUNotOverpromised
  GrantVisible
  Intercepted
PROPERTIES
  ResourceReturns
