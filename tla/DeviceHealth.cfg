SPECIFICATION PluginSpec
CONSTANTS
  Bus <- MCBus
  MemoryMiB <- MCMemoryMiB
  slicesPerGPU = 2
  Pods <- MCPods
  Template <- MCTemplate
PROPERTY
  HealthIsSent
