CONSTANTS
  Jobs = {"train", "serve"}
  Departments = {"research"}
  Namespaces = {"lab"}
  NoDepartment = NoDepartment
  Namespace <- MCNamespace
  Ratio <- MCRatio
  SoftLimit <- MCSoftLimit
  Interval = 2
  NoTick = NoTick
  NoRecord = NoRecord
  MaxTime = 4
  MaxChanges = 1
  MaxFailures = 1
  MaxCrashes = 1
SPECIFICATION Spec
CHECK_DEADLOCK FALSE
PROPERTY
  QuotaAlerts
