SPECIFICATION Spec
CONSTANTS
  Procs = {p, q}
  Configs <- SomeConfigs
  StaleAge = 2
  MaxTries = 2
  MaxFaults = 1
  MaxStops = 1
  NoFile = NoFile
INVARIANTS TypeOK SoleDaemon 
PROPERTIES  StoppedIsTrue StopHonoured RecoversOnline
CHECK_DEADLOCK FALSE
