SPECIFICATION Spec
CONSTANTS
  CPUs <- MCCPUs
  Machines <- MCMachines
  MaxRMID = 5
  MaxReads = 1
INVARIANTS
  StartsComplete
  
  MonitoredCore
  RMIDsFreed
CHECK_DEADLOCK FALSE
