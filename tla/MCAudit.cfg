SPECIFICATION Spec
CONSTANTS
  daemon = daemon
  command = command
  Writers <- MCWriters
  MaxRecords = 6
  MaxFaults = 2
  MaxEdits = 2
  RotateAt = 2
  Keep = 1
CHECK_DEADLOCK FALSE
INVARIANTS ChainHolds EditsShow
PROPERTY TrailImplemented
