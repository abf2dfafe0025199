SPECIFICATION Spec
CONSTANTS
  old = old
  new = new
  one = one
  Daemons <- MCDaemons
  Runs <- MCRuns
  Operator = Operator
  Foreground = Foreground
  Nobody = Nobody
  MaxStarts = 2
  MaxCrashes = 1
  MaxStuck = 1
  MaxOutages = 1
  Flags = {TRUE, FALSE}
  Misconfigured = TRUE
SYMMETRY Symmetry
CHECK_DEADLOCK FALSE
INVARIANTS   LedgerTellsDeaths 
