\* The same tasks and machines; the log is not begun.
SPECIFICATION OutSpec
CONSTANTS
  Configs <- MCConfigs
  Machines <- MCMachines
  MaxFiles = 1
  MaxLogs = 0
  MaxChars = 0
  TextLogs = 0
INVARIANT JsonRoundTrip
CHECK_DEADLOCK FALSE
