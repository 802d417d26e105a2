\* Up to two tasks with different features, local and remote, on a machine
\* that changes between three states; three old logs beside the current one,
\* five logs in all, two with text, three characters to a call of setup_io.
SPECIFICATION OutSpec
CONSTANTS
  Configs <- MCConfigs
  Machines <- MCMachines
  MaxFiles = 3
  MaxLogs = 5
  MaxChars = 3
  TextLogs = 2
INVARIANTS
  ReadInThisTick
  TellsTheTruth
  SinksInStep
  LineEndsPlain
  LogsKept
CHECK_DEADLOCK FALSE
