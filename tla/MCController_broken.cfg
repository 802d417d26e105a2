\* A broken file is saved over a good one.
SPECIFICATION Spec
CONSTANTS
  h1 = h1
  h2 = h2
  Hosts <- MCHosts
  DefaultHost = h1
  Unreliable = {}
  Garbled = {}
  Local = Local
  None = None
  AllModes <- MCAllModes
  Modes = {"json", "qt"}
  Settings = {"full", "lean"}
  Contents <- MCContents
  Broken = Broken
  Throws = Throws
  Missing = Missing
  CliConfigs <- MCNoCli
  MaxEdits = 1
  MaxMtime = 1
  TickWrap = 2
  MaxInjects = 0
  NewerEdits = TRUE
  BootRace = FALSE
PROPERTY
  KeepsOldTasksIfBroken
