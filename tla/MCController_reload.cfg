\* Edits that give the file a newer time, all three runners, fair program.
SPECIFICATION FairSpec
CONSTANTS
  h1 = h1
  h2 = h2
  Hosts <- MCHosts
  DefaultHost = h1
  Unreliable = {h1}
  Garbled = {h1}
  Local = Local
  None = None
  AllModes <- MCAllModes
  Modes = {"json", "qt", "lws"}
  Settings = {"full", "lean"}
  Contents <- MCContentsAll
  Broken = Broken
  Throws = Throws
  Missing = Missing
  CliConfigs <- MCCli
  MaxEdits = 2
  MaxMtime = 2
  TickWrap = 2
  MaxInjects = 0
  NewerEdits = TRUE
  BootRace = FALSE
INVARIANTS
  UpToDate
  RunOncePublishesOnce
PROPERTIES
  PublishesWhenLeftAlone
  TakesUpEdits
