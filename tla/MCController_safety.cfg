\* Every kind of edit at any moment, two hosts of which one is unreliable.
SPECIFICATION Spec
CONSTANTS
  h1 = h1
  h2 = h2
  Hosts <- MCHosts
  DefaultHost = h1
  Unreliable = {h1}
  Garbled = {h1}
  Local = Local
  None = None
  AllModes <- MCAllModes
  Modes = {"json", "qt"}
  Settings = {"full", "lean"}
  Contents <- MCContents
  Broken = Broken
  Throws = Throws
  Missing = Missing
  CliConfigs <- MCCli
  MaxEdits = 2
  MaxMtime = 2
  TickWrap = 4
  MaxInjects = 1
  NewerEdits = FALSE
  BootRace = TRUE
INVARIANTS
  TypeOK
  RatesSpanOneTick
  NoMixedHosts
  ContextsLive
  RendererCurrent
  EditsCostOneTick
PROPERTY
  PublishesWhatIsInForce
