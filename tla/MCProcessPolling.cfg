\* Two process numbers, used again and again; a list of one process.
SPECIFICATION ProcSpec
CONSTANTS
  Keys <- MCPids
  Channels <- MCCpu
  MaxCount = 2
  Configs <- MCConfigs
  Profiles <- MCProfiles
  Capacity = 1
  RemoteMax = 2
  Uptimes <- MCUptimes
INVARIANTS
  ProcTypeOK
  ProcNeverOverstated
  HeaviestListed
  OnlyCurrent
