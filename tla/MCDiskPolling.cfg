\* Two devices under six configurations, one counter each, and a table that
\* overflows at its second entry.
SPECIFICATION DiskSpec
CONSTANTS
  sda = sda
  dm0 = dm0
  Keys <- MCDevices
  Channels <- MCRead
  MaxCount = 1
  Loopback = {}
  Mapper <- MCMapper
  DigitEnd <- MCMapper
  NameOrder <- MCNameOrder
  MaxIo = 0
  Storages <- MCStorages
  DeviceFiles <- MCDeviceFiles
  Injected <- MCInjected
INVARIANTS
  DiskTypeOK
  DiskNeverOverstated
  DiskNothingLost
  GoneShowsNothing
