\* Two interfaces that come and go, one counter each.
SPECIFICATION NetSpec
CONSTANTS
  eth0 = eth0
  wlan0 = wlan0
  Keys <- MCTwo
  Channels <- MCReceived
  MaxCount = 2
INVARIANTS
  NetTypeOK
  NeverOverstated
  NothingLost
