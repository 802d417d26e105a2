\* Two connections that come and go, at most four documents, a fair loop and a
\* fair service of events.
SPECIFICATION LwsFairSpec
CONSTANTS
  c1 = c1
  c2 = c2
  Peers <- MCPeers
  None = None
  MaxDocs = 4
INVARIANTS
  OnlyLiveConnections
  NothingOverwritten
  OnlyNewsIsSent
PROPERTIES
  ReadersSeeTheNewest
  NewestArrives
