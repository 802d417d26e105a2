\* The sum and two cores that are switched on and off.
SPECIFICATION CpuSpec
CONSTANTS
  Keys <- MCKeys
  Channels <- MCChannels
  MaxCount = 1
  MaxEvents = 2
VIEW MCView
INVARIANTS
  CpuTypeOK
  AggregateExact
  UnmovedCoresExact
