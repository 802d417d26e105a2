\* The same command lines and files.
SPECIFICATION ConfigSpec
CONSTANTS
  CommandLines <- MCCommandLines
  BaseFiles <- MCBaseFiles
  MaxEdits = 2
INVARIANT StorageIsHandedOver
CHECK_DEADLOCK FALSE
