\* Up to four arguments, six behind --ssh; two edits of three files.
SPECIFICATION ConfigSpec
CONSTANTS
  CommandLines <- MCCommandLines
  BaseFiles <- MCBaseFiles
  MaxEdits = 2
INVARIANTS
  TokensOnce
  NoWordLost
  EveryCommandRuns
  
PROPERTY OnlyWhatWasEdited
CHECK_DEADLOCK FALSE
