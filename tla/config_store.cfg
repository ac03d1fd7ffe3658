\* Power fails in the middle of a word, or between words and pages.
SPECIFICATION FairSpec
CONSTANTS
  NFields = 2
  PowerOn = 1
  Current = 2
  Values = {0, 1}
  Default <- MCDefault
  NPages = 2
  PageLen = 5
  Supplies <- HalfOrErase
INVARIANTS
  TypeOK
  OneGood
  SavedReadable
  WritesBlank
PROPERTIES
  RegisterSpec
  EventuallySaved
