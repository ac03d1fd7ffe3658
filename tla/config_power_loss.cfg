\* The power fails anywhere.
SPECIFICATION FairSpec
CONSTANTS
  NFields = 2
  PowerOn = 1
  Current = 2
  Values = {0, 1}
  Default <- MCDefault
  NPages = 2
  PageLen = 5
  Supplies <- Anywhere
PROPERTIES
  Persists
