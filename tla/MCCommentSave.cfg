SPECIFICATION Spec
CONSTANTS
  w1 = w1  w2 = w2
  Workers = {w1, w2}
  Forms <- MCForms
  Word = 8
  MinThink = 1
  MaxThink = 2
  Captcha = 5
  None = None
  StartClock = 2
  MaxClock = 5
  MaxRequests = 2
  MaxCrashes = 1
SYMMETRY Sym
INVARIANTS
  PublishedComplete
  SavedIsPublished
  ErrorsNotPublished
  PublishedPassedChecks
PROPERTIES
  PublishedKept
