SPECIFICATION Spec
CONSTANTS
  w1 = w1  w2 = w2
  Workers = {w1, w2}
  Forms <- GoodForms
  Word = 8
  MinThink = 1
  MaxThink = 2
  Captcha = 5
  None = None
  StartClock = 2
  MaxClock = 4
  MaxRequests = 1
  MaxCrashes = 0
SYMMETRY Sym
INVARIANTS
  RefsConsumed
