SPECIFICATION Spec
CONSTANTS
  t1 = t1  t2 = t2  o1 = o1  o2 = o2  o3 = o3
  Threads = {t1, t2}
  PostIds = {1}
  Dirents = {1}
  DirId <- OneDirent
  Objs = {o1, o2, o3}
  MetaStates = {"listed", "missing"}
  BodyStates = {"text"}
  MaxRev = 2
  MaxRequests = 1
  NoThread = NoThread
  NoObj = NoObj
  NoPost = NoPost
SYMMETRY Sym
INVARIANTS
  InsertNeverFails
