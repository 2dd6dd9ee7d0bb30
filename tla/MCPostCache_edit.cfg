SPECIFICATION Spec
CONSTANTS
  t1 = t1  t2 = t2  o1 = o1  o2 = o2  o3 = o3
  Threads = {t1, t2}
  PostIds = {1}
  Dirents = {1}
  DirId <- OneDirent
  Objs = {o1, o2, o3}
  MetaStates = {"listed", "unlisted", "missing", "malformed", "fatal"}
  BodyStates = {"text", "missing", "fatal"}
  MaxRev = 2
  MaxRequests = 1
  NoThread = NoThread
  NoObj = NoObj
  NoPost = NoPost
SYMMETRY Sym
INVARIANTS
  RefcountExact
  NoUseAfterFree
  ExclusiveUse
  ServeComplete
  CachedComplete
  FreshServe
PROPERTIES
  IndexKeeps
  ImplementsReads
