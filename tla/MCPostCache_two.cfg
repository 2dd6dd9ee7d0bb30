SPECIFICATION FairSpec
CONSTANTS
  t1 = t1  t2 = t2  o1 = o1  o2 = o2  o3 = o3
  Threads = {t1, t2}
  PostIds = {1, 2}
  Dirents = {1, 2}
  DirId <- OneDirent
  Objs = {o1, o2, o3}
  MetaStates = {"listed"}
  BodyStates = {"text"}
  MaxRev = 1
  MaxRequests = 1
  NoThread = NoThread
  NoObj = NoObj
  NoPost = NoPost
INVARIANTS
  NoLeakAtExit
  IndexSound
  StartupInsertsOnce
PROPERTIES
  RequestsEnd
  StartupEnds
  ShutdownEnds
