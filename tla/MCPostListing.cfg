SPECIFICATION Spec
CONSTANTS
  a = a  b = b
  Posts = {1, 2, 3}
  Times = {10, 11, 12}
  Tags = {a, b}
  Versions <- MCVersions
  NoTag = NoTag
  UIntSize = 4
  TagcloudMin = 6
  TagcloudMax = 18
  AllocMayFail = TRUE
INVARIANTS
  TypeOK IndicesAgree AssertsHold NoDangling
  PagerShowsAll ArchiveShowsAll TagCloudSound
PROPERTIES
  ImplementsCatalog
