SPECIFICATION Spec
CONSTANTS
  a = a  b = b
  Posts = {1, 2}
  Times = {10, 11, 12}
  Tags = {a, b}
  Versions <- MonthVersions
  NoTag = NoTag
  UIntSize = 4
  TagcloudMin = 6
  TagcloudMax = 18
  AllocMayFail = FALSE
INVARIANTS
  ArchiveShowsItsMonth
