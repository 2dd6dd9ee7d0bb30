SPECIFICATION Spec
CONSTANTS
  w1 = w1
  w2 = w2
  Threads <- MCThreads
  Queries <- MCTagQueries
  WebDir <- MCWebDir
  Listed <- MCListed
  Characters <- MCCharacters
  lower <- MCLower
  Stored = {1, 2, 3, 4, 5, 6}
  Drafts = {2, 7}
  PREVIEW_SECRET = 11
  category_to_tag <- MCCategories
  html_index_stories = 2
  feed_index_stories = 3
  INT_MAX = 7
  UIntSize = 16
  Word = 64
INVARIANTS
  TagLinksStay
