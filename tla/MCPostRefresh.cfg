SPECIFICATION Spec
CONSTANTS
  a = a  b = b  image1 = image1
  Comments = {1, 2}
  Listings = {1}
  LispVersions <- MCLisp
  TexVersions <- MCTex
  NoImage = NoImage
  Missing = Missing
  MaxEdits = 2
INVARIANTS
  ChangeNoticed
  ServedAsOnDisk
  RefreshSettles
