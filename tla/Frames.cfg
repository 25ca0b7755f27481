SPECIFICATION MCSpec
CONSTANTS
  Tiles = {1, 2}
  Colors = {1, 2}
  Images = {}
  Rectangles = {{1}, {2}}
  Screens = {{1, 2}}
  ExactTransfers = {FALSE}
  Clients = {display, capture}
  Resources = {r1}
  MaximumDamageHistory = 1
  MaxGeneration = 3
  Nothing = Nothing
INVARIANTS LeasesImmutable PictureIsCurrent PixelsExact
PROPERTY CopiesWholePictures
SYMMETRY InterchangeableClients
CHECK_DEADLOCK FALSE
