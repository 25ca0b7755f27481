SPECIFICATION Spec
CONSTANTS
  Tiles = {1, 2}
  Colors = {1}
  Images = {1, 2}
  Rectangles = {{1}, {2}}
  Screens = {{1, 2}}
  ExactTransfers = {TRUE}
  Clients = {display}
  Resources = {r1}
  MaximumDamageHistory = 2
  MaxGeneration = 2
  Nothing = Nothing
CHECK_DEADLOCK FALSE
INVARIANT
  DamageFromLastUpload
