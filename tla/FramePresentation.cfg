SPECIFICATION FairSpec
CONSTANTS
  Tiles = {1, 2}
  Textures = {x1, x2}
  MaxCommits = 3
  MaxResets = 2
  MaxFaults = 1
  Nothing = Nothing
CHECK_DEADLOCK FALSE
INVARIANTS SlotIsReserved ShowsWhatWasLeased
PROPERTY LastFrameShown
