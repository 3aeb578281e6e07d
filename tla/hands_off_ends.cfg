\* One clip on two platforms with nobody watching, and what must end.
SPECIFICATION FairSpec
CONSTANTS
  Platforms = {p1, p2}
  MaxPosts = 4
  MaxTroubles = 2
  MaxLate = 1
  MaxAsks = 0
  MaxStarts = 1
  MaxRedo = 1
PROPERTIES HandsOffEnds PublishedShown
CHECK_DEADLOCK FALSE
