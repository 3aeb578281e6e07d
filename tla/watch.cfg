\* Two videos, some of them there before the watch, two troubles, two buttons.
SPECIFICATION FairSpec
CONSTANTS
  Backlog = "newest"
  MaxRetries = 1
  MaxActive = 1
  Listing = 1
  MaxVideos = 2
  MaxJobs = 4
  MaxTroubles = 2
  MaxOps = 1
INVARIANTS TypeOK CatalogueStays StartedOnce
PROPERTIES VideoEnds
CHECK_DEADLOCK FALSE
