\* Two videos: cancels, downloads that hang, a deletion and a crash around their runs.
SPECIFICATION FairSpec
CONSTANTS
  Videos = {v1, v2}
  NoVideo = NoVideo
  Formats = {"shorts", "both", "render"}
  Checks = 1
  MaxJobs = 2
  MaxCancels = 1
  MaxStalls = 1
  MaxDeletes = 1
  MaxCrashes = 1
INVARIANTS TypeOK CancelledOnlyIfAsked CancelInTimeStops ActiveIsInHand OneDownload
PROPERTY RunEnds
CHECK_DEADLOCK FALSE
