\* Two uploads of a clip that is re-rendered, deleted and cancelled around them.
SPECIFICATION FairSpec
CONSTANTS
  Windows = {1, 2}
  First = 1
  UploadLimit = 1
  MaxJobs = 2
  MaxRenders = 2
  MaxOps = 3
  MaxTroubles = 1
  MaxDays = 1
INVARIANTS TypeOK OneUpload RenderedFirst UploadShown QuotaKept
PROPERTIES PublishEnds
CHECK_DEADLOCK FALSE
