\* One request at a time beside the worker, one crash.
SPECIFICATION FairSpec
CONSTANTS
  Requests = {r1}
  Videos = {v1}
  Options = {o1}
  NoVideo = NoVideo
  NoPayload = NoPayload
  Doors = {"paste", "handoff", "render"}
  MaxActive = 2
  MaxJobs = 3
  MaxCalls = 4
  MaxCrashes = 1
PROPERTY Drains
CHECK_DEADLOCK FALSE
