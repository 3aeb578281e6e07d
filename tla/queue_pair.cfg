\* Two request threads against the worker, every operation, one crash.
SPECIFICATION Spec
CONSTANTS
  Requests = {r1, r2}
  Videos = {v1}
  Options = {o1}
  NoVideo = NoVideo
  NoPayload = NoPayload
  Doors = {"paste", "forced", "longform", "handoff", "render"}
  MaxActive = 2
  MaxJobs = 2
  MaxCalls = 4
  MaxCrashes = 1
SYMMETRY Symmetry
INVARIANTS TypeOK RunningIsHeld OneRunning HeldRowIsRunning
PROPERTY FollowsLifecycle
CHECK_DEADLOCK FALSE
