\* Two render PCs, a clip to send in Automatic and one that renders here, every trouble.
SPECIFICATION FairSpec
CONSTANTS
  Clips = {c1, c2}
  Workers = {w1, w2}
  Able = {w1, w2}
  Nobody = Nobody
  NoClip = NoClip
  Targets = {Nobody}
  MaxAttempts = 2
  Troubles = {"user", "unpair", "silent", "off", "fails", "lost", "stalls", "crash"}
  MaxTrouble = 2
  Chunks = 1
  QuickRestart = TRUE
  LocalClips = {c2}
  MaxRuns = 1
PROPERTIES RunEnds StaleStops
CHECK_DEADLOCK FALSE
