\* Two render PCs, a clip to send and one that renders here, two runs, every trouble.
SPECIFICATION Spec
CONSTANTS
  Clips = {c1, c2}
  Workers = {w1, w2}
  Able = {w1, w2}
  Nobody = Nobody
  NoClip = NoClip
  Targets = {Nobody, w1, w2}
  MaxAttempts = 2
  Troubles = {"user", "unpair", "silent", "off", "fails", "lost", "stalls", "crash"}
  MaxTrouble = 2
  Chunks = 2
  QuickRestart = TRUE
  LocalClips = {c2}
  MaxRuns = 2
SYMMETRY Symmetry
INVARIANTS TypeOK ResultIsKept HandedOnce
PROPERTIES CompletedIsFinal
CHECK_DEADLOCK FALSE
