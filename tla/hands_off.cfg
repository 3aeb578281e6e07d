\* One clip, two platforms, a person who may publish, approve or refresh once, two
\* troubles. That posts are no longer followed only keeps checks from being made: it
\* is left to hands_off_ends.
SPECIFICATION Spec
CONSTANTS
  Platforms = {p1, p2}
  MaxPosts = 3
  MaxTroubles = 2
  MaxLate = 0
  MaxAsks = 1
  MaxStarts = 0
  MaxRedo = 1
CONSTRAINT Seen
SYMMETRY Symmetry
INVARIANTS TypeOK PostedOnce PostedIsKnown
CHECK_DEADLOCK FALSE
