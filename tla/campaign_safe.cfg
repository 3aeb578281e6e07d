\* Two posts that may turn up with the same link, in one campaign.
SPECIFICATION Spec
CONSTANTS
  c1 = c1  c2 = c2  p1 = p1  p2 = p2
  Campaigns = {c1}
  Posts = {p1, p2}
  Rows <- TwoPosts
  Links = {l1}
  NoLink = NoLink
  NoRow = NoRow
  Retries = 1
  Modes = {"now"}
  MaxTroubles = 1
  MaxOps = 3
INVARIANTS TypeOK PostedOnce PostedIsKnown LinkOnce
SYMMETRY Symmetry
CHECK_DEADLOCK FALSE
