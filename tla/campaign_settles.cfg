\* One submission, and what must end.
SPECIFICATION FairSpec
CONSTANTS
  c1 = c1  c2 = c2  p1 = p1  p2 = p2
  Campaigns = {c1}
  Posts = {p1}
  Rows <- OneRow
  Links = {l1}
  NoLink = NoLink
  NoRow = NoRow
  Retries = 1
  Modes = {"now"}
  MaxTroubles = 1
  MaxOps = 3
PROPERTIES SendEnds ArchivedSettles
CHECK_DEADLOCK FALSE
