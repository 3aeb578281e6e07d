\* One post and two campaigns, and nothing that fails.
SPECIFICATION Spec
CONSTANTS
  c1 = c1  c2 = c2  p1 = p1  p2 = p2
  Campaigns = {c1, c2}
  Posts = {p1}
  Rows <- TwoCampaigns
  Links = {l1}
  NoLink = NoLink
  NoRow = NoRow
  Retries = 1
  Modes = {"now", "review"}
  MaxTroubles = 0
  MaxOps = 3
PROPERTY HandSentStays
SYMMETRY Symmetry
CHECK_DEADLOCK FALSE
