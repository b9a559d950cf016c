SPECIFICATION BoardSpec
CONSTANTS
  u1 = u1
  u2 = u2
  u3 = u3
  p1 = p1
  p2 = p2
  Users = {u1, u2, u3}
  Name <- Alphabetical
  Testers = {u1}
  Event <- OutOfOrder
  Unlock <- Unlocks
  PartCount <- PartCounts
  Hour = 1
  Forever = 3
  Pages = {p1, p2}
  Starts <- FromNothing
  Players = {u1, u2}
  MaxRank = 2
  PlotWidth = 2
  ClumpGap = 1
  Margin = 1
  MaxTime = 2
  MaxSolves = 2
  MaxActs = 1
  MaxOpen = 1
INVARIANT CurrentIsMostRecent
CHECK_DEADLOCK FALSE
