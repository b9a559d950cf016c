SPECIFICATION BoardSpec
CONSTANTS
  u1 = u1
  u2 = u2
  u3 = u3
  p1 = p1
  p2 = p2
  Users = {u1, u2, u3}
  Name <- Alphabetical
  Testers = {u1}
  Event <- InOrder
  Unlock <- Unlocks
  PartCount <- PartCounts
  Hour = 1
  Forever = 5
  Pages = {p1, p2}
  Starts <- Started
  Players = {u1, u2}
  MaxRank = 2
  PlotWidth = 2
  ClumpGap = 1
  Margin = 1
  MaxTime = 2
  MaxSolves = 2
  MaxActs = 1
  MaxOpen = 1
INVARIANTS ScoresFollowRules PrevPositionIsHistory PagesFresh ChartTruthful
SYMMETRY Symmetric
CHECK_DEADLOCK FALSE
