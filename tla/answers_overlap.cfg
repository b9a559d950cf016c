SPECIFICATION Spec
CONSTANTS
  alice = alice
  spring = spring
  knots = knots
  x = x
  y = y
  z = z
  w = w
  padded = padded
  blank = blank
  left = left
  right = right
  Users = {alice}
  Events = {spring}
  Puzzles = {knots}
  EventOf <- KnotsEvent
  Unlock <- KnotsUnlock
  Texts = {x, y, z, w, padded, blank}
  Blank = blank
  Normal <- PaddedNormal
  Right <- KnotsRight
  PartCount <- KnotsParts
  Cooldown = 1
  MaxIncorrectKept = 2
  Tabs = {left, right}
  TabUser <- TwoTabs
  MaxTime = 4
SYMMETRY TabSymmetry
INVARIANTS GuessRateLimited SolvedAfterUnlock WrongAnswersOnRecord
PROPERTIES RepliesTruthful SolvesArePermanent ScorecardSpec
