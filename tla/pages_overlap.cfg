SPECIFICATION PagesSpec
CONSTANTS
  alice = alice
  spring = spring
  knots = knots
  maze = maze
  x = x
  blank = blank
  left = left
  right = right
  Users = {alice}
  Events = {spring}
  Puzzles = {knots, maze}
  EventOf <- OneEvent
  Listed <- OneList
  NoPuzzle = NoPuzzle
  Unlock <- Unlocks
  Texts = {x, blank}
  Blank = blank
  Normal <- Plain
  Right <- AllRight
  PartCount <- Parts
  Cooldown = 2
  MaxIncorrectKept = 1
  Tabs = {left, right}
  TabUser <- TwoTabs
  MaxTime = 2
INVARIANT NothingEarly
PROPERTY PagesBetween
SYMMETRY TabSymmetry
