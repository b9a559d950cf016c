SPECIFICATION FairSpec
CONSTANTS
  warmup = warmup
  twin = twin
  finale = finale
  epilogue = epilogue
  r1 = r1
  Puzzles = {warmup, twin, finale, epilogue}
  NoPuzzle = NoPuzzle
  Unlock <- Calendar
  Channelled = {warmup, finale, epilogue}
  Requests = {r1}
  MaxTime = 4
  MaxBoots = 2
INVARIANTS AnnouncedInTurn QuietOnceCancelled RepliesHold
PROPERTIES AnnouncementsSpec EveryoneGetsATurn StopEnds
CHECK_DEADLOCK FALSE
