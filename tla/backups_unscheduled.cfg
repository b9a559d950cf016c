SPECIFICATION Spec
CONSTANTS
  c1 = c1
  c2 = c2
  CronJobs = {c1}
  Last = Last
  Scheduled = FALSE
  BackupNum = 1
  Stamp <- SummerTimeEnds
  MaxTime = 1
  MaxCommits = 1
  MaxOpen = 1
  MaxBoots = 1
INVARIANT ShutdownBacksUp
CHECK_DEADLOCK FALSE
