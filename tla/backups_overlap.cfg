SPECIFICATION FairSpec
CONSTANTS
  c1 = c1
  c2 = c2
  CronJobs = {c1, c2}
  Last = Last
  Scheduled = TRUE
  BackupNum = 1
  Stamp <- SummerTimeEnds
  MaxTime = 3
  MaxCommits = 1
  MaxOpen = 1
  MaxBoots = 2
INVARIANTS BackupsStay DirectoryBounded LastBackupComplete
PROPERTY ShutdownEnds
CHECK_DEADLOCK FALSE
