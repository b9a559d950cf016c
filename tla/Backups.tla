------------------------------ MODULE Backups -------------------------------
(***************************************************************************)
(* Backups of the database, and the shutdown they have to survive.  A cron *)
(* job, which may overlap with itself, copies the database into a file     *)
(* named after the local time and then removes the oldest files.  When the *)
(* program stops, the servers first wait for their requests, but not       *)
(* longer than a timeout; then cron stops, a last backup is made, and the  *)
(* database is closed.                                                     *)
(*                                                                         *)
(* A backup is the number of the last commit it holds.  Its content is     *)
(* whole only when one job alone wrote it to the end.                      *)
(***************************************************************************)
EXTENDS Naturals, FiniteSets

CONSTANTS
  CronJobs,     \* runs of the cron job that can overlap
  Last,         \* the backup at shutdown
  Scheduled,    \* whether db.backupSchedule is set; without it there is no directory
  BackupNum,    \* db.backupNum; 84 where the configuration says 0
  Stamp,        \* the name a backup gets: local time, which may repeat itself
  MaxTime,      \* bound on the clock, for model checking
  MaxCommits,   \* bound on the commits, for model checking
  MaxOpen,      \* bound on the requests under way, for model checking
  MaxBoots      \* bound on the starts of the program, for model checking

ASSUME BackupsAssumption ==
  /\ Last \notin CronJobs
  /\ Scheduled \in BOOLEAN
  /\ BackupNum \in Nat \ {0}
  /\ MaxTime \in Nat /\ MaxCommits \in Nat /\ MaxOpen \in Nat /\ MaxBoots \in Nat
  /\ Stamp \in [0..MaxTime -> Nat]

Jobs == CronJobs \union {Last}

VARIABLES
  now,       \* the clock
  boots,     \* history: starts of the program
  proc,      \* how far the program is
  open,      \* requests under way
  commits,   \* commits to the database
  settled,   \* history: commits when the servers had returned
  late,      \* history: some request was still under way then
  fired,     \* when the cron job was last started
  job,       \* the backup jobs
  dir,       \* the backup directory
  made,      \* history: names of all files ever created
  written    \* history: names of the files whose last writer finished

server == <<boots, proc, open, commits, settled, late>>
backup == <<job, dir, made, written>>
vars == <<now, server, fired, backup>>

Procs == {"down", "up", "draining", "stopping", "last", "closed"}
JobPhases == {"idle", "write", "list", "prune"}
Outcomes == {"none", "ok", "failed", "nodir"}

NoJob == [phase |-> "idle", outcome |-> "none", stamp |-> 0, from |-> 0,
          alone |-> TRUE, victims |-> {}]

Init ==
  /\ now = 0 /\ boots = 0 /\ proc = "down" /\ open = 0 /\ commits = 0
  /\ settled = 0 /\ late = FALSE /\ fired = 0
  /\ job = [j \in Jobs |-> NoJob]
  /\ dir = [s \in {} |-> NoJob]
  /\ made = {} /\ written = {}

Tick ==
  /\ now < MaxTime
  /\ now' = now + 1
  /\ UNCHANGED <<server, fired, backup>>

-----------------------------------------------------------------------------
(* Backup jobs.                                                            *)

End(j, outcome) == job' = [job EXCEPT ![j].phase = "idle", ![j].outcome = outcome]

\* Jobs that are writing to the file of this name.
Rivals(s) == {k \in Jobs : job[k].phase = "write" /\ job[k].stamp = s}

Empty == [version |-> 0, whole |-> FALSE]

\* os.Create makes the file, or empties the one that has the name already.
Create(j) ==
  LET s == Stamp[now]
      mine == [NoJob EXCEPT !.phase = "write", !.stamp = s, !.from = commits,
                            !.alone = (Rivals(s) = {})]
  IN  /\ dir' = [x \in DOMAIN dir \union {s} |-> IF x = s THEN Empty ELSE dir[x]]
      /\ made' = made \union {s}
      /\ written' = written \ {s}
      /\ job' = [k \in Jobs |-> IF k = j THEN mine
                                ELSE IF k \in Rivals(s) THEN [job[k] EXCEPT !.alone = FALSE]
                                ELSE job[k]]

NoDirectory(j) == End(j, "nodir") /\ UNCHANGED <<dir, made, written>>

Fails(j) == End(j, "failed") /\ UNCHANGED <<dir, made, written>>

Start(j) == IF Scheduled THEN Create(j) \/ Fails(j) ELSE NoDirectory(j)

\* The copy is a snapshot of some moment since the file was created.  A file
\* that was removed meanwhile is written nevertheless, and lost.
Write(j) ==
  /\ job[j].phase = "write"
  /\ LET s == job[j].stamp
     IN  \/ \E v \in job[j].from..commits :
              /\ dir' = IF s \in DOMAIN dir
                        THEN [dir EXCEPT ![s] = [version |-> v, whole |-> job[j].alone]] ELSE dir
              /\ written' = IF job[j].alone THEN written \union {s} ELSE written
              /\ job' = [job EXCEPT ![j].phase = "list"]
              /\ UNCHANGED made
         \/ Fails(j)
  /\ UNCHANGED <<now, server, fired>>

\* Mutants of Victims: the newest files go; one too few goes.
VictimsNewest(S) == {s \in S : Cardinality({x \in S : x < s}) >= BackupNum}
VictimsOneLess(S) == {s \in S : Cardinality({x \in S : x > s}) > BackupNum}

\* All but the last BackupNum names in order of name.
Victims(S) == {s \in S : Cardinality({x \in S : x > s}) >= BackupNum}

AfterList(victims) == IF victims = {} THEN "idle" ELSE "prune"

\* os.ReadDir; files of jobs that failed or have not finished count too.
List(j) ==
  /\ job[j].phase = "list"
  /\ LET victims == Victims(DOMAIN dir)
     IN  \/ /\ job' = [job EXCEPT ![j].phase = AfterList(victims),
                                  ![j].outcome = IF victims = {} THEN "ok" ELSE @,
                                  ![j].victims = victims]
            /\ UNCHANGED <<dir, made, written>>
         \/ Fails(j)
  /\ UNCHANGED <<now, server, fired>>

\* os.Remove, oldest first; an error ends the job, also when another job was
\* faster.
Remove(j) ==
  /\ job[j].phase = "prune"
  /\ \E s \in job[j].victims :
       /\ \A x \in job[j].victims : s <= x
       /\ \/ /\ s \in DOMAIN dir
             /\ dir' = [x \in DOMAIN dir \ {s} |-> dir[x]]
             /\ LET rest == job[j].victims \ {s}
                IN  job' = [job EXCEPT ![j].victims = rest,
                                       ![j].phase = IF rest = {} THEN "idle" ELSE @,
                                       ![j].outcome = IF rest = {} THEN "ok" ELSE @]
             /\ UNCHANGED <<made, written>>
          \/ Fails(j)
  /\ UNCHANGED <<now, server, fired>>

\* A cron job; cron starts it at most once at a time, and not before its next
\* turn after the program started.
Fire(j) ==
  /\ Scheduled /\ proc \in {"up", "draining"} /\ fired < now
  /\ job[j].phase = "idle"
  /\ fired' = now
  /\ Start(j)
  /\ UNCHANGED <<now, server>>

-----------------------------------------------------------------------------
(* The program.                                                            *)

Boot ==
  /\ proc = "down" /\ boots < MaxBoots
  /\ boots' = boots + 1 /\ proc' = "up"
  /\ settled' = 0 /\ late' = FALSE /\ fired' = now
  /\ job' = [j \in Jobs |-> NoJob]
  /\ UNCHANGED <<now, open, commits, dir, made, written>>

\* Anything that goes wrong with the machine; files stay as they are.
Crash ==
  /\ proc # "down"
  /\ proc' = "down" /\ open' = 0
  /\ job' = [j \in Jobs |-> NoJob]
  /\ UNCHANGED <<now, boots, commits, settled, late, fired, dir, made, written>>

Arrive ==
  /\ proc = "up" /\ open < MaxOpen
  /\ open' = open + 1
  /\ UNCHANGED <<now, boots, proc, commits, settled, late, fired, backup>>

\* A request's transaction, as long as the database is open; afterwards the
\* request fails.
Commit ==
  /\ open > 0 /\ proc # "closed" /\ commits < MaxCommits
  /\ commits' = commits + 1
  /\ UNCHANGED <<now, boots, proc, open, settled, late, fired, backup>>

Respond ==
  /\ open > 0
  /\ open' = open - 1
  /\ UNCHANGED <<now, boots, proc, commits, settled, late, fired, backup>>

\* A signal, or a server that ends.
Stop ==
  /\ proc = "up"
  /\ proc' = "draining"
  /\ UNCHANGED <<now, boots, open, commits, settled, late, fired, backup>>

\* Mutant of Patience: Shutdown waits for every request.
PatienceEndless == open = 0

\* Shutdown returns when no request is under way, or at its timeout, which may
\* come at any time.
Patience == TRUE

\* The servers have returned.
Drained ==
  /\ proc = "draining" /\ Patience
  /\ proc' = "stopping" /\ settled' = commits /\ late' = (open > 0)
  /\ UNCHANGED <<now, boots, open, commits, fired, backup>>

\* Mutant of CronStopped: cron's jobs are not waited for.
CronStoppedAtOnce == TRUE

\* sched.Stop returns when the last job has ended.
CronStopped == \A j \in CronJobs : job[j].phase = "idle"

\* The backup at shutdown.
BackUp ==
  /\ proc = "stopping" /\ CronStopped
  /\ proc' = "last"
  /\ Start(Last)
  /\ UNCHANGED <<now, boots, open, commits, settled, late, fired>>

Close ==
  /\ proc = "last" /\ job[Last].phase = "idle"
  /\ proc' = "closed"
  /\ UNCHANGED <<now, boots, open, commits, settled, late, fired, backup>>

\* The process ends, and with it what requests are left.
Exit ==
  /\ proc = "closed"
  /\ proc' = "down" /\ open' = 0
  /\ job' = [j \in Jobs |-> NoJob]
  /\ UNCHANGED <<now, boots, commits, settled, late, fired, dir, made, written>>

Step(j) == Write(j) \/ List(j) \/ Remove(j)

Next ==
  \/ Tick \/ Boot \/ Crash \/ Arrive \/ Commit \/ Respond
  \/ Stop \/ Drained \/ BackUp \/ Close \/ Exit
  \/ \E j \in CronJobs : Fire(j)
  \/ \E j \in Jobs : Write(j) \/ List(j) \/ Remove(j)

Spec == Init /\ [][Next]_vars

\* Running jobs get on and the main goroutine runs; a request may take for ever.
FairSpec ==
  /\ Spec
  /\ WF_vars(Drained) /\ WF_vars(BackUp) /\ WF_vars(Close)
  /\ \A j \in Jobs : WF_vars(Step(j))

-----------------------------------------------------------------------------
(* Properties.                                                             *)

Names == {Stamp[t] : t \in 0..MaxTime}

JobType == [phase : JobPhases, outcome : Outcomes, stamp : Nat, from : Nat,
            alone : BOOLEAN, victims : SUBSET Names]

TypeOK ==
  /\ now \in 0..MaxTime /\ boots \in Nat /\ proc \in Procs /\ open \in Nat
  /\ commits \in Nat /\ settled \in Nat /\ late \in BOOLEAN /\ fired \in Nat
  /\ made \subseteq Names /\ written \subseteq made
  /\ DOMAIN dir \subseteq made
  /\ dir \in [DOMAIN dir -> [version : Nat, whole : BOOLEAN]]
  /\ job \in [Jobs -> JobType]
  /\ \A j \in Jobs : job[j].phase # "idle" => job[j].stamp \in made
  /\ \A j \in Jobs : job[j].phase = "prune" => job[j].victims # {}

\* Enough newer backups have been started for this one to go.
Outdated(s) == Cardinality({x \in made : x > s}) >= BackupNum

Whole(s) == s \in DOMAIN dir /\ dir[s].whole

\* db.go:118-177.  A backup that was written to the end stays in the directory,
\* and stays whole, until backupNum newer ones have been started or its own name
\* comes again, however jobs overlap, fail and crash.
BackupsStay == \A s \in written : Whole(s) \/ Outdated(s)

\* db.go:142-174.  After a shutdown whose backup succeeded no more than backupNum
\* files are left, whatever earlier jobs have left behind.
DirectoryBounded ==
  proc = "closed" /\ job[Last].outcome = "ok" => Cardinality(DOMAIN dir) <= BackupNum

\* main.go:33-57 and server.go:349-353.  The backup at shutdown holds all that was
\* committed before the servers returned, and, unless a request outlived the
\* timeout, all there is in the database.
LastBackupComplete ==
  proc = "closed" /\ job[Last].outcome = "ok" =>
    LET s == job[Last].stamp
    IN  \/ Outdated(s)
        \/ /\ Whole(s)
           /\ dir[s].version >= settled
           /\ ~late => dir[s].version = commits

\* server.go:347-367 and sched/cron.go:23.  A program asked to stop ends, however
\* long its requests take.
ShutdownEnds == proc = "draining" ~> proc \in {"closed", "down"}

\* README.md:187.  "DB backups are triggered by cron and also once on process
\* shutdown": a shutdown ends with a backup unless reading or writing fails.
ShutdownBacksUp == proc = "closed" => job[Last].outcome \in {"ok", "failed"}
=============================================================================
