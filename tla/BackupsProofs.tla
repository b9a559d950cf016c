--------------------------- MODULE BackupsProofs ----------------------------
(***************************************************************************)
(* Proofs about the backups: what was written to the end is only removed   *)
(* for newer backups, and the backup at shutdown holds what it should.     *)
(***************************************************************************)
EXTENDS Backups, FiniteSetTheorems, WellFoundedInduction, TLAPS

USE BackupsAssumption

-----------------------------------------------------------------------------
(* The inductive invariant.                                                *)

\* Files are only removed once enough newer ones have been started.
Kept ==
  /\ IsFiniteSet(made)
  /\ \A s \in made \ DOMAIN dir : Outdated(s)
  /\ \A j \in Jobs : job[j].phase = "prune" => \A s \in job[j].victims : Outdated(s)

\* A file that was written to the end is whole and nobody writes to it; a job
\* that believes to be the only writer is.
Writers ==
  /\ \A s \in written \intersect DOMAIN dir : dir[s].whole
  /\ \A s \in written : Rivals(s) = {}
  /\ \A j \in Jobs : job[j].phase = "write" /\ job[j].alone => Rivals(job[j].stamp) = {j}

\* From the shutdown's backup on there is no other job, and only requests that
\* outlived the timeout change the database.
Alone ==
  /\ proc \in {"last", "closed"} => \A j \in CronJobs : job[j].phase = "idle"
  /\ proc # "last" => job[Last].phase = "idle"
  /\ proc \notin {"last", "closed"} => job[Last].outcome # "ok"
  /\ proc \in {"stopping", "last", "closed"} =>
       settled <= commits /\ (~late => open = 0 /\ settled = commits)

\* The state the last backup has reached.
Reached ==
  LET s == job[Last].stamp
  IN  /\ job[Last].phase \in {"write", "list", "prune"} => job[Last].outcome = "none"
      /\ job[Last].phase = "write" => job[Last].alone /\ settled <= job[Last].from
      /\ job[Last].phase \in {"list", "prune"} \/ job[Last].outcome = "ok" =>
           s \in written /\ (s \in DOMAIN dir => dir[s].version \in settled..commits)
      /\ job[Last].phase = "prune" =>
           Cardinality(DOMAIN dir \ job[Last].victims) <= BackupNum
      /\ job[Last].outcome = "ok" => Cardinality(DOMAIN dir) <= BackupNum

Sound == TypeOK /\ Kept /\ Writers /\ Alone /\ Reached

-----------------------------------------------------------------------------
(* Finite sets of names.                                                   *)

\* Names are numbers.
LEMMA NamesAreNumbers == Names \subseteq Nat /\ \A t \in 0..MaxTime : Stamp[t] \in Names
  BY DEF Names

\* A finite set of numbers has a smallest one: of the finite sets {x : x <= s}
\* one is minimal.
LEMMA HasSmallest ==
  ASSUME NEW T \in SUBSET Nat, IsFiniteSet(T), T # {}
  PROVE  \E m \in T : \A x \in T : m <= x
<1> DEFINE Below(s) == {x \in T : x <= s}
           F == {Below(s) : s \in T}
           R == StrictSubsetOrdering(T)
<1>1. F \subseteq FiniteSubsetsOf(T)
  <2>1. ASSUME NEW s \in T PROVE Below(s) \in FiniteSubsetsOf(T)
    <3>1. Below(s) \in SUBSET T
      OBVIOUS
    <3>2. IsFiniteSet(Below(s))
      BY <3>1, FS_Subset
    <3>3. QED BY <3>1, <3>2 DEF FiniteSubsetsOf
  <2>2. QED BY <2>1
<1>2. F # {}
  OBVIOUS
<1>3. IsWellFoundedOn(R, FiniteSubsetsOf(T))
  BY FS_StrictSubsetOrderingWellFounded
<1>4. PICK D \in F : \A E \in F : <<E, D>> \notin R
  <2> HIDE DEF F, R
  <2>1. QED BY <1>1, <1>2, <1>3, WFMin
<1>5. PICK m \in T : D = Below(m)
  BY <1>4
<1>6. ASSUME NEW x \in T PROVE m <= x
  <2> SUFFICES ASSUME x < m PROVE FALSE
    BY <1>5, <1>6
  <2>1. Below(x) \in F /\ Below(x) \subseteq D
    <3>1. \A y \in T : y <= x => y <= m
      BY <1>6
    <3>2. QED BY <1>5, <1>6, <3>1
  <2>2. m \in D /\ m \notin Below(x)
    BY <1>5
  <2>3. Below(x) \in SUBSET T /\ D \in SUBSET T /\ Below(x) # D
    BY <1>5, <2>2
  <2>4. <<Below(x), D>> \in R
    BY <2>1, <2>3 DEF StrictSubsetOrdering
  <2>5. QED BY <1>4, <2>1, <2>4
<1>7. QED BY <1>6

\* Victims leaves BackupNum names at most.
LEMMA VictimsLeaveFew ==
  ASSUME NEW S \in SUBSET Nat, IsFiniteSet(S)
  PROVE  Cardinality(S \ Victims(S)) <= BackupNum
<1> DEFINE T == S \ Victims(S)
<1> SUFFICES Cardinality(T) <= BackupNum
  OBVIOUS
<1>1. T \in SUBSET S /\ T \in SUBSET Nat /\ IsFiniteSet(T) /\ Cardinality(T) \in Nat
  BY FS_Subset, FS_CardinalityType
<1>2. CASE T = {}
  <2> HIDE DEF T
  <2>1. Cardinality(T) = 0
    BY <1>2, FS_EmptySet
  <2>2. QED BY <2>1
<1>3. CASE T # {}
  <2>1. PICK m \in T : \A x \in T : m <= x
    BY <1>1, <1>3, HasSmallest
  <2> DEFINE U == {x \in S : x > m}
  <2>2. U \in SUBSET S /\ IsFiniteSet(U) /\ Cardinality(U) \in Nat
    BY FS_Subset, FS_CardinalityType
  <2>3. Cardinality(U) < BackupNum
    BY <2>1, <2>2 DEF Victims
  <2>4. T \ {m} \in SUBSET U
    BY <1>1, <2>1
  <2>5. Cardinality(T \ {m}) <= Cardinality(U)
    BY <2>2, <2>4, FS_Subset
  <2>6. Cardinality(T \ {m}) = Cardinality(T) - 1
    BY <1>1, <2>1, FS_RemoveElement
  <2> HIDE DEF T, U
  <2>7. QED BY <1>1, <2>2, <2>3, <2>5, <2>6
<1>4. QED BY <1>2, <1>3

\* What has to go from the directory is outdated: the directory holds no other
\* names than were made.
LEMMA VictimsOutdated ==
  ASSUME IsFiniteSet(made), DOMAIN dir \subseteq made, NEW s \in Victims(DOMAIN dir)
  PROVE  Outdated(s)
<1> DEFINE newer == {x \in DOMAIN dir : x > s}
           all == {x \in made : x > s}
<1>1. IsFiniteSet(all) /\ newer \in SUBSET all
  <2>1. all \in SUBSET made /\ newer \in SUBSET all
    OBVIOUS
  <2>2. QED BY <2>1, FS_Subset
<1>2. Cardinality(newer) <= Cardinality(all) /\ Cardinality(newer) \in Nat /\ Cardinality(all) \in Nat
  BY <1>1, FS_Subset, FS_CardinalityType
<1>3. Cardinality(newer) >= BackupNum
  BY DEF Victims
<1> HIDE DEF newer
<1>4. Cardinality(all) >= BackupNum
  <2> HIDE DEF all
  <2>1. QED BY <1>2, <1>3
<1>5. QED BY <1>4 DEF Outdated

\* What is outdated stays so.
LEMMA OutdatedStays ==
  ASSUME IsFiniteSet(made'), made \subseteq made', NEW s, Outdated(s)
  PROVE  Outdated(s)'
<1> DEFINE old == {x \in made : x > s}
           new == {x \in made' : x > s}
<1>1. IsFiniteSet(new) /\ old \in SUBSET new
  <2>1. new \in SUBSET made' /\ old \in SUBSET new
    OBVIOUS
  <2>2. QED BY <2>1, FS_Subset
<1>2. Cardinality(old) <= Cardinality(new) /\ Cardinality(old) \in Nat /\ Cardinality(new) \in Nat
  BY <1>1, FS_Subset, FS_CardinalityType
<1>3. Cardinality(old) >= BackupNum
  BY DEF Outdated
<1> HIDE DEF old
<1>4. Cardinality(new) >= BackupNum
  <2> HIDE DEF new
  <2>1. QED BY <1>2, <1>3
<1>5. QED BY <1>4 DEF Outdated

-----------------------------------------------------------------------------
(* What the steps do.                                                      *)

\* A job that creates its file.
LEMMA CreateEffect ==
  ASSUME TypeOK, NEW j \in Jobs, Create(j)
  PROVE  LET s == Stamp[now]
         IN  /\ s \in Names /\ s \in Nat
             /\ made' = made \union {s} /\ written' = written \ {s}
             /\ DOMAIN dir' = DOMAIN dir \union {s}
             /\ dir' \in [DOMAIN dir' -> [version : Nat, whole : BOOLEAN]]
             /\ \A x \in DOMAIN dir : x # s => dir'[x] = dir[x]
             /\ job' \in [Jobs -> JobType]
             /\ job'[j].phase = "write" /\ job'[j].outcome = "none"
             /\ job'[j].stamp = s /\ job'[j].from = commits
             /\ job'[j].alone <=> Rivals(s) = {}
             /\ \A k \in Jobs : k # j =>
                  /\ job'[k].phase = job[k].phase /\ job'[k].outcome = job[k].outcome
                  /\ job'[k].stamp = job[k].stamp /\ job'[k].from = job[k].from
                  /\ job'[k].victims = job[k].victims
                  /\ job'[k].alone <=> job[k].alone /\ k \notin Rivals(s)
<1> DEFINE s == Stamp[now]
           mine == [NoJob EXCEPT !.phase = "write", !.stamp = s, !.from = commits,
                                 !.alone = (Rivals(s) = {})]
<1>1. s \in Names /\ s \in Nat
  BY NamesAreNumbers DEF TypeOK
<1>2. /\ dir' = [x \in DOMAIN dir \union {s} |-> IF x = s THEN Empty ELSE dir[x]]
      /\ made' = made \union {s} /\ written' = written \ {s}
      /\ job' = [k \in Jobs |-> IF k = j THEN mine
                                ELSE IF k \in Rivals(s) THEN [job[k] EXCEPT !.alone = FALSE]
                                ELSE job[k]]
  BY DEF Create
<1>3. /\ mine \in JobType /\ mine.phase = "write" /\ mine.outcome = "none"
      /\ mine.stamp = s /\ mine.from = commits /\ (mine.alone <=> Rivals(s) = {})
  BY <1>1 DEF NoJob, JobType, JobPhases, Outcomes, TypeOK
<1> HIDE DEF mine
<1>4. Empty \in [version : Nat, whole : BOOLEAN]
  BY DEF Empty
<1>5. /\ DOMAIN dir' = DOMAIN dir \union {s}
      /\ dir' \in [DOMAIN dir' -> [version : Nat, whole : BOOLEAN]]
      /\ \A x \in DOMAIN dir : x # s => dir'[x] = dir[x]
  <2> HIDE DEF s
  <2>1. QED BY <1>2, <1>4 DEF TypeOK
<1>6. ASSUME NEW k \in Jobs, k # j
      PROVE  /\ job'[k] \in JobType
             /\ job'[k].phase = job[k].phase /\ job'[k].outcome = job[k].outcome
             /\ job'[k].stamp = job[k].stamp /\ job'[k].from = job[k].from
             /\ job'[k].victims = job[k].victims
             /\ job'[k].alone <=> job[k].alone /\ k \notin Rivals(s)
  <2>1. job[k] \in JobType
    BY DEF TypeOK
  <2>2. CASE k \in Rivals(s)
    <3>1. job'[k] = [job[k] EXCEPT !.alone = FALSE]
      BY <1>2, <1>6, <2>2
    <3>2. QED BY <2>1, <2>2, <3>1 DEF JobType
  <2>3. CASE k \notin Rivals(s)
    BY <1>2, <1>6, <2>1, <2>3
  <2>4. QED BY <2>2, <2>3
<1>7. job'[j] = mine
  BY <1>2
<1>8. job' \in [Jobs -> JobType]
  <2>1. \A k \in Jobs : job'[k] \in JobType
    BY <1>3, <1>6, <1>7
  <2>2. job' = [k \in Jobs |-> job'[k]]
    BY <1>2
  <2>3. QED BY <2>1, <2>2
<1>9. QED BY <1>1, <1>2, <1>3, <1>5, <1>6, <1>7, <1>8

\* A job that ends without touching the directory.
Ends(j) ==
  /\ UNCHANGED <<dir, made, written>>
  /\ \E outcome \in {"failed", "nodir"} : End(j, outcome)

\* Ending changes nothing but the job's phase and outcome.
LEMMA EndEffect ==
  ASSUME TypeOK, NEW j \in Jobs, Ends(j)
  PROVE  /\ UNCHANGED <<dir, made, written>>
         /\ job' \in [Jobs -> JobType]
         /\ job'[j].phase = "idle" /\ job'[j].outcome \in {"failed", "nodir"}
         /\ \A k \in Jobs : k # j => job'[k] = job[k]
<1>1. job[j] \in JobType /\ job \in [Jobs -> JobType]
  BY DEF TypeOK
<1>2. PICK outcome \in {"failed", "nodir"} :
        job' = [job EXCEPT ![j].phase = "idle", ![j].outcome = outcome]
  BY DEF Ends, End
<1>3. job'[j] = [job[j] EXCEPT !.phase = "idle", !.outcome = outcome]
  BY <1>1, <1>2
<1>4. job'[j] \in JobType /\ job'[j].phase = "idle" /\ job'[j].outcome = outcome
  BY <1>1, <1>3 DEF JobType, JobPhases, Outcomes
<1>5. \A k \in Jobs : k # j => job'[k] = job[k]
  BY <1>1, <1>2
<1>6. job' \in [Jobs -> JobType]
  <2>1. job' = [k \in Jobs |-> job'[k]]
    BY <1>1, <1>2
  <2>2. QED BY <1>1, <1>4, <1>5, <2>1
<1>7. QED BY <1>4, <1>5, <1>6 DEF Ends

\* A copy that was written to the end.
Copied(j) ==
  /\ job[j].phase = "write"
  /\ \E v \in job[j].from..commits :
       dir' = IF job[j].stamp \in DOMAIN dir
              THEN [dir EXCEPT ![job[j].stamp] = [version |-> v, whole |-> job[j].alone]] ELSE dir
  /\ written' = IF job[j].alone THEN written \union {job[j].stamp} ELSE written
  /\ job' = [job EXCEPT ![j].phase = "list"]
  /\ UNCHANGED made

\* The directory was read, and told the job what has to go.
Listed(j) ==
  /\ job[j].phase = "list"
  /\ LET victims == Victims(DOMAIN dir)
     IN  job' = [job EXCEPT ![j].phase = AfterList(victims),
                            ![j].outcome = IF victims = {} THEN "ok" ELSE @,
                            ![j].victims = victims]
  /\ UNCHANGED <<dir, made, written>>

\* One file was removed.
Removed(j, s) ==
  /\ job[j].phase = "prune" /\ s \in job[j].victims /\ s \in DOMAIN dir
  /\ dir' = [x \in DOMAIN dir \ {s} |-> dir[x]]
  /\ LET rest == job[j].victims \ {s}
     IN  job' = [job EXCEPT ![j].victims = rest,
                            ![j].phase = IF rest = {} THEN "idle" ELSE @,
                            ![j].outcome = IF rest = {} THEN "ok" ELSE @]
  /\ UNCHANGED <<made, written>>

\* A step of a job does its work or ends the job.
LEMMA StepCases ==
  ASSUME NEW j \in Jobs, Step(j)
  PROVE  /\ \/ Copied(j) \/ Listed(j) \/ Ends(j)
            \/ \E s \in job[j].victims : Removed(j, s)
         /\ job[j].phase # "idle"
         /\ UNCHANGED <<now, server, fired>>
<1>1. CASE Write(j)
  BY <1>1 DEF Write, Copied, Fails, Ends
<1>2. CASE List(j)
  BY <1>2 DEF List, Listed, Fails, Ends
<1>3. CASE Remove(j)
  BY <1>3 DEF Remove, Removed, Fails, Ends
<1>4. QED BY <1>1, <1>2, <1>3 DEF Step

\* What the three kinds of work change in a job's record.
LEMMA CopiedEffect ==
  ASSUME TypeOK, NEW j \in Jobs, Copied(j)
  PROVE  /\ UNCHANGED made
         /\ written' = IF job[j].alone THEN written \union {job[j].stamp} ELSE written
         /\ DOMAIN dir' = DOMAIN dir
         /\ dir' \in [DOMAIN dir' -> [version : Nat, whole : BOOLEAN]]
         /\ \A x \in DOMAIN dir : x # job[j].stamp => dir'[x] = dir[x]
         /\ job[j].stamp \in DOMAIN dir =>
              /\ dir'[job[j].stamp].version \in job[j].from..commits
              /\ dir'[job[j].stamp].whole <=> job[j].alone
         /\ job' \in [Jobs -> JobType]
         /\ job'[j].phase = "list" /\ job'[j].outcome = job[j].outcome /\ job'[j].stamp = job[j].stamp
         /\ \A k \in Jobs : k # j => job'[k] = job[k]
<1>1. job[j] \in JobType /\ job \in [Jobs -> JobType]
  BY DEF TypeOK
<1>2. /\ job'[j] = [job[j] EXCEPT !.phase = "list"]
      /\ \A k \in Jobs : k # j => job'[k] = job[k]
      /\ job' = [k \in Jobs |-> job'[k]]
  BY <1>1 DEF Copied
<1>3. /\ job'[j] \in JobType /\ job'[j].phase = "list"
      /\ job'[j].outcome = job[j].outcome /\ job'[j].stamp = job[j].stamp
  BY <1>1, <1>2 DEF JobType, JobPhases
<1>4. job' \in [Jobs -> JobType]
  BY <1>1, <1>2, <1>3
<1> DEFINE s == job[j].stamp
<1>5. PICK v \in job[j].from..commits :
        dir' = IF s \in DOMAIN dir
               THEN [dir EXCEPT ![s] = [version |-> v, whole |-> job[j].alone]] ELSE dir
  BY DEF Copied
<1>6. v \in Nat /\ job[j].alone \in BOOLEAN
  BY <1>1 DEF JobType, TypeOK
<1>7. /\ DOMAIN dir' = DOMAIN dir
      /\ \A x \in DOMAIN dir : x # s => dir'[x] = dir[x]
      /\ s \in DOMAIN dir => dir'[s] = [version |-> v, whole |-> job[j].alone]
      /\ dir' \in [DOMAIN dir' -> [version : Nat, whole : BOOLEAN]]
  <2>1. [version |-> v, whole |-> job[j].alone] \in [version : Nat, whole : BOOLEAN]
    BY <1>6
  <2> HIDE DEF s
  <2>2. dir \in [DOMAIN dir -> [version : Nat, whole : BOOLEAN]]
    BY DEF TypeOK
  <2>3. QED BY <1>5, <2>1, <2>2
<1>8. QED BY <1>2, <1>3, <1>4, <1>7 DEF Copied

\* Listing changes the job alone.
LEMMA ListedEffect ==
  ASSUME TypeOK, NEW j \in Jobs, Listed(j)
  PROVE  /\ UNCHANGED <<dir, made, written>>
         /\ job' \in [Jobs -> JobType]
         /\ job'[j].phase \in {"idle", "prune"} /\ job'[j].stamp = job[j].stamp
         /\ job'[j].victims = Victims(DOMAIN dir)
         /\ IF job'[j].victims = {} THEN job'[j].phase = "idle" /\ job'[j].outcome = "ok"
                                    ELSE job'[j].phase = "prune" /\ job'[j].outcome = job[j].outcome
         /\ \A k \in Jobs : k # j => job'[k] = job[k]
<1> DEFINE victims == Victims(DOMAIN dir)
<1>1. job[j] \in JobType /\ job \in [Jobs -> JobType] /\ victims \subseteq Names
  BY DEF TypeOK, Victims
<1> HIDE DEF victims
<1>2. /\ job'[j] = [job[j] EXCEPT !.phase = AfterList(victims),
                                  !.outcome = IF victims = {} THEN "ok" ELSE @,
                                  !.victims = victims]
      /\ \A k \in Jobs : k # j => job'[k] = job[k]
      /\ job' = [k \in Jobs |-> job'[k]]
      /\ UNCHANGED <<dir, made, written>>
  BY <1>1 DEF Listed, victims
<1>3. /\ job'[j] \in JobType /\ job'[j].phase = AfterList(victims)
      /\ job'[j].outcome = (IF victims = {} THEN "ok" ELSE job[j].outcome)
      /\ job'[j].victims = victims /\ job'[j].stamp = job[j].stamp
  BY <1>1, <1>2 DEF JobType, JobPhases, Outcomes, AfterList
<1>4. job' \in [Jobs -> JobType]
  BY <1>1, <1>2, <1>3
<1>5. QED BY <1>2, <1>3, <1>4 DEF AfterList, victims

\* Removing takes one file, and the name off the job's list.
LEMMA RemovedEffect ==
  ASSUME TypeOK, NEW j \in Jobs, NEW s, Removed(j, s)
  PROVE  /\ UNCHANGED <<made, written>>
         /\ DOMAIN dir' = DOMAIN dir \ {s}
         /\ dir' \in [DOMAIN dir' -> [version : Nat, whole : BOOLEAN]]
         /\ \A x \in DOMAIN dir' : dir'[x] = dir[x]
         /\ job' \in [Jobs -> JobType]
         /\ job'[j].phase \in {"idle", "prune"} /\ job'[j].stamp = job[j].stamp
         /\ job'[j].victims = job[j].victims \ {s}
         /\ IF job'[j].victims = {} THEN job'[j].phase = "idle" /\ job'[j].outcome = "ok"
                                    ELSE job'[j].phase = "prune" /\ job'[j].outcome = job[j].outcome
         /\ \A k \in Jobs : k # j => job'[k] = job[k]
<1> DEFINE rest == job[j].victims \ {s}
<1>1. job[j] \in JobType /\ job \in [Jobs -> JobType] /\ rest \subseteq Names
  BY DEF TypeOK, JobType
<1> HIDE DEF rest
<1>2. /\ job'[j] = [job[j] EXCEPT !.victims = rest,
                                  !.phase = IF rest = {} THEN "idle" ELSE @,
                                  !.outcome = IF rest = {} THEN "ok" ELSE @]
      /\ \A k \in Jobs : k # j => job'[k] = job[k]
      /\ job' = [k \in Jobs |-> job'[k]]
  BY <1>1 DEF Removed, rest
<1>3. /\ job'[j] \in JobType
      /\ job'[j].phase = (IF rest = {} THEN "idle" ELSE "prune")
      /\ job'[j].outcome = (IF rest = {} THEN "ok" ELSE job[j].outcome)
      /\ job'[j].victims = rest /\ job'[j].stamp = job[j].stamp
  BY <1>1, <1>2 DEF JobType, JobPhases, Outcomes, Removed
<1>4. job' \in [Jobs -> JobType]
  BY <1>1, <1>2, <1>3
<1>5. dir' = [x \in DOMAIN dir \ {s} |-> dir[x]] /\ UNCHANGED <<made, written>>
  BY DEF Removed
<1>6. /\ DOMAIN dir' = DOMAIN dir \ {s}
      /\ dir' \in [DOMAIN dir' -> [version : Nat, whole : BOOLEAN]]
      /\ \A x \in DOMAIN dir' : dir'[x] = dir[x]
  BY <1>5 DEF TypeOK
<1>7. QED BY <1>2, <1>3, <1>4, <1>5, <1>6 DEF rest

\* Steps that no job takes part in.
Other == Tick \/ Boot \/ Crash \/ Arrive \/ Commit \/ Respond \/ Stop \/ Drained \/ Close \/ Exit

\* They leave the files alone, and the jobs too unless the program goes.
LEMMA OtherEffect ==
  ASSUME TypeOK, Other
  PROVE  /\ UNCHANGED <<dir, made, written>>
         /\ job' = job \/ (job' = [j \in Jobs |-> NoJob] /\ proc' \in {"up", "down"})
<1>1. CASE Tick \/ Arrive \/ Commit \/ Respond \/ Stop \/ Drained \/ Close
  BY <1>1 DEF Tick, Arrive, Commit, Respond, Stop, Drained, Close, backup
<1>2. CASE Boot \/ Crash \/ Exit
  BY <1>2 DEF Boot, Crash, Exit
<1>3. QED BY <1>1, <1>2 DEF Other

\* A job begins: a turn of cron, or the shutdown's backup.
Begins(j) == (j \in CronJobs /\ Fire(j)) \/ (j = Last /\ BackUp)

\* Every step is a job's beginning, a job's step, or another step.
LEMMA NextCases ==
  ASSUME Next
  PROVE  \/ Other
         \/ \E j \in Jobs : Begins(j) \/ Step(j)
  BY DEF Next, Other, Begins, Step, Jobs

\* A job that begins has been idle, and creates its file or ends.
LEMMA BeginsEffect ==
  ASSUME Alone, NEW j \in Jobs, Begins(j)
  PROVE  /\ Create(j) \/ Ends(j)
         /\ job[j].phase = "idle"
         /\ UNCHANGED <<now, boots, open, commits, settled, late>>
<1>1. CASE Fire(j)
  BY <1>1 DEF Fire, Start, Fails, NoDirectory, Ends, server
<1>2. CASE j = Last /\ BackUp
  BY <1>2 DEF BackUp, Start, Fails, NoDirectory, Ends, Alone
<1>3. QED BY <1>1, <1>2 DEF Begins

\* What a step does to files and jobs.
Moves(j) ==
  \/ Create(j) /\ job[j].phase = "idle"
  \/ Ends(j)
  \/ Copied(j)
  \/ Listed(j)
  \/ \E s \in job[j].victims : Removed(j, s)

\* Every action is one of these moves.
LEMMA StepMoves ==
  ASSUME Alone, Next
  PROVE  Other \/ \E j \in Jobs : Moves(j)
<1>1. CASE Other
  BY <1>1
<1>2. ASSUME NEW j \in Jobs, Begins(j) PROVE Moves(j)
  BY <1>2, BeginsEffect DEF Moves
<1>3. ASSUME NEW j \in Jobs, Step(j) PROVE Moves(j)
  BY <1>3, StepCases DEF Moves
<1>4. QED BY <1>1, <1>2, <1>3, NextCases

-----------------------------------------------------------------------------
(* Types.                                                                  *)

\* In the beginning every variable has its type.
LEMMA TypeInit == Init => TypeOK
<1> SUFFICES ASSUME Init PROVE TypeOK
  OBVIOUS
<1>1. NoJob \in JobType /\ NoJob.phase = "idle"
  BY DEF NoJob, JobType, JobPhases, Outcomes
<1>2. job = [j \in Jobs |-> NoJob] /\ dir = [s \in {} |-> NoJob]
  BY DEF Init
<1>3. job \in [Jobs -> JobType] /\ \A j \in Jobs : job[j].phase = "idle"
  BY <1>1, <1>2
<1>4. DOMAIN dir = {} /\ dir \in [DOMAIN dir -> [version : Nat, whole : BOOLEAN]]
  BY <1>2
<1>5. /\ now \in 0..MaxTime /\ boots \in Nat /\ proc \in Procs /\ open \in Nat
      /\ commits \in Nat /\ settled \in Nat /\ fired \in Nat
      /\ made = {} /\ written = {}
  BY DEF Init, Procs
<1>6. late \in BOOLEAN
  BY DEF Init
<1>7. QED BY <1>3, <1>4, <1>5, <1>6 DEF TypeOK

\* The clock and the program.
LEMMA ProgramTypes ==
  ASSUME TypeOK, Next
  PROVE  /\ now' \in 0..MaxTime /\ boots' \in Nat /\ proc' \in Procs /\ open' \in Nat
         /\ commits' \in Nat /\ settled' \in Nat /\ late' \in BOOLEAN /\ fired' \in Nat
<1>1. CASE Tick \/ Arrive \/ Commit \/ Respond \/ Stop \/ Close \/ Crash \/ Exit
  <2>1. /\ now' \in 0..MaxTime /\ boots' \in Nat /\ proc' \in Procs /\ open' \in Nat
        /\ commits' \in Nat /\ settled' \in Nat /\ fired' \in Nat
    <3>0. /\ now \in 0..MaxTime /\ boots \in Nat /\ proc \in Procs /\ open \in Nat
          /\ commits \in Nat /\ settled \in Nat /\ fired \in Nat
      BY DEF TypeOK
    <3>1. CASE Tick \/ Arrive \/ Commit
      <4>1. CASE Tick
        BY <3>0, <4>1, BackupsAssumption DEF Tick, server
      <4>2. CASE Arrive
        BY <3>0, <4>2 DEF Arrive
      <4>3. CASE Commit
        BY <3>0, <4>3 DEF Commit
      <4>4. QED BY <3>1, <4>1, <4>2, <4>3
    <3>2. CASE Respond \/ Stop \/ Close
      BY <3>0, <3>2 DEF Respond, Stop, Close, server, Procs
    <3>3. CASE Crash \/ Exit
      BY <3>0, <3>3 DEF Crash, Exit, server, Procs
    <3>4. QED BY <1>1, <3>1, <3>2, <3>3
  <2>2. late' = late
    BY <1>1 DEF Tick, Arrive, Commit, Respond, Stop, Close, Crash, Exit, server
  <2>3. QED BY <2>1, <2>2 DEF TypeOK
<1>2. CASE Boot
  <2>1. /\ now' \in 0..MaxTime /\ boots' \in Nat /\ proc' \in Procs /\ open' \in Nat
        /\ commits' \in Nat /\ settled' \in Nat /\ fired' \in Nat
    BY <1>2 DEF Boot, TypeOK, Procs
  <2>2. late' = FALSE
    BY <1>2 DEF Boot
  <2>3. QED BY <2>1, <2>2
<1>3. CASE Drained
  <2>1. /\ now' \in 0..MaxTime /\ boots' \in Nat /\ proc' \in Procs /\ open' \in Nat
        /\ commits' \in Nat /\ settled' \in Nat /\ fired' \in Nat
    BY <1>3 DEF Drained, TypeOK, Procs
  <2>2. late' = (open > 0)
    BY <1>3 DEF Drained
  <2>3. QED BY <2>1, <2>2
<1>4. ASSUME NEW j \in Jobs, Fire(j) \/ BackUp \/ Step(j)
      PROVE  /\ now' \in 0..MaxTime /\ boots' \in Nat /\ proc' \in Procs /\ open' \in Nat
             /\ commits' \in Nat /\ settled' \in Nat /\ late' \in BOOLEAN /\ fired' \in Nat
  <2>1. /\ now' = now /\ boots' = boots /\ open' = open /\ commits' = commits
        /\ settled' = settled /\ late' = late
        /\ proc' \in {proc, "last"} /\ fired' \in {fired, now}
    BY <1>4, StepCases DEF Fire, BackUp, server
  <2>2. QED BY <2>1 DEF TypeOK, Procs
<1>5. QED BY <1>1, <1>2, <1>3, <1>4, NextCases DEF Other, Begins

\* Files and jobs.
LEMMA FileTypes ==
  ASSUME TypeOK, Alone, Next
  PROVE  /\ made' \subseteq Names /\ written' \subseteq made'
         /\ DOMAIN dir' \subseteq made'
         /\ dir' \in [DOMAIN dir' -> [version : Nat, whole : BOOLEAN]]
         /\ job' \in [Jobs -> JobType]
         /\ \A j \in Jobs : job'[j].phase # "idle" => job'[j].stamp \in made'
         /\ \A j \in Jobs : job'[j].phase = "prune" => job'[j].victims # {}
<1> DEFINE Goal ==
      /\ made' \subseteq Names /\ written' \subseteq made'
      /\ DOMAIN dir' \subseteq made'
      /\ dir' \in [DOMAIN dir' -> [version : Nat, whole : BOOLEAN]]
      /\ job' \in [Jobs -> JobType]
      /\ \A j \in Jobs : job'[j].phase # "idle" => job'[j].stamp \in made'
      /\ \A j \in Jobs : job'[j].phase = "prune" => job'[j].victims # {}
<1>0. /\ made \subseteq Names /\ written \subseteq made
      /\ DOMAIN dir \subseteq made
      /\ dir \in [DOMAIN dir -> [version : Nat, whole : BOOLEAN]]
      /\ job \in [Jobs -> JobType]
      /\ \A j \in Jobs : job[j].phase # "idle" => job[j].stamp \in made
      /\ \A j \in Jobs : job[j].phase = "prune" => job[j].victims # {}
  BY DEF TypeOK
<1>1. CASE Other
  <2>1. NoJob \in JobType /\ NoJob.phase = "idle"
    BY DEF NoJob, JobType, JobPhases, Outcomes
  <2>2. CASE job' = job
    BY <1>0, <1>1, <2>2, OtherEffect
  <2>3. CASE job' = [j \in Jobs |-> NoJob]
    <3>1. job' \in [Jobs -> JobType] /\ \A j \in Jobs : job'[j].phase = "idle"
      BY <2>1, <2>3
    <3>2. UNCHANGED <<dir, made, written>>
      BY <1>1, OtherEffect
    <3>3. QED BY <1>0, <3>1, <3>2
  <2>4. QED BY <1>1, <2>2, <2>3, OtherEffect
<1>2. ASSUME NEW j \in Jobs, Create(j) PROVE Goal
  <2> DEFINE s == Stamp[now]
  <2>1. /\ s \in Names /\ made' = made \union {s} /\ written' = written \ {s}
        /\ DOMAIN dir' = DOMAIN dir \union {s}
        /\ dir' \in [DOMAIN dir' -> [version : Nat, whole : BOOLEAN]]
        /\ job' \in [Jobs -> JobType]
        /\ job'[j].phase = "write" /\ job'[j].stamp = s
        /\ \A k \in Jobs : k # j =>
             /\ job'[k].phase = job[k].phase /\ job'[k].stamp = job[k].stamp
             /\ job'[k].victims = job[k].victims
    BY <1>2, CreateEffect
  <2> HIDE DEF s
  <2>2. \A k \in Jobs : job'[k].phase # "idle" => job'[k].stamp \in made'
    BY <1>0, <2>1
  <2>3. \A k \in Jobs : job'[k].phase = "prune" => job'[k].victims # {}
    BY <1>0, <2>1
  <2>4. made' \subseteq Names /\ written' \subseteq made' /\ DOMAIN dir' \subseteq made'
    BY <1>0, <2>1
  <2>5. QED BY <2>1, <2>2, <2>3, <2>4
<1>3. ASSUME NEW j \in Jobs, Ends(j) PROVE Goal
  BY <1>0, <1>3, EndEffect
<1>4. ASSUME NEW j \in Jobs, Copied(j) PROVE Goal
  <2>1. job[j].phase = "write" /\ job[j].stamp \in made
    BY <1>0, <1>4 DEF Copied
  <2>2. written' \subseteq made'
    BY <1>0, <1>4, <2>1, CopiedEffect
  <2>3. QED BY <1>0, <1>4, <2>1, <2>2, CopiedEffect
<1>5. ASSUME NEW j \in Jobs, Listed(j) PROVE Goal
  BY <1>0, <1>5, ListedEffect DEF Listed
<1>6. ASSUME NEW j \in Jobs, NEW s, Removed(j, s) PROVE Goal
  <2>1. /\ UNCHANGED <<made, written>> /\ DOMAIN dir' = DOMAIN dir \ {s}
        /\ dir' \in [DOMAIN dir' -> [version : Nat, whole : BOOLEAN]]
        /\ job' \in [Jobs -> JobType] /\ job'[j].stamp = job[j].stamp
        /\ job'[j].phase = "prune" => job'[j].victims # {}
        /\ \A k \in Jobs : k # j => job'[k] = job[k]
    BY <1>6, RemovedEffect
  <2>2. job[j].phase # "idle"
    BY <1>6 DEF Removed
  <2>3. QED BY <1>0, <2>1, <2>2
<1>7. QED BY <1>1, <1>2, <1>3, <1>4, <1>5, <1>6, StepMoves DEF Moves

\* Every step keeps the types.
LEMMA TypeStep ==
  ASSUME TypeOK, Alone, Next
  PROVE  TypeOK'
  BY ProgramTypes, FileTypes DEF TypeOK

-----------------------------------------------------------------------------
(* The conjuncts of the invariant.                                         *)

\* No step removes a file too early.
LEMMA KeptStep ==
  ASSUME TypeOK, Alone, Kept, Next
  PROVE  Kept'
<1>1. IsFiniteSet(made') /\ made \subseteq made'
  <2>1. CASE made' = made
    BY <2>1 DEF Kept
  <2>2. ASSUME NEW j \in Jobs, Create(j) PROVE IsFiniteSet(made') /\ made \subseteq made'
    <3>1. IsFiniteSet(made) /\ made' = made \union {Stamp[now]}
      BY <2>2, CreateEffect DEF Kept
    <3>2. QED BY <3>1, FS_AddElement
  <2>3. QED BY <2>1, <2>2, StepMoves, OtherEffect, EndEffect, CopiedEffect, ListedEffect,
               RemovedEffect DEF Moves
<1>2. \A s : Outdated(s) => Outdated(s)'
  BY <1>1, OutdatedStays
<1>3. ASSUME NEW s \in made' \ DOMAIN dir' PROVE Outdated(s)'
  <2>1. s \in made \ DOMAIN dir \/ \E j \in Jobs : s \in job[j].victims /\ job[j].phase = "prune"
    <3>1. CASE Other
      BY <3>1, OtherEffect
    <3>2. ASSUME NEW j \in Jobs, Create(j) PROVE s \in made \ DOMAIN dir
      BY <3>2, CreateEffect
    <3>3. ASSUME NEW j \in Jobs, Ends(j) \/ Copied(j) \/ Listed(j) PROVE s \in made \ DOMAIN dir
      BY <3>3, EndEffect, CopiedEffect, ListedEffect
    <3>4. ASSUME NEW j \in Jobs, NEW x \in job[j].victims, Removed(j, x)
          PROVE  s \in made \ DOMAIN dir \/ (s \in job[j].victims /\ job[j].phase = "prune")
      BY <3>4, RemovedEffect DEF Removed
    <3>5. QED BY <3>1, <3>2, <3>3, <3>4, StepMoves DEF Moves
  <2>2. QED BY <1>2, <2>1 DEF Kept
<1>4. ASSUME NEW k \in Jobs, job'[k].phase = "prune", NEW s \in job'[k].victims
      PROVE  Outdated(s)'
  <2>1. \/ job[k].phase = "prune" /\ s \in job[k].victims
        \/ s \in Victims(DOMAIN dir)
    <3>1. CASE Other
      BY <1>4, <3>1, OtherEffect DEF NoJob
    <3>2. ASSUME NEW j \in Jobs, Create(j) PROVE job[k].phase = "prune" /\ s \in job[k].victims
      BY <1>4, <3>2, CreateEffect
    <3>3. ASSUME NEW j \in Jobs, Ends(j) \/ Copied(j) PROVE job[k].phase = "prune" /\ s \in job[k].victims
      BY <1>4, <3>3, EndEffect, CopiedEffect
    <3>4. ASSUME NEW j \in Jobs, Listed(j)
          PROVE  (job[k].phase = "prune" /\ s \in job[k].victims) \/ s \in Victims(DOMAIN dir)
      BY <1>4, <3>4, ListedEffect
    <3>5. ASSUME NEW j \in Jobs, NEW x \in job[j].victims, Removed(j, x)
          PROVE  job[k].phase = "prune" /\ s \in job[k].victims
      <4>1. job[j].phase = "prune"
        BY <3>5 DEF Removed
      <4>2. CASE k = j
        <5>1. job'[j].victims = job[j].victims \ {x}
          BY <3>5, RemovedEffect
        <5>2. QED BY <1>4, <4>1, <4>2, <5>1
      <4>3. CASE k # j
        <5>1. job'[k] = job[k]
          <6>1. job \in [Jobs -> JobType]
            BY DEF TypeOK
          <6>2. QED BY <3>5, <4>3, <6>1 DEF Removed
        <5>2. QED BY <1>4, <5>1
      <4>4. QED BY <4>2, <4>3
    <3>6. QED BY <3>1, <3>2, <3>3, <3>4, <3>5, StepMoves DEF Moves
  <2>2. IsFiniteSet(made) /\ DOMAIN dir \subseteq made
    BY DEF TypeOK, Kept
  <2>3. QED BY <1>2, <2>1, <2>2, VictimsOutdated DEF Kept
<1>5. QED BY <1>1, <1>3, <1>4 DEF Kept

\* The rivals after a step.
RivalsAfter(s) == {k \in Jobs : job'[k].phase = "write" /\ job'[k].stamp = s}

\* A job that does not write any more is nobody's rival.
LEMMA FewerRivals ==
  ASSUME NEW j \in Jobs, job'[j].phase # "write", \A k \in Jobs : k # j => job'[k] = job[k]
  PROVE  \A s : RivalsAfter(s) = Rivals(s) \ {j}
  BY DEF Rivals, RivalsAfter

\* Every step keeps who may still write what.
LEMMA WritersStep ==
  ASSUME TypeOK, Alone, Writers, Next
  PROVE  Writers'
<1>0. /\ \A s \in written \intersect DOMAIN dir : dir[s].whole
      /\ \A s \in written : Rivals(s) = {}
      /\ \A j \in Jobs : job[j].phase = "write" /\ job[j].alone => Rivals(job[j].stamp) = {j}
  BY DEF Writers
<1> DEFINE Goal ==
      /\ \A s \in written' \intersect DOMAIN dir' : dir'[s].whole
      /\ \A s \in written' : RivalsAfter(s) = {}
      /\ \A j \in Jobs : job'[j].phase = "write" /\ job'[j].alone => RivalsAfter(job'[j].stamp) = {j}
<1>1. ASSUME Other PROVE Goal
  <2>1. UNCHANGED <<dir, written>>
    BY <1>1, OtherEffect
  <2>2. CASE job' = job
    <3>1. \A s \in written' \intersect DOMAIN dir' : dir'[s].whole
      BY <1>0, <2>1
    <3>2. \A s : RivalsAfter(s) = Rivals(s)
      BY <2>2 DEF Rivals, RivalsAfter
    <3>3. QED BY <1>0, <2>1, <2>2, <3>1, <3>2
  <2>3. CASE job' = [j \in Jobs |-> NoJob]
    <3>1. \A j \in Jobs : job'[j].phase # "write"
      BY <2>3 DEF NoJob
    <3>2. \A s : RivalsAfter(s) = {}
      BY <3>1 DEF RivalsAfter
    <3>3. \A s \in written' \intersect DOMAIN dir' : dir'[s].whole
      BY <1>0, <2>1
    <3>4. QED BY <3>1, <3>2, <3>3
  <2>4. QED BY <1>1, <2>2, <2>3, OtherEffect
<1>2. ASSUME NEW j \in Jobs, Create(j), job[j].phase = "idle" PROVE Goal
  <2> DEFINE s == Stamp[now]
  <2>1. /\ written' = written \ {s} /\ DOMAIN dir' = DOMAIN dir \union {s}
        /\ \A x \in DOMAIN dir : x # s => dir'[x] = dir[x]
        /\ job'[j].phase = "write" /\ job'[j].stamp = s /\ (job'[j].alone <=> Rivals(s) = {})
        /\ \A k \in Jobs : k # j =>
             /\ job'[k].phase = job[k].phase /\ job'[k].stamp = job[k].stamp
             /\ job'[k].alone <=> job[k].alone /\ k \notin Rivals(s)
    <3>1. /\ written' = written \ {s} /\ DOMAIN dir' = DOMAIN dir \union {s}
          /\ \A x \in DOMAIN dir : x # s => dir'[x] = dir[x]
      BY <1>2, CreateEffect
    <3>2. job'[j].phase = "write" /\ job'[j].stamp = s /\ (job'[j].alone <=> Rivals(s) = {})
      BY <1>2, CreateEffect
    <3>3. ASSUME NEW k \in Jobs, k # j
          PROVE  /\ job'[k].phase = job[k].phase /\ job'[k].stamp = job[k].stamp
                 /\ job'[k].alone <=> job[k].alone /\ k \notin Rivals(s)
      BY <1>2, <3>3, CreateEffect
    <3>4. QED BY <3>1, <3>2, <3>3
  <2> HIDE DEF s
  <2>2. /\ \A x : x # s => RivalsAfter(x) = Rivals(x)
        /\ RivalsAfter(s) = Rivals(s) \union {j}
    BY <1>2, <2>1 DEF Rivals, RivalsAfter
  <2>3. ASSUME NEW k \in Jobs, job'[k].phase = "write", job'[k].alone
        PROVE  RivalsAfter(job'[k].stamp) = {k}
    <3>1. CASE k = j
      BY <2>1, <2>2, <2>3, <3>1
    <3>2. CASE k # j
      <4>1. job[k].phase = "write" /\ job[k].alone /\ job[k].stamp # s
        BY <2>1, <2>3, <3>2 DEF Rivals
      <4>2. QED BY <1>0, <2>1, <2>2, <3>2, <4>1
    <3>3. QED BY <3>1, <3>2
  <2>4. QED BY <1>0, <2>1, <2>2, <2>3
<1>3. ASSUME NEW j \in Jobs, Ends(j) PROVE Goal
  <2>1. /\ UNCHANGED <<dir, written>> /\ job'[j].phase # "write"
        /\ \A k \in Jobs : k # j => job'[k] = job[k]
    BY <1>3, EndEffect
  <2>2. \A s : RivalsAfter(s) = Rivals(s) \ {j}
    BY <2>1, FewerRivals
  <2>3. QED BY <1>0, <2>1, <2>2
<1>4. ASSUME NEW j \in Jobs, Copied(j) PROVE Goal
  <2> DEFINE s == job[j].stamp
  <2>1. /\ written' = IF job[j].alone THEN written \union {s} ELSE written
        /\ DOMAIN dir' = DOMAIN dir
        /\ \A x \in DOMAIN dir : x # s => dir'[x] = dir[x]
        /\ s \in DOMAIN dir => (dir'[s].whole <=> job[j].alone)
        /\ job'[j].phase # "write"
        /\ \A k \in Jobs : k # j => job'[k] = job[k]
    BY <1>4, CopiedEffect
  <2>2. \A x : RivalsAfter(x) = Rivals(x) \ {j}
    BY <2>1, FewerRivals
  <2>3. j \in Rivals(s) /\ s \notin written /\ (job[j].alone => Rivals(s) = {j})
    <3>1. job[j].phase = "write"
      BY <1>4 DEF Copied
    <3>2. j \in Rivals(s)
      BY <3>1 DEF Rivals
    <3>3. QED BY <1>0, <3>1, <3>2
  <2> HIDE DEF s
  <2>4. \A x \in written' \intersect DOMAIN dir' : dir'[x].whole
    <3> SUFFICES ASSUME NEW x \in written', x \in DOMAIN dir' PROVE dir'[x].whole
      OBVIOUS
    <3>1. CASE x = s
      BY <2>1, <2>3, <3>1
    <3>2. CASE x # s
      BY <1>0, <2>1, <3>2
    <3>3. QED BY <3>1, <3>2
  <2>5. \A x \in written' : RivalsAfter(x) = {}
    BY <1>0, <2>1, <2>2, <2>3
  <2>6. \A k \in Jobs : job'[k].phase = "write" /\ job'[k].alone => RivalsAfter(job'[k].stamp) = {k}
    BY <1>0, <2>1, <2>2
  <2>7. QED BY <2>4, <2>5, <2>6
<1>5. ASSUME NEW j \in Jobs, Listed(j) PROVE Goal
  <2>1. /\ UNCHANGED <<dir, written>> /\ job'[j].phase # "write"
        /\ \A k \in Jobs : k # j => job'[k] = job[k]
    BY <1>5, ListedEffect
  <2>2. \A s : RivalsAfter(s) = Rivals(s) \ {j}
    BY <2>1, FewerRivals
  <2>3. QED BY <1>0, <2>1, <2>2
<1>6. ASSUME NEW j \in Jobs, NEW x, Removed(j, x) PROVE Goal
  <2>1. /\ written' = written /\ DOMAIN dir' = DOMAIN dir \ {x}
        /\ \A y \in DOMAIN dir' : dir'[y] = dir[y]
        /\ job'[j].phase # "write"
        /\ \A k \in Jobs : k # j => job'[k] = job[k]
    BY <1>6, RemovedEffect
  <2>2. \A s : RivalsAfter(s) = Rivals(s) \ {j}
    BY <2>1, FewerRivals
  <2>3. QED BY <1>0, <2>1, <2>2
<1>7. Goal
  <2> HIDE DEF Goal
  <2>1. QED BY <1>1, <1>2, <1>3, <1>4, <1>5, <1>6, StepMoves DEF Moves
<1>8. QED BY <1>7 DEF Writers, Rivals, RivalsAfter

\* Every step keeps the other jobs away from the last backup.
LEMMA AloneStep ==
  ASSUME TypeOK, Alone, Next
  PROVE  Alone'
<1>0. Last \in Jobs /\ Last \notin CronJobs /\ CronJobs \subseteq Jobs
  BY DEF Jobs
<1>1. CASE Boot \/ Crash \/ Exit
  <2>1. job' = [j \in Jobs |-> NoJob] /\ proc' \in {"up", "down"}
    BY <1>1 DEF Boot, Crash, Exit
  <2>2. job'[Last].phase = "idle" /\ job'[Last].outcome # "ok"
    BY <1>0, <2>1 DEF NoJob
  <2>3. QED BY <2>1, <2>2 DEF Alone
<1>2. CASE Tick \/ Arrive \/ Commit \/ Respond \/ Stop \/ Close
  <2>1. job' = job /\ late' = late /\ settled' = settled
    BY <1>2 DEF Tick, Arrive, Commit, Respond, Stop, Close, server, backup
  <2>2. \/ proc' = proc
        \/ proc' = "draining" /\ proc = "up"
        \/ proc' = "closed" /\ proc = "last" /\ job[Last].phase = "idle"
    BY <1>2 DEF Tick, Arrive, Commit, Respond, Stop, Close, server
  <2>3. \/ commits' = commits /\ open' = open
        \/ open > 0 /\ commits' \in {commits, commits + 1}
        \/ proc = "up" /\ proc' = "up"
    BY <1>2 DEF Tick, Arrive, Commit, Respond, Stop, Close, server
  <2>4. proc' \in {"stopping", "last", "closed"} =>
          settled' <= commits' /\ (~late' => open' = 0 /\ settled' = commits')
    BY <2>1, <2>2, <2>3 DEF Alone, TypeOK
  <2>5. QED BY <2>1, <2>2, <2>4 DEF Alone
<1>3. CASE Drained
  <2>1. /\ proc' = "stopping" /\ proc = "draining" /\ settled' = commits /\ late' = (open > 0)
        /\ open' = open /\ commits' = commits /\ job' = job
    BY <1>3 DEF Drained, backup
  <2>2. ~late' => open = 0
    <3>1. open \in Nat
      BY DEF TypeOK
    <3>2. CASE open > 0
      BY <2>1, <3>2
    <3>3. CASE open = 0
      BY <3>3
    <3>4. QED BY <3>1, <3>2, <3>3
  <2>3. settled' <= commits' /\ (~late' => open' = 0 /\ settled' = commits')
    BY <2>1, <2>2 DEF TypeOK
  <2>4. QED BY <2>1, <2>3 DEF Alone
<1>4. ASSUME NEW j \in CronJobs, Fire(j) PROVE Alone'
  <2>1. Create(j) \/ Ends(j)
    BY <1>0, <1>4, BeginsEffect DEF Begins
  <2>2. job'[Last].phase = job[Last].phase /\ job'[Last].outcome = job[Last].outcome
    BY <1>0, <2>1, CreateEffect, EndEffect
  <2>3. proc' = proc /\ proc \in {"up", "draining"}
    BY <1>4 DEF Fire, server
  <2>4. QED BY <2>2, <2>3 DEF Alone
<1>5. CASE BackUp
  <2>1. Create(Last) \/ Ends(Last)
    BY <1>0, <1>5, BeginsEffect DEF Begins
  <2>2. \A k \in CronJobs : job'[k].phase = job[k].phase
    BY <1>0, <2>1, CreateEffect, EndEffect
  <2>3. /\ proc = "stopping" /\ proc' = "last" /\ CronStopped
        /\ UNCHANGED <<open, commits, settled, late>>
    BY <1>5 DEF BackUp
  <2>4. QED BY <2>2, <2>3 DEF Alone, CronStopped
<1>6. ASSUME NEW j \in Jobs, Step(j) PROVE Alone'
  <2>1. UNCHANGED <<proc, open, commits, settled, late>> /\ job[j].phase # "idle"
    BY <1>6, StepCases DEF server
  <2>2. \A k \in Jobs : k # j => job'[k] = job[k]
    BY <1>6, StepCases, EndEffect, CopiedEffect, ListedEffect, RemovedEffect
  <2>3. CASE j = Last
    <3>1. proc = "last"
      BY <2>1, <2>3 DEF Alone
    <3>2. QED BY <1>0, <2>1, <2>2, <2>3, <3>1 DEF Alone
  <2>4. CASE j # Last
    <3>1. j \in CronJobs /\ proc \notin {"last", "closed"}
      BY <2>1, <2>4 DEF Alone, Jobs
    <3>2. QED BY <1>0, <2>1, <2>2, <2>4, <3>1 DEF Alone
  <2>5. QED BY <2>3, <2>4
<1>7. QED BY <1>1, <1>2, <1>3, <1>4, <1>5, <1>6 DEF Next, Step

\* Before its backup begins the shutdown has reached nothing yet.
LEMMA ReachedBefore ==
  ASSUME Alone, proc \notin {"last", "closed"}
  PROVE  Reached
  BY DEF Alone, Reached

\* While nothing happens to the files, commits only make the backup older.
LEMMA ReachedStays ==
  ASSUME TypeOK, Reached, UNCHANGED <<job, dir, written, settled>>,
         commits' \in {commits, commits + 1}
  PROVE  Reached'
<1>1. settled' = settled /\ commits' >= commits /\ commits \in Nat /\ commits' \in Nat
  BY DEF TypeOK
<1>2. \A n : n \in settled..commits => n \in settled'..commits'
  BY <1>1 DEF TypeOK
<1>3. job[Last].phase = "write" => job[Last].alone /\ settled' <= job[Last].from
  BY <1>1 DEF Reached
<1>4. QED BY <1>2, <1>3 DEF Reached

\* Every step keeps what the last backup has reached.
LEMMA ReachedStep ==
  ASSUME TypeOK, Kept, Writers, Alone, Reached, Next
  PROVE  Reached'
<1> DEFINE s == job[Last].stamp
           t == job'[Last].stamp
<1>0. /\ Last \in Jobs /\ job[Last] \in JobType
      /\ commits \in Nat /\ settled \in Nat /\ DOMAIN dir \subseteq Nat /\ IsFiniteSet(DOMAIN dir)
  <2>1. DOMAIN dir \in SUBSET made /\ IsFiniteSet(made) /\ made \subseteq Nat
    BY NamesAreNumbers DEF TypeOK, Kept
  <2>2. IsFiniteSet(DOMAIN dir)
    BY <2>1, FS_Subset
  <2>3. QED BY <2>1, <2>2 DEF TypeOK, Jobs
<1>1. CASE proc' \notin {"last", "closed"}
  <2>1. Alone'
    BY AloneStep
  <2>2. QED BY <1>1, <2>1 DEF Alone, Reached
<1>2. CASE proc' \in {"last", "closed"} /\ Other
  <2>1. Tick \/ Commit \/ Respond \/ Close \/ (Arrive /\ FALSE)
    BY <1>2 DEF Other, Boot, Crash, Exit, Stop, Drained, Arrive, server
  <2>2. UNCHANGED <<job, dir, written, settled>> /\ commits' \in {commits, commits + 1}
    BY <2>1 DEF Tick, Commit, Respond, Close, server, backup
  <2>3. QED BY <2>2, ReachedStays
<1>3. ASSUME NEW j \in CronJobs, Fire(j), proc' \in {"last", "closed"} PROVE FALSE
  BY <1>3 DEF Fire, server
<1>4. CASE BackUp
  <2>1. /\ Create(Last) \/ Ends(Last)
        /\ UNCHANGED <<commits, settled>> /\ settled <= commits
    BY <1>0, <1>4, BeginsEffect DEF Begins, BackUp, Alone
  <2>2. CASE Create(Last)
    <3>1. \A s1 : Rivals(s1) = {}
      BY <1>4 DEF BackUp, CronStopped, Alone, Rivals, Jobs
    <3>2. /\ job'[Last].phase = "write" /\ job'[Last].outcome = "none"
          /\ job'[Last].from = commits
          /\ job'[Last].alone <=> Rivals(Stamp[now]) = {}
      BY <1>0, <2>2, CreateEffect
    <3>3. job'[Last].alone /\ settled' <= job'[Last].from
      BY <2>1, <3>1, <3>2
    <3>4. QED BY <3>2, <3>3 DEF Reached
  <2>3. CASE Ends(Last)
    <3>1. job'[Last].phase = "idle" /\ job'[Last].outcome # "ok"
      BY <1>0, <2>3, EndEffect
    <3>2. QED BY <3>1 DEF Reached
  <2>4. QED BY <2>1, <2>2, <2>3
<1>5. ASSUME NEW j \in Jobs, Step(j), proc' \in {"last", "closed"} PROVE Reached'
  <2>1. /\ UNCHANGED <<proc, commits, settled>> /\ job[j].phase # "idle"
        /\ Copied(j) \/ Listed(j) \/ Ends(j) \/ \E x \in job[j].victims : Removed(j, x)
    BY <1>5, StepCases DEF server
  <2>2. j = Last
    BY <1>5, <2>1 DEF Alone, Jobs
  <2>3. CASE Copied(Last)
    <3>1. job[Last].phase = "write" /\ job[Last].outcome = "none"
      BY <2>3 DEF Copied, Reached
    <3>2. job[Last].alone /\ settled <= job[Last].from
      BY <3>1 DEF Reached
    <3>3. /\ written' = written \union {s} /\ DOMAIN dir' = DOMAIN dir
          /\ job'[Last].phase = "list" /\ job'[Last].outcome = "none" /\ t = s
      BY <1>0, <2>3, <3>1, <3>2, CopiedEffect
    <3>4. s \in DOMAIN dir => dir'[s].version \in job[Last].from..commits
      BY <1>0, <2>3, CopiedEffect
    <3>5. \A n : n \in job[Last].from..commits => n \in settled'..commits'
      BY <1>0, <2>1, <3>2 DEF JobType
    <3>6. t \in written' /\ (t \in DOMAIN dir' => dir'[t].version \in settled'..commits')
      BY <3>3, <3>4, <3>5
    <3>7. QED BY <3>3, <3>6 DEF Reached
  <2>4. CASE Listed(Last)
    <3>1. job[Last].phase = "list" /\ job[Last].outcome = "none"
      BY <2>4 DEF Listed, Reached
    <3>2. s \in written /\ (s \in DOMAIN dir => dir[s].version \in settled..commits)
      BY <3>1 DEF Reached
    <3>3. /\ UNCHANGED <<dir, written>> /\ t = s
          /\ job'[Last].phase \in {"idle", "prune"}
          /\ job'[Last].victims = Victims(DOMAIN dir)
          /\ IF job'[Last].victims = {}
             THEN job'[Last].phase = "idle" /\ job'[Last].outcome = "ok"
             ELSE job'[Last].phase = "prune" /\ job'[Last].outcome = "none"
      BY <1>0, <2>4, <3>1, ListedEffect
    <3>4. t \in written' /\ (t \in DOMAIN dir' => dir'[t].version \in settled'..commits')
      BY <2>1, <3>2, <3>3
    <3>5. Cardinality(DOMAIN dir' \ job'[Last].victims) <= BackupNum
      <4>1. Cardinality(DOMAIN dir \ Victims(DOMAIN dir)) <= BackupNum
        BY <1>0, VictimsLeaveFew
      <4>2. QED BY <3>3, <4>1
    <3>6. job'[Last].outcome = "ok" => Cardinality(DOMAIN dir') <= BackupNum
      <4>1. job'[Last].outcome = "ok" => DOMAIN dir' \ job'[Last].victims = DOMAIN dir'
        BY <3>3
      <4>2. QED BY <3>5, <4>1
    <3>7. QED BY <3>3, <3>4, <3>5, <3>6 DEF Reached
  <2>5. ASSUME NEW x \in job[Last].victims, Removed(Last, x) PROVE Reached'
    <3>1. /\ job[Last].phase = "prune" /\ job[Last].outcome = "none" /\ x \in DOMAIN dir
          /\ Cardinality(DOMAIN dir \ job[Last].victims) <= BackupNum
      BY <2>5 DEF Removed, Reached
    <3>2. s \in written /\ (s \in DOMAIN dir => dir[s].version \in settled..commits)
      BY <3>1 DEF Reached
    <3>3. /\ written' = written /\ DOMAIN dir' = DOMAIN dir \ {x} /\ t = s
          /\ \A y \in DOMAIN dir' : dir'[y] = dir[y]
          /\ job'[Last].phase \in {"idle", "prune"}
          /\ job'[Last].victims = job[Last].victims \ {x}
          /\ IF job'[Last].victims = {}
             THEN job'[Last].phase = "idle" /\ job'[Last].outcome = "ok"
             ELSE job'[Last].phase = "prune" /\ job'[Last].outcome = "none"
      BY <1>0, <2>5, <3>1, RemovedEffect
    <3>4. t \in written' /\ (t \in DOMAIN dir' => dir'[t].version \in settled'..commits')
      BY <2>1, <3>2, <3>3
    <3>5. Cardinality(DOMAIN dir' \ job'[Last].victims) <= BackupNum
      <4>1. DOMAIN dir' \ job'[Last].victims = DOMAIN dir \ job[Last].victims
        BY <2>5, <3>3
      <4>2. QED BY <3>1, <4>1
    <3>6. job'[Last].outcome = "ok" => Cardinality(DOMAIN dir') <= BackupNum
      <4>1. job'[Last].outcome = "ok" => DOMAIN dir' \ job'[Last].victims = DOMAIN dir'
        BY <3>3
      <4>2. QED BY <3>5, <4>1
    <3>7. QED BY <3>3, <3>4, <3>5, <3>6 DEF Reached
  <2>6. CASE Ends(Last)
    <3>1. job'[Last].phase = "idle" /\ job'[Last].outcome # "ok"
      BY <1>0, <2>6, EndEffect
    <3>2. QED BY <3>1 DEF Reached
  <2>7. QED BY <2>1, <2>2, <2>3, <2>4, <2>5, <2>6
<1>6. QED BY <1>1, <1>2, <1>3, <1>4, <1>5, NextCases DEF Begins, Jobs

-----------------------------------------------------------------------------
(* The invariant holds.                                                    *)

\* The inductive invariant holds in the beginning.
LEMMA SoundInit == Init => Sound
<1> SUFFICES ASSUME Init PROVE Sound
  OBVIOUS
<1>1. TypeOK
  BY TypeInit
<1>2. made = {} /\ written = {} /\ proc = "down" /\ job = [j \in Jobs |-> NoJob] /\ Last \in Jobs
  BY DEF Init, Jobs
<1>3. \A j \in Jobs : job[j].phase = "idle" /\ job[j].outcome = "none"
  BY <1>2 DEF NoJob
<1>4. Kept
  BY <1>2, <1>3, FS_EmptySet DEF Kept
<1>5. Writers
  BY <1>2, <1>3 DEF Writers
<1>6. Alone
  BY <1>2, <1>3 DEF Alone, Jobs
<1>7. Reached
  BY <1>2, <1>3 DEF Reached
<1>8. QED BY <1>1, <1>4, <1>5, <1>6, <1>7 DEF Sound

\* Every step preserves the inductive invariant.
LEMMA SoundStep == Sound /\ [Next]_vars => Sound'
<1> SUFFICES ASSUME Sound, [Next]_vars PROVE Sound'
  OBVIOUS
<1>1. CASE Next
  BY <1>1, TypeStep, KeptStep, WritersStep, AloneStep, ReachedStep DEF Sound
<1>2. CASE UNCHANGED vars
  BY <1>2 DEF Sound, TypeOK, Kept, Writers, Alone, Reached, Outdated, Rivals,
              vars, server, backup
<1>3. QED BY <1>1, <1>2

\* Every reachable state satisfies the inductive invariant.
THEOREM Soundness == Spec => []Sound
  BY SoundInit, SoundStep, PTL DEF Spec

\* The variables stay within their types.
THEOREM TypeCorrect == Spec => []TypeOK
<1>1. Sound => TypeOK
  BY DEF Sound
<1>2. QED BY <1>1, Soundness, PTL

\* db.go:118-177: no overlap of jobs, failure or crash costs a backup that was
\* written to the end, before backupNum newer ones were started.
THEOREM BackupsAreKept == Spec => []BackupsStay
<1>1. Sound => BackupsStay
  <2> SUFFICES ASSUME Sound, NEW s \in written PROVE Whole(s) \/ Outdated(s)
    BY DEF BackupsStay
  <2>1. CASE s \in DOMAIN dir
    BY <2>1 DEF Sound, Writers, Whole
  <2>2. CASE s \notin DOMAIN dir
    BY <2>2 DEF Sound, TypeOK, Kept
  <2>3. QED BY <2>1, <2>2
<1>2. QED BY <1>1, Soundness, PTL

\* db.go:142-174: a shutdown's successful backup leaves backupNum files at most,
\* whatever failed jobs have left behind before.
THEOREM DirectoryIsBounded == Spec => []DirectoryBounded
<1>1. Sound => DirectoryBounded
  BY DEF Sound, Reached, DirectoryBounded
<1>2. QED BY <1>1, Soundness, PTL

\* main.go:33-57: the shutdown's backup holds all that was committed before the
\* servers returned, and everything if no request outlived the timeout.
THEOREM LastBackupIsComplete == Spec => []LastBackupComplete
<1>1. Sound => LastBackupComplete
  <2> SUFFICES ASSUME Sound, proc = "closed", job[Last].outcome = "ok"
               PROVE  LET s == job[Last].stamp
                      IN  \/ Outdated(s)
                          \/ /\ Whole(s)
                             /\ dir[s].version >= settled
                             /\ ~late => dir[s].version = commits
    BY DEF LastBackupComplete
  <2> DEFINE s == job[Last].stamp
  <2>1. s \in written /\ (s \in DOMAIN dir => dir[s].version \in settled..commits)
    BY DEF Sound, Reached
  <2>2. ~late => settled = commits
    BY DEF Sound, Alone
  <2>3. CASE s \notin DOMAIN dir
    BY <2>1, <2>3 DEF Sound, TypeOK, Kept
  <2>4. CASE s \in DOMAIN dir
    <3>1. Whole(s)
      BY <2>1, <2>4 DEF Sound, Writers, Whole
    <3>2. dir[s].version \in settled..commits /\ settled \in Nat /\ commits \in Nat
      BY <2>1, <2>4 DEF Sound, TypeOK
    <3>3. dir[s].version >= settled /\ (settled = commits => dir[s].version = commits)
      BY <3>2
    <3>4. QED BY <2>2, <3>1, <3>3
  <2>5. QED BY <2>3, <2>4
<1>2. QED BY <1>1, Soundness, PTL
=============================================================================
