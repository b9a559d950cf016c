--------------------------- MODULE NotifierProofs ---------------------------
(***************************************************************************)
(* Proofs about the notifier: no puzzle is announced early, twice or out   *)
(* of turn over any number of starts and crashes, whenever Discord carries *)
(* out the calls it was sent; nothing but the call under way comes through *)
(* once the context is cancelled; and replies to administrators hold.      *)
(***************************************************************************)
EXTENDS Notifier, TLAPS

USE PuzzlesAssumption

-----------------------------------------------------------------------------
(* The inductive invariant.                                                *)

\* A puzzle's turn comes after its unlock time, once, and takes it off the list;
\* a program that is down went down after all turns there were.
Turns ==
  \A p \in Puzzles :
    /\ tries[p] <= 1
    /\ tries[p] > 0 => Unlock[p] <= now /\ (proc = "down" => Unlock[p] <= downSince)
    /\ tries[p] > 0 => p \notin pending

\* What there is of an announcement, with what may still come of the calls sent.
Threads(p) == threads[p] + Sent(p, "thread")
Messages(p) == posts[p] + Sent(p, "message")

\* Nothing is sent but in a puzzle's turn: first the thread, and the message only
\* when there is one.
Posted ==
  /\ \A p \in Puzzles : Messages(p) <= threads[p] /\ Threads(p) <= tries[p]
  /\ sender.phase \in {"thread", "message"} => tries[sender.puzzle] = 1
  /\ sender.phase = "thread" =>
       /\ Messages(sender.puzzle) = 0
       /\ ~sender.called => Threads(sender.puzzle) = 0
       /\ sender.called => Threads(sender.puzzle) = 1
  /\ sender.phase = "message" =>
       /\ threads[sender.puzzle] = 1
       /\ ~sender.called => Messages(sender.puzzle) = 0

\* Announcements stay within reach.  While its context lives, all that is left of
\* the list and the puzzle whose turn it is are within reach as a whole.
InReach ==
  /\ \A p \in Puzzles : Threads(p) <= reach[p].threads /\ Messages(p) <= reach[p].posts
  /\ ~cancelled /\ proc # "down" => \A p \in pending : reach[p] = Whole
  /\ ~cancelled /\ sender.phase \in {"thread", "message"} => reach[sender.puzzle] = Whole

\* What a request has made when it is about to make a call.
Sofar(phase) ==
  CASE phase = "dropThread" -> {"thread"}
    [] phase = "dropMessage" -> {"message"}
    [] phase = "lock" -> {"notifications"}
    [] phase = "pin" -> {"notifications", "locked"}
    [] phase = "general" -> {"notifications", "locked", "pinned"}
    [] OTHER -> {}

\* The things that replies name, and that are never taken back.
Named == {"notifications", "general"}

\* What one slot promises: a request under way has made what its phase says, less
\* the call that is sent and not carried out, and knows what it has made.
Honest(r) ==
  /\ job[r].phase # "idle" =>
       /\ ~job[r].ok
       /\ job[r].ids = Sofar(job[r].phase) \intersect Named
       /\ ~job[r].called => asked[r] = "idle" /\ made[r] = Sofar(job[r].phase)
       /\ job[r].called /\ asked[r] = "idle" => made[r] = Effect(job[r].phase, Sofar(job[r].phase))
       /\ job[r].called /\ asked[r] # "idle" => asked[r] = job[r].phase /\ made[r] = Sofar(job[r].phase)
  /\ job[r].phase = "idle" => ~job[r].called
  /\ job[r].phase = "idle" /\ job[r].ok => asked[r] = "idle" /\ made[r] \in {{}, SetUp}
  /\ job[r].ids \subseteq made[r] \intersect Named

AllHonest == \A r \in Requests : Honest(r)

Sound == TypeOK /\ Turns /\ NoneOvertaken /\ Posted /\ InReach /\ AllHonest

-----------------------------------------------------------------------------
(* Kinds of steps.                                                         *)

\* The program's own steps, none of which makes a call.
ProgramStep ==
  Tick \/ Boot \/ Signal \/ ServerEnds \/ StopCancels \/ StopReturns \/ Crash

\* The goroutine's steps in a turn, and its end.
SenderStep == Leave \/ CallDiscord \/ Answered \/ CallFails

\* Discord's steps for the schedule.
DiscordStep == \E p \in Puzzles, what \in {"thread", "message"} : CarryOut(p, what)

\* The steps of one request.
RequestStep(r) ==
  \/ BeginTest(r) \/ BeginSetup(r) \/ Disconnect(r)
  \/ RequestCalls(r) \/ RequestCarriedOut(r) \/ RequestAnswered(r) \/ RequestFails(r)

\* A step is one of the program, the goroutine, Discord, or a request.
LEMMA NextCases ==
  ASSUME Next
  PROVE  \/ ProgramStep
         \/ \E p \in Puzzles : Wake(p)
         \/ SenderStep \/ DiscordStep
         \/ \E r \in Requests : RequestStep(r)
  BY DEF Next, ProgramStep, SenderStep, DiscordStep, RequestStep

\* Only requests' own steps, and the program's end, touch the requests.
LEMMA RequestsKept ==
  /\ ProgramStep => UNCHANGED <<asked, made>> /\ (job' = job \/ EndJobs)
  /\ \A p \in Puzzles : Wake(p) => UNCHANGED requests
  /\ SenderStep \/ DiscordStep => UNCHANGED requests
<1>1. ProgramStep => UNCHANGED <<asked, made>> /\ (job' = job \/ EndJobs)
  BY DEF ProgramStep, Tick, Boot, Signal, ServerEnds, StopCancels, StopReturns, Crash, requests
<1>2. QED
  BY <1>1 DEF Wake, SenderStep, DiscordStep, Leave, CallDiscord, Answered, CallFails, CarryOut

\* A request's steps touch nothing else.
LEMMA ScheduleKept ==
  ASSUME NEW r \in Requests, RequestStep(r)
  PROVE  UNCHANGED <<now, program, schedule>>
  BY DEF RequestStep, BeginTest, BeginSetup, BeginJob, Disconnect, RequestCalls, RequestCarriedOut,
         RequestAnswered, RequestFails

-----------------------------------------------------------------------------
(* Types.                                                                  *)

Jobs == [phase : JobPhases, called : BOOLEAN, live : BOOLEAN, ok : BOOLEAN, ids : SUBSET Things]

Senders == [phase : SenderPhases, puzzle : Puzzles \union {NoPuzzle}, called : BOOLEAN]

SenderOK == sender \in Senders /\ (sender.puzzle = NoPuzzle <=> sender.phase \in {"waiting", "gone"})

\* A goroutine that waits, or is gone, has no puzzle.
LEMMA RestingType ==
  ASSUME sender' = Waiting \/ sender' = Gone
  PROVE  SenderOK'
<1>1. CASE sender' = Waiting
  BY <1>1 DEF Waiting, SenderOK, Senders, SenderPhases
<1>2. CASE sender' = Gone
  BY <1>2 DEF Gone, SenderOK, Senders, SenderPhases
<1>3. QED BY <1>1, <1>2

\* At the start nothing has been posted and the program is down.
LEMMA InitTypes == Init => TypeOK
<1> SUFFICES ASSUME Init PROVE TypeOK
  OBVIOUS
<1>1. job \in [Requests -> Jobs] /\ asked \in [Requests -> JobPhases]
  BY DEF Init, NoJob, JobPhases, Jobs
<1>2. SenderOK
  BY DEF Init, Gone, SenderPhases, Senders, SenderOK
<1>3. reach \in [Puzzles -> [threads : Nat, posts : Nat]]
  BY DEF Init, Whole
<1>4. QED BY <1>1, <1>2, <1>3 DEF Init, TypeOK, Procs, Jobs, Senders, SenderOK

\* Each call leaves things that there are.
LEMMA EffectType ==
  ASSUME NEW phase \in JobPhases \ {"idle"}, NEW things \in SUBSET Things
  PROVE  Effect(phase, things) \in SUBSET Things
  BY DEF Effect, JobPhases, Things, SetUp

\* After a call comes one that there is, or none.
LEMMA FollowingType ==
  ASSUME NEW phase \in JobPhases
  PROVE  Following(phase) \in JobPhases /\ Reported(phase) \in SUBSET Things
  BY DEF Following, Reported, JobPhases, Things, SetUp

\* A request's steps keep the types of its slot.
LEMMA RequestType ==
  ASSUME TypeOK, NEW r \in Requests, RequestStep(r)
  PROVE  job' \in [Requests -> Jobs] /\ asked' \in [Requests -> JobPhases]
         /\ made' \in [Requests -> SUBSET Things]
<1>1. /\ job \in [Requests -> Jobs] /\ asked \in [Requests -> JobPhases]
      /\ made \in [Requests -> SUBSET Things]
      /\ job[r] \in Jobs /\ asked[r] \in JobPhases /\ made[r] \in SUBSET Things
  BY DEF TypeOK, Jobs
<1>2. ASSUME NEW first \in JobPhases, BeginJob(r, first)
      PROVE  job' \in [Requests -> Jobs] /\ asked' \in [Requests -> JobPhases]
             /\ made' \in [Requests -> SUBSET Things]
  <2>1. [NoJob EXCEPT !.phase = first, !.live = TRUE] \in Jobs
    BY DEF NoJob, Jobs
  <2>2. job' \in [Requests -> Jobs]
    BY <1>1, <1>2, <2>1 DEF BeginJob
  <2>3. asked' \in [Requests -> JobPhases] /\ made' \in [Requests -> SUBSET Things]
    BY <1>1, <1>2 DEF BeginJob, JobPhases
  <2>4. QED BY <2>2, <2>3
<1>3. CASE BeginTest(r) \/ BeginSetup(r)
  <2>1. "thread" \in JobPhases /\ "notifications" \in JobPhases
    BY DEF JobPhases
  <2>2. QED BY <1>2, <1>3, <2>1 DEF BeginTest, BeginSetup
<1>4. CASE Disconnect(r)
  <2>1. job' = [job EXCEPT ![r] = [job[r] EXCEPT !.live = FALSE]] /\ UNCHANGED <<asked, made>>
    BY <1>1, <1>4 DEF Disconnect
  <2>2. [job[r] EXCEPT !.live = FALSE] \in Jobs
    BY <1>1 DEF Jobs
  <2>3. QED BY <1>1, <2>1, <2>2
<1>5. CASE RequestCalls(r)
  <2>1. /\ job' = [job EXCEPT ![r] = [job[r] EXCEPT !.called = TRUE]]
        /\ asked' = [asked EXCEPT ![r] = job[r].phase] /\ UNCHANGED made
    BY <1>1, <1>5 DEF RequestCalls
  <2>2. [job[r] EXCEPT !.called = TRUE] \in Jobs /\ job[r].phase \in JobPhases
    BY <1>1 DEF Jobs
  <2>3. QED BY <1>1, <2>1, <2>2
<1>6. CASE RequestCarriedOut(r)
  <2>1. /\ asked[r] # "idle" /\ made' = [made EXCEPT ![r] = Effect(asked[r], made[r])]
        /\ asked' = [asked EXCEPT ![r] = "idle"] /\ UNCHANGED job
    BY <1>1, <1>6 DEF RequestCarriedOut
  <2>2. Effect(asked[r], made[r]) \in SUBSET Things
    BY <1>1, <2>1, EffectType
  <2>3. "idle" \in JobPhases
    BY DEF JobPhases
  <2>4. QED BY <1>1, <2>1, <2>2, <2>3
<1>7. CASE RequestAnswered(r)
  <2> DEFINE next == Following(job[r].phase)
             after == [job[r] EXCEPT !.phase = next, !.called = FALSE, !.ok = (next = "idle"),
                                     !.ids = @ \union Reported(job[r].phase)]
  <2>1. job' = [job EXCEPT ![r] = after] /\ UNCHANGED <<asked, made>>
    BY <1>1, <1>7 DEF RequestAnswered
  <2>2. next \in JobPhases /\ Reported(job[r].phase) \in SUBSET Things
    BY <1>1, FollowingType DEF Jobs
  <2>3. after \in Jobs
    <3> HIDE DEF next
    <3>1. QED BY <1>1, <2>2 DEF Jobs
  <2>4. QED BY <1>1, <2>1, <2>3
<1>8. CASE RequestFails(r)
  <2>1. /\ job' = [job EXCEPT ![r] = [job[r] EXCEPT !.phase = "idle", !.called = FALSE]]
        /\ UNCHANGED <<asked, made>>
    BY <1>1, <1>8 DEF RequestFails
  <2>2. [job[r] EXCEPT !.phase = "idle", !.called = FALSE] \in Jobs
    BY <1>1 DEF Jobs, JobPhases
  <2>3. QED BY <1>1, <2>1, <2>2
<1>9. QED BY <1>3, <1>4, <1>5, <1>6, <1>7, <1>8 DEF RequestStep

\* Every step keeps the types.
LEMMA TypeStep == TypeOK /\ [Next]_vars => TypeOK'
<1> SUFFICES ASSUME TypeOK, [Next]_vars PROVE TypeOK'
  OBVIOUS
<1>1. CASE UNCHANGED vars
  BY <1>1 DEF TypeOK, vars, program, schedule, announced, requests
<1>2. CASE ProgramStep
  <2>1. UNCHANGED <<threads, posts, tries, sent, asked, made>>
    BY <1>2, RequestsKept DEF ProgramStep, Tick, Boot, Signal, ServerEnds, StopCancels, StopReturns, Crash,
                              schedule, announced
  <2>2. /\ now' \in Nat /\ proc' \in Procs /\ downSince' \in Nat /\ cancelled' \in BOOLEAN /\ boots' \in Nat
    <3>1. now' = now \/ now' = now + 1
      BY <1>2 DEF ProgramStep, Tick, Boot, Signal, ServerEnds, StopCancels, StopReturns, Crash
    <3>2. downSince' = downSince \/ downSince' = now
      BY <1>2 DEF ProgramStep, Tick, Boot, Signal, ServerEnds, StopCancels, StopReturns, Crash, program
    <3>3. boots' = boots \/ boots' = boots + 1
      BY <1>2 DEF ProgramStep, Tick, Boot, Signal, ServerEnds, StopCancels, StopReturns, Crash, program
    <3>4. proc' = proc \/ proc' \in Procs
      BY <1>2 DEF ProgramStep, Tick, Boot, Signal, ServerEnds, StopCancels, StopReturns, Crash, program, Procs
    <3>5. (cancelled' = cancelled) \/ (cancelled' = TRUE) \/ (cancelled' = FALSE)
      BY <1>2 DEF ProgramStep, Tick, Boot, Signal, ServerEnds, StopCancels, StopReturns, Crash, program
    <3>6. cancelled' \in BOOLEAN
      BY <3>5 DEF TypeOK
    <3>7. QED BY <3>1, <3>2, <3>3, <3>4, <3>6 DEF TypeOK
  <2>3. pending' \subseteq Puzzles
    <3>1. pending' = pending \/ pending' = {p \in Puzzles : Listed(p)}
      BY <1>2 DEF ProgramStep, Tick, Boot, Signal, ServerEnds, StopCancels, StopReturns, Crash, schedule
    <3>2. QED BY <3>1 DEF TypeOK
  <2>4. SenderOK'
    <3>1. sender' = sender \/ sender' = Waiting \/ sender' = Gone
      BY <1>2 DEF ProgramStep, Tick, Boot, Signal, ServerEnds, StopCancels, StopReturns, Crash, schedule
    <3>2. CASE sender' = sender
      BY <3>2 DEF TypeOK, SenderOK, Senders
    <3>3. CASE sender' = Waiting \/ sender' = Gone
      BY <3>3, RestingType
    <3>4. QED BY <3>1, <3>2, <3>3
  <2>5. reach' \in [Puzzles -> [threads : Nat, posts : Nat]]
    <3>1. reach \in [Puzzles -> [threads : Nat, posts : Nat]] /\ threads \in [Puzzles -> Nat]
          /\ posts \in [Puzzles -> Nat]
      BY DEF TypeOK
    <3>2. CASE reach' = reach
      BY <3>1, <3>2
    <3>3. CASE CutOff
      BY <3>1, <3>3 DEF CutOff, Sent
    <3>4. CASE Boot
      BY <3>1, <3>4 DEF Boot, Whole
    <3>5. QED
      BY <1>2, <3>2, <3>3, <3>4
      DEF ProgramStep, Tick, Signal, ServerEnds, StopCancels, StopReturns, Crash, schedule
  <2>6. job' \in [Requests -> Jobs]
    <3>1. NoJob \in Jobs
      BY DEF NoJob, JobPhases, Jobs
    <3>2. QED BY <1>2, <3>1, RequestsKept DEF TypeOK, EndJobs, Jobs
  <2>7. QED BY <2>1, <2>2, <2>3, <2>4, <2>5, <2>6 DEF TypeOK, SenderOK, Senders, Jobs
<1>3. ASSUME NEW p \in Puzzles, Wake(p) PROVE TypeOK'
  <2>1. SenderOK'
    BY <1>3 DEF Wake, Waiting, Senders, SenderOK, SenderPhases
  <2>2. tries' \in [Puzzles -> Nat] /\ pending' \subseteq Puzzles
    BY <1>3 DEF TypeOK, Wake
  <2>3. UNCHANGED <<now, proc, downSince, cancelled, boots, sent, threads, posts, reach, job, asked, made>>
    BY <1>3 DEF Wake, program, announced, requests
  <2>4. QED BY <2>1, <2>2, <2>3 DEF TypeOK, SenderOK, Senders
<1>4. CASE SenderStep
  <2>1. SenderOK'
    <3>1. SenderOK
      BY DEF TypeOK, SenderOK, Senders
    <3>2. CASE sender' = Waiting \/ sender' = Gone
      BY <3>2, RestingType
    <3>3. CASE CallDiscord
      <4>1. sender' = [phase |-> sender.phase, puzzle |-> sender.puzzle, called |-> TRUE]
        BY <1>4, <3>1, <3>3 DEF CallDiscord, SenderOK, Senders
      <4>2. QED BY <3>1, <4>1 DEF SenderOK, Senders
    <3>4. CASE Answered /\ sender.phase = "thread"
      <4>1. sender' = [phase |-> "message", puzzle |-> sender.puzzle, called |-> FALSE]
        BY <3>1, <3>4 DEF Answered, SenderOK, Senders
      <4>2. QED BY <3>1, <3>4, <4>1 DEF SenderOK, Senders, SenderPhases
    <3>5. QED BY <1>4, <3>2, <3>3, <3>4 DEF SenderStep, Leave, Answered, CallFails, Failed
  <2>2. sent' \subseteq Puzzles \X {"thread", "message"}
    BY <1>4 DEF TypeOK, SenderStep, Leave, CallDiscord, Answered, CallFails, Senders
  <2>3. UNCHANGED <<now, proc, downSince, cancelled, boots, pending, threads, posts, tries, reach, job, asked, made>>
    BY <1>4 DEF SenderStep, Leave, CallDiscord, Answered, CallFails, program, announced, requests
  <2>4. QED BY <2>1, <2>2, <2>3 DEF TypeOK, SenderOK, Senders
<1>5. ASSUME NEW p \in Puzzles, NEW what \in {"thread", "message"}, CarryOut(p, what) PROVE TypeOK'
  <2>1. threads' \in [Puzzles -> Nat] /\ posts' \in [Puzzles -> Nat]
    <3>1. /\ threads' = threads \/ threads' = [threads EXCEPT ![p] = threads[p] + 1]
          /\ posts' = posts \/ posts' = [posts EXCEPT ![p] = posts[p] + 1]
      BY <1>5 DEF CarryOut
    <3>2. /\ threads \in [Puzzles -> Nat] /\ threads[p] + 1 \in Nat
          /\ posts \in [Puzzles -> Nat] /\ posts[p] + 1 \in Nat
      BY DEF TypeOK
    <3>3. threads' \in [Puzzles -> Nat]
      BY <3>1, <3>2
    <3>4. posts' \in [Puzzles -> Nat]
      BY <3>1, <3>2
    <3>5. QED BY <3>3, <3>4
  <2>2. sent' \subseteq sent
    BY <1>5 DEF CarryOut
  <2>3. UNCHANGED <<now, proc, downSince, cancelled, boots, pending, sender, tries, reach, job, asked, made>>
    BY <1>5 DEF CarryOut, program, requests
  <2>4. QED BY <2>1, <2>2, <2>3 DEF TypeOK
<1>6. ASSUME NEW r \in Requests, RequestStep(r) PROVE TypeOK'
  <2>1. UNCHANGED <<now, proc, downSince, cancelled, boots, pending, sender, sent, threads, posts, tries, reach>>
    BY <1>6, ScheduleKept DEF program, schedule, announced
  <2>2. QED BY <1>6, <2>1, RequestType DEF TypeOK, Jobs
<1>7. QED BY <1>1, <1>2, <1>3, <1>4, <1>5, <1>6, NextCases DEF DiscordStep

\* Every variable of Notifier keeps its type.
THEOREM TypeCorrect == Spec => []TypeOK
  BY InitTypes, TypeStep, PTL DEF Spec

-----------------------------------------------------------------------------
(* The schedule.                                                           *)

\* Nobody has had a turn at the start, so nothing is announced.
LEMMA InitSound == Init => Sound
<1> SUFFICES ASSUME Init PROVE Sound
  OBVIOUS
<1>1. Turns /\ NoneOvertaken
  BY DEF Init, Turns, NoneOvertaken
<1>2. Posted /\ InReach
  BY DEF Init, Posted, InReach, Threads, Messages, Sent, Gone, Whole
<1>3. AllHonest
  BY DEF Init, AllHonest, Honest, NoJob
<1>4. QED BY <1>1, <1>2, <1>3, InitTypes DEF Sound

\* Turns stay single and late enough, over the program's starts and crashes too:
\* what had its turn was unlocked before the program went down, and is not listed.
LEMMA TurnsStep ==
  ASSUME Sound, [Next]_vars
  PROVE  Turns' /\ NoneOvertaken'
<1>1. TypeOK /\ TypeOK' /\ Turns /\ NoneOvertaken
  BY TypeStep DEF Sound
<1>2. CASE Tick
  BY <1>1, <1>2 DEF Tick, program, schedule, TypeOK, Turns, NoneOvertaken
<1>3. CASE Boot
  <2>1. /\ UNCHANGED <<now, tries>> /\ proc' = "up" /\ proc = "down" /\ downSince < now
        /\ pending' = {p \in Puzzles : Listed(p)}
    BY <1>3 DEF Boot
  <2>2. ASSUME NEW p \in Puzzles, tries[p] > 0
        PROVE  \A q \in Puzzles : Unlock[q] <= Unlock[p] => q \notin pending'
    BY <1>1, <2>1, <2>2 DEF Turns, Listed, TypeOK
  <2>3. QED BY <1>1, <2>1, <2>2 DEF Turns, NoneOvertaken, TypeOK
<1>4. CASE Signal \/ ServerEnds \/ StopCancels
  BY <1>1, <1>4 DEF Signal, ServerEnds, StopCancels, schedule, Turns, NoneOvertaken
<1>5. CASE StopReturns \/ Crash
  <2>1. UNCHANGED <<now, tries, pending>> /\ proc' = "down" /\ downSince' = now
    BY <1>5 DEF StopReturns, Crash, schedule
  <2>2. QED BY <1>1, <2>1 DEF Turns, NoneOvertaken
<1>6. ASSUME NEW p \in Puzzles, Wake(p) PROVE Turns' /\ NoneOvertaken'
  <2>1. /\ p \in pending /\ Unlock[p] <= now /\ proc # "down"
        /\ \A q \in pending : Unlock[p] <= Unlock[q]
        /\ pending' = pending \ {p}
        /\ tries' = [tries EXCEPT ![p] = @ + 1]
        /\ UNCHANGED <<now, proc, downSince>>
    BY <1>6 DEF Wake, First, Fired, program
  <2>2. tries[p] = 0 /\ tries'[p] = 1 /\ \A q \in Puzzles : q # p => tries'[q] = tries[q]
    BY <1>1, <2>1 DEF Turns, TypeOK
  <2>3. Turns'
    BY <1>1, <2>1, <2>2 DEF Turns
  <2>4. NoneOvertaken'
    BY <1>1, <2>1, <2>2 DEF NoneOvertaken, TypeOK
  <2>5. QED BY <2>3, <2>4
<1>7. CASE SenderStep \/ DiscordStep
  BY <1>1, <1>7 DEF SenderStep, DiscordStep, Leave, CallDiscord, Answered, CallFails, CarryOut, program,
                    Turns, NoneOvertaken
<1>8. ASSUME NEW r \in Requests, RequestStep(r) PROVE Turns' /\ NoneOvertaken'
  BY <1>1, <1>8, ScheduleKept DEF program, schedule, Turns, NoneOvertaken
<1>9. CASE UNCHANGED vars
  BY <1>1, <1>9 DEF vars, program, schedule, Turns, NoneOvertaken
<1>10. QED
  BY <1>2, <1>3, <1>4, <1>5, <1>6, <1>7, <1>8, <1>9, NextCases DEF ProgramStep

\* What is sent and not carried out counts as one.
LEMMA SentType ==
  ASSUME TypeOK, NEW p \in Puzzles
  PROVE  /\ \A what : Sent(p, what) \in {0, 1}
         /\ Threads(p) \in Nat /\ Messages(p) \in Nat
         /\ threads[p] \in Nat /\ posts[p] \in Nat /\ tries[p] \in Nat
         /\ threads[p] <= Threads(p) /\ posts[p] <= Messages(p)
  BY DEF TypeOK, Threads, Messages, Sent

\* The puzzle whose turn it is, is one.
LEMMA SenderPuzzle ==
  ASSUME TypeOK, sender.phase \in {"thread", "message"}
  PROVE  sender.puzzle \in Puzzles /\ sender.called \in BOOLEAN
  BY DEF TypeOK

\* Carrying a call out moves it from what may come to what there is.
LEMMA CarriedOver ==
  ASSUME TypeOK, NEW p \in Puzzles, NEW what \in {"thread", "message"}, CarryOut(p, what)
  PROVE  /\ \A q \in Puzzles : Threads(q)' = Threads(q) /\ Messages(q)' = Messages(q)
         /\ \A q \in Puzzles : threads[q] <= threads'[q]
<1> USE DEF TypeOK, CarryOut
<1>1. CASE what = "thread"
  <2>1. ASSUME NEW q \in Puzzles
        PROVE  Threads(q)' = Threads(q) /\ Messages(q)' = Messages(q) /\ threads[q] <= threads'[q]
    <3>1. threads'[q] = (IF q = p THEN threads[q] + 1 ELSE threads[q]) /\ posts' = posts
      BY <1>1
    <3>2. Sent(q, "thread")' = (IF q = p THEN 0 ELSE Sent(q, "thread")) /\ Sent(q, "message")' = Sent(q, "message")
          /\ Sent(p, "thread") = 1 /\ Sent(q, "thread") \in {0, 1}
      BY <1>1 DEF Sent
    <3>3. threads[q] \in Nat
      OBVIOUS
    <3>4. QED BY <3>1, <3>2, <3>3 DEF Threads, Messages
  <2>2. QED BY <2>1
<1>2. CASE what = "message"
  <2>1. ASSUME NEW q \in Puzzles
        PROVE  Threads(q)' = Threads(q) /\ Messages(q)' = Messages(q) /\ threads[q] <= threads'[q]
    <3>1. posts'[q] = (IF q = p THEN posts[q] + 1 ELSE posts[q]) /\ threads' = threads
      BY <1>2
    <3>2. Sent(q, "message")' = (IF q = p THEN 0 ELSE Sent(q, "message")) /\ Sent(q, "thread")' = Sent(q, "thread")
          /\ Sent(p, "message") = 1 /\ Sent(q, "message") \in {0, 1}
      BY <1>2 DEF Sent
    <3>3. threads[q] \in Nat /\ posts[q] \in Nat
      OBVIOUS
    <3>4. QED BY <3>1, <3>2, <3>3 DEF Threads, Messages
  <2>2. QED BY <2>1
<1>3. QED BY <1>1, <1>2

\* Sending a call counts it, and no other.
LEMMA SentOnce ==
  ASSUME TypeOK, CallDiscord
  PROVE  /\ UNCHANGED <<threads, posts, tries>> /\ sender.puzzle \in Puzzles
         /\ sender' = [phase |-> sender.phase, puzzle |-> sender.puzzle, called |-> TRUE]
         /\ \A q \in Puzzles \ {sender.puzzle} : Threads(q)' = Threads(q) /\ Messages(q)' = Messages(q)
         /\ sender.phase = "thread" =>
              Threads(sender.puzzle)' = threads[sender.puzzle] + 1 /\ Messages(sender.puzzle)' = Messages(sender.puzzle)
         /\ sender.phase = "message" =>
              Messages(sender.puzzle)' = posts[sender.puzzle] + 1 /\ Threads(sender.puzzle)' = Threads(sender.puzzle)
<1>1. UNCHANGED <<threads, posts, tries>> /\ sender.puzzle \in Puzzles
  BY DEF CallDiscord, announced, TypeOK
<1>2. sender' = [phase |-> sender.phase, puzzle |-> sender.puzzle, called |-> TRUE]
  BY DEF CallDiscord, TypeOK
<1>3. sent' = sent \union {<<sender.puzzle, sender.phase>>}
  BY DEF CallDiscord
<1>4. \A q \in Puzzles \ {sender.puzzle} : \A what : Sent(q, what)' = Sent(q, what)
  BY <1>3 DEF Sent
<1>5. ASSUME NEW p \in Puzzles, p = sender.puzzle
      PROVE  \A what : Sent(p, what)' = IF what = sender.phase THEN 1 ELSE Sent(p, what)
  BY <1>3, <1>5 DEF Sent
<1>6. sender'.puzzle = sender.puzzle
  BY <1>2
<1>7. QED BY <1>1, <1>2, <1>4, <1>5, <1>6 DEF Threads, Messages

\* At most one thread and then one message is sent in a turn.
LEMMA PostedStep ==
  ASSUME Sound, [Next]_vars
  PROVE  Posted'
<1>1. TypeOK /\ Turns /\ Posted
  BY DEF Sound
<1>2. ASSUME UNCHANGED <<threads, posts, tries, sent>>,
             sender' = sender \/ sender' = Waiting \/ sender' = Gone
      PROVE  Posted'
  BY <1>1, <1>2 DEF Posted, Threads, Messages, Sent, Waiting, Gone
<1>3. CASE ProgramStep
  BY <1>2, <1>3 DEF ProgramStep, Tick, Boot, Signal, ServerEnds, StopCancels, StopReturns, Crash,
                    schedule, announced
<1>4. ASSUME NEW p \in Puzzles, Wake(p) PROVE Posted'
  <2>1. /\ p \in pending /\ UNCHANGED <<threads, posts, sent>>
        /\ tries' = [tries EXCEPT ![p] = @ + 1]
        /\ sender' = [phase |-> "thread", puzzle |-> p, called |-> FALSE] \/ sender' = Waiting
    BY <1>4 DEF Wake, First, announced
  <2>2. tries[p] = 0 /\ tries'[p] = 1 /\ \A q \in Puzzles : q # p => tries'[q] = tries[q]
    BY <1>1, <2>1 DEF Turns, TypeOK
  <2>3. \A q \in Puzzles : Threads(q)' = Threads(q) /\ Messages(q)' = Messages(q)
    BY <2>1 DEF Threads, Messages, Sent
  <2>4. Threads(p) = 0 /\ Messages(p) = 0
    BY <1>1, <2>2, SentType DEF Posted
  <2>5. \A q \in Puzzles : Messages(q)' <= threads'[q] /\ Threads(q)' <= tries'[q]
    BY <1>1, <2>1, <2>2, <2>3, <2>4 DEF Posted
  <2>6. QED BY <2>1, <2>2, <2>3, <2>4, <2>5 DEF Posted, Waiting
<1>5. CASE CallDiscord
  <2> DEFINE p == sender.puzzle
  <2>1. sender.phase \in {"thread", "message"} /\ ~sender.called /\ tries[p] = 1
    BY <1>1, <1>5 DEF CallDiscord, Posted
  <2>2. /\ UNCHANGED <<threads, posts, tries>> /\ p \in Puzzles
        /\ sender' = [phase |-> sender.phase, puzzle |-> p, called |-> TRUE]
        /\ \A q \in Puzzles \ {p} : Threads(q)' = Threads(q) /\ Messages(q)' = Messages(q)
    BY <1>1, <1>5, SentOnce
  <2>3. CASE sender.phase = "thread"
    <3>1. Threads(p) = 0 /\ threads[p] = 0 /\ Messages(p) = 0
      BY <1>1, <2>1, <2>2, <2>3, SentType DEF Posted
    <3>2. Threads(p)' = 1 /\ Messages(p)' = 0
      BY <1>1, <1>5, <2>3, <3>1, SentOnce
    <3>3. QED BY <1>1, <2>1, <2>2, <2>3, <3>1, <3>2 DEF Posted
  <2>4. CASE sender.phase = "message"
    <3>1. threads[p] = 1 /\ Messages(p) = 0 /\ posts[p] = 0
      BY <1>1, <2>1, <2>2, <2>4, SentType DEF Posted
    <3>2. Messages(p)' = 1 /\ Threads(p)' = Threads(p)
      BY <1>1, <1>5, <2>4, <3>1, SentOnce
    <3>3. QED BY <1>1, <2>1, <2>2, <2>4, <3>1, <3>2 DEF Posted
  <2>5. QED BY <2>1, <2>3, <2>4
<1>6. CASE Answered /\ sender.phase = "thread"
  <2> DEFINE p == sender.puzzle
  <2>1. /\ UNCHANGED <<threads, posts, tries, sent>> /\ p \in Puzzles
        /\ sender' = [phase |-> "message", puzzle |-> p, called |-> FALSE]
        /\ sender.called /\ Sent(p, "thread") = 0
    BY <1>1, <1>6 DEF Answered, announced, TypeOK, Sent
  <2>2. threads[p] = 1 /\ Messages(p) = 0 /\ tries[p] = 1
    BY <1>1, <1>6, <2>1, SentType DEF Posted, Threads
  <2>3. \A q \in Puzzles : Threads(q)' = Threads(q) /\ Messages(q)' = Messages(q)
    BY <2>1 DEF Threads, Messages, Sent
  <2>4. QED BY <1>1, <2>1, <2>2, <2>3 DEF Posted
<1>7. CASE Leave \/ CallFails \/ (Answered /\ sender.phase # "thread")
  BY <1>2, <1>7 DEF Leave, CallFails, Failed, Answered, announced
<1>8. ASSUME NEW p \in Puzzles, NEW what \in {"thread", "message"}, CarryOut(p, what) PROVE Posted'
  <2>1. UNCHANGED <<sender, tries>>
    BY <1>8 DEF CarryOut
  <2>2. \A q \in Puzzles : /\ Threads(q)' = Threads(q) /\ Messages(q)' = Messages(q)
                           /\ threads[q] <= threads'[q]
    BY <1>1, <1>8, CarriedOver
  <2>3. \A q \in Puzzles : Messages(q)' <= threads'[q] /\ Threads(q)' <= tries'[q]
    <3>1. TypeOK'
      BY TypeStep DEF Sound
    <3>2. \A q \in Puzzles : threads[q] \in Nat /\ threads'[q] \in Nat /\ Messages(q) \in Nat
      BY <1>1, <3>1, SentType DEF TypeOK
    <3>3. QED BY <1>1, <2>1, <2>2, <3>2 DEF Posted
  <2>4. sender.phase = "message" => threads'[sender.puzzle] = 1
    <3>1. TypeOK'
      BY TypeStep DEF Sound
    <3>2. ASSUME sender.phase = "message" PROVE threads'[sender.puzzle] = 1
      <4>1. sender.puzzle \in Puzzles /\ threads[sender.puzzle] = 1 /\ tries[sender.puzzle] = 1
        BY <1>1, <3>2, SenderPuzzle DEF Posted
      <4>2. PICK p1 \in Puzzles : p1 = sender.puzzle
        BY <4>1
      <4>3. threads'[p1] \in Nat /\ threads'[p1] <= Threads(p1)'
        BY <3>1, <4>1 DEF TypeOK, Threads, Sent
      <4>4. Threads(p1)' = Threads(p1) /\ threads[p1] <= threads'[p1]
        BY <2>2
      <4>5. Threads(p1) <= 1 /\ Threads(p1) \in Nat
        BY <1>1, <4>1, <4>2, SentType DEF Posted
      <4>6. threads[p1] = 1
        BY <4>1, <4>2
      <4>7. threads'[p1] = 1
        BY <4>3, <4>4, <4>5, <4>6
      <4>8. QED BY <4>2, <4>7
    <3>3. QED BY <3>2
  <2>5. QED BY <1>1, <2>1, <2>2, <2>3, <2>4, SenderPuzzle DEF Posted
<1>9. ASSUME NEW r \in Requests, RequestStep(r) PROVE Posted'
  BY <1>2, <1>9, ScheduleKept DEF schedule, announced
<1>10. CASE UNCHANGED vars
  BY <1>2, <1>10 DEF vars, schedule, announced
<1>11. QED
  BY <1>3, <1>4, <1>5, <1>6, <1>7, <1>8, <1>9, <1>10, NextCases DEF SenderStep, DiscordStep

\* Nothing gets out of reach: a run that is cut off leaves what there is, with the
\* call under way, and only what lives with its context goes further.
LEMMA InReachStep ==
  ASSUME Sound, [Next]_vars
  PROVE  InReach'
<1>1. TypeOK /\ Turns /\ Posted /\ InReach
  BY DEF Sound
<1>2. ASSUME UNCHANGED <<threads, posts, sent, reach, proc, cancelled>>, pending' \subseteq pending,
             \/ sender' = sender \/ sender' = Waiting \/ sender' = Gone
             \/ sender'.puzzle = sender.puzzle /\ sender.phase \in {"thread", "message"}
      PROVE  InReach'
  BY <1>1, <1>2 DEF InReach, Threads, Messages, Sent, Waiting, Gone
<1>3. CASE Tick \/ ServerEnds
  BY <1>1, <1>3 DEF Tick, ServerEnds, program, schedule, announced, InReach, Threads, Messages, Sent
<1>4. CASE StopReturns
  BY <1>1, <1>4 DEF StopReturns, schedule, announced, InReach, Threads, Messages, Sent
<1>5. CASE Boot
  <2>1. /\ UNCHANGED <<threads, posts, sent>> /\ sender' = Waiting
        /\ proc = "down" /\ downSince < now
        /\ pending' = {p \in Puzzles : Listed(p)}
        /\ reach' = [p \in Puzzles |-> IF tries[p] = 0 THEN Whole ELSE reach[p]]
    BY <1>5 DEF Boot, announced
  <2>2. \A p \in Puzzles : Threads(p)' = Threads(p) /\ Messages(p)' = Messages(p)
    BY <2>1 DEF Threads, Messages, Sent
  <2>3. ASSUME NEW p \in Puzzles
        PROVE  Threads(p)' <= reach'[p].threads /\ Messages(p)' <= reach'[p].posts
    <3>1. CASE tries[p] = 0
      <4>1. Threads(p) = 0 /\ Messages(p) = 0
        BY <1>1, <3>1, SentType DEF Posted
      <4>2. QED BY <2>1, <2>2, <3>1, <4>1 DEF Whole
    <3>2. CASE tries[p] # 0
      BY <1>1, <2>1, <2>2, <3>2 DEF InReach
    <3>3. QED BY <3>1, <3>2
  <2>4. ASSUME NEW p \in pending' PROVE reach'[p] = Whole
    <3>1. p \in Puzzles /\ tries[p] = 0
      BY <1>1, <2>1, <2>4 DEF Turns, Listed, TypeOK
    <3>2. QED BY <2>1, <3>1
  <2>5. QED BY <2>1, <2>3, <2>4 DEF InReach, Waiting
<1>6. CASE Signal \/ StopCancels \/ Crash
  <2>1. /\ UNCHANGED <<threads, posts, sent>> /\ CutOff
        /\ \/ cancelled'
           \/ proc' = "down" /\ sender' = Gone
    BY <1>6 DEF Signal, StopCancels, Crash, announced
  <2>2. \A p \in Puzzles : Threads(p)' = Threads(p) /\ Messages(p)' = Messages(p)
    BY <2>1 DEF Threads, Messages, Sent
  <2>3. ASSUME NEW p \in Puzzles
        PROVE  Threads(p)' <= reach'[p].threads /\ Messages(p)' <= reach'[p].posts
    <3>1. CASE cancelled
      BY <1>1, <2>1, <2>2, <3>1 DEF CutOff, InReach
    <3>2. CASE ~cancelled
      <4>1. reach'[p] = [threads |-> Threads(p), posts |-> Messages(p)]
        BY <2>1, <3>2 DEF CutOff, Threads, Messages
      <4>2. Threads(p) \in Nat /\ Messages(p) \in Nat
        BY <1>1, SentType
      <4>3. QED BY <2>2, <4>1, <4>2
    <3>3. QED BY <3>1, <3>2
  <2>4. QED BY <2>1, <2>3 DEF InReach, Gone
<1>7. ASSUME NEW p \in Puzzles, Wake(p) PROVE InReach'
  <2>1. /\ UNCHANGED <<threads, posts, sent, reach, proc, cancelled>>
        /\ p \in pending /\ pending' = pending \ {p} /\ proc # "down"
        /\ sender' = [phase |-> "thread", puzzle |-> p, called |-> FALSE] \/ sender' = Waiting
    BY <1>7 DEF Wake, First, announced, program
  <2>2. ~cancelled => reach[p] = Whole
    BY <1>1, <2>1 DEF InReach
  <2>3. QED BY <1>1, <2>1, <2>2 DEF InReach, Threads, Messages, Sent, Waiting
<1>8. CASE CallDiscord
  <2> DEFINE p == sender.puzzle
  <2>1. /\ UNCHANGED <<reach, proc, cancelled, pending>> /\ ~cancelled
        /\ sender.phase \in {"thread", "message"} /\ ~sender.called
    BY <1>8 DEF CallDiscord, Calls, program
  <2>2. /\ UNCHANGED <<threads, posts>> /\ p \in Puzzles
        /\ sender' = [phase |-> sender.phase, puzzle |-> p, called |-> TRUE]
        /\ \A q \in Puzzles \ {p} : Threads(q)' = Threads(q) /\ Messages(q)' = Messages(q)
    BY <1>1, <1>8, SentOnce
  <2>3. reach[p] = Whole
    BY <1>1, <2>1 DEF InReach
  <2>4. Threads(p)' <= 1 /\ Messages(p)' <= 1
    <3>1. CASE sender.phase = "thread"
      <4>1. threads[p] = 0 /\ Messages(p) = 0
        BY <1>1, <2>1, <2>2, <3>1, SentType DEF Posted
      <4>2. QED BY <1>1, <1>8, <3>1, <4>1, SentOnce
    <3>2. CASE sender.phase = "message"
      <4>1. posts[p] = 0 /\ Threads(p) <= 1
        BY <1>1, <2>1, <2>2, <3>2, SentType DEF Posted
      <4>2. QED BY <1>1, <1>8, <3>2, <4>1, SentOnce
    <3>3. QED BY <2>1, <3>1, <3>2
  <2>5. \A q \in Puzzles : Threads(q)' <= reach'[q].threads /\ Messages(q)' <= reach'[q].posts
    BY <1>1, <2>1, <2>2, <2>3, <2>4 DEF InReach, Whole
  <2>6. QED BY <1>1, <2>1, <2>2, <2>5 DEF InReach
<1>9. CASE Leave \/ Answered \/ CallFails
  <2>1. UNCHANGED <<threads, posts, sent, reach, proc, cancelled, pending>>
    BY <1>9 DEF Leave, Answered, CallFails, announced, program
  <2>2. \/ sender' = Waiting \/ sender' = Gone
        \/ sender'.puzzle = sender.puzzle /\ sender.phase \in {"thread", "message"}
    BY <1>1, <1>9 DEF Leave, Answered, CallFails, Failed, TypeOK
  <2>3. QED BY <1>2, <2>1, <2>2
<1>10. ASSUME NEW p \in Puzzles, NEW what \in {"thread", "message"}, CarryOut(p, what) PROVE InReach'
  <2>1. UNCHANGED <<sender, reach, proc, cancelled, pending>>
    BY <1>10 DEF CarryOut, program
  <2>2. \A q \in Puzzles : Threads(q)' = Threads(q) /\ Messages(q)' = Messages(q)
    BY <1>1, <1>10, CarriedOver
  <2>3. QED BY <1>1, <2>1, <2>2 DEF InReach
<1>11. ASSUME NEW r \in Requests, RequestStep(r) PROVE InReach'
  BY <1>2, <1>11, ScheduleKept DEF schedule, announced, program
<1>12. CASE UNCHANGED vars
  BY <1>2, <1>12 DEF vars, schedule, announced, program
<1>13. QED
  BY <1>3, <1>4, <1>5, <1>6, <1>7, <1>8, <1>9, <1>10, <1>11, <1>12, NextCases
  DEF ProgramStep, SenderStep, DiscordStep

-----------------------------------------------------------------------------
(* Administrators' requests.                                               *)

\* Each call leads from what there is before it to what there is before the next,
\* and the last one to nothing, or to everything.
LEMMA CallByCall ==
  ASSUME NEW phase \in JobPhases \ {"idle"}
  PROVE  /\ Following(phase) # "idle" => Effect(phase, Sofar(phase)) = Sofar(Following(phase))
         /\ Following(phase) = "idle" => Effect(phase, Sofar(phase)) \in {{}, SetUp}
         /\ (Sofar(phase) \intersect Named) \union Reported(phase)
              = Effect(phase, Sofar(phase)) \intersect Named
<1>1. CASE phase \in {"thread", "dropThread"}
  BY <1>1 DEF Following, Effect, Sofar, Reported, Named
<1>2. CASE phase \in {"message", "dropMessage"}
  BY <1>2 DEF Following, Effect, Sofar, Reported, Named
<1>3. CASE phase = "notifications"
  BY <1>3 DEF Following, Effect, Sofar, Reported, Named
<1>4. CASE phase = "lock"
  BY <1>4 DEF Following, Effect, Sofar, Reported, Named
<1>5. CASE phase = "pin"
  BY <1>5 DEF Following, Effect, Sofar, Reported, Named
<1>6. CASE phase = "general"
  BY <1>6 DEF Following, Effect, Sofar, Reported, Named, SetUp
<1>7. QED BY <1>1, <1>2, <1>3, <1>4, <1>5, <1>6 DEF JobPhases

\* No call takes back what replies name.
LEMMA NamedStays ==
  ASSUME NEW phase, NEW things
  PROVE  things \intersect Named \subseteq Effect(phase, things)
  BY DEF Effect, Named

\* A slot's own steps keep its promises.
LEMMA OwnHonest ==
  ASSUME TypeOK, NEW r \in Requests, Honest(r), RequestStep(r)
  PROVE  Honest(r)'
<1>1. /\ job \in [Requests -> Jobs] /\ asked \in [Requests -> JobPhases]
      /\ made \in [Requests -> SUBSET Things] /\ job[r] \in Jobs
  BY DEF TypeOK, Jobs
<1>2. ASSUME NEW first \in {"thread", "notifications"}, BeginJob(r, first) PROVE Honest(r)'
  <2>1. /\ job'[r] = [phase |-> first, called |-> FALSE, live |-> TRUE, ok |-> FALSE, ids |-> {}]
        /\ asked'[r] = "idle" /\ made'[r] = {}
    BY <1>1, <1>2 DEF BeginJob, NoJob
  <2>2. Sofar(first) = {}
    BY DEF Sofar
  <2>3. QED BY <2>1, <2>2 DEF Honest
<1>3. CASE Disconnect(r)
  <2>1. job'[r] = [job[r] EXCEPT !.live = FALSE] /\ asked'[r] = asked[r] /\ made'[r] = made[r]
    BY <1>1, <1>3 DEF Disconnect
  <2>2. /\ job'[r].phase = job[r].phase /\ job'[r].called = job[r].called /\ job'[r].ok = job[r].ok
        /\ job'[r].ids = job[r].ids
    BY <1>1, <2>1 DEF Jobs
  <2>3. QED BY <2>1, <2>2 DEF Honest
<1>4. CASE RequestCalls(r)
  <2>1. /\ job[r].phase # "idle" /\ ~job[r].called
        /\ job'[r] = [job[r] EXCEPT !.called = TRUE] /\ asked'[r] = job[r].phase /\ made'[r] = made[r]
    BY <1>1, <1>4 DEF RequestCalls
  <2>2. /\ job'[r].phase = job[r].phase /\ job'[r].called /\ job'[r].ok = job[r].ok
        /\ job'[r].ids = job[r].ids
    BY <1>1, <2>1 DEF Jobs
  <2>3. QED BY <2>1, <2>2 DEF Honest
<1>5. CASE RequestCarriedOut(r)
  <2>1. /\ asked[r] # "idle" /\ asked[r] \in JobPhases /\ job'[r] = job[r]
        /\ made'[r] = Effect(asked[r], made[r]) /\ asked'[r] = "idle"
    BY <1>1, <1>5 DEF RequestCarriedOut
  <2>2. job[r].ids \subseteq made'[r] \intersect Named
    BY <2>1, NamedStays DEF Honest
  <2>3. QED BY <2>1, <2>2 DEF Honest
<1>6. CASE RequestAnswered(r)
  <2> DEFINE phase == job[r].phase
             next == Following(phase)
  <2>1. /\ job[r].called /\ asked[r] = "idle" /\ asked'[r] = "idle" /\ made'[r] = made[r]
        /\ job'[r] = [job[r] EXCEPT !.phase = next, !.called = FALSE, !.ok = (next = "idle"),
                                    !.ids = @ \union Reported(phase)]
    BY <1>1, <1>6 DEF RequestAnswered
  <2>2. /\ job'[r].phase = next /\ ~job'[r].called /\ (job'[r].ok <=> next = "idle")
        /\ job'[r].ids = job[r].ids \union Reported(phase)
    <3> HIDE DEF next
    <3>1. QED BY <1>1, <2>1 DEF Jobs
  <2>3. phase # "idle" /\ phase \in JobPhases
    BY <1>1, <2>1 DEF Honest, Jobs
  <2>4. made[r] = Effect(phase, Sofar(phase)) /\ job[r].ids = Sofar(phase) \intersect Named
    BY <2>1, <2>3 DEF Honest
  <2>5. job'[r].ids = made'[r] \intersect Named
    BY <2>1, <2>2, <2>3, <2>4, CallByCall
  <2>6. CASE next = "idle"
    BY <2>1, <2>2, <2>3, <2>4, <2>5, <2>6, CallByCall DEF Honest
  <2>7. CASE next # "idle"
    BY <2>1, <2>2, <2>3, <2>4, <2>5, <2>7, CallByCall DEF Honest
  <2>8. QED BY <2>6, <2>7
<1>7. CASE RequestFails(r)
  <2>1. /\ job[r].phase # "idle" /\ asked'[r] = asked[r] /\ made'[r] = made[r]
        /\ job'[r] = [job[r] EXCEPT !.phase = "idle", !.called = FALSE]
    BY <1>1, <1>7 DEF RequestFails
  <2>2. job'[r].phase = "idle" /\ ~job'[r].called /\ job'[r].ok = job[r].ok /\ job'[r].ids = job[r].ids
    BY <1>1, <2>1 DEF Jobs
  <2>3. QED BY <2>1, <2>2 DEF Honest
<1>8. QED BY <1>2, <1>3, <1>4, <1>5, <1>6, <1>7 DEF RequestStep, BeginTest, BeginSetup

\* No step makes a reply untrue.
LEMMA HonestStep ==
  ASSUME Sound, [Next]_vars
  PROVE  AllHonest'
<1>1. TypeOK /\ \A r \in Requests : Honest(r)
  BY DEF Sound, AllHonest
<1>2. ASSUME NEW r \in Requests, asked'[r] = asked[r], made'[r] = made[r],
             job'[r] = job[r] \/ job'[r] = NoJob
      PROVE  Honest(r)'
  BY <1>1, <1>2 DEF Honest, NoJob
<1>3. CASE ProgramStep
  <2>1. UNCHANGED <<asked, made>> /\ \A r \in Requests : job'[r] = job[r] \/ job'[r] = NoJob
    BY <1>3, RequestsKept DEF EndJobs
  <2>2. QED BY <1>2, <2>1 DEF AllHonest
<1>4. CASE (\E p \in Puzzles : Wake(p)) \/ SenderStep \/ DiscordStep \/ UNCHANGED vars
  <2>1. UNCHANGED requests
    BY <1>4, RequestsKept DEF vars
  <2>2. QED BY <1>2, <2>1 DEF requests, AllHonest
<1>5. ASSUME NEW r \in Requests, RequestStep(r) PROVE AllHonest'
  <2>1. \A x \in Requests \ {r} : asked'[x] = asked[x] /\ made'[x] = made[x] /\ job'[x] = job[x]
    BY <1>1, <1>5 DEF TypeOK, RequestStep, BeginTest, BeginSetup, BeginJob, Disconnect, RequestCalls,
                      RequestCarriedOut, RequestAnswered, RequestFails
  <2>2. Honest(r)'
    BY <1>1, <1>5, OwnHonest
  <2>3. QED BY <1>2, <2>1, <2>2 DEF AllHonest
<1>6. QED BY <1>3, <1>4, <1>5, NextCases

-----------------------------------------------------------------------------
(* The theorems.                                                           *)

\* Every step keeps the invariant.
LEMMA SoundStep == Sound /\ [Next]_vars => Sound'
<1>1. ASSUME Sound, [Next]_vars PROVE TypeOK'
  BY <1>1, TypeStep DEF Sound
<1>2. QED BY <1>1, TurnsStep, PostedStep, InReachStep, HonestStep DEF Sound

\* The invariant holds at all times.
LEMMA AlwaysSound == Spec => []Sound
  BY InitSound, SoundStep, PTL DEF Spec

\* No puzzle's turn comes twice, however often the program starts.
THEOREM NoSecondTurn == Spec => []TriedOnce
<1>1. Sound => TriedOnce
  BY DEF Sound, Turns, TriedOnce
<1>2. QED BY <1>1, AlwaysSound, PTL

\* Puzzles have their turns in the order of their unlock times.
THEOREM NobodyOvertaken == Spec => []NoneOvertaken
<1>1. Sound => NoneOvertaken
  BY DEF Sound
<1>2. QED BY <1>1, AlwaysSound, PTL

\* At most one thread and one message per puzzle, and no message without thread.
THEOREM MessagesHaveThreads == Spec => []PostsHaveThreads
<1>1. Sound => PostsHaveThreads
  <2> SUFFICES ASSUME Sound, NEW p \in Puzzles
               PROVE  posts[p] <= threads[p] /\ threads[p] <= 1
    BY DEF PostsHaveThreads
  <2>1. /\ posts[p] <= Messages(p) /\ Messages(p) <= threads[p] /\ threads[p] <= Threads(p)
        /\ Threads(p) <= tries[p] /\ tries[p] <= 1
    BY SentType DEF Sound, Turns, Posted
  <2>2. posts[p] \in Nat /\ Messages(p) \in Nat /\ threads[p] \in Nat /\ Threads(p) \in Nat /\ tries[p] \in Nat
    BY SentType DEF Sound
  <2>3. QED BY <2>1, <2>2
<1>2. QED BY <1>1, AlwaysSound, PTL

\* Turns come once and in order, and each leaves one message at most.
THEOREM AlwaysInTurn == Spec => []AnnouncedInTurn
BY NoSecondTurn, NobodyOvertaken, MessagesHaveThreads, PTL DEF AnnouncedInTurn

\* Replies to administrators hold, whatever fails on the way.
THEOREM RepliesAlwaysHold == Spec => []RepliesHold
<1>1. Sound => RepliesHold
  BY DEF Sound, AllHonest, Honest, RepliesHold
<1>2. QED BY <1>1, AlwaysSound, PTL

\* Once the context is cancelled, or the program has crashed, nothing comes of an
\* announcement but the call under way, whenever Discord carries it out and
\* however often the program is started again.
THEOREM OnlyTheCallUnderWay == Spec => []QuietOnceCancelled
<1>1. Sound => QuietOnceCancelled
  <2> SUFFICES ASSUME Sound, NEW p \in Puzzles
               PROVE  threads[p] <= reach[p].threads /\ posts[p] <= reach[p].posts
    BY DEF QuietOnceCancelled
  <2>1. /\ threads[p] <= Threads(p) /\ Threads(p) <= reach[p].threads
        /\ posts[p] <= Messages(p) /\ Messages(p) <= reach[p].posts
    BY SentType DEF Sound, InReach
  <2>2. /\ threads[p] \in Nat /\ Threads(p) \in Nat /\ posts[p] \in Nat /\ Messages(p) \in Nat
        /\ reach[p].threads \in Nat /\ reach[p].posts \in Nat
    BY SentType DEF Sound, TypeOK
  <2>3. QED BY <2>1, <2>2
<1>2. QED BY <1>1, AlwaysSound, PTL

\* The schedule implements the announcements: over all starts of the program no
\* puzzle is announced before it is unlocked, and none is announced twice.
THEOREM ImplementsAnnouncements == Spec => AnnouncementsSpec
<1>1. Init => Channel!Init
  BY DEF Init, Channel!Init
<1>2. ASSUME Sound, [Next]_vars PROVE [Channel!Next]_<<now, posts>>
  <2>1. TypeOK /\ Turns /\ Posted
    BY <1>2 DEF Sound
  <2>2. CASE Tick
    <3>1. now' = now + 1 /\ now \in Nat /\ posts' = posts
      BY <2>1, <2>2 DEF Tick, schedule, announced, TypeOK
    <3>2. QED BY <3>1 DEF Channel!Next, Channel!Pass
  <2>3. CASE (ProgramStep /\ ~Tick) \/ SenderStep \/ \E p \in Puzzles : Wake(p)
    BY <2>3 DEF ProgramStep, Boot, Signal, ServerEnds, StopCancels, StopReturns, Crash, schedule, announced,
                Wake, SenderStep, Leave, CallDiscord, Answered, CallFails
  <2>4. ASSUME NEW p \in Puzzles, CarryOut(p, "message") PROVE Channel!Next
    <3>1. /\ now' = now /\ posts' = [posts EXCEPT ![p] = @ + 1] /\ Sent(p, "message") = 1
      BY <2>4 DEF CarryOut, Sent
    <3>2. /\ Messages(p) <= threads[p] /\ threads[p] <= Threads(p) /\ Threads(p) <= tries[p] /\ tries[p] <= 1
          /\ Messages(p) = posts[p] + 1
      BY <2>1, <3>1, SentType DEF Posted, Turns, Messages
    <3>3. /\ Messages(p) \in Nat /\ threads[p] \in Nat /\ Threads(p) \in Nat /\ tries[p] \in Nat
          /\ posts[p] \in Nat /\ posts \in [Puzzles -> Nat]
      BY <2>1, SentType DEF TypeOK
    <3>4. posts[p] = 0 /\ tries[p] > 0
      BY <3>2, <3>3
    <3>5. posts' = [posts EXCEPT ![p] = 1]
      BY <3>1, <3>4
    <3>6. Unlock[p] <= now
      BY <2>1, <3>4 DEF Turns
    <3>7. QED BY <3>1, <3>4, <3>5, <3>6 DEF Channel!Next, Channel!Announce
  <2>5. ASSUME NEW p \in Puzzles, CarryOut(p, "thread") PROVE UNCHANGED <<now, posts>>
    BY <2>5 DEF CarryOut
  <2>6. ASSUME NEW r \in Requests, RequestStep(r) PROVE UNCHANGED <<now, posts>>
    BY <2>6, ScheduleKept DEF schedule, announced
  <2>7. CASE UNCHANGED vars
    BY <2>7 DEF vars, schedule, announced
  <2>8. QED BY <1>2, <2>2, <2>3, <2>4, <2>5, <2>6, <2>7, NextCases DEF DiscordStep
<1>3. QED BY <1>1, <1>2, AlwaysSound, PTL DEF Spec, AnnouncementsSpec, Channel!Spec
=============================================================================
