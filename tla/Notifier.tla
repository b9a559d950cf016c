------------------------------ MODULE Notifier ------------------------------
(***************************************************************************)
(* Announcing puzzles on Discord.  Schedule lists the puzzles that are not *)
(* unlocked yet when the program starts and leaves them to one goroutine,  *)
(* which sleeps until the next one is due, opens a forum thread for it and *)
(* posts a message that links to the thread.  Beside it, administrators    *)
(* try a notification out (NotifyTest), which takes back what it posted,   *)
(* and set up the forum of an event (Setup).                               *)
(*                                                                         *)
(* Nothing of this is stored: a program that is stopped, or crashes, makes *)
(* a new list from the clock when it is started again.  A call to Discord  *)
(* is sent, carried out, and answered.  Whoever made it may be told of an  *)
(* error at any time, and Discord may carry it out all the same: before    *)
(* the answer was lost, after the caller gave up, or after the program has *)
(* ended.  Under a cancelled context no call is sent, and one under way    *)
(* fails.                                                                  *)
(***************************************************************************)
EXTENDS Integers

CONSTANTS
  Puzzles,      \* puzzles of all events; each has a part to quote from
  NoPuzzle,
  Unlock,       \* Puzzle.Unlock
  Channelled,   \* puzzles of events with both channels configured
  Requests,     \* requests of administrators that can be under way
  MaxTime,      \* bound on the clock, for model checking
  MaxBoots      \* bound on the starts of the program, for model checking

ASSUME PuzzlesAssumption ==
  /\ NoPuzzle \notin Puzzles
  /\ Unlock \in [Puzzles -> Nat]
  /\ Channelled \subseteq Puzzles
  /\ MaxTime \in Nat /\ MaxBoots \in Nat

VARIABLES
  now,        \* the clock
  proc,       \* the program
  downSince,  \* when it went down
  cancelled,  \* the context of the program's goroutines is cancelled
  pending,    \* what is left of the list
  sender,     \* the goroutine: what it does and the puzzle it is at
  sent,       \* the schedule's calls that Discord has not carried out, and may yet
  threads,    \* how many threads the schedule opened for each puzzle
  posts,      \* how many messages the schedule posted for each puzzle
  tries,      \* history: how often the goroutine turned to each puzzle
  reach,      \* history: how far each announcement could still get when the run of
              \* the program it belongs to was cut off
  boots,      \* history: starts of the program
  job,        \* administrators' requests, the last one in each slot
  asked,      \* the call of that request that Discord has not carried out, and may yet
  made        \* what that request has made on Discord and not taken back

announced == <<threads, posts>>
schedule == <<pending, sender, sent, announced, tries, reach>>
program == <<proc, downSince, cancelled, boots>>
requests == <<job, asked, made>>
vars == <<now, program, schedule, requests>>

Procs == {"down", "up", "stopping"}
SenderPhases == {"waiting", "thread", "message", "gone"}
JobPhases == {"idle", "thread", "dropThread", "message", "dropMessage",
              "notifications", "lock", "pin", "general"}
SetUp == {"notifications", "locked", "pinned", "general"}
Things == {"thread", "message"} \union SetUp

Waiting == [phase |-> "waiting", puzzle |-> NoPuzzle, called |-> FALSE]
Gone == [phase |-> "gone", puzzle |-> NoPuzzle, called |-> FALSE]
NoJob == [phase |-> "idle", called |-> FALSE, live |-> FALSE, ok |-> FALSE, ids |-> {}]

\* An announcement is a thread and a message.
Whole == [threads |-> 1, posts |-> 1]

Init ==
  /\ now = 0
  /\ proc = "down" /\ downSince = 0 /\ cancelled = FALSE /\ boots = 0
  /\ pending = {} /\ sender = Gone /\ sent = {}
  /\ threads = [p \in Puzzles |-> 0]
  /\ posts = [p \in Puzzles |-> 0]
  /\ tries = [p \in Puzzles |-> 0]
  /\ reach = [p \in Puzzles |-> Whole]
  /\ job = [r \in Requests |-> NoJob]
  /\ asked = [r \in Requests |-> "idle"]
  /\ made = [r \in Requests |-> {}]

Tick ==
  /\ now < MaxTime
  /\ now' = now + 1
  /\ UNCHANGED <<program, schedule, requests>>

-----------------------------------------------------------------------------
(* The program.                                                            *)

\* Mutant of Listed: puzzles unlocked while the program was down are caught up.
ListedAll(p) == TRUE

\* Puzzles already unlocked are skipped.
Listed(p) == ~(Unlock[p] < now)

\* Schedule; starting the program takes some time.
Boot ==
  /\ proc = "down" /\ boots < MaxBoots /\ downSince < now
  /\ proc' = "up" /\ cancelled' = FALSE /\ boots' = boots + 1
  /\ pending' = {p \in Puzzles : Listed(p)}
  /\ sender' = Waiting
  /\ reach' = [p \in Puzzles |-> IF tries[p] = 0 THEN Whole ELSE reach[p]]
  /\ UNCHANGED <<now, downSince, sent, announced, tries, requests>>

\* History: what there is of each announcement, with the call under way, when the
\* run is first cut off.
Sent(p, what) == IF <<p, what>> \in sent THEN 1 ELSE 0
CutOff ==
  reach' = IF cancelled THEN reach
           ELSE [p \in Puzzles |-> [threads |-> threads[p] + Sent(p, "thread"),
                                    posts |-> posts[p] + Sent(p, "message")]]

\* A signal cancels the context everything runs under, long before Stop.
Signal ==
  /\ proc = "up"
  /\ proc' = "stopping" /\ cancelled' = TRUE /\ CutOff
  /\ UNCHANGED <<now, downSince, boots, pending, sender, sent, announced, tries, requests>>

\* A server ends by itself: run returns and comes to Stop.
ServerEnds ==
  /\ proc = "up"
  /\ proc' = "stopping"
  /\ UNCHANGED <<now, downSince, cancelled, boots, schedule, requests>>

\* Stop cancels the goroutine's context...
StopCancels ==
  /\ proc = "stopping" /\ ~cancelled
  /\ cancelled' = TRUE /\ CutOff
  /\ UNCHANGED <<now, proc, downSince, boots, pending, sender, sent, announced, tries, requests>>

\* Requests under way are cut off.
EndJobs ==
  job' = [r \in Requests |-> IF job[r].phase = "idle" THEN job[r] ELSE NoJob]

\* ...and waits for it.
StopReturns ==
  /\ proc = "stopping" /\ cancelled /\ sender.phase = "gone"
  /\ proc' = "down" /\ downSince' = now
  /\ EndJobs
  /\ UNCHANGED <<now, cancelled, boots, schedule, asked, made>>

Crash ==
  /\ proc # "down"
  /\ proc' = "down" /\ downSince' = now
  /\ sender' = Gone /\ CutOff
  /\ EndJobs
  /\ UNCHANGED <<now, cancelled, boots, pending, sent, announced, tries, asked, made>>

-----------------------------------------------------------------------------
(* The goroutine.                                                          *)

\* The list is sorted by unlock time; puzzles of one time come in any order.
First(p) == p \in pending /\ \A q \in pending : Unlock[p] <= Unlock[q]

\* Mutant of Fired: the timer fires one tick early.
FiredEarly(p) == Unlock[p] <= now + 1

Fired(p) == Unlock[p] <= now

\* The timer fires.  When the context is cancelled too, select may take either.
Wake(p) ==
  /\ proc # "down" /\ sender.phase = "waiting" /\ First(p) /\ Fired(p)
  /\ pending' = pending \ {p}
  /\ tries' = [tries EXCEPT ![p] = @ + 1]
  /\ sender' = IF p \in Channelled THEN [phase |-> "thread", puzzle |-> p, called |-> FALSE]
                                   ELSE Waiting
  /\ UNCHANGED <<now, program, sent, announced, reach, requests>>

\* Mutant of MayLeave: the goroutine leaves only when the list is done.
MayLeaveDone == pending = {}

MayLeave == cancelled \/ pending = {}

\* The context is cancelled, or the list is done.
Leave ==
  /\ proc # "down" /\ sender.phase = "waiting"
  /\ MayLeave
  /\ sender' = Gone
  /\ UNCHANGED <<now, program, pending, sent, announced, tries, reach, requests>>

\* Mutant of Calls: calls made without the context.
CallsAlways(dead) == TRUE

\* Whether a call is sent, by the state of its context.
Calls(dead) == ~dead

CallDiscord ==
  /\ sender.phase \in {"thread", "message"} /\ ~sender.called /\ Calls(cancelled)
  /\ sent' = sent \union {<<sender.puzzle, sender.phase>>}
  /\ sender' = [sender EXCEPT !.called = TRUE]
  /\ UNCHANGED <<now, program, pending, announced, tries, reach, requests>>

\* Discord opens the thread, or posts the message; who asked may be gone.
CarryOut(p, what) ==
  /\ <<p, what>> \in sent /\ sent' = sent \ {<<p, what>>}
  /\ threads' = IF what = "thread" THEN [threads EXCEPT ![p] = @ + 1] ELSE threads
  /\ posts' = IF what = "message" THEN [posts EXCEPT ![p] = @ + 1] ELSE posts
  /\ UNCHANGED <<now, program, pending, sender, tries, reach, requests>>

\* After the thread comes the message that links to it.
Answered ==
  /\ sender.called /\ <<sender.puzzle, sender.phase>> \notin sent
  /\ sender' = IF sender.phase = "thread" THEN [sender EXCEPT !.phase = "message", !.called = FALSE]
                                          ELSE Waiting
  /\ UNCHANGED <<now, program, pending, sent, announced, tries, reach, requests>>

\* Mutant of Failed: the goroutine returns after a failure.
FailedForGood(phase) == Gone

\* A failure is logged, and the goroutine goes on with the next puzzle.
Failed(phase) == Waiting

\* Under a cancelled context a call fails before it is sent.
CallFails ==
  /\ sender.phase \in {"thread", "message"} /\ (sender.called \/ cancelled)
  /\ sender' = Failed(sender.phase)
  /\ UNCHANGED <<now, program, pending, sent, announced, tries, reach, requests>>

-----------------------------------------------------------------------------
(* Requests of administrators.                                             *)

\* adminNotifierTestHandler or adminNotifierSetupHandler, for an event that has
\* its channels configured: the first call that either of them makes.
BeginJob(r, first) ==
  /\ proc # "down" /\ job[r].phase = "idle"
  /\ job' = [job EXCEPT ![r] = [NoJob EXCEPT !.phase = first, !.live = TRUE]]
  /\ asked' = [asked EXCEPT ![r] = "idle"]
  /\ made' = [made EXCEPT ![r] = {}]
  /\ UNCHANGED <<now, program, schedule>>

BeginTest(r) == BeginJob(r, "thread")
BeginSetup(r) == BeginJob(r, "notifications")

\* The administrator's browser goes away, which cancels the request's context.
Disconnect(r) ==
  /\ job[r].live /\ job[r].phase # "idle"
  /\ job' = [job EXCEPT ![r].live = FALSE]
  /\ UNCHANGED <<now, program, schedule, asked, made>>

\* The servers' context is cancelled by a signal and by a server that ends.
Dead(r) == ~job[r].live \/ proc # "up"

RequestCalls(r) ==
  /\ job[r].phase # "idle" /\ ~job[r].called /\ Calls(Dead(r))
  /\ asked' = [asked EXCEPT ![r] = job[r].phase]
  /\ job' = [job EXCEPT ![r].called = TRUE]
  /\ UNCHANGED <<now, program, schedule, made>>

\* What there is after a call.
Effect(phase, things) ==
  CASE phase = "dropThread" -> things \ {"thread"}
    [] phase = "dropMessage" -> things \ {"message"}
    [] phase = "lock" -> things \union {"locked"}
    [] phase = "pin" -> things \union {"pinned"}
    [] OTHER -> things \union {phase}

RequestCarriedOut(r) ==
  /\ asked[r] # "idle"
  /\ made' = [made EXCEPT ![r] = Effect(asked[r], @)]
  /\ asked' = [asked EXCEPT ![r] = "idle"]
  /\ UNCHANGED <<now, program, schedule, job>>

\* Mutant of Following: the thread of a test is left alone.
FollowingKeeps(phase) ==
  CASE phase = "thread" -> "message"
    [] phase = "dropThread" -> "message" [] phase = "message" -> "dropMessage"
    [] phase = "notifications" -> "lock" [] phase = "lock" -> "pin" [] phase = "pin" -> "general"
    [] OTHER -> "idle"

\* The calls of a test, and of a setup.
Following(phase) ==
  CASE phase = "thread" -> "dropThread"
    [] phase = "dropThread" -> "message" [] phase = "message" -> "dropMessage"
    [] phase = "notifications" -> "lock" [] phase = "lock" -> "pin" [] phase = "pin" -> "general"
    [] OTHER -> "idle"

\* The threads whose ids a setup replies with, also when it fails later.
Reported(phase) == {phase} \intersect {"notifications", "general"}

RequestAnswered(r) ==
  /\ job[r].called /\ asked[r] = "idle"
  /\ LET next == Following(job[r].phase)
     IN  job' = [job EXCEPT ![r].phase = next, ![r].called = FALSE, ![r].ok = (next = "idle"),
                            ![r].ids = @ \union Reported(job[r].phase)]
  /\ UNCHANGED <<now, program, schedule, asked, made>>

\* The reply tells of an error.
RequestFails(r) ==
  /\ job[r].phase # "idle" /\ (job[r].called \/ Dead(r))
  /\ job' = [job EXCEPT ![r].phase = "idle", ![r].called = FALSE]
  /\ UNCHANGED <<now, program, schedule, asked, made>>

Next ==
  \/ Tick
  \/ Boot \/ Signal \/ ServerEnds \/ StopCancels \/ StopReturns \/ Crash
  \/ \E p \in Puzzles : Wake(p)
  \/ Leave \/ CallDiscord \/ Answered \/ CallFails
  \/ \E p \in Puzzles, what \in {"thread", "message"} : CarryOut(p, what)
  \/ \E r \in Requests :
       \/ BeginTest(r) \/ BeginSetup(r) \/ Disconnect(r)
       \/ RequestCalls(r) \/ RequestCarriedOut(r) \/ RequestAnswered(r) \/ RequestFails(r)

Spec == Init /\ [][Next]_vars

\* The clock goes on, the program and the goroutine run, and a call to Discord
\* ends: the client gives up after a while.  Discord need not do anything.
FairSpec ==
  /\ Spec
  /\ WF_vars(Tick)
  /\ WF_vars(StopCancels) /\ WF_vars(StopReturns)
  /\ WF_vars(Leave \/ CallDiscord \/ Answered \/ CallFails \/ \E p \in Puzzles : Wake(p))

-----------------------------------------------------------------------------
(* Properties.                                                             *)

TypeOK ==
  /\ now \in Nat
  /\ proc \in Procs /\ downSince \in Nat /\ cancelled \in BOOLEAN /\ boots \in Nat
  /\ pending \subseteq Puzzles
  /\ sender \in [phase : SenderPhases, puzzle : Puzzles \union {NoPuzzle}, called : BOOLEAN]
  /\ sender.puzzle = NoPuzzle <=> sender.phase \in {"waiting", "gone"}
  /\ sent \subseteq Puzzles \X {"thread", "message"}
  /\ threads \in [Puzzles -> Nat]
  /\ posts \in [Puzzles -> Nat]
  /\ tries \in [Puzzles -> Nat]
  /\ reach \in [Puzzles -> [threads : Nat, posts : Nat]]
  /\ job \in [Requests -> [phase : JobPhases, called : BOOLEAN, live : BOOLEAN, ok : BOOLEAN,
                           ids : SUBSET Things]]
  /\ asked \in [Requests -> JobPhases]
  /\ made \in [Requests -> SUBSET Things]

\* notifier.go:118-129.  However often the program is stopped, crashes and is
\* started again, no puzzle's turn comes twice.
TriedOnce == \A p \in Puzzles : tries[p] <= 1

\* notifier.go:132-159.  Once a puzzle had its turn, no puzzle that was unlocked
\* before it is still to come, in this run of the program or a later one.
NoneOvertaken ==
  \A p, q \in Puzzles : tries[p] > 0 /\ Unlock[q] < Unlock[p] => q \notin pending

\* discord.go:48-92.  A message is only posted for a puzzle that has a thread,
\* and neither is ever posted twice.
PostsHaveThreads ==
  \A p \in Puzzles : posts[p] <= threads[p] /\ threads[p] <= 1

\* notifier.go:106-162.  Over all starts and crashes each puzzle gets one turn at
\* most, in the order of the unlock times, with one message at most, in a thread.
AnnouncedInTurn == TriedOnce /\ NoneOvertaken /\ PostsHaveThreads

\* notifier.go:111, 149-159 and 164-175.  Once the context is cancelled, or the program
\* crashed, an announcement gets no further than the call that was under way then:
\* whichever way the select goes, whenever Discord carries that call out, and
\* however often the program is started again.
QuietOnceCancelled ==
  \A p \in Puzzles : threads[p] <= reach[p].threads /\ posts[p] <= reach[p].posts

\* discord.go:43-174.  Whatever fails or is cut off: a test that reports success
\* has taken back what it posted, a setup that does has done all its parts, and
\* the threads a reply names exist.
RepliesHold ==
  \A r \in Requests :
    /\ job[r].phase = "idle" /\ job[r].ok => made[r] \in {{}, SetUp}
    /\ job[r].ids \subseteq made[r]

\* notifier.go:132-161.  A puzzle on the list gets its turn, unless the program
\* stops first: no failure for one puzzle holds up the others.
EveryoneGetsATurn ==
  \A p \in Puzzles :
    p \in pending /\ proc = "up" /\ Unlock[p] <= MaxTime ~> tries[p] > 0 \/ proc # "up"

\* notifier.go:157-174.  Once it is asked to stop the program does not wait for
\* the next puzzle: it ends.
StopEnds == proc = "stopping" ~> proc = "down"

\* notifier.go:106-162.  The schedule implements the abstract announcements: over
\* all starts of the program no puzzle is announced early, and none twice.
Channel == INSTANCE Announcements WITH clock <- now, said <- posts

AnnouncementsSpec == Channel!Spec
=============================================================================
