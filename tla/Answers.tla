------------------------------ MODULE Answers ------------------------------
(***************************************************************************)
(* Submitting answers: the POST /<event>/puzzle/<path>/answer route.       *)
(*                                                                         *)
(* A request passes through pageDataMiddleware, which fixes the time it    *)
(* will be judged by, userMiddleware, which reads the user and then, in a  *)
(* second transaction, the user's progress, and the handler built by       *)
(* puzzleAnswerDataFunc, which reads the form and commits in one write     *)
(* transaction.  Between these steps other requests of the same user, the  *)
(* administrator's API and the clock move on, so what the request carries  *)
(* (its time, the tester flag, whether progress exists) may be stale when  *)
(* it is used.                                                             *)
(***************************************************************************)
EXTENDS Integers, Sequences, SequencesExt

CONSTANTS
  Users,              \* registered users
  Events,             \* events of the configuration
  Puzzles,            \* puzzles of all events
  EventOf,            \* the event a puzzle belongs to
  Unlock,             \* Puzzle.Unlock
  Texts,              \* what an answer field can hold
  Blank,              \* the empty answer
  Normal,             \* TrimSpace and the whitespace replacer, as a function
  Right,              \* Right[u][p]: the answers of the input variant of u
  Cooldown,           \* the 30 seconds a wrong answer costs
  MaxIncorrectKept,   \* auth.MaxIncorrectKept
  Tabs,               \* connections that can each carry one request
  TabUser,            \* the user logged in on a connection
  MaxTime             \* bound on the clock, for model checking

ASSUME ConfigAssumption ==
  /\ Puzzles # {}
  /\ EventOf \in [Puzzles -> Events]
  /\ Unlock \in [Puzzles -> Nat]
  /\ Blank \in Texts
  /\ Normal \in [Texts -> Texts]
  /\ Right \in [Users -> [Puzzles -> Seq(Texts)]]
  /\ Cooldown \in Nat \ {0}
  /\ MaxIncorrectKept \in Nat \ {0}
  /\ TabUser \in [Tabs -> Users]
  /\ MaxTime \in Nat

\* LoadEvent refuses an input whose answers do not match the parts one to one,
\* so every input variant of a puzzle has the same number of answers.
CONSTANT PartCount

ASSUME LoadedAssumption ==
  /\ PartCount \in [Puzzles -> Nat]
  /\ \A u \in Users, p \in Puzzles : Len(Right[u][p]) = PartCount[p]

VARIABLES
  now,        \* the clock
  tester,     \* User.Tester
  stored,     \* stored[u][e]: the progress bucket of event e has an entry for u
  incorrect,  \* UserProgress.Incorrect
  timeout,    \* UserProgress.Timeout, 0 for the zero time
  solves,     \* PuzzleProgress.Parts: the time each part was solved at
  wrong,      \* PuzzleProgress.Incorrect: wrong answers kept for the current part
  rowBegan,   \* history: the time of the first of the Incorrect wrong answers in a row
  req,        \* the request on each connection, or the reply to the last one
  wasTester   \* history: users that have ever had the tester flag

\* The user's progress, and what is remembered of it.
progress == <<stored, incorrect, timeout, solves, wrong, rowBegan>>
vars == <<now, tester, progress, req, wasTester>>

Zero == 0      \* time.Time{}; the clock starts later than that

ReplyKinds == {"none", "locked", "badRequest", "badPart", "alreadySolved",
               "empty", "timeout", "incorrect", "correct"}
Reply == [kind : ReplyKinds, finished : BOOLEAN]

Phases == {"idle", "arrived", "authenticated", "loaded"}
Request == [phase : Phases, puzzle : Puzzles, asked : Nat,
            tester : BOOLEAN, known : BOOLEAN, reply : Reply]

Idle(reply) ==
  [phase |-> "idle", puzzle |-> CHOOSE p \in Puzzles : TRUE, asked |-> Zero,
   tester |-> FALSE, known |-> FALSE, reply |-> reply]

NoReply == [kind |-> "none", finished |-> FALSE]

Init ==
  /\ now = 1
  /\ tester \in [Users -> BOOLEAN]
  /\ wasTester = {u \in Users : tester[u]}
  /\ stored = [u \in Users |-> [e \in Events |-> FALSE]]
  /\ incorrect = [u \in Users |-> [e \in Events |-> 0]]
  /\ timeout = [u \in Users |-> [e \in Events |-> Zero]]
  /\ solves = [u \in Users |-> [p \in Puzzles |-> <<>>]]
  /\ wrong = [u \in Users |-> [p \in Puzzles |-> <<>>]]
  /\ rowBegan = [u \in Users |-> [e \in Events |-> Zero]]
  /\ req = [t \in Tabs |-> Idle(NoReply)]

-----------------------------------------------------------------------------
(* The environment: time, and the administrator's API.                     *)

Tick ==
  /\ now < MaxTime
  /\ now' = now + 1
  /\ UNCHANGED <<tester, progress, req, wasTester>>

\* POST /user/{id} with the tester field set.
SetTester(u, b) ==
  /\ tester' = [tester EXCEPT ![u] = b]
  /\ wasTester' = IF b THEN wasTester \union {u} ELSE wasTester
  /\ UNCHANGED <<now, progress, req>>

\* Mutant of DeleteProgress: the entries emptied but not taken out.
DeleteProgressEmptied(u) ==
  /\ incorrect' = [incorrect EXCEPT ![u] = [e \in Events |-> 0]]
  /\ timeout' = [timeout EXCEPT ![u] = [e \in Events |-> Zero]]
  /\ solves' = [solves EXCEPT ![u] = [p \in Puzzles |-> <<>>]]
  /\ wrong' = [wrong EXCEPT ![u] = [p \in Puzzles |-> <<>>]]
  /\ rowBegan' = [rowBegan EXCEPT ![u] = [e \in Events |-> Zero]]
  /\ UNCHANGED <<now, tester, stored, req, wasTester>>

\* Auth.DeleteProgress: one transaction drops the user's entry of every event.
DeleteProgress(u) ==
  /\ stored' = [stored EXCEPT ![u] = [e \in Events |-> FALSE]]
  /\ incorrect' = [incorrect EXCEPT ![u] = [e \in Events |-> 0]]
  /\ timeout' = [timeout EXCEPT ![u] = [e \in Events |-> Zero]]
  /\ solves' = [solves EXCEPT ![u] = [p \in Puzzles |-> <<>>]]
  /\ wrong' = [wrong EXCEPT ![u] = [p \in Puzzles |-> <<>>]]
  /\ rowBegan' = [rowBegan EXCEPT ![u] = [e \in Events |-> Zero]]
  /\ UNCHANGED <<now, tester, req, wasTester>>

-----------------------------------------------------------------------------
(* The middlewares: each step reads what the handler will rely on later.   *)

\* pageDataMiddleware: the request's time is fixed once, on arrival.
Arrive(t, p) ==
  /\ req[t].phase = "idle"
  /\ req' = [req EXCEPT ![t] = [Idle(NoReply) EXCEPT
                                  !.phase = "arrived", !.puzzle = p, !.asked = now]]
  /\ UNCHANGED <<now, tester, progress, wasTester>>

\* userMiddleware, a.User: a copy of the user as it is now.
Authenticate(t) ==
  /\ req[t].phase = "arrived"
  /\ req' = [req EXCEPT ![t] = [@ EXCEPT
                !.phase = "authenticated", !.tester = tester[TabUser[t]]]]
  /\ UNCHANGED <<now, tester, progress, wasTester>>

\* userMiddleware, a.Progress: of this copy the answer route only uses
\* whether there is one.
LoadProgress(t) ==
  /\ req[t].phase = "authenticated"
  /\ req' = [req EXCEPT ![t] = [@ EXCEPT
                !.phase = "loaded", !.known = stored[TabUser[t]][EventOf[req[t].puzzle]]]]
  /\ UNCHANGED <<now, tester, progress, wasTester>>

-----------------------------------------------------------------------------
(* The handler.  Every alternative below is one way it can end.            *)

Respond(t, kind, finished) ==
  req' = [req EXCEPT ![t] = Idle([kind |-> kind, finished |-> finished])]

\* Mutant: the lock is checked against the clock, not the request's time.
LockedByClock(p, time, isTester) == Unlock[p] > now /\ ~isTester

Locked(p, time, isTester) == Unlock[p] > time /\ ~isTester

\* Past the lock: the form is only read now.
Admitted(t) ==
  /\ req[t].phase = "loaded"
  /\ ~Locked(req[t].puzzle, req[t].asked, req[t].tester)

RefuseLocked(t) ==
  /\ req[t].phase = "loaded"
  /\ Locked(req[t].puzzle, req[t].asked, req[t].tester)
  /\ Respond(t, "locked", FALSE)
  /\ UNCHANGED <<now, tester, progress, wasTester>>

\* ParseForm fails: the body is not a form.
RefuseForm(t) ==
  /\ Admitted(t)
  /\ Respond(t, "badRequest", FALSE)
  /\ UNCHANGED <<now, tester, progress, wasTester>>

\* The part the form names, an index from 0.  Any other number and anything
\* that is no number are turned down alike: -1 stands for all of them.
PostedParts(p) == -1 .. PartCount[p] - 1

\* The checks made before the transaction, against the progress loaded earlier.
PartAccepted(t, part) ==
  /\ part \in 0 .. PartCount[req[t].puzzle] - 1
  /\ req[t].known \/ part = 0

RefusePart(t, part) ==
  /\ Admitted(t)
  /\ ~PartAccepted(t, part)
  /\ Respond(t, "badPart", FALSE)
  /\ UNCHANGED <<now, tester, progress, wasTester>>

\* Mutant: the comparison with the solved parts is off by one.
AlreadySolvedOffByOne(t, part) ==
  /\ Admitted(t) /\ PartAccepted(t, part)
  /\ part <= Len(solves[TabUser[t]][req[t].puzzle])
  /\ Respond(t, "alreadySolved", part + 1 = PartCount[req[t].puzzle])
  /\ UNCHANGED <<now, tester, progress, wasTester>>

\* Inside UpdateProgress: the second check, with up-to-date data.  A callback
\* that returns errCancelUpdate leaves the database as it was.
AlreadySolved(t, part) ==
  LET u == TabUser[t]
      p == req[t].puzzle
  IN /\ Admitted(t) /\ PartAccepted(t, part)
     /\ part < Len(solves[u][p])
     /\ Respond(t, "alreadySolved", part + 1 = PartCount[p])
     /\ UNCHANGED <<now, tester, progress, wasTester>>

PartTooFar(t, part) ==
  /\ Admitted(t) /\ PartAccepted(t, part)
  /\ part > Len(solves[TabUser[t]][req[t].puzzle])
  /\ Respond(t, "badPart", FALSE)
  /\ UNCHANGED <<now, tester, progress, wasTester>>

\* Mutant: no second check with up-to-date data.
OnCurrentPartUnchecked(t, part) == Admitted(t) /\ PartAccepted(t, part)

\* The part asked for is the one the user is on.
OnCurrentPart(t, part) ==
  /\ Admitted(t) /\ PartAccepted(t, part)
  /\ part = Len(solves[TabUser[t]][req[t].puzzle])

EmptyAnswer(t, part, text) ==
  /\ OnCurrentPart(t, part)
  /\ Normal[text] = Blank
  /\ Respond(t, "empty", FALSE)
  /\ UNCHANGED <<now, tester, progress, wasTester>>

\* Mutant: the cooldown is compared with the clock at commit time.
OnCooldownByClock(t) == timeout[TabUser[t]][EventOf[req[t].puzzle]] > now

\* progress.Timeout.After(pd.Now)
OnCooldown(t) ==
  timeout[TabUser[t]][EventOf[req[t].puzzle]] > req[t].asked

TimeoutAnswer(t, part, text) ==
  /\ OnCurrentPart(t, part)
  /\ Normal[text] # Blank
  /\ OnCooldown(t)
  /\ Respond(t, "timeout", FALSE)
  /\ UNCHANGED <<now, tester, progress, wasTester>>

\* The answer is judged.
Judged(t, part, text) ==
  /\ OnCurrentPart(t, part)
  /\ Normal[text] # Blank
  /\ ~OnCooldown(t)

\* slices.DeleteFunc on a list that never holds a value twice.
Without(list, a) ==
  IF \E i \in 1 .. Len(list) : list[i] = a
  THEN RemoveAt(list, CHOOSE i \in 1 .. Len(list) : list[i] = a)
  ELSE list

\* The newest n elements.
Newest(list, n) ==
  IF Len(list) > n THEN SubSeq(list, Len(list) - n + 1, Len(list)) ELSE list

\* Mutant of Keep: the repeated answer is taken out, and not put back.
KeepForgets(list, a) ==
  IF Without(list, a) # list THEN Without(list, a) ELSE Newest(Append(list, a), MaxIncorrectKept)

\* The kept wrong answers once a is given (again): a moves to the end and the
\* oldest ones go.
Keep(list, a) == Newest(Append(Without(list, a), a), MaxIncorrectKept)

WrongAnswer(t, part, text) ==
  LET u == TabUser[t]
      p == req[t].puzzle
      e == EventOf[p]
  IN /\ Judged(t, part, text)
     /\ Normal[text] # Right[u][p][part + 1]
     /\ stored' = [stored EXCEPT ![u][e] = TRUE]
     /\ incorrect' = [incorrect EXCEPT ![u][e] = @ + 1]
     /\ timeout' = [timeout EXCEPT ![u][e] = req[t].asked + Cooldown]
     /\ wrong' = [wrong EXCEPT ![u][p] = Keep(@, Normal[text])]
     /\ rowBegan' = [rowBegan EXCEPT ![u][e] = IF incorrect[u][e] = 0 THEN req[t].asked ELSE @]
     /\ Respond(t, "incorrect", FALSE)
     /\ UNCHANGED <<now, tester, solves, wasTester>>

RightAnswer(t, part, text) ==
  LET u == TabUser[t]
      p == req[t].puzzle
      e == EventOf[p]
  IN /\ Judged(t, part, text)
     /\ Normal[text] = Right[u][p][part + 1]
     /\ stored' = [stored EXCEPT ![u][e] = TRUE]
     /\ incorrect' = [incorrect EXCEPT ![u][e] = 0]
     /\ timeout' = [timeout EXCEPT ![u][e] = Zero]
     /\ solves' = [solves EXCEPT ![u][p] = Append(@, req[t].asked)]
     /\ wrong' = [wrong EXCEPT ![u][p] = <<>>]
     /\ rowBegan' = [rowBegan EXCEPT ![u][e] = Zero]
     /\ Respond(t, "correct", part + 1 = PartCount[p])
     /\ UNCHANGED <<now, tester, wasTester>>

Submit(t, part, text) ==
  \/ EmptyAnswer(t, part, text)
  \/ TimeoutAnswer(t, part, text)
  \/ WrongAnswer(t, part, text)
  \/ RightAnswer(t, part, text)

Handle(t) ==
  \/ RefuseLocked(t)
  \/ RefuseForm(t)
  \/ \E part \in PostedParts(req[t].puzzle) :
        \/ RefusePart(t, part)
        \/ AlreadySolved(t, part)
        \/ PartTooFar(t, part)
        \/ \E text \in Texts : Submit(t, part, text)

\* A request for another page of the event, which only reads.
Browse(t) ==
  /\ req[t].phase \in {"arrived", "loaded"}
  /\ Respond(t, "none", FALSE)
  /\ UNCHANGED <<now, tester, progress, wasTester>>

Next ==
  \/ Tick
  \/ \E u \in Users : DeleteProgress(u) \/ \E b \in BOOLEAN : SetTester(u, b)
  \/ \E t \in Tabs :
        \/ \E p \in Puzzles : Arrive(t, p)
        \/ Authenticate(t)
        \/ LoadProgress(t)
        \/ Handle(t)
        \/ Browse(t)

Spec == Init /\ [][Next]_vars

-----------------------------------------------------------------------------
(* Safety.                                                                 *)

\* The variables hold what the Go types and the request life cycle allow.
TypeOK ==
  /\ now \in Nat \ {0}
  /\ tester \in [Users -> BOOLEAN]
  /\ wasTester \in SUBSET Users
  /\ stored \in [Users -> [Events -> BOOLEAN]]
  /\ incorrect \in [Users -> [Events -> Nat]]
  /\ timeout \in [Users -> [Events -> Nat]]
  /\ solves \in [Users -> [Puzzles -> Seq(Nat)]]
  /\ wrong \in [Users -> [Puzzles -> Seq(Texts)]]
  /\ rowBegan \in [Users -> [Events -> Nat]]
  /\ req \in [Tabs -> Request]

\* puzzle.go:291-302.  However requests overlap, n wrong answers in a row cost
\* at least n cooldowns, counted from the first of them: nobody saves up guesses
\* while idle, or gains any by asking ahead.  The cooldown never reaches further
\* than one Cooldown past the present, and there is none without a wrong answer.
GuessRateLimited ==
  \A u \in Users, e \in Events :
    IF incorrect[u][e] = 0
    THEN timeout[u][e] = Zero
    ELSE /\ rowBegan[u][e] + incorrect[u][e] * Cooldown <= timeout[u][e]
         /\ timeout[u][e] <= now + Cooldown

\* user.go:57-63.  The kept answers are wrong answers to the part the user is
\* on now: never too many, never one twice, never the right answer of that
\* part, none left over from a part already solved.
KeptAnswersBelong ==
  \A u \in Users, p \in Puzzles :
    LET kept == wrong[u][p]
        part == Len(solves[u][p]) + 1
    IN /\ Len(kept) <= MaxIncorrectKept
       /\ \A i, j \in 1 .. Len(kept) : kept[i] = kept[j] => i = j
       /\ kept # <<>> => part <= PartCount[p]
       /\ \A i \in 1 .. Len(kept) : kept[i] # Right[u][p][part] /\ kept[i] # Blank

\* puzzle.go:300-323.  A counted mistake is always on record: while the event
\* counts wrong answers, some puzzle of that event shows the latest of them.
MistakesAreKept ==
  \A u \in Users, e \in Events :
    incorrect[u][e] > 0 =>
      \E p \in Puzzles : EventOf[p] = e /\ wrong[u][p] # <<>>

\* puzzles.go:243-245 with puzzle.go:229.  No part carries a solve time before
\* the puzzle was unlocked, except for users that were testers at some point,
\* even though flag, clock and commit are read at three different moments.
SolvedAfterUnlock ==
  \A u \in Users \ wasTester, p \in Puzzles :
    \A i \in 1 .. Len(solves[u][p]) : Unlock[p] <= solves[u][p][i] /\ solves[u][p][i] <= now

\* puzzle.go:300-316.  Wrong answers and the count of them are about the same
\* mistakes, through repeats, a full list, resets and the next part.
WrongAnswersOnRecord == KeptAnswersBelong /\ MistakesAreKept

\* What the properties above rest on, step by step.  An entry that is not
\* stored is empty.
AbsentIsEmpty ==
  \A u \in Users :
    /\ \A p \in Puzzles :
         ~stored[u][EventOf[p]] => solves[u][p] = <<>> /\ wrong[u][p] = <<>>
    /\ \A e \in Events : ~stored[u][e] => incorrect[u][e] = 0

\* No puzzle has more solves than parts.
SolvesFit ==
  \A u \in Users, p \in Puzzles : Len(solves[u][p]) <= PartCount[p]

\* A request judged by a time or a flag got it from a clock and a user that
\* really were there.
RequestsHonest ==
  /\ \A u \in Users : tester[u] => u \in wasTester
  /\ \A t \in Tabs :
       /\ req[t].asked <= now
       /\ req[t].phase # "idle" => req[t].asked > Zero
       /\ req[t].tester => TabUser[t] \in wasTester

Consistent == AbsentIsEmpty /\ SolvesFit /\ RequestsHonest

\* puzzle.go:254-262 and user.go:207-226.  Together the support is one invariant:
\* however resets and answers alternate, nothing is left in an entry that is not
\* stored, no puzzle has too many solves, and requests carry what once was true.
Support == TypeOK /\ Consistent

-----------------------------------------------------------------------------
(* What a step may never do.                                               *)

Answered(t) == req[t].phase = "loaded" /\ req'[t].phase = "idle"

Won(t) ==
  Len(solves'[TabUser[t]][req[t].puzzle]) = Len(solves[TabUser[t]][req[t].puzzle]) + 1

\* puzzle.go:264-338.  The page tells the truth about the stored progress: it
\* says "correct" exactly when this request added a part, and that the puzzle
\* is finished only when every part of it is solved by then.
RepliesTruthful ==
  [][\A t \in Tabs :
       Answered(t) =>
         /\ req'[t].reply.kind = "correct" <=> Won(t)
         /\ req'[t].reply.finished =>
              Len(solves'[TabUser[t]][req[t].puzzle]) = PartCount[req[t].puzzle]]_vars

\* puzzle.go:318-324, user.go:207-226.  A recorded solve keeps its place and its
\* time for ever; the only way to lose one is a reset, which leaves that user
\* without an entry in any event.
SolvesArePermanent ==
  [][\A u \in Users :
       (\E p \in Puzzles : ~IsPrefix(solves[u][p], solves'[u][p])) =>
         /\ \A e \in Events : ~stored'[u][e]
         /\ \A p \in Puzzles : solves'[u][p] = <<>>]_vars

\* The answer route implements the abstract scorecard.
Score == INSTANCE Scorecard
         WITH won <- [u \in Users |-> [p \in Puzzles |-> Len(solves[u][p])]]

ScorecardSpec == Score!Spec
=============================================================================
