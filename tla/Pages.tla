------------------------------- MODULE Pages -------------------------------
(***************************************************************************)
(* The pages of an event: the list of puzzles next to every page, a puzzle *)
(* with the parts solved so far, its input, the link to the latest puzzle, *)
(* and the page an answer gets.                                            *)
(*                                                                         *)
(* Every request takes the way of module Answers, through the same         *)
(* middlewares; puzzlesMiddleware adds to the page data what the copy of   *)
(* the progress says.  The page is made from that copy later, after other  *)
(* requests have stored answers, puzzles have been unlocked, and           *)
(* administrators have reset the user or taken the tester flag away.       *)
(***************************************************************************)
EXTENDS Answers

CONSTANTS
  Listed,     \* Event.Puzzles, in the order of the configuration
  NoPuzzle

\* What LoadEvent makes sure of: each puzzle is in its event once, and every input
\* has an answer for each part.
LoadEvent ==
  /\ \A e \in Events : /\ IsInjective(Listed[e])
                       /\ ToSet(Listed[e]) = {p \in Puzzles : EventOf[p] = e}
  /\ \A u \in Users, p \in Puzzles : Len(Right[u][p]) = PartCount[p]

ASSUME PagesAssumption ==
  /\ Listed \in [Events -> Seq(Puzzles)]
  /\ NoPuzzle \notin Puzzles
  /\ LoadEvent

VARIABLES
  pd,      \* pageData of the request on each connection, then the page it led to
  owed,    \* history: how many parts were stored as solved when the request arrived
  upset    \* history: connections with a request whose user was reset since then

pages == <<pd, owed, upset>>
pageVars == <<vars, pages>>

\* user: the page is made for a user; menu: puzzleData.Solved; open: puzzles whose
\* puzzleData is not Locked; to: the puzzle shown, or led to; texts and answers: how many
\* parts of it are shown, and with their answer.
PageData == [user : BOOLEAN, menu : [Puzzles -> Nat],
             open : SUBSET Puzzles, to : Puzzles \union {NoPuzzle},
             texts : Nat, answers : Nat]

NoSolves == [p \in Puzzles |-> 0]

BlankPage ==
  [user |-> FALSE, menu |-> NoSolves, open |-> {}, to |-> NoPuzzle, texts |-> 0, answers |-> 0]

PagesInit ==
  /\ Init
  /\ pd = [t \in Tabs |-> BlankPage]
  /\ owed = [t \in Tabs |-> NoSolves]
  /\ upset = {}

-----------------------------------------------------------------------------
(* The middlewares.                                                        *)

Solved(u) == [p \in Puzzles |-> Len(solves[u][p])]

\* The event of the request on t.
Event(t) == EventOf[req[t].puzzle]

Ask(t, p) ==
  /\ Arrive(t, p)
  /\ pd' = [pd EXCEPT ![t] = BlankPage]
  /\ owed' = [owed EXCEPT ![t] = Solved(TabUser[t])]
  /\ UNCHANGED upset

\* What puzzlesMiddleware adds, for a user with this flag and these solves.
Menu(t, user, isTester, count) ==
  [BlankPage EXCEPT
     !.user = user,
     !.menu = [p \in Puzzles |-> IF EventOf[p] = Event(t) THEN count[p] ELSE 0],
     !.open = {p \in Puzzles : EventOf[p] = Event(t) /\ ~Locked(p, req[t].asked, isTester)}]

\* userMiddleware has the copy of the progress, if there is any, and puzzlesMiddleware
\* reads it.
Load(t) ==
  /\ LoadProgress(t)
  /\ pd' = [pd EXCEPT ![t] =
              Menu(t, TRUE, req[t].tester,
                   IF stored[TabUser[t]][Event(t)] THEN Solved(TabUser[t]) ELSE NoSolves)]
  /\ UNCHANGED <<owed, upset>>

-----------------------------------------------------------------------------
(* The handlers.                                                           *)

\* The request ends with this page.
Show(t, page) ==
  /\ pd' = [pd EXCEPT ![t] = page]
  /\ owed' = [owed EXCEPT ![t] = NoSolves]
  /\ upset' = upset \ {t}

\* Mutant of Counted: a part is counted whatever became of the answer.
CountedAlways(menu, p, kind) == [menu EXCEPT ![p] = @ + 1]

\* The right answer is added to the copy of the count.
Counted(menu, p, kind) == IF kind = "correct" THEN [menu EXCEPT ![p] = @ + 1] ELSE menu

\* The page an answer gets.
Answer(t) ==
  /\ Handle(t)
  /\ Show(t, [pd[t] EXCEPT !.menu = Counted(@, req[t].puzzle, req'[t].reply.kind)])

\* The puzzle itself: the parts solved, and the next one.
PuzzlePage(t, page, isTester) ==
  LET p == req[t].puzzle
  IN  IF Locked(p, req[t].asked, isTester) THEN page
      ELSE [page EXCEPT !.to = p,
                        !.texts = IF page.menu[p] < PartCount[p] THEN page.menu[p] + 1
                                  ELSE PartCount[p],
                        !.answers = IF page.user THEN page.menu[p] ELSE 0]

InputPage(t, page, isTester) ==
  IF Locked(req[t].puzzle, req[t].asked, isTester) THEN page
  ELSE [page EXCEPT !.to = req[t].puzzle]

\* Mutant of Open: the last puzzle is taken to be the latest.
OpenAll(t, isTester) == DOMAIN Listed[Event(t)]

\* Where in its event the puzzles are that are not locked.
Open(t, isTester) ==
  {i \in DOMAIN Listed[Event(t)] : ~Locked(Listed[Event(t)][i], req[t].asked, isTester)}

\* The redirect to the last of them, or to the event.
LatestPages(t, page, isTester) ==
  IF Open(t, isTester) = {} THEN {page}
  ELSE {[page EXCEPT !.to = Listed[Event(t)][i]] :
          i \in {i \in Open(t, isTester) : \A j \in Open(t, isTester) : j <= i}}

\* Every page that can be asked for; the event, its rules and others only have the menu.
PagesFor(t, page, isTester) ==
  {page, PuzzlePage(t, page, isTester), InputPage(t, page, isTester)}
    \union LatestPages(t, page, isTester)

\* A user asks for a page.
View(t) ==
  /\ req[t].phase = "loaded"
  /\ Browse(t)
  /\ \E page \in PagesFor(t, pd[t], req[t].tester) : Show(t, page)

\* The session shows no user: only the time counts, nothing is solved, and the input
\* is refused.
Visit(t) ==
  /\ req[t].phase = "arrived"
  /\ Browse(t)
  /\ LET anyone == Menu(t, FALSE, FALSE, NoSolves)
     IN  \E page \in {anyone, PuzzlePage(t, anyone, FALSE)} \union LatestPages(t, anyone, FALSE) :
           Show(t, page)

-----------------------------------------------------------------------------
(* The administrators.                                                     *)

ResetUser(u) ==
  /\ DeleteProgress(u)
  /\ upset' = upset \union {t \in Tabs : TabUser[t] = u /\ req[t].phase # "idle"}
  /\ UNCHANGED <<pd, owed>>

PagesNext ==
  \/ Tick /\ UNCHANGED pages
  \/ \E u \in Users : ResetUser(u) \/ \E b \in BOOLEAN : SetTester(u, b) /\ UNCHANGED pages
  \/ \E t \in Tabs :
       \/ \E p \in Puzzles : Ask(t, p)
       \/ Authenticate(t) /\ UNCHANGED pages
       \/ Load(t)
       \/ Answer(t)
       \/ View(t)
       \/ Visit(t)

PagesSpec == PagesInit /\ [][PagesNext]_pageVars

-----------------------------------------------------------------------------
(* Properties.                                                             *)

\* The page data has its type.
PagesTypeOK ==
  /\ pd \in [Tabs -> PageData]
  /\ owed \in [Tabs -> [Puzzles -> Nat]]
  /\ upset \subseteq Tabs

\* A page is shown to a user.
Shown(t) == req[t].phase # "idle" /\ req'[t].phase = "idle" /\ pd'[t].user

\* puzzle.go:81-101, 121-147 and 327-329.  However late it is made, a page counts all
\* that was solved when it was asked for and what its own answer added, and nothing
\* that is not stored when it is shown; nor does it show an answer, or the part
\* after it, that the user did not get to.  Only a reset meanwhile can make it wrong.
PagesBetween ==
  [][\A t \in Tabs : Shown(t) /\ t \notin upset =>
       LET u == TabUser[t]
           page == pd'[t]
           won(p) == req'[t].reply.kind = "correct" /\ p = req[t].puzzle
       IN  /\ \A p \in Puzzles : EventOf[p] = Event(t) =>
                /\ owed[t][p] + (IF won(p) THEN 1 ELSE 0) <= page.menu[p]
                /\ page.menu[p] <= Len(solves'[u][p])
           /\ page.to # NoPuzzle =>
                /\ page.answers <= Len(solves'[u][page.to])
                /\ page.texts <= Len(solves'[u][page.to]) + 1]_pageVars

\* puzzles.go:243-245 with puzzle.go:89, 117, 160 and 190.  No page names a puzzle as
\* open, shows it or its input, or leads to it before it is unlocked, except to users
\* that were testers, although flag and time are those of the beginning.
NothingEarly ==
  \A t \in Tabs :
    \A p \in pd[t].open \union ({pd[t].to} \ {NoPuzzle}) :
      Unlock[p] <= now \/ (pd[t].user /\ TabUser[t] \in wasTester)
=============================================================================
