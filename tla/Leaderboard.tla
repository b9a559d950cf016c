---------------------------- MODULE Leaderboard -----------------------------
(***************************************************************************)
(* The pages that rank the players of one event: the leaderboard with its  *)
(* chart, the summary for the Discord bot, and the administrators' list of *)
(* solves.  A page reads the stored progress in one transaction each time  *)
(* it ranks, and most pages rank twice, so players can be recorded, hidden *)
(* or reset while a page is being made.  A solve carries the time its      *)
(* request came in, which is earlier than the commit that stores it.       *)
(***************************************************************************)
EXTENDS Naturals, Sequences, FiniteSets, FiniteSetsExt, SequencesExt

CONSTANTS
  Users,
  Name,        \* the rank of a user's name in the alphabet; names differ
  Testers,     \* users that may answer before the unlock
  Event,       \* the puzzles in the order of the configuration
  Unlock,      \* when a puzzle is unlocked
  PartCount,   \* parts of a puzzle
  Hour,        \* how far the summary looks back
  Pages,       \* page requests
  MaxRank,     \* how many ranks the chart shows
  PlotWidth,   \* how wide the chart is
  ClumpGap,    \* solves that are not further apart are drawn as one step
  Margin,      \* how long after the last unlock the chart goes on
  Forever,     \* later than every solve: a page that counts them all
  Starts,      \* the states the program may be started in, with the pages asked for
  Players,     \* bound on the users that are active, for model checking
  MaxTime,     \* bound on the clock, for model checking
  MaxSolves,   \* bound on solves and answers under way, for model checking
  MaxActs,     \* bound on the changes administrators make, for model checking
  MaxOpen      \* bound on the pages under way at a time, for model checking: pages
               \* only read, so more of them at a time show nothing more

Puzzles == ToSet(Event)
Kinds == {"board", "chart", "summary", "solves"}

ASSUME BoardAssumption ==
  /\ IsFiniteSet(Users) /\ Testers \subseteq Users /\ Players \subseteq Users
  /\ Name \in [Users -> Nat] /\ \A u, v \in Users : Name[u] = Name[v] => u = v
  /\ Event \in Seq(Puzzles) /\ Event # <<>> /\ IsInjective(Event)
  /\ Unlock \in [Puzzles -> Nat]
  /\ PartCount \in [Puzzles -> 1..2]
  /\ {MaxRank, PlotWidth, Hour} \subseteq Nat \ {0} /\ {ClumpGap, Margin} \subseteq Nat
  /\ {Forever, MaxTime, MaxSolves, MaxActs, MaxOpen} \subseteq Nat /\ MaxTime <= Forever

\* What is stored at a start was solved earlier, with the same puzzles.
ASSUME StartsAssumption ==
  /\ Starts \subseteq [now : 0..Forever, solves : [Users -> [Puzzles -> Seq(Nat)]],
                       visit : [Pages -> Kinds \union {"none"}]]
  /\ \A start \in Starts, u \in Users, p \in Puzzles :
       /\ Len(start.solves[u][p]) <= PartCount[p]
       /\ \A i \in 1..Len(start.solves[u][p]) : start.solves[u][p][i] <= start.now

VARIABLES
  now,       \* the clock
  joined,    \* users with an entry in the progress bucket of the event
  hidden,    \* users with User.Hidden
  solves,    \* PuzzleProgress.Parts: when each part was solved
  answer,    \* answers under way
  page,      \* the pages being made or served, and what went on meanwhile
  acts       \* what administrators changed so far, counted

players == <<joined, hidden, solves>>
boardVars == <<now, players, answer, page, acts>>

NoPuzzle == "none"
NoAnswer == [puzzle |-> NoPuzzle, at |-> 0]
NoTable == [players |-> {}, solves |-> {}]
NoList == [current |-> NoPuzzle, previous |-> {}, next |-> NoPuzzle,
           solvers |-> [p \in Puzzles |-> <<0, 0>>]]
NoChart == [u \in Users |-> [label |-> 0, dots |-> {}]]
NoPage(kind) == [kind |-> kind, phase |-> "idle", at |-> 0, first |-> NoTable,
                 second |-> NoTable, list |-> NoList, chart |-> NoChart,
                 owed |-> {}, kept |-> TRUE, full |-> TRUE]

\* The progress in the database outlives the program.
BoardInit ==
  \E start \in Starts :
    /\ now = start.now
    /\ solves = start.solves
    /\ joined = {u \in Users : \E p \in Puzzles : start.solves[u][p] # <<>>}
    /\ hidden \in SUBSET Testers
    /\ answer = [u \in Users |-> NoAnswer]
    /\ page = [k \in Pages |-> NoPage(start.visit[k])]
    /\ acts = 0

Tick ==
  /\ now < MaxTime
  /\ now' = now + 1
  /\ UNCHANGED <<players, answer, page, acts>>

-----------------------------------------------------------------------------
(* The players.                                                            *)

\* All solves that are stored, of these users.
SolvesOf(us) ==
  UNION {{[user |-> u, puzzle |-> p, part |-> i, time |-> solves[u][p][i]] :
            i \in 1..Len(solves[u][p])} : u \in us, p \in Puzzles}

\* An answer request takes its time when it comes in.
Answer(u, p) ==
  /\ answer[u] = NoAnswer
  /\ Cardinality(SolvesOf(Users)) + Cardinality({v \in Users : answer[v] # NoAnswer}) < MaxSolves
  /\ Unlock[p] <= now \/ u \in Testers
  /\ answer' = [answer EXCEPT ![u] = [puzzle |-> p, at |-> now]]
  /\ UNCHANGED <<now, players, page, acts>>

\* History: pages whose past changes because of an answer given at this time.
Late(at) == [k \in Pages |-> [page[k] EXCEPT !.full = @ /\ ~(page[k].phase # "idle" /\ at <= page[k].at)]]

\* The commit of an answer to the part the player is on.  A right one adds a
\* solve; any one makes the player appear.
Accepted(u) == Len(solves[u][answer[u].puzzle]) < PartCount[answer[u].puzzle]

Record(u) ==
  /\ answer[u] # NoAnswer
  /\ answer' = [answer EXCEPT ![u] = NoAnswer]
  /\ \/ UNCHANGED <<players, page>>
     \/ /\ Accepted(u)
        /\ joined' = joined \union {u}
        /\ UNCHANGED <<hidden, solves, page>>
     \/ /\ Accepted(u)
        /\ joined' = joined \union {u}
        /\ solves' = [solves EXCEPT ![u][answer[u].puzzle] = Append(@, answer[u].at)]
        /\ page' = Late(answer[u].at)
        /\ UNCHANGED hidden
  /\ UNCHANGED <<now, acts>>

\* History: pages under way, or served, before players were hidden or reset.
Disturbed == [k \in Pages |-> [page[k] EXCEPT !.kept = @ /\ page[k].phase = "idle"]]

\* An administrator hides a user or shows it again.
Hide(u) ==
  /\ acts < MaxActs /\ acts' = acts + 1
  /\ hidden' = IF u \in hidden THEN hidden \ {u} ELSE hidden \union {u}
  /\ page' = Disturbed
  /\ UNCHANGED <<now, joined, solves, answer>>

\* An administrator deletes the progress of a user.
Reset(u) ==
  /\ acts < MaxActs /\ acts' = acts + 1
  /\ u \in joined
  /\ joined' = joined \ {u}
  /\ solves' = [solves EXCEPT ![u] = [p \in Puzzles |-> <<>>]]
  /\ page' = Disturbed
  /\ UNCHANGED <<now, hidden, answer>>

-----------------------------------------------------------------------------
(* The ranking.                                                            *)

Visible == joined \ hidden

StartPointsOfAll == [p \in Puzzles |-> [i \in 1..PartCount[p] |-> Cardinality(joined)]]

\* A solve without what it earned.
Bare(s) == [user |-> s.user, puzzle |-> s.puzzle, part |-> s.part, time |-> s.time]

\* What a solve of each part is worth before anyone solved it.
StartPoints == [p \in Puzzles |-> [i \in 1..PartCount[p] |-> Cardinality(Visible)]]

\* The orders sorting by time can leave the solves in: ties stay arbitrary.
Orders(S) ==
  {o \in SetToSeqs(S) : \A i, j \in DOMAIN o : i < j => o[i].time <= o[j].time}

\* The page counts the solves up to this time.
Within(time, cut) == time <= cut
Replays(cut) == Orders({s \in SolvesOf(Visible) : Within(s.time, cut)})

\* A solve earns the points its part has left: each solve of the part took one.
Award(solved, i) ==
  StartPoints[solved[i].puzzle][solved[i].part]
    - Cardinality({j \in 1..(i - 1) :
                     solved[j].puzzle = solved[i].puzzle /\ solved[j].part = solved[i].part})

Replay(solved) ==
  {[user |-> solved[i].user, puzzle |-> solved[i].puzzle, part |-> solved[i].part,
    time |-> solved[i].time, award |-> Award(solved, i)] : i \in DOMAIN solved}

Table(solved) == [players |-> Visible, solves |-> Replay(solved)]

\* What userProgress holds of a user once the solves are counted; the points are
\* counted one by one.
Solved(S, u) == {s \in S : s.user = u}
Parts(S, u) == Cardinality(Solved(S, u))
Score(S, u) == Cardinality(UNION {{<<s, n>> : n \in 1..s.award} : s \in Solved(S, u)})
LastSolve(S, u) == Max({s.time : s \in Solved(S, u)} \union {0})

\* userProgress.Compare: more parts, more points, an earlier last solve, the name.
Above(S, u, v) ==
  \/ Parts(S, u) > Parts(S, v)
  \/ /\ Parts(S, u) = Parts(S, v)
     /\ \/ Score(S, u) > Score(S, v)
        \/ /\ Score(S, u) = Score(S, v)
           /\ \/ LastSolve(S, u) < LastSolve(S, v)
              \/ LastSolve(S, u) = LastSolve(S, v) /\ Name[u] < Name[v]

\* The place sorting the players gives a user.
Rank(S, us, u) == 1 + Cardinality({v \in us : Above(S, v, u)})
Position(table, u) == Rank(table.solves, table.players, u)

-----------------------------------------------------------------------------
(* The chart.                                                              *)

AxisStart == Min({Unlock[p] : p \in Puzzles})

\* Up to the time asked for, but not before the first puzzle of the configuration
\* and not long after its last one.
AxisEnd(at) ==
  LET last == Unlock[Event[Len(Event)]] + Margin
  IN  Min({last, Max({at, Unlock[Event[1]]})})

\* How far to the right a time is drawn, in units of the length of the axis.
AxisLength(at) == Max({1, AxisEnd(at) - AxisStart})
TimeX(time, at) ==
  PlotWidth * IF time < AxisStart THEN 0 ELSE Min({time - AxisStart, AxisLength(at)})

KeptFirst(solved, at) ==
  {i \in DOMAIN solved :
     i > 1 => TimeX(solved[i].time, at) - TimeX(solved[i - 1].time, at) > ClumpGap * AxisLength(at)}

\* Of a clump of solves only the ranks after its last one are drawn.
Kept(solved, at) ==
  {i \in DOMAIN solved :
     i < Len(solved) => TimeX(solved[i + 1].time, at) - TimeX(solved[i].time, at) > ClumpGap * AxisLength(at)}

\* The solves that share a step of the chart with this one.
Clump(solved, at, i) ==
  {j \in DOMAIN solved : \A k \in Kept(solved, at) : k < j <=> k < i}

\* A player's line begins with the first step that has a solve of its own and is
\* among the ranks shown, has a dot at each of those, and ends at a label.
Line(solved, at, rank, u) ==
  LET shown == {i \in DOMAIN rank : u \in Visible /\ rank[i][u] <= MaxRank}
      mine(i) == {j \in Clump(solved, at, i) : solved[j].user = u}
      own == {i \in shown : mine(i) # {}}
  IN  [label |-> IF own = {} THEN 0 ELSE rank[Max(shown)][u],
       dots |-> {[time |-> solved[Max(mine(i))].time, row |-> rank[i][u]] : i \in own}]

Chart(solved, at) ==
  LET rank == [i \in Kept(solved, at) |->
                 [u \in Users |-> Rank(Replay(SubSeq(solved, 1, i)), Visible, u)]]
  IN  [u \in Users |-> Line(solved, at, rank, u)]

-----------------------------------------------------------------------------
(* The pages.                                                              *)

CutSwapped(kind, half, at) ==
  CASE kind = "solves" -> Forever
    [] kind = "board" -> IF half = 1 THEN Forever ELSE at
    [] OTHER -> IF half = 1 THEN at ELSE IF at > Hour THEN at - Hour ELSE 0

CutForgotten(kind, half, at) == IF kind # "solves" /\ half = 1 THEN at ELSE Forever

\* Up to when the halves of a page count.  The leaderboard draws its chart up to
\* now and then ranks everything; a chart alone is for the time in its address, as
\* is the one an administrator asks for, and may be stored; the summary ranks up to now and then up to an
\* hour ago; the administrators' page ranks everything once.
Cut(kind, half, at) ==
  CASE kind = "solves" -> Forever
    [] kind \in {"board", "chart"} -> IF half = 1 THEN at ELSE Forever
    [] OTHER -> IF half = 1 THEN at ELSE IF at > Hour THEN at - Hour ELSE 0

Ask(k) ==
  /\ page[k].kind # "none" /\ page[k].phase = "idle"
  /\ Cardinality({l \in Pages : page[l].phase \in {"asked", "half"}}) < MaxOpen
  /\ \E at \in IF page[k].kind = "chart" THEN 0..Forever ELSE {now} :
       page' = [page EXCEPT ![k].phase = "asked", ![k].at = at,
                            ![k].owed = {s \in SolvesOf(joined) : s.time <= at}]
  /\ UNCHANGED <<now, players, answer, acts>>

\* The puzzles of the summary: the last unlocked one of the configuration, the
\* ones before it, and the first locked one.
CurrentIdx(at) == Max({0} \union {i \in DOMAIN Event : Unlock[Event[i]] <= at})
NextIdx(at) == Min({Len(Event) + 1} \union {i \in DOMAIN Event : Unlock[Event[i]] > at})
Nth(i) == IF i \in DOMAIN Event THEN Event[i] ELSE NoPuzzle

\* How many visible players solved the parts of a puzzle, up to now.
Solvers(p, at) ==
  [i \in 1..2 |-> Cardinality({u \in Visible : Len(solves[u][p]) >= i /\ solves[u][p][i] <= at})]

List(at) ==
  [current |-> Nth(CurrentIdx(at)),
   previous |-> {Event[i] : i \in 1..(CurrentIdx(at) - 1)},
   next |-> Nth(NextIdx(at)),
   solvers |-> [p \in Puzzles |-> Solvers(p, at)]]

\* The first transaction of a page.
First(k) ==
  /\ page[k].phase = "asked"
  /\ \E solved \in Replays(Cut(page[k].kind, 1, page[k].at)) :
       LET table == Table(solved)
       IN  page' = [page EXCEPT
             ![k].phase = IF page[k].kind \in {"solves", "chart"} THEN "done" ELSE "half",
             ![k].first = table,
             ![k].owed = {s \in @ : ~\E r \in table.solves : Bare(r) = Bare(s)},
             ![k].chart = IF page[k].kind \in {"board", "chart"} THEN Chart(solved, page[k].at) ELSE @,
             ![k].list = IF page[k].kind = "summary" THEN List(page[k].at) ELSE @]
  /\ UNCHANGED <<now, players, answer, acts>>

\* The second one.
Second(k) ==
  /\ page[k].phase = "half"
  /\ \E solved \in Replays(Cut(page[k].kind, 2, page[k].at)) :
       page' = [page EXCEPT ![k].phase = "done", ![k].second = Table(solved)]
  /\ UNCHANGED <<now, players, answer, acts>>

BoardNext ==
  \/ Tick
  \/ \E u \in Players, p \in Puzzles : Answer(u, p)
  \/ \E u \in Players : Record(u) \/ Hide(u) \/ Reset(u)
  \/ \E k \in Pages : Ask(k) \/ First(k) \/ Second(k)

BoardSpec == BoardInit /\ [][BoardNext]_boardVars

-----------------------------------------------------------------------------
(* Properties.                                                             *)

SolveType == [user : Users, puzzle : Puzzles, part : 1..2, time : Nat]
EarnedType == [user : Users, puzzle : Puzzles, part : 1..2, time : Nat, award : Int]
TableType == [players : SUBSET Users, solves : SUBSET EarnedType]
ListType == [current : Puzzles \union {NoPuzzle}, previous : SUBSET Puzzles,
             next : Puzzles \union {NoPuzzle}, solvers : [Puzzles -> [1..2 -> Nat]]]
LineType == [label : Nat, dots : SUBSET [time : Nat, row : Nat]]
PageType == [kind : Kinds \union {"none"}, phase : {"idle", "asked", "half", "done"}, at : Nat,
             first : TableType, second : TableType, list : ListType,
             chart : [Users -> LineType], owed : SUBSET SolveType,
             kept : BOOLEAN, full : BOOLEAN]

\* Every variable has its type.
BoardTypeOK ==
  /\ now \in 0..Forever
  /\ joined \subseteq Users /\ hidden \subseteq Users
  /\ solves \in [Users -> [Puzzles -> Seq(Nat)]]
  /\ answer \in [Users -> [puzzle : Puzzles, at : Nat] \union {NoAnswer}]
  /\ page \in [Pages -> PageType]
  /\ acts \in Nat

\* leaderboard.html:79-90.  A table gives each player a place of its own, with no gap, and a solve
\* in it earns one point and one more for every other participant that submits
\* the part later or never; who submits at the same moment may count either way.
FollowsRules(t) ==
  /\ {Position(t, u) : u \in t.players} = 1..Cardinality(t.players)
  /\ \A s \in t.solves :
       LET same == {r \in t.solves \ {s} : r.puzzle = s.puzzle /\ r.part = s.part}
           before == {r \in same : r.time < s.time}
           tied == {r \in same : r.time = s.time}
           behind == Cardinality(t.players) - 1 - Cardinality(before) - Cardinality(tied)
       IN  /\ s.user \in t.players
           /\ 1 + behind <= s.award /\ s.award <= 1 + behind + Cardinality(tied)

ScoresFollowRules == \A k \in Pages : FollowsRules(page[k].first) /\ FollowsRules(page[k].second)

\* summary.go:44-45 and 301.  The previous position a summary shows is the position a
\* summary asked an hour earlier showed, whoever joined since, unless a
\* solve of that time was stored later, someone was hidden, shown or reset,
\* or two players solved a part at the same moment.
PrevPositionIsHistory ==
  \A k, l \in Pages :
    LET old == page[k]
        new == page[l]
        tied == \E r, s \in old.first.solves :
                  r # s /\ r.puzzle = s.puzzle /\ r.part = s.part /\ r.time = s.time
        ranked(u) == Solved(new.second.solves, u) # {}
    IN  ( /\ old.kind = "summary" /\ new.kind = "summary" /\ new.phase = "done"
          /\ old.phase \in {"half", "done"} /\ new.at = old.at + Hour
          /\ old.kept /\ old.full /\ ~tied )
        => \A u \in old.first.players :
             /\ ranked(u) <=> Solved(old.first.solves, u) # {}
             /\ ranked(u) => Position(new.second, u) = Position(old.first, u)

\* puzzle.go:468-475.  The board below the chart never lacks a solve the chart
\* shows, unless a player was hidden or reset in between.
BoardNotBehindChart ==
  \A k \in Pages :
    page[k].kind = "board" /\ page[k].phase = "done" /\ page[k].kept
    => \A s \in page[k].first.solves :
         \E r \in page[k].second.solves : Bare(r) = Bare(s)

\* leaderboard.html:99.  What was stored when a page was asked for is on it,
\* unless the player was hidden or reset.
PagesUpToDate ==
  \A k \in Pages :
    page[k].phase \in {"half", "done"} /\ page[k].kept
    => \A s \in page[k].owed : s.user \notin page[k].first.players

\* summary.go:108-139.  The solvers a summary counts puzzle by puzzle are the
\* solves in its table, except those of puzzles still locked.
SolversAddUp ==
  \A k \in Pages :
    page[k].kind = "summary" /\ page[k].phase \in {"half", "done"}
    => \A p \in (page[k].list.previous \union {page[k].list.current}) \ {NoPuzzle} : \A i \in 1..2 :
         page[k].list.solvers[p][i] =
           Cardinality({s \in page[k].first.solves : s.puzzle = p /\ s.part = i})

\* puzzle.go:468-475 and summary.go:58-139.  No page is behind the moment it was asked
\* for, the later part of a board is not behind the earlier one, and the counts
\* of a summary are those of its table.
PagesFresh == BoardNotBehindChart /\ PagesUpToDate /\ SolversAddUp

\* puzzle.go:666-968.  Whatever is drawn as one step and whoever drops out of the ranks
\* shown: a player with a solve among the first ranks has its label at the
\* position the solves counted so far give it, and its last dot at its last solve,
\* not below the label; who has no solve has neither.
ChartTruthful ==
  \A k \in Pages :
    page[k].kind \in {"board", "chart"} /\ page[k].phase \in {"half", "done"}
    => \A u \in Users :
         LET line == page[k].chart[u]
             table == page[k].first
         IN  /\ line.dots = {} <=> line.label = 0
             /\ Solved(table.solves, u) = {} => line.label = 0
             /\ (Solved(table.solves, u) # {} /\ Position(table, u) <= MaxRank)
                => /\ line.label = Position(table, u)
                   /\ \E d \in line.dots : d.time = LastSolve(table.solves, u) /\ d.row <= line.label

\* summary.go:233-235 on currentPuzzle: "The most recently unlocked puzzle at
\* request time."
CurrentIsMostRecent ==
  \A k \in Pages :
    LET c == page[k].list.current
    IN  c # NoPuzzle => \A p \in Puzzles : Unlock[p] <= page[k].at => Unlock[p] <= Unlock[c]
=============================================================================
