--------------------------- MODULE MCLeaderboard ----------------------------
(***************************************************************************)
(* Small instances of Leaderboard.                                         *)
(***************************************************************************)
EXTENDS Leaderboard, TLC

CONSTANTS u1, u2, u3,   \* users
          p1, p2        \* pages

Alphabetical == u1 :> 2 @@ u2 :> 1 @@ u3 :> 3

\* Two puzzles, in the order they are unlocked in and in the other one.
InOrder == <<"first", "second">>
OutOfOrder == <<"second", "first">>
Unlocks == "first" :> 1 @@ "second" :> 2
PartCounts == "first" :> 2 @@ "second" :> 1

Visit(kinds) == {p1 :> kinds[i] @@ p2 :> kinds[3 - i] : i \in 1..2}

\* One page on an empty database, or two summaries.
FromNothing ==
  [now : {1}, solves : {[u \in {u1, u2, u3} |-> "first" :> <<>> @@ "second" :> <<>>]},
   visit : UNION {Visit(kinds) : kinds \in {<<"board", "none">>, <<"solves", "none">>,
                                            <<"summary", "summary">>}}]

\* A chart of what three players may have solved by a later time: one of them
\* anything, one a single part, and one perhaps that part too.
Times == {1, 2, 4}
Solving(first, second) == {"first" :> a @@ "second" :> b : a \in first, b \in second}
One == {<<t>> : t \in Times}
Histories ==
  {u1 :> a @@ u2 :> b @@ u3 :> c :
     a \in Solving(BoundedSeq(Times, 2), {<<>>, <<2>>}),
     b \in Solving(One, {<<>>}),
     c \in Solving({<<>>, <<2>>}, {<<>>})}
FromHistories == [now : {4}, solves : Histories, visit : Visit(<<"chart", "none">>)]

Started == FromNothing \union FromHistories

Symmetric == Permutations({p1, p2})
=============================================================================
