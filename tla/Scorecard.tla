----------------------------- MODULE Scorecard -----------------------------
(***************************************************************************)
(* What the puzzle site promises about a competitor's score, with nothing  *)
(* of how answers travel: every puzzle is a row of parts, a part is won    *)
(* only when all the parts before it have been won, one part at a time,    *)
(* and nothing is ever lost again except when an administrator wipes the   *)
(* whole record of that competitor.                                        *)
(***************************************************************************)
EXTENDS Naturals

CONSTANTS
  Users,      \* the competitors
  Puzzles,    \* the puzzles of all events
  PartCount   \* number of parts of each puzzle

VARIABLE
  won         \* won[u][p]: how many parts of puzzle p competitor u has solved

Init == won = [u \in Users |-> [p \in Puzzles |-> 0]]

Win(u, p) ==
  /\ won[u][p] < PartCount[p]
  /\ won' = [won EXCEPT ![u][p] = @ + 1]

Wipe(u) == won' = [won EXCEPT ![u] = [p \in Puzzles |-> 0]]

Next == \E u \in Users : Wipe(u) \/ \E p \in Puzzles : Win(u, p)

Spec == Init /\ [][Next]_won
=============================================================================
