------------------------------ MODULE MCPages ------------------------------
(***************************************************************************)
(* A small instance of Pages: one user with two connections, and two       *)
(* puzzles, of which the later one is locked at first.                     *)
(***************************************************************************)
EXTENDS Pages, TLC

CONSTANTS alice,         \* a user
          spring,        \* an event
          knots, maze,   \* puzzles
          x, blank,      \* answers
          left, right    \* connections

OneEvent == [p \in {knots, maze} |-> spring]
OneList == [e \in {spring} |-> <<knots, maze>>]
Unlocks == [p \in {knots, maze} |-> IF p = knots THEN 1 ELSE 2]
Parts == [p \in {knots, maze} |-> IF p = knots THEN 2 ELSE 1]
AllRight == [u \in {alice} |-> [p \in {knots, maze} |-> IF p = knots THEN <<x, x>> ELSE <<x>>]]
Plain == [s \in {x, blank} |-> s]
TwoTabs == [t \in {left, right} |-> alice]
TabSymmetry == Permutations({left, right})
=============================================================================
