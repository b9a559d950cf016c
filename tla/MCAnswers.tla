----------------------------- MODULE MCAnswers -----------------------------
(***************************************************************************)
(* Small instances of Answers: one user, whose requests overlap.           *)
(***************************************************************************)
EXTENDS Answers, TLC

CONSTANTS alice,                 \* a user
          spring,                \* an event
          knots,                 \* a puzzle
          x, y, z, w,            \* answers
          padded, blank,         \* x with blanks around it, and nothing
          left, right            \* connections

PaddedNormal == [s \in {x, y, z, w, padded, blank} |-> IF s = padded THEN x ELSE s]

\* knots has two parts; it is locked at first.
KnotsEvent == [p \in {knots} |-> spring]
KnotsRight == [u \in {alice} |-> [p \in {knots} |-> <<x, y>>]]
KnotsParts == [p \in {knots} |-> 2]
KnotsUnlock == [p \in {knots} |-> 2]

TwoTabs == [t \in {left, right} |-> alice]
TabSymmetry == Permutations({left, right})
=============================================================================
