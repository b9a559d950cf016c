--------------------------- MODULE Announcements ---------------------------
(***************************************************************************)
(* What followers of the announcements channel can rely on: no puzzle is   *)
(* announced before it is unlocked, and none is announced twice.           *)
(***************************************************************************)
EXTENDS Naturals

CONSTANTS
  Puzzles,
  Unlock      \* when a puzzle becomes available

VARIABLES
  clock,
  said        \* how often each puzzle has been announced

Init ==
  /\ clock \in Nat
  /\ said = [p \in Puzzles |-> 0]

Pass ==
  /\ clock' \in Nat
  /\ clock < clock'
  /\ UNCHANGED said

Announce(p) ==
  /\ Unlock[p] <= clock
  /\ said[p] = 0
  /\ said' = [said EXCEPT ![p] = 1]
  /\ UNCHANGED clock

Next == Pass \/ \E p \in Puzzles : Announce(p)

Spec == Init /\ [][Next]_<<clock, said>>
=============================================================================
