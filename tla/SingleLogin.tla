---------------------------- MODULE SingleLogin ----------------------------
(***************************************************************************)
(* What logging in promises, with nothing of states, codes and cookies: a  *)
(* user is logged in on one browser session at most, a session shows one   *)
(* user at most, and nobody appears on a second session without having     *)
(* left the first.                                                         *)
(***************************************************************************)
CONSTANTS
  Users,      \* whoever can log in
  Sessions,   \* sessions of all browsers
  NoSession   \* not one of them

VARIABLE holder   \* the session each user is logged in on

Init == holder = [u \in Users |-> NoSession]

\* The user appears on session s, in the place of whoever it showed.
Enter(u, s) ==
  /\ holder[u] = NoSession
  /\ holder' = [x \in Users |-> IF x = u THEN s
                                ELSE IF holder[x] = s THEN NoSession ELSE holder[x]]

Leave(u) == holder' = [holder EXCEPT ![u] = NoSession]

Next == \E u \in Users : Leave(u) \/ \E s \in Sessions : Enter(u, s)

Spec == Init /\ [][Next]_holder
=============================================================================
