----------------------------- MODULE MCSessions -----------------------------
(***************************************************************************)
(* Small instances of Sessions.                                            *)
(***************************************************************************)
EXTENDS Sessions, TLC

CONSTANTS s1, s2,       \* session ids
          alice,        \* browsers
          q1, q2        \* requests

OneBrowser == [r \in {q1, q2} |-> alice]

Symmetric == Permutations({s1, s2}) \union Permutations({q1, q2})
=============================================================================
