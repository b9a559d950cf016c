------------------------------ MODULE MCLogin ------------------------------
(***************************************************************************)
(* Small instances of Login.                                               *)
(***************************************************************************)
EXTENDS Login, TLC

CONSTANTS alice, bob,      \* users
          home, work,      \* sessions
          r1, r2,          \* requests
          st1, st2,        \* states
          t1, t2, revoked  \* tokens

Symmetric ==
  Permutations({home, work}) \union Permutations({r1, r2})
    \union Permutations({st1, st2}) \union Permutations({t1, t2})
    \union Permutations({alice, bob})
=============================================================================
