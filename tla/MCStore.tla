------------------------------ MODULE MCStore -------------------------------
(***************************************************************************)
(* Small instances of Store.                                               *)
(***************************************************************************)
EXTENDS Store, TLC

CONSTANTS w1, w2,   \* writers
          x         \* a value

Symmetric == Permutations({w1, w2})
=============================================================================
