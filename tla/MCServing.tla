----------------------------- MODULE MCServing ------------------------------
(***************************************************************************)
(* Small instances of Serving.                                             *)
(***************************************************************************)
EXTENDS Serving

\* Every certificate has a key of its own.
OwnKeys == [g \in 1..MaxGen |-> g]
=============================================================================
