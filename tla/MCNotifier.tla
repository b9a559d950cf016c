----------------------------- MODULE MCNotifier -----------------------------
(***************************************************************************)
(* A small instance of Notifier.                                           *)
(***************************************************************************)
EXTENDS Notifier, TLC

CONSTANTS warmup, twin, finale, epilogue,   \* puzzles
          r1                                \* a request

\* Two puzzles unlock together; the last one unlocks when nobody looks any more.
Calendar == (warmup :> 1 @@ twin :> 1 @@ finale :> 3 @@ epilogue :> 9)
=============================================================================
