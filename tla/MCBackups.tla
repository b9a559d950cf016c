----------------------------- MODULE MCBackups ------------------------------
(***************************************************************************)
(* Small instances of Backups.                                             *)
(***************************************************************************)
EXTENDS Backups

CONSTANTS c1, c2   \* runs of the cron job

\* The local time goes back once, as at the end of summer time.
SummerTimeEnds == [t \in 0..MaxTime |-> IF t < 3 THEN t + 1 ELSE t - 1]

=============================================================================
