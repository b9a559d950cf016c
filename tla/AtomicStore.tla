---------------------------- MODULE AtomicStore -----------------------------
(***************************************************************************)
(* What the database promises to everybody who changes it, with nothing of *)
(* buckets, cursors and flags: one writer at a time works on the database  *)
(* as it is, and either everything it did is there when it is told so, or  *)
(* nothing is.  After the database was closed nobody changes it, and what  *)
(* was stored is found again after a crash.                                *)
(***************************************************************************)
CONSTANTS
  Writers,
  Databases,   \* what can be stored
  NoTx         \* not one of them

VARIABLES
  data,      \* what is stored
  want,      \* what each writer makes of it
  outcome,   \* what the last update of each writer was told
  open       \* the database can be used

Init ==
  /\ data \in Databases /\ want = [w \in Writers |-> NoTx]
  /\ outcome = [w \in Writers |-> "none"] /\ open = TRUE

Call(w) ==
  /\ outcome' = [outcome EXCEPT ![w] = "none"]
  /\ UNCHANGED <<data, want, open>>

Start(w) ==
  /\ open /\ \A x \in Writers : want[x] = NoTx
  /\ want' = [want EXCEPT ![w] = data]
  /\ UNCHANGED <<data, outcome, open>>

Work(w) ==
  /\ want[w] # NoTx /\ want'[w] \in Databases
  /\ want' = [want EXCEPT ![w] = want'[w]]
  /\ UNCHANGED <<data, outcome, open>>

Succeed(w) ==
  /\ want[w] # NoTx
  /\ data' = want[w]
  /\ want' = [want EXCEPT ![w] = NoTx]
  /\ outcome' = [outcome EXCEPT ![w] = "ok"]
  /\ UNCHANGED open

Fail(w) ==
  /\ want' = [want EXCEPT ![w] = NoTx]
  /\ \E bad \in {"error", "panic"} : outcome' = [outcome EXCEPT ![w] = bad]
  /\ UNCHANGED <<data, open>>

Close ==
  /\ \A w \in Writers : want[w] = NoTx
  /\ open' = FALSE
  /\ UNCHANGED <<data, want, outcome>>

Restart ==
  /\ want' = [w \in Writers |-> NoTx]
  /\ outcome' = [w \in Writers |-> "none"]
  /\ open' = TRUE
  /\ UNCHANGED data

Next ==
  \/ Close \/ Restart
  \/ \E w \in Writers : Call(w) \/ Start(w) \/ Work(w) \/ Succeed(w) \/ Fail(w)

Spec == Init /\ [][Next]_<<data, want, outcome, open>>
=============================================================================
