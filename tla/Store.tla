------------------------------- MODULE Store --------------------------------
(***************************************************************************)
(* The database layer: transactions and typed buckets on top of bbolt      *)
(* (db/tx.go and db/bucket.go).  Every other module takes a function given *)
(* to Update or View for one step; this one says why it may.               *)
(*                                                                         *)
(* A write transaction is committed only if the flag modified is set, and  *)
(* each operation of a bucket has to set it by itself; a transaction that  *)
(* is not committed is reported as a success all the same.  DeleteRange    *)
(* works its way through the bucket with a cursor and sets the flag at its *)
(* end.  One bucket of the top level is modelled, with the buckets kept in *)
(* it (the entries of the events in the progress bucket).                  *)
(*                                                                         *)
(* From bbolt: one writer at a time, a reader sees the database as it was  *)
(* committed when the reader began, a commit happens at once or not at     *)
(* all, Close waits for the transactions that are open, and a cursor that  *)
(* has deleted what it was on goes on with the next key.                   *)
(***************************************************************************)
EXTENDS Naturals

CONSTANTS
  Writers,      \* callers of Update
  Readers,      \* callers of View
  MaxKey,       \* keys are 1..MaxKey in the order of their bytes
  BucketKeys,   \* keys that may name a bucket inside the bucket
  Root,         \* the bucket of the top level
  Values,       \* what can be stored under a key
  Absent, Nested,
  NoTx

Keys == 1..MaxKey
End == MaxKey + 1   \* a cursor past the last key
NoBound == 0            \* no bound: the empty string

ASSUME StoreAssumption ==
  /\ MaxKey \in Nat
  /\ BucketKeys \subseteq Keys /\ Root \notin Keys
  /\ Absent \notin Values /\ Nested \notin Values /\ Absent # Nested

Buckets == {Root} \union BucketKeys
Cells == Values \union {Absent, Nested}

ASSUME NoTxAssumption == NoTx \notin [Buckets -> [Keys -> Cells]]

VARIABLES
  data,      \* what is committed
  handle,    \* whether bbolt can be used
  tx,        \* the write transaction of each writer
  outcome,   \* what the last call of Update returned
  view,      \* the range each reader goes through, and history: what it should find
  want       \* history: what the operations of a writer should make of data

vars == <<data, handle, tx, outcome, view, want>>

EmptyBucket == [k \in Keys |-> Absent]
NoData == [b \in Buckets |-> EmptyBucket]

Idle == [phase |-> "idle", work |-> NoTx, modified |-> FALSE, bucket |-> Root, to |-> NoBound, at |-> End]
NoView == [phase |-> "idle", bucket |-> EmptyBucket, to |-> NoBound, at |-> End,
           got |-> {}, owed |-> {}]

Init ==
  /\ data = NoData /\ handle = "open"
  /\ tx = [w \in Writers |-> Idle]
  /\ outcome = [w \in Writers |-> "none"]
  /\ view = [r \in Readers |-> NoView]
  /\ want = [w \in Writers |-> NoTx]

-----------------------------------------------------------------------------
(* Cursors.                                                                *)

\* Where a cursor stands after Seek or Next: at the first key from k on that has
\* something under it, a value or a bucket, or past the end.
Seek(bucket, k) ==
  {x \in Keys \union {End} :
     /\ x >= k
     /\ x # End => bucket[x] # Absent
     /\ \A y \in Keys : y >= k /\ bucket[y] # Absent => x <= y}

\* Mutant of Within: the upper bound is left out.
WithinOpen(k, to) == k # End /\ (to = NoBound \/ k < to)

\* cont of rangeFuncs: both bounds belong to the range.
Within(k, to) == k # End /\ (to = NoBound \/ k <= to)

\* The values that belong to a range.
InRange(bucket, from, to) ==
  {k \in Keys : k >= from /\ (to = NoBound \/ k <= to) /\ bucket[k] \in Values}

-----------------------------------------------------------------------------
(* Update.                                                                 *)

Active(w) == tx[w].phase \in {"fn", "range", "failing"}

BucketsOf(d) == {Root} \union {k \in BucketKeys : d[Root][k] = Nested}

\* The transaction is over, and the writer is told so.
Over(w, told) ==
  /\ tx' = [tx EXCEPT ![w] = Idle]
  /\ outcome' = [outcome EXCEPT ![w] = told]
  /\ want' = [want EXCEPT ![w] = NoTx]

\* A writer calls Update.  Once the database was closed bbolt says so, or the
\* handle is nil already and the call panics.
Update(w) ==
  /\ tx[w].phase = "idle"
  /\ IF handle = "closed" THEN \E told \in {"error", "panic"} : Over(w, told)
     ELSE /\ tx' = [tx EXCEPT ![w].phase = "waiting"]
          /\ outcome' = [outcome EXCEPT ![w] = "none"]
          /\ UNCHANGED want
  /\ UNCHANGED <<data, handle, view>>

\* bbolt lets the next writer in, or tells it that the database is not open.
Begin(w) ==
  /\ tx[w].phase = "waiting"
  /\ \/ /\ handle = "open" /\ \A x \in Writers : ~Active(x)
        /\ tx' = [tx EXCEPT ![w] = [Idle EXCEPT !.phase = "fn", !.work = data]]
        /\ want' = [want EXCEPT ![w] = data]
        /\ UNCHANGED outcome
     \/ handle = "closed" /\ Over(w, "error")
  /\ UNCHANGED <<data, handle, view>>

-----------------------------------------------------------------------------
(* Operations on buckets, which change what the writer works on.           *)

Cell(d, b, k, c) == [d EXCEPT ![b] = [@ EXCEPT ![k] = c]]

\* CreateBucket, which keeps a bucket that is there.
Created(d, k) ==
  IF d[Root][k] = Nested THEN d
  ELSE [b \in Buckets |-> IF b = Root THEN [d[Root] EXCEPT ![k] = Nested]
                          ELSE IF b = k THEN EmptyBucket ELSE d[b]]

Dropped(d, k) ==
  [b \in Buckets |-> IF b = Root THEN [d[Root] EXCEPT ![k] = Absent]
                     ELSE IF b = k THEN EmptyBucket ELSE d[b]]

Cleared(d, b, from, to) ==
  [d EXCEPT ![b] = [k \in Keys |-> IF k \in InRange(@, from, to) THEN Absent ELSE @[k]]]

\* An operation has worked.
Modify(w, d) == tx' = [tx EXCEPT ![w].work = d, ![w].modified = TRUE]

\* bbolt refuses an operation that takes a bucket for a value or the other way
\* round; the function then returns the error.
Refuse(w) == tx' = [tx EXCEPT ![w].phase = "failing"] /\ UNCHANGED want

Do(w, d) == Modify(w, d) /\ want' = [want EXCEPT ![w] = d]

Put(w) ==
  /\ tx[w].phase = "fn"
  /\ \E b \in BucketsOf(tx[w].work), k \in Keys, v \in Values :
       IF tx[w].work[b][k] = Nested THEN Refuse(w)
       ELSE Do(w, Cell(tx[w].work, b, k, v))
  /\ UNCHANGED <<data, handle, outcome, view>>

Delete(w) ==
  /\ tx[w].phase = "fn"
  /\ \E b \in BucketsOf(tx[w].work), k \in Keys :
       IF tx[w].work[b][k] = Nested THEN Refuse(w)
       ELSE Do(w, Cell(tx[w].work, b, k, Absent))
  /\ UNCHANGED <<data, handle, outcome, view>>

CreateBucket(w) ==
  /\ tx[w].phase = "fn"
  /\ \E k \in BucketKeys :
       IF tx[w].work[Root][k] \in Values THEN Refuse(w)
       ELSE Do(w, Created(tx[w].work, k))
  /\ UNCHANGED <<data, handle, outcome, view>>

DeleteBucket(w) ==
  /\ tx[w].phase = "fn"
  /\ \E k \in BucketKeys :
       IF tx[w].work[Root][k] # Nested THEN Refuse(w)
       ELSE Do(w, Dropped(tx[w].work, k))
  /\ UNCHANGED <<data, handle, outcome, view>>

\* DeleteRange puts the cursor on its first key,
DeleteRange(w) ==
  /\ tx[w].phase = "fn"
  /\ \E b \in BucketsOf(tx[w].work), from, to \in Keys \union {NoBound} :
       /\ \E at \in Seek(tx[w].work[b], from) :
            tx' = [tx EXCEPT ![w].phase = "range", ![w].bucket = b,
                             ![w].to = to, ![w].at = at]
       /\ want' = [want EXCEPT ![w] = Cleared(@, b, from, to)]
  /\ UNCHANGED <<data, handle, outcome, view>>

\* deletes what is there unless it is a bucket, and goes on,
DeleteNext(w) ==
  LET t == tx[w]
      left == IF t.work[t.bucket][t.at] = Nested THEN t.work
              ELSE Cell(t.work, t.bucket, t.at, Absent)
  IN  /\ t.phase = "range" /\ Within(t.at, t.to)
      /\ \E at \in Seek(left[t.bucket], t.at + 1) :
           tx' = [tx EXCEPT ![w].work = left, ![w].at = at]
      /\ UNCHANGED <<data, handle, outcome, view, want>>

\* Mutant of DeleteDone: the flag is set only if the cursor has come to the end.
DeleteDoneMarking(w) ==
  /\ tx[w].phase = "range" /\ ~Within(tx[w].at, tx[w].to)
  /\ tx' = [tx EXCEPT ![w].phase = "fn", ![w].modified = @ \/ tx[w].at = End]
  /\ UNCHANGED <<data, handle, outcome, view, want>>

\* and sets the flag at last.
DeleteDone(w) ==
  /\ tx[w].phase = "range" /\ ~Within(tx[w].at, tx[w].to)
  /\ tx' = [tx EXCEPT ![w].phase = "fn", ![w].modified = TRUE]
  /\ UNCHANGED <<data, handle, outcome, view, want>>

-----------------------------------------------------------------------------
(* The end of Update.                                                      *)

\* Without the flag the transaction is rolled back, and the caller told that all
\* is well; with it the commit may fail.
Return(w) ==
  /\ tx[w].phase = "fn"
  /\ \/ ~tx[w].modified /\ Over(w, "ok") /\ UNCHANGED data
     \/ tx[w].modified /\ data' = tx[w].work /\ Over(w, "ok")
     \/ tx[w].modified /\ Over(w, "error") /\ UNCHANGED data
  /\ UNCHANGED <<handle, view>>

\* The function returns an error, its own or that of an operation.
ReturnError(w) ==
  /\ tx[w].phase \in {"fn", "failing"}
  /\ Over(w, "error")
  /\ UNCHANGED <<data, handle, view>>

\* It panics: bbolt rolls back and the panic goes on.
Panic(w) ==
  /\ Active(w)
  /\ Over(w, "panic")
  /\ UNCHANGED <<data, handle, view>>

-----------------------------------------------------------------------------
(* View, with one range; once the database is closing it gives nothing.    *)

View(r) ==
  /\ view[r].phase = "idle" /\ handle = "open"
  /\ \E b \in BucketsOf(data), from, to \in Keys \union {NoBound} :
     \E at \in Seek(data[b], from) :
       view' = [view EXCEPT ![r] =
         [phase |-> "range", bucket |-> data[b], to |-> to, at |-> at,
          got |-> {}, owed |-> InRange(data[b], from, to)]]
  /\ UNCHANGED <<data, handle, tx, outcome, want>>

\* Range passes over buckets inside the bucket.
Yielded(bucket, k) == IF bucket[k] = Nested THEN {} ELSE {k}

RangeNext(r) ==
  LET c == view[r]
  IN  /\ c.phase = "range" /\ Within(c.at, c.to)
      /\ \E at \in Seek(c.bucket, c.at + 1) :
           view' = [view EXCEPT ![r].at = at, ![r].got = @ \union Yielded(c.bucket, c.at)]
      /\ UNCHANGED <<data, handle, tx, outcome, want>>

\* The transaction of the reader ends, after the range or before its end.
ViewEnds(r) ==
  /\ view[r].phase = "range"
  /\ view' = [view EXCEPT ![r] = NoView]
  /\ UNCHANGED <<data, handle, tx, outcome, want>>

-----------------------------------------------------------------------------
(* The program.                                                            *)

\* Close keeps new transactions out once it has the lock of the writers, waits
\* for the readers, and drops the handle.
CloseBegins ==
  /\ handle = "open" /\ \A w \in Writers : ~Active(w)
  /\ handle' = "closing"
  /\ UNCHANGED <<data, tx, outcome, view, want>>

CloseEnds ==
  /\ handle = "closing" /\ \A r \in Readers : view[r].phase = "idle"
  /\ handle' = "closed"
  /\ UNCHANGED <<data, tx, outcome, view, want>>

\* The program ends or crashes, at any moment, and is started again.
Restart ==
  /\ handle' = "open"
  /\ tx' = [w \in Writers |-> Idle]
  /\ outcome' = [w \in Writers |-> "none"]
  /\ view' = [r \in Readers |-> NoView]
  /\ want' = [w \in Writers |-> NoTx]
  /\ UNCHANGED data

Next ==
  \/ \E w \in Writers :
       \/ Update(w) \/ Begin(w)
       \/ Put(w) \/ Delete(w) \/ CreateBucket(w) \/ DeleteBucket(w)
       \/ DeleteRange(w) \/ DeleteNext(w) \/ DeleteDone(w)
       \/ Return(w) \/ ReturnError(w) \/ Panic(w)
  \/ \E r \in Readers : View(r) \/ RangeNext(r) \/ ViewEnds(r)
  \/ CloseBegins \/ CloseEnds \/ Restart

Spec == Init /\ [][Next]_vars

-----------------------------------------------------------------------------
(* Properties.                                                             *)

\* Buckets are found only under the keys that may name one, and only in the
\* bucket of the top level; a bucket that is not there is empty.
Databases ==
  {d \in [Buckets -> [Keys -> Cells]] :
     /\ \A b \in Buckets, k \in Keys : d[b][k] = Nested => b = Root /\ k \in BucketKeys
     /\ \A b \in BucketKeys : d[Root][b] # Nested => d[b] = EmptyBucket}

WriterType == [phase : {"idle", "waiting", "fn", "range", "failing"},
               work : Databases \union {NoTx}, modified : BOOLEAN, bucket : Buckets,
               to : Keys \union {NoBound}, at : Keys \union {End}]

ReaderType == [phase : {"idle", "range"}, bucket : [Keys -> Cells],
               to : Keys \union {NoBound}, at : Keys \union {End},
               got : SUBSET Keys, owed : SUBSET Keys]

\* Every variable has its type.
TypeOK ==
  /\ data \in Databases /\ handle \in {"open", "closing", "closed"}
  /\ tx \in [Writers -> WriterType] /\ want \in [Writers -> Databases \union {NoTx}]
  /\ outcome \in [Writers -> {"none", "ok", "error", "panic"}]
  /\ view \in [Readers -> ReaderType]

\* bbolt's lock: one writer at a time, and none once the database is closing.
OneWriter ==
  /\ \A v, w \in Writers : Active(v) /\ Active(w) => v = w
  /\ handle # "open" => \A w \in Writers : ~Active(w)

\* What is right about the transaction t of a writer that means to make goal of d.
\* Between two operations it works on its goal, and that is d as long as the flag
\* is not set.  While a cursor deletes its way through a range, what it has yet
\* to delete is all there is between the work and the goal.
InHand(t, goal, d) ==
  /\ t.phase \in {"fn", "range", "failing"} => t.work \in Databases /\ goal \in Databases
  /\ t.phase \in {"idle", "waiting"} => goal = NoTx
  /\ t.phase = "fn" => goal = t.work /\ (~t.modified => goal = d)
  /\ t.phase = "range" =>
       /\ t.bucket \in BucketsOf(t.work)
       /\ t.at # End => t.work[t.bucket][t.at] # Absent
       /\ goal = Cleared(t.work, t.bucket, t.at, t.to)

\* A reader has found what lies before its cursor.
Found(c) ==
  c.phase = "range" =>
    /\ c.at # End => c.bucket[c.at] # Absent
    /\ c.owed = c.got \union InRange(c.bucket, c.at, c.to)

\* The invariant the theorems rest on.
Support ==
  /\ TypeOK /\ OneWriter
  /\ \A w \in Writers : InHand(tx[w], want[w], data)
  /\ \A r \in Readers : Found(view[r])

\* bucket.go:166-206.  A range that was gone through to its end gave
\* exactly the values between its bounds, both included, that were committed when
\* the reader began, whatever was stored, deleted and created meanwhile.
RangeExact ==
  \A r \in Readers :
    view[r].phase = "range" /\ ~Within(view[r].at, view[r].to)
    => view[r].got = view[r].owed

\* The layer as the abstract store.
Atomic == INSTANCE AtomicStore WITH open <- handle = "open"

\* tx.go:26-42 with bucket.go:95-160 and 226-241.  An update that returned no
\* error is stored as a whole, although it is committed only if some operation
\* has set the flag; one that failed, panicked or came too late has changed nothing.
AtomicSpec == Atomic!Spec
=============================================================================
