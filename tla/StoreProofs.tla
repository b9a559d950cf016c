---------------------------- MODULE StoreProofs -----------------------------
(***************************************************************************)
(* Proofs about the database layer: for any keys, values and number of     *)
(* transactions it implements the abstract store, and ranges are exact.    *)
(***************************************************************************)
EXTENDS Store, TLAPS

USE StoreAssumption

-----------------------------------------------------------------------------
(* Cursors and ranges.                                                     *)

\* Nothing lies between the key a cursor was sent to and the place it stops at.
LEMMA SeekFacts ==
  ASSUME NEW bucket \in [Keys -> Cells], NEW k \in Nat, NEW at \in Seek(bucket, k)
  PROVE  /\ at \in Keys \union {End} /\ at \in Nat /\ at >= k
         /\ at # End => bucket[at] # Absent
         /\ \A y \in Keys : y >= k /\ bucket[y] # Absent => y >= at
BY DEF Seek, Keys, End

\* So the values from there on are the values from the key on.
LEMMA RangeFromSeek ==
  ASSUME NEW bucket \in [Keys -> Cells], NEW k \in Nat, NEW at \in Seek(bucket, k),
         NEW to \in Keys \union {NoBound}
  PROVE  InRange(bucket, at, to) = InRange(bucket, k, to)
<1>1. ASSUME NEW y \in Keys, bucket[y] \in Values PROVE y >= at <=> y >= k
  <2>1. bucket[y] # Absent
    BY <1>1
  <2>2. y \in Nat
    BY DEF Keys
  <2>3. QED BY <2>1, <2>2, SeekFacts
<1>2. QED BY <1>1 DEF InRange

\* Nothing is left of a range once the cursor is not within it.
LEMMA RangeOver ==
  ASSUME NEW bucket \in [Keys -> Cells], NEW at \in Keys \union {End},
         NEW to \in Keys \union {NoBound}, ~Within(at, to)
  PROVE  InRange(bucket, at, to) = {}
BY DEF InRange, Within, Keys, End, NoBound

\* What is left of a range is what the cursor is on and what comes after.
LEMMA RangeAhead ==
  ASSUME NEW bucket \in [Keys -> Cells], NEW at \in Keys, NEW to \in Keys \union {NoBound},
         Within(at, to), bucket[at] # Absent
  PROVE  InRange(bucket, at, to) = Yielded(bucket, at) \union InRange(bucket, at + 1, to)
<1>1. at \in Nat /\ at + 1 \in Nat
  BY DEF Keys
<1>2. ASSUME NEW k \in Keys PROVE k >= at <=> k = at \/ k >= at + 1
  BY <1>1 DEF Keys
<1>3. bucket[at] \in Values <=> bucket[at] # Nested
  BY DEF Cells
<1>4. to = NoBound \/ at <= to
  BY DEF Within
<1>5. QED BY <1>1, <1>2, <1>3, <1>4 DEF InRange, Yielded

-----------------------------------------------------------------------------
(* What operations make of a database.                                     *)

\* A value put or taken where there is no bucket leaves a database.
LEMMA CellType ==
  ASSUME NEW d \in Databases, NEW b \in BucketsOf(d), NEW k \in Keys,
         NEW c \in Values \union {Absent}, d[b][k] # Nested
  PROVE  Cell(d, b, k, c) \in Databases
<1> DEFINE e == Cell(d, b, k, c)
<1>1. d \in [Buckets -> [Keys -> Cells]] /\ b \in Buckets
  BY DEF Databases, BucketsOf, Buckets
<1>2. e \in [Buckets -> [Keys -> Cells]]
  BY <1>1 DEF Cell, Cells
<1>3. ASSUME NEW x \in Buckets, NEW y \in Keys
      PROVE  e[x][y] = IF x = b /\ y = k THEN c ELSE d[x][y]
  BY <1>1, <1>3 DEF Cell
<1> HIDE DEF e
<1>4. c # Nested
  OBVIOUS
<1>5. ASSUME NEW x \in Buckets, NEW y \in Keys, e[x][y] = Nested
      PROVE  x = Root /\ y \in BucketKeys
  <2>1. d[x][y] = Nested
    BY <1>3, <1>4, <1>5
  <2>2. QED BY <2>1 DEF Databases
<1>6. ASSUME NEW x \in BucketKeys, e[Root][x] # Nested
      PROVE  e[x] = EmptyBucket
  <2>1. x \in Buckets /\ x \in Keys /\ Root \in Buckets
    BY DEF Buckets
  <2>2. d[Root][x] # Nested
    BY <1>3, <1>6, <2>1
  <2>3. x # b
    BY <2>2 DEF BucketsOf
  <2>4. d[x] = EmptyBucket
    BY <2>2 DEF Databases
  <2>5. e[x] = d[x]
    BY <1>1, <2>1, <2>3 DEF e, Cell
  <2>6. QED BY <2>4, <2>5
<1>7. QED BY <1>2, <1>5, <1>6 DEF Databases, e

\* A bucket made or dropped leaves a database.
LEMMA BucketsType ==
  ASSUME NEW d \in Databases, NEW k \in BucketKeys
  PROVE  /\ d[Root][k] # Nested => Created(d, k) \in Databases
         /\ Created(d, k) \in Databases /\ Dropped(d, k) \in Databases
<1>1. d \in [Buckets -> [Keys -> Cells]] /\ Root \in Buckets /\ k \in Buckets /\ k # Root
  BY DEF Databases, Buckets
<1>2. EmptyBucket \in [Keys -> Cells]
  BY DEF EmptyBucket, Cells
<1>3. ASSUME NEW c \in {Absent, Nested}, NEW e,
             e = [b \in Buckets |-> IF b = Root THEN [d[Root] EXCEPT ![k] = c]
                                    ELSE IF b = k THEN EmptyBucket ELSE d[b]]
      PROVE  e \in Databases
  <2>1. e \in [Buckets -> [Keys -> Cells]]
    BY <1>1, <1>2, <1>3 DEF Cells
  <2>2. /\ \A y \in Keys : e[Root][y] = IF y = k THEN c ELSE d[Root][y]
        /\ e[k] = EmptyBucket
        /\ \A b \in Buckets : b # Root /\ b # k => e[b] = d[b]
    BY <1>1, <1>3
  <2>3. ASSUME NEW b \in Buckets, NEW y \in Keys, e[b][y] = Nested
        PROVE  b = Root /\ y \in BucketKeys
    <3>1. CASE b = Root
      BY <2>2, <2>3, <3>1 DEF Databases
    <3>2. CASE b = k
      BY <1>1, <2>2, <2>3, <3>2 DEF EmptyBucket
    <3>3. CASE b # Root /\ b # k
      BY <2>2, <2>3, <3>3 DEF Databases
    <3>4. QED BY <3>1, <3>2, <3>3
  <2>4. ASSUME NEW b \in BucketKeys, e[Root][b] # Nested
        PROVE  e[b] = EmptyBucket
    <3>1. b \in Buckets /\ b \in Keys /\ b # Root
      BY DEF Buckets
    <3>2. CASE b = k
      BY <2>2, <3>2
    <3>3. CASE b # k
      <4>1. d[Root][b] # Nested
        BY <2>2, <2>4, <3>1, <3>3
      <4>2. QED BY <2>2, <3>1, <3>3, <4>1 DEF Databases
    <3>4. QED BY <3>2, <3>3
  <2>5. QED BY <2>1, <2>3, <2>4 DEF Databases
<1>4. Dropped(d, k) \in Databases
  BY <1>3 DEF Dropped
<1>5. Created(d, k) \in Databases
  BY <1>3 DEF Created
<1>6. QED BY <1>4, <1>5

\* So does clearing a range; its buckets stay.
LEMMA ClearedType ==
  ASSUME NEW d \in Databases, NEW b \in BucketsOf(d), NEW from \in Nat,
         NEW to \in Keys \union {NoBound}
  PROVE  Cleared(d, b, from, to) \in Databases
<1> DEFINE e == Cleared(d, b, from, to)
<1>1. d \in [Buckets -> [Keys -> Cells]] /\ b \in Buckets
  BY DEF Databases, BucketsOf, Buckets
<1>2. e \in [Buckets -> [Keys -> Cells]]
  BY <1>1 DEF Cleared, Cells
<1>3. ASSUME NEW x \in Buckets, NEW y \in Keys
      PROVE  e[x][y] = IF x = b /\ y \in InRange(d[b], from, to) THEN Absent ELSE d[x][y]
  BY <1>1, <1>3 DEF Cleared
<1>4. ASSUME NEW x \in Buckets, x # b PROVE e[x] = d[x]
  BY <1>1, <1>4 DEF Cleared
<1> HIDE DEF e
<1>5. ASSUME NEW x \in Buckets, NEW y \in Keys
      PROVE  e[x][y] = Nested <=> d[x][y] = Nested
  BY <1>3 DEF InRange
<1>6. ASSUME NEW x \in BucketKeys, e[Root][x] # Nested
      PROVE  e[x] = EmptyBucket
  <2>1. x \in Buckets /\ x \in Keys /\ Root \in Buckets
    BY DEF Buckets
  <2>2. d[Root][x] # Nested
    BY <1>5, <1>6, <2>1
  <2>3. x # b
    BY <2>2 DEF BucketsOf
  <2>4. QED BY <1>4, <2>1, <2>2, <2>3 DEF Databases
<1>7. ASSUME NEW x \in Buckets, NEW y \in Keys, e[x][y] = Nested
      PROVE  x = Root /\ y \in BucketKeys
  BY <1>5, <1>7 DEF Databases
<1>8. QED BY <1>2, <1>6, <1>7 DEF Databases, e

\* Clearing is told by the range alone.
LEMMA ClearedSame ==
  ASSUME NEW d \in Databases, NEW b \in Buckets, NEW f, NEW g, NEW to,
         InRange(d[b], f, to) = InRange(d[b], g, to)
  PROVE  Cleared(d, b, f, to) = Cleared(d, b, g, to)
BY DEF Cleared, Databases

\* Clearing nothing changes nothing.
LEMMA ClearedNothing ==
  ASSUME NEW d \in Databases, NEW b \in Buckets, NEW f, NEW to, InRange(d[b], f, to) = {}
  PROVE  Cleared(d, b, f, to) = d
BY DEF Cleared, Databases

\* One step of a cursor: what it leaves to do is what it had to do.
LEMMA ClearedStep ==
  ASSUME NEW d \in Databases, NEW b \in BucketsOf(d), NEW at \in Keys,
         NEW to \in Keys \union {NoBound}, Within(at, to), d[b][at] # Absent,
         NEW left, left = IF d[b][at] = Nested THEN d ELSE Cell(d, b, at, Absent)
  PROVE  /\ left \in Databases /\ b \in BucketsOf(left) /\ left[b] \in [Keys -> Cells]
         /\ Cleared(left, b, at + 1, to) = Cleared(d, b, at, to)
<1>1. d \in [Buckets -> [Keys -> Cells]] /\ b \in Buckets /\ Root \in Buckets
  BY DEF Databases, BucketsOf, Buckets
<1>2. InRange(d[b], at, to) = Yielded(d[b], at) \union InRange(d[b], at + 1, to)
  BY <1>1, RangeAhead
<1>3. CASE d[b][at] = Nested
  <2>1. InRange(d[b], at, to) = InRange(d[b], at + 1, to)
    BY <1>2, <1>3 DEF Yielded
  <2>2. Cleared(d, b, at, to) = Cleared(d, b, at + 1, to)
    BY <1>1, <2>1, ClearedSame
  <2>3. QED BY <1>1, <1>3, <2>2
<1>4. CASE d[b][at] # Nested
  <2>1. left = Cell(d, b, at, Absent)
    BY <1>4
  <2>2. left \in Databases
    BY <1>4, <2>1, CellType
  <2>3. /\ left[b] = [d[b] EXCEPT ![at] = Absent]
        /\ \A x \in Buckets : x # b => left[x] = d[x]
        /\ left \in [Buckets -> [Keys -> Cells]]
    BY <1>1, <2>1, <2>2 DEF Cell, Databases
  <2>4. \A x \in Keys : left[b][x] = IF x = at THEN Absent ELSE d[b][x]
    BY <1>1, <2>3
  <2>5. b \in BucketsOf(left)
    <3>1. CASE b = Root
      BY <3>1 DEF BucketsOf
    <3>2. CASE b # Root
      BY <1>1, <2>3, <3>2 DEF BucketsOf
    <3>3. QED BY <3>1, <3>2
  <2>6. at \in Nat /\ ~(at >= at + 1)
    BY DEF Keys
  <2>7. InRange(left[b], at + 1, to) = InRange(d[b], at + 1, to)
    BY <2>4, <2>6 DEF InRange
  <2>8. \A x \in Keys : Cleared(left, b, at + 1, to)[b][x] = Cleared(d, b, at, to)[b][x]
    <3>1. TAKE x \in Keys
    <3>2. Cleared(left, b, at + 1, to)[b][x]
            = IF x \in InRange(left[b], at + 1, to) THEN Absent ELSE left[b][x]
      BY <1>1, <2>3 DEF Cleared
    <3>3. Cleared(d, b, at, to)[b][x]
            = IF x \in InRange(d[b], at, to) THEN Absent ELSE d[b][x]
      BY <1>1 DEF Cleared
    <3>4. Yielded(d[b], at) = {at}
      BY <1>4 DEF Yielded
    <3>5. QED BY <1>2, <2>4, <2>7, <3>2, <3>3, <3>4
  <2>9. \A x \in Buckets : x # b => Cleared(left, b, at + 1, to)[x] = Cleared(d, b, at, to)[x]
    BY <1>1, <2>3 DEF Cleared
  <2>10. /\ Cleared(left, b, at + 1, to) \in Databases
         /\ Cleared(d, b, at, to) \in Databases
    BY <2>2, <2>5, <2>6, ClearedType
  <2>11. Cleared(left, b, at + 1, to) = Cleared(d, b, at, to)
    <3> DEFINE e == Cleared(left, b, at + 1, to)
               f == Cleared(d, b, at, to)
    <3>1. e \in [Buckets -> [Keys -> Cells]] /\ f \in [Buckets -> [Keys -> Cells]]
      BY <2>10 DEF Databases
    <3> HIDE DEF e, f
    <3>2. \A x \in Keys : e[b][x] = f[b][x]
      BY <2>8 DEF e, f
    <3>3. e[b] = f[b]
      BY <1>1, <3>1, <3>2
    <3>4. \A x \in Buckets : e[x] = f[x]
      BY <2>9, <3>3 DEF e, f
    <3>5. e = f
      BY <3>1, <3>4
    <3>6. QED BY <3>5 DEF e, f
  <2>12. QED BY <1>1, <2>2, <2>3, <2>5, <2>11
<1>5. QED BY <1>3, <1>4

-----------------------------------------------------------------------------
(* The invariant.                                                          *)

Working == {"fn", "range", "failing"}
Told == {"none", "ok", "error", "panic"}

\* A step of one writer keeps the invariant if it leaves that writer's own
\* transaction right; what is committed only changes under a writer that is active.
LEMMA WriterMoves ==
  ASSUME Support, NEW w \in Writers, NEW t \in WriterType, NEW goal \in Databases \union {NoTx},
         tx' = [tx EXCEPT ![w] = t], want' = [want EXCEPT ![w] = goal],
         data' \in Databases, data' = data \/ Active(w),
         outcome' \in [Writers -> Told], UNCHANGED <<handle, view>>,
         InHand(t, goal, data'),
         t.phase \in Working => Active(w) \/ (handle = "open" /\ \A x \in Writers : ~Active(x))
  PROVE  Support'
<1>1. tx \in [Writers -> WriterType] /\ want \in [Writers -> Databases \union {NoTx}]
  BY DEF Support, TypeOK
<1>2. tx'[w] = t /\ want'[w] = goal
  BY <1>1
<1>3. \A x \in Writers : x # w => tx'[x] = tx[x] /\ want'[x] = want[x]
  BY <1>1
<1>4. TypeOK'
  BY DEF Support, TypeOK, Told
<1>5. \A x \in Writers : x # w => (Active(x)' <=> Active(x))
  BY <1>3 DEF Active
<1>6. Active(w)' <=> t.phase \in Working
  BY <1>2 DEF Active, Working
<1>7. OneWriter'
  BY <1>5, <1>6 DEF Support, OneWriter
<1>8. ASSUME NEW x \in Writers PROVE InHand(tx'[x], want'[x], data')
  <2>1. CASE x = w
    BY <1>2, <2>1
  <2>2. CASE x # w
    <3>1. InHand(tx[x], want[x], data)
      BY DEF Support
    <3>2. CASE data' = data
      BY <1>3, <2>2, <3>1, <3>2
    <3>3. CASE Active(w)
      <4>1. ~Active(x)
        BY <2>2, <3>3 DEF Support, OneWriter
      <4>2. InHand(tx[x], want[x], data')
        BY <3>1, <4>1 DEF InHand, Active
      <4>3. QED BY <1>3, <2>2, <4>2
    <3>4. QED BY <3>2, <3>3
  <2>3. QED BY <2>1, <2>2
<1>9. \A r \in Readers : Found(view'[r])
  BY DEF Support
<1>10. QED BY <1>4, <1>7, <1>8, <1>9 DEF Support

\* The same for a step that leaves what is committed and told alone.
LEMMA WriterWorks ==
  ASSUME Support, NEW w \in Writers, Active(w), NEW t \in WriterType,
         NEW goal \in Databases \union {NoTx},
         tx' = [tx EXCEPT ![w] = t], want' = [want EXCEPT ![w] = goal],
         UNCHANGED <<data, handle, outcome, view>>, InHand(t, goal, data)
  PROVE  Support'
<1>1. data \in Databases /\ outcome \in [Writers -> Told]
  BY DEF Support, TypeOK, Told
<1>2. data' \in Databases /\ data' = data /\ outcome' \in [Writers -> Told] /\ UNCHANGED <<handle, view>>
  BY <1>1
<1>3. InHand(t, goal, data')
  BY <1>2
<1>4. QED BY <1>2, <1>3, WriterMoves

\* The end of a transaction, or of a call that never had one.
LEMMA OverSound ==
  ASSUME Support, NEW w \in Writers, NEW told \in Told, Over(w, told),
         data' \in Databases, data' = data \/ Active(w), UNCHANGED <<handle, view>>
  PROVE  Support'
<1>1. Idle \in WriterType
  BY DEF Idle, WriterType, Buckets, Keys, End
<1>2. InHand(Idle, NoTx, data') /\ Idle.phase = "idle"
  BY DEF InHand, Idle
<1>3. outcome' \in [Writers -> Told]
  BY DEF Support, TypeOK, Over, Told
<1>4. ~(Idle.phase \in Working)
  BY <1>2 DEF Working
<1>5. NoTx \in Databases \union {NoTx}
  OBVIOUS
<1>6. QED BY <1>1, <1>2, <1>3, <1>4, <1>5, WriterMoves DEF Over

\* What is known of a writer.
LEMMA HandFacts ==
  ASSUME Support, NEW w \in Writers
  PROVE  /\ tx \in [Writers -> WriterType] /\ tx[w] \in WriterType
         /\ want \in [Writers -> Databases \union {NoTx}] /\ InHand(tx[w], want[w], data)
         /\ data \in Databases /\ (Active(w) => tx[w].work \in Databases /\ want[w] \in Databases)
BY DEF Support, TypeOK, InHand, Active

\* An operation that worked.
LEMMA DoSound ==
  ASSUME Support, NEW w \in Writers, tx[w].phase = "fn", NEW d \in Databases, Do(w, d),
         UNCHANGED <<data, handle, outcome, view>>
  PROVE  Support'
<1> DEFINE t == [tx[w] EXCEPT !.work = d, !.modified = TRUE]
<1>1. tx[w] \in WriterType /\ tx \in [Writers -> WriterType] /\ Active(w)
  BY HandFacts DEF Active
<1>2. t \in WriterType /\ t.phase = "fn" /\ t.work = d /\ t.modified
  BY <1>1 DEF WriterType
<1>3. tx' = [tx EXCEPT ![w] = t]
  BY <1>1 DEF Do, Modify
<1> HIDE DEF t
<1>4. InHand(t, d, data)
  BY <1>2 DEF InHand
<1>5. want' = [want EXCEPT ![w] = d]
  BY DEF Do
<1>6. QED BY <1>1, <1>2, <1>3, <1>4, <1>5, WriterWorks

\* One that bbolt refused.
LEMMA RefuseSound ==
  ASSUME Support, NEW w \in Writers, tx[w].phase = "fn", Refuse(w),
         UNCHANGED <<data, handle, outcome, view>>
  PROVE  Support'
<1> DEFINE t == [tx[w] EXCEPT !.phase = "failing"]
<1>1. /\ tx[w] \in WriterType /\ tx \in [Writers -> WriterType] /\ Active(w)
      /\ want \in [Writers -> Databases \union {NoTx}]
      /\ tx[w].work \in Databases /\ want[w] \in Databases
  BY HandFacts DEF Active
<1>2. t \in WriterType /\ t.phase = "failing" /\ t.work = tx[w].work
  BY <1>1 DEF WriterType
<1>3. tx' = [tx EXCEPT ![w] = t]
  BY <1>1 DEF Refuse
<1> HIDE DEF t
<1>4. InHand(t, want[w], data)
  BY <1>1, <1>2 DEF InHand
<1>5. want' = [want EXCEPT ![w] = want[w]]
  BY <1>1 DEF Refuse
<1>6. QED BY <1>1, <1>2, <1>3, <1>4, <1>5, WriterWorks

\* The operations on single keys and buckets.
LEMMA OperationSound ==
  ASSUME Support, NEW w \in Writers, Put(w) \/ Delete(w) \/ CreateBucket(w) \/ DeleteBucket(w)
  PROVE  Support'
<1>1. /\ tx[w].phase = "fn" /\ tx[w].work \in Databases
      /\ UNCHANGED <<data, handle, outcome, view>>
  BY HandFacts DEF Put, Delete, CreateBucket, DeleteBucket, Active
<1>2. CASE Refuse(w)
  BY <1>1, <1>2, RefuseSound
<1>3. ASSUME NEW d \in Databases, Do(w, d) PROVE Support'
  BY <1>1, <1>3, DoSound
<1>4. CASE Put(w)
  <2>1. PICK b \in BucketsOf(tx[w].work), k \in Keys, v \in Values :
          IF tx[w].work[b][k] = Nested THEN Refuse(w) ELSE Do(w, Cell(tx[w].work, b, k, v))
    BY <1>4 DEF Put
  <2>2. CASE tx[w].work[b][k] # Nested
    <3>1. Cell(tx[w].work, b, k, v) \in Databases
      BY <1>1, <2>2, CellType
    <3>2. QED BY <1>3, <2>1, <2>2, <3>1
  <2>3. QED BY <1>2, <2>1, <2>2
<1>5. CASE Delete(w)
  <2>1. PICK b \in BucketsOf(tx[w].work), k \in Keys :
          IF tx[w].work[b][k] = Nested THEN Refuse(w) ELSE Do(w, Cell(tx[w].work, b, k, Absent))
    BY <1>5 DEF Delete
  <2>2. CASE tx[w].work[b][k] # Nested
    <3>1. Cell(tx[w].work, b, k, Absent) \in Databases
      BY <1>1, <2>2, CellType
    <3>2. QED BY <1>3, <2>1, <2>2, <3>1
  <2>3. QED BY <1>2, <2>1, <2>2
<1>6. CASE CreateBucket(w)
  <2>1. PICK k \in BucketKeys :
          IF tx[w].work[Root][k] \in Values THEN Refuse(w) ELSE Do(w, Created(tx[w].work, k))
    BY <1>6 DEF CreateBucket
  <2>2. Created(tx[w].work, k) \in Databases
    BY <1>1, BucketsType
  <2>3. QED BY <1>2, <1>3, <2>1, <2>2
<1>7. CASE DeleteBucket(w)
  <2>1. PICK k \in BucketKeys :
          IF tx[w].work[Root][k] # Nested THEN Refuse(w) ELSE Do(w, Dropped(tx[w].work, k))
    BY <1>7 DEF DeleteBucket
  <2>2. Dropped(tx[w].work, k) \in Databases
    BY <1>1, BucketsType
  <2>3. QED BY <1>2, <1>3, <2>1, <2>2
<1>8. QED BY <1>4, <1>5, <1>6, <1>7

\* A range is begun: all of it is left to do.
LEMMA DeleteRangeSound ==
  ASSUME Support, NEW w \in Writers, DeleteRange(w)
  PROVE  Support'
<1>1. /\ tx[w] \in WriterType /\ tx \in [Writers -> WriterType] /\ Active(w)
      /\ tx[w].work \in Databases /\ want[w] = tx[w].work
      /\ want \in [Writers -> Databases \union {NoTx}]
  BY HandFacts DEF DeleteRange, InHand, Active
<1>2. PICK b \in BucketsOf(tx[w].work), from \in Keys \union {NoBound}, to \in Keys \union {NoBound} :
        /\ \E at \in Seek(tx[w].work[b], from) :
             tx' = [tx EXCEPT ![w].phase = "range", ![w].bucket = b, ![w].to = to, ![w].at = at]
        /\ want' = [want EXCEPT ![w] = Cleared(@, b, from, to)]
  BY DEF DeleteRange
<1>3. PICK at \in Seek(tx[w].work[b], from) :
         tx' = [tx EXCEPT ![w].phase = "range", ![w].bucket = b, ![w].to = to, ![w].at = at]
  BY <1>2
<1> DEFINE t == [tx[w] EXCEPT !.phase = "range", !.bucket = b, !.to = to, !.at = at]
           goal == Cleared(tx[w].work, b, from, to)
<1>4. b \in Buckets /\ tx[w].work[b] \in [Keys -> Cells] /\ from \in Nat
  BY <1>1 DEF BucketsOf, Buckets, Databases, Keys, NoBound
<1>5. at \in Keys \union {End} /\ (at # End => tx[w].work[b][at] # Absent)
  BY <1>4, SeekFacts
<1>6. /\ t \in WriterType /\ t.phase = "range" /\ t.work = tx[w].work
      /\ t.bucket = b /\ t.at = at /\ t.to = to
  BY <1>1, <1>4, <1>5 DEF WriterType
<1>7. tx' = [tx EXCEPT ![w] = t]
  BY <1>1, <1>3
<1>8. want' = [want EXCEPT ![w] = goal]
  BY <1>1, <1>2
<1>9. goal \in Databases
  BY <1>1, <1>4, ClearedType
<1>10. goal = Cleared(tx[w].work, b, at, to)
  <2>1. InRange(tx[w].work[b], at, to) = InRange(tx[w].work[b], from, to)
    BY <1>4, RangeFromSeek
  <2>2. QED BY <1>1, <1>4, <2>1, ClearedSame
<1> HIDE DEF t, goal
<1>11. InHand(t, goal, data)
  BY <1>1, <1>5, <1>6, <1>9, <1>10 DEF InHand
<1>12. UNCHANGED <<data, handle, outcome, view>>
  BY DEF DeleteRange
<1>13. QED BY <1>1, <1>6, <1>7, <1>8, <1>9, <1>11, <1>12, WriterWorks

\* A step of its cursor.
LEMMA DeleteNextSound ==
  ASSUME Support, NEW w \in Writers, DeleteNext(w)
  PROVE  Support'
<1> DEFINE b == tx[w].bucket
           to == tx[w].to
           work == tx[w].work
           left == IF work[b][tx[w].at] = Nested THEN work ELSE Cell(work, b, tx[w].at, Absent)
<1>1. /\ tx[w] \in WriterType /\ tx \in [Writers -> WriterType] /\ Active(w)
      /\ tx[w].phase = "range" /\ InHand(tx[w], want[w], data)
      /\ want \in [Writers -> Databases \union {NoTx}]
  BY HandFacts DEF DeleteNext, Active
<1>2. /\ work \in Databases /\ want[w] \in Databases /\ b \in BucketsOf(work)
      /\ want[w] = Cleared(work, b, tx[w].at, to)
      /\ tx[w].at # End => work[b][tx[w].at] # Absent
  BY <1>1 DEF InHand
<1>3. Within(tx[w].at, to) /\ tx[w].at \in Keys /\ to \in Keys \union {NoBound}
  BY <1>1 DEF DeleteNext, Within, WriterType
<1>4. work[b][tx[w].at] # Absent
  BY <1>2, <1>3 DEF Within
<1>5. /\ left \in Databases /\ b \in BucketsOf(left) /\ left[b] \in [Keys -> Cells]
      /\ Cleared(left, b, tx[w].at + 1, to) = want[w]
  BY <1>2, <1>3, <1>4, ClearedStep
<1>6. PICK at \in Seek(left[b], tx[w].at + 1) :
        tx' = [tx EXCEPT ![w].work = left, ![w].at = at]
  BY DEF DeleteNext
<1>7. tx[w].at + 1 \in Nat /\ b \in Buckets
  BY <1>1, <1>3 DEF Keys, WriterType
<1> HIDE DEF left
<1>8. at \in Keys \union {End} /\ (at # End => left[b][at] # Absent)
  BY <1>5, <1>7, SeekFacts
<1>9. Cleared(left, b, at, to) = want[w]
  <2>1. InRange(left[b], at, to) = InRange(left[b], tx[w].at + 1, to)
    BY <1>3, <1>5, <1>7, RangeFromSeek
  <2>2. Cleared(left, b, at, to) = Cleared(left, b, tx[w].at + 1, to)
    BY <1>5, <1>7, <2>1, ClearedSame
  <2>3. QED BY <1>5, <2>2
<1> DEFINE t == [tx[w] EXCEPT !.work = left, !.at = at]
<1>10. /\ t \in WriterType /\ t.phase = "range" /\ t.work = left
       /\ t.bucket = b /\ t.at = at /\ t.to = to
  BY <1>1, <1>5, <1>8 DEF WriterType
<1>11. tx' = [tx EXCEPT ![w] = t]
  BY <1>1, <1>6
<1> HIDE DEF t, b, to, work
<1>12. InHand(t, want[w], data)
  BY <1>2, <1>5, <1>8, <1>9, <1>10 DEF InHand
<1>13. want' = [want EXCEPT ![w] = want[w]] /\ UNCHANGED <<data, handle, outcome, view>>
  BY <1>1 DEF DeleteNext
<1>14. QED BY <1>1, <1>2, <1>10, <1>11, <1>12, <1>13, WriterWorks

\* Its end: nothing is left to do, and the flag is set.
LEMMA DeleteDoneSound ==
  ASSUME Support, NEW w \in Writers, DeleteDone(w)
  PROVE  Support'
<1> DEFINE t == [tx[w] EXCEPT !.phase = "fn", !.modified = TRUE]
<1>1. /\ tx[w] \in WriterType /\ tx \in [Writers -> WriterType] /\ Active(w)
      /\ tx[w].phase = "range" /\ InHand(tx[w], want[w], data)
      /\ want \in [Writers -> Databases \union {NoTx}]
  BY HandFacts DEF DeleteDone, Active
<1>2. /\ tx[w].work \in Databases /\ want[w] \in Databases /\ tx[w].bucket \in Buckets
      /\ want[w] = Cleared(tx[w].work, tx[w].bucket, tx[w].at, tx[w].to)
  BY <1>1 DEF InHand, WriterType
<1>3. want[w] = tx[w].work
  <2>1. tx[w].work[tx[w].bucket] \in [Keys -> Cells]
    BY <1>2 DEF Databases
  <2>2. InRange(tx[w].work[tx[w].bucket], tx[w].at, tx[w].to) = {}
    BY <1>1, <2>1, RangeOver DEF DeleteDone, WriterType
  <2>3. QED BY <1>2, <2>2, ClearedNothing
<1>4. t \in WriterType /\ t.phase = "fn" /\ t.work = tx[w].work /\ t.modified
  BY <1>1 DEF WriterType
<1>5. tx' = [tx EXCEPT ![w] = t]
  BY <1>1 DEF DeleteDone
<1> HIDE DEF t
<1>6. InHand(t, want[w], data)
  BY <1>2, <1>3, <1>4 DEF InHand
<1>7. want' = [want EXCEPT ![w] = want[w]] /\ UNCHANGED <<data, handle, outcome, view>>
  BY <1>1 DEF DeleteDone
<1>8. QED BY <1>1, <1>2, <1>4, <1>5, <1>6, <1>7, WriterWorks

\* A call, and its entry.
LEMMA UpdateSound ==
  ASSUME Support, NEW w \in Writers, Update(w)
  PROVE  Support'
<1>1. CASE handle = "closed"
  <2>1. PICK told \in {"error", "panic"} : Over(w, told)
    BY <1>1 DEF Update
  <2>2. told \in Told /\ data' \in Databases /\ data' = data /\ UNCHANGED <<handle, view>>
    BY HandFacts DEF Update, Told
  <2>3. QED BY <2>1, <2>2, OverSound
<1>2. CASE handle # "closed"
  <2> DEFINE t == [tx[w] EXCEPT !.phase = "waiting"]
  <2>1. /\ tx[w] \in WriterType /\ tx \in [Writers -> WriterType] /\ tx[w].phase = "idle"
        /\ want \in [Writers -> Databases \union {NoTx}] /\ InHand(tx[w], want[w], data)
        /\ outcome \in [Writers -> Told] /\ data \in Databases
    BY HandFacts DEF Update, Support, TypeOK, Told
  <2>2. /\ tx' = [tx EXCEPT ![w].phase = "waiting"]
        /\ outcome' = [outcome EXCEPT ![w] = "none"]
        /\ UNCHANGED <<want, data, handle, view>>
    BY <1>2 DEF Update
  <2>3. t \in WriterType /\ t.phase = "waiting"
    BY <2>1 DEF WriterType
  <2>4. tx' = [tx EXCEPT ![w] = t]
    BY <2>1, <2>2
  <2> HIDE DEF t
  <2>5. want[w] = NoTx
    BY <2>1 DEF InHand
  <2>6. InHand(t, NoTx, data')
    BY <2>3 DEF InHand
  <2>7. want' = [want EXCEPT ![w] = NoTx]
    BY <2>1, <2>2, <2>5
  <2>8. outcome' \in [Writers -> Told]
    BY <2>1, <2>2 DEF Told
  <2>9. ~(t.phase \in Working)
    BY <2>3 DEF Working
  <2>10. QED BY <2>1, <2>2, <2>3, <2>4, <2>6, <2>7, <2>8, <2>9, WriterMoves
<1>3. QED BY <1>1, <1>2

LEMMA BeginSound ==
  ASSUME Support, NEW w \in Writers, Begin(w)
  PROVE  Support'
<1>1. data \in Databases /\ data' = data /\ UNCHANGED <<handle, view>>
  BY HandFacts DEF Begin
<1>2. CASE handle = "closed" /\ Over(w, "error")
  <2>1. "error" \in Told
    BY DEF Told
  <2>2. QED BY <1>1, <1>2, <2>1, OverSound
<1>3. CASE /\ handle = "open" /\ \A x \in Writers : ~Active(x)
           /\ tx' = [tx EXCEPT ![w] = [Idle EXCEPT !.phase = "fn", !.work = data]]
           /\ want' = [want EXCEPT ![w] = data]
           /\ UNCHANGED outcome
  <2> DEFINE t == [Idle EXCEPT !.phase = "fn", !.work = data]
  <2>1. t \in WriterType /\ t.phase = "fn" /\ t.work = data
    BY <1>1 DEF Idle, WriterType, Buckets, Keys, End
  <2>2. tx' = [tx EXCEPT ![w] = t]
    BY <1>3
  <2> HIDE DEF t
  <2>3. InHand(t, data, data')
    BY <1>1, <2>1 DEF InHand
  <2>4. outcome' \in [Writers -> Told]
    BY <1>3 DEF Support, TypeOK, Told
  <2>5. QED BY <1>1, <1>3, <2>1, <2>2, <2>3, <2>4, WriterMoves
<1>4. QED BY <1>2, <1>3 DEF Begin

\* The ends of Update.
LEMMA EndSound ==
  ASSUME Support, NEW w \in Writers, Return(w) \/ ReturnError(w) \/ Panic(w)
  PROVE  Support'
<1>1. Active(w) /\ tx[w].work \in Databases /\ data \in Databases
  <2>1. Active(w)
    BY DEF Return, ReturnError, Panic, Active
  <2>2. QED BY <2>1, HandFacts
<1>2. UNCHANGED <<handle, view>> /\ data' \in Databases
  BY <1>1 DEF Return, ReturnError, Panic
<1>3. \E told \in Told : Over(w, told)
  BY DEF Return, ReturnError, Panic, Told
<1>4. QED BY <1>1, <1>2, <1>3, OverSound

-----------------------------------------------------------------------------
(* Readers and the program.                                                *)

\* A step of one reader.
LEMMA ReaderMoves ==
  ASSUME Support, NEW r \in Readers, NEW c \in ReaderType, Found(c),
         view' = [view EXCEPT ![r] = c], UNCHANGED <<data, handle, tx, outcome, want>>
  PROVE  Support'
<1>1. TypeOK'
  BY DEF Support, TypeOK
<1>2. OneWriter'
  BY DEF Support, OneWriter, Active
<1>3. \A w \in Writers : InHand(tx'[w], want'[w], data')
  BY DEF Support
<1>4. \A x \in Readers : Found(view'[x])
  BY DEF Support, TypeOK
<1>5. QED BY <1>1, <1>2, <1>3, <1>4 DEF Support

LEMMA ViewSound ==
  ASSUME Support, NEW r \in Readers, View(r)
  PROVE  Support'
<1>1. PICK b \in BucketsOf(data), from \in Keys \union {NoBound}, to \in Keys \union {NoBound} :
        \E at \in Seek(data[b], from) :
          view' = [view EXCEPT ![r] =
            [phase |-> "range", bucket |-> data[b], to |-> to, at |-> at,
             got |-> {}, owed |-> InRange(data[b], from, to)]]
  BY DEF View
<1>2. PICK at \in Seek(data[b], from) :
        view' = [view EXCEPT ![r] =
          [phase |-> "range", bucket |-> data[b], to |-> to, at |-> at,
           got |-> {}, owed |-> InRange(data[b], from, to)]]
  BY <1>1
<1> DEFINE c == [phase |-> "range", bucket |-> data[b], to |-> to, at |-> at,
                 got |-> {}, owed |-> InRange(data[b], from, to)]
<1>3. data[b] \in [Keys -> Cells] /\ from \in Nat
  BY DEF Support, TypeOK, Databases, BucketsOf, Buckets, Keys, NoBound
<1>4. at \in Keys \union {End} /\ (at # End => data[b][at] # Absent)
  BY <1>3, SeekFacts
<1>5. InRange(data[b], at, to) = InRange(data[b], from, to)
  BY <1>3, RangeFromSeek
<1>6. InRange(data[b], from, to) \subseteq Keys
  BY DEF InRange
<1>7. c \in ReaderType
  BY <1>3, <1>4, <1>6 DEF ReaderType
<1>8. Found(c)
  BY <1>4, <1>5 DEF Found
<1>9. view' = [view EXCEPT ![r] = c] /\ UNCHANGED <<data, handle, tx, outcome, want>>
  BY <1>2 DEF View
<1>10. QED BY <1>7, <1>8, <1>9, ReaderMoves

LEMMA RangeNextSound ==
  ASSUME Support, NEW r \in Readers, RangeNext(r)
  PROVE  Support'
<1> DEFINE o == view[r]
<1>1. o \in ReaderType /\ view \in [Readers -> ReaderType] /\ Found(o)
  BY DEF Support, TypeOK
<1>2. o.phase = "range" /\ Within(o.at, o.to) /\ UNCHANGED <<data, handle, tx, outcome, want>>
  BY DEF RangeNext
<1>3. PICK at \in Seek(o.bucket, o.at + 1) :
        view' = [view EXCEPT ![r].at = at, ![r].got = @ \union Yielded(o.bucket, o.at)]
  BY DEF RangeNext
<1> DEFINE c == [o EXCEPT !.at = at, !.got = o.got \union Yielded(o.bucket, o.at)]
<1>4. o.at \in Keys /\ o.bucket \in [Keys -> Cells] /\ o.to \in Keys \union {NoBound} /\ o.got \subseteq Keys
  BY <1>1, <1>2 DEF Within, ReaderType
<1>5. o.at + 1 \in Nat
  BY <1>4 DEF Keys
<1>6. o.bucket[o.at] # Absent /\ o.owed = o.got \union InRange(o.bucket, o.at, o.to)
  BY <1>1, <1>2 DEF Found, Within
<1>7. InRange(o.bucket, o.at, o.to) = Yielded(o.bucket, o.at) \union InRange(o.bucket, o.at + 1, o.to)
  BY <1>2, <1>4, <1>6, RangeAhead
<1>8. InRange(o.bucket, at, o.to) = InRange(o.bucket, o.at + 1, o.to)
  BY <1>4, <1>5, RangeFromSeek
<1>9. at \in Keys \union {End} /\ (at # End => o.bucket[at] # Absent)
  BY <1>4, <1>5, SeekFacts
<1>10. Yielded(o.bucket, o.at) \subseteq Keys
  BY <1>4 DEF Yielded
<1>11. /\ c \in ReaderType /\ c.phase = "range" /\ c.bucket = o.bucket /\ c.at = at
       /\ c.to = o.to /\ c.owed = o.owed /\ c.got = o.got \union Yielded(o.bucket, o.at)
  BY <1>1, <1>2, <1>4, <1>9, <1>10 DEF ReaderType
<1>12. view' = [view EXCEPT ![r] = c]
  BY <1>1, <1>3
<1> HIDE DEF c, o
<1>13. Found(c)
  BY <1>6, <1>7, <1>8, <1>9, <1>11 DEF Found
<1>14. QED BY <1>2, <1>11, <1>12, <1>13, ReaderMoves

LEMMA ViewEndsSound ==
  ASSUME Support, NEW r \in Readers, ViewEnds(r)
  PROVE  Support'
<1>1. NoView \in ReaderType /\ Found(NoView)
  BY DEF NoView, ReaderType, Found, EmptyBucket, Cells, Keys, End
<1>2. QED BY <1>1, ReaderMoves DEF ViewEnds

\* The program is closed or started again.
LEMMA CloseSound ==
  ASSUME Support, CloseBegins \/ CloseEnds
  PROVE  Support'
<1>1. UNCHANGED <<data, tx, outcome, view, want>> /\ handle' \in {"closing", "closed"}
  BY DEF CloseBegins, CloseEnds
<1>2. \A w \in Writers : ~Active(w)
  BY DEF Support, OneWriter, CloseBegins, CloseEnds
<1>3. \A w \in Writers : ~Active(w)'
  BY <1>1, <1>2 DEF Active
<1>4. TypeOK'
  BY <1>1 DEF Support, TypeOK
<1>5. OneWriter'
  BY <1>3 DEF OneWriter
<1>6. \A w \in Writers : InHand(tx'[w], want'[w], data')
  BY <1>1 DEF Support
<1>7. \A r \in Readers : Found(view'[r])
  BY <1>1 DEF Support
<1>8. QED BY <1>4, <1>5, <1>6, <1>7 DEF Support

\* What holds of a program that has just been started.
LEMMA FreshSound ==
  ASSUME data \in Databases, handle = "open", tx = [w \in Writers |-> Idle],
         outcome = [w \in Writers |-> "none"], view = [r \in Readers |-> NoView],
         want = [w \in Writers |-> NoTx]
  PROVE  Support
<1>1. Idle \in WriterType /\ Idle.phase = "idle"
  BY DEF Idle, WriterType, Buckets, Keys, End
<1>2. NoView \in ReaderType /\ Found(NoView)
  BY DEF NoView, ReaderType, Found, EmptyBucket, Cells, Keys, End
<1>3. TypeOK
  BY <1>1, <1>2 DEF TypeOK
<1>4. \A w \in Writers : ~Active(w)
  BY <1>1 DEF Active
<1>5. OneWriter
  BY <1>4 DEF OneWriter
<1>6. \A w \in Writers : InHand(tx[w], want[w], data)
  BY <1>1 DEF InHand
<1>7. QED BY <1>2, <1>3, <1>5, <1>6 DEF Support

LEMMA NoDataType == NoData \in Databases
<1>1. EmptyBucket \in [Keys -> Cells] /\ \A k \in Keys : EmptyBucket[k] # Nested
  BY DEF EmptyBucket, Cells
<1>2. NoData \in [Buckets -> [Keys -> Cells]]
  BY <1>1 DEF NoData
<1>3. \A b \in Buckets : NoData[b] = EmptyBucket
  BY DEF NoData
<1>4. BucketKeys \subseteq Buckets
  BY DEF Buckets
<1>5. QED BY <1>1, <1>2, <1>3, <1>4 DEF Databases

LEMMA InitSound == Init => Support
BY NoDataType, FreshSound DEF Init

LEMMA RestartSound ==
  ASSUME Support, Restart
  PROVE  Support'
<1>1. data' \in Databases
  BY DEF Restart, Support, TypeOK
<1>2. Idle \in WriterType /\ Idle.phase = "idle"
  BY DEF Idle, WriterType, Buckets, Keys, End
<1>3. NoView \in ReaderType /\ Found(NoView)
  BY DEF NoView, ReaderType, Found, EmptyBucket, Cells, Keys, End
<1>4. TypeOK'
  BY <1>1, <1>2, <1>3 DEF TypeOK, Restart
<1>5. \A w \in Writers : ~Active(w)'
  BY <1>2 DEF Active, Restart
<1>6. OneWriter'
  BY <1>5 DEF OneWriter
<1>7. \A w \in Writers : InHand(tx'[w], want'[w], data')
  BY <1>2 DEF InHand, Restart
<1>8. \A r \in Readers : Found(view'[r])
  BY <1>3 DEF Restart
<1>9. QED BY <1>4, <1>6, <1>7, <1>8 DEF Support

LEMMA IdleSound == ASSUME Support, UNCHANGED vars PROVE Support'
BY DEF Support, TypeOK, OneWriter, Active, vars

LEMMA StepSound == Support /\ [Next]_vars => Support'
<1> SUFFICES ASSUME Support, [Next]_vars PROVE Support'
  OBVIOUS
<1>1. CASE \E w \in Writers :
             \/ Update(w) \/ Begin(w)
             \/ Put(w) \/ Delete(w) \/ CreateBucket(w) \/ DeleteBucket(w)
             \/ DeleteRange(w) \/ DeleteNext(w) \/ DeleteDone(w)
             \/ Return(w) \/ ReturnError(w) \/ Panic(w)
  BY <1>1, UpdateSound, BeginSound, OperationSound, DeleteRangeSound, DeleteNextSound,
     DeleteDoneSound, EndSound
<1>2. CASE \E r \in Readers : View(r) \/ RangeNext(r) \/ ViewEnds(r)
  BY <1>2, ViewSound, RangeNextSound, ViewEndsSound
<1>3. CASE CloseBegins \/ CloseEnds \/ Restart
  BY <1>3, CloseSound, RestartSound
<1>4. CASE UNCHANGED vars
  BY <1>4, IdleSound
<1>5. QED BY <1>1, <1>2, <1>3, <1>4 DEF Next

-----------------------------------------------------------------------------
(* The theorems.                                                           *)

\* The invariant holds, whatever writers and readers do and whenever the program
\* is closed or crashes (db/tx.go, db/bucket.go, db/db.go).
THEOREM StoreIsSound == Spec => []Support
<1>1. QED BY InitSound, StepSound, PTL DEF Spec

\* Every variable keeps its type; in particular a bucket is never found where a
\* value was stored (db/bucket.go).
THEOREM TypeCorrect == Spec => []TypeOK
<1>1. Support => TypeOK
  BY DEF Support
<1>2. QED BY <1>1, StoreIsSound, PTL

\* bucket.go:166-206.  A range gone through to its end gave exactly what it should.
THEOREM RangesExact == Spec => []RangeExact
<1>1. Support => RangeExact
  <2> SUFFICES ASSUME Support, NEW r \in Readers, view[r].phase = "range",
                      ~Within(view[r].at, view[r].to)
               PROVE  view[r].got = view[r].owed
    BY DEF RangeExact
  <2>1. view[r] \in ReaderType /\ Found(view[r])
    BY DEF Support, TypeOK
  <2>2. InRange(view[r].bucket, view[r].at, view[r].to) = {}
    BY <2>1, RangeOver DEF ReaderType
  <2>3. QED BY <2>1, <2>2 DEF Found
<1>2. QED BY <1>1, StoreIsSound, PTL

-----------------------------------------------------------------------------
(* The abstract store.                                                     *)

USE NoTxAssumption

LEMMA NoTxIsNone == NoTx \notin Databases
BY DEF Databases

\* Nobody means to change anything unless a transaction is open.
LEMMA WantTells ==
  ASSUME Support, NEW w \in Writers
  PROVE  /\ Active(w) => want[w] # NoTx
         /\ ~Active(w) => want[w] = NoTx
<1>1. tx[w].phase \in {"idle", "waiting", "fn", "range", "failing"}
  BY DEF Support, TypeOK, WriterType
<1>2. QED BY <1>1, HandFacts, NoTxIsNone DEF InHand, Active

LEMMA OverIsAbstract ==
  ASSUME Support, NEW w \in Writers
  PROVE  /\ Over(w, "error") /\ UNCHANGED <<data, handle>> => Atomic!Fail(w)
         /\ Over(w, "panic") /\ UNCHANGED <<data, handle>> => Atomic!Fail(w)
BY DEF Over, Atomic!Fail

\* What the operations of one writer are to the abstract store.
LEMMA WriterIsAbstract ==
  ASSUME Support, NEW w \in Writers,
         \/ Update(w) \/ Begin(w)
         \/ Put(w) \/ Delete(w) \/ CreateBucket(w) \/ DeleteBucket(w)
         \/ DeleteRange(w) \/ DeleteNext(w) \/ DeleteDone(w)
         \/ Return(w) \/ ReturnError(w) \/ Panic(w),
         Support'
  PROVE  Atomic!Next \/ UNCHANGED <<data, want, outcome, handle = "open">>
<1>1. /\ want \in [Writers -> Databases \union {NoTx}]
      /\ want' \in [Writers -> Databases \union {NoTx}]
      /\ InHand(tx[w], want[w], data)
  BY DEF Support, TypeOK
<1>2. CASE Update(w)
  <2>1. CASE handle = "closed"
    <3>1. Atomic!Fail(w)
      BY <1>2, <2>1, OverIsAbstract DEF Update
    <3>2. QED BY <3>1 DEF Atomic!Next
  <2>2. CASE handle # "closed"
    <3>1. Atomic!Call(w)
      BY <1>2, <2>2 DEF Update, Atomic!Call
    <3>2. QED BY <3>1 DEF Atomic!Next
  <2>3. QED BY <2>1, <2>2
<1>3. CASE Begin(w)
  <2>1. CASE handle = "closed" /\ Over(w, "error")
    <3>1. Atomic!Fail(w)
      BY <1>3, <2>1, OverIsAbstract DEF Begin
    <3>2. QED BY <3>1 DEF Atomic!Next
  <2>2. CASE /\ handle = "open" /\ \A x \in Writers : ~Active(x)
             /\ want' = [want EXCEPT ![w] = data] /\ UNCHANGED outcome
    <3>1. \A x \in Writers : want[x] = NoTx
      BY <2>2, WantTells
    <3>2. Atomic!Start(w)
      BY <1>3, <2>2, <3>1 DEF Begin, Atomic!Start
    <3>3. QED BY <3>2 DEF Atomic!Next
  <2>3. QED BY <1>3, <2>1, <2>2 DEF Begin
<1>4. CASE Put(w) \/ Delete(w) \/ CreateBucket(w) \/ DeleteBucket(w) \/ DeleteRange(w)
  <2>1. Active(w) /\ UNCHANGED <<data, handle, outcome>>
    BY <1>4 DEF Put, Delete, CreateBucket, DeleteBucket, DeleteRange, Active
  <2>2. UNCHANGED want \/ \E g : want' = [want EXCEPT ![w] = g]
    BY <1>4 DEF Put, Delete, CreateBucket, DeleteBucket, DeleteRange, Do, Refuse
  <2>3. CASE UNCHANGED want
    BY <2>1, <2>3
  <2>4. CASE \E g : want' = [want EXCEPT ![w] = g]
    <3>1. want[w] # NoTx
      BY <2>1, WantTells
    <3>2. Active(w)'
      <4>1. tx[w] \in WriterType /\ tx \in [Writers -> WriterType]
        BY HandFacts
      <4>2. CASE DeleteRange(w)
        <5>1. PICK b, to, at :
                tx' = [tx EXCEPT ![w].phase = "range", ![w].bucket = b, ![w].to = to, ![w].at = at]
          BY <4>2 DEF DeleteRange
        <5>2. tx' = [tx EXCEPT ![w] = [tx[w] EXCEPT !.phase = "range", !.bucket = b, !.to = to, !.at = at]]
          BY <4>1, <5>1
        <5>3. tx'[w].phase = "range"
          BY <4>1, <5>2 DEF WriterType
        <5>4. QED BY <5>3 DEF Active
      <4>3. CASE Put(w) \/ Delete(w) \/ CreateBucket(w) \/ DeleteBucket(w)
        <5>1. tx[w].phase = "fn" /\ (Refuse(w) \/ \E d : Modify(w, d))
          BY <4>3 DEF Put, Delete, CreateBucket, DeleteBucket, Do
        <5>2. Refuse(w) => tx'[w].phase = "failing"
          BY <4>1 DEF Refuse, WriterType
        <5>3. ASSUME NEW d, Modify(w, d) PROVE tx'[w].phase = tx[w].phase
          BY <4>1, <5>3 DEF Modify, WriterType
        <5>4. QED BY <5>1, <5>2, <5>3 DEF Active
      <4>4. QED BY <1>4, <4>2, <4>3
    <3>3. want'[w] \in Databases
      BY <3>2 DEF Support, InHand, Active
    <3>4. want' = [want EXCEPT ![w] = want'[w]]
      BY <1>1, <2>4
    <3>5. Atomic!Work(w)
      BY <2>1, <3>1, <3>3, <3>4 DEF Atomic!Work
    <3>6. QED BY <3>5 DEF Atomic!Next
  <2>5. QED BY <2>2, <2>3, <2>4
<1>5. CASE DeleteNext(w) \/ DeleteDone(w)
  BY <1>5 DEF DeleteNext, DeleteDone
<1>6. CASE Return(w)
  <2>1. want[w] # NoTx /\ want[w] = tx[w].work /\ (~tx[w].modified => want[w] = data)
    BY <1>1, <1>6, WantTells DEF Return, InHand, Active
  <2>2. CASE Over(w, "error") /\ UNCHANGED data
    <3>1. Atomic!Fail(w)
      BY <1>6, <2>2, OverIsAbstract DEF Return
    <3>2. QED BY <3>1 DEF Atomic!Next
  <2>3. CASE Over(w, "ok") /\ data' = want[w]
    <3>1. Atomic!Succeed(w)
      BY <1>6, <2>1, <2>3 DEF Return, Over, Atomic!Succeed
    <3>2. QED BY <3>1 DEF Atomic!Next
  <2>4. QED BY <1>6, <2>1, <2>2, <2>3 DEF Return
<1>7. CASE ReturnError(w) \/ Panic(w)
  <2>1. Atomic!Fail(w)
    BY <1>7, OverIsAbstract DEF ReturnError, Panic
  <2>2. QED BY <2>1 DEF Atomic!Next
<1>8. QED BY <1>2, <1>3, <1>4, <1>5, <1>6, <1>7

\* The rest of the program, as the abstract store sees it.
LEMMA OthersAreAbstract ==
  ASSUME Support,
         \/ \E r \in Readers : View(r) \/ RangeNext(r) \/ ViewEnds(r)
         \/ CloseBegins \/ CloseEnds \/ Restart
  PROVE  Atomic!Next \/ UNCHANGED <<data, want, outcome, handle = "open">>
<1>1. CASE \E r \in Readers : View(r) \/ RangeNext(r) \/ ViewEnds(r)
  BY <1>1 DEF View, RangeNext, ViewEnds
<1>2. CASE CloseBegins
  <2>1. \A w \in Writers : want[w] = NoTx
    BY <1>2, WantTells DEF CloseBegins
  <2>2. Atomic!Close
    BY <1>2, <2>1 DEF CloseBegins, Atomic!Close
  <2>3. QED BY <2>2 DEF Atomic!Next
<1>3. CASE CloseEnds
  BY <1>3 DEF CloseEnds
<1>4. CASE Restart
  <2>1. Atomic!Restart
    BY <1>4 DEF Restart, Atomic!Restart
  <2>2. QED BY <2>1 DEF Atomic!Next
<1>5. QED BY <1>1, <1>2, <1>3, <1>4

\* tx.go:26-42, bucket.go:95-160 and 226-241: an update that was told that all is
\* well is stored as a whole although each operation has to set the flag by itself,
\* and any other has changed nothing.
THEOREM StoreIsAtomic == Spec => AtomicSpec
<1>1. Init => Atomic!Init
  BY NoDataType DEF Init, Atomic!Init
<1>2. Support /\ Support' /\ [Next]_vars => [Atomic!Next]_<<data, want, outcome, handle = "open">>
  <2> SUFFICES ASSUME Support, Support', [Next]_vars
               PROVE  Atomic!Next \/ UNCHANGED <<data, want, outcome, handle = "open">>
    OBVIOUS
  <2>1. CASE UNCHANGED vars
    BY <2>1 DEF vars
  <2>2. CASE Next
    BY <2>2, WriterIsAbstract, OthersAreAbstract DEF Next
  <2>3. QED BY <2>1, <2>2
<1>3. QED BY <1>1, <1>2, StoreIsSound, PTL DEF Spec, AtomicSpec, Atomic!Spec

=============================================================================
