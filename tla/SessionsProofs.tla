--------------------------- MODULE SessionsProofs ---------------------------
(***************************************************************************)
(* Proofs about the session store: its two buckets agree after every       *)
(* transaction, a cleanup takes exactly what had expired, and storing      *)
(* something in a session fails only for a request that outlives it.       *)
(***************************************************************************)
EXTENDS Sessions, TLAPS

USE StoreAssumption

-----------------------------------------------------------------------------
(* Arithmetic: multiples, Time.Truncate and the keys of the expire bucket. *)

\* A product is a multiple of its factor.
LEMMA MultipleMod ==
  ASSUME NEW q \in Nat, NEW S \in Nat \ {0}, NEW x \in Nat, x = S * q
  PROVE  x % S = 0
<1> DEFINE d == x \div S
<1> DEFINE m == x % S
<1>1. x = S * d + m /\ m \in 0..(S-1) /\ d \in Nat
  OBVIOUS
<1> HIDE DEF d, m
<1>2. m = S * (q - d)
  BY <1>1
<1>3. CASE q - d >= 1
  <2>1. S * (q - d) >= S
    BY <1>1, <1>3
  <2>2. QED BY <2>1, <1>1, <1>2
<1>4. CASE q - d <= -1
  <2>1. S * (q - d) <= -S
    BY <1>1, <1>4
  <2>2. QED BY <2>1, <1>1, <1>2
<1>5. CASE q = d
  BY <1>2, <1>5
<1>6. m = 0
  BY <1>1, <1>3, <1>4, <1>5
<1>7. QED BY <1>6 DEF m

\* Multiples of Truncate fall on whole seconds.
LEMMA WholeSecond ==
  ASSUME NEW e \in Nat, e % Truncate = 0
  PROVE  e % Second = 0
<1> DEFINE a == e \div Truncate
<1> DEFINE b == Truncate \div Second
<1>1. /\ a \in Nat /\ e = Truncate * a
      /\ b \in Nat /\ Truncate = Second * b
  BY ConfigAssumption
<1> HIDE DEF a, b
<1>2. e = Second * (b * a) /\ b * a \in Nat
  BY <1>1
<1>3. QED BY <1>2, MultipleMod

\* A key is as good as the expiry time it stands for: it falls within a range
\* of keys exactly when the expiry time has passed.
LEMMA KeyOrder ==
  ASSUME NEW e \in Nat, e % Truncate = 0, NEW at \in Nat
  PROVE  /\ Key(e) \in Nat /\ Key(at) \in Nat
         /\ Key(e) <= Key(at) <=> e <= at
<1>1. e % Second = 0
  BY WholeSecond, ConfigAssumption
<1>2. e = Second * (e \div Second) /\ e \div Second \in Nat
  BY <1>1
<1>3. /\ at = Second * (at \div Second) + (at % Second)
      /\ at % Second \in 0..(Second - 1)
      /\ at \div Second \in Nat
  OBVIOUS
<1>4. QED BY <1>2, <1>3 DEF Key

\* NewExpiry is a multiple of Truncate and leaves the session a life longer
\* than Expire - Truncate.
LEMMA NewExpiryBounds ==
  ASSUME NEW asked \in Nat
  PROVE  /\ NewExpiry(asked) \in Nat
         /\ NewExpiry(asked) % Truncate = 0
         /\ NewExpiry(asked) > asked + Expire - Truncate
         /\ Key(NewExpiry(asked)) \in Nat
<1> DEFINE t == asked + Expire
<1>1. t \in Nat
  OBVIOUS
<1> HIDE DEF t
<1>2. /\ t \div Truncate \in Nat
      /\ t - (t % Truncate) = Truncate * (t \div Truncate)
      /\ t - (t % Truncate) \in Nat
      /\ t % Truncate < Truncate
  BY <1>1
<1>3. (t - (t % Truncate)) % Truncate = 0
  BY <1>2, MultipleMod
<1>4. Trunc(t) \in Nat /\ Trunc(t) % Truncate = 0 /\ Trunc(t) > t - Truncate
  BY <1>1, <1>2, <1>3 DEF Trunc
<1>5. /\ NewExpiry(asked) = Trunc(t)
      /\ t - Truncate = asked + Expire - Truncate
  BY DEF NewExpiry, t
<1>6. Key(Trunc(t)) \in Nat
  BY <1>4 DEF Key
<1>7. QED BY <1>4, <1>5, <1>6

-----------------------------------------------------------------------------
(* Type correctness and the agreement of the two buckets.                  *)

Sound == TypeOK /\ IndexMatchesStore

\* Nothing is stored at the start, so types and index are right.
LEMMA InitSound == Init => Sound
<1> SUFFICES ASSUME Init PROVE Sound
  OBVIOUS
<1>1. Idle \in RequestType(used)
  BY DEF Idle, RequestType
<1>2. TypeOK
  BY <1>1 DEF Init, TypeOK
<1>3. IndexMatchesStore
  BY DEF Init, IndexMatchesStore
<1>4. QED BY <1>2, <1>3 DEF Sound

\* What a request's record holds.
LEMMA RequestFacts ==
  ASSUME TypeOK, NEW r \in Requests
  PROVE  /\ req[r] \in RequestType(used)
         /\ req[r].asked \in Nat
         /\ req[r].id \in used \union {NoId}
         /\ req[r].id \in live => req[r].id \in Ids /\ req[r].id \in used
BY DEF TypeOK, RequestType

\* Setting the fields that Init sets keeps a request's record well formed.
LEMMA RequestUpdate ==
  ASSUME NEW I, NEW J, I \subseteq J, NEW q \in RequestType(I),
         NEW id \in J \union {NoId}, NEW b \in BOOLEAN
  PROVE  [q EXCEPT !.phase = "handling", !.id = id, !.set = b] \in RequestType(J)
BY DEF RequestType

\* More ids do no harm to the other records.
LEMMA RequestTypeGrows ==
  ASSUME NEW I, NEW J, I \subseteq J
  PROVE  RequestType(I) \subseteq RequestType(J)
BY DEF RequestType

\* Reading a stored session moves its key together with its expiry time.
LEMMA ResumeSound ==
  ASSUME Sound, NEW r \in Requests, Resume(r)
  PROVE  Sound'
<1> DEFINE id == req[r].id
<1> DEFINE new == NewExpiry(req[r].asked)
<1>1. /\ id \in live /\ id \in Ids /\ id \in used
      /\ req[r].asked \in Nat
      /\ expire[id] \in Nat /\ Key(expire[id]) \in Nat
  <2>1. id \in live
    BY DEF Resume, Valid
  <2>2. expire \in [Ids -> Nat] /\ id \in Ids
    BY <2>1, RequestFacts DEF Sound, TypeOK
  <2>3. QED BY <2>1, <2>2, RequestFacts DEF Sound, Key
<1>2. new \in Nat /\ new % Truncate = 0 /\ Key(new) \in Nat
  BY <1>1, NewExpiryBounds
<1>3. CASE Key(new) = Key(expire[id])
  <2>1. UNCHANGED <<now, live, used, cookie, job, expire, index>>
    BY <1>3 DEF Resume
  <2>2. req' = [req EXCEPT ![r] = [@ EXCEPT !.phase = "handling", !.set = FALSE]]
    BY <1>3 DEF Resume
  <2> HIDE DEF new, id
  <2>3. TypeOK'
    <3>1. req \in [Requests -> RequestType(used)]
      BY DEF Sound, TypeOK
    <3>2. [req[r] EXCEPT !.phase = "handling", !.set = FALSE] \in RequestType(used)
      BY <3>1 DEF RequestType
    <3>3. req' \in [Requests -> RequestType(used)]
      BY <2>2, <3>1, <3>2
    <3>4. QED BY <2>1, <3>3 DEF Sound, TypeOK
  <2>4. IndexMatchesStore'
    BY <2>1 DEF Sound, IndexMatchesStore, Key
  <2>5. QED BY <2>3, <2>4 DEF Sound
<1>4. CASE Key(new) # Key(expire[id])
  <2>1. /\ expire' = [expire EXCEPT ![id] = new]
        /\ index' = (index \ {<<Key(expire[id]), id>>}) \union {<<Key(new), id>>}
        /\ req' = [req EXCEPT ![r] = [@ EXCEPT !.phase = "handling", !.set = TRUE]]
        /\ UNCHANGED <<now, live, used, cookie, job>>
    BY <1>4 DEF Resume, Reindex
  <2> HIDE DEF new, id
  <2>2. TypeOK'
    <3>1. expire' \in [Ids -> Nat] /\ \A i \in live' : expire'[i] % Truncate = 0
      BY <1>1, <1>2, <2>1 DEF Sound, TypeOK
    <3>2. index' \subseteq (Nat \X Ids)
      BY <1>1, <1>2, <2>1 DEF Sound, TypeOK
    <3>3. req' \in [Requests -> RequestType(used')]
      <4>1. req \in [Requests -> RequestType(used)] /\ used' = used
        BY <2>1 DEF Sound, TypeOK
      <4>2. [req[r] EXCEPT !.phase = "handling", !.set = TRUE] \in RequestType(used)
        BY <4>1 DEF RequestType
      <4>3. QED BY <2>1, <4>1, <4>2
    <3>4. QED BY <2>1, <3>1, <3>2, <3>3 DEF Sound, TypeOK
  <2>3. IndexMatchesStore'
    BY <1>1, <1>2, <2>1 DEF Sound, TypeOK, IndexMatchesStore, Key
  <2>4. QED BY <2>2, <2>3 DEF Sound
<1>5. QED BY <1>3, <1>4

\* A new session is stored together with its key.
LEMMA StartSound ==
  ASSUME Sound, NEW r \in Requests, Start(r)
  PROVE  Sound'
<1> PICK id \in Ids \ used :
      /\ live' = live \union {id}
      /\ used' = used \union {id}
      /\ expire' = [expire EXCEPT ![id] = NewExpiry(req[r].asked)]
      /\ index' = index \union {<<Key(NewExpiry(req[r].asked)), id>>}
      /\ req' = [req EXCEPT ![r] = [@ EXCEPT !.phase = "handling",
                                      !.id = id, !.set = TRUE]]
  BY DEF Start
<1> DEFINE new == NewExpiry(req[r].asked)
<1>1. req[r].asked \in Nat
  BY RequestFacts DEF Sound
<1>2. new \in Nat /\ new % Truncate = 0 /\ Key(new) \in Nat
  BY <1>1, NewExpiryBounds
<1> HIDE DEF new
<1>3. /\ expire' = [expire EXCEPT ![id] = new]
      /\ index' = index \union {<<Key(new), id>>}
      /\ UNCHANGED <<now, cookie, job>>
  BY DEF new, Start
<1>4. id \notin live
  BY DEF Sound, TypeOK
<1>5. TypeOK'
  <2>1. live' \subseteq used' /\ used \subseteq used' /\ used' \subseteq Ids
    BY DEF Sound, TypeOK
  <2>2. expire' \in [Ids -> Nat] /\ \A i \in live' : expire'[i] % Truncate = 0
    BY <1>2, <1>3 DEF Sound, TypeOK
  <2>3. index' \subseteq (Nat \X Ids)
    BY <1>2, <1>3 DEF Sound, TypeOK
  <2>4. req' \in [Requests -> RequestType(used')]
    <3>1. [req[r] EXCEPT !.phase = "handling", !.id = id, !.set = TRUE] \in RequestType(used')
      BY <2>1, RequestFacts, RequestUpdate DEF Sound
    <3>2. req \in [Requests -> RequestType(used')]
      BY <2>1, RequestTypeGrows DEF Sound, TypeOK
    <3>3. QED BY <3>1, <3>2
  <2>5. cookie' \in [Clients -> used' \union {NoId}]
    BY <1>3, <2>1 DEF Sound, TypeOK
  <2>6. QED BY <1>3, <2>1, <2>2, <2>3, <2>4, <2>5 DEF Sound, TypeOK
<1>6. IndexMatchesStore'
  BY <1>2, <1>3, <1>4 DEF Sound, TypeOK, IndexMatchesStore
<1>7. QED BY <1>5, <1>6 DEF Sound

\* The ids a cleanup finds in the expire bucket are those of the stored
\* sessions whose keys are in its range.
LEMMA DueIds ==
  ASSUME Sound, NEW at \in Nat
  PROVE  LET gone == {id \in live : Key(expire[id]) <= Key(at)}
         IN /\ Due(at) = {<<Key(expire[id]), id>> : id \in gone}
            /\ {entry[2] : entry \in Due(at)} = gone
<1> DEFINE gone == {id \in live : Key(expire[id]) <= Key(at)}
<1> DEFINE entryOf(id) == <<Key(expire[id]), id>>
<1>1. Due(at) = {entryOf(id) : id \in gone}
  BY DEF Sound, IndexMatchesStore, Due
<1> HIDE DEF gone
<1>2. \A id \in gone : entryOf(id) \in Due(at) /\ entryOf(id)[2] = id
  BY <1>1
<1>3. \A entry \in Due(at) : entry[2] \in gone
  BY <1>1
<1>4. {entry[2] : entry \in Due(at)} = gone
  BY <1>2, <1>3
<1>5. QED BY <1>1, <1>4 DEF gone

\* A cleanup leaves the index of the sessions it leaves, and takes those whose
\* expiry time had passed.
LEMMA CleanupSound ==
  ASSUME Sound, CleanupCommit
  PROVE  Sound' /\ live' = {id \in live : expire[id] > job.at}
<1> DEFINE gone == {id \in live : Key(expire[id]) <= Key(job.at)}
<1>1. job.at \in Nat
  BY DEF Sound, TypeOK
<1>2. live' = live \ gone /\ expire' = expire
  BY <1>1, DueIds DEF CleanupCommit
<1>3. TypeOK'
  BY DEF Sound, TypeOK, CleanupCommit
<1>4. IndexMatchesStore'
  <2>1. Due(job.at) = {<<Key(expire[id]), id>> : id \in gone}
    BY <1>1, DueIds
  <2>2. index' = {<<Key(expire[id]), id>> : id \in live \ gone}
    BY <2>1 DEF Sound, IndexMatchesStore, CleanupCommit
  <2>3. QED BY <1>2, <2>2 DEF IndexMatchesStore, Key
<1>5. \A id \in live : Key(expire[id]) <= Key(job.at) <=> expire[id] <= job.at
  BY <1>1, KeyOrder DEF Sound, TypeOK
<1>6. \A id \in live : expire[id] \in Nat
  BY DEF Sound, TypeOK
<1>7. live' = {id \in live : expire[id] > job.at}
  BY <1>1, <1>2, <1>5, <1>6
<1>8. QED BY <1>3, <1>4, <1>7 DEF Sound

\* Every step keeps the types and the agreement of store and index.
LEMMA NextSound == Sound /\ [Next]_vars => Sound'
<1> SUFFICES ASSUME Sound, [Next]_vars PROVE Sound'
  OBVIOUS
<1>1. ASSUME UNCHANGED store PROVE IndexMatchesStore'
  BY <1>1 DEF Sound, IndexMatchesStore, store, Key
<1>2. CASE Tick
  BY <1>1, <1>2 DEF Sound, TypeOK, Tick, store
<1>3. ASSUME NEW c \in Clients, DropCookie(c) PROVE Sound'
  <2>1. TypeOK'
    BY <1>3 DEF Sound, TypeOK, DropCookie, store
  <2>2. QED BY <1>1, <1>3, <2>1 DEF Sound, DropCookie
<1>4. ASSUME NEW r \in Requests, Arrive(r) PROVE Sound'
  <2>1. cookie[ClientOf[r]] \in used \union {NoId} /\ now \in Nat
    BY DEF Sound, TypeOK
  <2>2. TypeOK'
    BY <1>4, <2>1 DEF Sound, TypeOK, RequestType, Arrive, Idle, store
  <2>3. QED BY <1>1, <1>4, <2>2 DEF Sound, Arrive
<1>5. ASSUME NEW r \in Requests, Resume(r) PROVE Sound'
  BY <1>5, ResumeSound
<1>6. ASSUME NEW r \in Requests, Start(r) PROVE Sound'
  BY <1>6, StartSound
<1>7. ASSUME NEW r \in Requests, Save(r) PROVE Sound'
  <2>1. TypeOK'
    BY <1>7 DEF Sound, TypeOK, RequestType, Save, store
  <2>2. QED BY <1>1, <1>7, <2>1 DEF Sound, Save
<1>8. ASSUME NEW r \in Requests, Respond(r) PROVE Sound'
  <2>1. req[r].id \in used \union {NoId}
    BY RequestFacts DEF Sound
  <2>2. TypeOK'
    BY <1>8, <2>1 DEF Sound, TypeOK, RequestType, Respond, Idle, store
  <2>3. QED BY <1>1, <1>8, <2>2 DEF Sound, Respond
<1>9. ASSUME NEW r \in Requests, Lose(r) PROVE Sound'
  <2>1. TypeOK'
    BY <1>9 DEF Sound, TypeOK, RequestType, Lose, Idle, store
  <2>2. QED BY <1>1, <1>9, <2>1 DEF Sound, Lose
<1>10. CASE CleanupStart
  BY <1>1, <1>10 DEF Sound, TypeOK, CleanupStart, store
<1>11. CASE CleanupCommit
  BY <1>11, CleanupSound
<1>12. CASE UNCHANGED vars
  BY <1>1, <1>12 DEF Sound, TypeOK, vars, store
<1>13. QED
  BY <1>2, <1>3, <1>4, <1>5, <1>6, <1>7, <1>8, <1>9, <1>10, <1>11, <1>12 DEF Next

\* Store and index agree in every reachable state.
LEMMA AlwaysSound == Spec => []Sound
BY InitSound, NextSound, PTL DEF Spec

\* Every reachable state of the store is well formed; in particular, expiry
\* times are kept truncated.
THEOREM TypeCorrect == Spec => []TypeOK
<1>1. Sound => TypeOK
  BY DEF Sound
<1>2. QED BY <1>1, AlwaysSound, PTL

\* After every transaction of Store.Init and of the cleanup job, the expire
\* bucket lists each stored session under its own expiry key and nothing else.
THEOREM IndexAlwaysMatches == Spec => []IndexMatchesStore
<1>1. Sound => IndexMatchesStore
  BY DEF Sound
<1>2. QED BY <1>1, AlwaysSound, PTL

\* A cleanup takes exactly the sessions that had expired when it read the
\* clock, although it only compares keys cut down to whole seconds.
THEOREM CleanupsAreExact == Spec => CleanupExact
<1>1. Sound /\ [Next]_vars =>
        [CleanupCommit => live' = {id \in live : expire[id] > job.at}]_vars
  BY CleanupSound
<1>2. QED BY <1>1, AlwaysSound, PTL DEF Spec, CleanupExact

-----------------------------------------------------------------------------
(* A session outlives the requests it serves, except very slow ones.       *)

\* How long the session of a request is certain to last.
Promise(q) == q.asked + Expire - Truncate - Lag

Timely ==
  /\ job.at <= now
  /\ \A r \in Requests :
       LET q == req[r]
       IN /\ q.phase # "handling" => q.saved = "no"
          /\ q.asked <= now
          /\ q.phase = "arrived" => now <= q.asked + Lag
          /\ q.phase = "handling" =>
               /\ q.id \in used
               /\ q.id \in live => expire[q.id] > Promise(q)
               /\ q.id \notin live \/ q.saved = "failed" => now > Promise(q)

\* updateExpire sets the new expiry time whether or not it writes: when the
\* keys are the same, so are the times.
LEMMA ResumeSetsExpiry ==
  ASSUME Sound, NEW r \in Requests, Resume(r)
  PROVE  expire' = [expire EXCEPT ![req[r].id] = NewExpiry(req[r].asked)]
<1> DEFINE id == req[r].id
<1> DEFINE new == NewExpiry(req[r].asked)
<1>1. id \in live /\ id \in Ids
  BY RequestFacts DEF Sound, Resume, Valid
<1>2. expire[id] \in Nat /\ expire[id] % Truncate = 0 /\ expire \in [Ids -> Nat]
  BY <1>1 DEF Sound, TypeOK
<1>3. new \in Nat /\ new % Truncate = 0
  BY RequestFacts, NewExpiryBounds DEF Sound
<1> HIDE DEF id, new
<1>4. Key(new) = Key(expire[id]) => new = expire[id]
  <2>1. /\ Key(new) <= Key(expire[id]) <=> new <= expire[id]
        /\ Key(expire[id]) <= Key(new) <=> expire[id] <= new
        /\ Key(new) \in Nat
    BY <1>2, <1>3, KeyOrder
  <2>2. QED BY <1>2, <1>3, <2>1
<1>5. expire' = IF Key(new) # Key(expire[id]) THEN [expire EXCEPT ![id] = new] ELSE expire
  BY DEF Resume, id, new
<1>6. expire' = [expire EXCEPT ![id] = new]
  BY <1>1, <1>2, <1>4, <1>5
<1>7. QED BY <1>6 DEF id, new

\* No request is under way at the start, so none is early or late.
LEMMA InitTimely == Init => Timely
BY DEF Init, Timely, Idle, Promise

\* Every step keeps a request in time ahead of the expiry of its session.
LEMMA TimelyStep == Sound /\ Timely /\ [Next]_vars => Timely'
<1> SUFFICES ASSUME Sound, Timely, [Next]_vars PROVE Timely'
  OBVIOUS
<1> DEFINE Good(q) ==
      /\ q.phase # "handling" => q.saved = "no"
      /\ q.asked <= now
      /\ q.phase = "arrived" => now <= q.asked + Lag
      /\ q.phase = "handling" =>
           /\ q.id \in used
           /\ q.id \in live => expire[q.id] > Promise(q)
           /\ q.id \notin live \/ q.saved = "failed" => now > Promise(q)
<1>1. now \in Nat /\ job.at \in Nat /\ job.at <= now
  BY DEF Sound, TypeOK, Timely
<1>2. \A r \in Requests :
        /\ Good(req[r])
        /\ req[r].asked \in Nat /\ Promise(req[r]) \in Int
        /\ req[r].id \in used \union {NoId}
        /\ req[r].id \in live => expire[req[r].id] \in Nat
  BY RequestFacts DEF Sound, TypeOK, Timely, Promise
<1>3. DOMAIN req = Requests
  BY DEF Sound, TypeOK
<1>4. ASSUME job'.at <= now', \A r \in Requests : Good(req[r])'
      PROVE  Timely'
  BY <1>4 DEF Timely
<1>5. CASE Tick
  <2>1. now' = now + 1 /\ UNCHANGED <<store, req, job>>
    BY <1>5 DEF Tick
  <2>2. ASSUME NEW r \in Requests PROVE Good(req[r])'
    BY <1>1, <1>2, <1>5, <2>1 DEF Tick, store, Promise
  <2>3. QED BY <1>1, <1>4, <2>1, <2>2
<1>6. ASSUME NEW c \in Clients, DropCookie(c) PROVE Timely'
  BY <1>6 DEF DropCookie, Timely, store, Promise
<1>7. ASSUME NEW r \in Requests, Arrive(r) PROVE Timely'
  <2>1. UNCHANGED <<now, store, job>>
    BY <1>7 DEF Arrive
  <2>2. /\ req'[r].phase = "arrived" /\ req'[r].saved = "no" /\ req'[r].asked = now
        /\ \A x \in Requests : x # r => req'[x] = req[x]
    BY <1>3, <1>7 DEF Arrive, Idle
  <2>3. ASSUME NEW x \in Requests PROVE Good(req[x])'
    BY <1>1, <1>2, <2>1, <2>2 DEF store, Promise
  <2>4. QED BY <1>1, <1>4, <2>1, <2>3
<1>8. ASSUME NEW r \in Requests, Resume(r) PROVE Timely'
  <2> DEFINE new == NewExpiry(req[r].asked)
  <2>1. UNCHANGED <<now, live, used, job>>
    BY <1>8 DEF Resume
  <2>2. /\ req[r].phase = "arrived" /\ req[r].id \in live /\ req[r].id \in used
        /\ req[r].id \in Ids
    BY <1>8, RequestFacts DEF Sound, Resume, Valid
  <2>3. /\ req'[r].phase = "handling" /\ req'[r].saved = req[r].saved
        /\ req'[r].asked = req[r].asked /\ req'[r].id = req[r].id
        /\ \A x \in Requests : x # r => req'[x] = req[x]
    BY <1>3, <1>8 DEF Resume
  <2>4. new \in Nat /\ new > req[r].asked + Expire - Truncate
    BY <1>2, NewExpiryBounds
  <2>5. expire' = [expire EXCEPT ![req[r].id] = new]
    BY <1>8, ResumeSetsExpiry
  <2>6. expire \in [Ids -> Nat] /\ live \subseteq Ids
    BY DEF Sound, TypeOK
  <2> HIDE DEF new
  <2>7. \A id \in live : expire'[id] = IF id = req[r].id THEN new ELSE expire[id]
    BY <2>5, <2>6
  <2>8. Good(req[r])'
    BY <1>1, <1>2, <2>1, <2>2, <2>3, <2>4, <2>7 DEF Promise
  <2>9. ASSUME NEW x \in Requests, x # r PROVE Good(req[x])'
    <3>1. now <= req[r].asked + Lag
      BY <1>2, <2>2
    <3>2. new > Promise(req[x])
      BY <1>1, <1>2, <2>4, <3>1 DEF Promise
    <3>3. req'[x] = req[x] /\ Promise(req'[x]) = Promise(req[x])
      BY <2>3, <2>9
    <3>4. QED BY <1>1, <1>2, <2>1, <2>7, <3>2, <3>3
  <2>10. QED BY <1>1, <1>4, <2>1, <2>8, <2>9
<1>9. ASSUME NEW r \in Requests, Start(r) PROVE Timely'
  <2> DEFINE new == NewExpiry(req[r].asked)
  <2>1. PICK id \in Ids \ used :
          /\ live' = live \union {id} /\ used' = used \union {id}
          /\ expire' = [expire EXCEPT ![id] = new]
          /\ req' = [req EXCEPT ![r] = [@ EXCEPT !.phase = "handling",
                                          !.id = id, !.set = TRUE]]
    BY <1>9 DEF Start
  <2>2. UNCHANGED <<now, job>> /\ req[r].phase = "arrived"
    BY <1>9 DEF Start
  <2>3. /\ req'[r].phase = "handling" /\ req'[r].saved = req[r].saved
        /\ req'[r].asked = req[r].asked /\ req'[r].id = id
        /\ \A x \in Requests : x # r => req'[x] = req[x]
    BY <1>2, <1>3, <2>1, RequestFacts DEF Sound, RequestType
  <2>4. new \in Nat /\ new > req[r].asked + Expire - Truncate
    BY <1>2, NewExpiryBounds
  <2>5. expire \in [Ids -> Nat] /\ live \subseteq Ids /\ live \subseteq used
    BY DEF Sound, TypeOK
  <2> HIDE DEF new
  <2>6. expire'[id] = new /\ \A i \in live : expire'[i] = expire[i]
    BY <2>1, <2>5
  <2>7. Good(req[r])'
    BY <1>1, <1>2, <2>1, <2>2, <2>3, <2>4, <2>6 DEF Promise
  <2>8. ASSUME NEW x \in Requests, x # r PROVE Good(req[x])'
    <3>1. req'[x] = req[x] /\ Promise(req'[x]) = Promise(req[x])
      BY <2>3, <2>8
    <3>2. req[x].phase = "handling" =>
            req[x].id # id /\ (req[x].id \in live' <=> req[x].id \in live)
      BY <1>2, <2>1
    <3>3. Good(req[x]) /\ now' = now /\ used \subseteq used'
      BY <1>2, <2>1, <2>2
    <3>4. req[x].phase = "handling" /\ req[x].id \in live =>
            expire'[req[x].id] = expire[req[x].id]
      BY <2>6
    <3>5. QED BY <3>1, <3>2, <3>3, <3>4
  <2>9. QED BY <1>1, <1>4, <2>2, <2>7, <2>8
<1>10. ASSUME NEW r \in Requests, Save(r) PROVE Timely'
  <2>1. UNCHANGED <<now, store, job>> /\ req[r].phase = "handling"
    BY <1>10 DEF Save
  <2>2. /\ req'[r].phase = req[r].phase /\ req'[r].asked = req[r].asked
        /\ req'[r].id = req[r].id
        /\ req'[r].saved = "failed" => req[r].id \notin live
        /\ \A x \in Requests : x # r => req'[x] = req[x]
    BY <1>3, <1>10 DEF Save
  <2>3. ASSUME NEW x \in Requests PROVE Good(req[x])'
    BY <1>1, <1>2, <2>1, <2>2 DEF store, Promise
  <2>4. QED BY <1>1, <1>4, <2>1, <2>3
<1>11. ASSUME NEW r \in Requests, Respond(r) \/ Lose(r) PROVE Timely'
  <2>1. UNCHANGED <<now, store, job>>
    BY <1>11 DEF Respond, Lose
  <2>2. /\ req'[r].phase = "idle" /\ req'[r].saved = "no" /\ req'[r].asked = 0
        /\ \A x \in Requests : x # r => req'[x] = req[x]
    BY <1>3, <1>11 DEF Respond, Lose, Idle
  <2>3. ASSUME NEW x \in Requests PROVE Good(req[x])'
    BY <1>1, <1>2, <2>1, <2>2 DEF store, Promise
  <2>4. QED BY <1>1, <1>4, <2>1, <2>3
<1>12. CASE CleanupStart
  <2>1. job'.at = now /\ UNCHANGED <<now, store, req>>
    BY <1>12 DEF CleanupStart
  <2>2. ASSUME NEW r \in Requests PROVE Good(req[r])'
    BY <1>2, <2>1 DEF store, Promise
  <2>3. QED BY <1>1, <1>4, <2>1, <2>2
<1>13. CASE CleanupCommit
  <2>1. live' = {id \in live : expire[id] > job.at}
    BY <1>13, CleanupSound
  <2>2. job'.at = 0 /\ UNCHANGED <<now, expire, used, req>>
    BY <1>13 DEF CleanupCommit
  <2>3. ASSUME NEW r \in Requests PROVE Good(req[r])'
    BY <1>1, <1>2, <2>1, <2>2 DEF Promise
  <2>4. QED BY <1>1, <1>4, <2>2, <2>3
<1>14. CASE UNCHANGED vars
  BY <1>14 DEF vars, store, Timely, Promise
<1>15. QED
  BY <1>5, <1>6, <1>7, <1>8, <1>9, <1>10, <1>11, <1>12, <1>13, <1>14 DEF Next

\* Session.Update fails only for a request that has been handled for longer
\* than its session is certain to live, whatever the requests of other tabs and
\* the cleanup job do in the meantime.
THEOREM OnlyLateSavesEverFail == Spec => []OnlyLateSavesFail
<1>1. Sound /\ Timely => OnlyLateSavesFail
  BY RequestFacts DEF Sound, TypeOK, RequestType, Timely, OnlyLateSavesFail, Promise
<1>2. QED BY <1>1, InitTimely, TimelyStep, AlwaysSound, PTL DEF Spec
=============================================================================
