--------------------------- MODULE AnswersProofs ----------------------------
(***************************************************************************)
(* Theorems about Answers, and below them about Pages, for every           *)
(* configuration.                                                          *)
(***************************************************************************)
EXTENDS Pages, SequenceTheorems, TLAPS

\* The records and sets a request is built from are well typed.
LEMMA IdleType ==
  ASSUME NEW reply \in Reply
  PROVE  Idle(reply) \in Request
<1> USE ConfigAssumption
<1>1. (CHOOSE p \in Puzzles : TRUE) \in Puzzles
  OBVIOUS
<1> QED BY <1>1 DEF Idle, Request, Phases, Zero

\* Removing one element: what remains, and where it went.
LEMMA RemoveAtProps ==
  ASSUME NEW S, NEW list \in Seq(S), NEW i \in 1 .. Len(list)
  PROVE  /\ RemoveAt(list, i) \in Seq(S)
         /\ Len(RemoveAt(list, i)) = Len(list) - 1
         /\ \A k \in 1 .. Len(list) - 1 :
              RemoveAt(list, i)[k] = IF k < i THEN list[k] ELSE list[k + 1]
<1> DEFINE before == SubSeq(list, 1, i - 1)
           after == SubSeq(list, i + 1, Len(list))
<1>1. Len(list) \in Nat /\ \A k \in 1 .. Len(list) : list[k] \in S
  BY LenProperties
<1>2. /\ before \in Seq(S) /\ Len(before) = i - 1
      /\ \A k \in 1 .. i - 1 : before[k] = list[k]
  BY <1>1, SubSeqProperties
<1>3. /\ after \in Seq(S) /\ Len(after) = Len(list) - i
      /\ \A k \in 1 .. Len(list) - i : after[k] = list[i + k]
  BY <1>1, SubSeqProperties
<1>4. RemoveAt(list, i) = before \o after
  BY DEF RemoveAt
<1> HIDE DEF before, after
<1>5. /\ before \o after \in Seq(S)
      /\ Len(before \o after) = Len(before) + Len(after)
      /\ \A k \in 1 .. Len(before) + Len(after) :
           (before \o after)[k] =
             IF k <= Len(before) THEN before[k] ELSE after[k - Len(before)]
  BY <1>2, <1>3, ConcatProperties
<1>6. Len(before \o after) = Len(list) - 1
  BY <1>1, <1>2, <1>3, <1>5
<1>7. ASSUME NEW k \in 1 .. Len(list) - 1
      PROVE  (before \o after)[k] = IF k < i THEN list[k] ELSE list[k + 1]
  <2>1. k \in 1 .. Len(before) + Len(after)
    BY <1>1, <1>2, <1>3
  <2>2. CASE k < i
    BY <1>2, <1>5, <2>1, <2>2
  <2>3. CASE ~(k < i)
    <3>1. k - (i - 1) \in 1 .. Len(list) - i /\ i + (k - (i - 1)) = k + 1
      BY <1>1, <2>3
    <3> QED BY <1>2, <1>3, <1>5, <2>1, <2>3, <3>1
  <2> QED BY <2>2, <2>3
<1> QED BY <1>4, <1>5, <1>6, <1>7

\* The newest elements of a list.
LEMMA NewestProps ==
  ASSUME NEW S, NEW list \in Seq(S), NEW n \in Nat \ {0}
  PROVE  /\ Newest(list, n) \in Seq(S)
         /\ Len(Newest(list, n)) = IF Len(list) > n THEN n ELSE Len(list)
         /\ \A k \in 1 .. Len(Newest(list, n)) :
              Newest(list, n)[k] = list[Len(list) - Len(Newest(list, n)) + k]
<1>1. Len(list) \in Nat /\ \A k \in 1 .. Len(list) : list[k] \in S
  BY LenProperties
<1>2. CASE Len(list) > n
  <2> DEFINE new == SubSeq(list, Len(list) - n + 1, Len(list))
  <2>1. /\ new \in Seq(S) /\ Len(new) = n
        /\ \A k \in 1 .. n : new[k] = list[Len(list) - n + k]
    BY <1>1, <1>2, SubSeqProperties
  <2> HIDE DEF new
  <2>2. Newest(list, n) = new
    BY <1>2 DEF Newest, new
  <2> QED BY <1>2, <2>1, <2>2
<1>3. CASE ~(Len(list) > n)
  BY <1>1, <1>3 DEF Newest
<1> QED BY <1>2, <1>3

\* Taking a value out of a list that holds it at most once.
LEMMA WithoutProps ==
  ASSUME NEW S, NEW list \in Seq(S), NEW a,
         \A i, j \in 1 .. Len(list) : list[i] = list[j] => i = j
  PROVE  LET rest == Without(list, a) IN
         /\ rest \in Seq(S) /\ Len(rest) <= Len(list)
         /\ \A k \in 1 .. Len(rest) :
              rest[k] # a /\ \E j \in 1 .. Len(list) : rest[k] = list[j]
         /\ \A k, l \in 1 .. Len(rest) : rest[k] = rest[l] => k = l
<1> DEFINE rest == Without(list, a)
<1>0. Len(list) \in Nat
  BY LenProperties
<1>1. CASE \E i \in 1 .. Len(list) : list[i] = a
  <2> DEFINE i == CHOOSE i \in 1 .. Len(list) : list[i] = a
  <2>1. i \in 1 .. Len(list) /\ list[i] = a
    BY <1>1
  <2> HIDE DEF i
  <2>2. rest = RemoveAt(list, i)
    BY <1>1 DEF Without, i
  <2> HIDE DEF rest
  <2>3. /\ rest \in Seq(S) /\ Len(rest) = Len(list) - 1
        /\ \A k \in 1 .. Len(list) - 1 :
             rest[k] = IF k < i THEN list[k] ELSE list[k + 1]
    BY <2>1, <2>2, RemoveAtProps
  <2>4. ASSUME NEW k \in 1 .. Len(rest)
        PROVE  rest[k] # a /\ \E j \in 1 .. Len(list) : rest[k] = list[j]
    <3>1. CASE k < i
      BY <1>0, <2>1, <2>3, <3>1
    <3>2. CASE ~(k < i)
      <4>1. k + 1 \in 1 .. Len(list) /\ rest[k] = list[k + 1] /\ k + 1 # i
        BY <1>0, <2>1, <2>3, <3>2
      <4> QED BY <2>1, <4>1
    <3> QED BY <3>1, <3>2
  <2>5. ASSUME NEW k \in 1 .. Len(rest), NEW l \in 1 .. Len(rest), rest[k] = rest[l]
        PROVE  k = l
    BY <1>0, <2>1, <2>3, <2>5
  <2>6. Len(rest) <= Len(list)
    BY <1>0, <2>3
  <2> QED BY <2>3, <2>4, <2>5, <2>6 DEF rest
<1>2. CASE ~ \E i \in 1 .. Len(list) : list[i] = a
  BY <1>0, <1>2 DEF Without
<1> QED BY <1>1, <1>2

\* What the kept list looks like after one more wrong answer.
LEMMA KeepProps ==
  ASSUME NEW list \in Seq(Texts), NEW a \in Texts,
         \A i, j \in 1 .. Len(list) : list[i] = list[j] => i = j
  PROVE  LET kept == Keep(list, a) IN
         /\ kept \in Seq(Texts) /\ kept # <<>> /\ Len(kept) <= MaxIncorrectKept
         /\ \A k \in 1 .. Len(kept) :
              kept[k] = a \/ \E j \in 1 .. Len(list) : kept[k] = list[j]
         /\ \A k, l \in 1 .. Len(kept) : kept[k] = kept[l] => k = l
<1> DEFINE rest == Without(list, a)
           all == Append(rest, a)
           kept == Keep(list, a)
<1>1. /\ rest \in Seq(Texts) /\ Len(rest) \in Nat
      /\ \A k \in 1 .. Len(rest) :
           rest[k] # a /\ \E j \in 1 .. Len(list) : rest[k] = list[j]
      /\ \A k, l \in 1 .. Len(rest) : rest[k] = rest[l] => k = l
  BY WithoutProps, LenProperties
<1> HIDE DEF rest
<1>2. /\ all \in Seq(Texts) /\ Len(all) = Len(rest) + 1
      /\ \A k \in 1 .. Len(rest) : all[k] = rest[k]
      /\ all[Len(rest) + 1] = a
  BY <1>1, AppendProperties
<1>3. kept = Newest(all, MaxIncorrectKept)
  BY DEF Keep, rest
<1> HIDE DEF all, kept
<1>4. /\ kept \in Seq(Texts)
      /\ Len(kept) = IF Len(all) > MaxIncorrectKept THEN MaxIncorrectKept ELSE Len(all)
      /\ \A k \in 1 .. Len(kept) : kept[k] = all[Len(all) - Len(kept) + k]
  <2>1. MaxIncorrectKept \in Nat \ {0}
    BY ConfigAssumption
  <2>2. /\ Newest(all, MaxIncorrectKept) \in Seq(Texts)
        /\ Len(Newest(all, MaxIncorrectKept)) =
             IF Len(all) > MaxIncorrectKept THEN MaxIncorrectKept ELSE Len(all)
        /\ \A k \in 1 .. Len(Newest(all, MaxIncorrectKept)) :
             Newest(all, MaxIncorrectKept)[k] =
               all[Len(all) - Len(Newest(all, MaxIncorrectKept)) + k]
    BY <1>2, <2>1, NewestProps
  <2> QED BY <1>3, <2>2
<1>5. /\ Len(kept) \in 1 .. Len(all) /\ Len(kept) <= MaxIncorrectKept
  BY <1>1, <1>2, <1>4, ConfigAssumption
<1>6. kept # <<>>
  BY <1>4, <1>5, LenProperties
<1>7. ASSUME NEW k \in 1 .. Len(all)
      PROVE  all[k] = a \/ \E j \in 1 .. Len(list) : all[k] = list[j]
  <2>1. k \in 1 .. Len(rest) \/ k = Len(rest) + 1
    BY <1>1, <1>2
  <2> QED BY <1>1, <1>2, <2>1
<1>8. ASSUME NEW k \in 1 .. Len(all), NEW l \in 1 .. Len(all), all[k] = all[l]
      PROVE  k = l
  BY <1>1, <1>2, <1>8
<1>9. \A k \in 1 .. Len(kept) : Len(all) - Len(kept) + k \in 1 .. Len(all)
  BY <1>1, <1>2, <1>5
<1>10. \A k \in 1 .. Len(kept) :
         kept[k] = a \/ \E j \in 1 .. Len(list) : kept[k] = list[j]
  BY <1>4, <1>7, <1>9
<1>11. ASSUME NEW k \in 1 .. Len(kept), NEW l \in 1 .. Len(kept), kept[k] = kept[l]
       PROVE  k = l
  BY <1>1, <1>2, <1>4, <1>5, <1>8, <1>9, <1>11
<1> QED BY <1>4, <1>5, <1>6, <1>10, <1>11 DEF kept

\* The kept list is a list of answers, whatever it was before.
LEMMA KeepRest ==
  ASSUME NEW list \in Seq(Texts), NEW a \in Texts
  PROVE  Without(list, a) \in Seq(Texts)
<1>1. CASE \E i \in 1 .. Len(list) : list[i] = a
  BY <1>1, RemoveAtProps DEF Without
<1>2. CASE ~ \E i \in 1 .. Len(list) : list[i] = a
  BY <1>2 DEF Without
<1> QED BY <1>1, <1>2

\* The kept list of any stored progress stays a list of answers when one is added.
LEMMA KeepType ==
  ASSUME NEW list \in Seq(Texts), NEW a \in Texts
  PROVE  Keep(list, a) \in Seq(Texts)
<1> DEFINE rest == Without(list, a)
<1>1. rest \in Seq(Texts)
  BY KeepRest
<1> HIDE DEF rest
<1>2. Append(rest, a) \in Seq(Texts)
  BY <1>1
<1> QED BY <1>2, NewestProps, ConfigAssumption DEF Keep, rest

\* The answer just given is always kept.
LEMMA KeepNonempty ==
  ASSUME NEW list \in Seq(Texts), NEW a \in Texts
  PROVE  Keep(list, a) # <<>>
<1> DEFINE rest == Without(list, a)
<1>1. rest \in Seq(Texts)
  BY KeepRest
<1> HIDE DEF rest
<1>2. Append(rest, a) \in Seq(Texts) /\ Len(Append(rest, a)) = Len(rest) + 1 /\ Len(rest) \in Nat
  BY <1>1, AppendProperties, LenProperties
<1>3. MaxIncorrectKept \in Nat \ {0}
  BY ConfigAssumption
<1> DEFINE kept == Newest(Append(rest, a), MaxIncorrectKept)
<1>4. /\ kept \in Seq(Texts)
      /\ Len(kept) = IF Len(Append(rest, a)) > MaxIncorrectKept
                     THEN MaxIncorrectKept ELSE Len(Append(rest, a))
  BY <1>2, <1>3, NewestProps
<1> HIDE DEF kept
<1>5. kept # <<>>
  BY <1>2, <1>3, <1>4
<1> QED BY <1>5 DEF Keep, rest, kept

\* Table g is table f with another entry at a and b.
ChangedAt(f, g, A, B, S, a, b, x) ==
  /\ g \in [A -> [B -> S]]
  /\ g[a][b] = x
  /\ \A c \in A, d \in B : c # a \/ d # b => g[c][d] = f[c][d]

\* Changing one entry of a table of tables leaves all the others alone.
LEMMA ChangeEntry ==
  ASSUME NEW A, NEW B, NEW S, NEW f \in [A -> [B -> S]], NEW a \in A, NEW b \in B, NEW x \in S
  PROVE  ChangedAt(f, [f EXCEPT ![a][b] = x], A, B, S, a, b, x)
BY DEF ChangedAt

\* What a wrong answer leaves in the database, entry by entry.
WrongWritten(t, text) ==
  LET u == TabUser[t]
      p == req[t].puzzle
      e == EventOf[p]
  IN /\ solves' = solves
     /\ ChangedAt(stored, stored', Users, Events, BOOLEAN, u, e, TRUE)
     /\ ChangedAt(incorrect, incorrect', Users, Events, Nat, u, e, incorrect[u][e] + 1)
     /\ ChangedAt(timeout, timeout', Users, Events, Nat, u, e, req[t].asked + Cooldown)
     /\ ChangedAt(wrong, wrong', Users, Puzzles, Seq(Texts), u, p, Keep(wrong[u][p], Normal[text]))
     /\ ChangedAt(rowBegan, rowBegan', Users, Events, Nat, u, e,
                  IF incorrect[u][e] = 0 THEN req[t].asked ELSE rowBegan[u][e])

\* A wrong answer leaves exactly that.
LEMMA WrongEffect ==
  ASSUME TypeOK, NEW t \in Tabs, NEW part \in Int, NEW text \in Texts, WrongAnswer(t, part, text)
  PROVE  WrongWritten(t, text)
<1> DEFINE u == TabUser[t]
           p == req[t].puzzle
           e == EventOf[p]
<1>1. u \in Users /\ p \in Puzzles /\ e \in Events /\ req[t].asked + Cooldown \in Nat
  BY ConfigAssumption, LoadedAssumption DEF TypeOK, Request
<1>2. /\ stored \in [Users -> [Events -> BOOLEAN]] /\ incorrect \in [Users -> [Events -> Nat]]
      /\ timeout \in [Users -> [Events -> Nat]] /\ wrong \in [Users -> [Puzzles -> Seq(Texts)]]
      /\ Normal[text] \in Texts /\ rowBegan \in [Users -> [Events -> Nat]]
  BY ConfigAssumption, LoadedAssumption DEF TypeOK
<1>3. incorrect[u][e] \in Nat /\ wrong[u][p] \in Seq(Texts) /\ rowBegan[u][e] \in Nat
  BY <1>1, <1>2
<1>4. incorrect[u][e] + 1 \in Nat
  BY <1>3
<1>5. Keep(wrong[u][p], Normal[text]) \in Seq(Texts)
  BY <1>2, <1>3, KeepType
<1>6. /\ stored' = [stored EXCEPT ![u][e] = TRUE]
      /\ incorrect' = [incorrect EXCEPT ![u][e] = incorrect[u][e] + 1]
      /\ timeout' = [timeout EXCEPT ![u][e] = req[t].asked + Cooldown]
      /\ wrong' = [wrong EXCEPT ![u][p] = Keep(wrong[u][p], Normal[text])]
      /\ solves' = solves
  BY DEF WrongAnswer
<1>7. ChangedAt(stored, stored', Users, Events, BOOLEAN, u, e, TRUE)
  BY <1>1, <1>2, <1>6 DEF ChangedAt
<1>8. ChangedAt(incorrect, incorrect', Users, Events, Nat, u, e, incorrect[u][e] + 1)
  BY <1>1, <1>2, <1>4, <1>6, ChangeEntry
<1>9. ChangedAt(timeout, timeout', Users, Events, Nat, u, e, req[t].asked + Cooldown)
  BY <1>1, <1>2, <1>6, ChangeEntry
<1>10. ChangedAt(wrong, wrong', Users, Puzzles, Seq(Texts), u, p, Keep(wrong[u][p], Normal[text]))
  BY <1>1, <1>2, <1>5, <1>6, ChangeEntry
<1> DEFINE began == IF incorrect[u][e] = 0 THEN req[t].asked ELSE rowBegan[u][e]
<1>11. ChangedAt(rowBegan, rowBegan', Users, Events, Nat, u, e, began)
  <2>1. began \in Nat
    BY <1>3 DEF TypeOK, Request
  <2>2. rowBegan' = [rowBegan EXCEPT ![u][e] = began]
    BY DEF WrongAnswer
  <2> HIDE DEF began
  <2>3. QED BY <1>1, <1>2, <2>1, <2>2, ChangeEntry
<1>12. QED BY <1>6, <1>7, <1>8, <1>9, <1>10, <1>11 DEF WrongWritten

\* What a right answer leaves in the database, entry by entry.
RightWritten(t) ==
  LET u == TabUser[t]
      p == req[t].puzzle
      e == EventOf[p]
  IN /\ ChangedAt(stored, stored', Users, Events, BOOLEAN, u, e, TRUE)
     /\ ChangedAt(incorrect, incorrect', Users, Events, Nat, u, e, 0)
     /\ ChangedAt(timeout, timeout', Users, Events, Nat, u, e, Zero)
     /\ ChangedAt(wrong, wrong', Users, Puzzles, Seq(Texts), u, p, <<>>)
     /\ ChangedAt(rowBegan, rowBegan', Users, Events, Nat, u, e, Zero)
     /\ ChangedAt(solves, solves', Users, Puzzles, Seq(Nat), u, p, Append(solves[u][p], req[t].asked))

\* A right answer leaves exactly that.
LEMMA RightEffect ==
  ASSUME TypeOK, NEW t \in Tabs, NEW part \in Int, NEW text \in Texts, RightAnswer(t, part, text)
  PROVE  RightWritten(t)
<1> DEFINE u == TabUser[t]
           p == req[t].puzzle
           e == EventOf[p]
<1>1. u \in Users /\ p \in Puzzles /\ e \in Events /\ req[t].asked \in Nat
  BY ConfigAssumption, LoadedAssumption DEF TypeOK, Request
<1>2. /\ stored \in [Users -> [Events -> BOOLEAN]] /\ incorrect \in [Users -> [Events -> Nat]]
      /\ timeout \in [Users -> [Events -> Nat]] /\ wrong \in [Users -> [Puzzles -> Seq(Texts)]]
      /\ solves \in [Users -> [Puzzles -> Seq(Nat)]] /\ rowBegan \in [Users -> [Events -> Nat]]
  BY DEF TypeOK
<1>3. solves[u][p] \in Seq(Nat)
  BY <1>1, <1>2
<1>4. Append(solves[u][p], req[t].asked) \in Seq(Nat) /\ <<>> \in Seq(Texts) /\ Zero \in Nat
  BY <1>1, <1>3 DEF Zero
<1>5. /\ stored' = [stored EXCEPT ![u][e] = TRUE]
      /\ incorrect' = [incorrect EXCEPT ![u][e] = 0]
      /\ timeout' = [timeout EXCEPT ![u][e] = Zero]
      /\ solves' = [solves EXCEPT ![u][p] = Append(solves[u][p], req[t].asked)]
      /\ wrong' = [wrong EXCEPT ![u][p] = <<>>]
      /\ rowBegan' = [rowBegan EXCEPT ![u][e] = Zero]
  BY DEF RightAnswer
<1>6. ChangedAt(stored, stored', Users, Events, BOOLEAN, u, e, TRUE)
  BY <1>1, <1>2, <1>5 DEF ChangedAt
<1>7. ChangedAt(incorrect, incorrect', Users, Events, Nat, u, e, 0)
  BY <1>1, <1>2, <1>5, ChangeEntry
<1>8. ChangedAt(timeout, timeout', Users, Events, Nat, u, e, Zero)
  BY <1>1, <1>2, <1>4, <1>5, ChangeEntry
<1>9. ChangedAt(wrong, wrong', Users, Puzzles, Seq(Texts), u, p, <<>>)
  BY <1>1, <1>2, <1>4, <1>5, ChangeEntry
<1>10. ChangedAt(solves, solves', Users, Puzzles, Seq(Nat), u, p, Append(solves[u][p], req[t].asked))
  BY <1>1, <1>2, <1>4, <1>5, ChangeEntry
<1>11. ChangedAt(rowBegan, rowBegan', Users, Events, Nat, u, e, Zero)
  BY <1>1, <1>2, <1>4, <1>5, ChangeEntry
<1>12. QED BY <1>6, <1>7, <1>8, <1>9, <1>10, <1>11 DEF RightWritten

\* Every variable keeps its type: the first of the invariants.
LEMMA TypeStep ==
  ASSUME TypeOK, Next
  PROVE  TypeOK'
<1> USE ConfigAssumption, LoadedAssumption DEF TypeOK, progress, Zero
<1>1. CASE Tick
  BY <1>1 DEF Tick
<1>2. ASSUME NEW u \in Users, DeleteProgress(u)
      PROVE  TypeOK'
  BY <1>2 DEF DeleteProgress
<1>3. ASSUME NEW u \in Users, NEW b \in BOOLEAN, SetTester(u, b)
      PROVE  TypeOK'
  BY <1>3 DEF SetTester
<1>4. ASSUME NEW t \in Tabs, NEW p \in Puzzles, Arrive(t, p)
      PROVE  TypeOK'
  <2>1. Idle(NoReply) \in Request
    BY IdleType DEF NoReply, Reply, ReplyKinds
  <2>2. [Idle(NoReply) EXCEPT !.phase = "arrived", !.puzzle = p, !.asked = now] \in Request
    BY <2>1 DEF Request, Phases
  <2> QED BY <1>4, <2>2 DEF Arrive
<1>5. ASSUME NEW t \in Tabs, Authenticate(t)
      PROVE  TypeOK'
  <2> DEFINE r == [req[t] EXCEPT !.phase = "authenticated", !.tester = tester[TabUser[t]]]
  <2>1. req[t] \in Request /\ tester[TabUser[t]] \in BOOLEAN
    OBVIOUS
  <2>2. r \in Request
    BY <2>1 DEF Request, Phases
  <2>3. req' = [req EXCEPT ![t] = r]
    BY <1>5 DEF Authenticate
  <2>4. req' \in [Tabs -> Request]
    BY <2>2, <2>3
  <2> QED BY <1>5, <2>4 DEF Authenticate
<1>6. ASSUME NEW t \in Tabs, LoadProgress(t)
      PROVE  TypeOK'
  <2>1. stored[TabUser[t]][EventOf[req[t].puzzle]] \in BOOLEAN
    BY DEF Request
  <2> DEFINE r == [req[t] EXCEPT !.phase = "loaded",
                     !.known = stored[TabUser[t]][EventOf[req[t].puzzle]]]
  <2>2. req[t] \in Request
    OBVIOUS
  <2>3. r \in Request
    BY <2>1, <2>2 DEF Request, Phases
  <2>4. req' = [req EXCEPT ![t] = r]
    BY <1>6 DEF LoadProgress
  <2>5. req' \in [Tabs -> Request]
    BY <2>3, <2>4
  <2> QED BY <1>6, <2>5 DEF LoadProgress
<1>7. ASSUME NEW t \in Tabs, Handle(t) \/ Browse(t)
      PROVE  TypeOK'
  <2>1. ASSUME NEW kind \in ReplyKinds, NEW f \in BOOLEAN, Respond(t, kind, f)
        PROVE  req' \in [Tabs -> Request]
    <3>1. Idle([kind |-> kind, finished |-> f]) \in Request
      BY IdleType DEF Reply
    <3> QED BY <2>1, <3>1 DEF Respond
  <2>2. TabUser[t] \in Users /\ req[t] \in Request /\ req[t].puzzle \in Puzzles
        /\ req[t].asked \in Nat /\ EventOf[req[t].puzzle] \in Events
        /\ PartCount[req[t].puzzle] \in Nat
    BY DEF Request
  <2>3. ASSUME NEW part \in Int, RefusePart(t, part)
        PROVE  TypeOK'
    BY <2>1, <2>3 DEF RefusePart, ReplyKinds
  <2>4. ASSUME NEW part \in Int, AlreadySolved(t, part)
        PROVE  TypeOK'
    BY <2>1, <2>2, <2>4 DEF AlreadySolved, ReplyKinds
  <2>5. ASSUME NEW part \in Int, PartTooFar(t, part)
        PROVE  TypeOK'
    BY <2>1, <2>5 DEF PartTooFar, ReplyKinds
  <2>6. ASSUME NEW part \in Int, NEW text \in Texts, EmptyAnswer(t, part, text)
        PROVE  TypeOK'
    BY <2>1, <2>6 DEF EmptyAnswer, ReplyKinds
  <2>7. ASSUME NEW part \in Int, NEW text \in Texts, TimeoutAnswer(t, part, text)
        PROVE  TypeOK'
    BY <2>1, <2>7 DEF TimeoutAnswer, ReplyKinds
  <2>8. ASSUME NEW part \in Int, NEW text \in Texts, WrongAnswer(t, part, text)
        PROVE  TypeOK'
    <3>1. req' \in [Tabs -> Request]
      BY <2>1, <2>8 DEF WrongAnswer, ReplyKinds
    <3>2. /\ stored' \in [Users -> [Events -> BOOLEAN]]
          /\ incorrect' \in [Users -> [Events -> Nat]]
          /\ timeout' \in [Users -> [Events -> Nat]]
          /\ wrong' \in [Users -> [Puzzles -> Seq(Texts)]]
          /\ rowBegan' \in [Users -> [Events -> Nat]]
      BY <2>8, WrongEffect DEF WrongWritten, ChangedAt
    <3>3. UNCHANGED <<now, tester, solves, wasTester>>
      BY <2>8 DEF WrongAnswer
    <3> QED BY <3>1, <3>2, <3>3
  <2>9. ASSUME NEW part \in Int, NEW text \in Texts, RightAnswer(t, part, text)
        PROVE  TypeOK'
    <3>1. req' \in [Tabs -> Request]
      BY <2>1, <2>9 DEF RightAnswer, ReplyKinds
    <3>2. /\ stored' \in [Users -> [Events -> BOOLEAN]]
          /\ incorrect' \in [Users -> [Events -> Nat]]
          /\ timeout' \in [Users -> [Events -> Nat]]
          /\ solves' \in [Users -> [Puzzles -> Seq(Nat)]]
          /\ wrong' \in [Users -> [Puzzles -> Seq(Texts)]]
          /\ rowBegan' \in [Users -> [Events -> Nat]]
      BY <2>9, RightEffect DEF RightWritten, ChangedAt
    <3>3. UNCHANGED <<now, tester, wasTester>>
      BY <2>9 DEF RightAnswer
    <3> QED BY <3>1, <3>2, <3>3
  <2>10. CASE RefuseLocked(t)
    BY <2>1, <2>10 DEF RefuseLocked, ReplyKinds
  <2>11. CASE RefuseForm(t)
    BY <2>1, <2>11 DEF RefuseForm, ReplyKinds
  <2>12. PostedParts(req[t].puzzle) \subseteq Int
    BY <2>2 DEF PostedParts
  <2>13. CASE Browse(t)
    BY <2>1, <2>13 DEF Browse, ReplyKinds
  <2> QED
    BY <1>7, <2>3, <2>4, <2>5, <2>6, <2>7, <2>8, <2>9, <2>10, <2>11, <2>12, <2>13
       DEF Handle, Submit
<1> QED
  BY <1>1, <1>2, <1>3, <1>4, <1>5, <1>6, <1>7 DEF Next

\* The variables are well typed in every reachable state.
THEOREM TypeCorrect == Spec => []TypeOK
<1>1. Init => TypeOK
  <2> SUFFICES ASSUME Init
               PROVE  TypeOK
    OBVIOUS
  <2>1. Idle(NoReply) \in Request
    BY IdleType DEF NoReply, Reply, ReplyKinds
  <2> QED BY <2>1 DEF Init, TypeOK, Zero
<1>2. TypeOK /\ [Next]_vars => TypeOK'
  <2>1. TypeOK /\ UNCHANGED vars => TypeOK'
    BY DEF TypeOK, vars, progress
  <2> QED BY <2>1, TypeStep
<1> QED BY <1>1, <1>2, PTL DEF Spec

-----------------------------------------------------------------------------
(* Stored progress only ever changes in three ways.                        *)

\* Stored progress only changes in a reset and when an answer is judged.
LEMMA ProgressStep ==
  ASSUME TypeOK, Next
  PROVE  \/ UNCHANGED progress
         \/ \E u \in Users : DeleteProgress(u)
         \/ \E t \in Tabs, part \in Int, text \in Texts :
              WrongAnswer(t, part, text) \/ RightAnswer(t, part, text)
<1>1. CASE Tick
  BY <1>1 DEF Tick
<1>2. ASSUME NEW u \in Users, NEW b \in BOOLEAN, SetTester(u, b)
      PROVE  UNCHANGED progress
  BY <1>2 DEF SetTester
<1>3. ASSUME NEW t \in Tabs, NEW p \in Puzzles, Arrive(t, p)
      PROVE  UNCHANGED progress
  BY <1>3 DEF Arrive
<1>4. ASSUME NEW t \in Tabs, Authenticate(t) \/ LoadProgress(t) \/ Browse(t)
      PROVE  UNCHANGED progress
  BY <1>4 DEF Authenticate, LoadProgress, Browse
<1>5. ASSUME NEW t \in Tabs, Handle(t)
      PROVE  \/ UNCHANGED progress
             \/ \E part \in Int, text \in Texts :
                  WrongAnswer(t, part, text) \/ RightAnswer(t, part, text)
  <2>1. PostedParts(req[t].puzzle) \subseteq Int
    BY LoadedAssumption DEF TypeOK, Request, PostedParts
  <2>2. CASE RefuseLocked(t) \/ RefuseForm(t)
    BY <2>2 DEF RefuseLocked, RefuseForm
  <2>3. ASSUME NEW part \in Int,
               RefusePart(t, part) \/ AlreadySolved(t, part) \/ PartTooFar(t, part)
        PROVE  UNCHANGED progress
    BY <2>3 DEF RefusePart, AlreadySolved, PartTooFar
  <2>4. ASSUME NEW part \in Int, NEW text \in Texts,
               EmptyAnswer(t, part, text) \/ TimeoutAnswer(t, part, text)
        PROVE  UNCHANGED progress
    BY <2>4 DEF EmptyAnswer, TimeoutAnswer
  <2> QED BY <1>5, <2>1, <2>2, <2>3, <2>4 DEF Handle, Submit
<1> QED BY <1>1, <1>2, <1>3, <1>4, <1>5 DEF Next

\* What the two judging alternatives know about the request they answer.
LEMMA JudgedFacts ==
  ASSUME TypeOK, RequestsHonest, NEW t \in Tabs, NEW part \in Int, NEW text \in Texts,
         Judged(t, part, text)
  PROVE  LET u == TabUser[t]
             p == req[t].puzzle
             e == EventOf[p]
         IN /\ u \in Users /\ p \in Puzzles /\ e \in Events
            /\ part = Len(solves[u][p]) /\ part \in Nat /\ part < PartCount[p]
            /\ req[t].asked \in Nat /\ req[t].asked > 0 /\ req[t].asked <= now
            /\ timeout[u][e] <= req[t].asked
            /\ Normal[text] \in Texts /\ Normal[text] # Blank
            /\ Unlock[p] <= req[t].asked \/ u \in wasTester
<1> USE ConfigAssumption, LoadedAssumption DEF TypeOK, Request
<1>1. /\ TabUser[t] \in Users /\ req[t].puzzle \in Puzzles
      /\ EventOf[req[t].puzzle] \in Events /\ req[t].asked \in Nat /\ now \in Nat
      /\ Unlock[req[t].puzzle] \in Nat /\ PartCount[req[t].puzzle] \in Nat
  OBVIOUS
<1>2. timeout[TabUser[t]][EventOf[req[t].puzzle]] \in Nat
  BY <1>1
<1>3. req[t].phase = "loaded" /\ ~Locked(req[t].puzzle, req[t].asked, req[t].tester)
  BY DEF Judged, OnCurrentPart, Admitted
<1>4. part = Len(solves[TabUser[t]][req[t].puzzle]) /\ part \in 0 .. PartCount[req[t].puzzle] - 1
  BY DEF Judged, OnCurrentPart, PartAccepted
<1>5. Normal[text] \in Texts /\ Normal[text] # Blank
  BY DEF Judged
<1>6. timeout[TabUser[t]][EventOf[req[t].puzzle]] <= req[t].asked
  BY <1>1, <1>2 DEF Judged, OnCooldown
<1>7. req[t].asked > 0 /\ req[t].asked <= now
  BY <1>3 DEF RequestsHonest, Zero
<1>8. Unlock[req[t].puzzle] <= req[t].asked \/ TabUser[t] \in wasTester
  BY <1>1, <1>3 DEF RequestsHonest, Locked
<1> QED BY <1>1, <1>4, <1>5, <1>6, <1>7, <1>8

\* The clock does not run backwards and nobody stops having been a tester.
LEMMA HistoryStep ==
  ASSUME TypeOK, Next
  PROVE  now \in Nat /\ now' \in Nat /\ now <= now' /\ wasTester \subseteq wasTester'
<1>1. now \in Nat
  BY DEF TypeOK
<1>2. CASE Tick
  BY <1>1, <1>2 DEF Tick
<1>3. ASSUME NEW u \in Users, DeleteProgress(u)
      PROVE  now' = now /\ wasTester' = wasTester
  BY <1>3 DEF DeleteProgress
<1>4. ASSUME NEW u \in Users, NEW b \in BOOLEAN, SetTester(u, b)
      PROVE  now' = now /\ wasTester \subseteq wasTester'
  BY <1>4 DEF SetTester
<1>5. ASSUME NEW t \in Tabs,
             \/ \E p \in Puzzles : Arrive(t, p)
             \/ Authenticate(t) \/ LoadProgress(t) \/ Handle(t) \/ Browse(t)
      PROVE  now' = now /\ wasTester' = wasTester
  BY <1>5 DEF Browse, Arrive, Authenticate, LoadProgress, Handle, RefuseLocked, RefuseForm,
              RefusePart, AlreadySolved, PartTooFar, Submit, EmptyAnswer,
              TimeoutAnswer, WrongAnswer, RightAnswer
<1> QED BY <1>1, <1>2, <1>3, <1>4, <1>5 DEF Next

\* What a request carries was true of the clock and the user when it was read.
LEMMA RequestsStep ==
  ASSUME TypeOK, RequestsHonest, Next
  PROVE  RequestsHonest'
<1> USE ConfigAssumption DEF TypeOK, RequestsHonest
<1> DEFINE Honest(r, t) == /\ r.asked <= now'
                           /\ r.phase # "idle" => r.asked > Zero
                           /\ r.tester => TabUser[t] \in wasTester'
<1>0. now \in Nat \ {0} /\ now' \in Nat /\ now <= now' /\ wasTester \subseteq wasTester'
  BY HistoryStep
<1>1. \A t \in Tabs : Honest(req[t], t)
  BY <1>0 DEF Request
<1>2. ASSUME NEW reply, NEW t \in Tabs
      PROVE  Honest(Idle(reply), t)
  BY <1>0 DEF Idle, Zero
<1>3. CASE UNCHANGED <<req, tester>>
  BY <1>0, <1>1, <1>3
<1>4. ASSUME NEW u \in Users, NEW b \in BOOLEAN, SetTester(u, b)
      PROVE  RequestsHonest'
  <2>1. \A v \in Users : tester'[v] => v \in wasTester'
    BY <1>0, <1>4 DEF SetTester
  <2> QED BY <1>1, <1>4, <2>1 DEF SetTester
<1>5. ASSUME NEW t \in Tabs, tester' = tester, NEW r, r.phase # "idle" => r.asked > Zero,
             r.asked <= now', r.tester => TabUser[t] \in wasTester',
             req' = [req EXCEPT ![t] = r]
      PROVE  RequestsHonest'
  BY <1>0, <1>1, <1>5
<1>6. ASSUME NEW t \in Tabs, NEW p \in Puzzles, Arrive(t, p)
      PROVE  RequestsHonest'
  <2> DEFINE r == [Idle(NoReply) EXCEPT !.phase = "arrived", !.puzzle = p, !.asked = now]
  <2>1. r.asked = now /\ ~r.tester
    BY DEF Idle
  <2>2. req' = [req EXCEPT ![t] = r] /\ tester' = tester
    BY <1>6 DEF Arrive
  <2>3. now > Zero /\ now <= now'
    BY <1>0 DEF Zero
  <2> HIDE DEF r
  <2> QED BY <1>5, <2>1, <2>2, <2>3
<1>7. ASSUME NEW t \in Tabs, Authenticate(t)
      PROVE  RequestsHonest'
  <2> DEFINE r == [req[t] EXCEPT !.phase = "authenticated", !.tester = tester[TabUser[t]]]
  <2>1. r.asked = req[t].asked /\ r.tester = tester[TabUser[t]]
    BY DEF Request
  <2>2. req' = [req EXCEPT ![t] = r] /\ tester' = tester /\ req[t].phase # "idle"
    BY <1>7 DEF Authenticate
  <2>3. TabUser[t] \in Users
    OBVIOUS
  <2> HIDE DEF r
  <2> QED BY <1>0, <1>1, <1>5, <2>1, <2>2, <2>3
<1>8. ASSUME NEW t \in Tabs, LoadProgress(t)
      PROVE  RequestsHonest'
  <2> DEFINE r == [req[t] EXCEPT !.phase = "loaded",
                     !.known = stored[TabUser[t]][EventOf[req[t].puzzle]]]
  <2>1. r.asked = req[t].asked /\ r.tester = req[t].tester
    BY DEF Request
  <2>2. req' = [req EXCEPT ![t] = r] /\ tester' = tester /\ req[t].phase # "idle"
    BY <1>8 DEF LoadProgress
  <2> HIDE DEF r
  <2> QED BY <1>1, <1>5, <2>1, <2>2
<1>9. ASSUME NEW t \in Tabs, Handle(t) \/ Browse(t)
      PROVE  RequestsHonest'
  <2>1. tester' = tester /\ \E reply : req' = [req EXCEPT ![t] = Idle(reply)]
    BY <1>9 DEF Browse, Handle, RefuseLocked, RefuseForm, RefusePart, AlreadySolved, PartTooFar,
                Submit, EmptyAnswer, TimeoutAnswer, WrongAnswer, RightAnswer, Respond
  <2> QED BY <1>2, <1>5, <2>1
<1> QED BY <1>3, <1>4, <1>6, <1>7, <1>8, <1>9 DEF Next, Tick, DeleteProgress

\* The tables of a user whose progress is deleted are empty, the others stay.
Erased(u) ==
  /\ \A v \in Users, e \in Events :
       IF v = u THEN stored'[v][e] = FALSE /\ incorrect'[v][e] = 0 /\ timeout'[v][e] = Zero
       ELSE /\ stored'[v][e] = stored[v][e] /\ incorrect'[v][e] = incorrect[v][e]
            /\ timeout'[v][e] = timeout[v][e] /\ rowBegan'[v][e] = rowBegan[v][e]
  /\ \A v \in Users, p \in Puzzles :
       IF v = u THEN solves'[v][p] = <<>> /\ wrong'[v][p] = <<>>
       ELSE solves'[v][p] = solves[v][p] /\ wrong'[v][p] = wrong[v][p]

\* A reset leaves exactly that.
LEMMA DeleteEffect ==
  ASSUME TypeOK, NEW u \in Users, DeleteProgress(u)
  PROVE  Erased(u)
<1>1. \A v \in Users, e \in Events :
        IF v = u THEN stored'[v][e] = FALSE /\ incorrect'[v][e] = 0 /\ timeout'[v][e] = Zero
        ELSE /\ stored'[v][e] = stored[v][e] /\ incorrect'[v][e] = incorrect[v][e]
             /\ timeout'[v][e] = timeout[v][e] /\ rowBegan'[v][e] = rowBegan[v][e]
  BY DEF DeleteProgress, TypeOK
<1>2. \A v \in Users, p \in Puzzles :
        IF v = u THEN solves'[v][p] = <<>> /\ wrong'[v][p] = <<>>
        ELSE solves'[v][p] = solves[v][p] /\ wrong'[v][p] = wrong[v][p]
  BY DEF DeleteProgress, TypeOK
<1>3. QED BY <1>1, <1>2 DEF Erased

\* Stored entries stay consistent: an absent one is empty, no puzzle overflows.
LEMMA EntriesStep ==
  ASSUME TypeOK, Consistent, Next
  PROVE  AbsentIsEmpty' /\ SolvesFit'
<1>1. CASE UNCHANGED progress
  BY <1>1 DEF progress, Consistent, AbsentIsEmpty, SolvesFit
<1>2. ASSUME NEW u \in Users, DeleteProgress(u)
      PROVE  AbsentIsEmpty' /\ SolvesFit'
  <2>1. Erased(u)
    BY <1>2, DeleteEffect
  <2>2. \A p \in Puzzles : EventOf[p] \in Events /\ Len(<<>>) <= PartCount[p]
    BY LoadedAssumption, ConfigAssumption
  <2>3. ASSUME NEW v \in Users
        PROVE  /\ \A p \in Puzzles :
                    ~stored'[v][EventOf[p]] => solves'[v][p] = <<>> /\ wrong'[v][p] = <<>>
               /\ \A e \in Events : ~stored'[v][e] => incorrect'[v][e] = 0
               /\ \A p \in Puzzles : Len(solves'[v][p]) <= PartCount[p]
    <3>1. CASE v = u
      BY <2>1, <2>2, <3>1 DEF Erased
    <3>2. CASE v # u
      BY <2>1, <2>2, <3>2 DEF Erased, Consistent, AbsentIsEmpty, SolvesFit
    <3>3. QED BY <3>1, <3>2
  <2>4. QED BY <2>3 DEF AbsentIsEmpty, SolvesFit
<1>3. ASSUME NEW t \in Tabs, NEW part \in Int, NEW text \in Texts, WrongAnswer(t, part, text)
      PROVE  AbsentIsEmpty' /\ SolvesFit'
  <2> DEFINE u == TabUser[t]
             e == EventOf[req[t].puzzle]
  <2>1. WrongWritten(t, text)
    BY <1>3, WrongEffect
  <2>2. /\ solves' = solves /\ stored'[u][e] = TRUE
        /\ \A v \in Users, d \in Events : v # u \/ d # e =>
             stored'[v][d] = stored[v][d] /\ incorrect'[v][d] = incorrect[v][d]
        /\ \A v \in Users, q \in Puzzles : v # u \/ q # req[t].puzzle => wrong'[v][q] = wrong[v][q]
    BY <2>1 DEF WrongWritten, ChangedAt
  <2> HIDE DEF u
  <2>3. ASSUME NEW v \in Users, NEW q \in Puzzles, ~stored'[v][EventOf[q]]
        PROVE  solves'[v][q] = <<>> /\ wrong'[v][q] = <<>>
    <3>1. EventOf[q] \in Events
      BY LoadedAssumption, ConfigAssumption
    <3>2. v # u \/ EventOf[q] # e
      BY <2>2, <2>3
    <3>3. v # u \/ q # req[t].puzzle
      BY <3>2
    <3>4. /\ wrong'[v][q] = wrong[v][q] /\ solves'[v][q] = solves[v][q]
          /\ ~stored[v][EventOf[q]]
      BY <2>2, <2>3, <3>1, <3>2, <3>3
    <3>5. QED BY <3>4 DEF Consistent, AbsentIsEmpty
  <2>4. ASSUME NEW v \in Users, NEW d \in Events, ~stored'[v][d]
        PROVE  incorrect'[v][d] = 0
    <3>1. v # u \/ d # e
      BY <2>2, <2>4
    <3>2. ~stored[v][d] /\ incorrect'[v][d] = incorrect[v][d]
      BY <2>2, <2>4, <3>1
    <3>3. QED BY <3>2 DEF Consistent, AbsentIsEmpty
  <2>5. SolvesFit'
    BY <2>2 DEF Consistent, SolvesFit
  <2>6. QED BY <2>3, <2>4, <2>5 DEF AbsentIsEmpty
<1>4. ASSUME NEW t \in Tabs, NEW part \in Int, NEW text \in Texts, RightAnswer(t, part, text)
      PROVE  AbsentIsEmpty' /\ SolvesFit'
  <2> DEFINE u == TabUser[t]
             p == req[t].puzzle
             e == EventOf[p]
  <2>1. Judged(t, part, text)
    BY <1>4 DEF RightAnswer
  <2>2. /\ u \in Users /\ p \in Puzzles /\ part = Len(solves[u][p]) /\ part \in Nat
        /\ part < PartCount[p] /\ req[t].asked \in Nat
    BY <2>1, JudgedFacts DEF Consistent
  <2>3. solves[u][p] \in Seq(Nat) /\ PartCount[p] \in Nat
    BY <2>2, LoadedAssumption, ConfigAssumption DEF TypeOK
  <2>4. RightWritten(t)
    BY <1>4, RightEffect
  <2>5. /\ stored'[u][e] = TRUE /\ solves'[u][p] = Append(solves[u][p], req[t].asked)
        /\ \A v \in Users, d \in Events : v # u \/ d # e =>
             stored'[v][d] = stored[v][d] /\ incorrect'[v][d] = incorrect[v][d]
        /\ \A v \in Users, q \in Puzzles : v # u \/ q # p =>
             wrong'[v][q] = wrong[v][q] /\ solves'[v][q] = solves[v][q]
    <3>1. /\ ChangedAt(stored, stored', Users, Events, BOOLEAN, u, e, TRUE)
          /\ ChangedAt(incorrect, incorrect', Users, Events, Nat, u, e, 0)
      BY <2>4 DEF RightWritten
    <3>2. /\ ChangedAt(wrong, wrong', Users, Puzzles, Seq(Texts), u, p, <<>>)
          /\ ChangedAt(solves, solves', Users, Puzzles, Seq(Nat), u, p, Append(solves[u][p], req[t].asked))
      BY <2>4 DEF RightWritten
    <3> HIDE DEF u, p, e
    <3>3. /\ stored'[u][e] = TRUE
          /\ \A v \in Users, d \in Events : v # u \/ d # e =>
               stored'[v][d] = stored[v][d] /\ incorrect'[v][d] = incorrect[v][d]
      BY <3>1 DEF ChangedAt
    <3>4. /\ solves'[u][p] = Append(solves[u][p], req[t].asked)
          /\ \A v \in Users, q \in Puzzles : v # u \/ q # p =>
               wrong'[v][q] = wrong[v][q] /\ solves'[v][q] = solves[v][q]
      BY <3>2 DEF ChangedAt
    <3>5. QED BY <3>3, <3>4
  <2>6. Len(solves'[u][p]) <= PartCount[p]
    <3>1. Len(Append(solves[u][p], req[t].asked)) = part + 1
      BY <2>2, <2>3, AppendProperties
    <3>2. part + 1 <= PartCount[p]
      BY <2>2, <2>3
    <3>3. QED BY <2>5, <3>1, <3>2
  <2> HIDE DEF u, p
  <2>7. ASSUME NEW v \in Users, NEW q \in Puzzles, ~stored'[v][EventOf[q]]
        PROVE  solves'[v][q] = <<>> /\ wrong'[v][q] = <<>>
    <3>1. EventOf[q] \in Events
      BY LoadedAssumption, ConfigAssumption
    <3>2. v # u \/ EventOf[q] # e
      BY <2>5, <2>7
    <3>3. v # u \/ q # p
      BY <3>2
    <3>4. /\ wrong'[v][q] = wrong[v][q] /\ solves'[v][q] = solves[v][q]
          /\ ~stored[v][EventOf[q]]
      BY <2>5, <2>7, <3>1, <3>2, <3>3
    <3>5. QED BY <3>4 DEF Consistent, AbsentIsEmpty
  <2>8. ASSUME NEW v \in Users, NEW d \in Events, ~stored'[v][d]
        PROVE  incorrect'[v][d] = 0
    <3>1. v # u \/ d # e
      BY <2>5, <2>8
    <3>2. ~stored[v][d] /\ incorrect'[v][d] = incorrect[v][d]
      BY <2>5, <2>8, <3>1
    <3>3. QED BY <3>2 DEF Consistent, AbsentIsEmpty
  <2>9. SolvesFit'
    BY <2>5, <2>6 DEF Consistent, SolvesFit
  <2>10. QED BY <2>7, <2>8, <2>9 DEF AbsentIsEmpty
<1>5. QED BY <1>1, <1>2, <1>3, <1>4, ProgressStep

\* One more cooldown on top of n of them.
LEMMA OneMoreTime ==
  ASSUME NEW n \in Nat, NEW c \in Nat
  PROVE  (n + 1) * c = n * c + c /\ n * c \in Nat
OBVIOUS

\* A bound on the current time is a bound on a later time.
LEMMA LaterStill ==
  ASSUME NEW a \in Nat, NEW b \in Nat, NEW c \in Nat, NEW d \in Nat, a <= b + c, b <= d
  PROVE  a <= d + c
OBVIOUS

\* Adding to both sides keeps the order.
LEMMA AddedOnBothSides ==
  ASSUME NEW a \in Nat, NEW b \in Nat, NEW c \in Nat, a <= b
  PROVE  a + c <= b + c
OBVIOUS

\* What GuessRateLimited says of one user and one event.
Paid(n, began, until) ==
  IF n = 0 THEN until = 0 ELSE began + n * Cooldown <= until /\ until <= now + Cooldown

\* n wrong answers in a row cost n cooldowns, counted from the first one.
LEMMA RateStep ==
  ASSUME TypeOK, RequestsHonest, GuessRateLimited, Next
  PROVE  GuessRateLimited'
<1> DEFINE Rate(n, began, until) ==
             IF n = 0 THEN until = 0 ELSE began + n * Cooldown <= until /\ until <= now' + Cooldown
<1>0. now \in Nat /\ now' \in Nat /\ now <= now' /\ Cooldown \in Nat /\ Cooldown > 0
  BY HistoryStep, ConfigAssumption
<1>1. ASSUME NEW u \in Users, NEW e \in Events
      PROVE  /\ incorrect[u][e] \in Nat /\ timeout[u][e] \in Nat /\ rowBegan[u][e] \in Nat
             /\ Paid(incorrect[u][e], rowBegan[u][e], timeout[u][e])
  BY DEF TypeOK, GuessRateLimited, Paid, Zero
<1>2. ASSUME NEW n \in Nat, NEW began \in Nat, NEW until \in Nat, Paid(n, began, until)
      PROVE  Rate(n, began, until)
  <2>1. n # 0 => until <= now' + Cooldown
    <3>1. n # 0 => until <= now + Cooldown
      BY <1>2, Zenon DEF Paid
    <3>2. QED BY <1>0, <3>1, LaterStill
  <2>2. (n = 0 => until = 0) /\ (n # 0 => began + n * Cooldown <= until)
    BY <1>2 DEF Paid
  <2>3. QED BY <2>1, <2>2
<1>3. SUFFICES ASSUME NEW u \in Users, NEW e \in Events
               PROVE  Rate(incorrect'[u][e], rowBegan'[u][e], timeout'[u][e])
  BY DEF GuessRateLimited, Zero
<1> HIDE DEF Rate
<1>4. ASSUME incorrect'[u][e] = incorrect[u][e], timeout'[u][e] = timeout[u][e],
             rowBegan'[u][e] = rowBegan[u][e]
      PROVE  Rate(incorrect'[u][e], rowBegan'[u][e], timeout'[u][e])
  BY <1>1, <1>2, <1>4
<1>5. ASSUME incorrect'[u][e] = 0, timeout'[u][e] = 0
      PROVE  Rate(incorrect'[u][e], rowBegan'[u][e], timeout'[u][e])
  BY <1>5 DEF Rate
<1>6. CASE UNCHANGED progress
  BY <1>4, <1>6 DEF progress
<1>7. ASSUME NEW v \in Users, DeleteProgress(v)
      PROVE  Rate(incorrect'[u][e], rowBegan'[u][e], timeout'[u][e])
  <2>1. Erased(v)
    BY <1>7, DeleteEffect
  <2>2. CASE u = v
    BY <1>5, <2>1, <2>2 DEF Erased, Zero
  <2>3. CASE u # v
    BY <1>4, <2>1, <2>3 DEF Erased
  <2>4. QED BY <2>2, <2>3
<1>8. ASSUME NEW t \in Tabs, NEW part \in Int, NEW text \in Texts, WrongAnswer(t, part, text)
      PROVE  Rate(incorrect'[u][e], rowBegan'[u][e], timeout'[u][e])
  <2> DEFINE n == incorrect[u][e]
             cost == n * Cooldown
             began == rowBegan[u][e]
             asked == req[t].asked
  <2>1. WrongWritten(t, text)
    BY <1>8, WrongEffect
  <2>2. CASE u # TabUser[t] \/ e # EventOf[req[t].puzzle]
    <3>1. /\ incorrect'[u][e] = incorrect[u][e] /\ timeout'[u][e] = timeout[u][e]
          /\ rowBegan'[u][e] = rowBegan[u][e]
      BY <2>1, <2>2 DEF WrongWritten, ChangedAt
    <3>2. QED BY <1>4, <3>1
  <2>3. CASE u = TabUser[t] /\ e = EventOf[req[t].puzzle]
    <3>1. Judged(t, part, text)
      BY <1>8 DEF WrongAnswer
    <3>2. asked \in Nat /\ asked > 0 /\ asked <= now /\ timeout[u][e] <= asked
      BY <2>3, <3>1, JudgedFacts
    <3>3. /\ incorrect'[u][e] = n + 1 /\ timeout'[u][e] = asked + Cooldown
          /\ rowBegan'[u][e] = IF n = 0 THEN asked ELSE began
      BY <2>1, <2>3 DEF WrongWritten, ChangedAt
    <3>4. n \in Nat /\ began \in Nat /\ timeout[u][e] \in Nat /\ Paid(n, began, timeout[u][e])
      BY <1>1
    <3> HIDE DEF asked, n, began
    <3>5. (n + 1) * Cooldown = cost + Cooldown /\ cost \in Nat
      BY <1>0, <3>4, OneMoreTime
    <3>6. n # 0 => began + cost <= asked
      <4>1. n # 0 => began + cost <= timeout[u][e]
        BY <3>4 DEF Paid
      <4> HIDE DEF cost
      <4>2. QED BY <3>2, <3>4, <3>5, <4>1
    <3>7. n = 0 => cost = 0
      BY <1>0
    <3> HIDE DEF cost
    <3>8. (IF n = 0 THEN asked ELSE began) + (cost + Cooldown) <= asked + Cooldown
      BY <1>0, <3>2, <3>4, <3>5, <3>6, <3>7
    <3>9. asked + Cooldown <= now' + Cooldown
      <4>1. asked \in Nat /\ asked <= now'
        BY <1>0, <3>2
      <4>2. now' \in Nat /\ Cooldown \in Nat
        BY <1>0
      <4>3. QED BY <4>1, <4>2, AddedOnBothSides
    <3>10. n + 1 # 0
      BY <3>4
    <3>11. QED BY <3>3, <3>5, <3>8, <3>9, <3>10 DEF Rate
  <2>4. QED BY <2>2, <2>3
<1>9. ASSUME NEW t \in Tabs, NEW part \in Int, NEW text \in Texts, RightAnswer(t, part, text)
      PROVE  Rate(incorrect'[u][e], rowBegan'[u][e], timeout'[u][e])
  <2>1. RightWritten(t)
    BY <1>9, RightEffect
  <2>2. CASE u # TabUser[t] \/ e # EventOf[req[t].puzzle]
    <3>1. /\ incorrect'[u][e] = incorrect[u][e] /\ timeout'[u][e] = timeout[u][e]
          /\ rowBegan'[u][e] = rowBegan[u][e]
      BY <2>1, <2>2 DEF RightWritten, ChangedAt
    <3>2. QED BY <1>4, <3>1
  <2>3. CASE u = TabUser[t] /\ e = EventOf[req[t].puzzle]
    <3>1. incorrect'[u][e] = 0 /\ timeout'[u][e] = 0
      BY <2>1, <2>3 DEF RightWritten, ChangedAt, Zero
    <3>2. QED BY <1>5, <3>1
  <2>4. QED BY <2>2, <2>3
<1>10. QED BY <1>6, <1>7, <1>8, <1>9, ProgressStep

\* No solve before the unlock, testers aside.
LEMMA UnlockStep ==
  ASSUME TypeOK, RequestsHonest, SolvedAfterUnlock, Next
  PROVE  SolvedAfterUnlock'
<1> DEFINE Fine(p, time) == time \in Nat /\ Unlock[p] <= time /\ time <= now'
<1>0. now \in Nat /\ now' \in Nat /\ now <= now' /\ wasTester \subseteq wasTester'
  BY HistoryStep
<1>1. SUFFICES ASSUME NEW u \in Users \ wasTester', NEW p \in Puzzles,
                      NEW i, i \in 1 .. Len(solves'[u][p])
               PROVE  Fine(p, solves'[u][p][i])
  BY DEF SolvedAfterUnlock
<1>10. /\ solves'[u][p] \in Seq(Nat) /\ Len(solves'[u][p]) \in Nat
       /\ i \in Nat /\ 1 <= i /\ i <= Len(solves'[u][p])
  <2>1. solves'[u][p] \in Seq(Nat)
    BY TypeStep DEF TypeOK
  <2>2. Len(solves'[u][p]) \in Nat
    BY <2>1, LenProperties
  <2> QED BY <1>1, <2>1, <2>2
<1>2. solves[u][p] \in Seq(Nat) /\ Len(solves[u][p]) \in Nat
      /\ \A k \in 1 .. Len(solves[u][p]) : solves[u][p][k] \in Nat
  <2>1. solves[u][p] \in Seq(Nat)
    BY <1>0 DEF TypeOK
  <2> QED BY <2>1, LenProperties
<1>3. \A k \in 1 .. Len(solves[u][p]) : Fine(p, solves[u][p][k])
  <2> SUFFICES ASSUME NEW k \in 1 .. Len(solves[u][p])
               PROVE  Fine(p, solves[u][p][k])
    OBVIOUS
  <2>1. Unlock[p] <= solves[u][p][k] /\ solves[u][p][k] <= now
    BY <1>0 DEF SolvedAfterUnlock
  <2>2. Unlock[p] \in Nat
    BY ConfigAssumption
  <2> QED BY <1>0, <1>2, <2>1, <2>2
<1>4. CASE solves'[u][p] = solves[u][p]
  BY <1>3, <1>4, <1>10
<1> HIDE DEF Fine
<1>5. CASE UNCHANGED progress
  BY <1>4, <1>5 DEF progress
<1>6. ASSUME NEW v \in Users, DeleteProgress(v)
      PROVE  Fine(p, solves'[u][p][i])
  <2>1. solves'[u][p] = solves[u][p] \/ solves'[u][p] = <<>>
    BY <1>6 DEF DeleteProgress, TypeOK
  <2>2. solves'[u][p] # <<>>
    BY <1>10
  <2> QED BY <1>4, <2>1, <2>2
<1>7. ASSUME NEW t \in Tabs, NEW part \in Int, NEW text \in Texts, WrongAnswer(t, part, text)
      PROVE  Fine(p, solves'[u][p][i])
  BY <1>4, <1>7 DEF WrongAnswer
<1>8. ASSUME NEW t \in Tabs, NEW part \in Int, NEW text \in Texts, RightAnswer(t, part, text)
      PROVE  Fine(p, solves'[u][p][i])
  <2>1. Judged(t, part, text)
    BY <1>8 DEF RightAnswer
  <2>2. /\ TabUser[t] \in Users /\ req[t].puzzle \in Puzzles
        /\ req[t].asked \in Nat /\ req[t].asked <= now
        /\ Unlock[req[t].puzzle] <= req[t].asked \/ TabUser[t] \in wasTester
    BY <2>1, JudgedFacts
  <2>3. CASE u = TabUser[t] /\ p = req[t].puzzle
    <3> DEFINE old == solves[u][p]
    <3>1. solves'[u][p] = Append(old, req[t].asked)
      BY <1>8, <2>2, <2>3 DEF RightAnswer, TypeOK
    <3> HIDE DEF old
    <3>2. old \in Seq(Nat) /\ Len(old) \in Nat /\ \A k \in 1 .. Len(old) : Fine(p, old[k])
      BY <1>2, <1>3 DEF old
    <3>3. /\ Len(solves'[u][p]) = Len(old) + 1
          /\ \A k \in 1 .. Len(old) : solves'[u][p][k] = old[k]
          /\ solves'[u][p][Len(old) + 1] = req[t].asked
      BY <2>2, <3>1, <3>2, AppendProperties
    <3>4. Fine(p, req[t].asked)
      BY <1>0, <2>2, <2>3 DEF Fine
    <3>5. i \in 1 .. Len(old) \/ i = Len(old) + 1
      BY <1>10, <3>2, <3>3
    <3> QED BY <3>2, <3>3, <3>4, <3>5
  <2>4. CASE ~(u = TabUser[t] /\ p = req[t].puzzle)
    <3>1. solves'[u][p] = solves[u][p]
      BY <1>8, <2>2, <2>4 DEF RightAnswer, TypeOK
    <3> QED BY <1>4, <3>1
  <2> QED BY <2>3, <2>4
<1>9. QED
  BY <1>5, <1>6, <1>7, <1>8, ProgressStep

\* The kept answers stay wrong answers to the part the user is on.
LEMMA KeptStep ==
  ASSUME TypeOK, Consistent, KeptAnswersBelong, Next
  PROVE  KeptAnswersBelong'
<1> USE ConfigAssumption, LoadedAssumption DEF TypeOK
<1> DEFINE Good(u, p, kept, solved) ==
             /\ Len(kept) <= MaxIncorrectKept
             /\ \A i, j \in 1 .. Len(kept) : kept[i] = kept[j] => i = j
             /\ kept # <<>> => Len(solved) + 1 <= PartCount[p]
             /\ \A i \in 1 .. Len(kept) :
                  kept[i] # Right[u][p][Len(solved) + 1] /\ kept[i] # Blank
<1>1. \A u \in Users, p \in Puzzles : Good(u, p, wrong[u][p], solves[u][p])
  BY DEF KeptAnswersBelong
<1>2. SUFFICES ASSUME NEW u \in Users, NEW p \in Puzzles
               PROVE  Good(u, p, wrong'[u][p], solves'[u][p])
  BY DEF KeptAnswersBelong
<1>3. ASSUME NEW solved
      PROVE  Good(u, p, <<>>, solved)
  OBVIOUS
<1>4. CASE wrong'[u][p] = wrong[u][p] /\ solves'[u][p] = solves[u][p]
  BY <1>1, <1>4
<1>5. CASE wrong'[u][p] = <<>>
  BY <1>3, <1>5
<1> HIDE DEF Good
<1>6. CASE UNCHANGED progress
  BY <1>4, <1>6 DEF progress
<1>7. ASSUME NEW v \in Users, DeleteProgress(v)
      PROVE  wrong'[u][p] = <<>> \/ (wrong'[u][p] = wrong[u][p] /\ solves'[u][p] = solves[u][p])
  BY <1>7 DEF DeleteProgress
<1>8. ASSUME NEW t \in Tabs, NEW part \in Int, NEW text \in Texts, RightAnswer(t, part, text)
      PROVE  wrong'[u][p] = <<>> \/ (wrong'[u][p] = wrong[u][p] /\ solves'[u][p] = solves[u][p])
  BY <1>8 DEF RightAnswer
<1>9. ASSUME NEW t \in Tabs, NEW part \in Int, NEW text \in Texts, WrongAnswer(t, part, text)
      PROVE  Good(u, p, wrong'[u][p], solves'[u][p])
  <2>1. Judged(t, part, text)
    BY <1>9 DEF WrongAnswer
  <2>2. /\ TabUser[t] \in Users /\ req[t].puzzle \in Puzzles
        /\ part = Len(solves[TabUser[t]][req[t].puzzle]) /\ part \in Nat
        /\ part < PartCount[req[t].puzzle]
        /\ Normal[text] \in Texts /\ Normal[text] # Blank
    BY <2>1, JudgedFacts DEF Consistent
  <2>3. CASE u = TabUser[t] /\ p = req[t].puzzle
    <3> DEFINE old == wrong[u][p]
               a == Normal[text]
               kept == Keep(old, a)
    <3>1. wrong'[u][p] = kept /\ solves'[u][p] = solves[u][p] /\ a # Right[u][p][part + 1]
      <4>1. wrong'[u][p] = kept /\ solves' = solves
        <5>1. WrongWritten(t, text)
          BY <1>9, WrongEffect
        <5> QED BY <2>3, <5>1 DEF WrongWritten, ChangedAt
      <4>2. a # Right[u][p][part + 1]
        BY <1>9, <2>3 DEF WrongAnswer
      <4> QED BY <4>1, <4>2
    <3>2. old \in Seq(Texts) /\ Good(u, p, old, solves[u][p])
      BY <1>1
    <3> HIDE DEF a, old
    <3>3. /\ kept \in Seq(Texts) /\ kept # <<>> /\ Len(kept) <= MaxIncorrectKept
          /\ \A k \in 1 .. Len(kept) :
               kept[k] = a \/ \E j \in 1 .. Len(old) : kept[k] = old[j]
          /\ \A k, l \in 1 .. Len(kept) : kept[k] = kept[l] => k = l
      BY <2>2, <3>2, KeepProps DEF Good, a
    <3> HIDE DEF kept
    <3>4. /\ part = Len(solves[u][p]) /\ part + 1 <= PartCount[p]
      <4>1. PartCount[p] \in Nat
        OBVIOUS
      <4>2. part = Len(solves[u][p]) /\ part \in Nat /\ part < PartCount[p]
        BY <2>2, <2>3
      <4> QED BY <4>1, <4>2
    <3>5. \A j \in 1 .. Len(old) : old[j] # Right[u][p][part + 1] /\ old[j] # Blank
      BY <3>2, <3>4 DEF Good
    <3>6. a # Right[u][p][part + 1] /\ a # Blank
      BY <2>2, <3>1 DEF a
    <3>7. ASSUME NEW k \in 1 .. Len(kept)
          PROVE  kept[k] # Right[u][p][part + 1] /\ kept[k] # Blank
      <4>1. CASE kept[k] = a
        BY <3>6, <4>1
      <4>2. CASE \E j \in 1 .. Len(old) : kept[k] = old[j]
        BY <3>5, <4>2
      <4> QED BY <3>3, <4>1, <4>2
    <3> QED BY <3>1, <3>3, <3>4, <3>7 DEF Good
  <2>4. CASE ~(u = TabUser[t] /\ p = req[t].puzzle)
    <3>1. wrong'[u][p] = wrong[u][p] /\ solves'[u][p] = solves[u][p]
      BY <1>9, <2>2, <2>4 DEF WrongAnswer
    <3> QED BY <1>4, <3>1
  <2> QED BY <2>3, <2>4
<1> QED BY <1>4, <1>5, <1>6, <1>7, <1>8, <1>9, ProgressStep

\* A mistake that counts is on record in some puzzle of its event.
LEMMA MistakesStep ==
  ASSUME TypeOK, RequestsHonest, MistakesAreKept, Next
  PROVE  MistakesAreKept'
<1>1. CASE UNCHANGED progress
  BY <1>1 DEF progress, MistakesAreKept
<1>2. SUFFICES ASSUME NEW v \in Users, NEW d \in Events, incorrect'[v][d] > 0, ~UNCHANGED progress
               PROVE  \E q \in Puzzles : EventOf[q] = d /\ wrong'[v][q] # <<>>
  BY <1>1 DEF MistakesAreKept
<1>3. ASSUME NEW u \in Users, DeleteProgress(u)
      PROVE  \E q \in Puzzles : EventOf[q] = d /\ wrong'[v][q] # <<>>
  <2>1. Erased(u)
    BY <1>3, DeleteEffect
  <2>2. v # u
    BY <1>2, <2>1 DEF Erased
  <2>3. QED BY <1>2, <2>1, <2>2 DEF Erased, MistakesAreKept
<1>4. ASSUME NEW t \in Tabs, NEW part \in Int, NEW text \in Texts, WrongAnswer(t, part, text)
      PROVE  \E q \in Puzzles : EventOf[q] = d /\ wrong'[v][q] # <<>>
  <2> DEFINE u == TabUser[t]
             p == req[t].puzzle
  <2>1. Judged(t, part, text)
    BY <1>4 DEF WrongAnswer
  <2>2. u \in Users /\ p \in Puzzles /\ Normal[text] \in Texts
    BY <2>1, JudgedFacts
  <2>3. WrongWritten(t, text)
    BY <1>4, WrongEffect
  <2>4. wrong[u][p] \in Seq(Texts)
    BY <2>2 DEF TypeOK
  <2>5. Keep(wrong[u][p], Normal[text]) # <<>>
    BY <2>2, <2>4, KeepNonempty
  <2>6. /\ wrong'[u][p] # <<>>
        /\ \A w \in Users, q \in Puzzles : w # u \/ q # p => wrong'[w][q] = wrong[w][q]
        /\ \A w \in Users, e \in Events : w # u \/ e # EventOf[p] => incorrect'[w][e] = incorrect[w][e]
    BY <2>3, <2>5 DEF WrongWritten, ChangedAt
  <2> HIDE DEF u, p
  <2>7. CASE v = u /\ d = EventOf[p]
    BY <2>2, <2>6, <2>7
  <2>8. CASE v # u \/ d # EventOf[p]
    <3>1. incorrect[v][d] > 0
      BY <1>2, <2>6, <2>8
    <3>2. PICK q \in Puzzles : EventOf[q] = d /\ wrong[v][q] # <<>>
      BY <3>1 DEF MistakesAreKept
    <3>3. v # u \/ q # p
      BY <2>8, <3>2
    <3>4. QED BY <2>6, <3>2, <3>3
  <2>9. QED BY <2>7, <2>8
<1>5. ASSUME NEW t \in Tabs, NEW part \in Int, NEW text \in Texts, RightAnswer(t, part, text)
      PROVE  \E q \in Puzzles : EventOf[q] = d /\ wrong'[v][q] # <<>>
  <2> DEFINE u == TabUser[t]
             p == req[t].puzzle
  <2>1. RightWritten(t)
    BY <1>5, RightEffect
  <2>2. /\ incorrect'[u][EventOf[p]] = 0
        /\ \A w \in Users, q \in Puzzles : w # u \/ q # p => wrong'[w][q] = wrong[w][q]
        /\ \A w \in Users, e \in Events : w # u \/ e # EventOf[p] => incorrect'[w][e] = incorrect[w][e]
    BY <2>1 DEF RightWritten, ChangedAt
  <2> HIDE DEF u, p
  <2>3. v # u \/ d # EventOf[p]
    BY <1>2, <2>2
  <2>4. incorrect[v][d] > 0
    BY <1>2, <2>2, <2>3
  <2>5. PICK q \in Puzzles : EventOf[q] = d /\ wrong[v][q] # <<>>
    BY <2>4 DEF MistakesAreKept
  <2>6. v # u \/ q # p
    BY <2>3, <2>5
  <2>7. QED BY <2>2, <2>5, <2>6
<1>6. QED BY <1>2, <1>3, <1>4, <1>5, ProgressStep

------------------------------------------------------------------------------
(* The theorems.                                                           *)

\* The initial state satisfies the inductive invariant.
LEMMA InitSupport == Init => Support
<1> SUFFICES ASSUME Init
             PROVE  Support
  OBVIOUS
<1>1. Idle(NoReply) \in Request
  BY IdleType DEF NoReply, Reply, ReplyKinds
<1>2. TypeOK
  BY <1>1 DEF Init, TypeOK, Zero
<1>3. AbsentIsEmpty /\ SolvesFit
  BY LoadedAssumption DEF Init, AbsentIsEmpty, SolvesFit
<1>4. RequestsHonest
  BY DEF Init, RequestsHonest, Idle, Zero
<1> QED BY <1>2, <1>3, <1>4 DEF Support, Consistent

\* Every step preserves the inductive invariant, conjunct by conjunct.
LEMMA SupportStep == Support /\ [Next]_vars => Support'
<1>1. Support /\ Next => Support'
  BY TypeStep, EntriesStep, RequestsStep DEF Support, Consistent
<1>2. Support /\ UNCHANGED vars => Support'
  BY DEF Support, Consistent, TypeOK, AbsentIsEmpty, SolvesFit, RequestsHonest, vars, progress
<1> QED BY <1>1, <1>2

\* The inductive invariant holds in every reachable state.
THEOREM AlwaysSupported == Spec => []Support
BY InitSupport, SupportStep, PTL DEF Spec

\* However the requests of a user overlap, n wrong answers in a row within an
\* event cost at least n cooldowns, and no cooldown outlasts one Cooldown.
THEOREM GuessesRateLimited == Spec => []GuessRateLimited
<1>1. Init => GuessRateLimited
  BY DEF Init, GuessRateLimited
<1>2. Support /\ GuessRateLimited /\ [Next]_vars => GuessRateLimited'
  <2>1. Support /\ GuessRateLimited /\ Next => GuessRateLimited'
    BY RateStep DEF Support, Consistent
  <2>2. GuessRateLimited /\ UNCHANGED vars => GuessRateLimited'
    BY DEF GuessRateLimited, vars, progress
  <2> QED BY <2>1, <2>2
<1> QED BY <1>1, <1>2, AlwaysSupported, PTL DEF Spec

\* Nobody who was never a tester has a solve time before the unlock time.
THEOREM NoEarlySolve == Spec => []SolvedAfterUnlock
<1>1. Init => SolvedAfterUnlock
  BY DEF Init, SolvedAfterUnlock
<1>2. Support /\ SolvedAfterUnlock /\ [Next]_vars => SolvedAfterUnlock'
  <2>1. Support /\ SolvedAfterUnlock /\ Next => SolvedAfterUnlock'
    BY UnlockStep DEF Support, Consistent
  <2>2. SolvedAfterUnlock /\ UNCHANGED vars => SolvedAfterUnlock'
    BY DEF SolvedAfterUnlock, vars, progress
  <2> QED BY <2>1, <2>2
<1> QED BY <1>1, <1>2, AlwaysSupported, PTL DEF Spec

\* The kept wrong answers always belong to the part the user is on.
THEOREM KeptAlwaysBelong == Spec => []KeptAnswersBelong
<1>1. Init => KeptAnswersBelong
  BY ConfigAssumption DEF Init, KeptAnswersBelong
<1>2. Support /\ KeptAnswersBelong /\ [Next]_vars => KeptAnswersBelong'
  <2>1. Support /\ KeptAnswersBelong /\ Next => KeptAnswersBelong'
    BY KeptStep DEF Support
  <2>2. KeptAnswersBelong /\ UNCHANGED vars => KeptAnswersBelong'
    BY DEF KeptAnswersBelong, vars, progress
  <2> QED BY <2>1, <2>2
<1> QED BY <1>1, <1>2, AlwaysSupported, PTL DEF Spec

\* While an event counts mistakes, one of its puzzles shows the latest of them.
THEOREM MistakesAlwaysKept == Spec => []MistakesAreKept
<1>1. Init => MistakesAreKept
  BY DEF Init, MistakesAreKept
<1>2. Support /\ MistakesAreKept /\ [Next]_vars => MistakesAreKept'
  <2>1. Support /\ MistakesAreKept /\ Next => MistakesAreKept'
    BY MistakesStep DEF Support, Consistent
  <2>2. MistakesAreKept /\ UNCHANGED vars => MistakesAreKept'
    BY DEF MistakesAreKept, vars, progress
  <2> QED BY <2>1, <2>2
<1> QED BY <1>1, <1>2, AlwaysSupported, PTL DEF Spec

\* The counted mistakes and the kept answers are about the same part and event.
THEOREM WrongAnswersAlwaysOnRecord == Spec => []WrongAnswersOnRecord
BY KeptAlwaysBelong, MistakesAlwaysKept, PTL DEF WrongAnswersOnRecord

\* Every step of the answer route is a win of one part, a wipe of one user's
\* whole score, or nothing at all to the abstract scorecard.
THEOREM ImplementsScorecard == Spec => ScorecardSpec
<1> DEFINE won == [u \in Users |-> [p \in Puzzles |-> Len(solves[u][p])]]
<1>1. Init => Score!Init
  BY DEF Init, Score!Init
<1>2. Support /\ [Next]_vars => [Score!Next]_won
  <2> SUFFICES ASSUME Support, [Next]_vars
               PROVE  Score!Next \/ UNCHANGED won
    OBVIOUS
  <2>1. CASE UNCHANGED solves
    BY <2>1
  <2>2. ASSUME NEW u \in Users, DeleteProgress(u)
        PROVE  Score!Wipe(u)
    BY <2>2 DEF DeleteProgress, Score!Wipe, Support, TypeOK
  <2>3. ASSUME NEW t \in Tabs, NEW part \in Int, NEW text \in Texts, RightAnswer(t, part, text)
        PROVE  \E u \in Users, p \in Puzzles : Score!Win(u, p)
    <3> DEFINE u == TabUser[t]
               p == req[t].puzzle
    <3>1. Judged(t, part, text)
      BY <2>3 DEF RightAnswer
    <3>2. /\ u \in Users /\ p \in Puzzles /\ req[t].asked \in Nat
          /\ part = Len(solves[u][p]) /\ part < PartCount[p]
      BY <3>1, JudgedFacts DEF Support, Consistent
    <3>3. solves[u][p] \in Seq(Nat)
      BY <3>2 DEF Support, TypeOK
    <3>4. Len(Append(solves[u][p], req[t].asked)) = Len(solves[u][p]) + 1
      BY <3>2, <3>3, AppendProperties
    <3>5. solves' = [solves EXCEPT ![u][p] = Append(@, req[t].asked)]
      BY <2>3 DEF RightAnswer
    <3>6. won' = [won EXCEPT ![u][p] = @ + 1]
      BY <3>2, <3>4, <3>5 DEF Support, TypeOK
    <3>7. won[u][p] < PartCount[p]
      BY <3>2
    <3> QED BY <3>2, <3>6, <3>7 DEF Score!Win
  <2>4. ASSUME NEW t \in Tabs, NEW part \in Int, NEW text \in Texts, WrongAnswer(t, part, text)
        PROVE  UNCHANGED solves
    BY <2>4 DEF WrongAnswer
  <2>5. CASE UNCHANGED vars
    BY <2>1, <2>5 DEF vars, progress
  <2>6. UNCHANGED progress => UNCHANGED solves
    BY DEF progress
  <2> QED BY <2>1, <2>2, <2>3, <2>4, <2>5, <2>6, ProgressStep DEF Support, Score!Next
<1> QED BY <1>1, <1>2, AlwaysSupported, PTL DEF Spec, ScorecardSpec, Score!Spec

\* Appending keeps what was there.
LEMMA AppendExtends ==
  ASSUME NEW S, NEW list \in Seq(S), NEW a \in S
  PROVE  IsPrefix(list, list) /\ IsPrefix(list, Append(list, a))
<1> DEFINE longer == Append(list, a)
           start == SubSeq(longer, 1, Len(list))
<1>1. Len(list) \in Nat /\ longer \in Seq(S) /\ Len(longer) = Len(list) + 1
      /\ \A i \in 1 .. Len(list) : longer[i] = list[i] /\ list[i] \in S
  BY AppendProperties, LenProperties
<1> HIDE DEF longer
<1>2. start \in Seq(S) /\ Len(start) = Len(list) /\ \A i \in 1 .. Len(list) : start[i] = list[i]
  BY <1>1, SubSeqProperties
<1>3. start = list
  BY <1>2, SeqEqual
<1>4. SubSeq(list, 1, Len(list)) = list
  BY SubSeqFull
<1> QED BY <1>1, <1>3, <1>4 DEF IsPrefix, longer

\* A recorded solve is only ever lost in a reset of the whole user.
THEOREM SolvesNeverLost == Spec => SolvesArePermanent
<1> DEFINE Kept(u) == \A p \in Puzzles : IsPrefix(solves[u][p], solves'[u][p])
           Reset(u) == /\ \A e \in Events : ~stored'[u][e]
                       /\ \A p \in Puzzles : solves'[u][p] = <<>>
<1>1. Support /\ [Next]_vars => \A u \in Users : Kept(u) \/ Reset(u)
  <2> SUFFICES ASSUME Support, [Next]_vars, NEW u \in Users
               PROVE  Kept(u) \/ Reset(u)
    OBVIOUS
  <2>1. \A p \in Puzzles : solves[u][p] \in Seq(Nat)
    BY DEF Support, TypeOK
  <2>2. CASE \A p \in Puzzles : solves'[u][p] = solves[u][p]
    BY <2>1, <2>2, AppendExtends
  <2>3. ASSUME NEW v \in Users, DeleteProgress(v)
        PROVE  Reset(u) \/ \A p \in Puzzles : solves'[u][p] = solves[u][p]
    BY <2>3 DEF DeleteProgress, Support, TypeOK
  <2>4. ASSUME NEW t \in Tabs, NEW part \in Int, NEW text \in Texts, WrongAnswer(t, part, text)
        PROVE  \A p \in Puzzles : solves'[u][p] = solves[u][p]
    BY <2>4 DEF WrongAnswer
  <2>5. ASSUME NEW t \in Tabs, NEW part \in Int, NEW text \in Texts, RightAnswer(t, part, text)
        PROVE  Kept(u)
    <3>1. Judged(t, part, text)
      BY <2>5 DEF RightAnswer
    <3>2. TabUser[t] \in Users /\ req[t].puzzle \in Puzzles /\ req[t].asked \in Nat
      BY <3>1, JudgedFacts DEF Support, Consistent
    <3>3. \A p \in Puzzles : \/ solves'[u][p] = solves[u][p]
                             \/ solves'[u][p] = Append(solves[u][p], req[t].asked)
      BY <2>5, <3>2 DEF RightAnswer, Support, TypeOK
    <3> QED BY <2>1, <3>2, <3>3, AppendExtends
  <2>6. UNCHANGED progress \/ UNCHANGED vars => UNCHANGED solves
    BY DEF progress, vars
  <2>7. UNCHANGED solves => \A p \in Puzzles : solves'[u][p] = solves[u][p]
    OBVIOUS
  <2> QED BY <2>2, <2>3, <2>4, <2>5, <2>6, <2>7, ProgressStep DEF Support
<1>2. Support /\ [Next]_vars =>
        [\A u \in Users : (\E p \in Puzzles : ~IsPrefix(solves[u][p], solves'[u][p])) =>
           /\ \A e \in Events : ~stored'[u][e]
           /\ \A p \in Puzzles : solves'[u][p] = <<>>]_vars
  BY <1>1
<1> QED BY <1>2, AlwaysSupported, PTL DEF Spec, SolvesArePermanent

\* What one answer request does to the score is what its reply says.
LEMMA HandleTruthful ==
  ASSUME Support, NEW t \in Tabs, Handle(t) \/ Browse(t)
  PROVE  /\ req'[t].reply.kind = "correct" <=> Won(t)
         /\ req'[t].reply.finished =>
              Len(solves'[TabUser[t]][req[t].puzzle]) = PartCount[req[t].puzzle]
<1> DEFINE u == TabUser[t]
           p == req[t].puzzle
           n == Len(solves[u][p])
<1>1. /\ u \in Users /\ p \in Puzzles /\ PartCount[p] \in Nat
      /\ solves[u][p] \in Seq(Nat) /\ n \in Nat /\ n <= PartCount[p]
      /\ req \in [Tabs -> Request]
  <2>1. u \in Users /\ p \in Puzzles /\ PartCount[p] \in Nat /\ req \in [Tabs -> Request]
    BY ConfigAssumption, LoadedAssumption DEF Support, TypeOK, Request
  <2>2. solves[u][p] \in Seq(Nat)
    BY <2>1 DEF Support, TypeOK
  <2> QED BY <2>1, <2>2, LenProperties DEF Support, Consistent, SolvesFit
<1>2. ASSUME NEW kind, NEW f, Respond(t, kind, f)
      PROVE  req'[t].reply.kind = kind /\ req'[t].reply.finished = f
  BY <1>1, <1>2 DEF Respond, Idle
<1>3. ASSUME UNCHANGED solves, NEW kind, Respond(t, kind, FALSE), kind # "correct"
      PROVE  /\ req'[t].reply.kind = "correct" <=> Won(t)
             /\ ~req'[t].reply.finished
  <2>1. req'[t].reply.kind = kind /\ req'[t].reply.finished = FALSE
    BY <1>2, <1>3
  <2>2. Len(solves'[u][p]) = n
    BY <1>3
  <2>3. ~Won(t)
    <3> HIDE DEF u, p, n
    <3>1. n # n + 1
      BY <1>1
    <3>2. QED BY <2>2, <3>1 DEF Won, u, p, n
  <2> QED BY <1>3, <2>1, <2>3
<1>4. ASSUME RefuseLocked(t) \/ RefuseForm(t) \/ Browse(t)
      PROVE  (req'[t].reply.kind = "correct" <=> Won(t)) /\ ~req'[t].reply.finished
  BY <1>3, <1>4 DEF RefuseLocked, RefuseForm, Browse, progress
<1>5. ASSUME NEW part \in Int, RefusePart(t, part) \/ PartTooFar(t, part)
      PROVE  (req'[t].reply.kind = "correct" <=> Won(t)) /\ ~req'[t].reply.finished
  BY <1>3, <1>5 DEF RefusePart, PartTooFar, progress
<1>6. ASSUME NEW part \in Int, NEW text \in Texts,
             EmptyAnswer(t, part, text) \/ TimeoutAnswer(t, part, text) \/ WrongAnswer(t, part, text)
      PROVE  (req'[t].reply.kind = "correct" <=> Won(t)) /\ ~req'[t].reply.finished
  BY <1>3, <1>6 DEF EmptyAnswer, TimeoutAnswer, WrongAnswer, progress
<1>7. ASSUME NEW part \in Int, AlreadySolved(t, part)
      PROVE  /\ req'[t].reply.kind = "correct" <=> Won(t)
             /\ req'[t].reply.finished => Len(solves'[u][p]) = PartCount[p]
  <2>1. UNCHANGED solves /\ part < n /\ Respond(t, "alreadySolved", part + 1 = PartCount[p])
    BY <1>7 DEF AlreadySolved, progress
  <2>2. /\ req'[t].reply.kind = "alreadySolved"
        /\ req'[t].reply.finished = (part + 1 = PartCount[p])
    BY <1>2, <2>1
  <2>3. ~Won(t)
    <3> HIDE DEF u, p, n
    <3>1. n # n + 1 /\ solves' = solves
      BY <1>1, <2>1
    <3>2. QED BY <3>1 DEF Won, u, p, n
  <2>4. part + 1 = PartCount[p] => n = PartCount[p]
    BY <1>1, <2>1
  <2> QED BY <2>1, <2>2, <2>3, <2>4
<1>8. ASSUME NEW part \in Int, NEW text \in Texts, RightAnswer(t, part, text)
      PROVE  /\ req'[t].reply.kind = "correct" <=> Won(t)
             /\ req'[t].reply.finished => Len(solves'[u][p]) = PartCount[p]
  <2>1. Judged(t, part, text) /\ Respond(t, "correct", part + 1 = PartCount[p])
    BY <1>8 DEF RightAnswer
  <2>2. part = n /\ req[t].asked \in Nat
    BY <2>1, JudgedFacts DEF Support, Consistent
  <2>3. solves'[u][p] = Append(solves[u][p], req[t].asked)
    BY <1>1, <1>8 DEF RightAnswer, Support, TypeOK
  <2>4. Len(solves'[u][p]) = n + 1
    BY <1>1, <2>2, <2>3, AppendProperties
  <2>5. /\ req'[t].reply.kind = "correct"
        /\ req'[t].reply.finished = (part + 1 = PartCount[p])
    <3> DEFINE last == part + 1 = PartCount[p]
    <3> HIDE DEF u, p, n, last
    <3>1. Respond(t, "correct", last)
      BY <2>1 DEF last
    <3>2. req'[t].reply.kind = "correct" /\ req'[t].reply.finished = last
      BY <1>2, <3>1
    <3>3. QED BY <3>2 DEF last
  <2> QED BY <2>2, <2>4, <2>5 DEF Won
<1>9. PostedParts(p) \subseteq Int
  BY <1>1 DEF PostedParts
<1>10. CASE Browse(t)
  BY <1>4, <1>10
<1>11. CASE Handle(t)
  BY <1>4, <1>5, <1>6, <1>7, <1>8, <1>9, <1>11 DEF Handle, Submit
<1> QED BY <1>10, <1>11

\* "Correct" is said exactly when a part was won, "finished" only when all are.
THEOREM RepliesTellTheTruth == Spec => RepliesTruthful
<1>1. ASSUME Support, [Next]_vars, NEW t \in Tabs, Answered(t)
      PROVE  Handle(t) \/ Browse(t)
  <2>1. req \in [Tabs -> Request]
    BY <1>1 DEF Support, TypeOK
  <2>2. req'[t] # req[t]
    BY <1>1 DEF Answered
  <2>3. ASSUME NEW s \in Tabs, NEW p \in Puzzles, Arrive(s, p)
        PROVE  FALSE
    BY <1>1, <2>1, <2>2, <2>3 DEF Arrive, Answered, Idle
  <2>4. ASSUME NEW s \in Tabs, Authenticate(s) \/ LoadProgress(s)
        PROVE  FALSE
    BY <1>1, <2>1, <2>2, <2>4 DEF Authenticate, LoadProgress, Answered, Request
  <2>5. ASSUME NEW s \in Tabs, Handle(s) \/ Browse(s)
        PROVE  s = t
    <3>1. \E reply : req' = [req EXCEPT ![s] = Idle(reply)]
      BY <2>5 DEF Browse, Handle, RefuseLocked, RefuseForm, RefusePart, AlreadySolved, PartTooFar,
                  Submit, EmptyAnswer, TimeoutAnswer, WrongAnswer, RightAnswer, Respond
    <3> QED BY <2>1, <2>2, <3>1
  <2>6. CASE Tick \/ UNCHANGED vars
    BY <2>2, <2>6 DEF Tick, vars
  <2>7. ASSUME NEW u \in Users, DeleteProgress(u) \/ \E b \in BOOLEAN : SetTester(u, b)
        PROVE  FALSE
    BY <2>2, <2>7 DEF DeleteProgress, SetTester
  <2> QED BY <1>1, <2>3, <2>4, <2>5, <2>6, <2>7 DEF Next
<1>2. Support /\ [Next]_vars =>
        [\A t \in Tabs :
           Answered(t) =>
             /\ req'[t].reply.kind = "correct" <=> Won(t)
             /\ req'[t].reply.finished =>
                  Len(solves'[TabUser[t]][req[t].puzzle]) = PartCount[req[t].puzzle]]_vars
  BY <1>1, HandleTruthful
<1> QED BY <1>2, AlwaysSupported, PTL DEF Spec, RepliesTruthful

-----------------------------------------------------------------------------
(* The pages.                                                              *)

\* Whoever asks for pages takes the steps of the answer route and no others.
LEMMA PagesStepIsStep == [PagesNext]_pageVars => [Next]_vars
<1> SUFFICES ASSUME [PagesNext]_pageVars
             PROVE  Next \/ UNCHANGED vars
  OBVIOUS
<1>1. CASE UNCHANGED pageVars
  BY <1>1 DEF pageVars
<1>2. CASE PagesNext
  BY <1>2 DEF PagesNext, Next, ResetUser, Ask, Load, Answer, View, Visit
<1> QED BY <1>1, <1>2

\* The pages add nothing to what can happen to answers and progress: all that
\* is proved of Answers holds with the pages around it.
THEOREM PagesAreRequests == PagesSpec => Spec
<1>1. PagesInit => Init
  BY DEF PagesInit
<1> QED BY <1>1, PagesStepIsStep, PTL DEF PagesSpec, Spec

\* In particular, requests and progress are as consistent as they are in Answers.
LEMMA PagesSupported == PagesSpec => []Support
BY PagesAreRequests, AlwaysSupported, PTL

------------------------------------------------------------------------------
(* Types.                                                                  *)

\* The number of solved parts of each puzzle.
LEMMA SolvedType ==
  ASSUME TypeOK, NEW u \in Users
  PROVE  /\ Solved(u) \in [Puzzles -> Nat]
         /\ \A p \in Puzzles : Solved(u)[p] = Len(solves[u][p])
<1>1. \A p \in Puzzles : Len(solves[u][p]) \in Nat
  BY LenProperties DEF TypeOK
<1> QED BY <1>1 DEF Solved

\* Before the middlewares, a page is blank.
LEMMA BlankType == NoSolves \in [Puzzles -> Nat] /\ BlankPage \in PageData
BY DEF NoSolves, BlankPage, PageData

\* What the middlewares put on a page.
LEMMA MenuType ==
  ASSUME NEW t \in Tabs, NEW user \in BOOLEAN, NEW isTester \in BOOLEAN,
         NEW count \in [Puzzles -> Nat]
  PROVE  Menu(t, user, isTester, count) \in PageData
<1>1. [p \in Puzzles |-> IF EventOf[p] = Event(t) THEN count[p] ELSE 0] \in [Puzzles -> Nat]
  OBVIOUS
<1> QED BY <1>1, BlankType DEF Menu, BlankPage, PageData

\* The menu names the solves of the event's puzzles and those that are not locked.
LEMMA MenuContents ==
  ASSUME NEW t \in Tabs, NEW user \in BOOLEAN, NEW isTester \in BOOLEAN,
         NEW count \in [Puzzles -> Nat], NEW page \in PageData, page = Menu(t, user, isTester, count)
  PROVE  /\ page.user = user /\ page.to = NoPuzzle /\ page.texts = 0 /\ page.answers = 0
         /\ \A p \in Puzzles : EventOf[p] = Event(t) => page.menu[p] = count[p]
         /\ \A p \in page.open : p \in Puzzles /\ ~Locked(p, req[t].asked, isTester)
BY BlankType DEF Menu, BlankPage, PageData

\* A request's puzzle, user and time.
LEMMA RequestFacts ==
  ASSUME TypeOK, NEW t \in Tabs
  PROVE  /\ TabUser[t] \in Users /\ req[t].puzzle \in Puzzles /\ Event(t) \in Events
         /\ req[t].asked \in Nat /\ req[t].tester \in BOOLEAN /\ req[t] \in Request
BY ConfigAssumption DEF TypeOK, Request, Event

\* The part of a page that a handler adds to what the middlewares prepared.
SamePage(page, old) ==
  page \in PageData /\ page.user = old.user /\ page.menu = old.menu /\ page.open = old.open

\* What the pages show.
LEMMA PageContents ==
  ASSUME TypeOK, NEW t \in Tabs, NEW old \in PageData, NEW isTester \in BOOLEAN,
         old.to = NoPuzzle, old.texts = 0, old.answers = 0,
         NEW page \in PagesFor(t, old, isTester)
  PROVE  /\ SamePage(page, old)
         /\ page.to # NoPuzzle =>
              /\ page.to \in Puzzles /\ ~Locked(page.to, req[t].asked, isTester)
              /\ page.answers <= old.menu[page.to] /\ page.texts <= old.menu[page.to] + 1
              /\ EventOf[page.to] = Event(t)
<1> DEFINE p == req[t].puzzle
<1>1. p \in Puzzles /\ Event(t) \in Events /\ EventOf[p] = Event(t)
  BY RequestFacts DEF Event
<1>2. old.menu \in [Puzzles -> Nat] /\ PartCount[p] \in Nat
  BY <1>1, LoadedAssumption DEF PageData
<1>3. CASE page = old
  BY <1>3 DEF SamePage
<1>4. CASE page = PuzzlePage(t, old, isTester) /\ page # old
  <2> DEFINE shown == IF old.menu[p] < PartCount[p] THEN old.menu[p] + 1 ELSE PartCount[p]
             known == IF old.user THEN old.menu[p] ELSE 0
  <2>1. shown \in Nat /\ shown <= old.menu[p] + 1 /\ known \in Nat /\ known <= old.menu[p]
    BY <1>1, <1>2
  <2>2. ~Locked(p, req[t].asked, isTester)
        /\ page = [old EXCEPT !.to = p, !.texts = shown, !.answers = known]
    BY <1>4 DEF PuzzlePage
  <2> HIDE DEF shown, known
  <2>3. SamePage(page, old) /\ page.to = p /\ page.texts = shown /\ page.answers = known
    BY <1>1, <2>1, <2>2 DEF SamePage, PageData
  <2> QED BY <1>1, <2>1, <2>2, <2>3
<1>5. ASSUME NEW q \in Puzzles, ~Locked(q, req[t].asked, isTester), EventOf[q] = Event(t),
             page = [old EXCEPT !.to = q]
      PROVE  /\ SamePage(page, old)
             /\ page.to = q /\ page.answers <= old.menu[q] /\ page.texts <= old.menu[q] + 1
  BY <1>2, <1>5 DEF SamePage, PageData
<1>6. CASE page = InputPage(t, old, isTester) /\ page # old
  BY <1>1, <1>5, <1>6 DEF InputPage
<1>7. CASE page \in LatestPages(t, old, isTester) /\ page # old
  <2>1. PICK i \in Open(t, isTester) : page = [old EXCEPT !.to = Listed[Event(t)][i]]
    BY <1>7 DEF LatestPages
  <2> DEFINE q == Listed[Event(t)][i]
  <2>2. i \in DOMAIN Listed[Event(t)] /\ ~Locked(q, req[t].asked, isTester)
    BY <2>1 DEF Open
  <2>3. q \in ToSet(Listed[Event(t)])
    BY <2>2 DEF ToSet
  <2>4. q \in Puzzles /\ EventOf[q] = Event(t)
    BY <1>1, <2>3, PagesAssumption DEF LoadEvent
  <2> HIDE DEF q
  <2> QED BY <1>5, <2>1, <2>2, <2>4 DEF q
<1> QED BY <1>3, <1>4, <1>6, <1>7 DEF PagesFor

\* What an answer changes on a page: the count of its puzzle, if it was right.
LEMMA CountedType ==
  ASSUME NEW old \in PageData, NEW p \in Puzzles, NEW kind
  PROVE  [old EXCEPT !.menu = Counted(@, p, kind)] \in PageData
BY DEF Counted, PageData

\* The rest of the page stays as it was.
LEMMA CountedContents ==
  ASSUME NEW old \in PageData, NEW p \in Puzzles, NEW kind, NEW page \in PageData,
         page = [old EXCEPT !.menu = Counted(@, p, kind)]
  PROVE  page.user = old.user /\ page.to = old.to /\ page.open = old.open
BY DEF PageData

------------------------------------------------------------------------------
(* What a request carries on its way to the page.                          *)

\* The count of a puzzle in the menu lies between the solves when the request
\* arrived and the solves now.
InBetween(t) ==
  \A p \in Puzzles : EventOf[p] = Event(t) =>
    owed[t][p] <= pd[t].menu[p] /\ pd[t].menu[p] <= Len(solves[TabUser[t]][p])

\* Until the user is reset, no solve that was there on arrival is gone.
Owing(t) == \A p \in Puzzles : owed[t][p] <= Len(solves[TabUser[t]][p])

CopyOf(t) ==
  /\ req[t].phase # "idle" /\ t \notin upset => Owing(t)
  /\ req[t].phase = "loaded" =>
       /\ pd[t].user /\ pd[t].to = NoPuzzle /\ pd[t].texts = 0 /\ pd[t].answers = 0
       /\ t \notin upset => InBetween(t)

\* The inductive invariant of the pages.
Copies == PagesTypeOK /\ \A t \in Tabs : CopyOf(t)

\* No user loses a solve.
NoneLost(u) == \A p \in Puzzles : Len(solves[u][p]) <= Len(solves'[u][p])

\* A connection that a step leaves alone keeps its copy.
LEMMA CopyKept ==
  ASSUME TypeOK, TypeOK', PagesTypeOK, NEW t \in Tabs, CopyOf(t),
         req'[t] = req[t], pd'[t] = pd[t], owed'[t] = owed[t],
         req[t].phase # "idle" /\ t \notin upset' => t \notin upset /\ NoneLost(TabUser[t])
  PROVE  CopyOf(t)'
<1> DEFINE u == TabUser[t]
<1>1. \A p \in Puzzles : /\ owed[t][p] \in Nat /\ pd[t].menu[p] \in Nat
                         /\ Len(solves[u][p]) \in Nat /\ Len(solves'[u][p]) \in Nat
  <2>1. u \in Users
    BY RequestFacts
  <2>2. \A p \in Puzzles : solves[u][p] \in Seq(Nat) /\ solves'[u][p] \in Seq(Nat)
    BY <2>1 DEF TypeOK
  <2>3. \A p \in Puzzles : owed[t][p] \in Nat /\ pd[t].menu[p] \in Nat
    BY DEF PagesTypeOK, PageData
  <2> QED BY <2>2, <2>3, LenProperties
<1>2. Event(t)' = Event(t)
  BY DEF Event
<1>3. ASSUME t \notin upset', req[t].phase # "idle"
      PROVE  Owing(t)' /\ (req[t].phase = "loaded" => InBetween(t)')
  <2>1. NoneLost(u) /\ Owing(t)
    BY <1>3 DEF CopyOf
  <2>2. Owing(t)'
    BY <1>1, <2>1 DEF Owing, NoneLost
  <2>3. ASSUME req[t].phase = "loaded"
        PROVE  InBetween(t)'
    <3>1. InBetween(t)
      BY <1>3, <2>1, <2>3 DEF CopyOf
    <3> QED BY <1>1, <1>2, <2>1, <3>1 DEF InBetween, NoneLost
  <2> QED BY <2>2, <2>3
<1> QED BY <1>3 DEF CopyOf

\* An answer never takes a solve away from anyone.
LEMMA HandleGrows ==
  ASSUME Support, NEW t \in Tabs, Handle(t) \/ Browse(t), NEW u \in Users
  PROVE  NoneLost(u)
<1>1. \A p \in Puzzles : solves[u][p] \in Seq(Nat) /\ Len(solves[u][p]) \in Nat
  BY LenProperties DEF Support, TypeOK
<1>2. CASE UNCHANGED solves
  BY <1>1, <1>2 DEF NoneLost
<1>3. ASSUME NEW part \in Int, NEW text \in Texts, RightAnswer(t, part, text)
      PROVE  NoneLost(u)
  <2>1. RightWritten(t)
    BY <1>3, RightEffect DEF Support
  <2>2. req[t].asked \in Nat
    BY RequestFacts DEF Support
  <2>3. \A p \in Puzzles : \/ solves'[u][p] = solves[u][p]
                           \/ solves'[u][p] = Append(solves[u][p], req[t].asked)
    BY <2>1 DEF RightWritten, ChangedAt
  <2>4. \A p \in Puzzles : Len(Append(solves[u][p], req[t].asked)) = Len(solves[u][p]) + 1
    BY <1>1, <2>2, AppendProperties
  <2> QED BY <1>1, <2>3, <2>4 DEF NoneLost
<1>4. PostedParts(req[t].puzzle) \subseteq Int
  BY LoadedAssumption, RequestFacts DEF PostedParts, Support
<1>5. UNCHANGED solves \/ \E part \in Int, text \in Texts : RightAnswer(t, part, text)
  BY <1>4 DEF Handle, Submit, Browse, RefuseLocked, RefuseForm, RefusePart, AlreadySolved,
              PartTooFar, EmptyAnswer, TimeoutAnswer, WrongAnswer, progress
<1> QED BY <1>2, <1>3, <1>5

\* The end of a request, seen from its connection.
LEMMA ReplyEnds ==
  ASSUME TypeOK, NEW t \in Tabs, Handle(t) \/ Browse(t)
  PROVE  /\ req'[t].phase = "idle"
         /\ \A s \in Tabs \ {t} : req'[s] = req[s]
<1>1. \E reply : req' = [req EXCEPT ![t] = Idle(reply)]
  BY DEF Browse, Handle, RefuseLocked, RefuseForm, RefusePart, AlreadySolved, PartTooFar,
         Submit, EmptyAnswer, TimeoutAnswer, WrongAnswer, RightAnswer, Respond
<1> QED BY <1>1 DEF TypeOK, Idle

\* The clock stands still while requests are handled, and nobody stops having
\* been a tester.
LEMMA HandleKeepsTime ==
  ASSUME TypeOK, NEW t \in Tabs, Handle(t) \/ Browse(t)
  PROVE  now' = now /\ wasTester' = wasTester
BY DEF Browse, Handle, RefuseLocked, RefuseForm, RefusePart, AlreadySolved, PartTooFar,
       Submit, EmptyAnswer, TimeoutAnswer, WrongAnswer, RightAnswer

\* A handler leaves the other connections' copies alone.
LEMMA OthersKept ==
  ASSUME Support, TypeOK', Copies, NEW t \in Tabs, Handle(t) \/ Browse(t), NEW page, Show(t, page)
  PROVE  \A s \in Tabs \ {t} : CopyOf(s)'
<1> SUFFICES ASSUME NEW s \in Tabs \ {t}
             PROVE  CopyOf(s)'
  OBVIOUS
<1>1. req'[s] = req[s] /\ pd'[s] = pd[s] /\ owed'[s] = owed[s] /\ (s \notin upset' => s \notin upset)
  BY ReplyEnds DEF Show, Copies, PagesTypeOK, Support
<1>2. TabUser[s] \in Users
  BY RequestFacts DEF Support
<1>3. NoneLost(TabUser[s])
  BY <1>2, HandleGrows
<1> QED BY <1>1, <1>3, CopyKept DEF Support, Copies

\* Showing a page keeps the types.
LEMMA ShowType ==
  ASSUME PagesTypeOK, NEW t \in Tabs, NEW page \in PageData, Show(t, page)
  PROVE  PagesTypeOK'
BY BlankType DEF PagesTypeOK, Show

\* A handler preserves the invariant, whatever page it shows.
LEMMA ShowStep ==
  ASSUME Support, TypeOK', Copies, NEW t \in Tabs, Handle(t) \/ Browse(t),
         NEW page \in PageData, Show(t, page)
  PROVE  Copies'
<1>1. PagesTypeOK'
  BY ShowType DEF Copies
<1>2. CopyOf(t)'
  BY ReplyEnds DEF CopyOf, Support
<1> QED BY <1>1, <1>2, OthersKept DEF Copies

\* The page of a user's request, made from its copy.
LEMMA ViewPage ==
  ASSUME Support, Copies, NEW t \in Tabs, req[t].phase = "loaded",
         NEW page \in PagesFor(t, pd[t], req[t].tester)
  PROVE  /\ SamePage(page, pd[t])
         /\ page.to # NoPuzzle =>
              /\ page.to \in Puzzles /\ ~Locked(page.to, req[t].asked, req[t].tester)
              /\ page.answers <= pd[t].menu[page.to] /\ page.texts <= pd[t].menu[page.to] + 1
              /\ EventOf[page.to] = Event(t)
<1>1. pd[t] \in PageData /\ pd[t].to = NoPuzzle /\ pd[t].texts = 0 /\ pd[t].answers = 0
  BY DEF Copies, CopyOf, PagesTypeOK
<1>2. req[t].tester \in BOOLEAN
  BY RequestFacts DEF Support
<1> QED BY <1>1, <1>2, PageContents DEF Support

\* The menu of a visitor.
VisitorPage(t) == Menu(t, FALSE, FALSE, NoSolves)

\* A visitor sees one of the pages made from that menu.
LEMMA VisitPage ==
  ASSUME TypeOK, NEW t \in Tabs, Visit(t)
  PROVE  \E page \in PagesFor(t, VisitorPage(t), FALSE) : Show(t, page)
BY DEF Visit, PagesFor, VisitorPage

\* Such a page is no user's, and leads only to puzzles that are not locked.
LEMMA VisitContents ==
  ASSUME TypeOK, NEW t \in Tabs, NEW page \in PagesFor(t, VisitorPage(t), FALSE)
  PROVE  /\ SamePage(page, VisitorPage(t)) /\ page.user = FALSE
         /\ page.to # NoPuzzle => page.to \in Puzzles /\ ~Locked(page.to, req[t].asked, FALSE)
         /\ \A p \in page.open : p \in Puzzles /\ ~Locked(p, req[t].asked, FALSE)
<1> DEFINE old == VisitorPage(t)
<1>1. /\ old \in PageData /\ old.user = FALSE
      /\ old.to = NoPuzzle /\ old.texts = 0 /\ old.answers = 0
      /\ \A p \in old.open : p \in Puzzles /\ ~Locked(p, req[t].asked, FALSE)
  <2>1. old = Menu(t, FALSE, FALSE, NoSolves)
    BY DEF VisitorPage
  <2> HIDE DEF old
  <2>2. old \in PageData
    BY <2>1, MenuType, BlankType
  <2> QED BY <2>1, <2>2, MenuContents, BlankType
<1> HIDE DEF old
<1>2. page \in PagesFor(t, old, FALSE)
  BY DEF old
<1>3. /\ SamePage(page, old)
      /\ page.to # NoPuzzle => page.to \in Puzzles /\ ~Locked(page.to, req[t].asked, FALSE)
  BY <1>1, <1>2, PageContents
<1> QED BY <1>1, <1>3 DEF SamePage, old

\* Every step of the pages preserves the invariant.
LEMMA CopiesStep ==
  ASSUME Support, TypeOK', Copies, PagesNext
  PROVE  Copies'
<1>1. CASE Tick /\ UNCHANGED pages
  <2>1. /\ \A u \in Users : NoneLost(u)
        /\ UNCHANGED <<req, pd, owed, upset>>
    BY <1>1, LenProperties DEF Tick, progress, pages, NoneLost, Support, TypeOK
  <2> QED BY <2>1, CopyKept, RequestFacts DEF Copies, Support, PagesTypeOK
<1>2. ASSUME NEW u \in Users, NEW b \in BOOLEAN, SetTester(u, b) /\ UNCHANGED pages
      PROVE  Copies'
  <2>1. /\ \A v \in Users : NoneLost(v)
        /\ UNCHANGED <<req, pd, owed, upset>>
    BY <1>2, LenProperties DEF SetTester, progress, pages, NoneLost, Support, TypeOK
  <2> QED BY <2>1, CopyKept, RequestFacts DEF Copies, Support, PagesTypeOK
<1>3. ASSUME NEW u \in Users, ResetUser(u)
      PROVE  Copies'
  <2>1. /\ UNCHANGED <<req, pd, owed>>
        /\ upset' = upset \union {t \in Tabs : TabUser[t] = u /\ req[t].phase # "idle"}
    BY <1>3 DEF ResetUser, DeleteProgress
  <2>2. \A v \in Users \ {u} : NoneLost(v)
    BY <1>3, LenProperties DEF ResetUser, DeleteProgress, NoneLost, Support, TypeOK
  <2>3. ASSUME NEW t \in Tabs
        PROVE  CopyOf(t)'
    BY <2>1, <2>2, CopyKept, RequestFacts DEF Copies, Support
  <2> QED BY <2>1, <2>3 DEF Copies, PagesTypeOK
<1>4. ASSUME NEW t \in Tabs, NEW p \in Puzzles, Ask(t, p)
      PROVE  Copies'
  <2>1. TabUser[t] \in Users
    BY RequestFacts DEF Support
  <2>2. /\ \A u \in Users : NoneLost(u)
        /\ \A s \in Tabs \ {t} : req'[s] = req[s] /\ pd'[s] = pd[s] /\ owed'[s] = owed[s]
        /\ upset' = upset /\ solves' = solves /\ owed'[t] = Solved(TabUser[t])
        /\ req'[t].phase = "arrived"
    BY <1>4, LenProperties DEF Ask, Arrive, progress, NoneLost, Support, TypeOK, Copies, PagesTypeOK, Idle
  <2>3. PagesTypeOK'
    BY <1>4, <2>1, SolvedType, BlankType DEF Ask, Copies, PagesTypeOK, Support
  <2>4. CopyOf(t)'
    BY <2>1, <2>2, SolvedType, LenProperties DEF CopyOf, Owing, Support, TypeOK
  <2>5. ASSUME NEW s \in Tabs \ {t}
        PROVE  CopyOf(s)'
    BY <2>2, CopyKept, RequestFacts DEF Copies, Support
  <2> QED BY <2>3, <2>4, <2>5 DEF Copies
<1>5. ASSUME NEW t \in Tabs, Authenticate(t) /\ UNCHANGED pages
      PROVE  Copies'
  <2>1. /\ \A u \in Users : NoneLost(u)
        /\ \A s \in Tabs \ {t} : req'[s] = req[s]
        /\ UNCHANGED <<pd, owed, upset, solves>>
        /\ req[t].phase = "arrived" /\ req'[t].phase = "authenticated"
    BY <1>5, LenProperties DEF Authenticate, progress, pages, NoneLost, Support, TypeOK, Request
  <2>2. CopyOf(t)'
    BY <2>1 DEF CopyOf, Owing, Copies
  <2>3. ASSUME NEW s \in Tabs \ {t}
        PROVE  CopyOf(s)'
    BY <2>1, CopyKept, RequestFacts DEF Copies, Support
  <2> QED BY <2>1, <2>2, <2>3 DEF Copies, PagesTypeOK
<1>6. ASSUME NEW t \in Tabs, Load(t)
      PROVE  Copies'
  <2> DEFINE u == TabUser[t]
             count == IF stored[u][Event(t)] THEN Solved(u) ELSE NoSolves
             page == Menu(t, TRUE, req[t].tester, count)
  <2>1. u \in Users /\ Event(t) \in Events
    BY RequestFacts DEF Support
  <2>2. count \in [Puzzles -> Nat]
    BY <2>1, SolvedType, BlankType DEF Support
  <2>3. \A p \in Puzzles : EventOf[p] = Event(t) => count[p] = Len(solves[u][p])
    <3>1. CASE stored[u][Event(t)]
      BY <2>1, <3>1, SolvedType DEF Support
    <3>2. ASSUME ~stored[u][Event(t)], NEW p \in Puzzles, EventOf[p] = Event(t)
          PROVE  count[p] = Len(solves[u][p])
      <4>1. solves[u][p] = <<>>
        BY <2>1, <3>2 DEF Support, Consistent, AbsentIsEmpty
      <4> QED BY <3>2, <4>1 DEF NoSolves
    <3> QED BY <3>1, <3>2
  <2> HIDE DEF count
  <2>4. /\ page \in PageData /\ page.user = TRUE /\ page.to = NoPuzzle
        /\ page.texts = 0 /\ page.answers = 0
        /\ \A p \in Puzzles : EventOf[p] = Event(t) => page.menu[p] = Len(solves[u][p])
    <3>1. page = Menu(t, TRUE, req[t].tester, count)
      OBVIOUS
    <3> HIDE DEF page
    <3>2. page \in PageData /\ req[t].tester \in BOOLEAN
      BY <2>2, <3>1, MenuType, RequestFacts DEF Support
    <3>3. /\ page.user = TRUE /\ page.to = NoPuzzle /\ page.texts = 0 /\ page.answers = 0
          /\ \A p \in Puzzles : EventOf[p] = Event(t) => page.menu[p] = count[p]
      BY <2>2, <3>1, <3>2, BlankType DEF Menu, BlankPage, PageData
    <3>4. \A p \in Puzzles : EventOf[p] = Event(t) => page.menu[p] = Len(solves[u][p])
      BY <2>3, <3>3
    <3> QED BY <3>2, <3>3, <3>4
  <2> HIDE DEF page
  <2>5. /\ LoadProgress(t) /\ pd' = [pd EXCEPT ![t] = page] /\ UNCHANGED <<owed, upset>>
    BY <1>6 DEF Load, page, count
  <2>6. /\ \A v \in Users : NoneLost(v)
        /\ \A s \in Tabs \ {t} : req'[s] = req[s] /\ pd'[s] = pd[s]
        /\ UNCHANGED <<owed, upset, solves>> /\ pd'[t] = page
        /\ req[t].phase = "authenticated" /\ req'[t].puzzle = req[t].puzzle
    BY <2>5, LenProperties DEF LoadProgress, progress, NoneLost, Support, TypeOK, Request, Copies, PagesTypeOK
  <2>7. PagesTypeOK'
    BY <2>4, <2>5 DEF Copies, PagesTypeOK
  <2>8. Event(t)' = Event(t)
    BY <2>6 DEF Event
  <2>9. t \notin upset => Owing(t)
    BY <2>6 DEF Copies, CopyOf
  <2>10. t \notin upset' => Owing(t)' /\ InBetween(t)'
    <3>1. \A p \in Puzzles : Len(solves[u][p]) \in Nat
      BY <2>1, LenProperties DEF Support, TypeOK
    <3> QED BY <2>4, <2>6, <2>8, <2>9, <3>1 DEF Owing, InBetween
  <2>11. CopyOf(t)'
    BY <2>4, <2>6, <2>10 DEF CopyOf
  <2>12. ASSUME NEW s \in Tabs \ {t}
         PROVE  CopyOf(s)'
    BY <2>6, CopyKept, RequestFacts DEF Copies, Support
  <2> QED BY <2>7, <2>11, <2>12 DEF Copies
<1>7. ASSUME NEW t \in Tabs, Answer(t)
      PROVE  Copies'
  <2> DEFINE page == [pd[t] EXCEPT !.menu = Counted(@, req[t].puzzle, req'[t].reply.kind)]
  <2>1. page \in PageData
    BY RequestFacts, CountedType DEF Copies, PagesTypeOK, Support
  <2>2. Handle(t) /\ Show(t, page)
    BY <1>7 DEF Answer
  <2> QED BY <2>1, <2>2, ShowStep
<1>8. ASSUME NEW t \in Tabs, View(t)
      PROVE  Copies'
  <2>1. PICK page \in PagesFor(t, pd[t], req[t].tester) : Browse(t) /\ Show(t, page)
    BY <1>8 DEF View
  <2>2. page \in PageData
    BY <1>8, <2>1, ViewPage DEF View, SamePage
  <2> QED BY <2>1, <2>2, ShowStep
<1>9. ASSUME NEW t \in Tabs, Visit(t)
      PROVE  Copies'
  <2>1. PICK page \in PagesFor(t, VisitorPage(t), FALSE) : Browse(t) /\ Show(t, page)
    BY <1>9, VisitPage DEF Visit, Support
  <2>2. page \in PageData
    BY <2>1, VisitContents DEF SamePage, Support
  <2> QED BY <2>1, <2>2, ShowStep
<1> QED BY <1>1, <1>2, <1>3, <1>4, <1>5, <1>6, <1>7, <1>8, <1>9 DEF PagesNext

\* In the beginning no request carries anything.
LEMMA CopiesInit == PagesInit => Copies
BY BlankType DEF PagesInit, Init, Copies, CopyOf, PagesTypeOK, Idle

\* Support and the copies hold in every reachable state.
LEMMA AlwaysCopies == PagesSpec => [](Support /\ Copies)
<1>1. Support /\ Support' /\ Copies /\ [PagesNext]_pageVars => Copies'
  <2>1. Support /\ Support' /\ Copies /\ PagesNext => Copies'
    BY CopiesStep DEF Support
  <2>2. Copies /\ UNCHANGED pageVars => Copies'
    BY DEF Copies, CopyOf, PagesTypeOK, Owing, InBetween, Event, pageVars, pages, vars, progress
  <2> QED BY <2>1, <2>2
<1> QED BY <1>1, CopiesInit, PagesSupported, PTL DEF PagesSpec

\* The page data always has its type.
THEOREM PagesTypeCorrect == PagesSpec => []PagesTypeOK
<1>1. Copies => PagesTypeOK
  BY DEF Copies
<1> QED BY <1>1, AlwaysCopies, PTL

------------------------------------------------------------------------------
(* Nothing is shown early.                                                 *)

\* A puzzle the handlers do not take to be locked is not.
LEMMA LockHolds ==
  ASSUME Support, NEW t \in Tabs, NEW p \in Puzzles, NEW flag \in BOOLEAN,
         ~Locked(p, req[t].asked, flag), flag => req[t].tester
  PROVE  Unlock[p] <= now \/ (flag /\ TabUser[t] \in wasTester)
<1>1. Unlock[p] \in Nat /\ req[t].asked \in Nat /\ now \in Nat
  BY RequestFacts, ConfigAssumption DEF Support, TypeOK
<1>2. req[t].asked <= now /\ (req[t].tester => TabUser[t] \in wasTester)
  BY DEF Support, Consistent, RequestsHonest
<1> QED BY <1>1, <1>2 DEF Locked

\* NothingEarly, about one page.
InTime(t, page) ==
  \A p \in page.open \union ({page.to} \ {NoPuzzle}) :
    Unlock[p] <= now \/ (page.user /\ TabUser[t] \in wasTester)

\* A page keeps to the unlock times if what it adds to another is not locked.
LEMMA AddedInTime ==
  ASSUME Support, NEW t \in Tabs, NEW old, InTime(t, old),
         NEW page \in PageData, page.open = old.open, page.user = old.user,
         NEW flag \in BOOLEAN, flag => req[t].tester /\ page.user,
         page.to # NoPuzzle => page.to \in Puzzles /\ ~Locked(page.to, req[t].asked, flag)
  PROVE  InTime(t, page)
BY LockHolds DEF InTime

\* A page of nothing but open puzzles keeps to the unlock times.
LEMMA OpenInTime ==
  ASSUME Support, NEW t \in Tabs, NEW page \in PageData,
         NEW flag \in BOOLEAN, flag => req[t].tester /\ page.user,
         \A p \in page.open : p \in Puzzles /\ ~Locked(p, req[t].asked, flag),
         page.to # NoPuzzle => page.to \in Puzzles /\ ~Locked(page.to, req[t].asked, flag)
  PROVE  InTime(t, page)
BY LockHolds DEF InTime

\* Every step keeps the pages to the unlock times.
LEMMA EarlyStep ==
  ASSUME Support, Copies, NothingEarly, PagesNext
  PROVE  NothingEarly'
<1>1. now \in Nat /\ now' \in Nat /\ now <= now' /\ wasTester \subseteq wasTester'
  <2>1. Next \/ UNCHANGED vars
    BY PagesStepIsStep
  <2>2. CASE Next
    BY <2>2, HistoryStep DEF Support
  <2>3. CASE UNCHANGED vars
    BY <2>3 DEF vars, Support, TypeOK
  <2> QED BY <2>1, <2>2, <2>3
<1>2. \A t \in Tabs : pd[t] \in PageData /\ InTime(t, pd[t])
  BY DEF NothingEarly, InTime, Copies, PagesTypeOK
<1>3. \A p \in Puzzles : Unlock[p] \in Nat
  BY ConfigAssumption
<1>4. ASSUME NEW t \in Tabs, InTime(t, pd'[t]), pd'[t] \in PageData
      PROVE  \A p \in pd'[t].open \union ({pd'[t].to} \ {NoPuzzle}) :
               Unlock[p] <= now' \/ (pd'[t].user /\ TabUser[t] \in wasTester')
  BY <1>1, <1>3, <1>4 DEF InTime, PageData
<1>5. SUFFICES ASSUME NEW t \in Tabs
               PROVE  pd'[t] \in PageData /\ InTime(t, pd'[t])
  BY <1>4 DEF NothingEarly
<1>6. CASE pd'[t] = pd[t]
  BY <1>2, <1>6
<1>7. CASE \E p \in Puzzles : Ask(t, p)
  <2>1. pd'[t] = BlankPage
    BY <1>7 DEF Ask, Copies, PagesTypeOK
  <2> QED BY <2>1, BlankType DEF InTime, BlankPage
<1>8. CASE Load(t)
  <2>1. PICK count \in [Puzzles -> Nat] : pd'[t] = Menu(t, TRUE, req[t].tester, count)
    BY <1>8, SolvedType, BlankType, RequestFacts DEF Load, Copies, PagesTypeOK, Support
  <2>2. req[t].tester \in BOOLEAN
    BY RequestFacts DEF Support
  <2>3. pd'[t] \in PageData
    BY <2>1, <2>2, MenuType
  <2>4. /\ pd'[t].user /\ pd'[t].to = NoPuzzle
        /\ \A p \in pd'[t].open : p \in Puzzles /\ ~Locked(p, req[t].asked, req[t].tester)
    BY <2>1, BlankType DEF Menu, BlankPage, PageData
  <2> QED BY <2>2, <2>3, <2>4, OpenInTime
<1>9. CASE Answer(t)
  <2> DEFINE page == [pd[t] EXCEPT !.menu = Counted(@, req[t].puzzle, req'[t].reply.kind)]
  <2>1. pd'[t] = page
    BY <1>9 DEF Answer, Show, Copies, PagesTypeOK
  <2>2. page \in PageData
    BY <1>2, RequestFacts, CountedType DEF Support
  <2>3. page.user = pd[t].user /\ page.to = pd[t].to /\ page.open = pd[t].open
    BY <1>2, <2>2, RequestFacts, CountedContents DEF Support
  <2> HIDE DEF page
  <2> QED BY <1>2, <2>1, <2>2, <2>3 DEF InTime
<1>10. CASE View(t)
  <2>1. PICK page \in PagesFor(t, pd[t], req[t].tester) : Show(t, page)
    BY <1>10 DEF View
  <2>2. req[t].phase = "loaded" /\ pd[t].user /\ req[t].tester \in BOOLEAN
    BY <1>10, RequestFacts DEF View, Copies, CopyOf, Support
  <2>3. /\ page \in PageData /\ page.open = pd[t].open /\ page.user = pd[t].user
        /\ page.to # NoPuzzle =>
             page.to \in Puzzles /\ ~Locked(page.to, req[t].asked, req[t].tester)
    BY <2>1, <2>2, ViewPage DEF SamePage
  <2>4. pd'[t] = page
    BY <2>1 DEF Show, Copies, PagesTypeOK
  <2> QED BY <1>2, <2>2, <2>3, <2>4, AddedInTime
<1>11. CASE Visit(t)
  <2>1. PICK page \in PagesFor(t, VisitorPage(t), FALSE) : Show(t, page)
    BY <1>11, VisitPage DEF Support
  <2>2. pd'[t] = page
    BY <2>1 DEF Show, Copies, PagesTypeOK
  <2>3. /\ page \in PageData
        /\ page.to # NoPuzzle => page.to \in Puzzles /\ ~Locked(page.to, req[t].asked, FALSE)
        /\ \A p \in page.open : p \in Puzzles /\ ~Locked(p, req[t].asked, FALSE)
    BY VisitContents DEF SamePage, Support
  <2> QED BY <2>2, <2>3, OpenInTime
<1>12. ASSUME NEW s \in Tabs \ {t},
              Load(s) \/ Answer(s) \/ View(s) \/ Visit(s) \/ \E p \in Puzzles : Ask(s, p)
       PROVE  pd'[t] = pd[t]
  BY <1>12 DEF Load, Answer, View, Visit, Ask, Show, Copies, PagesTypeOK
<1> QED BY <1>6, <1>7, <1>8, <1>9, <1>10, <1>11, <1>12 DEF PagesNext, ResetUser, pages

\* No page names, shows or leads to a puzzle before its time, but for testers.
THEOREM NothingShownEarly == PagesSpec => []NothingEarly
<1>1. PagesInit => NothingEarly
  BY DEF PagesInit, NothingEarly, BlankPage
<1>2. Support /\ Copies /\ NothingEarly /\ [PagesNext]_pageVars => NothingEarly'
  <2>1. NothingEarly /\ UNCHANGED pageVars => NothingEarly'
    BY DEF NothingEarly, pageVars, pages, vars
  <2> QED BY <2>1, EarlyStep
<1> QED BY <1>1, <1>2, AlwaysCopies, PTL DEF PagesSpec

------------------------------------------------------------------------------
(* The count on a page lies between the solves on arrival and those now.   *)

\* PagesBetween, about one connection.
Between(t) ==
  LET u == TabUser[t]
      page == pd'[t]
      won(p) == req'[t].reply.kind = "correct" /\ p = req[t].puzzle
  IN  /\ \A p \in Puzzles : EventOf[p] = Event(t) =>
           /\ owed[t][p] + (IF won(p) THEN 1 ELSE 0) <= page.menu[p]
           /\ page.menu[p] <= Len(solves'[u][p])
      /\ page.to # NoPuzzle =>
           /\ page.answers <= Len(solves'[u][page.to])
           /\ page.texts <= Len(solves'[u][page.to]) + 1

\* The numbers that are compared.
LEMMA CountTypes ==
  ASSUME Support, Support', Copies, NEW t \in Tabs, NEW p \in Puzzles
  PROVE  /\ owed[t][p] \in Nat /\ pd[t].menu[p] \in Nat
         /\ Len(solves[TabUser[t]][p]) \in Nat /\ Len(solves'[TabUser[t]][p]) \in Nat
<1>1. TabUser[t] \in Users
  BY RequestFacts DEF Support
<1>2. solves[TabUser[t]][p] \in Seq(Nat) /\ solves'[TabUser[t]][p] \in Seq(Nat)
  BY <1>1 DEF Support, TypeOK
<1> QED BY <1>2, LenProperties DEF Copies, PagesTypeOK, PageData

\* The page a right answer gets counts the part just stored, and only then.
LEMMA AnswerBetween ==
  ASSUME Support, Support', Copies, NEW t \in Tabs, t \notin upset, Answer(t),
         req[t].phase = "loaded"
  PROVE  Between(t)
<1> DEFINE u == TabUser[t]
           own == req[t].puzzle
           kind == req'[t].reply.kind
           page == [pd[t] EXCEPT !.menu = Counted(@, own, kind)]
           right == kind = "correct"
<1>1. Handle(t) /\ u \in Users /\ pd[t] \in PageData /\ own \in Puzzles
  BY RequestFacts DEF Answer, Support, Copies, PagesTypeOK
<1>2. pd[t].to = NoPuzzle /\ InBetween(t)
  BY DEF Copies, CopyOf
<1>3. pd'[t] = page
  BY DEF Answer, Show, Copies, PagesTypeOK
<1>4. page \in PageData
  BY <1>1, CountedType
<1>5. /\ page.to = pd[t].to
      /\ \A p \in Puzzles :
           page.menu[p] = IF right /\ p = own THEN pd[t].menu[p] + 1 ELSE pd[t].menu[p]
  <2>1. page = [pd[t] EXCEPT !.menu = Counted(@, own, kind)]
    OBVIOUS
  <2> HIDE DEF page, kind, own
  <2>2. page.to = pd[t].to
    BY <1>1, <1>4, <2>1, CountedContents
  <2>3. page.menu = Counted(pd[t].menu, own, kind) /\ pd[t].menu \in [Puzzles -> Nat]
    BY <1>1, <2>1 DEF PageData
  <2>4. \A p \in Puzzles : Counted(pd[t].menu, own, kind)[p] =
                            IF right /\ p = own THEN pd[t].menu[p] + 1 ELSE pd[t].menu[p]
    BY <2>3 DEF Counted
  <2> QED BY <2>2, <2>3, <2>4
<1>6. right => Len(solves'[u][own]) = Len(solves[u][own]) + 1
  BY <1>1, HandleTruthful DEF Won
<1>7. \A p \in Puzzles : Len(solves[u][p]) <= Len(solves'[u][p])
  BY <1>1, HandleGrows DEF NoneLost
<1> HIDE DEF page, right, kind
<1>8. ASSUME NEW p \in Puzzles, EventOf[p] = Event(t)
      PROVE  /\ owed[t][p] + (IF right /\ p = own THEN 1 ELSE 0) <= page.menu[p]
             /\ page.menu[p] <= Len(solves'[u][p])
  <2>1. owed[t][p] <= pd[t].menu[p] /\ pd[t].menu[p] <= Len(solves[u][p])
    BY <1>2, <1>8 DEF InBetween
  <2>2. /\ owed[t][p] \in Nat /\ pd[t].menu[p] \in Nat
        /\ Len(solves[u][p]) \in Nat /\ Len(solves'[u][p]) \in Nat
    BY CountTypes
  <2> HIDE DEF u, own
  <2>3. CASE right /\ p = own
    BY <1>5, <1>6, <2>1, <2>2, <2>3
  <2>4. CASE ~(right /\ p = own)
    BY <1>5, <1>7, <2>1, <2>2, <2>4
  <2> QED BY <2>3, <2>4
<1> QED BY <1>2, <1>3, <1>5, <1>8 DEF Between, right, kind

\* Any other page is made from the copy.
LEMMA ViewBetween ==
  ASSUME Support, Support', Copies, NEW t \in Tabs, t \notin upset, View(t)
  PROVE  Between(t)
<1> DEFINE u == TabUser[t]
<1>1. PICK page \in PagesFor(t, pd[t], req[t].tester) : Show(t, page)
  BY DEF View
<1>2. req[t].phase = "loaded" /\ Browse(t) /\ u \in Users
  BY RequestFacts DEF View, Support
<1>3. InBetween(t)
  BY <1>2 DEF Copies, CopyOf
<1>4. /\ page \in PageData /\ page.menu = pd[t].menu
      /\ page.to # NoPuzzle =>
           /\ page.to \in Puzzles /\ EventOf[page.to] = Event(t)
           /\ page.answers <= pd[t].menu[page.to] /\ page.texts <= pd[t].menu[page.to] + 1
  BY <1>1, <1>2, ViewPage DEF SamePage
<1>5. pd'[t] = page
  BY <1>1 DEF Show, Copies, PagesTypeOK
<1>6. NoneLost(u)
  BY <1>2, HandleGrows
<1>7. req'[t].reply.kind # "correct"
  BY <1>2 DEF Browse, Respond, Idle, Support, TypeOK
<1>8. ASSUME NEW p \in Puzzles, EventOf[p] = Event(t)
      PROVE  /\ owed[t][p] <= pd[t].menu[p] /\ pd[t].menu[p] <= Len(solves'[u][p])
             /\ owed[t][p] \in Nat /\ pd[t].menu[p] \in Nat /\ Len(solves'[u][p]) \in Nat
  BY <1>3, <1>6, <1>8, CountTypes DEF InBetween, NoneLost
<1>9. page.to # NoPuzzle =>
        page.answers <= Len(solves'[u][page.to]) /\ page.texts <= Len(solves'[u][page.to]) + 1
  BY <1>4, <1>8 DEF PageData
<1>10. \A p \in Puzzles : EventOf[p] = Event(t) =>
         owed[t][p] + 0 <= page.menu[p] /\ page.menu[p] <= Len(solves'[u][p])
  BY <1>4, <1>8
<1> QED BY <1>5, <1>7, <1>9, <1>10 DEF Between

\* Pages are only shown by the handlers, each on its own connection.
LEMMA ShownBy ==
  ASSUME Support, Copies, PagesNext, NEW t \in Tabs, Shown(t)
  PROVE  Answer(t) \/ View(t)
<1> USE DEF Shown, Support, TypeOK
<1>1. CASE Tick /\ UNCHANGED pages
  BY <1>1 DEF Tick
<1>2. ASSUME NEW u \in Users, ResetUser(u) \/ \E b \in BOOLEAN : SetTester(u, b) /\ UNCHANGED pages
      PROVE  FALSE
  BY <1>2 DEF ResetUser, DeleteProgress, SetTester
<1>3. ASSUME NEW s \in Tabs, NEW p \in Puzzles, Ask(s, p)
      PROVE  FALSE
  BY <1>3 DEF Ask, Arrive, Idle
<1>4. ASSUME NEW s \in Tabs, Authenticate(s) \/ Load(s)
      PROVE  FALSE
  <2>1. req'[s].phase = "authenticated" \/ req'[s].phase = "loaded"
    <3>1. req[s] \in Request /\ req \in [Tabs -> Request]
      OBVIOUS
    <3>2. CASE Authenticate(s)
      BY <3>1, <3>2 DEF Authenticate, Request
    <3>3. CASE Load(s)
      BY <3>1, <3>3 DEF Load, LoadProgress, Request
    <3> QED BY <1>4, <3>2, <3>3
  <2>2. s # t => req'[t] = req[t]
    BY <1>4 DEF Authenticate, Load, LoadProgress
  <2> QED BY <2>1, <2>2
<1>5. ASSUME NEW s \in Tabs, Answer(s) \/ View(s) \/ Visit(s)
      PROVE  s = t
  BY <1>5, ReplyEnds DEF Answer, View, Visit
<1>6. ASSUME Visit(t)
      PROVE  FALSE
  <2>1. PICK page \in PagesFor(t, VisitorPage(t), FALSE) : Show(t, page)
    BY <1>6, VisitPage
  <2>2. pd'[t] = page /\ page.user = FALSE
    BY <2>1, VisitContents DEF Show, Copies, PagesTypeOK
  <2> QED BY <2>2
<1> QED BY <1>1, <1>2, <1>3, <1>4, <1>5, <1>6 DEF PagesNext

\* A page counts all that was solved when it was asked for, and its own part if
\* the answer was right, but nothing that is not stored.
THEOREM PagesAlwaysBetween == PagesSpec => PagesBetween
<1>1. ASSUME Support, Support', Copies, [PagesNext]_pageVars,
             NEW t \in Tabs, Shown(t), t \notin upset
      PROVE  Between(t)
  <2>1. PagesNext
    BY <1>1 DEF Shown, pageVars, vars
  <2>2. Answer(t) \/ View(t)
    BY <1>1, <2>1, ShownBy
  <2>3. Answer(t) => req[t].phase = "loaded"
    BY DEF Answer, Handle, RefuseLocked, RefuseForm, RefusePart, AlreadySolved, PartTooFar,
           Submit, EmptyAnswer, TimeoutAnswer, WrongAnswer, RightAnswer, Judged, OnCurrentPart, Admitted
  <2> QED BY <1>1, <2>2, <2>3, AnswerBetween, ViewBetween
<1>2. Support /\ Support' /\ Copies /\ [PagesNext]_pageVars =>
        [\A t \in Tabs : Shown(t) /\ t \notin upset =>
           LET u == TabUser[t]
               page == pd'[t]
               won(p) == req'[t].reply.kind = "correct" /\ p = req[t].puzzle
           IN  /\ \A p \in Puzzles : EventOf[p] = Event(t) =>
                    /\ owed[t][p] + (IF won(p) THEN 1 ELSE 0) <= page.menu[p]
                    /\ page.menu[p] <= Len(solves'[u][p])
               /\ page.to # NoPuzzle =>
                    /\ page.answers <= Len(solves'[u][page.to])
                    /\ page.texts <= Len(solves'[u][page.to]) + 1]_pageVars
  BY <1>1 DEF Between
<1> QED BY <1>2, AlwaysCopies, PTL DEF PagesSpec, PagesBetween
=============================================================================
