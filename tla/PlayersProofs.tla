--------------------------- MODULE PlayersProofs ----------------------------
(***************************************************************************)
(* Proofs about the players: first the pages that rank them, then the      *)
(* accounts they log in to.  The two parts share nothing.                  *)
(*                                                                         *)
(* About the ranking: the table of a page is read by one transaction and   *)
(* depends on the order sorting leaves the solves in, so what holds of it  *)
(* is proved of any replay of the stored solves (sections up to the chart) *)
(* and then kept by the steps of all pages.  About the accounts: one for   *)
(* each person, flags that only administrators change, and pictures that   *)
(* are what the record says.                                               *)
(***************************************************************************)
EXTENDS Accounts, Leaderboard, FiniteSetTheorems, FunctionTheorems, SequenceTheorems, TLAPS

-----------------------------------------------------------------------------
(* Finite sets.                                                            *)

\* Of some subsets of a finite set, one contains no other of them.
LEMMA LeastSubset ==
  ASSUME NEW S, IsFiniteSet(S), NEW C, C # {}, \A T \in C : T \subseteq S
  PROVE  \E T \in C : \A U \in C : U \subseteq T => U = T
<1>1. IsWellFoundedOn(StrictSubsetOrdering(S), SUBSET S)
  BY FS_StrictSubsetOrderingWellFounded, FS_FiniteSubsetsOfFinite
<1>2. C \subseteq SUBSET S
  OBVIOUS
<1>3. \E T \in C : \A U \in C : ~(<<U, T>> \in StrictSubsetOrdering(S))
  BY ONLY <1>1, <1>2, C # {}, WFMin, Zenon
<1>4. \A T \in C : \A U \in C : U \subseteq T /\ U # T => <<U, T>> \in StrictSubsetOrdering(S)
  BY DEF StrictSubsetOrdering
<1>5. QED BY <1>3, <1>4

\* A finite set of numbers that has a member has a greatest one.
LEMMA GreatestNumber ==
  ASSUME NEW S \in SUBSET Int, IsFiniteSet(S), S # {}
  PROVE  Max(S) \in S /\ \A n \in S : n <= Max(S)
<1> DEFINE Bounded(T) == \E m \in T : \A n \in T : n <= m
           Odd == {T \in SUBSET S : T # {} /\ ~Bounded(T)}
<1>1. Odd = {}
  <2> SUFFICES ASSUME Odd # {} PROVE FALSE
    OBVIOUS
  <2>1. PICK T \in Odd : \A U \in Odd : U \subseteq T => U = T
    <3>1. \A T \in Odd : T \subseteq S
      OBVIOUS
    <3> HIDE DEF Odd
    <3>2. QED BY <3>1, LeastSubset
  <2>2. PICK x \in T : TRUE
    BY <2>1
  <2>3. T \ {x} \notin Odd
    BY <2>1, <2>2
  <2>4. CASE T \ {x} = {}
    BY <2>1, <2>2, <2>4
  <2>5. CASE T \ {x} # {}
    <3>1. PICK m \in T \ {x} : \A n \in T \ {x} : n <= m
      BY <2>1, <2>3, <2>5
    <3>2. m \in Int /\ x \in Int /\ T \subseteq Int
      BY <2>1, <2>2, <3>1
    <3>3. Bounded(T)
      <4>1. CASE x <= m
        BY <3>1, <3>2, <4>1
      <4>2. CASE m <= x
        BY <2>2, <3>1, <3>2, <4>2
      <4>3. QED BY <3>2, <4>1, <4>2
    <3>4. QED BY <2>1, <3>3
  <2>6. QED BY <2>4, <2>5
<1>2. PICK m \in S : \A n \in S : n <= m
  BY <1>1
<1>3. \A n \in S : m >= n
  BY <1>2
<1>4. QED BY <1>2, <1>3 DEF Max

\* The same for the least one.
LEMMA LeastNumber ==
  ASSUME NEW S \in SUBSET Int, IsFiniteSet(S), S # {}
  PROVE  \E m \in S : \A n \in S : m <= n
<1> DEFINE N == {-n : n \in S}
           f == [n \in S |-> -n]
<1>1. f \in Surjection(S, N)
  BY Fun_IsSurj
<1>2. IsFiniteSet(N)
  <2> HIDE DEF N, f
  <2>1. QED BY <1>1, FS_Surjection
<1>3. PICK m \in N : \A n \in N : n <= m
  <2>1. N # {} /\ N \in SUBSET Int
    OBVIOUS
  <2> HIDE DEF N
  <2>2. QED BY <1>2, <2>1, GreatestNumber
<1>4. PICK k \in S : m = -k
  OBVIOUS
<1>5. \A n \in S : -n <= -k
  BY <1>3, <1>4
<1>6. QED BY <1>4, <1>5

\* Intervals from one are finite.
LEMMA Interval == \A n \in Int : IsFiniteSet(1..n)
BY FS_Interval

\* Sets without a common member count together.
LEMMA Disjoint ==
  ASSUME NEW S, NEW T, IsFiniteSet(S), IsFiniteSet(T), S \intersect T = {}
  PROVE  /\ IsFiniteSet(S \union T)
         /\ Cardinality(S) \in Nat /\ Cardinality(T) \in Nat
         /\ Cardinality(S \union T) = Cardinality(S) + Cardinality(T)
<1>1. Cardinality(S) \in Nat /\ Cardinality(T) \in Nat
  BY FS_CardinalityType
<1>2. Cardinality(S \intersect T) = 0
  BY FS_EmptySet
<1>3. /\ IsFiniteSet(S \union T)
      /\ Cardinality(S \union T) = Cardinality(S) + Cardinality(T) - Cardinality(S \intersect T)
  BY FS_Union
<1>4. QED BY <1>1, <1>2, <1>3

\* As many members as a set that is paired with it.
LEMMA Paired ==
  ASSUME NEW S, NEW T, IsFiniteSet(S), NEW f \in [S -> T],
         \A a, b \in S : f[a] = f[b] => a = b, \A t \in T : \E s \in S : f[s] = t
  PROVE  IsFiniteSet(T) /\ Cardinality(T) = Cardinality(S)
<1>1. f \in Bijection(S, T)
  BY Fun_IsBij
<1>2. QED BY <1>1, FS_Bijection DEF ExistsBijection

-----------------------------------------------------------------------------
(* The stored progress.                                                    *)

\* Progress is kept for those who joined, with the parts the puzzle has, and
\* nothing in it, nor in an answer under way, is later than now.
Progress ==
  /\ \A u \in Users, p \in Puzzles :
       /\ Len(solves[u][p]) <= PartCount[p]
       /\ \A i \in 1..Len(solves[u][p]) : solves[u][p][i] <= now
       /\ u \notin joined => solves[u][p] = <<>>
  /\ \A u \in Users : answer[u].at <= now

\* There are finitely many puzzles.
LEMMA FinitePuzzles == IsFiniteSet(Puzzles)
<1>1. Len(Event) \in Nat /\ DOMAIN Event = 1..Len(Event)
  BY BoardAssumption
<1>2. Event \in [1..Len(Event) -> Puzzles] /\ \A p \in Puzzles : \E i \in 1..Len(Event) : Event[i] = p
  BY <1>1, BoardAssumption DEF Puzzles, ToSet
<1>3. Event \in Surjection(1..Len(Event), Puzzles)
  BY <1>2, Fun_IsSurj
<1>4. IsFiniteSet(1..Len(Event))
  BY <1>1, FS_Interval
<1>5. QED BY <1>3, <1>4, FS_Surjection

\* A stored solve is what the progress of its user says.
LEMMA StoredSolve ==
  ASSUME BoardTypeOK, Progress, NEW us \in SUBSET Users, NEW s \in SolvesOf(us)
  PROVE  /\ s \in SolveType /\ s.user \in us
         /\ s.part \in 1..Len(solves[s.user][s.puzzle])
         /\ s.part \in 1..PartCount[s.puzzle]
         /\ s.time = solves[s.user][s.puzzle][s.part]
         /\ s.time <= now
<1>1. PICK u \in us, p \in Puzzles : s \in {[user |-> u, puzzle |-> p, part |-> i, time |-> solves[u][p][i]] :
                                              i \in 1..Len(solves[u][p])}
  BY DEF SolvesOf
<1>2. PICK i \in 1..Len(solves[u][p]) : s = [user |-> u, puzzle |-> p, part |-> i, time |-> solves[u][p][i]]
  BY <1>1
<1>3. u \in Users /\ solves[u][p] \in Seq(Nat) /\ Len(solves[u][p]) \in Nat
  BY DEF BoardTypeOK
<1>4. PartCount[p] \in 1..2 /\ Len(solves[u][p]) <= PartCount[p]
  BY <1>3, BoardAssumption DEF Progress
<1>5. i \in 1..PartCount[p] /\ i \in 1..2
  BY <1>3, <1>4
<1>6. solves[u][p][i] \in Nat /\ solves[u][p][i] <= now
  BY <1>3 DEF Progress
<1>7. QED BY <1>2, <1>3, <1>5, <1>6 DEF SolveType

\* And what the progress says is stored.
LEMMA SolveStored ==
  ASSUME NEW us, NEW u \in us, NEW p \in Puzzles, NEW i \in 1..Len(solves[u][p])
  PROVE  [user |-> u, puzzle |-> p, part |-> i, time |-> solves[u][p][i]] \in SolvesOf(us)
<1> DEFINE of(v, q) == {[user |-> v, puzzle |-> q, part |-> j, time |-> solves[v][q][j]] :
                          j \in 1..Len(solves[v][q])}
<1>1. [user |-> u, puzzle |-> p, part |-> i, time |-> solves[u][p][i]] \in of(u, p)
  OBVIOUS
<1>2. SolvesOf(us) = UNION {of(v, q) : v \in us, q \in Puzzles}
  BY DEF SolvesOf
<1> HIDE DEF of
<1>3. QED BY <1>1, <1>2

\* A user solves a part once.
LEMMA SolvedOnce ==
  ASSUME BoardTypeOK, Progress, NEW us \in SUBSET Users,
         NEW r \in SolvesOf(us), NEW s \in SolvesOf(us),
         r.user = s.user, r.puzzle = s.puzzle, r.part = s.part
  PROVE  r = s
<1>1. r \in SolveType /\ s \in SolveType /\ r.time = s.time
  BY StoredSolve
<1>2. QED BY <1>1 DEF SolveType

\* Finitely many solves are stored.
LEMMA FiniteSolves ==
  ASSUME BoardTypeOK, Progress, NEW us \in SUBSET Users
  PROVE  IsFiniteSet(SolvesOf(us))
<1> DEFINE T == Users \X (Puzzles \X (1..2))
           f == [s \in SolvesOf(us) |-> <<s.user, <<s.puzzle, s.part>>>>]
<1>1. IsFiniteSet(T)
  <2>1. IsFiniteSet(1..2)
    <3>1. IsFiniteSet({1}) /\ IsFiniteSet({2})
      BY FS_Singleton
    <3>2. IsFiniteSet({1} \union {2})
      BY <3>1, FS_Union
    <3>3. 1..2 = {1} \union {2}
      OBVIOUS
    <3>4. QED BY <3>2, <3>3
  <2>2. IsFiniteSet(Puzzles \X (1..2))
    BY <2>1, FinitePuzzles, FS_Product
  <2>3. QED BY <2>2, BoardAssumption, FS_Product
<1>2. f \in [SolvesOf(us) -> T]
  BY StoredSolve DEF SolveType
<1>3. \A r, s \in SolvesOf(us) : f[r] = f[s] => r = s
  BY SolvedOnce
<1>4. f \in Injection(SolvesOf(us), T)
  BY <1>2, <1>3, Fun_IsInj
<1> HIDE DEF T, f
<1>5. QED BY <1>1, <1>4, FS_Injection

-----------------------------------------------------------------------------
(* The replay.                                                             *)

\* The solves a page counts up to a time.
Past(cut) == {s \in SolvesOf(Visible) : s.time <= cut}

\* What a solve of the replay becomes in the table.
Earned(solved, i) ==
  [user |-> solved[i].user, puzzle |-> solved[i].puzzle, part |-> solved[i].part,
   time |-> solved[i].time, award |-> Award(solved, i)]

\* The order a replay goes through the solves in: each of them once, by time.
LEMMA ReplayOrder ==
  ASSUME BoardTypeOK, Progress, NEW cut, NEW solved \in Replays(cut)
  PROVE  /\ IsFiniteSet(Past(cut)) /\ Cardinality(Past(cut)) \in Nat
         /\ solved \in [1..Cardinality(Past(cut)) -> Past(cut)]
         /\ DOMAIN solved = 1..Cardinality(Past(cut))
         /\ solved \in Seq(Past(cut)) /\ Len(solved) = Cardinality(Past(cut))
         /\ \A i, j \in 1..Cardinality(Past(cut)) : i # j => solved[i] # solved[j]
         /\ \A i, j \in 1..Cardinality(Past(cut)) : i < j => solved[i].time <= solved[j].time
         /\ \A s \in Past(cut) : \E i \in 1..Cardinality(Past(cut)) : solved[i] = s
<1> DEFINE B == Past(cut)
           n == Cardinality(B)
<1>1. IsFiniteSet(B) /\ n \in Nat
  <2>1. B \subseteq SolvesOf(Visible) /\ Visible \subseteq Users
    BY DEF Past, Visible, BoardTypeOK
  <2>2. QED BY <2>1, FiniteSolves, FS_Subset, FS_CardinalityType
<1>2. solved \in Orders(B)
  BY DEF Replays, Within, Past
<1>3. solved \in [1..n -> B] /\ \A i, j \in 1..n : i # j => solved[i] # solved[j]
  BY <1>2 DEF Orders, SetToSeqs
<1>4. \A i, j \in 1..n : i < j => solved[i].time <= solved[j].time
  BY <1>2, <1>3 DEF Orders
<1>5. solved \in Injection(1..n, B)
  BY <1>3, Fun_IsInj
<1>6. IsFiniteSet(1..n) /\ Cardinality(1..n) = n
  BY <1>1, FS_Interval
<1>7. solved \in Surjection(1..n, B)
  BY <1>1, <1>5, <1>6, FS_Injection
<1>8. \A s \in B : \E i \in 1..n : solved[i] = s
  BY <1>7 DEF Surjection
<1>9. solved \in Seq(B) /\ Len(solved) = n /\ DOMAIN solved = 1..n
  BY <1>1, <1>3
<1>10. QED BY <1>1, <1>3, <1>4, <1>8, <1>9

\* Each solve of the order is a stored one, and no two are of the same part.
LEMMA EntryStored ==
  ASSUME BoardTypeOK, Progress, NEW cut, NEW solved \in Replays(cut), NEW i \in 1..Len(solved)
  PROVE  /\ solved[i] \in Past(cut) /\ solved[i] \in SolvesOf(Visible)
         /\ solved[i] \in SolveType /\ solved[i].user \in Visible
<1>1. Visible \in SUBSET Users
  BY DEF Visible, BoardTypeOK
<1>2. solved[i] \in Past(cut)
  BY ReplayOrder
<1>3. solved[i] \in SolvesOf(Visible)
  BY <1>2 DEF Past
<1>4. QED BY <1>1, <1>2, <1>3, StoredSolve

LEMMA EntryOnce ==
  ASSUME BoardTypeOK, Progress, NEW cut, NEW solved \in Replays(cut),
         NEW i \in 1..Len(solved), NEW j \in 1..Len(solved),
         solved[i].user = solved[j].user, solved[i].puzzle = solved[j].puzzle,
         solved[i].part = solved[j].part
  PROVE  i = j
<1>1. Visible \in SUBSET Users
  BY DEF Visible, BoardTypeOK
<1>2. solved[i] = solved[j]
  BY <1>1, EntryStored, SolvedOnce
<1>3. QED BY <1>2, ReplayOrder

\* A solve earns the number of players less the solves of its part before it.
LEMMA AwardValue ==
  ASSUME BoardTypeOK, Progress, NEW cut, NEW solved \in Replays(cut), NEW i \in 1..Len(solved)
  PROVE  /\ Award(solved, i) = Cardinality(Visible)
              - Cardinality({j \in 1..(i - 1) : solved[j].puzzle = solved[i].puzzle
                                                 /\ solved[j].part = solved[i].part})
         /\ Award(solved, i) \in Int
         /\ solved[i] \in SolveType /\ solved[i] \in Past(cut)
         /\ Earned(solved, i) \in EarnedType
         /\ Bare(Earned(solved, i)) = solved[i]
<1>1. Visible \subseteq Users /\ IsFiniteSet(Visible) /\ Cardinality(Visible) \in Nat
  BY BoardAssumption, FS_Subset, FS_CardinalityType DEF Visible, BoardTypeOK
<1>2. solved[i] \in Past(cut) /\ i \in Nat
  BY ReplayOrder
<1>3. solved[i] \in SolvesOf(Visible)
  BY <1>2 DEF Past
<1>4. solved[i] \in SolveType /\ solved[i].part \in 1..PartCount[solved[i].puzzle]
  BY <1>1, <1>3, StoredSolve
<1>5. StartPoints[solved[i].puzzle][solved[i].part] = Cardinality(Visible)
  BY <1>4 DEF StartPoints, SolveType
<1> DEFINE J == {j \in 1..(i - 1) : solved[j].puzzle = solved[i].puzzle
                                     /\ solved[j].part = solved[i].part}
<1>6. Cardinality(J) \in Nat
  <2>1. i - 1 \in Int
    BY <1>2
  <2>2. IsFiniteSet(1..(i - 1)) /\ J \subseteq 1..(i - 1)
    BY <2>1, Interval
  <2> HIDE DEF J
  <2>3. QED BY <2>2, FS_Subset, FS_CardinalityType
<1>7. Award(solved, i) = Cardinality(Visible) - Cardinality(J)
  BY <1>5 DEF Award
<1>8. Award(solved, i) \in Int
  BY <1>1, <1>6, <1>7
<1>9. Earned(solved, i) \in EarnedType /\ Bare(Earned(solved, i)) = solved[i]
  BY <1>4, <1>8 DEF Earned, EarnedType, SolveType, Bare
<1>10. QED BY <1>2, <1>4, <1>7, <1>8, <1>9
-----------------------------------------------------------------------------
(* The order of the players.                                               *)

\* Solves that can be ranked: finitely many, and none earns more than the points
\* there are.
Rankable(S) ==
  /\ S \in SUBSET EarnedType /\ IsFiniteSet(S)
  /\ \E most \in Nat : \A s \in S : s.award <= most

\* What decides between two players are numbers.
LEMMA Standing ==
  ASSUME NEW S, Rankable(S), NEW u
  PROVE  /\ Solved(S, u) \subseteq S /\ IsFiniteSet(Solved(S, u))
         /\ Parts(S, u) \in Nat /\ Score(S, u) \in Nat /\ LastSolve(S, u) \in Nat
         /\ LastSolve(S, u) \in {s.time : s \in Solved(S, u)} \union {0}
         /\ \A s \in Solved(S, u) : s.time <= LastSolve(S, u)
<1> DEFINE M == Solved(S, u)
<1>1. M \subseteq S /\ M \subseteq EarnedType /\ IsFiniteSet(M)
  <2>1. M \subseteq S
    BY DEF Solved
  <2>2. QED BY <2>1, FS_Subset DEF Rankable
<1>2. Parts(S, u) \in Nat
  BY <1>1, FS_CardinalityType DEF Parts
<1>3. Score(S, u) \in Nat
  <2>1. PICK most \in Nat : \A s \in S : s.award <= most
    BY DEF Rankable
  <2> DEFINE Points == UNION {{<<s, n>> : n \in 1..s.award} : s \in Solved(S, u)}
  <2>2. Points \subseteq M \X (1..most)
    <3> SUFFICES ASSUME NEW q \in Points PROVE q \in M \X (1..most)
      OBVIOUS
    <3>1. PICK s \in M : q \in {<<s, n>> : n \in 1..s.award}
      OBVIOUS
    <3>2. PICK n \in 1..s.award : q = <<s, n>>
      BY <3>1
    <3>3. s.award <= most /\ s.award \in Int
      BY <1>1, <2>1 DEF EarnedType
    <3>4. n \in 1..most
      BY <3>3
    <3>5. QED BY <3>2, <3>4
  <2>3. IsFiniteSet(M \X (1..most))
    BY <1>1, Interval, FS_Product
  <2>4. Cardinality(Points) \in Nat
    <3> HIDE DEF Points, M
    <3>1. QED BY <2>2, <2>3, FS_Subset, FS_CardinalityType
  <2>5. QED BY <2>4 DEF Score
<1> DEFINE T == {s.time : s \in M} \union {0}
<1>4. LastSolve(S, u) \in T /\ \A n \in T : n <= LastSolve(S, u)
  <2> DEFINE Ts == {s.time : s \in M}
             f == [s \in M |-> s.time]
  <2>1. f \in Surjection(M, Ts)
    BY Fun_IsSurj
  <2>2. IsFiniteSet(Ts)
    <3> HIDE DEF f, Ts, M
    <3>1. QED BY <1>1, <2>1, FS_Surjection
  <2>3. IsFiniteSet(Ts \union {0})
    <3> HIDE DEF Ts
    <3>1. QED BY <2>2, FS_AddElement
  <2>4. T \in SUBSET Int /\ T # {}
    BY <1>1 DEF EarnedType
  <2>5. Max(T) \in T /\ \A n \in T : n <= Max(T)
    <3>1. IsFiniteSet(T)
      BY <2>3
    <3> HIDE DEF T
    <3>2. QED BY <2>4, <3>1, GreatestNumber
  <2>6. QED BY <2>5 DEF LastSolve
<1>5. T \subseteq Nat
  BY <1>1 DEF EarnedType
<1>6. QED BY <1>1, <1>2, <1>3, <1>4, <1>5

\* Of two players one is above the other, and who is above somebody is above all
\* below.
LEMMA AboveOrders ==
  ASSUME NEW S, Rankable(S), NEW u \in Users, NEW v \in Users, NEW w \in Users
  PROVE  /\ ~Above(S, u, u)
         /\ u # v => Above(S, u, v) \/ Above(S, v, u)
         /\ Above(S, u, v) /\ Above(S, v, w) => Above(S, u, w)
<1>1. \A x \in Users : /\ Parts(S, x) \in Nat /\ Score(S, x) \in Nat /\ LastSolve(S, x) \in Nat
                       /\ Name[x] \in Nat
  BY Standing, BoardAssumption
<1>2. u # v => Name[u] # Name[v]
  BY BoardAssumption
<1>3. QED BY <1>1, <1>2 DEF Above

\* So the places of the players are different and without a gap.
LEMMA Places ==
  ASSUME NEW S, Rankable(S), NEW us \in SUBSET Users
  PROVE  /\ \A u \in Users : Rank(S, us, u) \in Nat \ {0}
         /\ {Rank(S, us, u) : u \in us} = 1..Cardinality(us)
<1> DEFINE A(u) == {v \in us : Above(S, v, u)}
           f == [u \in us |-> Rank(S, us, u)]
           n == Cardinality(us)
<1>1. IsFiniteSet(us) /\ n \in Nat
  BY BoardAssumption, FS_Subset, FS_CardinalityType
<1>2. \A u \in Users : IsFiniteSet(A(u)) /\ Cardinality(A(u)) \in Nat /\ Rank(S, us, u) = 1 + Cardinality(A(u))
  <2> SUFFICES ASSUME NEW u \in Users
               PROVE  IsFiniteSet(A(u)) /\ Cardinality(A(u)) \in Nat /\ Rank(S, us, u) = 1 + Cardinality(A(u))
    OBVIOUS
  <2>1. A(u) \in SUBSET us /\ Rank(S, us, u) = 1 + Cardinality(A(u))
    BY DEF Rank
  <2> HIDE DEF A
  <2>2. QED BY <1>1, <2>1, FS_Subset, FS_CardinalityType
<1>3. \A u \in us : Rank(S, us, u) \in 1..n
  <2> SUFFICES ASSUME NEW u \in us PROVE Rank(S, us, u) \in 1..n
    OBVIOUS
  <2>1. A(u) \in SUBSET (us \ {u})
    BY AboveOrders
  <2>2. IsFiniteSet(us \ {u}) /\ Cardinality(us \ {u}) = n - 1
    BY <1>1, FS_RemoveElement
  <2>3. u \in Users
    OBVIOUS
  <2> HIDE DEF A, n
  <2>4. Cardinality(A(u)) <= n - 1
    BY <2>1, <2>2, FS_Subset
  <2>5. QED BY <1>1, <1>2, <2>3, <2>4
<1>4. \A u, v \in us : Above(S, u, v) => Rank(S, us, u) # Rank(S, us, v)
  <2> SUFFICES ASSUME NEW u \in us, NEW v \in us, Above(S, u, v)
               PROVE  Rank(S, us, u) # Rank(S, us, v)
    OBVIOUS
  <2>1. u \notin A(u) /\ A(u) \union {u} \in SUBSET A(v)
    BY AboveOrders
  <2>2. u \in Users /\ v \in Users
    OBVIOUS
  <2> HIDE DEF A
  <2>3. Cardinality(A(u) \union {u}) = Cardinality(A(u)) + 1
    BY <1>2, <2>1, <2>2, FS_AddElement
  <2>4. Cardinality(A(u) \union {u}) <= Cardinality(A(v))
    BY <1>2, <2>1, <2>2, FS_Subset
  <2>5. QED BY <1>2, <2>2, <2>3, <2>4
<1>5. \A u, v \in us : f[u] = f[v] => u = v
  BY <1>4, AboveOrders
<1>6. f \in Injection(us, 1..n)
  BY <1>3, <1>5, Fun_IsInj
<1>7. IsFiniteSet(1..n) /\ Cardinality(1..n) = n
  BY <1>1, FS_Interval
<1>8. f \in Surjection(us, 1..n)
  <2> HIDE DEF f, n
  <2>1. n = Cardinality(us)
    BY DEF n
  <2>2. QED BY <1>6, <1>7, <2>1, FS_Injection
<1>9. \A i \in 1..n : \E u \in us : Rank(S, us, u) = i
  BY <1>8 DEF Surjection
<1>10. \A u \in Users : Rank(S, us, u) \in Nat \ {0}
  <2> HIDE DEF A
  <2>1. QED BY <1>2
<1>11. QED BY <1>3, <1>9, <1>10

-----------------------------------------------------------------------------
(* The table.                                                              *)

\* The first solves of a replay, with what they earned.
Counted(solved, m) == {Earned(solved, i) : i \in 1..m}

LEMMA ReplayCounted ==
  ASSUME BoardTypeOK, Progress, NEW cut, NEW solved \in Replays(cut)
  PROVE  Replay(solved) = Counted(solved, Len(solved))
<1>1. DOMAIN solved = 1..Len(solved)
  BY ReplayOrder
<1>2. QED BY <1>1 DEF Replay, Counted, Earned

\* Each player solves a part once, so that a part is left with points for all.
LEMMA AwardBounds ==
  ASSUME BoardTypeOK, Progress, NEW cut, NEW solved \in Replays(cut), NEW i \in 1..Len(solved)
  PROVE  Award(solved, i) \in 1..Cardinality(Visible)
<1> DEFINE J == {j \in 1..(i - 1) : solved[j].puzzle = solved[i].puzzle
                                     /\ solved[j].part = solved[i].part}
           others == Visible \ {solved[i].user}
           f == [j \in J |-> solved[j].user]
<1>1. Visible \subseteq Users /\ IsFiniteSet(Visible) /\ Cardinality(Visible) \in Nat
  BY BoardAssumption, FS_Subset, FS_CardinalityType DEF Visible, BoardTypeOK
<1>2. Len(solved) \in Nat /\ J \subseteq 1..Len(solved) /\ i \notin J
  BY ReplayOrder
<1>3. \A j \in 1..Len(solved) : solved[j] \in SolvesOf(Visible) /\ solved[j].user \in Visible
  BY EntryStored
<1>4. \A j, k \in 1..Len(solved) :
        solved[j].user = solved[k].user /\ solved[j].puzzle = solved[k].puzzle
        /\ solved[j].part = solved[k].part => j = k
  BY EntryOnce
<1>5. \A j \in J : solved[j].puzzle = solved[i].puzzle /\ solved[j].part = solved[i].part
  OBVIOUS
<1>6. f \in Injection(J, others)
  <2> HIDE DEF J
  <2>1. \A j \in J : solved[j].user \in others
    BY <1>2, <1>3, <1>4, <1>5
  <2>2. \A j, k \in J : f[j] = f[k] => j = k
    BY <1>2, <1>4, <1>5
  <2>3. QED BY <2>1, <2>2, Fun_IsInj
<1>7. IsFiniteSet(others) /\ Cardinality(others) = Cardinality(Visible) - 1
  BY <1>1, <1>3, FS_RemoveElement
<1>8. Cardinality(J) \in Nat /\ Cardinality(J) <= Cardinality(Visible) - 1
  <2> HIDE DEF J, others, f
  <2>1. QED BY <1>6, <1>7, FS_Injection, FS_CardinalityType
<1>9. Award(solved, i) = Cardinality(Visible) - Cardinality(J)
  BY AwardValue
<1> HIDE DEF J
<1>10. QED BY <1>1, <1>8, <1>9

\* The first solves of a replay can be ranked.
LEMMA CountedRankable ==
  ASSUME BoardTypeOK, Progress, NEW cut, NEW solved \in Replays(cut), NEW m \in 0..Len(solved)
  PROVE  Rankable(Counted(solved, m))
<1>1. Len(solved) \in Nat /\ m \in Int
  BY ReplayOrder
<1>2. \A i \in 1..m : Earned(solved, i) \in EarnedType /\ Earned(solved, i).award <= Cardinality(Visible)
  <2> SUFFICES ASSUME NEW i \in 1..m
               PROVE  Earned(solved, i) \in EarnedType /\ Earned(solved, i).award <= Cardinality(Visible)
    OBVIOUS
  <2>1. i \in 1..Len(solved)
    BY <1>1
  <2>2. Award(solved, i) <= Cardinality(Visible)
    BY <2>1, AwardBounds
  <2>3. QED BY <2>1, <2>2, AwardValue DEF Earned
<1>3. Cardinality(Visible) \in Nat
  BY BoardAssumption, FS_Subset, FS_CardinalityType DEF Visible, BoardTypeOK
<1> DEFINE f == [i \in 1..m |-> Earned(solved, i)]
<1>4. f \in Surjection(1..m, Counted(solved, m))
  BY Fun_IsSurj DEF Counted
<1>5. IsFiniteSet(1..m)
  BY <1>1, Interval
<1>6. IsFiniteSet(Counted(solved, m))
  <2> HIDE DEF f
  <2>1. QED BY <1>4, <1>5, FS_Surjection
<1>7. QED BY <1>2, <1>3, <1>6 DEF Rankable, Counted

\* What a table is right about, however it came about.
Genuine(t) ==
  /\ t \in TableType /\ IsFiniteSet(t.solves)
  /\ \A r, s \in t.solves : r.user = s.user /\ r.puzzle = s.puzzle /\ r.part = s.part => r = s
  /\ \A s \in t.solves : s.user \in t.players /\ s.award \in 1..Cardinality(t.players)

LEMMA GenuineRankable ==
  ASSUME NEW t, Genuine(t)
  PROVE  Rankable(t.solves) /\ t.players \subseteq Users
<1>1. t.solves \in SUBSET EarnedType /\ t.players \subseteq Users
  BY DEF Genuine, TableType
<1>2. Cardinality(t.players) \in Nat
  BY <1>1, BoardAssumption, FS_Subset, FS_CardinalityType
<1>3. \A s \in t.solves : s.award <= Cardinality(t.players)
  BY <1>2 DEF Genuine
<1>4. QED BY <1>1, <1>2, <1>3 DEF Rankable, Genuine

LEMMA TableGenuine ==
  ASSUME BoardTypeOK, Progress, NEW cut, NEW solved \in Replays(cut)
  PROVE  Genuine(Table(solved))
<1> DEFINE n == Len(solved)
<1>1. n \in 0..Len(solved) /\ Len(solved) \in Nat
  BY ReplayOrder
<1>2. Table(solved).players = Visible /\ Table(solved).solves = Counted(solved, n)
      /\ Table(solved) = [players |-> Visible, solves |-> Counted(solved, n)]
  BY ReplayCounted DEF Table
<1>3. Visible \subseteq Users
  BY DEF Visible, BoardTypeOK
<1>4. Rankable(Counted(solved, n))
  BY <1>1, CountedRankable
<1>5. Table(solved) \in TableType
  BY <1>2, <1>3, <1>4 DEF TableType, Rankable
<1>6. \A i \in 1..n : /\ solved[i].user \in Visible
                      /\ Earned(solved, i).user = solved[i].user
                      /\ Earned(solved, i).puzzle = solved[i].puzzle
                      /\ Earned(solved, i).part = solved[i].part
                      /\ Earned(solved, i).award \in 1..Cardinality(Visible)
  BY EntryStored, AwardBounds DEF Earned
<1>7. \A i, j \in 1..n :
        Earned(solved, i).user = Earned(solved, j).user /\ Earned(solved, i).puzzle = Earned(solved, j).puzzle
        /\ Earned(solved, i).part = Earned(solved, j).part => i = j
  BY <1>6, EntryOnce
<1>8. \A s \in Counted(solved, n) : s.user \in Visible /\ s.award \in 1..Cardinality(Visible)
  BY <1>6 DEF Counted
<1>9. \A r, s \in Counted(solved, n) : r.user = s.user /\ r.puzzle = s.puzzle /\ r.part = s.part => r = s
  BY <1>7 DEF Counted
<1>10. QED BY <1>2, <1>4, <1>5, <1>8, <1>9 DEF Genuine, Rankable

\* Its solves are those stored up to the time it counts.
LEMMA TableBare ==
  ASSUME BoardTypeOK, Progress, NEW cut, NEW solved \in Replays(cut)
  PROVE  {Bare(s) : s \in Table(solved).solves} = Past(cut)
<1>1. Table(solved).solves = {Earned(solved, i) : i \in 1..Len(solved)}
  BY ReplayCounted DEF Table, Counted
<1>2. \A i \in 1..Len(solved) : Bare(Earned(solved, i)) = solved[i] /\ solved[i] \in Past(cut)
  BY AwardValue
<1>3. \A s \in Past(cut) : \E i \in 1..Len(solved) : solved[i] = s
  BY ReplayOrder
<1>4. \A s \in Past(cut) : \E i \in 1..Len(solved) : Bare(Earned(solved, i)) = s
  BY <1>2, <1>3
<1>5. \A s \in Table(solved).solves : Bare(s) \in Past(cut)
  BY <1>1, <1>2
<1>6. \A s \in Past(cut) : \E r \in Table(solved).solves : Bare(r) = s
  BY <1>1, <1>4
<1>7. QED BY <1>5, <1>6

\* The points of a solve follow the rules: the solves of its part before it in the
\* replay are all the earlier ones, and some of those of the same moment.
LEMMA AwardFollowsRules ==
  ASSUME BoardTypeOK, Progress, NEW cut, NEW solved \in Replays(cut), NEW i \in 1..Len(solved)
  PROVE  LET S == Counted(solved, Len(solved))
             s == Earned(solved, i)
             same == {r \in S \ {s} : r.puzzle = s.puzzle /\ r.part = s.part}
             before == {r \in same : r.time < s.time}
             tied == {r \in same : r.time = s.time}
             behind == Cardinality(Visible) - 1 - Cardinality(before) - Cardinality(tied)
         IN  1 + behind <= s.award /\ s.award <= 1 + behind + Cardinality(tied)
<1> DEFINE S == Counted(solved, Len(solved))
           s == Earned(solved, i)
           same == {r \in S \ {s} : r.puzzle = s.puzzle /\ r.part = s.part}
           before == {r \in same : r.time < s.time}
           tied == {r \in same : r.time = s.time}
           J == {j \in 1..(i - 1) : solved[j].puzzle = solved[i].puzzle
                                     /\ solved[j].part = solved[i].part}
           E == {Earned(solved, j) : j \in J}
           f == [j \in J |-> Earned(solved, j)]
<1>1. Len(solved) \in Nat /\ i \in Int
  BY ReplayOrder
<1>2. \A j \in 1..Len(solved) : /\ Earned(solved, j).user = solved[j].user
                                /\ Earned(solved, j).puzzle = solved[j].puzzle
                                /\ Earned(solved, j).part = solved[j].part
                                /\ Earned(solved, j).time = solved[j].time
                                /\ solved[j].time \in Nat
  BY EntryStored DEF Earned, SolveType
<1>3. \A j, k \in 1..Len(solved) : Earned(solved, j) = Earned(solved, k) => j = k
  <2> SUFFICES ASSUME NEW j \in 1..Len(solved), NEW k \in 1..Len(solved),
                      Earned(solved, j) = Earned(solved, k)
               PROVE  j = k
    OBVIOUS
  <2>1. solved[j].user = solved[k].user /\ solved[j].puzzle = solved[k].puzzle
        /\ solved[j].part = solved[k].part
    BY <1>2
  <2>2. QED BY <2>1, EntryOnce
<1>4. \A j, k \in 1..Len(solved) : j < k => solved[j].time <= solved[k].time
  BY ReplayOrder
<1>5. \A j \in J : j \in 1..Len(solved) /\ j < i /\ solved[j].puzzle = solved[i].puzzle
                    /\ solved[j].part = solved[i].part
  BY <1>1
<1>6. IsFiniteSet(J) /\ Cardinality(J) \in Nat
  <2>1. J \subseteq 1..(i - 1) /\ i - 1 \in Int
    BY <1>1
  <2> HIDE DEF J
  <2>2. QED BY <2>1, Interval, FS_Subset, FS_CardinalityType
<1>7. IsFiniteSet(E) /\ Cardinality(E) = Cardinality(J)
  <2>1. f \in [J -> E] /\ \A r \in E : \E j \in J : f[j] = r
    OBVIOUS
  <2>2. \A j, k \in J : f[j] = f[k] => j = k
    BY <1>3, <1>5
  <2> HIDE DEF J, E, f
  <2>3. QED BY <1>6, <2>1, <2>2, Paired
<1>8. IsFiniteSet(before) /\ IsFiniteSet(tied)
  <2>1. before \subseteq S /\ tied \subseteq S
    OBVIOUS
  <2>2. IsFiniteSet(S)
    BY <1>1, CountedRankable DEF Rankable
  <2> HIDE DEF S, before, tied
  <2>3. QED BY <2>1, <2>2, FS_Subset
<1>9. before \subseteq E
  <2> SUFFICES ASSUME NEW r \in before PROVE r \in E
    OBVIOUS
  <2>1. PICK j \in 1..Len(solved) : r = Earned(solved, j)
    BY DEF Counted
  <2>2. solved[j].puzzle = solved[i].puzzle /\ solved[j].part = solved[i].part
        /\ solved[j].time < solved[i].time
    BY <1>2, <2>1
  <2>3. j < i
    BY <1>1, <1>2, <1>4, <2>2
  <2>4. j \in J
    BY <1>1, <2>2, <2>3
  <2>5. QED BY <2>1, <2>4
<1>10. E \subseteq before \union tied
  <2> SUFFICES ASSUME NEW r \in E PROVE r \in before \union tied
    OBVIOUS
  <2>1. PICK j \in J : r = Earned(solved, j)
    OBVIOUS
  <2>2. j \in 1..Len(solved) /\ j # i /\ solved[j].time <= solved[i].time
    BY <1>1, <1>4, <1>5, <2>1
  <2>3. r \in S /\ r # s
    BY <1>3, <2>1, <2>2 DEF Counted
  <2>4. r.puzzle = s.puzzle /\ r.part = s.part /\ r.time <= s.time /\ r.time \in Nat /\ s.time \in Nat
    BY <1>2, <1>5, <2>1, <2>2
  <2>5. QED BY <2>3, <2>4
<1>11. /\ Cardinality(before) \in Nat /\ Cardinality(tied) \in Nat
       /\ Cardinality(before \union tied) = Cardinality(before) + Cardinality(tied)
       /\ IsFiniteSet(before \union tied)
  <2>1. before \intersect tied = {}
    BY <1>1, <1>2 DEF Counted
  <2> HIDE DEF before, tied
  <2>2. QED BY <1>8, <2>1, Disjoint
<1>12. Cardinality(before) <= Cardinality(J) /\ Cardinality(J) <= Cardinality(before) + Cardinality(tied)
  <2> HIDE DEF before, tied, E, J
  <2>1. Cardinality(before) <= Cardinality(E) /\ Cardinality(E) <= Cardinality(before \union tied)
    BY <1>7, <1>9, <1>10, <1>11, FS_Subset
  <2>2. QED BY <1>7, <1>11, <2>1
<1>13. s.award = Cardinality(Visible) - Cardinality(J)
  <2>1. s.award = Award(solved, i)
    BY DEF Earned
  <2>2. QED BY <2>1, AwardValue
<1>14. Cardinality(Visible) \in Nat
  BY BoardAssumption, FS_Subset, FS_CardinalityType DEF Visible, BoardTypeOK
<1>15. QED
  <2> HIDE DEF before, tied, J
  <2>1. /\ 1 + (Cardinality(Visible) - 1 - Cardinality(before) - Cardinality(tied)) <= s.award
        /\ s.award <= 1 + (Cardinality(Visible) - 1 - Cardinality(before) - Cardinality(tied)) + Cardinality(tied)
    BY <1>6, <1>11, <1>12, <1>13, <1>14
  <2>2. QED BY <2>1 DEF before, tied

LEMMA TableFollowsRules ==
  ASSUME BoardTypeOK, Progress, NEW cut, NEW solved \in Replays(cut)
  PROVE  FollowsRules(Table(solved))
<1> DEFINE t == Table(solved)
<1>1. t.players = Visible /\ t.solves = Counted(solved, Len(solved))
  BY ReplayCounted DEF Table
<1>2. Genuine(t) /\ Rankable(t.solves)
  BY TableGenuine, GenuineRankable
<1>3. {Position(t, u) : u \in t.players} = 1..Cardinality(t.players)
  BY <1>2, GenuineRankable, Places DEF Position
<1>4. \A s \in t.solves : s.user \in t.players
  BY <1>2 DEF Genuine
<1>5. ASSUME NEW s \in t.solves
      PROVE  LET same == {r \in t.solves \ {s} : r.puzzle = s.puzzle /\ r.part = s.part}
                 before == {r \in same : r.time < s.time}
                 tied == {r \in same : r.time = s.time}
                 behind == Cardinality(t.players) - 1 - Cardinality(before) - Cardinality(tied)
             IN  1 + behind <= s.award /\ s.award <= 1 + behind + Cardinality(tied)
  <2>1. PICK i \in 1..Len(solved) : s = Earned(solved, i)
    BY <1>1, <1>5 DEF Counted
  <2>2. QED BY <1>1, <2>1, AwardFollowsRules
<1> HIDE DEF t
<1>6. QED BY <1>3, <1>4, <1>5 DEF FollowsRules, t

-----------------------------------------------------------------------------
(* The chart.                                                              *)

\* After a kept solve the chart ranks by the solves up to it.
LEMMA PrefixCounted ==
  ASSUME BoardTypeOK, Progress, NEW cut, NEW solved \in Replays(cut), NEW m \in 1..Len(solved)
  PROVE  Replay(SubSeq(solved, 1, m)) = Counted(solved, m)
<1> DEFINE sub == SubSeq(solved, 1, m)
<1>1. solved \in Seq(Past(cut)) /\ Len(solved) \in Nat /\ m \in Int /\ m <= Len(solved) /\ 1 <= m
  BY ReplayOrder
<1>2. sub \in Seq(Past(cut)) /\ Len(sub) = m /\ \A j \in 1..m : sub[j] = solved[j]
  <2>1. 1 \in 1..(Len(solved) + 1) /\ m \in (1 - 1)..Len(solved)
    BY <1>1
  <2>2. /\ sub \in Seq(Past(cut)) /\ Len(sub) = m - 1 + 1
        /\ \A j \in 1..(m - 1 + 1) : sub[j] = solved[1 + j - 1]
    BY <1>1, <2>1, SubSeqProperties
  <2>3. \A j \in 1..m : 1 + j - 1 = j
    OBVIOUS
  <2>4. QED BY <1>1, <2>2, <2>3
<1>3. DOMAIN sub = 1..m
  BY <1>2
<1>4. \A j \in 1..m : Earned(sub, j) = Earned(solved, j)
  <2> SUFFICES ASSUME NEW j \in 1..m PROVE Earned(sub, j) = Earned(solved, j)
    OBVIOUS
  <2>1. sub[j] = solved[j] /\ \A i \in 1..(j - 1) : sub[i] = solved[i]
    BY <1>1, <1>2
  <2>2. {i \in 1..(j - 1) : sub[i].puzzle = sub[j].puzzle /\ sub[i].part = sub[j].part}
        = {i \in 1..(j - 1) : solved[i].puzzle = solved[j].puzzle /\ solved[i].part = solved[j].part}
    BY <2>1
  <2> HIDE DEF sub
  <2>3. Award(sub, j) = Award(solved, j)
    BY <2>1, <2>2 DEF Award
  <2>4. QED BY <2>1, <2>3 DEF Earned
<1>5. Replay(sub) = {Earned(sub, j) : j \in 1..m}
  BY <1>3 DEF Replay, Earned
<1>6. QED BY <1>4, <1>5 DEF Counted

LEMMA RankAfter ==
  ASSUME BoardTypeOK, Progress, NEW cut, NEW solved \in Replays(cut), NEW m \in 1..Len(solved),
         NEW u \in Users
  PROVE  Rank(Counted(solved, m), Visible, u) \in Nat \ {0}
<1>1. Visible \in SUBSET Users
  BY DEF Visible, BoardTypeOK
<1>2. m \in 0..Len(solved)
  BY ReplayOrder
<1>3. Rankable(Counted(solved, m))
  BY <1>2, CountedRankable
<1>4. QED BY <1>1, <1>3, Places

\* The last solve is always kept.
LEMMA KeptLast ==
  ASSUME NEW S, NEW solved \in Seq(S), NEW at
  PROVE  /\ Kept(solved, at) \subseteq 1..Len(solved)
         /\ IsFiniteSet(Kept(solved, at)) /\ Kept(solved, at) \in SUBSET Int
         /\ Len(solved) >= 1 => Len(solved) \in Kept(solved, at)
<1>1. Len(solved) \in Nat /\ DOMAIN solved = 1..Len(solved)
  OBVIOUS
<1>2. Kept(solved, at) \subseteq 1..Len(solved)
  BY <1>1 DEF Kept
<1>3. Len(solved) >= 1 => Len(solved) \in Kept(solved, at)
  BY <1>1 DEF Kept
<1>4. IsFiniteSet(1..Len(solved))
  BY <1>1, Interval
<1>5. IsFiniteSet(Kept(solved, at))
  BY <1>2, <1>4, FS_Subset
<1>6. QED BY <1>2, <1>3, <1>5

\* What a line is made of: the ranks shown, the player's solves in a step, and the
\* steps with one of them.
Shown(rank, u) == {i \in DOMAIN rank : u \in Visible /\ rank[i][u] <= MaxRank}
Mine(solved, at, i, u) == {j \in Clump(solved, at, i) : solved[j].user = u}
Own(solved, at, rank, u) == {i \in Shown(rank, u) : Mine(solved, at, i, u) # {}}

LEMMA LineMade ==
  ASSUME NEW solved, NEW at, NEW rank, NEW u
  PROVE  Line(solved, at, rank, u) =
           [label |-> IF Own(solved, at, rank, u) = {} THEN 0 ELSE rank[Max(Shown(rank, u))][u],
            dots |-> {[time |-> solved[Max(Mine(solved, at, i, u))].time, row |-> rank[i][u]] :
                        i \in Own(solved, at, rank, u)}]
BY DEF Line, Shown, Mine, Own

\* A line has dots where it has a label, and a player without a solve has none.
LEMMA LineShape ==
  ASSUME NEW solved \in Seq(SolveType), NEW at,
         NEW rank \in [Kept(solved, at) -> [Users -> Nat \ {0}]], NEW u \in Users
  PROVE  /\ Line(solved, at, rank, u) \in LineType
         /\ Line(solved, at, rank, u).dots = {} <=> Line(solved, at, rank, u).label = 0
         /\ (\A j \in 1..Len(solved) : solved[j].user # u) => Line(solved, at, rank, u).label = 0
<1> DEFINE shown == Shown(rank, u)
           own == Own(solved, at, rank, u)
           mine(i) == Mine(solved, at, i, u)
<1>1. shown \subseteq Kept(solved, at) /\ own \subseteq shown
  BY DEF Shown, Own
<1>2. own # {} => Max(shown) \in Kept(solved, at)
  <2>1. IsFiniteSet(shown) /\ shown \in SUBSET Int
    BY <1>1, KeptLast, FS_Subset
  <2>2. shown # {} => Max(shown) \in shown
    <3> HIDE DEF shown
    <3>1. QED BY <2>1, GreatestNumber
  <2>3. QED BY <1>1, <2>2
<1>3. \A i \in own : Max(mine(i)) \in 1..Len(solved) /\ solved[Max(mine(i))].user = u
  <2> SUFFICES ASSUME NEW i \in own PROVE Max(mine(i)) \in 1..Len(solved) /\ solved[Max(mine(i))].user = u
    OBVIOUS
  <2>1. mine(i) # {} /\ mine(i) \subseteq 1..Len(solved) /\ Len(solved) \in Nat
        /\ \A j \in mine(i) : solved[j].user = u
    BY DEF Own, Mine, Clump
  <2>2. IsFiniteSet(mine(i)) /\ mine(i) \in SUBSET Int
    BY <2>1, Interval, FS_Subset
  <2> HIDE DEF mine
  <2>3. Max(mine(i)) \in mine(i)
    BY <2>1, <2>2, GreatestNumber
  <2>4. QED BY <2>1, <2>3
<1>4. \A j \in 1..Len(solved) : solved[j].time \in Nat
  <2>1. \A j \in 1..Len(solved) : solved[j] \in SolveType
    OBVIOUS
  <2>2. QED BY <2>1 DEF SolveType
<1>5. \A i \in Kept(solved, at) : rank[i][u] \in Nat /\ rank[i][u] # 0
  OBVIOUS
<1>6. /\ Line(solved, at, rank, u).label = IF own = {} THEN 0 ELSE rank[Max(shown)][u]
      /\ Line(solved, at, rank, u).dots =
           {[time |-> solved[Max(mine(i))].time, row |-> rank[i][u]] : i \in own}
      /\ Line(solved, at, rank, u) = [label |-> Line(solved, at, rank, u).label,
                                      dots |-> Line(solved, at, rank, u).dots]
  BY LineMade
<1> HIDE DEF shown, own, mine
<1>7. Line(solved, at, rank, u).label \in Nat
  BY <1>2, <1>5, <1>6
<1>8. Line(solved, at, rank, u).dots \subseteq [time : Nat, row : Nat]
  BY <1>1, <1>3, <1>4, <1>5, <1>6
<1>9. own = {} <=> Line(solved, at, rank, u).label = 0
  BY <1>2, <1>5, <1>6
<1>10. own = {} <=> Line(solved, at, rank, u).dots = {}
  BY <1>6
<1>11. QED BY <1>3, <1>6, <1>7, <1>8, <1>9, <1>10 DEF LineType

LEMMA ChartLine ==
  ASSUME BoardTypeOK, Progress, NEW cut, NEW solved \in Replays(cut), NEW at, NEW u \in Users
  PROVE  \E rank \in [Kept(solved, at) -> [Users -> Nat \ {0}]] :
           /\ Chart(solved, at)[u] = Line(solved, at, rank, u)
           /\ \A i \in Kept(solved, at) : \A v \in Users :
                rank[i][v] = Rank(Counted(solved, i), Visible, v)
<1> DEFINE rank == [i \in Kept(solved, at) |->
                      [v \in Users |-> Rank(Replay(SubSeq(solved, 1, i)), Visible, v)]]
<1>1. Kept(solved, at) \subseteq 1..Len(solved)
  BY ReplayOrder, KeptLast
<1>2. \A i \in Kept(solved, at) : \A v \in Users :
        /\ rank[i][v] = Rank(Counted(solved, i), Visible, v)
        /\ rank[i][v] \in Nat \ {0}
  BY <1>1, PrefixCounted, RankAfter
<1>3. rank \in [Kept(solved, at) -> [Users -> Nat \ {0}]]
  BY <1>2
<1>4. Chart(solved, at)[u] = Line(solved, at, rank, u)
  BY DEF Chart
<1> HIDE DEF rank
<1>5. QED BY <1>2, <1>3, <1>4

\* The chart is well formed.
LEMMA ChartTyped ==
  ASSUME BoardTypeOK, Progress, NEW cut, NEW solved \in Replays(cut), NEW at
  PROVE  Chart(solved, at) \in [Users -> LineType]
<1>1. solved \in Seq(SolveType)
  <2>1. Len(solved) \in Nat /\ DOMAIN solved = 1..Len(solved)
        /\ \A i \in 1..Len(solved) : solved[i] \in SolveType
    BY ReplayOrder, EntryStored
  <2>2. solved \in Seq(Past(cut))
    BY ReplayOrder
  <2>3. QED BY <2>1, <2>2
<1>2. \A u \in Users : Chart(solved, at)[u] \in LineType
  BY <1>1, ChartLine, LineShape
<1>3. \E g : Chart(solved, at) = [u \in Users |-> g[u]]
  <2> DEFINE rank == [i \in Kept(solved, at) |->
                        [v \in Users |-> Rank(Replay(SubSeq(solved, 1, i)), Visible, v)]]
             g == [u \in Users |-> Line(solved, at, rank, u)]
  <2>1. Chart(solved, at) = [u \in Users |-> g[u]]
    BY DEF Chart
  <2> HIDE DEF g
  <2>2. QED BY <2>1
<1>4. QED BY <1>2, <1>3

-----------------------------------------------------------------------------
(* The puzzles of the summary.                                             *)

\* The puzzles a summary names are puzzles, and it counts their solvers.
LEMMA ListTyped ==
  ASSUME BoardTypeOK, Progress, NEW at \in Nat
  PROVE  List(at) \in ListType
<1>1. Len(Event) \in Nat /\ DOMAIN Event = 1..Len(Event) /\ \A i \in 1..Len(Event) : Event[i] \in Puzzles
  BY BoardAssumption
<1>2. \A i : Nth(i) \in Puzzles \union {NoPuzzle}
  BY <1>1 DEF Nth
<1>3. CurrentIdx(at) \in 0..Len(Event)
  <2> DEFINE Open == {i \in DOMAIN Event : Unlock[Event[i]] <= at}
  <2>1. Open \subseteq 1..Len(Event)
    BY <1>1
  <2>2. IsFiniteSet(Open)
    BY <1>1, <2>1, Interval, FS_Subset
  <2>3. IsFiniteSet({0} \union Open)
    <3>1. IsFiniteSet({0})
      BY FS_Singleton
    <3> HIDE DEF Open
    <3>2. QED BY <2>2, <3>1, FS_Union
  <2>4. ({0} \union Open) \in SUBSET Int /\ ({0} \union Open) # {} /\ ({0} \union Open) \subseteq 0..Len(Event)
    BY <1>1, <2>1
  <2>5. Max({0} \union Open) \in {0} \union Open
    <3> HIDE DEF Open
    <3>1. QED BY <2>3, <2>4, GreatestNumber
  <2>6. CurrentIdx(at) = Max({0} \union Open)
    BY DEF CurrentIdx
  <2> HIDE DEF Open
  <2>7. QED BY <2>4, <2>5, <2>6
<1>4. {Event[i] : i \in 1..(CurrentIdx(at) - 1)} \subseteq Puzzles
  BY <1>1, <1>3
<1>5. \A p \in Puzzles : Solvers(p, at) \in [1..2 -> Nat]
  <2> SUFFICES ASSUME NEW p \in Puzzles, NEW i \in 1..2
               PROVE  Cardinality({u \in Visible : Len(solves[u][p]) >= i /\ solves[u][p][i] <= at}) \in Nat
    BY DEF Solvers
  <2>1. {u \in Visible : Len(solves[u][p]) >= i /\ solves[u][p][i] <= at} \subseteq Users
    BY DEF Visible, BoardTypeOK
  <2>2. QED BY <2>1, BoardAssumption, FS_Subset, FS_CardinalityType
<1>6. QED BY <1>2, <1>4, <1>5 DEF List, ListType

-----------------------------------------------------------------------------
(* What the actions do to a page.                                          *)

\* Noting history changes nothing else of a page.
LEMMA FullNoted ==
  ASSUME NEW pg \in PageType, NEW b \in BOOLEAN, NEW new, new = [pg EXCEPT !.full = b]
  PROVE  /\ new \in PageType /\ new.full = b /\ new.kept = pg.kept
         /\ new.kind = pg.kind /\ new.phase = pg.phase /\ new.at = pg.at
         /\ new.first = pg.first /\ new.second = pg.second
         /\ new.list = pg.list /\ new.chart = pg.chart /\ new.owed = pg.owed
BY DEF PageType

LEMMA KeptNoted ==
  ASSUME NEW pg \in PageType, NEW b \in BOOLEAN, NEW new, new = [pg EXCEPT !.kept = b]
  PROVE  /\ new \in PageType /\ new.kept = b /\ new.full = pg.full
         /\ new.kind = pg.kind /\ new.phase = pg.phase /\ new.at = pg.at
         /\ new.first = pg.first /\ new.second = pg.second
         /\ new.list = pg.list /\ new.chart = pg.chart /\ new.owed = pg.owed
BY DEF PageType

\* What a step that is not one of the page's own leaves alone.
SameShown(k) ==
  /\ page'[k].kind = page[k].kind /\ page'[k].phase = page[k].phase /\ page'[k].at = page[k].at
  /\ page'[k].first = page[k].first /\ page'[k].second = page[k].second
  /\ page'[k].list = page[k].list /\ page'[k].chart = page[k].chart /\ page'[k].owed = page[k].owed

LEMMA LateEffect ==
  ASSUME BoardTypeOK, NEW at \in Nat, page' = Late(at)
  PROVE  /\ page' \in [Pages -> PageType]
         /\ \A k \in Pages : /\ SameShown(k) /\ page'[k].kept = page[k].kept
                             /\ page'[k].full <=> page[k].full /\ ~(page[k].phase # "idle" /\ at <= page[k].at)
<1>1. SUFFICES ASSUME NEW k \in Pages
               PROVE  /\ page'[k] \in PageType
                      /\ SameShown(k) /\ page'[k].kept = page[k].kept
                      /\ page'[k].full <=> page[k].full /\ ~(page[k].phase # "idle" /\ at <= page[k].at)
  BY DEF Late
<1> DEFINE b == page[k].full /\ ~(page[k].phase # "idle" /\ at <= page[k].at)
<1>2. page[k] \in PageType
  BY DEF BoardTypeOK
<1>3. page'[k] = [page[k] EXCEPT !.full = b]
  BY <1>2 DEF Late
<1>4. b \in BOOLEAN
  OBVIOUS
<1> HIDE DEF b
<1>5. /\ page'[k] \in PageType /\ page'[k].full = b /\ page'[k].kept = page[k].kept /\ SameShown(k)
  BY <1>2, <1>3, <1>4, FullNoted DEF SameShown
<1>6. QED BY <1>5 DEF b

LEMMA DisturbedEffect ==
  ASSUME BoardTypeOK, page' = Disturbed
  PROVE  /\ page' \in [Pages -> PageType]
         /\ \A k \in Pages : /\ SameShown(k) /\ page'[k].full = page[k].full
                             /\ page'[k].kept <=> page[k].kept /\ page[k].phase = "idle"
<1>1. SUFFICES ASSUME NEW k \in Pages
               PROVE  /\ page'[k] \in PageType
                      /\ SameShown(k) /\ page'[k].full = page[k].full
                      /\ page'[k].kept <=> page[k].kept /\ page[k].phase = "idle"
  BY DEF Disturbed
<1> DEFINE b == page[k].kept /\ page[k].phase = "idle"
<1>2. page[k] \in PageType
  BY DEF BoardTypeOK
<1>3. page'[k] = [page[k] EXCEPT !.kept = b]
  BY <1>2 DEF Disturbed
<1>4. b \in BOOLEAN
  OBVIOUS
<1> HIDE DEF b
<1>5. /\ page'[k] \in PageType /\ page'[k].kept = b /\ page'[k].full = page[k].full /\ SameShown(k)
  BY <1>2, <1>3, <1>4, KeptNoted DEF SameShown
<1>6. QED BY <1>5 DEF b

\* Asking for a page.
LEMMA AskEffect ==
  ASSUME BoardTypeOK, Progress, NEW k \in Pages, Ask(k)
  PROVE  /\ page' \in [Pages -> PageType]
         /\ \A l \in Pages \ {k} : page'[l] = page[l]
         /\ page[k].phase = "idle" /\ page[k].kind # "none"
         /\ page'[k].phase = "asked" /\ page'[k].at \in 0..Forever
         /\ page[k].kind # "chart" => page'[k].at = now
         /\ page'[k].owed = {s \in SolvesOf(joined) : s.time <= page'[k].at}
         /\ page'[k].kind = page[k].kind /\ page'[k].kept = page[k].kept /\ page'[k].full = page[k].full
         /\ page'[k].first = page[k].first /\ page'[k].second = page[k].second
         /\ page'[k].list = page[k].list /\ page'[k].chart = page[k].chart
<1>1. PICK at \in IF page[k].kind = "chart" THEN 0..Forever ELSE {now} :
        page' = [page EXCEPT ![k].phase = "asked", ![k].at = at,
                             ![k].owed = {s \in SolvesOf(joined) : s.time <= at}]
  BY DEF Ask
<1>2. at \in 0..Forever /\ Forever \in Nat
  BY BoardAssumption DEF BoardTypeOK
<1> DEFINE due == {s \in SolvesOf(joined) : s.time <= at}
<1>3. due \in SUBSET SolveType /\ at \in Nat
  BY <1>2, StoredSolve DEF BoardTypeOK
<1>4. page[k] \in PageType /\ page \in [Pages -> PageType]
  BY DEF BoardTypeOK
<1>5. page'[k] = [page[k] EXCEPT !.phase = "asked", !.at = at, !.owed = due]
  BY <1>1, <1>4
<1>6. \A l \in Pages \ {k} : page'[l] = page[l]
  BY <1>1, <1>4
<1>7. page[k].phase = "idle" /\ page[k].kind # "none"
  BY DEF Ask
<1> HIDE DEF due
<1>8. page'[k] \in PageType
  BY <1>2, <1>3, <1>4, <1>5 DEF PageType
<1>9. DOMAIN page' = Pages /\ page' = [l \in Pages |-> page'[l]]
  BY <1>1, <1>4
<1>10. page' \in [Pages -> PageType]
  BY <1>4, <1>6, <1>8, <1>9
<1>11. /\ page'[k].phase = "asked" /\ page'[k].at = at /\ page'[k].owed = due
       /\ page'[k].kind = page[k].kind /\ page'[k].kept = page[k].kept /\ page'[k].full = page[k].full
       /\ page'[k].first = page[k].first /\ page'[k].second = page[k].second
       /\ page'[k].list = page[k].list /\ page'[k].chart = page[k].chart
  BY <1>4, <1>5 DEF PageType
<1>12. page[k].kind # "chart" => at = now
  BY <1>1
<1>13. QED BY <1>2, <1>6, <1>7, <1>10, <1>11, <1>12 DEF due

\* The first transaction.
LEMMA FirstEffect ==
  ASSUME BoardTypeOK, Progress, NEW k \in Pages, First(k)
  PROVE  /\ page' \in [Pages -> PageType]
         /\ \A l \in Pages \ {k} : page'[l] = page[l]
         /\ page[k].phase = "asked"
         /\ page'[k].phase = IF page[k].kind \in {"solves", "chart"} THEN "done" ELSE "half"
         /\ page'[k].kind = page[k].kind /\ page'[k].at = page[k].at
         /\ page'[k].kept = page[k].kept /\ page'[k].full = page[k].full
         /\ page'[k].second = page[k].second
         /\ \E solved \in Replays(Cut(page[k].kind, 1, page[k].at)) :
              /\ page'[k].first = Table(solved)
              /\ page'[k].owed = {s \in page[k].owed : ~\E r \in Table(solved).solves : Bare(r) = Bare(s)}
              /\ page[k].kind \in {"board", "chart"} => page'[k].chart = Chart(solved, page[k].at)
         /\ page[k].kind = "summary" => page'[k].list = List(page[k].at)
<1>1. PICK solved \in Replays(Cut(page[k].kind, 1, page[k].at)) :
        page' = [page EXCEPT
             ![k].phase = IF page[k].kind \in {"solves", "chart"} THEN "done" ELSE "half",
             ![k].first = Table(solved),
             ![k].owed = {s \in @ : ~\E r \in Table(solved).solves : Bare(r) = Bare(s)},
             ![k].chart = IF page[k].kind \in {"board", "chart"} THEN Chart(solved, page[k].at) ELSE @,
             ![k].list = IF page[k].kind = "summary" THEN List(page[k].at) ELSE @]
  BY DEF First
<1> DEFINE phase == IF page[k].kind \in {"solves", "chart"} THEN "done" ELSE "half"
           owed == {s \in page[k].owed : ~\E r \in Table(solved).solves : Bare(r) = Bare(s)}
           chart == IF page[k].kind \in {"board", "chart"} THEN Chart(solved, page[k].at) ELSE page[k].chart
           list == IF page[k].kind = "summary" THEN List(page[k].at) ELSE page[k].list
           table == Table(solved)
<1>2. page[k] \in PageType /\ page \in [Pages -> PageType] /\ page[k].phase = "asked"
  BY DEF BoardTypeOK, First
<1>3. page'[k] = [page[k] EXCEPT !.phase = phase, !.first = table, !.owed = owed, !.chart = chart, !.list = list]
  BY <1>1, <1>2
<1>4. \A l \in Pages \ {k} : page'[l] = page[l]
  BY <1>1, <1>2
<1>5. page[k].at \in Nat /\ page[k].owed \in SUBSET SolveType /\ page[k].chart \in [Users -> LineType]
      /\ page[k].list \in ListType
  BY <1>2 DEF PageType
<1>6. phase \in {"half", "done"} /\ owed \in SUBSET SolveType
  BY <1>5
<1>7. table \in TableType
  BY TableGenuine DEF Genuine
<1>8. chart \in [Users -> LineType] /\ list \in ListType
  BY <1>5, ChartTyped, ListTyped
<1>9. page[k].kind \in {"board", "chart"} => chart = Chart(solved, page[k].at)
  OBVIOUS
<1>10. page[k].kind = "summary" => list = List(page[k].at)
  OBVIOUS
<1>11. DOMAIN page' = Pages /\ page' = [l \in Pages |-> page'[l]]
  BY <1>1, <1>2
<1> HIDE DEF phase, owed, chart, list, table
<1>12. page'[k] \in PageType
  BY <1>2, <1>3, <1>6, <1>7, <1>8 DEF PageType
<1>13. page' \in [Pages -> PageType]
  BY <1>2, <1>4, <1>11, <1>12
<1>14. /\ page'[k].phase = phase /\ page'[k].first = table /\ page'[k].owed = owed
       /\ page'[k].chart = chart /\ page'[k].list = list
       /\ page'[k].kind = page[k].kind /\ page'[k].at = page[k].at
       /\ page'[k].kept = page[k].kept /\ page'[k].full = page[k].full
       /\ page'[k].second = page[k].second
  BY <1>2, <1>3 DEF PageType
<1>15. QED BY <1>2, <1>4, <1>9, <1>10, <1>13, <1>14 DEF phase, owed, table

\* The second one.
LEMMA SecondEffect ==
  ASSUME BoardTypeOK, Progress, NEW k \in Pages, Second(k)
  PROVE  /\ page' \in [Pages -> PageType]
         /\ \A l \in Pages \ {k} : page'[l] = page[l]
         /\ page[k].phase = "half" /\ page'[k].phase = "done"
         /\ page'[k].kind = page[k].kind /\ page'[k].at = page[k].at
         /\ page'[k].kept = page[k].kept /\ page'[k].full = page[k].full
         /\ page'[k].first = page[k].first /\ page'[k].owed = page[k].owed
         /\ page'[k].chart = page[k].chart /\ page'[k].list = page[k].list
         /\ \E solved \in Replays(Cut(page[k].kind, 2, page[k].at)) : page'[k].second = Table(solved)
<1>1. PICK solved \in Replays(Cut(page[k].kind, 2, page[k].at)) :
        page' = [page EXCEPT ![k].phase = "done", ![k].second = Table(solved)]
  BY DEF Second
<1> DEFINE table == Table(solved)
<1>2. page[k] \in PageType /\ page \in [Pages -> PageType] /\ page[k].phase = "half"
  BY DEF BoardTypeOK, Second
<1>3. page'[k] = [page[k] EXCEPT !.phase = "done", !.second = table]
  BY <1>1, <1>2
<1>4. \A l \in Pages \ {k} : page'[l] = page[l]
  BY <1>1, <1>2
<1>5. table \in TableType
  BY TableGenuine DEF Genuine
<1>6. DOMAIN page' = Pages /\ page' = [l \in Pages |-> page'[l]]
  BY <1>1, <1>2
<1> HIDE DEF table
<1>7. page'[k] \in PageType
  BY <1>2, <1>3, <1>5 DEF PageType
<1>8. page' \in [Pages -> PageType]
  BY <1>2, <1>4, <1>6, <1>7
<1>9. /\ page'[k].phase = "done" /\ page'[k].second = table
      /\ page'[k].kind = page[k].kind /\ page'[k].at = page[k].at
      /\ page'[k].kept = page[k].kept /\ page'[k].full = page[k].full
      /\ page'[k].first = page[k].first /\ page'[k].owed = page[k].owed
      /\ page'[k].chart = page[k].chart /\ page'[k].list = page[k].list
  BY <1>2, <1>3 DEF PageType
<1>10. QED BY <1>2, <1>4, <1>8, <1>9 DEF table

-----------------------------------------------------------------------------
(* Types and the stored progress.                                          *)

LEMMA StartTyped == BoardInit => BoardTypeOK /\ Progress
<1> SUFFICES ASSUME BoardInit PROVE BoardTypeOK /\ Progress
  OBVIOUS
<1>1. PICK start \in Starts :
        /\ now = start.now /\ solves = start.solves
        /\ joined = {u \in Users : \E p \in Puzzles : start.solves[u][p] # <<>>}
        /\ hidden \in SUBSET Testers
        /\ answer = [u \in Users |-> NoAnswer]
        /\ page = [k \in Pages |-> NoPage(start.visit[k])]
        /\ acts = 0
  BY DEF BoardInit
<1>2. /\ start.now \in 0..Forever /\ start.solves \in [Users -> [Puzzles -> Seq(Nat)]]
      /\ start.visit \in [Pages -> Kinds \union {"none"}]
      /\ \A u \in Users, p \in Puzzles :
           /\ Len(start.solves[u][p]) <= PartCount[p]
           /\ \A i \in 1..Len(start.solves[u][p]) : start.solves[u][p][i] <= start.now
  BY StartsAssumption
<1>3. \A kind \in Kinds \union {"none"} : NoPage(kind) \in PageType
  <2>1. NoTable \in TableType
    BY DEF NoTable, TableType
  <2>2. NoList \in ListType
    BY DEF NoList, ListType
  <2>3. NoChart \in [Users -> LineType]
    BY DEF NoChart, LineType
  <2>4. QED BY <2>1, <2>2, <2>3 DEF NoPage, PageType
<1>4. page \in [Pages -> PageType]
  BY <1>1, <1>2, <1>3
<1>5. NoAnswer.at = 0
  BY DEF NoAnswer
<1>6. Testers \subseteq Users /\ Forever \in Nat
  BY BoardAssumption
<1>7. BoardTypeOK
  BY <1>1, <1>2, <1>4, <1>6 DEF BoardTypeOK
<1>8. Progress
  BY <1>1, <1>2, <1>5, <1>6 DEF Progress
<1>9. QED BY <1>7, <1>8

LEMMA RecordTyped ==
  ASSUME BoardTypeOK, Progress, NEW u \in Users, Record(u)
  PROVE  BoardTypeOK' /\ Progress'
<1>1. /\ answer[u] \in [puzzle : Puzzles, at : Nat] /\ answer[u].at <= now /\ now \in Nat
      /\ answer' = [answer EXCEPT ![u] = NoAnswer]
      /\ UNCHANGED <<now, acts>>
  BY BoardAssumption DEF Record, BoardTypeOK, Progress
<1>2. /\ answer' \in [Users -> [puzzle : Puzzles, at : Nat] \union {NoAnswer}]
      /\ \A v \in Users : answer'[v].at <= now
  BY <1>1 DEF BoardTypeOK, Progress, NoAnswer
<1>3. CASE UNCHANGED <<players, page>>
  BY <1>1, <1>2, <1>3 DEF BoardTypeOK, Progress, players
<1>4. CASE joined' = joined \union {u} /\ UNCHANGED <<hidden, solves, page>>
  <2>1. BoardTypeOK'
    BY <1>1, <1>2, <1>4 DEF BoardTypeOK
  <2>2. Progress'
    BY <1>1, <1>2, <1>4 DEF Progress
  <2>3. QED BY <2>1, <2>2
<1>5. CASE /\ Accepted(u) /\ joined' = joined \union {u}
           /\ solves' = [solves EXCEPT ![u][answer[u].puzzle] = Append(@, answer[u].at)]
           /\ page' = Late(answer[u].at) /\ UNCHANGED hidden
  <2> DEFINE q == answer[u].puzzle
             at == answer[u].at
  <2>1. q \in Puzzles /\ at \in Nat /\ at <= now
    BY <1>1
  <2>2. /\ solves[u][q] \in Seq(Nat) /\ Len(solves[u][q]) \in Nat
        /\ PartCount[q] \in 1..2 /\ Len(solves[u][q]) < PartCount[q]
    <3>1. Len(solves[u][q]) < PartCount[q]
      BY <1>5 DEF Accepted
    <3> HIDE DEF q
    <3>2. solves[u][q] \in Seq(Nat) /\ PartCount[q] \in 1..2
      BY <2>1, BoardAssumption DEF BoardTypeOK
    <3>3. QED BY <3>1, <3>2
  <2>3. /\ Append(solves[u][q], at) \in Seq(Nat)
        /\ Len(Append(solves[u][q], at)) = Len(solves[u][q]) + 1
        /\ \A i \in 1..Len(Append(solves[u][q], at)) :
             Append(solves[u][q], at)[i] = IF i <= Len(solves[u][q]) THEN solves[u][q][i] ELSE at
    BY <2>1, <2>2
  <2>4. \A v \in Users, p \in Puzzles :
          solves'[v][p] = IF v = u /\ p = q THEN Append(solves[u][q], at) ELSE solves[v][p]
    BY <1>5, <2>1 DEF BoardTypeOK
  <2>5. solves' \in [Users -> [Puzzles -> Seq(Nat)]]
    BY <1>5, <2>1, <2>3 DEF BoardTypeOK
  <2>6. page' \in [Pages -> PageType]
    BY <1>5, <2>1, LateEffect
  <2>7. BoardTypeOK'
    BY <1>1, <1>2, <1>5, <2>5, <2>6 DEF BoardTypeOK
  <2>8. \A v \in Users, p \in Puzzles :
          /\ Len(solves'[v][p]) <= PartCount[p]
          /\ \A i \in 1..Len(solves'[v][p]) : solves'[v][p][i] <= now
          /\ v \notin joined' => solves'[v][p] = <<>>
    <3> SUFFICES ASSUME NEW v \in Users, NEW p \in Puzzles
                 PROVE  /\ Len(solves'[v][p]) <= PartCount[p]
                        /\ \A i \in 1..Len(solves'[v][p]) : solves'[v][p][i] <= now
                        /\ v \notin joined' => solves'[v][p] = <<>>
      OBVIOUS
    <3>1. CASE v = u /\ p = q
      <4>1. solves'[v][p] = Append(solves[u][q], at) /\ v \in joined'
        BY <1>5, <2>4, <3>1
      <4>2. \A i \in 1..Len(solves[u][q]) : solves[u][q][i] <= now
        BY <2>1 DEF Progress
      <4> HIDE DEF q, at
      <4>3. Len(Append(solves[u][q], at)) <= PartCount[p]
        BY <2>2, <2>3, <3>1
      <4>4. \A i \in 1..Len(Append(solves[u][q], at)) : Append(solves[u][q], at)[i] <= now
        BY <2>1, <2>2, <2>3, <4>2
      <4>5. QED BY <4>1, <4>3, <4>4
    <3>2. CASE ~(v = u /\ p = q)
      <4>1. solves'[v][p] = solves[v][p]
        BY <2>4, <3>2
      <4>2. QED BY <1>5, <4>1 DEF Progress
    <3>3. QED BY <3>1, <3>2
  <2>9. Progress'
    BY <1>1, <1>2, <2>8 DEF Progress
  <2>10. QED BY <2>7, <2>9
<1>6. QED BY <1>3, <1>4, <1>5 DEF Record

LEMMA AdminTyped ==
  ASSUME BoardTypeOK, Progress, NEW u \in Users, Hide(u) \/ Reset(u)
  PROVE  BoardTypeOK' /\ Progress'
<1>1. page' = Disturbed /\ page' \in [Pages -> PageType] /\ acts' \in Nat /\ UNCHANGED <<now, answer>>
  BY DisturbedEffect DEF Hide, Reset, BoardTypeOK
<1>2. CASE Hide(u)
  <2>1. hidden' \subseteq Users /\ UNCHANGED <<joined, solves>>
    BY <1>2 DEF Hide, BoardTypeOK
  <2>2. QED BY <1>1, <2>1 DEF BoardTypeOK, Progress
<1>3. CASE Reset(u)
  <2>1. /\ joined' = joined \ {u} /\ UNCHANGED hidden
        /\ solves' = [solves EXCEPT ![u] = [p \in Puzzles |-> <<>>]]
    BY <1>3 DEF Reset
  <2>2. solves' \in [Users -> [Puzzles -> Seq(Nat)]]
        /\ \A v \in Users, p \in Puzzles : solves'[v][p] = IF v = u THEN <<>> ELSE solves[v][p]
    BY <2>1 DEF BoardTypeOK
  <2>3. BoardTypeOK'
    BY <1>1, <2>1, <2>2 DEF BoardTypeOK
  <2>4. \A p \in Puzzles : PartCount[p] \in 1..2
    BY BoardAssumption
  <2>5. ASSUME NEW v \in Users, NEW p \in Puzzles
        PROVE  /\ Len(solves'[v][p]) <= PartCount[p]
               /\ \A i \in 1..Len(solves'[v][p]) : solves'[v][p][i] <= now
               /\ v \notin joined' => solves'[v][p] = <<>>
    <3>1. CASE v = u
      <4>1. solves'[v][p] = <<>> /\ Len(solves'[v][p]) = 0
        BY <2>2, <3>1
      <4>2. QED BY <2>4, <4>1
    <3>2. CASE v # u
      <4>1. solves'[v][p] = solves[v][p] /\ (v \notin joined' => v \notin joined)
        BY <2>1, <2>2, <3>2
      <4>2. QED BY <4>1 DEF Progress
    <3>3. QED BY <3>1, <3>2
  <2>6. Progress'
    BY <1>1, <2>5 DEF Progress
  <2>7. QED BY <2>3, <2>6
<1>4. QED BY <1>2, <1>3

LEMMA TypeStep == BoardTypeOK /\ Progress /\ [BoardNext]_boardVars => BoardTypeOK' /\ Progress'
<1> SUFFICES ASSUME BoardTypeOK, Progress, [BoardNext]_boardVars PROVE BoardTypeOK' /\ Progress'
  OBVIOUS
<1>1. CASE Tick
  <2>1. now' = now + 1 /\ now' \in 0..Forever /\ now \in Nat /\ UNCHANGED <<joined, hidden, solves, answer, page, acts>>
    BY <1>1, BoardAssumption DEF Tick, BoardTypeOK, players
  <2>2. \A u \in Users : answer[u].at \in Nat
    BY DEF BoardTypeOK, NoAnswer
  <2>3. \A u \in Users, p \in Puzzles : \A i \in 1..Len(solves[u][p]) : solves[u][p][i] \in Nat
    BY DEF BoardTypeOK
  <2>4. BoardTypeOK'
    BY <2>1 DEF BoardTypeOK
  <2>5. \A n \in Nat : n <= now => n <= now + 1
    BY <2>1
  <2>6. Progress'
    BY <2>1, <2>2, <2>3, <2>5 DEF Progress
  <2>7. QED BY <2>4, <2>6
<1>2. ASSUME NEW u \in Players, NEW p \in Puzzles, Answer(u, p) PROVE BoardTypeOK' /\ Progress'
  <2>1. /\ answer' = [answer EXCEPT ![u] = [puzzle |-> p, at |-> now]]
        /\ UNCHANGED <<now, joined, hidden, solves, page, acts>> /\ now \in Nat /\ u \in Users
    BY <1>2, BoardAssumption DEF Answer, players, BoardTypeOK
  <2>2. /\ answer' \in [Users -> [puzzle : Puzzles, at : Nat] \union {NoAnswer}]
        /\ \A v \in Users : answer'[v].at <= now
    BY <2>1 DEF BoardTypeOK, Progress
  <2>3. QED BY <2>1, <2>2 DEF BoardTypeOK, Progress
<1>3. ASSUME NEW u \in Players, Record(u) \/ Hide(u) \/ Reset(u) PROVE BoardTypeOK' /\ Progress'
  BY <1>3, BoardAssumption, RecordTyped, AdminTyped
<1>4. ASSUME NEW k \in Pages, Ask(k) \/ First(k) \/ Second(k) PROVE BoardTypeOK' /\ Progress'
  <2>1. page' \in [Pages -> PageType]
    BY <1>4, AskEffect, FirstEffect, SecondEffect
  <2>2. UNCHANGED <<now, joined, hidden, solves, answer, acts>>
    BY <1>4 DEF Ask, First, Second, players
  <2>3. QED BY <2>1, <2>2 DEF BoardTypeOK, Progress
<1>5. CASE UNCHANGED boardVars
  BY <1>5 DEF boardVars, players, BoardTypeOK, Progress
<1>6. QED BY <1>1, <1>2, <1>3, <1>4, <1>5 DEF BoardNext

\* Every variable of the leaderboard keeps its type: what a page holds is a table,
\* a list and a chart whatever was stored.
THEOREM BoardTypeCorrect == BoardSpec => []BoardTypeOK
<1>1. BoardInit => BoardTypeOK /\ Progress
  BY StartTyped
<1>2. BoardTypeOK /\ Progress /\ [BoardNext]_boardVars => BoardTypeOK' /\ Progress'
  BY TypeStep
<1>3. QED BY <1>1, <1>2, PTL DEF BoardSpec

-----------------------------------------------------------------------------
(* The tables of all pages.                                                *)

\* Solves that are stored in some progress.
SolvesIn(sol, us) ==
  UNION {{[user |-> u, puzzle |-> p, part |-> i, time |-> sol[u][p][i]] :
            i \in 1..Len(sol[u][p])} : u \in us, p \in Puzzles}

LEMMA StoredIn ==
  ASSUME NEW sol, NEW us, NEW s
  PROVE  s \in SolvesIn(sol, us) <=>
           \E u \in us, p \in Puzzles : \E i \in 1..Len(sol[u][p]) :
             s = [user |-> u, puzzle |-> p, part |-> i, time |-> sol[u][p][i]]
<1> DEFINE of(u, p) == {[user |-> u, puzzle |-> p, part |-> i, time |-> sol[u][p][i]] :
                          i \in 1..Len(sol[u][p])}
<1>1. SolvesIn(sol, us) = UNION {of(u, p) : u \in us, p \in Puzzles}
  BY DEF SolvesIn
<1>2. \A u \in us, p \in Puzzles :
        s \in of(u, p) <=> \E i \in 1..Len(sol[u][p]) :
                             s = [user |-> u, puzzle |-> p, part |-> i, time |-> sol[u][p][i]]
  OBVIOUS
<1> HIDE DEF of
<1>3. s \in UNION {of(u, p) : u \in us, p \in Puzzles} <=> \E u \in us, p \in Puzzles : s \in of(u, p)
  OBVIOUS
<1>4. QED BY <1>1, <1>2, <1>3

\* What was stored stays stored when progress only grows.
LEMMA StoredStays ==
  ASSUME NEW old, NEW new, NEW us, NEW vs, us \subseteq vs,
         \A u \in us, p \in Puzzles : \A i \in 1..Len(old[u][p]) :
           i \in 1..Len(new[u][p]) /\ new[u][p][i] = old[u][p][i]
  PROVE  SolvesIn(old, us) \subseteq SolvesIn(new, vs)
<1> SUFFICES ASSUME NEW s \in SolvesIn(old, us) PROVE s \in SolvesIn(new, vs)
  OBVIOUS
<1>1. PICK u \in us, p \in Puzzles : \E i \in 1..Len(old[u][p]) :
        s = [user |-> u, puzzle |-> p, part |-> i, time |-> old[u][p][i]]
  BY StoredIn
<1>2. PICK i \in 1..Len(old[u][p]) : s = [user |-> u, puzzle |-> p, part |-> i, time |-> old[u][p][i]]
  BY <1>1
<1>3. u \in vs /\ i \in 1..Len(new[u][p])
      /\ s = [user |-> u, puzzle |-> p, part |-> i, time |-> new[u][p][i]]
  BY <1>2
<1>4. QED BY <1>3, StoredIn

\* A step that hides and resets nobody: nothing that is stored is lost, and a page
\* stays full only if nothing of its past is added.
Grows(k) ==
  /\ SameShown(k) /\ page'[k].kept = page[k].kept /\ (page'[k].full => page[k].full)
  /\ now <= now'
  /\ SolvesIn(solves, joined) \subseteq SolvesIn(solves', joined')
  /\ SolvesIn(solves, joined \ hidden) \subseteq SolvesIn(solves', joined' \ hidden')
  /\ page[k].phase # "idle" /\ page'[k].full
     => \A s \in SolvesIn(solves', joined' \ hidden') :
          s.time <= page[k].at => s \in SolvesIn(solves, joined \ hidden)

\* A step that does notes it in the pages under way.
Clears(k) ==
  /\ SameShown(k) /\ (page'[k].full => page[k].full)
  /\ page'[k].kept => page[k].kept /\ page[k].phase = "idle"
  /\ now' = now

\* A page of its own reads and changes no progress.
OwnStep(k) == (Ask(k) \/ First(k) \/ Second(k)) /\ UNCHANGED <<now, players>>

LEMMA SameGrows ==
  ASSUME BoardTypeOK, NEW k \in Pages, page'[k] = page[k], UNCHANGED players, now <= now'
  PROVE  Grows(k)
<1>1. solves' = solves /\ joined' = joined /\ hidden' = hidden
  BY DEF players
<1>2. QED BY <1>1 DEF Grows, SameShown

\* A record adds nothing but the solve of the answer it commits.
LEMMA RecordGrows ==
  ASSUME BoardTypeOK, Progress, NEW u \in Users, Record(u), NEW k \in Pages
  PROVE  Grows(k)
<1>1. /\ answer[u] \in [puzzle : Puzzles, at : Nat] /\ now \in Nat /\ now' = now
  BY DEF Record, BoardTypeOK
<1>2. now <= now'
  BY <1>1
<1>3. CASE UNCHANGED <<players, page>>
  BY <1>2, <1>3, SameGrows
<1> DEFINE q == answer[u].puzzle
           at == answer[u].at
<1>4. q \in Puzzles /\ at \in Nat /\ solves[u][q] \in Seq(Nat)
  BY <1>1 DEF BoardTypeOK
<1>5. CASE joined' = joined \union {u} /\ UNCHANGED <<hidden, solves, page>>
  <2>1. SolvesIn(solves, joined) \subseteq SolvesIn(solves', joined')
        /\ SolvesIn(solves, joined \ hidden) \subseteq SolvesIn(solves', joined' \ hidden')
    BY <1>5, StoredStays
  <2>2. ASSUME NEW s \in SolvesIn(solves', joined' \ hidden') PROVE s \in SolvesIn(solves, joined \ hidden)
    <3>1. PICK v \in joined' \ hidden', p \in Puzzles : \E i \in 1..Len(solves'[v][p]) :
            s = [user |-> v, puzzle |-> p, part |-> i, time |-> solves'[v][p][i]]
      BY <2>2, StoredIn
    <3>2. solves'[v][p] = solves[v][p] /\ solves[v][p] # <<>>
      BY <1>5, <3>1
    <3>3. v \in joined \ hidden
      BY <1>5, <3>2 DEF Progress, BoardTypeOK
    <3>4. \E i \in 1..Len(solves[v][p]) :
            s = [user |-> v, puzzle |-> p, part |-> i, time |-> solves[v][p][i]]
      BY <3>1, <3>2
    <3>5. QED BY <3>3, <3>4, StoredIn
  <2>3. SameShown(k) /\ page'[k].kept = page[k].kept /\ (page'[k].full => page[k].full)
    BY <1>5 DEF SameShown
  <2>4. QED BY <1>2, <2>1, <2>2, <2>3 DEF Grows
<1>6. CASE /\ Accepted(u) /\ joined' = joined \union {u}
           /\ solves' = [solves EXCEPT ![u][answer[u].puzzle] = Append(@, answer[u].at)]
           /\ page' = Late(answer[u].at) /\ UNCHANGED hidden
  <2>1. \A v \in Users, p \in Puzzles :
          solves'[v][p] = IF v = u /\ p = q THEN Append(solves[u][q], at) ELSE solves[v][p]
    BY <1>4, <1>6 DEF BoardTypeOK
  <2>2. /\ Len(Append(solves[u][q], at)) = Len(solves[u][q]) + 1 /\ Len(solves[u][q]) \in Nat
        /\ \A i \in 1..Len(Append(solves[u][q], at)) :
             Append(solves[u][q], at)[i] = IF i <= Len(solves[u][q]) THEN solves[u][q][i] ELSE at
    BY <1>4
  <2>3. \A v \in Users, p \in Puzzles : \A i \in 1..Len(solves[v][p]) :
          i \in 1..Len(solves'[v][p]) /\ solves'[v][p][i] = solves[v][p][i]
    <3> SUFFICES ASSUME NEW v \in Users, NEW p \in Puzzles, NEW i \in 1..Len(solves[v][p])
                 PROVE  i \in 1..Len(solves'[v][p]) /\ solves'[v][p][i] = solves[v][p][i]
      OBVIOUS
    <3>1. CASE v = u /\ p = q
      <4>1. solves'[v][p] = Append(solves[u][q], at)
        BY <2>1, <3>1
      <4> HIDE DEF q, at
      <4>2. QED BY <2>2, <3>1, <4>1
    <3>2. QED BY <2>1, <3>1
  <2>4. joined \subseteq Users /\ joined \subseteq joined' /\ joined \ hidden \subseteq joined' \ hidden'
    BY <1>6 DEF BoardTypeOK
  <2>5. SolvesIn(solves, joined) \subseteq SolvesIn(solves', joined')
        /\ SolvesIn(solves, joined \ hidden) \subseteq SolvesIn(solves', joined' \ hidden')
    BY <2>3, <2>4, StoredStays
  <2>6. SameShown(k) /\ page'[k].kept = page[k].kept
        /\ (page'[k].full <=> page[k].full /\ ~(page[k].phase # "idle" /\ at <= page[k].at))
    BY <1>4, <1>6, LateEffect
  <2>7. ASSUME page[k].phase # "idle", page'[k].full,
               NEW s \in SolvesIn(solves', joined' \ hidden'), s.time <= page[k].at
        PROVE  s \in SolvesIn(solves, joined \ hidden)
    <3>1. PICK v \in joined' \ hidden', p \in Puzzles : \E i \in 1..Len(solves'[v][p]) :
            s = [user |-> v, puzzle |-> p, part |-> i, time |-> solves'[v][p][i]]
      BY <2>7, StoredIn
    <3>2. PICK i \in 1..Len(solves'[v][p]) :
            s = [user |-> v, puzzle |-> p, part |-> i, time |-> solves'[v][p][i]]
      BY <3>1
    <3>3. v \in Users
      BY <1>6 DEF BoardTypeOK
    <3>4. ~(at <= page[k].at)
      BY <2>6, <2>7
    <3>5. solves'[v][p][i] # at
      BY <2>7, <3>2, <3>4
    <3>6. i \in 1..Len(solves[v][p]) /\ solves'[v][p][i] = solves[v][p][i]
      <4>1. CASE v = u /\ p = q
        <5>1. solves'[v][p] = Append(solves[u][q], at)
          BY <2>1, <3>3, <4>1
        <5> HIDE DEF q, at
        <5>2. QED BY <2>2, <3>2, <3>5, <4>1, <5>1
      <4>2. QED BY <2>1, <3>2, <3>3, <4>1
    <3>7. v \in joined \ hidden
      <4>1. solves[v][p] # <<>>
        BY <3>6
      <4>2. QED BY <1>6, <3>3, <4>1 DEF Progress
    <3>8. s = [user |-> v, puzzle |-> p, part |-> i, time |-> solves[v][p][i]]
      BY <3>2, <3>6
    <3>9. QED BY <3>6, <3>7, <3>8, StoredIn
  <2>8. page'[k].full => page[k].full
    BY <2>6
  <2>9. QED BY <1>2, <2>5, <2>6, <2>7, <2>8 DEF Grows
<1>7. QED BY <1>3, <1>5, <1>6 DEF Record

\* Every step is one of these.
LEMMA StepKinds ==
  ASSUME BoardTypeOK, Progress, [BoardNext]_boardVars
  PROVE  \/ \A k \in Pages : Grows(k)
         \/ \A k \in Pages : Clears(k)
         \/ \E l \in Pages : OwnStep(l) /\ \A k \in Pages \ {l} : page'[k] = page[k]
<1>1. now \in Nat
  BY BoardAssumption DEF BoardTypeOK
<1>2. CASE Tick
  <2>1. UNCHANGED <<players, page>> /\ now <= now'
    BY <1>1, <1>2 DEF Tick
  <2>2. QED BY <2>1, SameGrows
<1>3. ASSUME NEW u \in Players, NEW p \in Puzzles, Answer(u, p) PROVE \A k \in Pages : Grows(k)
  <2>1. UNCHANGED <<players, page>> /\ now <= now'
    BY <1>1, <1>3 DEF Answer
  <2>2. QED BY <2>1, SameGrows
<1>4. ASSUME NEW u \in Players, Record(u) PROVE \A k \in Pages : Grows(k)
  BY <1>4, BoardAssumption, RecordGrows
<1>5. ASSUME NEW u \in Players, Hide(u) \/ Reset(u) PROVE \A k \in Pages : Clears(k)
  <2>1. page' = Disturbed /\ now' = now
    BY <1>5 DEF Hide, Reset
  <2>2. QED BY <2>1, DisturbedEffect DEF Clears
<1>6. ASSUME NEW l \in Pages, Ask(l) \/ First(l) \/ Second(l)
      PROVE  OwnStep(l) /\ \A k \in Pages \ {l} : page'[k] = page[k]
  <2>1. UNCHANGED <<now, players>>
    BY <1>6 DEF Ask, First, Second
  <2>2. QED BY <1>6, <2>1, AskEffect, FirstEffect, SecondEffect DEF OwnStep
<1>7. CASE UNCHANGED boardVars
  <2>1. UNCHANGED <<players, page>> /\ now <= now'
    BY <1>1, <1>7 DEF boardVars
  <2>2. QED BY <2>1, SameGrows
<1>8. CASE \E u \in Players, p \in Puzzles : Answer(u, p)
  BY <1>3, <1>8
<1>9. CASE \E u \in Players : Record(u) \/ Hide(u) \/ Reset(u)
  BY <1>4, <1>5, <1>9
<1>10. CASE \E l \in Pages : Ask(l) \/ First(l) \/ Second(l)
  BY <1>6, <1>10
<1>11. QED BY <1>2, <1>7, <1>8, <1>9, <1>10 DEF BoardNext

\* What a step does to one page.
LEMMA PageSteps ==
  ASSUME BoardTypeOK, Progress, [BoardNext]_boardVars, NEW k \in Pages
  PROVE  Grows(k) \/ Clears(k) \/ OwnStep(k)
<1>1. CASE \E l \in Pages : OwnStep(l) /\ \A m \in Pages \ {l} : page'[m] = page[m]
  <2>1. PICK l \in Pages : OwnStep(l) /\ \A m \in Pages \ {l} : page'[m] = page[m]
    BY <1>1
  <2>2. now <= now' /\ UNCHANGED players
    BY <2>1, BoardAssumption DEF OwnStep, BoardTypeOK
  <2>3. CASE k # l
    BY <2>1, <2>2, <2>3, SameGrows
  <2>4. QED BY <2>1, <2>3
<1>2. QED BY <1>1, StepKinds

TableRight(t) == Genuine(t) /\ FollowsRules(t)
TablesRight == \A k \in Pages : TableRight(page[k].first) /\ TableRight(page[k].second)

\* A table before it is made is right.
LEMMA NoTableRight == TableRight(NoTable)
<1>1. NoTable.players = {} /\ NoTable.solves = {} /\ NoTable \in TableType
  BY DEF NoTable, TableType
<1>2. IsFiniteSet({}) /\ Cardinality({}) = 0
  BY FS_EmptySet
<1>3. 1..0 = {} /\ {Position(NoTable, u) : u \in {}} = {}
  OBVIOUS
<1>4. Genuine(NoTable)
  BY <1>1, <1>2 DEF Genuine
<1>5. FollowsRules(NoTable)
  BY <1>1, <1>2, <1>3 DEF FollowsRules
<1>6. QED BY <1>4, <1>5 DEF TableRight

LEMMA StartRight == BoardInit => TablesRight
<1> SUFFICES ASSUME BoardInit, NEW k \in Pages
             PROVE  page[k].first = NoTable /\ page[k].second = NoTable
  BY NoTableRight DEF TablesRight
<1>1. QED BY DEF BoardInit, NoPage

LEMMA TablesStep ==
  BoardTypeOK /\ Progress /\ TablesRight /\ [BoardNext]_boardVars => TablesRight'
<1> SUFFICES ASSUME BoardTypeOK, Progress, TablesRight, [BoardNext]_boardVars, NEW k \in Pages
             PROVE  TableRight(page'[k].first) /\ TableRight(page'[k].second)
  BY DEF TablesRight, TableRight, Genuine, FollowsRules, Position, Rank, Above, Parts, Score, LastSolve, Solved, TableType
<1>1. TableRight(page[k].first) /\ TableRight(page[k].second)
  BY DEF TablesRight
<1>2. CASE Grows(k) \/ Clears(k)
  BY <1>1, <1>2 DEF Grows, Clears, SameShown
<1>3. CASE Ask(k)
  BY <1>1, <1>3, AskEffect
<1>4. CASE First(k)
  <2>1. \E solved \in Replays(Cut(page[k].kind, 1, page[k].at)) : page'[k].first = Table(solved)
    BY <1>4, FirstEffect
  <2>2. page'[k].second = page[k].second
    BY <1>4, FirstEffect
  <2>3. QED BY <1>1, <2>1, <2>2, TableGenuine, TableFollowsRules DEF TableRight
<1>5. CASE Second(k)
  <2>1. \E solved \in Replays(Cut(page[k].kind, 2, page[k].at)) : page'[k].second = Table(solved)
    BY <1>5, SecondEffect
  <2>2. page'[k].first = page[k].first
    BY <1>5, SecondEffect
  <2>3. QED BY <1>1, <2>1, <2>2, TableGenuine, TableFollowsRules DEF TableRight
<1>6. QED BY <1>2, <1>3, <1>4, <1>5, PageSteps DEF OwnStep

\* On every page the players have a place each, and every solve earned the points the
\* published rules give it, whatever was stored in whatever order.
THEOREM ScoresCorrect == BoardSpec => []ScoresFollowRules
<1>1. BoardInit => BoardTypeOK /\ Progress /\ TablesRight
  BY StartTyped, StartRight
<1>2. BoardTypeOK /\ Progress /\ TablesRight /\ [BoardNext]_boardVars => (BoardTypeOK /\ Progress /\ TablesRight)'
  BY TypeStep, TablesStep
<1>3. TablesRight => ScoresFollowRules
  BY DEF TablesRight, TableRight, ScoresFollowRules
<1>4. QED BY <1>1, <1>2, <1>3, PTL DEF BoardSpec

-----------------------------------------------------------------------------
(* The freshness of all pages.                                             *)

\* Whose solves a page still owes when it is asked for, and later; what the board
\* knows between its halves; and what the counts of a summary are counts of.
Due(k) ==
  /\ page[k].phase # "idle" /\ page[k].kind # "chart" => page[k].at <= now
  /\ page[k].phase # "idle" => page[k].kind # "none"
  /\ page[k].phase = "half" => page[k].kind \in {"board", "summary"}
  /\ page[k].phase = "asked" /\ page[k].kept
     => \A s \in page[k].owed : s \in SolvesIn(solves, joined) /\ s.time <= page[k].at
  /\ page[k].phase \in {"half", "done"} /\ page[k].kept
     => \A s \in page[k].owed : s.user \notin page[k].first.players
BoardBehind(k) ==
  /\ page[k].kind = "board" /\ page[k].phase = "half" /\ page[k].kept
     => \A s \in page[k].first.solves : Bare(s) \in SolvesIn(solves, joined \ hidden)
  /\ page[k].kind = "board" /\ page[k].phase = "done" /\ page[k].kept
     => \A s \in page[k].first.solves : \E r \in page[k].second.solves : Bare(r) = Bare(s)
AddsUp(k) ==
  page[k].kind = "summary" /\ page[k].phase \in {"half", "done"}
  => \A p \in Puzzles : \A i \in 1..2 :
       page[k].list.solvers[p][i] =
         Cardinality({s \in page[k].first.solves : s.puzzle = p /\ s.part = i})
PageFresh(k) == Due(k) /\ BoardBehind(k) /\ AddsUp(k)

\* The past in terms of the progress.
LEMMA PastIn ==
  /\ \A cut : Past(cut) = {s \in SolvesIn(solves, joined \ hidden) : s.time <= cut}
  /\ SolvesOf(joined) = SolvesIn(solves, joined)
  /\ SolvesOf(Visible) = SolvesIn(solves, joined \ hidden)
BY DEF Past, SolvesOf, SolvesIn, Visible

\* All that is stored of the players is counted up to the end of time.
LEMMA PastForever ==
  ASSUME BoardTypeOK, Progress, NEW s \in SolvesIn(solves, joined \ hidden)
  PROVE  s \in Past(Forever)
<1>1. s \in SolvesOf(Visible) /\ Visible \in SUBSET Users
  BY PastIn DEF Visible, BoardTypeOK
<1>2. s.time <= now /\ s.time \in Nat
  BY <1>1, StoredSolve DEF SolveType
<1>3. s.time <= Forever
  BY <1>2, BoardAssumption DEF BoardTypeOK
<1>4. QED BY <1>1, <1>3 DEF Past

\* A page counts at least up to the moment it was asked for in its first half, and
\* the board counts everything in its second.
LEMMA CutReaches ==
  ASSUME NEW kind \in Kinds, NEW at \in Nat
  PROVE  /\ Cut(kind, 1, at) = IF kind = "solves" THEN Forever ELSE at
         /\ Cut("board", 2, at) = Forever
         /\ kind = "summary" => Cut(kind, 2, at) = IF at > Hour THEN at - Hour ELSE 0
BY DEF Cut, Kinds

LEMMA FirstDue ==
  ASSUME BoardTypeOK, Progress, NEW k \in Pages, First(k), UNCHANGED <<now, players>>, Due(k), page[k].kind \in Kinds
  PROVE  Due(k)'
<1>1. PICK solved \in Replays(Cut(page[k].kind, 1, page[k].at)) :
        page'[k].first = Table(solved)
        /\ page'[k].owed = {s \in page[k].owed : ~\E r \in Table(solved).solves : Bare(r) = Bare(s)}
  BY FirstEffect
<1>2. /\ page[k].phase = "asked" /\ page'[k].phase \in {"half", "done"}
      /\ page'[k].phase = "half" => page[k].kind \in {"board", "summary"}
      /\ page'[k].kind = page[k].kind /\ page'[k].at = page[k].at /\ page'[k].kept = page[k].kept
      /\ now' = now
  BY FirstEffect DEF Kinds
<1>3. page[k] \in PageType /\ page[k].at \in Nat /\ page[k].owed \subseteq SolveType
  BY DEF BoardTypeOK, PageType
<1>4. ASSUME page[k].kept, NEW s \in page'[k].owed PROVE s.user \notin page'[k].first.players
  <2>1. s \in SolvesIn(solves, joined) /\ s.time <= page[k].at /\ s \in SolveType
        /\ ~\E r \in Table(solved).solves : Bare(r) = Bare(s)
    BY <1>1, <1>2, <1>3, <1>4 DEF Due
  <2>2. SUFFICES ASSUME s.user \in joined \ hidden PROVE FALSE
    BY <1>1 DEF Table, Visible
  <2>3. s \in SolvesIn(solves, joined \ hidden)
    <3>1. PICK u \in joined, p \in Puzzles : \E i \in 1..Len(solves[u][p]) :
            s = [user |-> u, puzzle |-> p, part |-> i, time |-> solves[u][p][i]]
      BY <2>1, StoredIn
    <3>2. u \in joined \ hidden
      BY <2>2, <3>1
    <3>3. QED BY <3>1, <3>2, StoredIn
  <2>4. s \in Past(Cut(page[k].kind, 1, page[k].at))
    <3>1. s \in Past(Forever)
      BY <2>3, PastForever
    <3>2. s \in Past(page[k].at)
      BY <2>1, <2>3, PastIn
    <3>3. QED BY <1>3, <3>1, <3>2, CutReaches
  <2>5. s \in {Bare(r) : r \in Table(solved).solves}
    BY <2>4, TableBare
  <2>6. Bare(s) = s
    BY <2>1 DEF Bare, SolveType
  <2>7. QED BY <2>1, <2>5, <2>6
<1>5. QED BY <1>2, <1>4 DEF Due, Kinds

\* The solvers of a part are the users of its solves.
LEMMA FirstAddsUp ==
  ASSUME BoardTypeOK, Progress, NEW k \in Pages, First(k)
  PROVE  AddsUp(k)'
<1> SUFFICES ASSUME page'[k].kind = "summary", NEW p \in Puzzles, NEW i \in 1..2
             PROVE  page'[k].list.solvers[p][i] =
                      Cardinality({s \in page'[k].first.solves : s.puzzle = p /\ s.part = i})
  BY DEF AddsUp
<1> DEFINE at == page[k].at
<1>1. page[k].kind = "summary" /\ at \in Nat /\ page'[k].list = List(at)
  BY FirstEffect DEF BoardTypeOK, PageType
<1>2. PICK solved \in Replays(at) : page'[k].first = Table(solved)
  <2>1. Cut("summary", 1, at) = at
    BY <1>1, CutReaches DEF Kinds
  <2>2. QED BY <1>1, <2>1, FirstEffect
<1> DEFINE S == {s \in Table(solved).solves : s.puzzle = p /\ s.part = i}
           U == {u \in Visible : Len(solves[u][p]) >= i /\ solves[u][p][i] <= at}
           f == [s \in S |-> s.user]
<1>3. Genuine(Table(solved))
  BY TableGenuine
<1>4. \A s \in S : s.user \in U
  <2> SUFFICES ASSUME NEW s \in S PROVE s.user \in U
    OBVIOUS
  <2>1. Bare(s) \in Past(at) /\ Visible \in SUBSET Users
    BY TableBare DEF Visible, BoardTypeOK
  <2>2. Bare(s).user = s.user /\ Bare(s).puzzle = p /\ Bare(s).part = i
    BY DEF Bare
  <2>3. /\ s.user \in Visible /\ i \in 1..Len(solves[s.user][p])
        /\ Bare(s).time = solves[s.user][p][i] /\ Bare(s).time <= at
    BY <2>1, <2>2, StoredSolve DEF Past
  <2>4. solves[s.user][p] \in Seq(Nat)
    BY <2>1, <2>3 DEF BoardTypeOK
  <2>5. Len(solves[s.user][p]) >= i
    BY <2>3, <2>4
  <2>6. QED BY <2>3, <2>5
<1>5. \A u \in U : \E s \in S : s.user = u
  <2> SUFFICES ASSUME NEW u \in U PROVE \E s \in S : s.user = u
    OBVIOUS
  <2>1. u \in Users /\ solves[u][p] \in Seq(Nat)
    BY DEF Visible, BoardTypeOK
  <2>2. i \in 1..Len(solves[u][p])
    BY <2>1
  <2> DEFINE b == [user |-> u, puzzle |-> p, part |-> i, time |-> solves[u][p][i]]
  <2>3. b \in SolvesOf(Visible)
    BY <2>2, SolveStored
  <2>4. b \in Past(at)
    BY <2>3 DEF Past
  <2>5. PICK s \in Table(solved).solves : Bare(s) = b
    BY <2>4, TableBare
  <2>6. s.user = u /\ s.puzzle = p /\ s.part = i
    BY <2>5 DEF Bare
  <2>7. QED BY <2>6
<1>6. \A r, s \in S : r.user = s.user => r = s
  BY <1>3 DEF Genuine
<1>7. IsFiniteSet(S)
  <2>1. S \subseteq Table(solved).solves /\ IsFiniteSet(Table(solved).solves)
    BY <1>3 DEF Genuine
  <2> HIDE DEF S
  <2>2. QED BY <2>1, FS_Subset
<1>8. Cardinality(U) = Cardinality(S)
  <2>1. f \in [S -> U] /\ \A s \in S : f[s] = s.user
    BY <1>4
  <2> HIDE DEF S, U, f
  <2>2. QED BY <1>5, <1>6, <1>7, <2>1, Paired
<1>9. List(at).solvers[p][i] = Cardinality(U)
  BY DEF List, Solvers
<1>10. QED BY <1>1, <1>2, <1>8, <1>9

\* A board counts in its second half what it counted in its first.
LEMMA FirstBoard ==
  ASSUME BoardTypeOK, Progress, NEW k \in Pages, First(k), UNCHANGED <<now, players>>
  PROVE  BoardBehind(k)'
<1>1. PICK solved \in Replays(Cut(page[k].kind, 1, page[k].at)) : page'[k].first = Table(solved)
  BY FirstEffect
<1>2. page'[k].kind = "board" => page'[k].phase = "half"
  BY FirstEffect
<1>3. \A s \in page'[k].first.solves : Bare(s) \in SolvesIn(solves, joined \ hidden)
  BY <1>1, TableBare, PastIn
<1>4. solves' = solves /\ joined' = joined /\ hidden' = hidden
  BY DEF players
<1>5. QED BY <1>2, <1>3, <1>4 DEF BoardBehind, Bare

LEMMA SecondFresh ==
  ASSUME BoardTypeOK, Progress, NEW k \in Pages, Second(k), UNCHANGED <<now, players>>, PageFresh(k)
  PROVE  PageFresh(k)'
<1>1. /\ page[k].phase = "half" /\ page'[k].phase = "done"
      /\ page'[k].kind = page[k].kind /\ page'[k].at = page[k].at /\ page'[k].kept = page[k].kept
      /\ page'[k].first = page[k].first /\ page'[k].owed = page[k].owed /\ page'[k].list = page[k].list
      /\ now' = now
  BY SecondEffect
<1>2. Due(k)' /\ AddsUp(k)'
  BY <1>1 DEF PageFresh, Due, AddsUp
<1>3. ASSUME page[k].kind = "board", page[k].kept, NEW s \in page[k].first.solves
      PROVE  \E r \in page'[k].second.solves : Bare(r) = Bare(s)
  <2>1. page[k].at \in Nat
    BY DEF BoardTypeOK, PageType
  <2>2. Cut(page[k].kind, 2, page[k].at) = Forever
    BY <1>3, <2>1, CutReaches DEF Kinds
  <2>3. PICK solved \in Replays(Forever) : page'[k].second = Table(solved)
    BY <2>2, SecondEffect
  <2>4. Bare(s) \in SolvesIn(solves, joined \ hidden)
    BY <1>1, <1>3 DEF PageFresh, BoardBehind
  <2>5. Bare(s) \in Past(Forever)
    BY <2>4, PastForever
  <2>6. QED BY <2>3, <2>5, TableBare
<1>4. BoardBehind(k)'
  BY <1>1, <1>3 DEF BoardBehind, Bare
<1>5. QED BY <1>2, <1>4 DEF PageFresh, Due, AddsUp, BoardBehind, Bare

LEMMA AskFresh ==
  ASSUME BoardTypeOK, Progress, NEW k \in Pages, Ask(k), UNCHANGED <<now, players>>
  PROVE  PageFresh(k)'
<1>1. /\ page'[k].phase = "asked" /\ page'[k].kind = page[k].kind /\ page[k].kind # "none"
      /\ page[k].kind # "chart" => page'[k].at = now
      /\ page'[k].owed = {s \in SolvesOf(joined) : s.time <= page'[k].at}
  BY AskEffect
<1>2. /\ now \in Nat /\ now' = now /\ solves' = solves /\ joined' = joined
      /\ \A s \in page'[k].owed : s \in SolvesIn(solves', joined') /\ s.time <= page'[k].at
  BY <1>1, PastIn DEF players, BoardTypeOK
<1>3. page[k].kind # "chart" => page'[k].at <= now
  BY <1>1, <1>2
<1>4. Due(k)'
  BY <1>1, <1>2, <1>3 DEF Due
<1>5. BoardBehind(k)' /\ AddsUp(k)'
  BY <1>1 DEF BoardBehind, AddsUp
<1>6. QED BY <1>4, <1>5 DEF PageFresh, Due, AddsUp, BoardBehind, Bare

LEMMA OthersFresh ==
  ASSUME BoardTypeOK, BoardTypeOK', NEW k \in Pages, Grows(k) \/ Clears(k), PageFresh(k)
  PROVE  PageFresh(k)'
<1>1. SameShown(k) /\ (page'[k].kept => page[k].kept)
  BY DEF Grows, Clears
<1>2. page[k].at \in Nat /\ now \in Nat /\ now' \in Nat /\ now <= now'
  BY BoardAssumption DEF BoardTypeOK, PageType, Grows, Clears
<1>3. page[k].phase # "idle" /\ page[k].kind # "chart" => page[k].at <= now'
  BY <1>2 DEF PageFresh, Due
<1>4. page'[k].kept /\ page[k].phase # "idle"
      => /\ SolvesIn(solves, joined) \subseteq SolvesIn(solves', joined')
         /\ SolvesIn(solves, joined \ hidden) \subseteq SolvesIn(solves', joined' \ hidden')
  BY DEF Grows, Clears
<1>5. Due(k)'
  BY <1>1, <1>3, <1>4 DEF PageFresh, Due, SameShown
<1>6. BoardBehind(k)'
  BY <1>1, <1>4 DEF PageFresh, BoardBehind, SameShown, Bare
<1>7. AddsUp(k)'
  BY <1>1 DEF PageFresh, AddsUp, SameShown
<1>8. QED BY <1>5, <1>6, <1>7 DEF PageFresh, Due, AddsUp, BoardBehind, Bare

AllFresh == \A k \in Pages : PageFresh(k)

LEMMA FreshStep ==
  BoardTypeOK /\ Progress /\ AllFresh /\ [BoardNext]_boardVars => AllFresh'
<1> SUFFICES ASSUME BoardTypeOK, Progress, AllFresh, [BoardNext]_boardVars, NEW k \in Pages
             PROVE  PageFresh(k)'
  BY DEF AllFresh
<1>1. PageFresh(k) /\ BoardTypeOK'
  BY TypeStep DEF AllFresh
<1>2. CASE Grows(k) \/ Clears(k)
  BY <1>1, <1>2, OthersFresh
<1>3. CASE Ask(k) /\ UNCHANGED <<now, players>>
  BY <1>3, AskFresh
<1>4. CASE First(k) /\ UNCHANGED <<now, players>>
  <2>1. page[k].kind \in Kinds
    <3>1. page[k].kind \in Kinds \union {"none"} /\ page[k].phase = "asked"
      BY <1>4, FirstEffect DEF BoardTypeOK, PageType
    <3>2. QED BY <1>1, <3>1 DEF PageFresh, Due
  <2>2. Due(k)' /\ BoardBehind(k)' /\ AddsUp(k)'
    BY <1>1, <1>4, <2>1, FirstDue, FirstBoard, FirstAddsUp DEF PageFresh
  <2>3. QED BY <2>2 DEF PageFresh, Due, AddsUp, BoardBehind, Bare
<1>5. CASE Second(k) /\ UNCHANGED <<now, players>>
  BY <1>1, <1>5, SecondFresh
<1>6. QED BY <1>2, <1>3, <1>4, <1>5, PageSteps DEF OwnStep

\* No page lacks what was stored when it was asked for, the board below a chart has
\* what the chart has, and a summary counts the solves of its table, however the
\* page's transactions fall between the commits of answers.
THEOREM PagesAreFresh == BoardSpec => []PagesFresh
<1>1. BoardInit => BoardTypeOK /\ Progress /\ AllFresh
  <2>1. BoardInit => \A k \in Pages : page[k].phase = "idle"
    BY DEF BoardInit, NoPage
  <2>2. BoardInit => AllFresh
    BY <2>1 DEF AllFresh, PageFresh, Due, BoardBehind, AddsUp
  <2>3. QED BY <2>2, StartTyped
<1>2. BoardTypeOK /\ Progress /\ AllFresh /\ [BoardNext]_boardVars => (BoardTypeOK /\ Progress /\ AllFresh)'
  BY TypeStep, FreshStep
<1>3. BoardTypeOK /\ AllFresh => PagesFresh
  <2> SUFFICES ASSUME BoardTypeOK, AllFresh PROVE PagesFresh
    OBVIOUS
  <2>1. BoardNotBehindChart
    BY DEF AllFresh, PageFresh, BoardBehind, BoardNotBehindChart
  <2>2. PagesUpToDate
    BY DEF AllFresh, PageFresh, Due, PagesUpToDate
  <2>3. \A k \in Pages : (page[k].list.previous \union {page[k].list.current}) \ {NoPuzzle} \subseteq Puzzles
    BY DEF BoardTypeOK, PageType, ListType
  <2>4. SolversAddUp
    BY <2>3 DEF AllFresh, PageFresh, AddsUp, SolversAddUp
  <2>5. QED BY <2>1, <2>2, <2>4 DEF PagesFresh
<1>4. QED BY <1>1, <1>2, <1>3, PTL DEF BoardSpec

-----------------------------------------------------------------------------
(* Tables of the same solves with different players.                       *)

\* The points of some solves, one by one.
Points(M) == UNION {{<<s, n>> : n \in 1..s.award} : s \in M}

LEMMA PointOf ==
  ASSUME NEW M, NEW q
  PROVE  q \in Points(M) <=> \E s \in M : \E n \in 1..s.award : q = <<s, n>>
<1> DEFINE of(s) == {<<s, n>> : n \in 1..s.award}
<1>1. Points(M) = UNION {of(s) : s \in M}
  BY DEF Points
<1>2. \A s \in M : q \in of(s) <=> \E n \in 1..s.award : q = <<s, n>>
  OBVIOUS
<1> HIDE DEF of
<1>3. q \in UNION {of(s) : s \in M} <=> \E s \in M : q \in of(s)
  OBVIOUS
<1>4. QED BY <1>1, <1>2, <1>3

\* Finitely many solves have finitely many points.
LEMMA FinitePoints ==
  ASSUME NEW M \in SUBSET EarnedType, IsFiniteSet(M), NEW most \in Nat, \A s \in M : s.award <= most
  PROVE  IsFiniteSet(Points(M))
<1>1. Points(M) \subseteq M \X (1..most)
  <2> SUFFICES ASSUME NEW q \in Points(M) PROVE q \in M \X (1..most)
    OBVIOUS
  <2>1. PICK s \in M : \E n \in 1..s.award : q = <<s, n>>
    BY PointOf
  <2>2. PICK n \in 1..s.award : q = <<s, n>>
    BY <2>1
  <2>3. s.award \in Int /\ s.award <= most
    BY DEF EarnedType
  <2>4. n \in 1..most
    BY <2>3
  <2>5. QED BY <2>2, <2>4
<1>2. IsFiniteSet(M \X (1..most))
  BY Interval, FS_Product
<1>3. QED BY <1>1, <1>2, FS_Subset

\* When every solve is worth d points more, the points of the solves are d for each
\* of them more.
LEMMA PointsShift ==
  ASSUME NEW M \in SUBSET EarnedType, NEW N \in SUBSET EarnedType, IsFiniteSet(M),
         NEW most \in Nat, \A s \in M : 0 <= s.award /\ s.award <= most,
         NEW d \in Nat, NEW f \in [M -> N],
         \A r, s \in M : f[r] = f[s] => r = s, \A t \in N : \E s \in M : f[s] = t,
         \A s \in M : f[s].award = s.award + d
  PROVE  Cardinality(Points(N)) = Cardinality(Points(M)) + Cardinality(M) * d
<1> DEFINE High == M \X (1..d)
           h == [q \in Points(M) |-> <<f[q[1]], q[2]>>]
           Low1 == {h[q] : q \in Points(M)}
           g == [q \in High |-> <<f[q[1]], q[1].award + q[2]>>]
           High1 == {g[q] : q \in High}
<1>1. \A s \in M : s.award \in Nat /\ f[s] \in N /\ f[s].award = s.award + d
  BY DEF EarnedType
<1>2. IsFiniteSet(Points(M))
  BY FinitePoints
<1>3. IsFiniteSet(High) /\ Cardinality(High) = Cardinality(M) * d
  <2>1. IsFiniteSet(1..d) /\ Cardinality(1..d) = d
    BY ONLY d \in Nat, FS_Interval
  <2>2. IsFiniteSet(M \X (1..d)) /\ Cardinality(M \X (1..d)) = Cardinality(M) * Cardinality(1..d)
    BY ONLY <2>1, IsFiniteSet(M), FS_Product
  <2>3. QED BY ONLY <2>1, <2>2 DEF High
<1>4. \A q \in Points(M) : q = <<q[1], q[2]>> /\ q[1] \in M /\ q[2] \in 1..(q[1].award)
  <2> SUFFICES ASSUME NEW q \in Points(M)
               PROVE  q = <<q[1], q[2]>> /\ q[1] \in M /\ q[2] \in 1..(q[1].award)
    OBVIOUS
  <2>1. PICK s \in M : \E n \in 1..s.award : q = <<s, n>>
    BY PointOf
  <2>2. QED BY <2>1
<1>5. \A q \in High : q = <<q[1], q[2]>> /\ q[1] \in M /\ q[2] \in 1..d
  OBVIOUS
<1>6. IsFiniteSet(Low1) /\ Cardinality(Low1) = Cardinality(Points(M))
  <2>1. h \in [Points(M) -> Low1] /\ \A t \in Low1 : \E q \in Points(M) : h[q] = t
    OBVIOUS
  <2>2. \A a, b \in Points(M) : h[a] = h[b] => a = b
    BY <1>4
  <2> HIDE DEF h, Low1
  <2>3. QED BY <1>2, <2>1, <2>2, Paired
<1>7. IsFiniteSet(High1) /\ Cardinality(High1) = Cardinality(High)
  <2>1. g \in [High -> High1] /\ \A t \in High1 : \E q \in High : g[q] = t
    OBVIOUS
  <2>2. \A a, b \in High : g[a] = g[b] => a = b
    <3> SUFFICES ASSUME NEW a \in High, NEW b \in High, g[a] = g[b] PROVE a = b
      OBVIOUS
    <3>1. f[a[1]] = f[b[1]] /\ a[1].award + a[2] = b[1].award + b[2]
      OBVIOUS
    <3>2. a[1] = b[1]
      BY <1>5, <3>1
    <3>3. a[2] = b[2]
      BY <1>1, <1>5, <3>1, <3>2
    <3>4. QED BY <1>5, <3>2, <3>3
  <2> HIDE DEF g, High1, High
  <2>3. QED BY <1>3, <2>1, <2>2, Paired
<1>8. Points(N) = Low1 \union High1
  <2>1. ASSUME NEW q \in Points(N) PROVE q \in Low1 \union High1
    <3>1. PICK t \in N : \E n \in 1..t.award : q = <<t, n>>
      BY <2>1, PointOf
    <3>2. PICK n \in 1..t.award : q = <<t, n>>
      BY <3>1
    <3>3. PICK s \in M : f[s] = t
      OBVIOUS
    <3>4. s.award \in Nat /\ t.award = s.award + d /\ n \in 1..(s.award + d)
      BY <1>1, <3>3
    <3>5. CASE n <= s.award
      <4>1. n \in 1..s.award
        BY <3>4, <3>5
      <4>2. <<s, n>> \in Points(M)
        BY <4>1, PointOf
      <4>3. h[<<s, n>>] = q
        BY <3>2, <3>3, <4>2
      <4>4. QED BY <4>2, <4>3
    <3>6. CASE n > s.award
      <4>1. n - s.award \in 1..d /\ s.award + (n - s.award) = n
        BY <3>4, <3>6
      <4>2. <<s, n - s.award>> \in High
        BY <4>1
      <4>3. g[<<s, n - s.award>>] = q
        BY <3>2, <3>3, <4>1, <4>2
      <4>4. QED BY <4>2, <4>3
    <3>7. QED BY <3>4, <3>5, <3>6
  <2>2. ASSUME NEW q \in Low1 PROVE q \in Points(N)
    <3>1. PICK a \in Points(M) : q = <<f[a[1]], a[2]>>
      BY <2>2
    <3>2. a[1] \in M /\ a[2] \in 1..(a[1].award)
      BY <1>4
    <3>3. f[a[1]] \in N /\ a[2] \in 1..(f[a[1]].award)
      BY <1>1, <3>2
    <3>4. QED BY <3>1, <3>3, PointOf
  <2>3. ASSUME NEW q \in High1 PROVE q \in Points(N)
    <3>1. PICK a \in High : q = <<f[a[1]], a[1].award + a[2]>>
      BY <2>3
    <3>2. a[1] \in M /\ a[2] \in 1..d
      BY <1>5
    <3>3. f[a[1]] \in N /\ a[1].award + a[2] \in 1..(f[a[1]].award)
      BY <1>1, <3>2
    <3>4. QED BY <3>1, <3>3, PointOf
  <2> HIDE DEF Low1, High1
  <2>4. QED BY <2>1, <2>2, <2>3
<1>9. Low1 \intersect High1 = {}
  <2> SUFFICES ASSUME NEW a \in Points(M), NEW b \in High, h[a] = g[b] PROVE FALSE
    OBVIOUS
  <2>1. f[a[1]] = f[b[1]] /\ a[2] = b[1].award + b[2]
    OBVIOUS
  <2>2. a[1] = b[1]
    BY <1>4, <1>5, <2>1
  <2>3. QED BY <1>1, <1>4, <1>5, <2>1, <2>2
<1> HIDE DEF Low1, High1, High
<1>10. QED BY <1>3, <1>6, <1>7, <1>8, <1>9, Disjoint

\* The solves of a user in two sets of solves that are paired.
LEMMA SameStanding ==
  ASSUME NEW A, Rankable(A), NEW B, Rankable(B), \A s \in A : 0 <= s.award,
         NEW d \in Nat, NEW f \in [A -> B],
         \A r, s \in A : f[r] = f[s] => r = s, \A t \in B : \E s \in A : f[s] = t,
         \A s \in A : f[s].user = s.user /\ f[s].time = s.time /\ f[s].award = s.award + d,
         NEW u
  PROVE  /\ Parts(B, u) = Parts(A, u) /\ LastSolve(B, u) = LastSolve(A, u)
         /\ Score(B, u) = Score(A, u) + Parts(A, u) * d
         /\ Solved(A, u) = {} <=> Solved(B, u) = {}
<1> DEFINE M == Solved(A, u)
           N == Solved(B, u)
           fu == [s \in M |-> f[s]]
<1>1. M \subseteq A /\ N \subseteq B /\ M \in SUBSET EarnedType /\ N \in SUBSET EarnedType /\ IsFiniteSet(M)
  BY Standing DEF Rankable
<1>2. \A s \in A : s \in M <=> f[s] \in N
  BY DEF Solved
<1>3. fu \in [M -> N] /\ \A s \in M : fu[s] = f[s]
  BY <1>1, <1>2
<1>4. \A r, s \in M : fu[r] = fu[s] => r = s
  BY <1>1, <1>3
<1>5. \A t \in N : \E s \in M : fu[s] = t
  <2> SUFFICES ASSUME NEW t \in N PROVE \E s \in M : fu[s] = t
    OBVIOUS
  <2>1. PICK s \in A : f[s] = t
    BY <1>1
  <2>2. s \in M
    BY <1>2, <2>1
  <2>3. QED BY <1>3, <2>1, <2>2
<1>6. PICK most \in Nat : \A s \in A : s.award <= most
  BY DEF Rankable
<1>7. \A s \in M : 0 <= s.award /\ s.award <= most /\ fu[s].award = s.award + d /\ fu[s].time = s.time
  BY <1>1, <1>3, <1>6
<1> HIDE DEF M, N, fu
<1>8. Cardinality(N) = Cardinality(M)
  BY <1>1, <1>3, <1>4, <1>5, Paired
<1>9. Cardinality(Points(N)) = Cardinality(Points(M)) + Cardinality(M) * d
  BY <1>1, <1>3, <1>4, <1>5, <1>6, <1>7, PointsShift
<1>10. {s.time : s \in M} = {s.time : s \in N}
  BY <1>3, <1>5, <1>7
<1>11. M = {} <=> N = {}
  BY <1>3, <1>5
<1>12. QED BY <1>8, <1>9, <1>10, <1>11 DEF M, N, Parts, LastSolve, Score, Points

\* So they stand in the same order.
LEMMA SameOrder ==
  ASSUME NEW A, Rankable(A), NEW B, Rankable(B), \A s \in A : 0 <= s.award,
         NEW d \in Nat, NEW f \in [A -> B],
         \A r, s \in A : f[r] = f[s] => r = s, \A t \in B : \E s \in A : f[s] = t,
         \A s \in A : f[s].user = s.user /\ f[s].time = s.time /\ f[s].award = s.award + d,
         NEW u, NEW v
  PROVE  Above(A, u, v) <=> Above(B, u, v)
<1>1. /\ Parts(B, u) = Parts(A, u) /\ LastSolve(B, u) = LastSolve(A, u)
      /\ Score(B, u) = Score(A, u) + Parts(A, u) * d
      /\ Parts(B, v) = Parts(A, v) /\ LastSolve(B, v) = LastSolve(A, v)
      /\ Score(B, v) = Score(A, v) + Parts(A, v) * d
  BY SameStanding
<1>2. Parts(A, u) \in Nat /\ Parts(A, v) \in Nat /\ Score(A, u) \in Nat /\ Score(A, v) \in Nat
  BY Standing
<1>3. Parts(A, u) * d \in Nat /\ Parts(A, v) * d \in Nat
  BY ONLY <1>2, d \in Nat
<1>4. ASSUME NEW a \in Nat, NEW b \in Nat, NEW c \in Nat PROVE a + c > b + c <=> a > b
  OBVIOUS
<1>5. ASSUME Parts(A, u) = Parts(A, v)
      PROVE  /\ Score(B, u) > Score(B, v) <=> Score(A, u) > Score(A, v)
             /\ Score(B, u) = Score(B, v) <=> Score(A, u) = Score(A, v)
  <2> DEFINE c == Parts(A, u) * d
  <2>1. c \in Nat /\ Score(B, u) = Score(A, u) + c /\ Score(B, v) = Score(A, v) + c
    BY <1>1, <1>3, <1>5
  <2> HIDE DEF c
  <2>2. QED BY <1>2, <2>1
<1>6. QED BY <1>1, <1>5 DEF Above

\* Who is above a player with a solve has one too, and so is in the table.
LEMMA AboveRanked ==
  ASSUME NEW t, Genuine(t), NEW u \in Users, Solved(t.solves, u) # {}
  PROVE  Position(t, u) = 1 + Cardinality({v \in Users : Above(t.solves, v, u)})
<1>1. Rankable(t.solves) /\ t.players \subseteq Users
  BY GenuineRankable
<1>2. \A v \in Users : Parts(t.solves, v) \in Nat /\ IsFiniteSet(Solved(t.solves, v))
  BY <1>1, Standing
<1>3. Parts(t.solves, u) > 0
  <2>1. Parts(t.solves, u) # 0
    BY <1>2, FS_EmptySet DEF Parts
  <2>2. QED BY <1>2, <2>1
<1>4. ASSUME NEW v \in Users, Above(t.solves, v, u) PROVE v \in t.players
  <2>1. Parts(t.solves, v) > 0
    BY <1>2, <1>3, <1>4 DEF Above
  <2>2. Solved(t.solves, v) # {}
    BY <2>1, FS_EmptySet DEF Parts
  <2>3. PICK s \in t.solves : s.user = v
    BY <2>2 DEF Solved
  <2>4. QED BY <2>3 DEF Genuine
<1>5. {v \in t.players : Above(t.solves, v, u)} = {v \in Users : Above(t.solves, v, u)}
  BY <1>1, <1>4
<1>6. QED BY <1>5 DEF Position, Rank

\* No two solves of a part at the same moment.
Untied(S) == \A r, s \in S : r # s => ~(r.puzzle = s.puzzle /\ r.part = s.part /\ r.time = s.time)

\* What the solves of a table were solved before.
Before(S, s) == {r \in S : r.puzzle = s.puzzle /\ r.part = s.part /\ r.time < s.time}

\* Without ties the rules leave no choice.
LEMMA AwardExact ==
  ASSUME NEW t, Genuine(t), FollowsRules(t), Untied(t.solves), NEW s \in t.solves
  PROVE  /\ s.award = Cardinality(t.players) - Cardinality(Before(t.solves, s))
         /\ IsFiniteSet(Before(t.solves, s)) /\ Cardinality(Before(t.solves, s)) \in Nat
         /\ Cardinality(t.players) \in Nat
<1> DEFINE same == {r \in t.solves \ {s} : r.puzzle = s.puzzle /\ r.part = s.part}
           before == {r \in same : r.time < s.time}
           tied == {r \in same : r.time = s.time}
           behind == Cardinality(t.players) - 1 - Cardinality(before) - Cardinality(tied)
<1>1. 1 + behind <= s.award /\ s.award <= 1 + behind + Cardinality(tied)
  BY DEF FollowsRules
<1>2. tied = {} /\ Cardinality(tied) = 0
  <2>1. tied = {}
    BY DEF Untied
  <2>2. QED BY <2>1, FS_EmptySet
<1>3. before = Before(t.solves, s)
  <2>1. ~(s.time < s.time)
    BY DEF Genuine, TableType, EarnedType
  <2>2. QED BY <2>1 DEF Before
<1>4. IsFiniteSet(Before(t.solves, s)) /\ Cardinality(Before(t.solves, s)) \in Nat
  <2>1. Before(t.solves, s) \subseteq t.solves /\ IsFiniteSet(t.solves)
    BY DEF Before, Genuine
  <2>2. QED BY <2>1, FS_Subset, FS_CardinalityType
<1>5. Cardinality(t.players) \in Nat /\ s.award \in Int
  <2>1. t.players \subseteq Users /\ s.award \in Int
    BY DEF Genuine, TableType, EarnedType
  <2>2. QED BY <2>1, BoardAssumption, FS_Subset, FS_CardinalityType
<1>6. 1 + behind = Cardinality(t.players) - Cardinality(Before(t.solves, s))
  <2> DEFINE p == Cardinality(t.players)
             b == Cardinality(Before(t.solves, s))
  <2>1. 1 + behind = 1 + (p - 1 - b - 0)
    BY <1>2, <1>3
  <2>2. p \in Nat /\ b \in Nat
    BY <1>4, <1>5
  <2> HIDE DEF p, b, behind
  <2>3. 1 + behind = p - b
    BY <2>1, <2>2
  <2>4. QED BY <2>3 DEF p, b
<1>7. s.award = 1 + behind
  <2> DEFINE a == 1 + behind
  <2>1. a <= s.award /\ s.award <= a + 0
    BY <1>1, <1>2
  <2>2. a \in Int
    BY <1>4, <1>5, <1>6
  <2> HIDE DEF a
  <2>3. s.award = a
    BY <1>5, <2>1, <2>2
  <2>4. QED BY <2>3 DEF a
<1>8. QED BY <1>4, <1>5, <1>6, <1>7

\* Two tables of the same solves pair them.
SameSolves(o, n) == {Bare(s) : s \in o.solves} = {Bare(s) : s \in n.solves}

LEMMA BareDecides ==
  ASSUME NEW t, Genuine(t), NEW r \in t.solves, NEW s \in t.solves, Bare(r) = Bare(s)
  PROVE  r = s
<1>1. r.user = s.user /\ r.puzzle = s.puzzle /\ r.part = s.part
  BY DEF Bare
<1>2. QED BY <1>1 DEF Genuine

LEMMA SolvesPair ==
  ASSUME NEW o, Genuine(o), NEW n, Genuine(n), SameSolves(o, n)
  PROVE  \E f \in [o.solves -> n.solves] :
           /\ \A r, s \in o.solves : f[r] = f[s] => r = s
           /\ \A t \in n.solves : \E s \in o.solves : f[s] = t
           /\ \A s \in o.solves : Bare(f[s]) = Bare(s)
<1> DEFINE f == [s \in o.solves |-> CHOOSE t \in n.solves : Bare(t) = Bare(s)]
<1>1. \A s \in o.solves : \E t \in n.solves : Bare(t) = Bare(s)
  BY DEF SameSolves
<1>2. \A t \in n.solves : \E s \in o.solves : Bare(t) = Bare(s)
  BY DEF SameSolves
<1>3. f \in [o.solves -> n.solves] /\ \A s \in o.solves : Bare(f[s]) = Bare(s)
  BY <1>1
<1> HIDE DEF f
<1>4. \A r, s \in o.solves : f[r] = f[s] => r = s
  BY <1>3, BareDecides
<1>5. \A t \in n.solves : \E s \in o.solves : f[s] = t
  <2> SUFFICES ASSUME NEW t \in n.solves PROVE \E s \in o.solves : f[s] = t
    OBVIOUS
  <2>1. PICK s \in o.solves : Bare(t) = Bare(s)
    BY <1>2
  <2>2. f[s] = t
    BY <1>3, <2>1, BareDecides
  <2>3. QED BY <2>2
<1>6. QED BY <1>3, <1>4, <1>5

LEMMA BareEqual ==
  ASSUME NEW r, NEW s, Bare(r) = Bare(s)
  PROVE  r.user = s.user /\ r.puzzle = s.puzzle /\ r.part = s.part /\ r.time = s.time
BY DEF Bare

LEMMA SameUntied ==
  ASSUME NEW o, Genuine(o), NEW n, Genuine(n), SameSolves(o, n), Untied(o.solves)
  PROVE  Untied(n.solves)
<1> SUFFICES ASSUME NEW a \in n.solves, NEW b \in n.solves, a # b,
                    a.puzzle = b.puzzle, a.part = b.part, a.time = b.time
             PROVE  FALSE
  BY DEF Untied
<1>1. PICK f \in [o.solves -> n.solves] :
        /\ \A t \in n.solves : \E s \in o.solves : f[s] = t
        /\ \A s \in o.solves : Bare(f[s]) = Bare(s)
  BY SolvesPair
<1>2. PICK r \in o.solves, s \in o.solves : f[r] = a /\ f[s] = b
  BY <1>1
<1>3. /\ a.puzzle = r.puzzle /\ a.part = r.part /\ a.time = r.time
      /\ b.puzzle = s.puzzle /\ b.part = s.part /\ b.time = s.time
  BY <1>1, <1>2, BareEqual
<1>4. QED BY <1>2, <1>3 DEF Untied

\* With at least as many players every solve is worth the same number of points more,
\* so that the players that solved something keep their places.
LEMMA MorePlayers ==
  ASSUME NEW o, Genuine(o), FollowsRules(o), NEW n, Genuine(n), FollowsRules(n),
         SameSolves(o, n), Untied(o.solves), Cardinality(o.players) <= Cardinality(n.players),
         NEW u \in Users
  PROVE  /\ Solved(o.solves, u) = {} <=> Solved(n.solves, u) = {}
         /\ Solved(o.solves, u) # {} => Position(n, u) = Position(o, u)
<1> DEFINE d == Cardinality(n.players) - Cardinality(o.players)
<1>1. PICK f \in [o.solves -> n.solves] :
        /\ \A r, s \in o.solves : f[r] = f[s] => r = s
        /\ \A t \in n.solves : \E s \in o.solves : f[s] = t
        /\ \A s \in o.solves : Bare(f[s]) = Bare(s)
  BY SolvesPair
<1>2. \A s \in o.solves : /\ f[s] \in n.solves /\ f[s].user = s.user /\ f[s].puzzle = s.puzzle
                          /\ f[s].part = s.part /\ f[s].time = s.time
  BY <1>1, BareEqual
<1>3. Untied(n.solves)
  BY SameUntied
<1>4. ASSUME NEW s \in o.solves
      PROVE  Cardinality(Before(n.solves, f[s])) = Cardinality(Before(o.solves, s))
  <2> DEFINE M == Before(o.solves, s)
             N == Before(n.solves, f[s])
             fs == [r \in M |-> f[r]]
  <2>1. M \subseteq o.solves /\ \A r \in o.solves : r \in M <=> f[r] \in N
    BY <1>2 DEF Before
  <2>2. fs \in [M -> N] /\ \A r \in M : fs[r] = f[r]
    BY <2>1
  <2>3. \A q, r \in M : fs[q] = fs[r] => q = r
    BY <1>1, <2>1, <2>2
  <2>4. \A t \in N : \E r \in M : fs[r] = t
    <3> SUFFICES ASSUME NEW t \in N PROVE \E r \in M : fs[r] = t
      OBVIOUS
    <3>1. PICK r \in o.solves : f[r] = t
      BY <1>1 DEF Before
    <3>2. QED BY <2>1, <2>2, <3>1
  <2>5. IsFiniteSet(M)
    BY AwardExact
  <2> HIDE DEF M, N, fs
  <2>6. Cardinality(N) = Cardinality(M)
    BY <2>2, <2>3, <2>4, <2>5, Paired
  <2>7. QED BY <2>6 DEF M, N
<1>5. Cardinality(o.players) \in Nat /\ Cardinality(n.players) \in Nat /\ d \in Nat
  <2>1. o.players \subseteq Users /\ n.players \subseteq Users
    BY GenuineRankable
  <2>2. Cardinality(o.players) \in Nat /\ Cardinality(n.players) \in Nat
    BY <2>1, BoardAssumption, FS_Subset, FS_CardinalityType
  <2>3. QED BY <2>2
<1>6. \A s \in o.solves : 0 <= s.award /\ f[s].award = s.award + d
  <2> SUFFICES ASSUME NEW s \in o.solves PROVE 0 <= s.award /\ f[s].award = s.award + d
    OBVIOUS
  <2>1. s.award \in 1..Cardinality(o.players)
    BY DEF Genuine
  <2>2. /\ s.award = Cardinality(o.players) - Cardinality(Before(o.solves, s))
        /\ Cardinality(Before(o.solves, s)) \in Nat
    BY AwardExact
  <2>3. f[s].award = Cardinality(n.players) - Cardinality(Before(n.solves, f[s]))
    BY <1>2, <1>3, AwardExact
  <2>4. f[s].award = Cardinality(n.players) - Cardinality(Before(o.solves, s))
    BY <1>4, <2>3
  <2>5. QED BY <1>5, <2>1, <2>2, <2>4
<1>7. Rankable(o.solves) /\ Rankable(n.solves)
  BY GenuineRankable
<1>8. Solved(o.solves, u) = {} <=> Solved(n.solves, u) = {}
  <2> HIDE DEF d
  <2>1. QED BY <1>1, <1>2, <1>5, <1>6, <1>7, SameStanding
<1>9. ASSUME NEW v \in Users PROVE Above(o.solves, v, u) <=> Above(n.solves, v, u)
  <2> HIDE DEF d
  <2>1. /\ \A s \in o.solves : 0 <= s.award
        /\ \A s \in o.solves : f[s].user = s.user /\ f[s].time = s.time /\ f[s].award = s.award + d
    BY <1>2, <1>6
  <2>2. QED BY <1>1, <1>5, <1>7, <2>1, SameOrder
<1>10. {v \in Users : Above(o.solves, v, u)} = {v \in Users : Above(n.solves, v, u)}
  BY <1>9
<1>11. Solved(o.solves, u) # {} => Position(n, u) = Position(o, u)
  BY <1>8, <1>10, AboveRanked
<1>12. QED BY <1>8, <1>11

\* The same whichever has more.
LEMMA SamePositions ==
  ASSUME NEW o, Genuine(o), FollowsRules(o), NEW n, Genuine(n), FollowsRules(n),
         SameSolves(o, n), Untied(o.solves), NEW u \in Users
  PROVE  /\ Solved(o.solves, u) = {} <=> Solved(n.solves, u) = {}
         /\ Solved(o.solves, u) # {} => Position(n, u) = Position(o, u)
<1>1. Cardinality(o.players) \in Nat /\ Cardinality(n.players) \in Nat
  <2>1. o.players \subseteq Users /\ n.players \subseteq Users
    BY GenuineRankable
  <2>2. QED BY <2>1, BoardAssumption, FS_Subset, FS_CardinalityType
<1>2. CASE Cardinality(o.players) <= Cardinality(n.players)
  BY <1>2, MorePlayers
<1>3. CASE Cardinality(n.players) <= Cardinality(o.players)
  <2>1. SameSolves(n, o) /\ Untied(n.solves)
    BY SameUntied DEF SameSolves
  <2>2. QED BY <1>3, <2>1, MorePlayers
<1>4. QED BY <1>1, <1>2, <1>3

-----------------------------------------------------------------------------
(* The history of the summaries.                                           *)

\* The table of a summary whose past is as it was holds that past; so does the later
\* one of a summary that looks back to it.
PastOf(sol, us, cut) == {s \in SolvesIn(sol, us) : s.time <= cut}
FirstPast(k) ==
  page[k].kind = "summary" /\ page[k].phase \in {"half", "done"} /\ page[k].kept /\ page[k].full
  => {Bare(s) : s \in page[k].first.solves} = PastOf(solves, joined \ hidden, page[k].at)
SecondPast(k, l) ==
  /\ page[k].kind = "summary" /\ page[k].phase # "idle" /\ page[k].kept /\ page[k].full
  /\ page[l].kind = "summary" /\ page[l].phase = "done" /\ page[l].at = page[k].at + Hour
  => {Bare(s) : s \in page[l].second.solves} = PastOf(solves, joined \ hidden, page[k].at)
History == \A k \in Pages : FirstPast(k) /\ \A l \in Pages : SecondPast(k, l)

LEMMA PastIsPast == \A cut : Past(cut) = PastOf(solves, joined \ hidden, cut)
BY PastIn DEF PastOf

\* The past of a page under way stays, as long as it is full and kept.
LEMMA PastStays ==
  ASSUME NEW k \in Pages, Grows(k) \/ Clears(k) \/ UNCHANGED players,
         page[k].phase # "idle", page'[k].kept, page'[k].full
  PROVE  PastOf(solves', joined' \ hidden', page[k].at) = PastOf(solves, joined \ hidden, page[k].at)
<1>1. CASE Grows(k)
  BY <1>1 DEF Grows, PastOf
<1>2. CASE UNCHANGED players
  BY <1>2 DEF players
<1>3. QED BY <1>1, <1>2 DEF Clears

\* Pages no step of theirs touches.
LEMMA HistoryStays ==
  ASSUME NEW k \in Pages, SameShown(k), page'[k].kept => page[k].kept, page'[k].full => page[k].full,
         Grows(k) \/ Clears(k) \/ UNCHANGED players
  PROVE  /\ FirstPast(k) => FirstPast(k)'
         /\ \A l \in Pages : SameShown(l) /\ SecondPast(k, l) => SecondPast(k, l)'
<1>1. page'[k].kept /\ page'[k].full /\ page[k].phase # "idle" =>
        PastOf(solves', joined' \ hidden', page[k].at) = PastOf(solves, joined \ hidden, page[k].at)
  BY PastStays
<1>2. FirstPast(k) => FirstPast(k)'
  BY <1>1 DEF FirstPast, SameShown, Bare
<1>3. ASSUME NEW l \in Pages, SameShown(l), SecondPast(k, l) PROVE SecondPast(k, l)'
  BY <1>1, <1>3 DEF SecondPast, SameShown, Bare
<1>4. QED BY <1>2, <1>3

\* A summary reads its past in its first transaction.
LEMMA FirstOwn ==
  ASSUME BoardTypeOK, Progress, NEW k \in Pages, OwnStep(k), FirstPast(k)
  PROVE  FirstPast(k)'
<1>1. solves' = solves /\ joined' = joined /\ hidden' = hidden
  BY DEF OwnStep, players
<1>2. page[k].at \in Nat
  BY DEF BoardTypeOK, PageType
<1>3. CASE Ask(k)
  BY <1>3, AskEffect DEF FirstPast
<1>4. CASE First(k)
  <2>1. page'[k].kind = page[k].kind /\ page'[k].at = page[k].at
    BY <1>4, FirstEffect
  <2>2. page[k].kind = "summary" => \E solved \in Replays(page[k].at) : page'[k].first = Table(solved)
    <3>1. page[k].kind = "summary" => Cut(page[k].kind, 1, page[k].at) = page[k].at
      BY <1>2, CutReaches DEF Kinds
    <3>2. QED BY <1>4, <3>1, FirstEffect
  <2>3. page[k].kind = "summary"
        => {Bare(s) : s \in page'[k].first.solves} = PastOf(solves, joined \ hidden, page[k].at)
    BY <2>2, TableBare, PastIsPast
  <2>4. QED BY <1>1, <2>1, <2>3 DEF FirstPast, Bare
<1>5. CASE Second(k)
  <2>1. /\ page[k].phase = "half" /\ page'[k].kind = page[k].kind
        /\ page'[k].at = page[k].at /\ page'[k].kept = page[k].kept /\ page'[k].full = page[k].full
        /\ page'[k].first = page[k].first
    BY <1>5, SecondEffect
  <2>2. QED BY <1>1, <2>1 DEF FirstPast, Bare
<1>6. QED BY <1>3, <1>4, <1>5 DEF OwnStep

\* The steps of the earlier summary: it is asked for before the later one is made.
LEMMA EarlierStep ==
  ASSUME BoardTypeOK, Progress, AllFresh, NEW k \in Pages, OwnStep(k),
         NEW l \in Pages, l # k, SecondPast(k, l)
  PROVE  SecondPast(k, l)'
<1>1. solves' = solves /\ joined' = joined /\ hidden' = hidden
  BY DEF OwnStep, players
<1>2. now \in Nat /\ page[l].at \in Nat
  BY DEF BoardTypeOK, PageType
<1>3. CASE Ask(k)
  <2>1. /\ page'[k].kind = page[k].kind /\ page'[l] = page[l]
        /\ page[k].kind = "summary" => page'[k].at = now
    BY <1>3, AskEffect
  <2>2. page[l].kind = "summary" /\ page[l].phase = "done" => page[l].at <= now
    BY DEF AllFresh, PageFresh, Due
  <2>3. page[l].kind = "summary" /\ page[l].phase = "done" => page[l].at # now + Hour
    BY <1>2, <2>2, BoardAssumption
  <2>4. QED BY <2>1, <2>3 DEF SecondPast
<1>4. CASE First(k)
  <2>1. /\ page[k].phase # "idle" /\ page'[k].kind = page[k].kind /\ page'[l] = page[l]
        /\ page'[k].at = page[k].at /\ page'[k].kept = page[k].kept /\ page'[k].full = page[k].full
    BY <1>4, FirstEffect
  <2>2. QED BY <1>1, <2>1 DEF SecondPast, Bare
<1>5. CASE Second(k)
  <2>1. /\ page[k].phase # "idle" /\ page'[k].kind = page[k].kind /\ page'[l] = page[l]
        /\ page'[k].at = page[k].at /\ page'[k].kept = page[k].kept /\ page'[k].full = page[k].full
    BY <1>5, SecondEffect
  <2>2. QED BY <1>1, <2>1 DEF SecondPast, Bare
<1>6. QED BY <1>3, <1>4, <1>5 DEF OwnStep

\* The steps of the later one: it looks back exactly an hour.
LEMMA LaterStep ==
  ASSUME BoardTypeOK, Progress, NEW l \in Pages, OwnStep(l), NEW k \in Pages, k # l, SecondPast(k, l)
  PROVE  SecondPast(k, l)'
<1>1. solves' = solves /\ joined' = joined /\ hidden' = hidden
  BY DEF OwnStep, players
<1>2. page[k].at \in Nat /\ page[l].at \in Nat /\ Hour \in Nat
  BY BoardAssumption DEF BoardTypeOK, PageType
<1>3. CASE Ask(l)
  BY <1>3, AskEffect DEF SecondPast
<1>4. CASE First(l)
  <2>1. page'[l].kind = "summary" => page'[l].phase = "half"
    BY <1>4, FirstEffect
  <2>2. QED BY <2>1 DEF SecondPast
<1>5. CASE Second(l)
  <2>1. page'[l].kind = page[l].kind /\ page'[l].at = page[l].at /\ page'[k] = page[k]
    BY <1>5, SecondEffect
  <2>2. ASSUME page[l].kind = "summary", page[l].at = page[k].at + Hour
        PROVE  {Bare(s) : s \in page'[l].second.solves} = PastOf(solves, joined \ hidden, page[k].at)
    <3>1. Cut(page[l].kind, 2, page[l].at) = page[k].at
      <4>1. (IF page[l].at > Hour THEN page[l].at - Hour ELSE 0) = page[k].at
        BY <1>2, <2>2
      <4>2. QED BY <1>2, <2>2, <4>1, CutReaches DEF Kinds
    <3>2. PICK solved \in Replays(page[k].at) : page'[l].second = Table(solved)
      BY <1>5, <3>1, SecondEffect
    <3>3. QED BY <3>2, TableBare, PastIsPast
  <2>3. QED BY <1>1, <2>1, <2>2 DEF SecondPast, Bare
<1>6. QED BY <1>3, <1>4, <1>5 DEF OwnStep

LEMMA HistoryStep ==
  BoardTypeOK /\ Progress /\ AllFresh /\ History /\ [BoardNext]_boardVars => History'
<1> SUFFICES ASSUME BoardTypeOK, Progress, AllFresh, History, [BoardNext]_boardVars,
                    NEW k \in Pages, NEW l \in Pages
             PROVE  FirstPast(k)' /\ SecondPast(k, l)'
  BY DEF History
<1>1. FirstPast(k) /\ SecondPast(k, l)
  BY DEF History
<1>2. k = l => SecondPast(k, l)'
  <2>1. BoardTypeOK'
    BY TypeStep
  <2>2. page'[k].at \in Nat
    BY <2>1 DEF BoardTypeOK, PageType
  <2>3. page'[k].at # page'[k].at + Hour
    BY <2>2, BoardAssumption
  <2>4. QED BY <2>3 DEF SecondPast
<1>3. CASE \A m \in Pages : Grows(m)
  BY <1>1, <1>3, HistoryStays DEF Grows
<1>4. CASE \A m \in Pages : Clears(m)
  BY <1>1, <1>4, HistoryStays DEF Clears
<1>5. ASSUME NEW m \in Pages, OwnStep(m), \A j \in Pages \ {m} : page'[j] = page[j]
      PROVE  FirstPast(k)' /\ SecondPast(k, l)'
  <2>1. UNCHANGED players
    BY <1>5 DEF OwnStep
  <2>2. \A j \in Pages \ {m} : SameShown(j) /\ page'[j].kept = page[j].kept /\ page'[j].full = page[j].full
    BY <1>5 DEF SameShown
  <2>3. FirstPast(k)'
    <3>1. CASE k = m
      BY <1>1, <1>5, <3>1, FirstOwn
    <3>2. CASE k # m
      BY <1>1, <2>1, <2>2, <3>2, HistoryStays
    <3>3. QED BY <3>1, <3>2
  <2>4. SecondPast(k, l)'
    <3>1. CASE k # m /\ l # m
      BY <1>1, <2>1, <2>2, <3>1, HistoryStays
    <3>2. CASE k = m /\ l # m
      BY <1>1, <1>5, <3>2, EarlierStep
    <3>3. CASE k # m /\ l = m
      BY <1>1, <1>5, <3>3, LaterStep
    <3>4. QED BY <1>2, <3>1, <3>2, <3>3
  <2>5. QED BY <2>3, <2>4
<1>6. QED BY <1>3, <1>4, <1>5, StepKinds

\* The position an hour ago on a summary is the position the summary of an hour ago
\* showed: awards differ between the two by the number of players that came
\* since, which moves nobody who has solved something.
THEOREM HistoryIsKept == BoardSpec => []PrevPositionIsHistory
<1>1. BoardInit => BoardTypeOK /\ Progress /\ TablesRight /\ AllFresh /\ History
  <2>1. BoardInit => \A k \in Pages : page[k].phase = "idle"
    BY DEF BoardInit, NoPage
  <2>2. BoardInit => AllFresh /\ History
    BY <2>1 DEF AllFresh, PageFresh, Due, BoardBehind, AddsUp, History, FirstPast, SecondPast
  <2>3. QED BY <2>2, StartTyped, StartRight
<1>2. BoardTypeOK /\ Progress /\ TablesRight /\ AllFresh /\ History /\ [BoardNext]_boardVars
      => (BoardTypeOK /\ Progress /\ TablesRight /\ AllFresh /\ History)'
  BY TypeStep, TablesStep, FreshStep, HistoryStep
<1>3. TablesRight /\ History => PrevPositionIsHistory
  <2> SUFFICES ASSUME TablesRight, History, NEW k \in Pages, NEW l \in Pages,
                      page[k].kind = "summary", page[l].kind = "summary", page[l].phase = "done",
                      page[k].phase \in {"half", "done"}, page[l].at = page[k].at + Hour,
                      page[k].kept, page[k].full,
                      ~\E r, s \in page[k].first.solves :
                         r # s /\ r.puzzle = s.puzzle /\ r.part = s.part /\ r.time = s.time,
                      NEW u \in page[k].first.players
               PROVE  /\ Solved(page[l].second.solves, u) # {} <=> Solved(page[k].first.solves, u) # {}
                      /\ Solved(page[l].second.solves, u) # {}
                         => Position(page[l].second, u) = Position(page[k].first, u)
    BY DEF PrevPositionIsHistory
  <2> DEFINE o == page[k].first
             n == page[l].second
  <2>1. Genuine(o) /\ FollowsRules(o) /\ Genuine(n) /\ FollowsRules(n)
    BY DEF TablesRight, TableRight
  <2>2. SameSolves(o, n)
    BY DEF History, FirstPast, SecondPast, SameSolves
  <2>3. Untied(o.solves) /\ u \in Users
    BY <2>1, GenuineRankable DEF Untied
  <2> HIDE DEF o, n
  <2>4. /\ Solved(o.solves, u) = {} <=> Solved(n.solves, u) = {}
        /\ Solved(o.solves, u) # {} => Position(n, u) = Position(o, u)
    BY <2>1, <2>2, <2>3, SamePositions
  <2>5. QED BY <2>4 DEF o, n
<1>4. QED BY <1>1, <1>2, <1>3, PTL DEF BoardSpec

-----------------------------------------------------------------------------
(* The chart and its table.                                                *)

\* The solves of a player among the first ones of a replay.
LEMMA SolvedOf ==
  ASSUME BoardTypeOK, Progress, NEW cut, NEW solved \in Replays(cut), NEW m \in 0..Len(solved), NEW u
  PROVE  /\ \A s : s \in Solved(Counted(solved, m), u)
                   <=> \E j \in 1..m : solved[j].user = u /\ s = Earned(solved, j)
         /\ \A j \in 1..m : Earned(solved, j).time = solved[j].time
<1>1. \A j \in 1..m : Earned(solved, j).user = solved[j].user /\ Earned(solved, j).time = solved[j].time
  BY DEF Earned
<1>2. QED BY <1>1 DEF Solved, Counted

\* With every solve a player can only be overtaken, until it solves something itself.
LEMMA OnlyOvertaken ==
  ASSUME BoardTypeOK, Progress, NEW cut, NEW solved \in Replays(cut),
         NEW m \in 1..Len(solved), NEW u \in Users,
         \A j \in 1..Len(solved) : solved[j].user = u => j <= m
  PROVE  Rank(Counted(solved, m), Visible, u) <= Rank(Counted(solved, Len(solved)), Visible, u)
<1> DEFINE A == Counted(solved, m)
           B == Counted(solved, Len(solved))
<1>1. Len(solved) \in Nat /\ m \in 0..Len(solved) /\ Len(solved) \in 0..Len(solved) /\ 1..m \subseteq 1..Len(solved)
  BY ReplayOrder
<1>2. Rankable(A) /\ Rankable(B)
  BY <1>1, CountedRankable
<1>3. \A v : Solved(A, v) \subseteq Solved(B, v)
  BY <1>1 DEF Counted, Solved
<1>4. Solved(A, u) = Solved(B, u)
  <2> SUFFICES ASSUME NEW s \in Solved(B, u) PROVE s \in Solved(A, u)
    BY <1>3
  <2>1. PICK j \in 1..Len(solved) : solved[j].user = u /\ s = Earned(solved, j)
    BY <1>1, SolvedOf
  <2>2. j \in 1..m
    BY <1>1, <2>1
  <2>3. QED BY <1>1, <2>1, <2>2, SolvedOf
<1> HIDE DEF A, B
<1>5. ASSUME NEW v, Above(A, v, u) PROVE Above(B, v, u)
  <2>1. Parts(A, u) = Parts(B, u) /\ Score(A, u) = Score(B, u) /\ LastSolve(A, u) = LastSolve(B, u)
    BY <1>4 DEF Parts, Score, LastSolve
  <2>2. CASE Solved(A, v) = Solved(B, v)
    <3>1. Parts(A, v) = Parts(B, v) /\ Score(A, v) = Score(B, v) /\ LastSolve(A, v) = LastSolve(B, v)
      BY <2>2 DEF Parts, Score, LastSolve
    <3>2. QED BY <1>5, <2>1, <3>1 DEF Above
  <2>3. CASE Solved(A, v) # Solved(B, v)
    <3>1. /\ IsFiniteSet(Solved(B, v)) /\ Parts(A, v) \in Nat /\ Parts(B, v) \in Nat
          /\ Parts(A, u) \in Nat
      BY <1>2, Standing
    <3>2. Parts(A, v) < Parts(B, v)
      BY <1>3, <2>3, <3>1, FS_Subset DEF Parts
    <3>3. Parts(A, v) >= Parts(A, u)
      BY <1>5, <3>1 DEF Above
    <3>4. QED BY <2>1, <3>1, <3>2, <3>3 DEF Above
  <2>4. QED BY <2>2, <2>3
<1> DEFINE V == {v \in Visible : Above(A, v, u)}
           W == {v \in Visible : Above(B, v, u)}
<1>6. V \subseteq W /\ W \subseteq Users
  BY <1>5 DEF Visible, BoardTypeOK
<1>7. Rank(A, Visible, u) = 1 + Cardinality(V) /\ Rank(B, Visible, u) = 1 + Cardinality(W)
  BY DEF Rank
<1>8. Cardinality(V) \in Nat /\ Cardinality(W) \in Nat /\ Cardinality(V) <= Cardinality(W)
  <2> HIDE DEF V, W
  <2>1. IsFiniteSet(W)
    BY <1>6, BoardAssumption, FS_Subset
  <2>2. QED BY <1>6, <2>1, FS_Subset, FS_CardinalityType
<1> HIDE DEF V, W
<1>9. QED BY <1>7, <1>8 DEF A, B

\* The last solve of a player that has one, the step of the chart it is drawn in, and
\* that it is the last one there.
LEMMA LastStep ==
  ASSUME BoardTypeOK, Progress, NEW cut, NEW solved \in Replays(cut), NEW at,
         NEW u, NEW some \in 1..Len(solved), solved[some].user = u
  PROVE  \E last \in 1..Len(solved), i \in Kept(solved, at) :
           /\ solved[last].user = u /\ \A j \in 1..Len(solved) : solved[j].user = u => j <= last
           /\ last <= i /\ last \in Mine(solved, at, i, u) /\ Max(Mine(solved, at, i, u)) = last
           /\ LastSolve(Counted(solved, Len(solved)), u) = solved[last].time
<1> DEFINE n == Len(solved)
           Js == {j \in 1..n : solved[j].user = u}
           S == Counted(solved, n)
<1>1. n \in Nat /\ n >= 1 /\ n \in 0..n /\ solved \in Seq(Past(cut)) /\ DOMAIN solved = 1..n
  BY ReplayOrder
<1>2. Js # {} /\ Js \in SUBSET Int /\ IsFiniteSet(Js)
  <2>1. Js \subseteq 1..n /\ IsFiniteSet(1..n)
    BY <1>1, Interval
  <2>2. IsFiniteSet(Js)
    <3> HIDE DEF Js
    <3>1. QED BY <2>1, FS_Subset
  <2>3. QED BY <2>1, <2>2
<1>3. PICK last \in Js : \A j \in Js : j <= last
  <2> HIDE DEF Js
  <2>1. QED BY <1>2, GreatestNumber
<1>4. last \in 1..n /\ solved[last].user = u /\ \A j \in 1..n : solved[j].user = u => j <= last
  BY <1>3
<1> DEFINE Ks == {k \in Kept(solved, at) : last <= k}
<1>5. Kept(solved, at) \subseteq 1..n /\ n \in Kept(solved, at) /\ IsFiniteSet(Kept(solved, at))
  BY <1>1, KeptLast
<1>6. PICK i \in Ks : \A k \in Ks : i <= k
  <2>1. Ks \subseteq Kept(solved, at) /\ n \in Ks /\ Ks \in SUBSET Int
    BY <1>1, <1>4, <1>5
  <2>2. IsFiniteSet(Ks)
    <3> HIDE DEF Ks
    <3>1. QED BY <1>5, <2>1, FS_Subset
  <2> HIDE DEF Ks
  <2>3. QED BY <2>1, <2>2, LeastNumber
<1>7. i \in Kept(solved, at) /\ last <= i /\ i \in 1..n
  BY <1>5, <1>6
<1>8. last \in Clump(solved, at, i)
  <2>1. ASSUME NEW k \in Kept(solved, at) PROVE k < last <=> k < i
    <3>1. k \in Int /\ last \in Int /\ i \in Int
      BY <1>4, <1>5, <1>7
    <3>2. k < last => k < i
      BY <1>7, <3>1
    <3>3. last <= k => i <= k
      BY <1>6
    <3>4. QED BY <3>1, <3>2, <3>3
  <2>2. QED BY <1>1, <1>4, <2>1 DEF Clump
<1> DEFINE M == Mine(solved, at, i, u)
<1>9. last \in M /\ M \subseteq Js /\ M \in SUBSET Int
  BY <1>1, <1>4, <1>8 DEF Mine, Clump
<1>10. Max(M) = last
  <2>1. IsFiniteSet(M)
    BY <1>2, <1>9, FS_Subset
  <2>2. Max(M) \in M /\ last <= Max(M)
    <3> HIDE DEF M
    <3>1. QED BY <1>9, <2>1, GreatestNumber
  <2>3. Max(M) <= last /\ Max(M) \in Int /\ last \in Int
    BY <1>3, <1>9, <2>2
  <2> HIDE DEF M
  <2>4. QED BY <2>2, <2>3
<1>11. LastSolve(S, u) = solved[last].time
  <2>1. Rankable(S)
    BY <1>1, CountedRankable
  <2>2. /\ LastSolve(S, u) \in {s.time : s \in Solved(S, u)} \union {0} /\ LastSolve(S, u) \in Nat
        /\ \A s \in Solved(S, u) : s.time <= LastSolve(S, u)
    BY <2>1, Standing
  <2>3. /\ \A s : s \in Solved(S, u) <=> \E j \in 1..n : solved[j].user = u /\ s = Earned(solved, j)
        /\ \A j \in 1..n : Earned(solved, j).time = solved[j].time
    BY <1>1, SolvedOf
  <2>4. \A j \in 1..n : solved[j].time \in Nat
    BY EntryStored DEF SolveType
  <2>5. \A j \in 1..n : solved[j].user = u => solved[j].time <= solved[last].time
    <3> SUFFICES ASSUME NEW j \in 1..n, solved[j].user = u PROVE solved[j].time <= solved[last].time
      OBVIOUS
    <3>1. j <= last /\ j \in Int /\ last \in Int
      BY <1>4
    <3>2. CASE j = last
      BY <2>4, <3>2
    <3>3. CASE j < last
      BY <1>1, <1>4, <3>3, ReplayOrder
    <3>4. QED BY <3>1, <3>2, <3>3
  <2>6. solved[last].time <= LastSolve(S, u)
    BY <1>4, <2>2, <2>3
  <2>7. LastSolve(S, u) <= solved[last].time
    <3>1. CASE LastSolve(S, u) = 0
      BY <1>4, <2>4, <3>1
    <3>2. CASE \E s \in Solved(S, u) : LastSolve(S, u) = s.time
      BY <2>3, <2>5, <3>2
    <3>3. QED BY <2>2, <3>1, <3>2
  <2> HIDE DEF S
  <2>8. QED BY <1>4, <2>2, <2>4, <2>6, <2>7
<1>12. QED BY <1>4, <1>7, <1>9, <1>10, <1>11

\* What a chart shows of its table.
Truthful(chart, table) ==
  \A u \in Users :
    LET line == chart[u]
    IN  /\ line.dots = {} <=> line.label = 0
        /\ Solved(table.solves, u) = {} => line.label = 0
        /\ (Solved(table.solves, u) # {} /\ Position(table, u) <= MaxRank)
           => /\ line.label = Position(table, u)
              /\ \E d \in line.dots : d.time = LastSolve(table.solves, u) /\ d.row <= line.label

\* A player among the ranks shown has its label at its place and a dot at its last
\* solve: the last solve of the replay is a step, where the place is the final
\* one, and since the player's own last step it can only have gone down.
LEMMA LastDot ==
  ASSUME BoardTypeOK, Progress, NEW cut, NEW solved \in Replays(cut), NEW at, NEW u \in Users,
         Solved(Table(solved).solves, u) # {}, Position(Table(solved), u) <= MaxRank
  PROVE  /\ Chart(solved, at)[u].label = Position(Table(solved), u)
         /\ \E d \in Chart(solved, at)[u].dots :
              d.time = LastSolve(Table(solved).solves, u) /\ d.row <= Chart(solved, at)[u].label
<1> DEFINE n == Len(solved)
<1>1. Table(solved).players = Visible /\ Table(solved).solves = Counted(solved, n)
  BY ReplayCounted DEF Table
<1>2. n \in Nat /\ n \in 0..n /\ solved \in Seq(Past(cut))
  BY ReplayOrder
<1>3. PICK some \in 1..Len(solved) : solved[some].user = u
  BY <1>1, <1>2, SolvedOf
<1>4. u \in Visible
  BY <1>3, EntryStored
<1>5. PICK rank \in [Kept(solved, at) -> [Users -> Nat \ {0}]] :
        /\ Chart(solved, at)[u] = Line(solved, at, rank, u)
        /\ \A i \in Kept(solved, at) : \A v \in Users :
             rank[i][v] = Rank(Counted(solved, i), Visible, v)
  BY ChartLine
<1>6. PICK last \in 1..Len(solved), i \in Kept(solved, at) :
        /\ solved[last].user = u /\ \A j \in 1..Len(solved) : solved[j].user = u => j <= last
        /\ last <= i /\ last \in Mine(solved, at, i, u) /\ Max(Mine(solved, at, i, u)) = last
        /\ LastSolve(Counted(solved, Len(solved)), u) = solved[last].time
  <2> HIDE DEF n
  <2>1. QED BY ONLY BoardTypeOK, Progress, solved \in Replays(cut), <1>3, LastStep
<1>7. /\ Kept(solved, at) \subseteq 1..n /\ n \in Kept(solved, at)
      /\ IsFiniteSet(Kept(solved, at)) /\ Kept(solved, at) \in SUBSET Int
  BY <1>2, <1>3, KeptLast
<1>8. rank[n][u] = Position(Table(solved), u) /\ rank[n][u] <= MaxRank
  BY <1>1, <1>5, <1>7 DEF Position
<1>9. rank[i][u] <= rank[n][u]
  <2>1. \A j \in 1..n : solved[j].user = u => j <= i
    <3> SUFFICES ASSUME NEW j \in 1..n, solved[j].user = u PROVE j <= i
      OBVIOUS
    <3>1. j \in Int /\ last \in Int /\ i \in Int /\ j <= last /\ last <= i
      BY <1>6, <1>7
    <3>2. QED BY <3>1
  <2>2. Rank(Counted(solved, i), Visible, u) <= Rank(Counted(solved, n), Visible, u)
    BY <1>7, <2>1, OnlyOvertaken
  <2>3. QED BY <1>5, <1>7, <2>2
<1>10. i \in Shown(rank, u) /\ n \in Shown(rank, u) /\ Shown(rank, u) \subseteq 1..n
  <2>1. rank[i][u] \in Nat /\ rank[n][u] \in Nat /\ MaxRank \in Nat
    BY <1>5, <1>7, BoardAssumption
  <2>2. rank[i][u] <= MaxRank
    BY <1>8, <1>9, <2>1
  <2>3. DOMAIN rank = Kept(solved, at)
    OBVIOUS
  <2>4. QED BY <1>4, <1>7, <1>8, <2>2, <2>3 DEF Shown
<1>11. Max(Shown(rank, u)) = n
  <2> DEFINE shown == Shown(rank, u)
  <2>1. IsFiniteSet(1..n)
    BY <1>2, Interval
  <2>2. IsFiniteSet(shown) /\ shown \in SUBSET Int /\ n \in shown
    BY <1>10, <2>1, FS_Subset
  <2>3. Max(shown) \in shown /\ n <= Max(shown)
    <3> HIDE DEF shown
    <3>1. QED BY <2>2, GreatestNumber
  <2>4. Max(shown) \in 1..n
    BY <1>10, <2>3
  <2> HIDE DEF shown
  <2>5. Max(shown) = n
    BY <1>2, <2>3, <2>4
  <2>6. QED BY <2>5 DEF shown
<1>12. i \in Own(solved, at, rank, u)
  BY <1>6, <1>10 DEF Own
<1>13. /\ Line(solved, at, rank, u).label = rank[n][u]
       /\ [time |-> solved[last].time, row |-> rank[i][u]] \in Line(solved, at, rank, u).dots
  BY <1>6, <1>11, <1>12, LineMade
<1>14. LastSolve(Table(solved).solves, u) = solved[last].time
  BY <1>1, <1>6
<1> DEFINE d == [time |-> solved[last].time, row |-> rank[i][u]]
<1>15. d \in Chart(solved, at)[u].dots /\ d.time = LastSolve(Table(solved).solves, u)
       /\ d.row <= Chart(solved, at)[u].label
  BY <1>5, <1>9, <1>13, <1>14
<1>16. QED BY <1>5, <1>8, <1>13, <1>15

LEMMA ChartRight ==
  ASSUME BoardTypeOK, Progress, NEW cut, NEW solved \in Replays(cut), NEW at
  PROVE  Truthful(Chart(solved, at), Table(solved))
<1> SUFFICES ASSUME NEW u \in Users
             PROVE  /\ Chart(solved, at)[u].dots = {} <=> Chart(solved, at)[u].label = 0
                    /\ Solved(Table(solved).solves, u) = {} => Chart(solved, at)[u].label = 0
  BY LastDot DEF Truthful
<1>1. solved \in Seq(SolveType)
  <2>1. Len(solved) \in Nat /\ DOMAIN solved = 1..Len(solved) /\ solved \in Seq(Past(cut))
        /\ \A i \in 1..Len(solved) : solved[i] \in SolveType
    BY ReplayOrder, EntryStored
  <2>2. QED BY <2>1
<1>2. /\ Chart(solved, at)[u].dots = {} <=> Chart(solved, at)[u].label = 0
      /\ (\A j \in 1..Len(solved) : solved[j].user # u) => Chart(solved, at)[u].label = 0
  BY <1>1, ChartLine, LineShape
<1>3. ASSUME Solved(Table(solved).solves, u) = {} PROVE \A j \in 1..Len(solved) : solved[j].user # u
  <2>1. Len(solved) \in 0..Len(solved) /\ Table(solved).solves = Counted(solved, Len(solved))
    BY ReplayOrder, ReplayCounted DEF Table
  <2>2. QED BY <1>3, <2>1, SolvedOf
<1>4. QED BY <1>2, <1>3

\* The chart of a page is made from the table of its first half.
ChartsRight ==
  \A k \in Pages :
    page[k].kind \in {"board", "chart"} /\ page[k].phase \in {"half", "done"}
    => Truthful(page[k].chart, page[k].first)

LEMMA ChartsStep ==
  BoardTypeOK /\ Progress /\ ChartsRight /\ [BoardNext]_boardVars => ChartsRight'
<1> SUFFICES ASSUME BoardTypeOK, Progress, ChartsRight, [BoardNext]_boardVars, NEW k \in Pages,
                    page'[k].kind \in {"board", "chart"}, page'[k].phase \in {"half", "done"}
             PROVE  Truthful(page'[k].chart, page'[k].first)
  BY DEF ChartsRight, Truthful, Solved, Position, Rank, Above, Parts, Score, LastSolve
<1>1. CASE Grows(k) \/ Clears(k)
  BY <1>1 DEF Grows, Clears, SameShown, ChartsRight
<1>2. CASE Ask(k)
  BY <1>2, AskEffect
<1>3. CASE First(k)
  BY <1>3, FirstEffect, ChartRight
<1>4. CASE Second(k)
  BY <1>4, SecondEffect DEF ChartsRight
<1>5. QED BY <1>1, <1>2, <1>3, <1>4, PageSteps DEF OwnStep

\* A player among the ranks a chart shows has its label at its place in the table and
\* a dot at its last solve, however many solves are drawn as one step.
THEOREM ChartsAreTruthful == BoardSpec => []ChartTruthful
<1>1. BoardInit => BoardTypeOK /\ Progress /\ ChartsRight
  <2>1. BoardInit => \A k \in Pages : page[k].phase = "idle"
    BY DEF BoardInit, NoPage
  <2>2. BoardInit => ChartsRight
    BY <2>1 DEF ChartsRight
  <2>3. QED BY <2>2, StartTyped
<1>2. BoardTypeOK /\ Progress /\ ChartsRight /\ [BoardNext]_boardVars => (BoardTypeOK /\ Progress /\ ChartsRight)'
  BY TypeStep, ChartsStep
<1>3. ChartsRight => ChartTruthful
  BY DEF ChartsRight, Truthful, ChartTruthful
<1>4. QED BY <1>1, <1>2, <1>3, PTL DEF BoardSpec

-----------------------------------------------------------------------------
(* The loop over the solves.                                               *)

\* What holds of zero and is handed on holds of all numbers up to n.
LEMMA UpTo ==
  ASSUME NEW n \in Nat, NEW Good, 0 \in Good, \A m \in 1..n : m - 1 \in Good => m \in Good
  PROVE  \A m \in 0..n : m \in Good
<1> DEFINE Bad == (0..n) \ Good
<1>1. SUFFICES ASSUME Bad # {} PROVE FALSE
  OBVIOUS
<1>2. Bad \in SUBSET Int /\ Bad \subseteq 0..n /\ IsFiniteSet(0..n)
  BY FS_Interval
<1>3. IsFiniteSet(Bad)
  <2> HIDE DEF Bad
  <2>1. QED BY <1>2, FS_Subset
<1>4. PICK m \in Bad : \A k \in Bad : m <= k
  <2> HIDE DEF Bad
  <2>1. QED BY <1>1, <1>2, <1>3, LeastNumber
<1>5. m \in 1..n /\ m - 1 \in 0..n /\ m \notin Good
  OBVIOUS
<1>6. m - 1 \in Good
  BY <1>4, <1>5
<1>7. QED BY <1>5, <1>6

\* puzzle.go:476-501 and 673-691, summary.go:86-104.  The variables of the loop after each
\* solve: points are what each part is still worth, the others belong to the players.
Counting(solved, points, parts, score, last) ==
  /\ points[0] = StartPoints
  /\ parts[0] = [u \in Visible |-> 0] /\ score[0] = [u \in Visible |-> 0] /\ last[0] = [u \in Visible |-> 0]
  /\ \A i \in 1..Len(solved) :
       LET s == solved[i]
       IN  /\ parts[i] = [parts[i - 1] EXCEPT ![s.user] = @ + 1]
           /\ score[i] = [score[i - 1] EXCEPT ![s.user] = @ + points[i - 1][s.puzzle][s.part]]
           /\ points[i] = [points[i - 1] EXCEPT ![s.puzzle][s.part] = @ - 1]
           /\ last[i] = [last[i - 1] EXCEPT ![s.user] = IF s.time > @ THEN s.time ELSE @]

\* The solves of a part among the first ones.
Taken(solved, m, p, k) == {j \in 1..m : solved[j].puzzle = p /\ solved[j].part = k}

LEMMA TakenNext ==
  ASSUME NEW solved, NEW m \in Nat \ {0}, NEW p, NEW k
  PROVE  /\ Cardinality(Taken(solved, m, p, k)) =
              Cardinality(Taken(solved, m - 1, p, k))
                + IF solved[m].puzzle = p /\ solved[m].part = k THEN 1 ELSE 0
         /\ Cardinality(Taken(solved, m, p, k)) \in Nat /\ Cardinality(Taken(solved, m - 1, p, k)) \in Nat
<1> DEFINE T == Taken(solved, m, p, k)
           B == Taken(solved, m - 1, p, k)
<1>1. m - 1 \in Int /\ m \in Int /\ B \subseteq 1..(m - 1) /\ T \subseteq 1..m
  BY DEF Taken
<1>2. IsFiniteSet(B) /\ IsFiniteSet(T) /\ Cardinality(B) \in Nat /\ Cardinality(T) \in Nat
  <2> HIDE DEF T, B
  <2>1. QED BY <1>1, Interval, FS_Subset, FS_CardinalityType
<1>3. m \notin B /\ T = IF solved[m].puzzle = p /\ solved[m].part = k THEN B \union {m} ELSE B
  BY DEF Taken
<1> HIDE DEF T, B
<1>4. Cardinality(T) = Cardinality(B) + IF solved[m].puzzle = p /\ solved[m].part = k THEN 1 ELSE 0
  BY <1>2, <1>3, FS_AddElement
<1>5. QED BY <1>2, <1>4 DEF T, B

\* The points that are left of a part are those it started with less one for each of
\* its solves so far.
LEMMA PointsLeft ==
  ASSUME BoardTypeOK, Progress, NEW cut, NEW solved \in Replays(cut),
         NEW points, NEW parts, NEW score, NEW last, Counting(solved, points, parts, score, last)
  PROVE  \A m \in 0..Len(solved) :
           /\ DOMAIN points[m] = Puzzles
           /\ \A p \in Puzzles : /\ DOMAIN points[m][p] = 1..PartCount[p]
                                 /\ \A k \in 1..PartCount[p] :
                                      points[m][p][k] = Cardinality(Visible) - Cardinality(Taken(solved, m, p, k))
<1> DEFINE Left(m) == /\ DOMAIN points[m] = Puzzles
                      /\ \A p \in Puzzles : /\ DOMAIN points[m][p] = 1..PartCount[p]
                                            /\ \A k \in 1..PartCount[p] :
                                                 points[m][p][k] = Cardinality(Visible) - Cardinality(Taken(solved, m, p, k))
           Good == {m \in 0..Len(solved) : Left(m)}
<1>1. Len(solved) \in Nat
  BY ReplayOrder
<1>2. Cardinality(Visible) \in Nat
  BY BoardAssumption, FS_Subset, FS_CardinalityType DEF Visible, BoardTypeOK
<1>3. Left(0)
  <2>1. \A p, k : Taken(solved, 0, p, k) = {}
    BY DEF Taken
  <2>2. Cardinality({}) = 0
    BY FS_EmptySet
  <2>3. \A p, k : Cardinality(Taken(solved, 0, p, k)) = 0
    BY <2>1, <2>2
  <2>4. points[0] = StartPoints
    BY DEF Counting
  <2>5. QED BY <1>2, <2>3, <2>4 DEF StartPoints
<1>4. ASSUME NEW m \in 1..Len(solved), Left(m - 1) PROVE Left(m)
  <2> DEFINE q == solved[m].puzzle
             h == solved[m].part
  <2>1. points[m] = [points[m - 1] EXCEPT ![q][h] = @ - 1]
    BY DEF Counting
  <2>2. q \in Puzzles /\ h \in 1..PartCount[q]
    <3>1. solved[m] \in SolvesOf(Visible) /\ solved[m] \in SolveType /\ Visible \in SUBSET Users
      BY EntryStored DEF Visible, BoardTypeOK
    <3>2. QED BY <3>1, StoredSolve DEF SolveType
  <2>3. m \in Nat \ {0}
    BY <1>1
  <2> HIDE DEF q, h
  <2>4. ASSUME NEW p \in Puzzles
        PROVE  /\ DOMAIN points[m][p] = 1..PartCount[p]
               /\ \A k \in 1..PartCount[p] :
                    points[m][p][k] = points[m - 1][p][k] - IF q = p /\ h = k THEN 1 ELSE 0
    <3>1. DOMAIN points[m - 1] = Puzzles /\ DOMAIN points[m - 1][p] = 1..PartCount[p]
          /\ \A k \in 1..PartCount[p] : points[m - 1][p][k] \in Int
      <4>1. \A k : Cardinality(Taken(solved, m - 1, p, k)) \in Nat
        BY <2>3, TakenNext
      <4>2. /\ DOMAIN points[m - 1] = Puzzles /\ DOMAIN points[m - 1][p] = 1..PartCount[p]
            /\ \A k \in 1..PartCount[p] :
                 points[m - 1][p][k] = Cardinality(Visible) - Cardinality(Taken(solved, m - 1, p, k))
        BY <1>4
      <4>3. \A a, b \in Nat : a - b \in Int
        OBVIOUS
      <4>4. ASSUME NEW k \in 1..PartCount[p] PROVE points[m - 1][p][k] \in Int
        <5>1. Cardinality(Taken(solved, m - 1, p, k)) \in Nat
          BY <4>1
        <5>2. Cardinality(Visible) - Cardinality(Taken(solved, m - 1, p, k)) \in Int
          BY ONLY <1>2, <5>1, <4>3
        <5>3. QED BY <4>2, <5>2
      <4>5. QED BY <4>2, <4>4
    <3>2. CASE p = q
      <4>1. points[m][p] = [points[m - 1][p] EXCEPT ![h] = @ - 1]
        BY <2>1, <2>2, <3>1, <3>2
      <4>2. DOMAIN points[m][p] = 1..PartCount[p] /\ points[m][p][h] = points[m - 1][p][h] - 1
            /\ \A k \in 1..PartCount[p] : k # h => points[m][p][k] = points[m - 1][p][k]
        BY <2>2, <3>1, <3>2, <4>1
      <4>3. ASSUME NEW k \in 1..PartCount[p]
            PROVE  points[m][p][k] = points[m - 1][p][k] - IF q = p /\ h = k THEN 1 ELSE 0
        BY <3>1, <3>2, <4>2
      <4>4. QED BY <4>2, <4>3
    <3>3. CASE p # q
      BY <2>1, <2>2, <3>1, <3>3
    <3>4. QED BY <3>2, <3>3
  <2>5. \A p \in Puzzles : \A k \in 1..PartCount[p] :
          points[m][p][k] = Cardinality(Visible) - Cardinality(Taken(solved, m, p, k))
    <3> SUFFICES ASSUME NEW p \in Puzzles, NEW k \in 1..PartCount[p]
                 PROVE  points[m][p][k] = Cardinality(Visible) - Cardinality(Taken(solved, m, p, k))
      OBVIOUS
    <3> DEFINE b == Cardinality(Taken(solved, m - 1, p, k))
               t == Cardinality(Taken(solved, m, p, k))
               c == IF q = p /\ h = k THEN 1 ELSE 0
    <3>1. b \in Nat /\ t \in Nat /\ t = b + c
      BY <2>3, TakenNext DEF q, h
    <3>2. points[m - 1][p][k] = Cardinality(Visible) - b
      BY <1>4
    <3>3. points[m][p][k] = points[m - 1][p][k] - c /\ c \in Nat
      BY <2>4
    <3> HIDE DEF b, t, c
    <3>4. points[m][p][k] = Cardinality(Visible) - t
      BY <1>2, <3>1, <3>2, <3>3
    <3>5. QED BY <3>4 DEF t
  <2>6. DOMAIN points[m] = Puzzles
    BY <1>4, <2>1
  <2>7. QED BY <2>4, <2>5, <2>6
<1> HIDE DEF Left
<1>5. 0 \in Good /\ \A m \in 1..Len(solved) : m - 1 \in Good => m \in Good
  BY <1>1, <1>3, <1>4
<1>6. \A m \in 0..Len(solved) : m \in Good
  <2> HIDE DEF Good
  <2>1. QED BY <1>1, <1>5, UpTo
<1>7. QED BY <1>6 DEF Left

\* A solve counts once.
LEMMA CountedNext ==
  ASSUME BoardTypeOK, Progress, NEW cut, NEW solved \in Replays(cut), NEW m \in 1..Len(solved)
  PROVE  /\ Counted(solved, m) = Counted(solved, m - 1) \union {Earned(solved, m)}
         /\ Earned(solved, m) \notin Counted(solved, m - 1)
<1>1. Len(solved) \in Nat /\ 1..m = 1..(m - 1) \union {m} /\ m \notin 1..(m - 1) /\ 1..(m - 1) \subseteq 1..Len(solved)
  BY ReplayOrder
<1>2. ASSUME NEW i \in 1..(m - 1), Earned(solved, i) = Earned(solved, m) PROVE FALSE
  <2>1. solved[i].user = solved[m].user /\ solved[i].puzzle = solved[m].puzzle
        /\ solved[i].part = solved[m].part
    BY <1>2 DEF Earned
  <2>2. i \in 1..Len(solved)
    BY <1>1
  <2>3. i = m
    BY <2>1, <2>2, EntryOnce
  <2>4. QED BY <1>1, <2>3
<1>3. QED BY <1>1, <1>2 DEF Counted

\* The points of one more solve are added.
LEMMA PointsAdd ==
  ASSUME NEW M, IsFiniteSet(M), M \in SUBSET EarnedType, NEW e \in EarnedType, e \notin M, e.award \in Nat,
         NEW most \in Nat, \A s \in M : s.award <= most
  PROVE  Cardinality(Points(M \union {e})) = Cardinality(Points(M)) + e.award
<1> DEFINE E == Points({e})
           f == [n \in 1..e.award |-> <<e, n>>]
<1>1. IsFiniteSet(Points(M))
  BY FinitePoints
<1>2. IsFiniteSet(E) /\ Cardinality(E) = e.award
  <2>1. f \in [1..e.award -> E]
    BY PointOf
  <2>2. \A q \in E : \E n \in 1..e.award : f[n] = q
    BY PointOf
  <2>3. \A i, j \in 1..e.award : f[i] = f[j] => i = j
    OBVIOUS
  <2>4. IsFiniteSet(1..e.award) /\ Cardinality(1..e.award) = e.award
    BY ONLY e.award \in Nat, FS_Interval
  <2> HIDE DEF f, E
  <2>5. QED BY <2>1, <2>2, <2>3, <2>4, Paired
<1>3. Points(M) \intersect E = {}
  <2> SUFFICES ASSUME NEW q \in Points(M), q \in E PROVE FALSE
    OBVIOUS
  <2>1. PICK s \in M : \E n \in 1..s.award : q = <<s, n>>
    BY PointOf
  <2>2. \E n \in 1..e.award : q = <<e, n>>
    BY PointOf
  <2>3. s = e
    BY <2>1, <2>2
  <2>4. QED BY <2>1, <2>3
<1>4. Points(M \union {e}) = Points(M) \union E
  <2>1. \A q : q \in Points(M \union {e}) <=> \E s \in M \union {e} : \E n \in 1..s.award : q = <<s, n>>
    BY PointOf
  <2>2. \A q : q \in Points(M) <=> \E s \in M : \E n \in 1..s.award : q = <<s, n>>
    BY PointOf
  <2>3. \A q : q \in E <=> \E s \in {e} : \E n \in 1..s.award : q = <<s, n>>
    BY PointOf
  <2> HIDE DEF E
  <2>4. QED BY <2>1, <2>2, <2>3
<1> HIDE DEF E
<1>5. QED BY <1>1, <1>2, <1>3, <1>4, Disjoint

\* What one more solve changes in what decides between the players.
LEMMA StandingNext ==
  ASSUME BoardTypeOK, Progress, NEW cut, NEW solved \in Replays(cut), NEW m \in 1..Len(solved), NEW u
  PROVE  LET S == Counted(solved, m - 1)
             T == Counted(solved, m)
         IN  IF solved[m].user = u
             THEN /\ Parts(T, u) = Parts(S, u) + 1
                  /\ Score(T, u) = Score(S, u) + Award(solved, m)
                  /\ LastSolve(T, u) = IF solved[m].time > LastSolve(S, u) THEN solved[m].time ELSE LastSolve(S, u)
             ELSE Parts(T, u) = Parts(S, u) /\ Score(T, u) = Score(S, u) /\ LastSolve(T, u) = LastSolve(S, u)
<1> DEFINE S == Counted(solved, m - 1)
           T == Counted(solved, m)
           e == Earned(solved, m)
           M == Solved(S, u)
           N == Solved(T, u)
<1>1. Len(solved) \in Nat /\ m - 1 \in 0..Len(solved) /\ m \in 0..Len(solved)
  BY ReplayOrder
<1>2. Rankable(S) /\ Rankable(T)
  BY <1>1, CountedRankable
<1>3. T = S \union {e} /\ e \notin S
  BY CountedNext
<1>4. e \in EarnedType /\ e.user = solved[m].user /\ e.time = solved[m].time /\ e.award = Award(solved, m)
      /\ Award(solved, m) \in Nat
  <2>1. Award(solved, m) \in 1..Cardinality(Visible)
    BY AwardBounds
  <2>2. Award(solved, m) \in Int /\ Earned(solved, m) \in EarnedType
    BY AwardValue
  <2>3. Award(solved, m) \in Nat
    <3> HIDE DEF e, S, T, M, N
    <3>1. \A n \in Int : \A top : n \in 1..top => n \in Nat
      OBVIOUS
    <3>2. QED BY ONLY <2>1, <2>2, <3>1
  <2>4. QED BY <2>2, <2>3 DEF Earned
<1> HIDE DEF e, S, T
<1>5. CASE solved[m].user # u
  <2>1. N = M
    BY <1>3, <1>4, <1>5 DEF Solved
  <2>2. QED BY <1>5, <2>1 DEF Parts, Score, LastSolve, S, T
<1>6. CASE solved[m].user = u
  <2>1. N = M \union {e} /\ e \notin M
    BY <1>3, <1>4, <1>6 DEF Solved
  <2>2. M \subseteq S /\ IsFiniteSet(M) /\ M \in SUBSET EarnedType
    <3>1. M \subseteq S /\ IsFiniteSet(M)
      BY <1>2, Standing
    <3>2. QED BY <1>2, <3>1 DEF Rankable
  <2>3. Parts(T, u) = Parts(S, u) + 1
    <3> HIDE DEF M, N
    <3>1. Cardinality(N) = Cardinality(M) + 1
      BY <2>1, <2>2, FS_AddElement
    <3>2. QED BY <3>1 DEF Parts, M, N
  <2>4. Score(T, u) = Score(S, u) + Award(solved, m)
    <3>1. PICK most \in Nat : \A s \in S : s.award <= most
      BY <1>2 DEF Rankable
    <3>2. \A s \in M : s.award <= most
      BY <2>2, <3>1
    <3>3. Cardinality(Points(M \union {e})) = Cardinality(Points(M)) + e.award
      <4> HIDE DEF M
      <4>1. QED BY <1>4, <2>1, <2>2, <3>2, PointsAdd
    <3>4. Score(T, u) = Cardinality(Points(N)) /\ Score(S, u) = Cardinality(Points(M))
      BY DEF Score, Points
    <3> HIDE DEF M, N
    <3>5. QED BY <1>4, <2>1, <3>3, <3>4
  <2>5. LastSolve(T, u) = IF solved[m].time > LastSolve(S, u) THEN solved[m].time ELSE LastSolve(S, u)
    <3> DEFINE a == LastSolve(S, u)
               b == LastSolve(T, u)
               t == solved[m].time
    <3>1. /\ a \in Nat /\ b \in Nat /\ a \in {s.time : s \in M} \union {0} /\ \A s \in M : s.time <= a
          /\ b \in {s.time : s \in N} \union {0} /\ \A s \in N : s.time <= b
      BY <1>2, Standing
    <3>2. t \in Nat
      BY EntryStored DEF SolveType
    <3> HIDE DEF a, b, t, M, N
    <3>3. t <= b /\ a <= b
      BY <1>4, <2>1, <3>1 DEF t
    <3>4. b = t \/ b <= a
      <4>1. CASE b = 0
        BY <3>1, <4>1
      <4>2. CASE b # 0
        <5>1. PICK s \in N : b = s.time
          BY <3>1, <4>2
        <5>2. QED BY <1>4, <2>1, <3>1, <5>1 DEF t
      <4>3. QED BY <4>1, <4>2
    <3>5. b = IF t > a THEN t ELSE a
      BY <3>1, <3>2, <3>3, <3>4
    <3>6. QED BY <3>5 DEF a, b, t
  <2>6. QED BY <1>6, <2>3, <2>4, <2>5 DEF S, T
<1>7. QED BY <1>5, <1>6

\* Before the first solve nobody has anything.
LEMMA StandingFirst ==
  ASSUME NEW solved, NEW u
  PROVE  Parts(Counted(solved, 0), u) = 0 /\ Score(Counted(solved, 0), u) = 0 /\ LastSolve(Counted(solved, 0), u) = 0
<1>1. Counted(solved, 0) = {} /\ \A S : S = {} => Solved(S, u) = {}
  BY DEF Counted, Solved
<1>2. Solved({}, u) = {} /\ Cardinality({}) = 0
  BY <1>1, FS_EmptySet
<1>3. Parts({}, u) = 0 /\ Score({}, u) = 0
  BY <1>2 DEF Parts, Score
<1>4. Rankable({})
  BY FS_EmptySet DEF Rankable
<1>5. LastSolve({}, u) = 0
  BY <1>2, <1>4, Standing
<1>6. QED BY <1>1, <1>3, <1>5

\* puzzle.go:476-501 and 673-691, summary.go:86-104.  After each solve the loop has for every
\* player the parts, the points and the last solve that the ranking compares, and
\* what it adds for a solve is its award: the closed forms the pages are
\* modelled with are what the running totals come to.
THEOREM LoopCountsRanking ==
  ASSUME BoardTypeOK, Progress, NEW cut, NEW solved \in Replays(cut),
         NEW points, NEW parts, NEW score, NEW last, Counting(solved, points, parts, score, last)
  PROVE  /\ \A i \in 1..Len(solved) :
              Award(solved, i) = points[i - 1][solved[i].puzzle][solved[i].part]
         /\ \A m \in 0..Len(solved) : \A u \in Visible :
              /\ parts[m][u] = Parts(Counted(solved, m), u)
              /\ score[m][u] = Score(Counted(solved, m), u)
              /\ last[m][u] = LastSolve(Counted(solved, m), u)
<1> DEFINE Same(m) ==
              /\ parts[m] = [u \in Visible |-> Parts(Counted(solved, m), u)]
              /\ score[m] = [u \in Visible |-> Score(Counted(solved, m), u)]
              /\ last[m] = [u \in Visible |-> LastSolve(Counted(solved, m), u)]
           Good == {m \in 0..Len(solved) : Same(m)}
<1>1. Len(solved) \in Nat
  BY ReplayOrder
<1>2. ASSUME NEW i \in 1..Len(solved)
      PROVE  Award(solved, i) = points[i - 1][solved[i].puzzle][solved[i].part]
  <2> DEFINE p == solved[i].puzzle
             k == solved[i].part
  <2>1. p \in Puzzles /\ k \in 1..PartCount[p] /\ i - 1 \in 0..Len(solved)
    <3>1. solved[i] \in SolvesOf(Visible) /\ solved[i] \in SolveType /\ Visible \in SUBSET Users
      BY EntryStored DEF Visible, BoardTypeOK
    <3>2. QED BY <1>1, <3>1, StoredSolve DEF SolveType
  <2>2. points[i - 1][p][k] = Cardinality(Visible) - Cardinality(Taken(solved, i - 1, p, k))
    <3> HIDE DEF p, k
    <3>1. QED BY <2>1, PointsLeft
  <2>3. QED BY <2>2, AwardValue DEF Taken
<1>3. Same(0)
  BY StandingFirst DEF Counting
<1>4. ASSUME NEW m \in 1..Len(solved), Same(m - 1) PROVE Same(m)
  <2> DEFINE w == solved[m].user
             S == Counted(solved, m - 1)
             T == Counted(solved, m)
  <2>1. /\ parts[m] = [parts[m - 1] EXCEPT ![w] = @ + 1]
        /\ score[m] = [score[m - 1] EXCEPT ![w] = @ + Award(solved, m)]
        /\ last[m] = [last[m - 1] EXCEPT ![w] = IF solved[m].time > @ THEN solved[m].time ELSE @]
    BY <1>2 DEF Counting
  <2>2. /\ parts[m - 1] = [u \in Visible |-> Parts(S, u)]
        /\ score[m - 1] = [u \in Visible |-> Score(S, u)]
        /\ last[m - 1] = [u \in Visible |-> LastSolve(S, u)]
    BY <1>4
  <2>3. w \in Visible
    BY EntryStored
  <2>4. \A u \in Visible :
          IF w = u
          THEN /\ Parts(T, u) = Parts(S, u) + 1
               /\ Score(T, u) = Score(S, u) + Award(solved, m)
               /\ LastSolve(T, u) = IF solved[m].time > LastSolve(S, u) THEN solved[m].time ELSE LastSolve(S, u)
          ELSE Parts(T, u) = Parts(S, u) /\ Score(T, u) = Score(S, u) /\ LastSolve(T, u) = LastSolve(S, u)
    BY StandingNext
  <2> HIDE DEF w, S, T
  <2>5. parts[m] = [u \in Visible |-> Parts(T, u)]
    <3>1. DOMAIN parts[m] = Visible /\ parts[m] = [u \in Visible |-> parts[m][u]]
      BY <2>1, <2>2
    <3>2. ASSUME NEW u \in Visible PROVE parts[m][u] = Parts(T, u)
      <4>1. CASE w = u
        BY <2>1, <2>2, <2>3, <2>4, <4>1
      <4>2. CASE w # u
        BY <2>1, <2>2, <2>3, <2>4, <4>2
      <4>3. QED BY <4>1, <4>2
    <3>3. QED BY <3>1, <3>2
  <2>6. score[m] = [u \in Visible |-> Score(T, u)]
    <3>1. DOMAIN score[m] = Visible /\ score[m] = [u \in Visible |-> score[m][u]]
      BY <2>1, <2>2
    <3>2. ASSUME NEW u \in Visible PROVE score[m][u] = Score(T, u)
      <4>1. CASE w = u
        BY <2>1, <2>2, <2>3, <2>4, <4>1
      <4>2. CASE w # u
        BY <2>1, <2>2, <2>3, <2>4, <4>2
      <4>3. QED BY <4>1, <4>2
    <3>3. QED BY <3>1, <3>2
  <2>7. last[m] = [u \in Visible |-> LastSolve(T, u)]
    <3>1. DOMAIN last[m] = Visible /\ last[m] = [u \in Visible |-> last[m][u]]
      BY <2>1, <2>2
    <3>2. ASSUME NEW u \in Visible PROVE last[m][u] = LastSolve(T, u)
      <4>1. CASE w = u
        BY <2>1, <2>2, <2>3, <2>4, <4>1
      <4>2. CASE w # u
        BY <2>1, <2>2, <2>3, <2>4, <4>2
      <4>3. QED BY <4>1, <4>2
    <3>3. QED BY <3>1, <3>2
  <2>8. QED BY <2>5, <2>6, <2>7 DEF T
<1> HIDE DEF Same
<1>5. 0 \in Good /\ \A m \in 1..Len(solved) : m - 1 \in Good => m \in Good
  BY <1>1, <1>3, <1>4
<1>6. \A m \in 0..Len(solved) : m \in Good
  <2> HIDE DEF Good
  <2>1. QED BY <1>1, <1>5, UpTo
<1>7. QED BY <1>2, <1>6 DEF Same

-----------------------------------------------------------------------------
(* Accounts.                                                               *)

USE AccountsAssumption

\* An id no user has yet has no picture in its name.
Untouched == \A id \in Ids \ users : cached[id] = NoSource

\* The inductive invariant.
Sound == TypeOK /\ OneAccountEach /\ PictureMatches /\ FlagsHold /\ Untouched

-----------------------------------------------------------------------------
(* Records.                                                                *)

\* A new user is a user without a picture.
LEMMA NewUserType ==
  ASSUME NEW member \in BOOLEAN
  PROVE  /\ NewUser(member) \in UserType
         /\ NewUser(member).source = NoSource
         /\ NewUser(member).url = Link("none", NoSource)
         /\ Flags(NewUser(member)) \in [hidden : BOOLEAN, rights : SUBSET Rights]
BY DEF NewUser, UserType, Link, LinkType, LinkKinds, Flags

\* What is right about the record of one user and the picture kept for it.
Right(u, kept) ==
  /\ u \in UserType
  /\ kept = u.source
  /\ u.url.kind = "cached" => u.url.hash = kept /\ kept # NoSource
  /\ u.url.kind \in {"external", "none"} => kept = NoSource

\* The record a login starts from is right: that of the user, or a new one.
LEMMA AccountRight ==
  ASSUME Sound, NEW d \in DiscordIds, NEW seen \in Profile,
         NEW id \in IF Known(d) THEN {linked[d]} ELSE FreshIds
  PROVE  /\ id \in Ids
         /\ Known(d) => id \in users /\ linked[d] = id
         /\ ~Known(d) => id \notin users /\ linked[d] = NoId
         /\ Right(Account(d, id, seen), cached[id])
         /\ Account(d, id, seen).url.kind = "none" => cached[id] = NoSource
         /\ Flags(Account(d, id, seen)) \in [hidden : BOOLEAN, rights : SUBSET Rights]
<1>1. CASE Known(d)
  <2>1. id \in users /\ id \in Ids /\ linked[d] = id
    BY <1>1 DEF Known, Sound, TypeOK
  <2>2. Account(d, id, seen) = user[id]
    BY <1>1 DEF Account
  <2>3. Right(user[id], cached[id])
    BY <2>1 DEF Sound, TypeOK, PictureMatches, Right
  <2>4. Flags(user[id]) \in [hidden : BOOLEAN, rights : SUBSET Rights]
    BY <2>1 DEF Sound, TypeOK, UserType, Flags
  <2>5. QED BY <1>1, <2>1, <2>2, <2>3, <2>4 DEF Right
<1>2. CASE ~Known(d)
  <2>1. id \in Ids /\ id \notin users
    BY <1>2 DEF FreshIds
  <2>2. linked[d] = NoId
    BY <1>2 DEF Known, Sound, TypeOK
  <2>3. cached[id] = NoSource
    BY <2>1 DEF Sound, Untouched
  <2>4. seen.member \in BOOLEAN
    BY DEF Profile
  <2>5. Account(d, id, seen) = NewUser(seen.member)
    BY <1>2 DEF Account
  <2>6. Right(NewUser(seen.member), cached[id])
    BY <2>3, <2>4, NewUserType DEF Right, Link
  <2>7. QED BY <1>2, <2>1, <2>2, <2>3, <2>4, <2>5, <2>6, NewUserType
<1>3. QED BY <1>1, <1>2

\* A picture is wanted from a source.
LEMMA WantedSource ==
  ASSUME NEW u \in UserType, NEW seen \in Profile, NEW source \in Wanted(u, seen)
  PROVE  source \in Sources /\ source # NoSource
<1>1. seen.picture \in Pictures \union {NoSource} /\ u.source \in Sources \union {NoSource}
  BY DEF Profile, UserType
<1>2. QED BY <1>1 DEF Wanted, Sources

\* Noting whether the picture is random changes nothing else.
LEMMA RandomNoted ==
  ASSUME NEW u, NEW kept, Right(u, kept), NEW b \in BOOLEAN
  PROVE  LET v == [u EXCEPT !.random = b]
         IN  /\ Right(v, kept) /\ v \in UserType
             /\ v.source = u.source /\ v.url = u.url /\ Flags(v) = Flags(u)
BY DEF Right, UserType, Flags

\* A download that worked leaves a right record with a link.
LEMMA FetchedRight ==
  ASSUME NEW u \in UserType, NEW source \in Sources, source # NoSource
  PROVE  /\ Right(Fetched(u, source), source)
         /\ Fetched(u, source).url.kind # "none"
         /\ Flags(Fetched(u, source)) = Flags(u)
BY DEF Right, UserType, Fetched, Link, LinkType, LinkKinds, Flags

\* One that failed does too.
LEMMA MissedRight ==
  ASSUME NEW u, NEW kept, Right(u, kept), NEW source \in Sources
  PROVE  /\ Right(Missed(u, source, kept), kept)
         /\ Missed(u, source, kept).url.kind # "none"
         /\ Flags(Missed(u, source, kept)) = Flags(u)
<1>1. CASE kept = NoSource
  BY <1>1 DEF Right, UserType, Missed, Link, LinkType, LinkKinds, Flags
<1>2. CASE kept # NoSource
  BY <1>2 DEF Right, Missed
<1>3. QED BY <1>1, <1>2

-----------------------------------------------------------------------------
(* A login's transaction.                                                  *)

\* It writes one user, which keeps its flags and matches its picture.
LEMMA UpdateDBEffect ==
  ASSUME Sound, NEW l \in Logins, UpdateDB(l)
  PROVE  \E d \in DiscordIds, id \in Ids, w \in UserType, k \in Sources \union {NoSource},
            seen \in Profile :
           /\ Known(d) => id \in users /\ linked[d] = id
           /\ ~Known(d) => id \notin users /\ linked[d] = NoId
           /\ Right(w, k) /\ w.url.kind # "none"
           /\ Flags(w) = Flags(Account(d, id, seen))
           /\ user' = [user EXCEPT ![id] = w]
           /\ cached' = [cached EXCEPT ![id] = k]
           /\ linked' = [linked EXCEPT ![d] = id]
           /\ users' = users \union {id}
           /\ granted' = IF Known(d) THEN granted
                         ELSE [granted EXCEPT ![id] = Flags(NewUser(seen.member))]
<1> DEFINE d == login[l].who
<1> DEFINE seen == login[l].seen
<1>1. d \in DiscordIds /\ seen \in Profile
  BY DEF UpdateDB, Sound, TypeOK
<1>2. PICK id \in IF Known(d) THEN {linked[d]} ELSE FreshIds :
      \E source \in Wanted(Account(d, id, seen), seen) :
        LET u == [Account(d, id, seen) EXCEPT !.random = (seen.picture = NoSource)]
            needed == cached[id] = NoSource \/ u.source # source
        IN  /\ \/ ~needed /\ user' = [user EXCEPT ![id] = u] /\ UNCHANGED cached
               \/ /\ needed
                  /\ user' = [user EXCEPT ![id] = Fetched(u, source)]
                  /\ cached' = [cached EXCEPT ![id] = source]
               \/ /\ needed
                  /\ user' = [user EXCEPT ![id] = Missed(u, source, cached[id])]
                  /\ UNCHANGED cached
            /\ linked' = [linked EXCEPT ![d] = id]
            /\ users' = users \union {id}
            /\ granted' = IF Known(d) THEN granted
                          ELSE [granted EXCEPT ![id] = Flags(NewUser(seen.member))]
  BY DEF UpdateDB
<1> DEFINE a == Account(d, id, seen)
<1> DEFINE u == [a EXCEPT !.random = (seen.picture = NoSource)]
<1>3. PICK source \in Wanted(a, seen) :
        /\ \/ ~(cached[id] = NoSource \/ u.source # source)
              /\ user' = [user EXCEPT ![id] = u] /\ UNCHANGED cached
           \/ /\ user' = [user EXCEPT ![id] = Fetched(u, source)]
              /\ cached' = [cached EXCEPT ![id] = source]
           \/ /\ user' = [user EXCEPT ![id] = Missed(u, source, cached[id])]
              /\ UNCHANGED cached
        /\ linked' = [linked EXCEPT ![d] = id]
        /\ users' = users \union {id}
        /\ granted' = IF Known(d) THEN granted
                      ELSE [granted EXCEPT ![id] = Flags(NewUser(seen.member))]
  BY <1>2
<1>4. /\ id \in Ids
      /\ Known(d) => id \in users /\ linked[d] = id
      /\ ~Known(d) => id \notin users /\ linked[d] = NoId
      /\ Right(a, cached[id])
      /\ a.url.kind = "none" => cached[id] = NoSource
  BY <1>1, AccountRight
<1> HIDE DEF d, seen, a
<1>5. source \in Sources /\ source # NoSource
  BY <1>1, <1>4, WantedSource DEF Right
<1>6. /\ Right(u, cached[id]) /\ u \in UserType
      /\ u.source = a.source /\ u.url = a.url /\ Flags(u) = Flags(a)
  BY <1>4, RandomNoted
<1> HIDE DEF u
<1>7. cached[id] \in Sources \union {NoSource} /\ cached = [cached EXCEPT ![id] = cached[id]]
  BY <1>4 DEF Sound, TypeOK
<1> SUFFICES \E w \in UserType, k \in Sources \union {NoSource} :
               /\ Right(w, k) /\ w.url.kind # "none" /\ Flags(w) = Flags(a)
               /\ user' = [user EXCEPT ![id] = w]
               /\ cached' = [cached EXCEPT ![id] = k]
  BY <1>1, <1>3, <1>4 DEF a
<1>8. CASE ~(cached[id] = NoSource \/ u.source # source)
           /\ user' = [user EXCEPT ![id] = u] /\ UNCHANGED cached
  <2>1. u.url.kind # "none"
    BY <1>4, <1>6, <1>8
  <2>2. QED BY <1>6, <1>7, <1>8, <2>1
<1>9. CASE user' = [user EXCEPT ![id] = Fetched(u, source)]
           /\ cached' = [cached EXCEPT ![id] = source]
  <2>1. /\ Right(Fetched(u, source), source)
        /\ Fetched(u, source).url.kind # "none"
        /\ Flags(Fetched(u, source)) = Flags(a)
    BY <1>5, <1>6, FetchedRight
  <2>2. Fetched(u, source) \in UserType
    BY <2>1 DEF Right
  <2>3. QED BY <1>5, <1>9, <2>1, <2>2
<1>10. CASE user' = [user EXCEPT ![id] = Missed(u, source, cached[id])] /\ UNCHANGED cached
  <2>1. /\ Right(Missed(u, source, cached[id]), cached[id])
        /\ Missed(u, source, cached[id]).url.kind # "none"
        /\ Flags(Missed(u, source, cached[id])) = Flags(a)
    BY <1>5, <1>6, MissedRight
  <2>2. Missed(u, source, cached[id]) \in UserType
    BY <2>1 DEF Right
  <2>3. QED BY <1>7, <1>10, <2>1, <2>2
<1>11. QED BY <1>3, <1>8, <1>9, <1>10

-----------------------------------------------------------------------------
(* The invariant.                                                          *)

\* The program starts with no account at all.
LEMMA InitSound == Init => Sound
<1> SUFFICES ASSUME Init PROVE Sound
  OBVIOUS
<1>1. NewUser(FALSE) \in UserType /\ NewUser(FALSE).source = NoSource
      /\ NewUser(FALSE).url = Link("none", NoSource)
      /\ Flags(NewUser(FALSE)) \in [hidden : BOOLEAN, rights : SUBSET Rights]
  BY NewUserType
<1>2. TypeOK
  <2>1. Idle \in [phase : {"idle", "user", "known"},
                  who : DiscordIds \union {Nobody}, seen : Profile]
        /\ Idle.phase = "idle"
    BY DEF Idle, Stranger, Profile
  <2>2. users \subseteq Ids /\ linked \in [DiscordIds -> users \union {NoId}]
    BY DEF Init
  <2>3. user \in [Ids -> UserType] /\ users = {}
    BY <1>1 DEF Init
  <2>4. granted \in [Ids -> [hidden : BOOLEAN, rights : SUBSET Rights]]
    BY <1>1 DEF Init
  <2>5. cached \in [Ids -> Sources \union {NoSource}]
    BY DEF Init
  <2>6. /\ login \in [Logins -> [phase : {"idle", "user", "known"},
                               who : DiscordIds \union {Nobody}, seen : Profile]]
        /\ \A l \in Logins : login[l].phase # "idle" => login[l].who # Nobody
    <3>1. login = [l \in Logins |-> Idle]
      BY DEF Init
    <3>2. QED BY <2>1, <3>1
  <2>7. \A id \in users : user[id].url.kind # "none"
    BY <2>3
  <2>8. QED BY <2>2, <2>3, <2>4, <2>5, <2>6, <2>7 DEF TypeOK
<1>3. OneAccountEach /\ FlagsHold /\ Untouched
  BY DEF Init, OneAccountEach, FlagsHold, Untouched
<1>4. PictureMatches
  <2>1. \A id \in Ids : user[id] = NewUser(FALSE) /\ cached[id] = NoSource
    BY DEF Init
  <2>2. NewUser(FALSE).url.kind = "none"
    BY DEF NewUser, Link
  <2>3. QED BY <2>1, <2>2, <1>1 DEF PictureMatches
<1>5. QED BY <1>2, <1>3, <1>4 DEF Sound

\* A step that only moves logins on keeps what is stored.
LEMMA LoginsMove ==
  ASSUME Sound, UNCHANGED stored,
         login' \in [Logins -> [phase : {"idle", "user", "known"},
                               who : DiscordIds \union {Nobody}, seen : Profile]],
         \A l \in Logins : login'[l].phase # "idle" => login'[l].who # Nobody
  PROVE  Sound'
<1>1. TypeOK'
  BY DEF Sound, TypeOK, stored
<1>2. OneAccountEach' /\ PictureMatches' /\ FlagsHold' /\ Untouched'
  BY DEF Sound, OneAccountEach, PictureMatches, FlagsHold, Untouched, stored
<1>3. QED BY <1>1, <1>2 DEF Sound

\* What an administrator writes keeps the invariant.
LEMMA UpdateSound ==
  ASSUME Sound, NEW id \in Ids, Update(id)
  PROVE  Sound'
<1>1. id \in users
  BY DEF Update
<1>2. PICK unseen \in BOOLEAN, random \in BOOLEAN, rights \in SUBSET Rights,
           url \in {user[id].url, Link("typed", NoSource)} :
        user' = [user EXCEPT ![id] = [@ EXCEPT !.hidden = unseen, !.rights = rights,
                                               !.random = random, !.url = url]]
  BY DEF Update
<1> DEFINE w == [user[id] EXCEPT !.hidden = unseen, !.rights = rights,
                                 !.random = random, !.url = url]
<1>3. user[id] \in UserType
  BY <1>1 DEF Sound, TypeOK
<1>4. url \in LinkType /\ (url = user[id].url \/ url.kind = "typed")
  BY <1>3 DEF UserType, Link, LinkType, LinkKinds
<1>5. /\ w \in UserType /\ w.source = user[id].source /\ w.url = url
      /\ Flags(w) \in [hidden : BOOLEAN, rights : SUBSET Rights]
  BY <1>3, <1>4 DEF UserType, Flags
<1>6. /\ user' = [user EXCEPT ![id] = w]
      /\ user' \in [Ids -> UserType] /\ user'[id] = w
      /\ \A x \in Ids : x # id => user'[x] = user[x]
  BY <1>2, <1>5 DEF Sound, TypeOK
<1> HIDE DEF w
<1>7. granted' = [granted EXCEPT ![id] = Flags(w)]
  BY <1>6 DEF Update
<1>8. UNCHANGED <<linked, users, cached, login>>
  BY DEF Update
<1>9. w.url.kind # "none"
  BY <1>1, <1>4, <1>5 DEF Sound, TypeOK
<1>10. TypeOK'
  BY <1>5, <1>6, <1>7, <1>8, <1>9 DEF Sound, TypeOK
<1>11. OneAccountEach' /\ Untouched'
  BY <1>8 DEF Sound, OneAccountEach, Untouched
<1>12. PictureMatches'
  <2> SUFFICES ASSUME NEW x \in Ids
               PROVE  /\ cached'[x] = user'[x].source
                      /\ user'[x].url.kind = "cached" =>
                           user'[x].url.hash = cached'[x] /\ cached'[x] # NoSource
                      /\ user'[x].url.kind \in {"external", "none"} => cached'[x] = NoSource
    BY DEF PictureMatches
  <2>1. CASE x = id
    BY <2>1, <1>4, <1>5, <1>6, <1>8 DEF Sound, PictureMatches
  <2>2. CASE x # id
    BY <2>2, <1>6, <1>8 DEF Sound, PictureMatches
  <2>3. QED BY <2>1, <2>2
<1>13. FlagsHold'
  BY <1>6, <1>7, <1>8 DEF Sound, TypeOK, FlagsHold
<1>14. QED BY <1>10, <1>11, <1>12, <1>13 DEF Sound

\* A login's transaction keeps it.
LEMMA UpdateDBSound ==
  ASSUME Sound, NEW l \in Logins, UpdateDB(l)
  PROVE  Sound'
<1>1. PICK d \in DiscordIds, id \in Ids, w \in UserType, k \in Sources \union {NoSource},
           seen \in Profile :
        /\ Known(d) => id \in users /\ linked[d] = id
        /\ ~Known(d) => id \notin users /\ linked[d] = NoId
        /\ Right(w, k) /\ w.url.kind # "none"
        /\ Flags(w) = Flags(Account(d, id, seen))
        /\ user' = [user EXCEPT ![id] = w]
        /\ cached' = [cached EXCEPT ![id] = k]
        /\ linked' = [linked EXCEPT ![d] = id]
        /\ users' = users \union {id}
        /\ granted' = IF Known(d) THEN granted
                      ELSE [granted EXCEPT ![id] = Flags(NewUser(seen.member))]
  BY UpdateDBEffect
<1>2. /\ user' \in [Ids -> UserType] /\ user'[id] = w
      /\ \A x \in Ids : x # id => user'[x] = user[x]
  BY <1>1 DEF Sound, TypeOK
<1>3. /\ cached' \in [Ids -> Sources \union {NoSource}] /\ cached'[id] = k
      /\ \A x \in Ids : x # id => cached'[x] = cached[x]
  BY <1>1 DEF Sound, TypeOK
<1>4. /\ linked' \in [DiscordIds -> users' \union {NoId}] /\ linked'[d] = id
      /\ \A e \in DiscordIds : e # d => linked'[e] = linked[e]
  BY <1>1 DEF Sound, TypeOK
<1>5. /\ granted' \in [Ids -> [hidden : BOOLEAN, rights : SUBSET Rights]]
      /\ granted'[id] = IF Known(d) THEN granted[id] ELSE Flags(NewUser(seen.member))
      /\ \A x \in Ids : x # id => granted'[x] = granted[x]
  <2>1. seen.member \in BOOLEAN
    BY DEF Profile
  <2>2. Flags(NewUser(seen.member)) \in [hidden : BOOLEAN, rights : SUBSET Rights]
    BY <2>1, NewUserType
  <2>3. QED BY <1>1, <2>2 DEF Sound, TypeOK
<1>6. login' = [login EXCEPT ![l] = Idle]
  BY DEF UpdateDB
<1>7. TypeOK'
  <2>1. users' \subseteq Ids /\ \A x \in users' : user'[x].url.kind # "none"
    BY <1>1, <1>2 DEF Sound, TypeOK
  <2>2. /\ login' \in [Logins -> [phase : {"idle", "user", "known"},
                                  who : DiscordIds \union {Nobody}, seen : Profile]]
        /\ \A m \in Logins : login'[m].phase # "idle" => login'[m].who # Nobody
    BY <1>6 DEF Sound, TypeOK, Idle, Stranger, Profile
  <2>3. QED BY <1>2, <1>3, <1>4, <1>5, <2>1, <2>2 DEF TypeOK
<1>8. OneAccountEach'
  <2>1. ASSUME NEW x \in users' PROVE \E e \in DiscordIds : linked'[e] = x
    <3>1. CASE x = id
      BY <3>1, <1>4
    <3>2. CASE x # id
      <4>1. PICK e \in DiscordIds : linked[e] = x
        BY <3>2, <1>1 DEF Sound, OneAccountEach
      <4>2. e # d
        BY <3>2, <4>1, <1>1, <2>1 DEF Sound, TypeOK
      <4>3. QED BY <4>1, <4>2, <1>4
    <3>3. QED BY <3>1, <3>2
  <2>2. ASSUME NEW e \in DiscordIds, e # d PROVE linked'[e] # id
    <3>1. linked'[e] = linked[e]
      BY <2>2, <1>4
    <3>2. CASE Known(d)
      BY <3>1, <3>2, <2>2, <1>1 DEF Sound, OneAccountEach
    <3>3. CASE ~Known(d)
      BY <3>1, <3>3, <1>1 DEF Sound, TypeOK
    <3>4. QED BY <3>2, <3>3
  <2>3. ASSUME NEW e \in DiscordIds, NEW f \in DiscordIds,
               linked'[e] = linked'[f], linked'[e] # NoId
        PROVE  e = f
    <3>1. CASE e = d \/ f = d
      BY <3>1, <2>2, <2>3, <1>4
    <3>2. CASE e # d /\ f # d
      BY <3>2, <2>3, <1>4 DEF Sound, OneAccountEach
    <3>3. QED BY <3>1, <3>2
  <2>4. QED BY <2>1, <2>3 DEF OneAccountEach
<1>9. PictureMatches'
  <2> SUFFICES ASSUME NEW x \in Ids
               PROVE  /\ cached'[x] = user'[x].source
                      /\ user'[x].url.kind = "cached" =>
                           user'[x].url.hash = cached'[x] /\ cached'[x] # NoSource
                      /\ user'[x].url.kind \in {"external", "none"} => cached'[x] = NoSource
    BY DEF PictureMatches
  <2>1. CASE x = id
    BY <2>1, <1>1, <1>2, <1>3 DEF Right
  <2>2. CASE x # id
    BY <2>2, <1>2, <1>3 DEF Sound, PictureMatches
  <2>3. QED BY <2>1, <2>2
<1>10. FlagsHold'
  <2> SUFFICES ASSUME NEW x \in users' PROVE Flags(user'[x]) = granted'[x]
    BY DEF FlagsHold
  <2>1. CASE x = id
    <3>1. CASE Known(d)
      BY <2>1, <3>1, <1>1, <1>2, <1>5 DEF Sound, FlagsHold, Account
    <3>2. CASE ~Known(d)
      BY <2>1, <3>2, <1>1, <1>2, <1>5 DEF Account
    <3>3. QED BY <3>1, <3>2
  <2>2. CASE x # id
    BY <2>2, <1>1, <1>2, <1>5 DEF Sound, TypeOK, FlagsHold
  <2>3. QED BY <2>1, <2>2
<1>11. Untouched'
  BY <1>1, <1>3 DEF Sound, Untouched
<1>12. QED BY <1>7, <1>8, <1>9, <1>10, <1>11 DEF Sound

\* So does every step.
LEMMA StepSound ==
  ASSUME Sound, [Next]_vars
  PROVE  Sound'
<1>1. ASSUME NEW id \in Ids, Update(id) PROVE Sound'
  BY <1>1, UpdateSound
<1>2. ASSUME NEW l \in Logins, NEW d \in DiscordIds, AskGuild(l, d) PROVE Sound'
  <2>1. PICK seen \in Profile :
          login' = [login EXCEPT ![l] =
            [phase |-> IF seen.member THEN "known" ELSE "user", who |-> d,
             seen |-> IF seen.member THEN seen ELSE Stranger]]
    BY <1>2 DEF AskGuild
  <2>2. Stranger \in Profile
    BY DEF Stranger, Profile
  <2>3. UNCHANGED stored
    BY <1>2 DEF AskGuild
  <2>4. QED BY <2>1, <2>2, <2>3, LoginsMove DEF Sound, TypeOK
<1>3. ASSUME NEW l \in Logins, AskUser(l) PROVE Sound'
  <2>1. PICK seen \in Profile :
          login' = [login EXCEPT ![l].phase = "known", ![l].seen = seen]
    BY <1>3 DEF AskUser
  <2>2. UNCHANGED stored /\ login[l].phase = "user"
    BY <1>3 DEF AskUser
  <2>3. QED BY <2>1, <2>2, LoginsMove DEF Sound, TypeOK
<1>4. ASSUME NEW l \in Logins, Fail(l) PROVE Sound'
  <2>1. UNCHANGED stored /\ login' = [login EXCEPT ![l] = Idle]
    BY <1>4 DEF Fail
  <2>2. Idle \in [phase : {"idle", "user", "known"},
                  who : DiscordIds \union {Nobody}, seen : Profile]
        /\ Idle.phase = "idle"
    BY DEF Idle, Stranger, Profile
  <2>3. QED BY <2>1, <2>2, LoginsMove DEF Sound, TypeOK
<1>5. ASSUME NEW l \in Logins, UpdateDB(l) PROVE Sound'
  BY <1>5, UpdateDBSound
<1>6. CASE UNCHANGED vars
  BY <1>6, LoginsMove DEF vars, Sound, TypeOK
<1>7. QED BY <1>1, <1>2, <1>3, <1>4, <1>5, <1>6 DEF Next

\* The invariant holds in every reachable state.
LEMMA AlwaysSound == Spec => []Sound
<1>1. QED BY InitSound, StepSound, PTL DEF Spec

-----------------------------------------------------------------------------
(* The theorems.                                                           *)

\* Every variable of Accounts keeps its type (discord.go:373-460).
THEOREM TypeCorrect == Spec => []TypeOK
<1>1. Sound => TypeOK
  BY DEF Sound
<1>2. QED BY <1>1, AlwaysSound, PTL

\* For any number of people and overlapping logins: one account each
\* (discord.go:385-403).
THEOREM AlwaysOneAccount == Spec => []OneAccountEach
<1>1. Sound => OneAccountEach
  BY DEF Sound
<1>2. QED BY <1>1, AlwaysSound, PTL

\* Whatever downloads fail, record, link and kept picture agree
\* (discord.go:405-448).
THEOREM PicturesAlwaysMatch == Spec => []PictureMatches
<1>1. Sound => PictureMatches
  BY DEF Sound
<1>2. QED BY <1>1, AlwaysSound, PTL

\* No login takes back what an administrator said of an account
\* (discord.go:390-403, api.go:154-179).
THEOREM FlagsAlwaysHold == Spec => []FlagsHold
<1>1. Sound => FlagsHold
  BY DEF Sound
<1>2. QED BY <1>1, AlwaysSound, PTL

=============================================================================
