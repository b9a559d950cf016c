---------------------------- MODULE LoginProofs ----------------------------
(***************************************************************************)
(* Proofs about logging in.  The heart is that a token travels from        *)
(* updateDB through one request to one session and is never in two places  *)
(* at once, and that copies of it, however old, name the same user.        *)
(***************************************************************************)
EXTENDS Login, TLAPS

USE NamesAssumption

SessionType(tokens) ==
  [state : States \union {NoState}, user : Users \union {NoUser},
   token : tokens \union {NoToken}]

RequestType(tokens) ==
  [phase : Phases, kind : Kinds, session : SessionIds \union {NoSession},
   user : Users \union {NoUser}, token : tokens \union {NoToken},
   state : States \union {NoState}, who : Users \union {NoUser}]

Bookkeeping ==
  /\ token \in [Users -> issued \union AdminTokens \union {NoToken}]
  /\ live \subseteq SessionIds
  /\ origin \in [States -> SessionIds \union {NoSession}]
  /\ spent \subseteq States
  /\ issued \subseteq Tokens

Records ==
  /\ sess \in [SessionIds -> SessionType(issued)]
  /\ \A s \in SessionIds : sess[s].user = NoUser <=> sess[s].token = NoToken
  /\ req \in [Requests -> RequestType(issued)]

\* What a request knows in the phases that matter later.
PhasesHonest ==
  \A r \in Requests :
    LET q == req[r]
    IN /\ q.user = NoUser <=> q.token = NoToken
       /\ q.phase # "idle" => q.session \in SessionIds
       /\ q.phase = "mismatch" => q.user \in Users /\ token[q.user] # q.token
       /\ q.phase = "exchange" => q.who \in Users
       /\ q.phase = "save" => q.user \in Users

\* A token in a session is in no other one, nor on its way to one.
TokensInOnePlace ==
  /\ \A s1, s2 \in SessionIds :
       sess[s1].token = sess[s2].token /\ sess[s1].token # NoToken => s1 = s2
  /\ \A r \in Requests, s \in SessionIds :
       req[r].phase = "save" => sess[s].token # req[r].token
  /\ \A r1, r2 \in Requests :
       req[r1].phase = "save" /\ req[r2].phase = "save" /\ req[r1].token = req[r2].token
         => r1 = r2

\* Copies of a token name the same user.
TokensNameUsers ==
  /\ \A r \in Requests, s \in SessionIds :
       sess[s].token = req[r].token => sess[s].user = req[r].user
  /\ \A r1, r2 \in Requests :
       req[r1].token = req[r2].token => req[r1].user = req[r2].user

\* The state a session waits for is its own and fresh.
StatesFresh ==
  /\ \A s \in SessionIds :
       sess[s].state # NoState => origin[sess[s].state] = s /\ sess[s].state \notin spent
  /\ \A st \in spent : origin[st] # NoSession

Sound ==
  /\ Bookkeeping /\ Records /\ PhasesHonest
  /\ TokensInOnePlace /\ TokensNameUsers /\ StatesFresh

USE DEF Stored, Update, Data, Done, Turn, history

-----------------------------------------------------------------------------
(* Every step keeps the invariant.                                         *)

\* Records before and after one of their fields is set.
LEMMA RecordFacts ==
  ASSUME Records
  PROVE  /\ \A s \in SessionIds : /\ sess[s] \in SessionType(issued)
                                  /\ sess[s].state \in States \union {NoState}
                                  /\ sess[s].user \in Users \union {NoUser}
                                  /\ sess[s].token \in issued \union {NoToken}
         /\ \A r \in Requests : /\ req[r] \in RequestType(issued)
                                /\ req[r].phase \in Phases
                                /\ req[r].session \in SessionIds \union {NoSession}
                                /\ req[r].user \in Users \union {NoUser}
                                /\ req[r].token \in issued \union {NoToken}
                                /\ req[r].state \in States \union {NoState}
                                /\ req[r].who \in Users \union {NoUser}
BY DEF Records, SessionType, RequestType

\* A free request slot and an unused session are well typed.
LEMMA IdleType == Idle \in RequestType({}) /\ Nobody \in SessionType({})
BY DEF Idle, Nobody, RequestType, SessionType, Phases, Kinds

\* A record stays well typed when more states have been used.
LEMMA TypesGrow ==
  ASSUME NEW I, NEW J, I \subseteq J
  PROVE  SessionType(I) \subseteq SessionType(J) /\ RequestType(I) \subseteq RequestType(J)
BY DEF SessionType, RequestType

\* The initial state satisfies the inductive invariant.
LEMMA InitSound == Init => Sound
<1> SUFFICES ASSUME Init PROVE Sound
  OBVIOUS
<1>1. Idle \in RequestType(issued) /\ Nobody \in SessionType(issued)
  BY IdleType, TypesGrow
<1>2. Records
  BY <1>1 DEF Init, Records, Nobody
<1>3. Bookkeeping /\ StatesFresh
  BY DEF Init, Bookkeeping, StatesFresh, Nobody
<1>4. PhasesHonest /\ TokensInOnePlace /\ TokensNameUsers
  BY DEF Init, PhasesHonest, TokensInOnePlace, TokensNameUsers, Nobody, Idle
<1>5. QED BY <1>2, <1>3, <1>4 DEF Sound

\* A step that only ends requests, or moves them to a phase that promises
\* nothing about the token, keeps the invariant.
LEMMA RequestEnds ==
  ASSUME Sound, NEW r \in Requests,
         UNCHANGED <<token, live, sess, origin, spent, issued>>,
         \/ Done(r)
         \/ \E phase \in {"in", "out"} : req[r].phase # "idle" /\ Turn(r, phase)
         \/ /\ req[r].phase # "idle" /\ req[r].user \in Users
            /\ token[req[r].user] # req[r].token /\ Turn(r, "mismatch")
         \/ req[r].phase # "idle" /\ req[r].who \in Users /\ Turn(r, "exchange")
  PROVE  Sound'
<1>1. req \in [Requests -> RequestType(issued)]
  BY DEF Sound, Records
<1>2. /\ \A x \in Requests \ {r} : req'[x] = req[x]
      /\ \/ req'[r] = Idle
         \/ /\ req'[r].phase \in {"in", "out", "mismatch", "exchange"}
            /\ req[r].phase # "idle"
            /\ req'[r].session = req[r].session /\ req'[r].who = req[r].who
            /\ req'[r].user = req[r].user /\ req'[r].token = req[r].token
            /\ req'[r].phase = "mismatch" =>
                 req[r].user \in Users /\ token[req[r].user] # req[r].token
            /\ req'[r].phase = "exchange" => req[r].who \in Users
  BY <1>1 DEF RequestType
<1>3. req' \in [Requests -> RequestType(issued)]
  <2>1. Idle \in RequestType(issued)
    BY IdleType, TypesGrow
  <2>2. \A phase \in Phases : [req[r] EXCEPT !.phase = phase] \in RequestType(issued)
    BY <1>1 DEF RequestType
  <2>3. QED BY <1>1, <2>1, <2>2 DEF Phases
<1>4. Bookkeeping' /\ StatesFresh' /\ Records'
  BY <1>3 DEF Sound, Bookkeeping, StatesFresh, Records
<1>5. PhasesHonest'
  BY <1>2 DEF Sound, PhasesHonest, Idle
<1>6. TokensInOnePlace'
  BY <1>2 DEF Sound, TokensInOnePlace, Idle
<1>7. TokensNameUsers'
  <2>1. \A s \in SessionIds : sess[s].user = NoUser <=> sess[s].token = NoToken
    BY DEF Sound, Records
  <2>2. \A x \in Requests : req[x].user = NoUser <=> req[x].token = NoToken
    BY DEF Sound, PhasesHonest
  <2>3. Idle.user = NoUser /\ Idle.token = NoToken
    BY DEF Idle
  <2>4. QED BY <1>2, <2>1, <2>2, <2>3 DEF Sound, TokensNameUsers
<1>8. QED BY <1>4, <1>5, <1>6, <1>7 DEF Sound

\* Sessions that come and go and the administrator keep the invariant.
LEMMA EnvironmentSound ==
  ASSUME Sound,
         \/ \E s \in SessionIds : Appear(s) \/ Vanish(s)
         \/ \E u \in Users, t \in AdminTokens : SetToken(u, t)
  PROVE  Sound'
<1>1. ASSUME NEW s \in SessionIds, Vanish(s) PROVE Sound'
  BY <1>1 DEF Vanish, Sound, Bookkeeping, Records, PhasesHonest, TokensInOnePlace,
              TokensNameUsers, StatesFresh
<1>2. ASSUME NEW s \in SessionIds, Appear(s) PROVE Sound'
  <2>1. sess \in [SessionIds -> SessionType(issued)] /\ Nobody \in SessionType(issued)
    BY IdleType, TypesGrow DEF Sound, Records
  <2>2. /\ sess' \in [SessionIds -> SessionType(issued)]
        /\ sess'[s] = Nobody /\ \A x \in SessionIds \ {s} : sess'[x] = sess[x]
        /\ UNCHANGED <<token, req, origin, spent, issued>>
        /\ live' \subseteq SessionIds
    BY <1>2, <2>1 DEF Appear, Sound, Bookkeeping
  <2>3. Bookkeeping' /\ Records' /\ PhasesHonest' /\ StatesFresh'
    BY <2>2 DEF Sound, Bookkeeping, Records, PhasesHonest, StatesFresh, Nobody
  <2>4. \A r \in Requests : req[r].user = NoUser <=> req[r].token = NoToken
    BY DEF Sound, PhasesHonest
  <2>5. \A r \in Requests : req[r].phase = "save" => req[r].token # NoToken
    BY DEF Sound, PhasesHonest
  <2>6. TokensInOnePlace'
    BY <2>2, <2>5 DEF Sound, TokensInOnePlace, Nobody
  <2>7. TokensNameUsers'
    BY <2>2, <2>4 DEF Sound, TokensNameUsers, Nobody
  <2>8. QED BY <2>3, <2>6, <2>7 DEF Sound
<1>3. ASSUME NEW u \in Users, NEW t \in AdminTokens, SetToken(u, t) PROVE Sound'
  <2>1. token' = [token EXCEPT ![u] = t] /\ UNCHANGED <<live, sess, req, origin, spent, issued>>
    BY <1>3 DEF SetToken
  <2>2. Bookkeeping' /\ Records' /\ TokensInOnePlace' /\ TokensNameUsers' /\ StatesFresh'
    BY <2>1 DEF Sound, Bookkeeping, Records, TokensInOnePlace, TokensNameUsers, StatesFresh
  <2>3. \A r \in Requests : req[r].token # t
    BY RecordFacts, RandomAssumption DEF Sound, Bookkeeping
  <2>4. PhasesHonest'
    BY <2>1, <2>3 DEF Sound, PhasesHonest, Bookkeeping
  <2>5. QED BY <2>2, <2>4 DEF Sound
<1>4. QED BY <1>1, <1>2, <1>3

\* A request that starts refers to an existing session and nothing else.
LEMMA BeginSound ==
  ASSUME Sound, NEW r \in Requests, NEW s \in SessionIds, NEW kind \in Kinds,
         NEW st \in States \union {NoState}, NEW who \in Users \union {NoUser},
         Begin(r, s, kind, st, who)
  PROVE  Sound'
<1> DEFINE new == [phase |-> "begun", kind |-> kind, session |-> s,
                   user |-> sess[s].user, token |-> sess[s].token,
                   state |-> st, who |-> who]
<1>1. req \in [Requests -> RequestType(issued)]
  BY DEF Sound, Records
<1>2. new \in RequestType(issued)
  BY RecordFacts DEF Sound, RequestType, Phases
<1>3. req' = [req EXCEPT ![r] = new] /\ UNCHANGED <<token, live, sess, origin, spent, issued>>
  BY DEF Begin
<1>4. /\ new.phase = "begun" /\ new.session = s
      /\ new.user = sess[s].user /\ new.token = sess[s].token
  OBVIOUS
<1> HIDE DEF new
<1>5. req'[r] = new /\ \A x \in Requests \ {r} : req'[x] = req[x]
  BY <1>1, <1>3
<1>6. Bookkeeping' /\ StatesFresh' /\ Records'
  BY <1>1, <1>2, <1>3 DEF Sound, Bookkeeping, StatesFresh, Records
<1>7. PhasesHonest'
  BY <1>3, <1>4, <1>5 DEF Sound, PhasesHonest, Records
<1>8. TokensInOnePlace'
  BY <1>3, <1>4, <1>5 DEF Sound, TokensInOnePlace
<1>9. TokensNameUsers'
  <2>1. \A s1, s2 \in SessionIds : sess[s1].token = sess[s2].token => sess[s1].user = sess[s2].user
    BY DEF Sound, TokensInOnePlace, Records
  <2>2. QED BY <1>3, <1>4, <1>5, <2>1 DEF Sound, TokensNameUsers
<1>10. QED BY <1>6, <1>7, <1>8, <1>9 DEF Sound

\* Taking the user out of a session, in Forget and in LogOut, loses a token.
LEMMA ClearedSound ==
  ASSUME Sound, NEW r \in Requests,
         Forget(r) \/ LogOut(r)
  PROVE  Sound'
<1> DEFINE s == req[r].session
<1>1. s \in SessionIds
  BY DEF Sound, Forget, LogOut, Bookkeeping
<1>2. sess \in [SessionIds -> SessionType(issued)]
  BY DEF Sound, Records
<1>3. sess' = [sess EXCEPT ![s] = [sess[s] EXCEPT !.user = NoUser, !.token = NoToken]]
  BY DEF Forget, LogOut
<1> HIDE DEF s
<1>4. [sess[s] EXCEPT !.user = NoUser, !.token = NoToken] \in SessionType(issued)
  BY <1>1, <1>2 DEF SessionType
<1>5. /\ sess' \in [SessionIds -> SessionType(issued)]
      /\ sess'[s].user = NoUser /\ sess'[s].token = NoToken
      /\ sess'[s].state = sess[s].state
      /\ \A x \in SessionIds \ {s} : sess'[x] = sess[x]
  BY <1>1, <1>2, <1>3, <1>4 DEF SessionType
<1>6. req \in [Requests -> RequestType(issued)]
  BY DEF Sound, Records
<1>7. /\ UNCHANGED <<token, live, origin, spent, issued>>
      /\ \A x \in Requests \ {r} : req'[x] = req[x]
      /\ \/ req'[r] = Idle
         \/ /\ req'[r].phase = "out" /\ req'[r].session = req[r].session
            /\ req[r].phase # "idle"
            /\ req'[r].user = req[r].user /\ req'[r].token = req[r].token
  BY <1>6 DEF Forget, LogOut, RequestType
<1>8. req' \in [Requests -> RequestType(issued)]
  <2>1. Idle \in RequestType(issued)
    BY IdleType, TypesGrow
  <2>2. [req[r] EXCEPT !.phase = "out"] \in RequestType(issued)
    BY <1>6 DEF RequestType, Phases
  <2>3. QED BY <1>6, <2>1, <2>2 DEF Forget, LogOut
<1>9. Bookkeeping' /\ Records' /\ StatesFresh'
  BY <1>1, <1>5, <1>7, <1>8 DEF Sound, Bookkeeping, Records, StatesFresh
<1>10. PhasesHonest'
  BY <1>7 DEF Sound, PhasesHonest, Idle
<1>11. \A x \in Requests : req[x].phase = "save" => req[x].token # NoToken
  BY DEF Sound, PhasesHonest
<1>12. TokensInOnePlace'
  BY <1>1, <1>5, <1>7, <1>11 DEF Sound, TokensInOnePlace, Idle
<1>13. TokensNameUsers'
  <2>1. \A x \in Requests : req'[x].user = NoUser <=> req'[x].token = NoToken
    BY <1>10 DEF PhasesHonest
  <2>2. \A x \in SessionIds : sess[x].user = NoUser <=> sess[x].token = NoToken
    BY DEF Sound, Records
  <2>3. Idle.user = NoUser /\ Idle.token = NoToken
    BY DEF Idle
  <2>4. \A x \in Requests : req'[x].token # NoToken =>
          req'[x].token = req[x].token /\ req'[x].user = req[x].user
    BY <1>7, <2>3
  <2>5. \A x \in SessionIds : sess'[x].token # NoToken =>
          sess'[x].token = sess[x].token /\ sess'[x].user = sess[x].user
    BY <1>5
  <2>6. \A x \in SessionIds : sess'[x].user = NoUser <=> sess'[x].token = NoToken
    BY <1>9 DEF Records
  <2>7. QED BY <2>1, <2>4, <2>5, <2>6 DEF Sound, TokensNameUsers
<1>14. QED BY <1>9, <1>10, <1>12, <1>13 DEF Sound

\* Setting or taking the state of a session, in AskDiscord and in TakeState.
LEMMA StateSound ==
  ASSUME Sound, NEW r \in Requests, AskDiscord(r) \/ TakeState(r)
  PROVE  Sound'
<1> DEFINE s == req[r].session
<1>1. s \in SessionIds
  BY DEF Sound, AskDiscord, TakeState, Bookkeeping
<1>2. /\ sess \in [SessionIds -> SessionType(issued)]
      /\ req \in [Requests -> RequestType(issued)]
      /\ origin \in [States -> SessionIds \union {NoSession}]
  BY DEF Sound, Records, Bookkeeping
<1>3. PICK st \in States \union {NoState} :
        /\ sess' = [sess EXCEPT ![s] = [sess[s] EXCEPT !.state = st]]
        /\ \/ /\ st \in States /\ origin[st] = NoSession
              /\ origin' = [origin EXCEPT ![st] = s] /\ spent' = spent
           \/ /\ st = NoState /\ origin' = origin /\ sess[s].state \in States
              /\ spent' = spent \union {sess[s].state}
  <2>1. CASE AskDiscord(r)
    BY <2>1 DEF AskDiscord
  <2>2. CASE TakeState(r)
    <3>1. sess[s].state \in States
      BY <1>1, <1>2, <2>2 DEF TakeState, SessionType
    <3>2. QED BY <2>2, <3>1 DEF TakeState
  <2>3. QED BY <2>1, <2>2
<1>4. UNCHANGED <<token, live, issued>>
  BY DEF AskDiscord, TakeState
<1>5. /\ \A x \in Requests \ {r} : req'[x] = req[x]
      /\ \/ req'[r] = Idle
         \/ /\ req'[r].phase = "exchange" /\ req'[r].session = req[r].session
            /\ req[r].phase # "idle" /\ req[r].who \in Users
            /\ req'[r].user = req[r].user /\ req'[r].token = req[r].token
            /\ req'[r].who = req[r].who
      /\ req' \in [Requests -> RequestType(issued)]
  <2>1. Idle \in RequestType(issued)
    BY IdleType, TypesGrow
  <2>2. [req[r] EXCEPT !.phase = "exchange"] \in RequestType(issued)
    BY <1>2 DEF RequestType, Phases
  <2>3. \/ Done(r)
        \/ Turn(r, "exchange") /\ req[r].phase = "out" /\ req[r].who # NoUser
    BY DEF AskDiscord, TakeState
  <2>4. req[r].who \in Users \union {NoUser}
    BY RecordFacts DEF Sound
  <2>5. CASE Done(r)
    BY <1>2, <2>1, <2>5
  <2>6. CASE Turn(r, "exchange") /\ req[r].phase = "out" /\ req[r].who # NoUser
    BY <1>2, <2>2, <2>4, <2>6 DEF RequestType
  <2>7. QED BY <2>3, <2>5, <2>6
<1> HIDE DEF s
<1>6. [sess[s] EXCEPT !.state = st] \in SessionType(issued)
  BY <1>1, <1>2 DEF SessionType
<1>7. /\ sess' \in [SessionIds -> SessionType(issued)]
      /\ sess'[s].user = sess[s].user /\ sess'[s].token = sess[s].token
      /\ sess'[s].state = st
      /\ \A x \in SessionIds \ {s} : sess'[x] = sess[x]
  BY <1>1, <1>2, <1>3, <1>6 DEF SessionType
<1>8. Bookkeeping' /\ Records'
  BY <1>1, <1>2, <1>3, <1>4, <1>5, <1>7 DEF Sound, Bookkeeping, Records
<1>9. StatesFresh'
  <2>1. CASE /\ st \in States /\ origin[st] = NoSession
             /\ origin' = [origin EXCEPT ![st] = s] /\ spent' = spent
    <3>1. origin'[st] = s /\ \A x \in States \ {st} : origin'[x] = origin[x]
      BY <1>2, <2>1
    <3>2. st \notin spent
      BY <2>1 DEF Sound, StatesFresh
    <3>3. \A x \in SessionIds : sess[x].state \in States \union {NoState}
      BY <1>2 DEF SessionType
    <3>4. \A x \in SessionIds : sess[x].state # st
      BY <1>2, <2>1 DEF Sound, StatesFresh
    <3>5. \A x \in SessionIds : sess'[x].state # NoState =>
            origin'[sess'[x].state] = x /\ sess'[x].state \notin spent
      BY <1>1, <1>7, <3>1, <3>2, <3>3, <3>4 DEF Sound, StatesFresh
    <3>6. \A x \in spent : origin'[x] # NoSession
      BY <1>1, <3>1 DEF Sound, StatesFresh, Bookkeeping
    <3>7. QED BY <2>1, <3>5, <3>6 DEF StatesFresh
  <2>2. CASE /\ st = NoState /\ origin' = origin /\ sess[s].state \in States
             /\ spent' = spent \union {sess[s].state}
    <3>1. origin[sess[s].state] = s
      BY <1>1, <2>2 DEF Sound, StatesFresh
    <3>2. QED BY <1>1, <1>7, <2>2, <3>1 DEF Sound, StatesFresh
  <2>3. QED BY <1>3, <2>1, <2>2
<1>10. PhasesHonest'
  BY <1>4, <1>5 DEF Sound, PhasesHonest, Idle
<1>11. \A x \in SessionIds : sess'[x].user = sess[x].user /\ sess'[x].token = sess[x].token
  BY <1>7
<1>12. TokensInOnePlace'
  BY <1>5, <1>11 DEF Sound, TokensInOnePlace, Idle
<1>13. TokensNameUsers'
  <2>1. \A x \in Requests : req[x].user = NoUser <=> req[x].token = NoToken
    BY DEF Sound, PhasesHonest
  <2>2. \A x \in SessionIds : sess[x].user = NoUser <=> sess[x].token = NoToken
    BY DEF Sound, Records
  <2>3. Idle.user = NoUser /\ Idle.token = NoToken
    BY DEF Idle
  <2>4. QED BY <1>5, <1>11, <2>1, <2>2, <2>3 DEF Sound, TokensNameUsers
<1>14. QED BY <1>8, <1>9, <1>10, <1>12, <1>13 DEF Sound

\* A new token is in one place only: the request that made it.
LEMMA UpdateDBSound ==
  ASSUME Sound, NEW r \in Requests, UpdateDB(r)
  PROVE  Sound'
<1> DEFINE u == req[r].who
<1>1. PICK t \in Tokens \ issued :
        /\ issued' = issued \union {t}
        /\ token' = [token EXCEPT ![u] = t]
        /\ req' = [req EXCEPT ![r] = [req[r] EXCEPT !.phase = "save", !.user = u, !.token = t]]
  BY DEF UpdateDB
<1>2. UNCHANGED <<live, sess, origin, spent>> /\ req[r].phase = "exchange"
  BY DEF UpdateDB
<1>3. u \in Users /\ req[r].session \in SessionIds
  BY <1>2 DEF Sound, PhasesHonest
<1>4. req \in [Requests -> RequestType(issued)]
  BY DEF Sound, Records
<1>5. /\ issued \subseteq issued'
      /\ SessionType(issued) \subseteq SessionType(issued')
      /\ RequestType(issued) \subseteq RequestType(issued')
  BY <1>1, TypesGrow
<1> HIDE DEF u
<1>6. [req[r] EXCEPT !.phase = "save", !.user = u, !.token = t] \in RequestType(issued')
  BY <1>1, <1>3, <1>4 DEF RequestType, Phases
<1>7. /\ req' \in [Requests -> RequestType(issued')]
      /\ \A x \in Requests \ {r} : req'[x] = req[x]
      /\ req'[r].phase = "save" /\ req'[r].user = u /\ req'[r].token = t
      /\ req'[r].session = req[r].session
  BY <1>1, <1>4, <1>5, <1>6 DEF RequestType
<1>8. Bookkeeping' /\ StatesFresh'
  BY <1>1, <1>2, <1>3 DEF Sound, Bookkeeping, StatesFresh
<1>9. Records'
  BY <1>2, <1>5, <1>7 DEF Sound, Records
<1>10. /\ t # NoToken
       /\ \A s \in SessionIds : sess[s].token # t
       /\ \A x \in Requests : req[x].token # t
  BY RecordFacts DEF Sound
<1>11. PhasesHonest'
  <2>1. \A x \in Users : token'[x] = IF x = u THEN t ELSE token[x]
    BY <1>1 DEF Sound, Bookkeeping
  <2>2. QED BY <1>3, <1>7, <1>10, <2>1 DEF Sound, PhasesHonest
<1>12. TokensInOnePlace'
  BY <1>2, <1>7, <1>10 DEF Sound, TokensInOnePlace
<1>13. TokensNameUsers'
  BY <1>2, <1>7, <1>10 DEF Sound, TokensNameUsers
<1>14. QED BY <1>8, <1>9, <1>11, <1>12, <1>13 DEF Sound

\* The token moves from the request into its session.
LEMMA SaveUserSound ==
  ASSUME Sound, NEW r \in Requests, SaveUser(r)
  PROVE  Sound'
<1> DEFINE s == req[r].session
<1>1. s \in SessionIds /\ req[r].phase = "save"
  BY DEF Sound, SaveUser, Bookkeeping
<1>2. sess \in [SessionIds -> SessionType(issued)] /\ req \in [Requests -> RequestType(issued)]
  BY DEF Sound, Records
<1>3. /\ sess' = [sess EXCEPT ![s] = [sess[s] EXCEPT !.user = req[r].user, !.token = req[r].token]]
      /\ req' = [req EXCEPT ![r] = Idle]
      /\ UNCHANGED <<token, live, origin, spent, issued>>
  BY DEF SaveUser
<1> HIDE DEF s
<1>4. [sess[s] EXCEPT !.user = req[r].user, !.token = req[r].token] \in SessionType(issued)
  BY <1>1, <1>2, RecordFacts DEF Sound, SessionType
<1>5. /\ sess' \in [SessionIds -> SessionType(issued)]
      /\ sess'[s].user = req[r].user /\ sess'[s].token = req[r].token
      /\ sess'[s].state = sess[s].state
      /\ \A x \in SessionIds \ {s} : sess'[x] = sess[x]
  BY <1>1, <1>2, <1>3, <1>4 DEF SessionType
<1>6. /\ req' \in [Requests -> RequestType(issued)]
      /\ req'[r] = Idle /\ \A x \in Requests \ {r} : req'[x] = req[x]
  BY <1>2, <1>3, IdleType, TypesGrow
<1>7. req[r].user = NoUser <=> req[r].token = NoToken
  BY DEF Sound, PhasesHonest
<1>8. Bookkeeping' /\ Records' /\ StatesFresh'
  BY <1>1, <1>3, <1>5, <1>6, <1>7 DEF Sound, Bookkeeping, Records, StatesFresh
<1>9. PhasesHonest'
  BY <1>3, <1>6 DEF Sound, PhasesHonest, Idle
<1>10. TokensInOnePlace'
  <2>1. \A s1, s2 \in SessionIds :
          sess'[s1].token = sess'[s2].token /\ sess'[s1].token # NoToken => s1 = s2
    BY <1>1, <1>5 DEF Sound, TokensInOnePlace
  <2>2. \A x \in Requests, y \in SessionIds :
          req'[x].phase = "save" => sess'[y].token # req'[x].token
    BY <1>1, <1>5, <1>6 DEF Sound, TokensInOnePlace, Idle
  <2>3. \A x, y \in Requests :
          req'[x].phase = "save" /\ req'[y].phase = "save" /\ req'[x].token = req'[y].token
            => x = y
    BY <1>6 DEF Sound, TokensInOnePlace, Idle
  <2>4. QED BY <2>1, <2>2, <2>3 DEF TokensInOnePlace
<1>11. TokensNameUsers'
  <2>1. \A x \in Requests : req'[x].user = NoUser <=> req'[x].token = NoToken
    BY <1>9 DEF PhasesHonest
  <2>2. \A x \in SessionIds : sess'[x].user = NoUser <=> sess'[x].token = NoToken
    BY <1>8 DEF Records
  <2>3. \A x \in Requests : req'[x].token # NoToken =>
          req'[x].token = req[x].token /\ req'[x].user = req[x].user
    BY <1>6 DEF Idle
  <2>4. QED BY <1>5, <2>1, <2>2, <2>3 DEF Sound, TokensNameUsers
<1>12. QED BY <1>8, <1>9, <1>10, <1>11 DEF Sound

\* Every step preserves the inductive invariant.
LEMMA NextSound == Sound /\ [Next]_vars => Sound'
<1> SUFFICES ASSUME Sound, [Next]_vars PROVE Sound'
  OBVIOUS
<1>1. ASSUME NEW r \in Requests, Identify(r) PROVE Sound'
  <2>1. req[r].user \in Users \union {NoUser}
    BY RecordFacts DEF Sound
  <2>2. QED BY <1>1, <2>1, RequestEnds DEF Identify, Matches
<1>2. ASSUME NEW r \in Requests, Nothing(r) \/ ExchangeFails(r) PROVE Sound'
  BY <1>2, RequestEnds DEF Nothing, ExchangeFails
<1>3. CASE UNCHANGED vars
  BY <1>3 DEF vars, Sound, Bookkeeping, Records, PhasesHonest, TokensInOnePlace,
              TokensNameUsers, StatesFresh
<1>4. QED
  BY <1>1, <1>2, <1>3, EnvironmentSound, BeginSound, ClearedSound, StateSound,
     UpdateDBSound, SaveUserSound DEF Next

\* The inductive invariant holds in every reachable state.
LEMMA AlwaysSound == Spec => []Sound
BY InitSound, NextSound, PTL DEF Spec

\* The variables are well typed in every reachable state.
THEOREM TypeCorrect == Spec => []TypeOK
<1>1. Sound => TypeOK
  BY DEF Sound, Bookkeeping, Records, TypeOK, SessionType, RequestType
<1>2. QED BY <1>1, AlwaysSound, PTL

\* However logins overlap and fail, a user is logged in on one session at most.
THEOREM OnlyOneLogin == Spec => []OneLoginAtATime
<1>1. Sound => OneLoginAtATime
  <2>1. Sound => \A s \in SessionIds : sess[s].user = NoUser <=> sess[s].token = NoToken
    BY DEF Sound, Records
  <2>2. QED BY <2>1 DEF Sound, TokensInOnePlace, OneLoginAtATime, LoggedIn
<1>2. QED BY <1>1, AlwaysSound, PTL

\* A login goes through only with the state its own session was given last, and
\* each state serves for one login at most.
THEOREM LoginsAlwaysAskedFor == Spec => LoginsAskedFor
<1> DEFINE Asked(r) ==
      /\ origin[req[r].state] = req[r].session
      /\ sess[req[r].session].state = req[r].state
      /\ req[r].state \notin spent
      /\ sess'[req[r].session].state = NoState
<1>1. ASSUME Sound, [Next]_vars, NEW r \in Requests,
             req[r].phase # "exchange", req'[r].phase = "exchange"
      PROVE  Asked(r)
  <2>1. req \in [Requests -> RequestType(issued)] /\ sess \in [SessionIds -> SessionType(issued)]
    BY <1>1 DEF Sound, Records
  <2>2. TakeState(r)
    <3>2. PICK x \in Requests :
             \/ \E s \in SessionIds, kind \in Kinds,
                    st \in States \union {NoState}, who \in Users \union {NoUser} :
                    Begin(x, s, kind, st, who)
             \/ Identify(x) \/ Forget(x) \/ Nothing(x)
             \/ AskDiscord(x) \/ TakeState(x)
             \/ ExchangeFails(x) \/ UpdateDB(x) \/ SaveUser(x)
             \/ LogOut(x)
      BY <1>1 DEF Next, vars, Appear, Vanish, SetToken
    <3>3. \E q : req' = [req EXCEPT ![x] = q]
      BY <3>2 DEF Begin, Identify, Forget, Nothing, AskDiscord, TakeState, ExchangeFails,
                  UpdateDB, SaveUser, LogOut
    <3>4. x = r
      BY <1>1, <2>1, <3>3
    <3>5. ~\E s \in SessionIds, kind \in Kinds,
             st \in States \union {NoState}, who \in Users \union {NoUser} :
             Begin(r, s, kind, st, who)
      BY <1>1, <2>1 DEF Begin
    <3>6. ~Identify(r) /\ ~Forget(r) /\ ~Nothing(r)
      BY <1>1, <2>1 DEF Identify, Forget, Nothing, Idle, RequestType
    <3>7. ~AskDiscord(r) /\ ~SaveUser(r) /\ ~LogOut(r)
      BY <1>1, <2>1 DEF AskDiscord, SaveUser, LogOut, Idle
    <3>8. ~ExchangeFails(r) /\ ~UpdateDB(r)
      BY <1>1 DEF ExchangeFails, UpdateDB
    <3>9. QED BY <3>2, <3>4, <3>5, <3>6, <3>7, <3>8
  <2>3. req[r].session \in SessionIds
    BY <1>1, <2>2 DEF TakeState, Sound, Bookkeeping
  <2>4. sess[req[r].session].state = req[r].state /\ req[r].state # NoState
    BY <1>1, <2>1, <2>2 DEF TakeState, Idle
  <2>5. sess'[req[r].session].state = NoState
    BY <2>1, <2>2, <2>3 DEF TakeState, SessionType
  <2>6. QED BY <1>1, <2>3, <2>4, <2>5 DEF Sound, StatesFresh
<1>2. Sound /\ [Next]_vars =>
        [\A r \in Requests :
           req[r].phase # "exchange" /\ req'[r].phase = "exchange" => Asked(r)]_vars
  BY <1>1
<1>3. QED BY <1>2, AlwaysSound, PTL DEF Spec, LoginsAskedFor

\* A login is only ever lost to a logout or to a request older than itself.
THEOREM LoginsOnlyLostToOlderRequests == Spec => LoginsLostToOlderRequests
<1> DEFINE Excused(s) ==
      \E r \in Requests :
        /\ req[r].session = s /\ req'[r] # req[r]
        /\ \/ req[r].kind = "logout" /\ req[r].phase = "in"
           \/ req[r].token # sess[s].token
<1>1. ASSUME Sound, [Next]_vars, NEW u \in Users, NEW s \in SessionIds,
             LoggedIn(u, s), sess'[s].user = NoUser
      PROVE  Excused(s)
  <2>1. /\ req \in [Requests -> RequestType(issued)]
        /\ sess \in [SessionIds -> SessionType(issued)]
        /\ sess[s].user = u /\ s \in live /\ sess[s].token = token[u] /\ u # NoUser
    BY <1>1 DEF Sound, Records, LoggedIn
  <2>2. PICK r \in Requests : Forget(r) \/ LogOut(r)
    <3>1. sess' # sess
      BY <1>1, <2>1
    <3>2. ~\E x \in SessionIds : Appear(x) \/ Vanish(x)
      BY <1>1, <2>1, <3>1 DEF Appear, Vanish
    <3>3. ASSUME NEW x \in Requests, AskDiscord(x) \/ TakeState(x) PROVE FALSE
      <4>1. PICK st : sess' = [sess EXCEPT ![req[x].session] = [sess[req[x].session] EXCEPT !.state = st]]
        BY <3>3 DEF AskDiscord, TakeState
      <4>2. sess'[s].user = sess[s].user
        BY <2>1, <4>1 DEF SessionType
      <4>3. QED BY <1>1, <2>1, <4>2
    <3>4. ASSUME NEW x \in Requests, SaveUser(x) PROVE FALSE
      <4>1. req[x].user # NoUser
        BY <1>1, <3>4 DEF SaveUser, Sound, PhasesHonest
      <4>2. sess' = [sess EXCEPT ![req[x].session] =
                       [sess[req[x].session] EXCEPT !.user = req[x].user, !.token = req[x].token]]
        BY <3>4 DEF SaveUser
      <4>3. sess'[s].user = sess[s].user \/ sess'[s].user = req[x].user
        BY <2>1, <4>2 DEF SessionType
      <4>4. QED BY <1>1, <2>1, <4>1, <4>3
    <3>5. QED
      BY <1>1, <3>1, <3>2, <3>3, <3>4 DEF Next, vars, SetToken, Begin, Identify, Nothing,
         ExchangeFails, UpdateDB
  <2>3. req[r].session = s
    <3>1. sess' = [sess EXCEPT ![req[r].session] =
                     [sess[req[r].session] EXCEPT !.user = NoUser, !.token = NoToken]]
      BY <2>2 DEF Forget, LogOut
    <3>2. QED BY <1>1, <2>1, <3>1
  <2>4. req'[r] # req[r]
    BY <2>1, <2>2 DEF Forget, LogOut, Idle, RequestType
  <2>5. CASE Forget(r)
    <3>1. token[req[r].user] # req[r].token
      BY <1>1, <2>5 DEF Forget, Sound, PhasesHonest
    <3>2. req[r].token # sess[s].token
      BY <1>1, <2>1, <3>1 DEF Sound, TokensNameUsers
    <3>3. QED BY <2>3, <2>4, <3>2
  <2>6. CASE LogOut(r)
    BY <2>3, <2>4, <2>6 DEF LogOut
  <2>7. QED BY <2>2, <2>5, <2>6
<1>2. Sound /\ [Next]_vars =>
        [\A u \in Users, s \in SessionIds :
           LoggedIn(u, s) /\ sess'[s].user = NoUser => Excused(s)]_vars
  BY <1>1
<1>3. QED BY <1>2, AlwaysSound, PTL DEF Spec, LoginsLostToOlderRequests

-----------------------------------------------------------------------------
(* The refinement of SingleLogin.                                          *)

\* Holder finds the one session a user is logged in on.
LEMMA HolderFacts ==
  ASSUME OneLoginAtATime, NEW u \in Users
  PROVE  /\ \A s \in SessionIds : LoggedIn(u, s) <=> Holder(u) = s
         /\ Holder(u) \in SessionIds \union {NoSession}
BY DEF OneLoginAtATime, Holder

\* The same, after a step.
LEMMA HolderFactsPrime ==
  ASSUME OneLoginAtATime', NEW u \in Users
  PROVE  /\ \A s \in SessionIds : LoggedIn(u, s)' <=> Holder(u)' = s
         /\ Holder(u)' \in SessionIds \union {NoSession}
<1>1. \A s1, s2 \in SessionIds : LoggedIn(u, s1)' /\ LoggedIn(u, s2)' => s1 = s2
  BY DEF OneLoginAtATime
<1>2. Holder(u)' = IF \E s \in SessionIds : LoggedIn(u, s)'
                   THEN CHOOSE s \in SessionIds : LoggedIn(u, s)'
                   ELSE NoSession
  BY DEF Holder
<1>3. QED BY <1>1, <1>2

Holders == [u \in Users |-> Holder(u)]

\* A session shows one user.
LEMMA OneUserPerSession ==
  ASSUME OneLoginAtATime, NEW s \in SessionIds, NEW u1 \in Users, NEW u2 \in Users,
         Holder(u1) = s, Holder(u2) = s
  PROVE  u1 = u2
BY HolderFacts DEF LoggedIn

\* A step after which exactly the user of one session, or nobody, is missing.
LEMMA SomebodyLeaves ==
  ASSUME OneLoginAtATime, OneLoginAtATime', NEW s \in SessionIds,
         \A u \in Users, y \in SessionIds : LoggedIn(u, y)' <=> LoggedIn(u, y) /\ y # s
  PROVE  [Single!Next]_Holders
<1>1. ASSUME NEW x \in Users
      PROVE  /\ Holder(x) = s => Holder(x)' = NoSession
             /\ Holder(x) # s => Holder(x)' = Holder(x)
  BY HolderFacts, HolderFactsPrime
<1>2. CASE \E u \in Users : Holder(u) = s
  <2>1. PICK u \in Users : Holder(u) = s
    BY <1>2
  <2>2. /\ Holder(u)' = NoSession
        /\ \A x \in Users : x # u => Holder(x)' = Holder(x)
    <3>1. \A x \in Users : x # u => Holder(x) # s
      BY <2>1, OneUserPerSession
    <3>2. Holder(u)' = NoSession
      BY <1>1, <2>1
    <3>3. QED BY <1>1, <3>1, <3>2
  <2>3. Holders' = [Holders EXCEPT ![u] = NoSession]
    BY <2>2 DEF Holders
  <2>4. QED BY <2>3 DEF Single!Next, Single!Leave, Holders
<1>3. CASE ~\E u \in Users : Holder(u) = s
  BY <1>1, <1>3 DEF Holders
<1>4. QED BY <1>2, <1>3

\* A step after which one user is missing, or nobody.
LEMMA UserLeaves ==
  ASSUME OneLoginAtATime, OneLoginAtATime', NEW u \in Users,
         \A x \in Users, y \in SessionIds : LoggedIn(x, y)' <=> LoggedIn(x, y) /\ x # u
  PROVE  [Single!Next]_Holders
<1>1. /\ Holder(u)' = NoSession
      /\ \A x \in Users : x # u => Holder(x)' = Holder(x)
  BY HolderFacts, HolderFactsPrime
<1>2. Holders' = [Holders EXCEPT ![u] = NoSession]
  BY <1>1 DEF Holders
<1>3. QED BY <1>2 DEF Single!Next, Single!Leave, Holders

\* A step that moves nobody.
LEMMA NobodyMoves ==
  ASSUME OneLoginAtATime, OneLoginAtATime',
         \A u \in Users, y \in SessionIds : LoggedIn(u, y)' <=> LoggedIn(u, y)
  PROVE  Holders' = Holders
<1>1. \A u \in Users : Holder(u)' = Holder(u)
  BY HolderFacts, HolderFactsPrime
<1>2. QED BY <1>1 DEF Holders

\* SaveUser: the user of the session so far is replaced, unless the new one has
\* been given another token meanwhile; then the session is left with nobody.
LEMMA SaveUserRefines ==
  ASSUME Sound, OneLoginAtATime, OneLoginAtATime', NEW r \in Requests, SaveUser(r)
  PROVE  [Single!Next]_Holders
<1> PICK s \in SessionIds, u \in Users : s = req[r].session /\ u = req[r].user
  BY DEF SaveUser, Sound, Bookkeeping, PhasesHonest
<1>1. s \in live /\ s \in SessionIds /\ u \in Users /\ req[r].phase = "save"
  BY DEF SaveUser
<1>2. /\ sess \in [SessionIds -> SessionType(issued)]
      /\ sess' = [sess EXCEPT ![s] = [sess[s] EXCEPT !.user = u, !.token = req[r].token]]
      /\ UNCHANGED <<token, live>>
  BY DEF SaveUser, Sound, Records
<1>3. \A y \in SessionIds : sess[y].token # req[r].token
  BY <1>1 DEF Sound, TokensInOnePlace
<1>4. /\ sess'[s].user = u /\ sess'[s].token = req[r].token
      /\ \A y \in SessionIds \ {s} : sess'[y] = sess[y]
  BY <1>1, <1>2 DEF SessionType
<1>5. CASE token[u] = req[r].token
  <2>1. \A y \in SessionIds : ~LoggedIn(u, y)
    BY <1>3, <1>5 DEF LoggedIn
  <2>2. LoggedIn(u, s)'
    BY <1>1, <1>2, <1>4, <1>5 DEF LoggedIn
  <2>3. \A x \in Users, y \in SessionIds :
          x # u => (LoggedIn(x, y)' <=> LoggedIn(x, y) /\ y # s)
    BY <1>1, <1>2, <1>4 DEF LoggedIn
  <2>4. Holder(u) = NoSession /\ Holder(u)' = s
    BY <1>1, <2>1, <2>2, HolderFacts, HolderFactsPrime
  <2>5. \A x \in Users : x # u =>
          Holder(x)' = IF Holder(x) = s THEN NoSession ELSE Holder(x)
    BY <1>1, <2>3, HolderFacts, HolderFactsPrime
  <2>6. Holders[u] = NoSession
    BY <1>1, <2>4 DEF Holders
  <2>7. Holders' = [x \in Users |-> IF x = u THEN s
                                    ELSE IF Holders[x] = s THEN NoSession ELSE Holders[x]]
    BY <1>1, <2>4, <2>5 DEF Holders
  <2>8. Single!Enter(u, s)
    BY <2>6, <2>7 DEF Single!Enter, Holders
  <2>9. QED BY <1>1, <2>8 DEF Single!Next
<1>6. CASE token[u] # req[r].token
  <2>1. \A x \in Users, y \in SessionIds : LoggedIn(x, y)' <=> LoggedIn(x, y) /\ y # s
    BY <1>1, <1>2, <1>4, <1>6 DEF LoggedIn
  <2>2. QED BY <1>1, <2>1, SomebodyLeaves
<1>7. QED BY <1>5, <1>6

\* A step of the login code is a step of SingleLogin or changes nobody's holder.
LEMMA RefinementStep ==
  ASSUME Sound, OneLoginAtATime, OneLoginAtATime', [Next]_vars
  PROVE  [Single!Next]_Holders
<1>1. sess \in [SessionIds -> SessionType(issued)] /\ live \subseteq SessionIds
  BY DEF Sound, Records, Bookkeeping
<1>2. ASSUME UNCHANGED <<token, live, sess>> PROVE [Single!Next]_Holders
  BY <1>2, NobodyMoves DEF LoggedIn
<1>3. ASSUME NEW s \in SessionIds, Appear(s) PROVE [Single!Next]_Holders
  <2>1. \A u \in Users, y \in SessionIds : LoggedIn(u, y)' <=> LoggedIn(u, y)
    BY <1>1, <1>3 DEF Appear, LoggedIn, Nobody
  <2>2. QED BY <2>1, NobodyMoves
<1>4. ASSUME NEW s \in SessionIds, Vanish(s) PROVE [Single!Next]_Holders
  BY <1>4, SomebodyLeaves DEF Vanish, LoggedIn
<1>5. ASSUME NEW u \in Users, NEW t, token' = [token EXCEPT ![u] = t],
             UNCHANGED <<live, sess>>, t \notin issued, t # NoToken
      PROVE  [Single!Next]_Holders
  <2>1. \A y \in SessionIds : sess[y].token # t
    BY <1>5, RecordFacts DEF Sound
  <2>2. \A x \in Users : token'[x] = IF x = u THEN t ELSE token[x]
    BY <1>5 DEF Sound, Bookkeeping
  <2>3. \A x \in Users, y \in SessionIds : LoggedIn(x, y)' <=> LoggedIn(x, y) /\ x # u
    BY <1>5, <2>1, <2>2 DEF LoggedIn
  <2>4. QED BY <2>3, UserLeaves
<1>6. ASSUME NEW u \in Users, NEW t \in AdminTokens, SetToken(u, t)
      PROVE  [Single!Next]_Holders
  <2>1. t \notin issued /\ t # NoToken
    BY RandomAssumption DEF Sound, Bookkeeping
  <2>2. QED BY <1>5, <1>6, <2>1 DEF SetToken
<1>7. ASSUME NEW r \in Requests, UpdateDB(r) PROVE [Single!Next]_Holders
  <2>1. PICK t \in Tokens \ issued : token' = [token EXCEPT ![req[r].who] = t]
    BY <1>7 DEF UpdateDB
  <2>2. req[r].who \in Users /\ t # NoToken /\ UNCHANGED <<live, sess>>
    BY <1>7 DEF UpdateDB, Sound, PhasesHonest
  <2>3. QED BY <1>5, <2>1, <2>2
<1>8. ASSUME NEW r \in Requests, Forget(r) \/ LogOut(r) PROVE [Single!Next]_Holders
  <2>1. /\ req[r].session \in SessionIds /\ UNCHANGED <<token, live>>
        /\ sess' = [sess EXCEPT ![req[r].session] =
                      [sess[req[r].session] EXCEPT !.user = NoUser, !.token = NoToken]]
    BY <1>1, <1>8 DEF Forget, LogOut
  <2>2. \A u \in Users, y \in SessionIds :
          LoggedIn(u, y)' <=> LoggedIn(u, y) /\ y # req[r].session
    BY <1>1, <2>1 DEF LoggedIn, SessionType
  <2>3. QED BY <2>1, <2>2, SomebodyLeaves
<1>9. ASSUME NEW r \in Requests, AskDiscord(r) \/ TakeState(r) PROVE [Single!Next]_Holders
  <2>1. PICK st : /\ UNCHANGED <<token, live>>
                  /\ sess' = [sess EXCEPT ![req[r].session] =
                                [sess[req[r].session] EXCEPT !.state = st]]
    BY <1>9 DEF AskDiscord, TakeState
  <2>2. \A u \in Users, y \in SessionIds : LoggedIn(u, y)' <=> LoggedIn(u, y)
    BY <1>1, <2>1 DEF LoggedIn, SessionType
  <2>3. QED BY <2>2, NobodyMoves
<1>10. ASSUME NEW r \in Requests, SaveUser(r) PROVE [Single!Next]_Holders
  BY <1>10, SaveUserRefines
<1>11. ASSUME NEW r \in Requests, Identify(r) \/ Nothing(r) \/ ExchangeFails(r)
       PROVE [Single!Next]_Holders
  BY <1>2, <1>11 DEF Identify, Nothing, ExchangeFails
<1>12. ASSUME NEW r \in Requests, NEW s \in SessionIds, NEW kind \in Kinds,
              NEW st \in States \union {NoState}, NEW who \in Users \union {NoUser},
              Begin(r, s, kind, st, who)
       PROVE [Single!Next]_Holders
  BY <1>2, <1>12 DEF Begin
<1>13. CASE UNCHANGED vars
  BY <1>2, <1>13 DEF vars
<1>14. QED
  BY <1>3, <1>4, <1>6, <1>7, <1>8, <1>9, <1>10, <1>11, <1>12, <1>13 DEF Next

\* The handlers implement the abstract specification: a user moves from session
\* to session only by leaving the one before.
THEOREM ImplementsSingleLogin == Spec => SingleLoginSpec
<1>1. Init => Single!Init
  BY DEF Init, Single!Init, Holder, LoggedIn
<1>2. Sound => OneLoginAtATime
  <2>1. Sound => \A s \in SessionIds : sess[s].user = NoUser <=> sess[s].token = NoToken
    BY DEF Sound, Records
  <2>2. QED BY <2>1 DEF Sound, TokensInOnePlace, OneLoginAtATime, LoggedIn
<1>3. Sound /\ OneLoginAtATime /\ OneLoginAtATime' /\ [Next]_vars => [Single!Next]_Holders
  BY RefinementStep
<1>4. Spec => []OneLoginAtATime
  BY OnlyOneLogin
<1>5. Sound /\ OneLoginAtATime /\ OneLoginAtATime' /\ [Next]_vars
        => [Single!Next]_[u \in Users |-> Holder(u)]
  BY <1>3 DEF Holders
<1>6. QED BY <1>1, <1>4, <1>5, AlwaysSound, PTL DEF Spec, Single!Spec, SingleLoginSpec
=============================================================================
