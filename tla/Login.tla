------------------------------- MODULE Login -------------------------------
(***************************************************************************)
(* Logging in with Discord and out again: what the handlers of             *)
(* internal/server/auth.go, userMiddleware and DiscordAuth.Exchange do to  *)
(* the data of sessions and to User.Token.                                 *)
(*                                                                         *)
(* sessionMiddleware hands every request a copy of its session's data.     *)
(* The middleware and the handlers read users and change sessions in       *)
(* transactions of their own, so requests of several tabs, and of several  *)
(* browsers of one user, interleave between any two of them.  When         *)
(* sessions start and expire is the subject of module Sessions: here they  *)
(* come and go, and one may be gone when a handler wants to change it.     *)
(***************************************************************************)
CONSTANTS
  Users,        \* Discord accounts, each with its user of the site
  NoUser,
  SessionIds,   \* sessions of all browsers
  NoSession,
  Requests,     \* requests that can be under way
  States,       \* what rand.Text returns for Auth.State; bounds the redirects
  NoState,
  Tokens,       \* what rand.Text returns for User.Token; bounds the logins
  AdminTokens,  \* tokens an administrator writes over a user's own
  NoToken

ASSUME NamesAssumption ==
  /\ NoUser \notin Users
  /\ NoSession \notin SessionIds
  /\ NoState \notin States
  /\ NoToken \notin Tokens \union AdminTokens

\* rand.Text never repeats itself and no administrator types what it returned.
ASSUME RandomAssumption == Tokens \intersect AdminTokens = {}

VARIABLES
  token,    \* User.Token; NoToken for a user that never logged in
  live,     \* sessions that are stored
  sess,     \* their data: Data.Auth.State, Data.User.ID and Data.User.Token
  req,      \* the request in each slot
  origin,   \* history: the session each state was made for
  spent,    \* history: states taken out of their session by a callback
  issued    \* history: tokens made so far

vars == <<token, live, sess, req, origin, spent, issued>>

Nobody == [state |-> NoState, user |-> NoUser, token |-> NoToken]
Idle == [phase |-> "idle", kind |-> "page", session |-> NoSession,
         user |-> NoUser, token |-> NoToken, state |-> NoState, who |-> NoUser]

\* Phases: "begun" with a copy of the session, "in" and "out" once it is known
\* who asks, "mismatch" when the token turned out old, "exchange" while Discord
\* is asked, "save" when the user is about to be written to the session.
Phases == {"idle", "begun", "mismatch", "in", "out", "exchange", "save"}
Kinds == {"page", "login", "callback", "logout"}

Init ==
  /\ token = [u \in Users |-> NoToken]
  /\ live = {}
  /\ sess = [s \in SessionIds |-> Nobody]
  /\ req = [r \in Requests |-> Idle]
  /\ origin = [st \in States |-> NoSession]
  /\ spent = {} /\ issued = {}

history == <<origin, spent, issued>>

\* The request ends, or goes on in another phase.
Done(r) == req' = [req EXCEPT ![r] = Idle]
Turn(r, phase) == req' = [req EXCEPT ![r].phase = phase]

\* Session.Update: fails, changing nothing, when the session is gone.
Stored(r) == req[r].session \in live
Update(r, data) == sess' = [sess EXCEPT ![req[r].session] = data]
Data(r) == sess[req[r].session]

-----------------------------------------------------------------------------
(* The environment.                                                        *)

\* The session expires and is cleaned up.
Vanish(s) ==
  /\ s \in live
  /\ live' = live \ {s}
  /\ UNCHANGED <<token, sess, req, history>>

\* A browser whose cookie names no session gets a new one.  A name that nothing
\* refers to any more serves again for it.
Appear(s) ==
  /\ s \notin live
  /\ \A r \in Requests : req[r].session # s
  /\ live' = live \union {s}
  /\ sess' = [sess EXCEPT ![s] = Nobody]
  /\ UNCHANGED <<token, req, history>>

\* POST /user/{id} with the token field set.
SetToken(u, t) ==
  /\ token[u] # NoToken
  /\ token' = [token EXCEPT ![u] = t]
  /\ UNCHANGED <<live, sess, req, history>>

-----------------------------------------------------------------------------
(* The middlewares.                                                        *)

\* sessionMiddleware.  A callback link carries a state, an old one if a page is
\* reloaded or a link opened in another browser, and a code that stands for the
\* user who agreed, or a refusal.
Begin(r, s, kind, st, who) ==
  /\ req[r].phase = "idle"
  /\ s \in live
  /\ kind # "callback" => st = NoState /\ who = NoUser
  /\ st # NoState => origin[st] # NoSession
  /\ req' = [req EXCEPT ![r] =
       [phase |-> "begun", kind |-> kind, session |-> s,
        user |-> sess[s].user, token |-> sess[s].token, state |-> st, who |-> who]]
  /\ UNCHANGED <<token, live, sess, history>>

\* Mutant: the comparison is inverted.
MatchesInverted(r) == token[req[r].user] # req[r].token

\* The token of the copy is the one the user has now.
Matches(r) == token[req[r].user] = req[r].token

\* userMiddleware: who asks?
Identify(r) ==
  /\ req[r].phase = "begun"
  /\ \/ req[r].user = NoUser /\ Turn(r, "out")
     \/ req[r].user # NoUser /\ Matches(r) /\ Turn(r, "in")
     \/ req[r].user # NoUser /\ ~Matches(r) /\ Turn(r, "mismatch")
  /\ UNCHANGED <<token, live, sess, history>>

\* userMiddleware: the session had an old token.  Whatever user it shows by now
\* is taken out.
Forget(r) ==
  /\ req[r].phase = "mismatch" /\ Stored(r)
  /\ Update(r, [Data(r) EXCEPT !.user = NoUser, !.token = NoToken])
  /\ Turn(r, "out")
  /\ UNCHANGED <<token, live, history>>

-----------------------------------------------------------------------------
(* The handlers.                                                           *)

\* Nothing is changed: a page, a redirect because of who asks (userMux), or a
\* session that is gone.
Nothing(r) ==
  /\ \/ req[r].phase \in {"in", "out"} /\ req[r].kind = "page"
     \/ req[r].phase = "in" /\ req[r].kind \in {"login", "callback"}
     \/ req[r].phase = "out" /\ req[r].kind = "logout"
     \/ /\ req[r].phase \in {"mismatch", "in", "out", "save"}
        /\ ~Stored(r)
     \/ /\ req[r].phase = "out" /\ req[r].kind = "callback"
        /\ Data(r).state = NoState
  /\ Done(r)
  /\ UNCHANGED <<token, live, sess, history>>

\* discordAuthRedirect: a new state takes the place of an earlier one.
AskDiscord(r) ==
  /\ req[r].phase = "out" /\ req[r].kind = "login" /\ Stored(r)
  /\ \E st \in States :
       /\ origin[st] = NoSession
       /\ origin' = [origin EXCEPT ![st] = req[r].session]
       /\ Update(r, [Data(r) EXCEPT !.state = st])
  /\ Done(r)
  /\ UNCHANGED <<token, live, spent, issued>>

\* Mutant: the session keeps every state it was given until that one is used, so
\* that several tabs can ask.
TakeStateEarlier(r) ==
  LET st == Data(r).state
      accepted == /\ req[r].state # NoState /\ req[r].state \notin spent
                  /\ origin[req[r].state] = req[r].session /\ req[r].who # NoUser
  IN /\ req[r].phase = "out" /\ req[r].kind = "callback" /\ Stored(r)
     /\ st # NoState
     /\ Update(r, [Data(r) EXCEPT !.state = NoState])
     /\ spent' = spent \union (IF accepted THEN {req[r].state} ELSE {st})
     /\ IF accepted THEN Turn(r, "exchange") ELSE Done(r)
     /\ UNCHANGED <<token, live, origin, issued>>

\* discordAuthCallback: the state is used up before it is looked at; a wrong
\* one and a refusal end the login.
TakeState(r) ==
  LET st == Data(r).state
      accepted == req[r].state = st /\ req[r].who # NoUser
  IN /\ req[r].phase = "out" /\ req[r].kind = "callback" /\ Stored(r)
     /\ st # NoState
     /\ Update(r, [Data(r) EXCEPT !.state = NoState])
     /\ spent' = spent \union {st}
     /\ IF accepted THEN Turn(r, "exchange") ELSE Done(r)
     /\ UNCHANGED <<token, live, origin, issued>>

\* Exchange: Discord does not answer, or not as it should.
ExchangeFails(r) ==
  /\ req[r].phase = "exchange"
  /\ Done(r)
  /\ UNCHANGED <<token, live, sess, history>>

\* Mutant: a user that has a token keeps it.
UpdateDBKeepsToken(r) ==
  /\ req[r].phase = "exchange"
  /\ \E t \in Tokens \ issued :
       LET kept == IF token[req[r].who] = NoToken THEN t ELSE token[req[r].who]
       IN /\ issued' = issued \union {t}
          /\ token' = [token EXCEPT ![req[r].who] = kept]
          /\ req' = [req EXCEPT ![r] = [@ EXCEPT !.phase = "save",
                                          !.user = req[r].who, !.token = kept]]
  /\ UNCHANGED <<live, sess, origin, spent>>

\* Exchange, updateDB: the user's new token ends the login before.
UpdateDB(r) ==
  /\ req[r].phase = "exchange"
  /\ \E t \in Tokens \ issued :
       /\ issued' = issued \union {t}
       /\ token' = [token EXCEPT ![req[r].who] = t]
       /\ req' = [req EXCEPT ![r] = [@ EXCEPT !.phase = "save",
                                       !.user = req[r].who, !.token = t]]
  /\ UNCHANGED <<live, sess, origin, spent>>

\* discordAuthCallback: the session learns its user.
SaveUser(r) ==
  /\ req[r].phase = "save" /\ Stored(r)
  /\ Update(r, [Data(r) EXCEPT !.user = req[r].user, !.token = req[r].token])
  /\ Done(r)
  /\ UNCHANGED <<token, live, history>>

\* logoutHandler.
LogOut(r) ==
  /\ req[r].phase = "in" /\ req[r].kind = "logout" /\ Stored(r)
  /\ Update(r, [Data(r) EXCEPT !.user = NoUser, !.token = NoToken])
  /\ Done(r)
  /\ UNCHANGED <<token, live, history>>

Next ==
  \/ \E s \in SessionIds : Appear(s) \/ Vanish(s)
  \/ \E u \in Users, t \in AdminTokens : SetToken(u, t)
  \/ \E r \in Requests :
       \/ \E s \in SessionIds, kind \in Kinds,
             st \in States \union {NoState}, who \in Users \union {NoUser} :
             Begin(r, s, kind, st, who)
       \/ Identify(r) \/ Forget(r) \/ Nothing(r)
       \/ AskDiscord(r) \/ TakeState(r)
       \/ ExchangeFails(r) \/ UpdateDB(r) \/ SaveUser(r)
       \/ LogOut(r)

Spec == Init /\ [][Next]_vars

-----------------------------------------------------------------------------
(* Properties.                                                             *)

TypeOK ==
  /\ token \in [Users -> issued \union AdminTokens \union {NoToken}]
  /\ live \subseteq SessionIds
  /\ sess \in [SessionIds -> [state : States \union {NoState},
                              user : Users \union {NoUser},
                              token : issued \union {NoToken}]]
  /\ \A s \in SessionIds : sess[s].user = NoUser <=> sess[s].token = NoToken
  /\ req \in [Requests -> [phase : Phases, kind : Kinds,
                           session : SessionIds \union {NoSession},
                           user : Users \union {NoUser},
                           token : issued \union {NoToken},
                           state : States \union {NoState},
                           who : Users \union {NoUser}]]
  /\ origin \in [States -> SessionIds \union {NoSession}]
  /\ spent \subseteq States
  /\ issued \subseteq Tokens

\* Session s shows u, and u's token is the one it has.
LoggedIn(u, s) == s \in live /\ sess[s].user = u /\ sess[s].token = token[u]

\* auth.go:100-126 with auth.go:155-171.  A user is logged in on one session at
\* most, however many logins of that user overlap or fail half-way.
OneLoginAtATime ==
  \A u \in Users, s1, s2 \in SessionIds :
    LoggedIn(u, s1) /\ LoggedIn(u, s2) => s1 = s2

\* auth.go:64-91.  A login goes through only with the state its own session was
\* given, only with the latest one, and with each state only once: reloading the
\* callback page or opening the link in another browser starts nothing.
LoginsAskedFor ==
  [][\A r \in Requests :
       req[r].phase # "exchange" /\ req'[r].phase = "exchange" =>
         /\ origin[req[r].state] = req[r].session
         /\ sess[req[r].session].state = req[r].state
         /\ req[r].state \notin spent
         /\ sess'[req[r].session].state = NoState]_vars

\* auth.go:162-169 and 201-209.  A login is lost to a logout, or to a request
\* that began before that login was made, and to no other request.
LoginsLostToOlderRequests ==
  [][\A u \in Users, s \in SessionIds :
       LoggedIn(u, s) /\ sess'[s].user = NoUser =>
         \E r \in Requests :
           /\ req[r].session = s /\ req'[r] # req[r]
           /\ \/ req[r].kind = "logout" /\ req[r].phase = "in"
              \/ req[r].token # sess[s].token]_vars

\* Logging in implements the abstract specification.
Holder(u) ==
  IF \E s \in SessionIds : LoggedIn(u, s)
  THEN CHOOSE s \in SessionIds : LoggedIn(u, s)
  ELSE NoSession

Single == INSTANCE SingleLogin
          WITH Sessions <- SessionIds, holder <- [u \in Users |-> Holder(u)]

SingleLoginSpec == Single!Spec
=============================================================================
