------------------------------ MODULE Sessions ------------------------------
(***************************************************************************)
(* The session store: sessions kept in one bucket, found again by their    *)
(* expiry time through a second one, renewed by every request and removed  *)
(* by a cron job.                                                          *)
(*                                                                         *)
(* sessionMiddleware calls Store.Init with the time the request arrived    *)
(* at, which is older than the moment the transaction runs; the cleanup    *)
(* job too reads the clock before its transaction starts.  What sessions   *)
(* hold is the subject of module Login.                                    *)
(***************************************************************************)
EXTENDS Integers, FiniteSets

CONSTANTS
  Ids,        \* session ids; their number bounds how many sessions are made
  NoId,       \* no cookie
  Clients,    \* browsers
  Requests,   \* requests that can be under way
  ClientOf,   \* the browser a request comes from
  Expire,     \* Store.expire
  Truncate,   \* Store.truncate
  Second,     \* clock ticks per second
  Lag,        \* how long a request can wait between its arrival and Init
  MaxTime     \* bound on the clock, for model checking

ASSUME StoreAssumption ==
  /\ NoId \notin Ids
  /\ ClientOf \in [Requests -> Clients]
  /\ Second \in Nat \ {0} /\ Lag \in Nat /\ MaxTime \in Nat
  /\ Expire \in Nat /\ Truncate \in Nat \ {0}

\* What the configuration shipped with the program respects and NewStore does
\* not check: expiry times fall on whole seconds, and a session that was just
\* renewed has some time to live.
ASSUME ConfigAssumption ==
  /\ Truncate % Second = 0
  /\ Truncate <= Expire

VARIABLES
  now,      \* the clock
  live,     \* keys of the session bucket
  expire,   \* the expiry time stored with each session
  index,    \* the expire bucket: pairs <<key, session id>>
  used,     \* history: ids ever given out
  cookie,   \* the session cookie of each browser
  req,      \* the request in each slot
  job       \* the cleanup job

store == <<live, expire, index, used>>
vars == <<now, store, cookie, req, job>>

\* Time.Truncate, and the bucket key: RFC 3339 without fractions of a second.
Trunc(t) == t - (t % Truncate)
Key(t) == t \div Second

\* Mutant of NewExpiry: a step too early.
NewExpiryEarly(asked) == Trunc(asked + Expire - Truncate)

NewExpiry(asked) == Trunc(asked + Expire)

Idle == [phase |-> "idle", id |-> NoId, asked |-> 0, set |-> FALSE, saved |-> "no"]

\* A request that names one of ids.
RequestType(ids) ==
  [phase : {"idle", "arrived", "handling"}, id : ids \union {NoId}, asked : Nat,
   set : BOOLEAN, saved : {"no", "yes", "failed"}]

TypeOK ==
  /\ now \in Nat
  /\ live \subseteq used /\ used \subseteq Ids
  /\ expire \in [Ids -> Nat]
  /\ \A id \in live : expire[id] % Truncate = 0
  /\ index \subseteq (Nat \X Ids)
  /\ cookie \in [Clients -> used \union {NoId}]
  /\ req \in [Requests -> RequestType(used)]
  /\ job \in [running : BOOLEAN, at : Nat]

Init ==
  /\ now = 0
  /\ live = {} /\ used = {}
  /\ expire = [id \in Ids |-> 0]
  /\ index = {}
  /\ cookie = [c \in Clients |-> NoId]
  /\ req = [r \in Requests |-> Idle]
  /\ job = [running |-> FALSE, at |-> 0]

Tick ==
  /\ now < MaxTime
  /\ \A r \in Requests : req[r].phase = "arrived" => now < req[r].asked + Lag
  /\ now' = now + 1
  /\ UNCHANGED <<store, cookie, req, job>>

\* The browser forgets its cookie: expired, or cleared by the user.
DropCookie(c) ==
  /\ cookie[c] # NoId
  /\ cookie' = [cookie EXCEPT ![c] = NoId]
  /\ UNCHANGED <<now, store, req, job>>

-----------------------------------------------------------------------------
(* A request.                                                              *)

\* pageDataMiddleware fixes the time.
Arrive(r) ==
  /\ req[r].phase = "idle"
  /\ req' = [req EXCEPT ![r] = [Idle EXCEPT !.phase = "arrived",
                                  !.id = cookie[ClientOf[r]], !.asked = now]]
  /\ UNCHANGED <<now, store, cookie, job>>

\* Store.Init finds a session the cookie names.
Valid(r) == req[r].id \in live /\ expire[req[r].id] > req[r].asked

\* Mutants of Reindex: the old entry of the expire bucket stays; the new one
\* is forgotten.
ReindexKeepsOld(id, old, new) == index \union {<<new, id>>}
ReindexForgets(id, old, new) == index \ {<<old, id>>}

\* deleteExpire, then addExpire.
Reindex(id, old, new) == (index \ {<<old, id>>}) \union {<<new, id>>}

\* updateExpire: nothing is written when the key stays the same.
Resume(r) ==
  LET id == req[r].id
      new == NewExpiry(req[r].asked)
      moved == Key(new) # Key(expire[id])
  IN /\ req[r].phase = "arrived"
     /\ Valid(r)
     /\ expire' = IF moved THEN [expire EXCEPT ![id] = new] ELSE expire
     /\ index' = IF moved THEN Reindex(id, Key(expire[id]), Key(new)) ELSE index
     /\ req' = [req EXCEPT ![r] = [@ EXCEPT !.phase = "handling", !.set = moved]]
     /\ UNCHANGED <<now, live, used, cookie, job>>

\* Anything else starts a new session under an id nobody has had.
Start(r) ==
  /\ req[r].phase = "arrived"
  /\ ~Valid(r)
  /\ \E id \in Ids \ used :
       LET new == NewExpiry(req[r].asked)
       IN /\ live' = live \union {id}
          /\ used' = used \union {id}
          /\ expire' = [expire EXCEPT ![id] = new]
          /\ index' = index \union {<<Key(new), id>>}
          /\ req' = [req EXCEPT ![r] = [@ EXCEPT !.phase = "handling",
                                          !.id = id, !.set = TRUE]]
  /\ UNCHANGED <<now, cookie, job>>

\* Session.Update, for handlers that store something: it fails when the
\* session is gone, and leaves the expiry alone.
Save(r) ==
  /\ req[r].phase = "handling"
  /\ req[r].saved = "no"
  /\ req' = [req EXCEPT ![r].saved = IF req[r].id \in live THEN "yes" ELSE "failed"]
  /\ UNCHANGED <<now, store, cookie, job>>

\* The response, with a Set-Cookie header if Init asked for one.
Respond(r) ==
  /\ req[r].phase = "handling"
  /\ cookie' = IF req[r].set THEN [cookie EXCEPT ![ClientOf[r]] = req[r].id] ELSE cookie
  /\ req' = [req EXCEPT ![r] = Idle]
  /\ UNCHANGED <<now, store, job>>

\* The connection breaks: the browser never sees the response.
Lose(r) ==
  /\ req[r].phase = "handling"
  /\ req' = [req EXCEPT ![r] = Idle]
  /\ UNCHANGED <<now, store, cookie, job>>

-----------------------------------------------------------------------------
(* cleanupJob.Run.                                                         *)

CleanupStart ==
  /\ ~job.running
  /\ job' = [running |-> TRUE, at |-> now]
  /\ UNCHANGED <<now, store, cookie, req>>

\* Mutant: the end of the range is left out.
DueExclusive(at) == {entry \in index : entry[1] < Key(at)}

\* expireBucket.Range("", to): to is included.
Due(at) == {entry \in index : entry[1] <= Key(at)}

CleanupCommit ==
  /\ job.running
  /\ live' = live \ {entry[2] : entry \in Due(job.at)}
  /\ index' = index \ Due(job.at)
  /\ job' = [running |-> FALSE, at |-> 0]
  /\ UNCHANGED <<now, expire, used, cookie, req>>

Next ==
  \/ Tick
  \/ \E c \in Clients : DropCookie(c)
  \/ \E r \in Requests :
       Arrive(r) \/ Resume(r) \/ Start(r) \/ Save(r) \/ Respond(r) \/ Lose(r)
  \/ CleanupStart
  \/ CleanupCommit

Spec == Init /\ [][Next]_vars

\* Cron fires again and again, and a job it started runs.
FairSpec == Spec /\ WF_vars(CleanupStart) /\ WF_vars(CleanupCommit)

-----------------------------------------------------------------------------
(* Properties.                                                             *)

\* store.go:127-193, cron.go:24-38.  The two buckets agree after every
\* transaction: each stored session is listed under its own expiry key and
\* nowhere else, and nothing else is listed.
IndexMatchesStore == index = {<<Key(expire[id]), id>> : id \in live}

\* cron.go:21-38.  A cleanup takes exactly the sessions that had expired when
\* the job read the clock, whatever was renewed or started since then.
CleanupExact ==
  [][CleanupCommit => live' = {id \in live : expire[id] > job.at}]_vars

\* session.go:82-97 with store.go:171-193.  Storing something in a session only
\* fails for a request handled for longer than a session lives: not even a
\* slower request of the same browser that moves the expiry back, with a
\* cleanup right after it, takes the session away any earlier.
OnlyLateSavesFail ==
  \A r \in Requests :
    req[r].saved = "failed" => now > req[r].asked + Expire - Truncate - Lag

\* cron.go:18-48.  An expired session is removed in the end, unless a request
\* that arrived in time renews it first.
ExpiredAreCollected ==
  \A id \in Ids :
    (id \in live /\ expire[id] <= now) ~> (id \notin live \/ expire[id] > now)
=============================================================================
