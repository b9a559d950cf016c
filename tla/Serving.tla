------------------------------ MODULE Serving -------------------------------
(***************************************************************************)
(* The HTTP servers of the program and the certificate they serve          *)
(* (server.go Run and runServer, tls.go, sched/cron.go, main.go).          *)
(*                                                                         *)
(* Each server has two goroutines.  One listens and serves, and cancels    *)
(* the common context when it ends for whatever reason; the other waits    *)
(* for the context, shuts the server down with a timeout and collects the  *)
(* error of the first.  Run returns when all of them have.                 *)
(*                                                                         *)
(* Certificate and key are two files that somebody else replaces one after *)
(* the other.  They are loaded before the servers start and again by a     *)
(* cron job, which may overlap with itself.                                *)
(***************************************************************************)
EXTENDS Naturals

CONSTANTS
  Servers,     \* those the configuration asks for: main, redirect, api
  Reloads,     \* reload jobs that can overlap
  Startup,     \* the load before the servers start
  MaxGen,      \* certificates are 1..MaxGen in the order they were issued
  KeyOf,       \* the key of each; a renewal may keep the key
  MaxOpen,     \* bound on the requests of a server under way, for model checking
  MaxFaults    \* bound on the reads that fail, for model checking

ASSUME ServingAssumption ==
  /\ Startup \notin Reloads
  /\ MaxGen \in Nat \ {0} /\ KeyOf \in [1..MaxGen -> Nat \ {0}]
  /\ MaxOpen \in Nat /\ MaxFaults \in Nat

Loads == Reloads \union {Startup}

VARIABLES
  proc,      \* how far the program is
  files,     \* which certificate's file and which one's key are on disk
  served,    \* the pair in the loader
  load,      \* the loads under way, and history: whether another one was faster
  faults,    \* reads that failed
  cancelled, \* the context of the servers
  serving,   \* the goroutine of each server that serves
  closing,   \* the goroutine of each server that shuts it down
  open,      \* requests of each server under way
  failure    \* the first error of the group

tls == <<files, served, load, faults>>
servers == <<cancelled, serving, closing, open, failure>>
vars == <<proc, tls, servers>>

NoPair == [cert |-> 0, key |-> 0]
NoLoad == [phase |-> "idle", cert |-> 0, key |-> 0, overtaken |-> FALSE]

Init ==
  /\ proc = "loading"
  /\ files = [cert |-> 1, key |-> 1]
  /\ served = NoPair
  /\ load = [j \in Loads |-> NoLoad]
  /\ faults = 0 /\ cancelled = FALSE
  /\ serving = [s \in Servers |-> "off"] /\ closing = [s \in Servers |-> "off"]
  /\ open = [s \in Servers |-> 0] /\ failure = "none"

-----------------------------------------------------------------------------
(* The files.                                                              *)

\* Somebody renews the certificate: one file first, either of them, then the
\* other.  Nobody promises to finish.
Renew ==
  /\ \/ /\ files.cert = files.key /\ files.cert < MaxGen
        /\ \E f \in {"cert", "key"} : files' = [files EXCEPT ![f] = @ + 1]
     \/ files.cert < files.key /\ files' = [files EXCEPT !.cert = files.key]
     \/ files.key < files.cert /\ files' = [files EXCEPT !.key = files.cert]
  /\ UNCHANGED <<proc, served, load, faults, servers>>

-----------------------------------------------------------------------------
(* Loading.                                                                *)

\* Mutant of Failed: what was read is stored before the error is looked at.
FailedStores(j) ==
  /\ load' = [load EXCEPT ![j] = NoLoad]
  /\ served' = [cert |-> load[j].cert, key |-> load[j].key]
  /\ proc' = IF j = Startup THEN "failed" ELSE proc

\* A load that failed leaves what is served; at startup New panics, and run
\* turns the panic into an error.
Failed(j) ==
  /\ load' = [load EXCEPT ![j] = NoLoad]
  /\ proc' = IF j = Startup THEN "failed" ELSE proc
  /\ UNCHANGED served

CannotRead(j) == faults < MaxFaults /\ faults' = faults + 1 /\ Failed(j)

\* A load begins: when the program starts, and whenever cron starts the job, until
\* Close has removed it.
Begins(j) ==
  /\ load[j].phase = "idle"
  /\ proc \in IF j = Startup THEN {"loading"} ELSE {"ready", "running", "returned"}

\* tls.LoadX509KeyPair reads the certificate,
ReadCert(j) ==
  /\ Begins(j)
  /\ \/ /\ load' = [load EXCEPT ![j].phase = "key", ![j].cert = files.cert]
        /\ UNCHANGED <<proc, served, faults>>
     \/ CannotRead(j)
  /\ UNCHANGED <<files, servers>>

\* then the key, and refuses a key that is not the certificate's.
ReadKey(j) ==
  /\ load[j].phase = "key"
  /\ LET key == KeyOf[files.key]
     IN  \/ /\ KeyOf[load[j].cert] = key
            /\ load' = [load EXCEPT ![j].phase = "store", ![j].key = key]
            /\ UNCHANGED <<proc, served, faults>>
         \/ KeyOf[load[j].cert] # key /\ Failed(j) /\ UNCHANGED faults
         \/ CannotRead(j)
  /\ UNCHANGED <<files, servers>>

\* Mutant of Store: only the first pair is kept.
StoreOnce(j) ==
  /\ load[j].phase = "store"
  /\ served' = IF served = NoPair THEN [cert |-> load[j].cert, key |-> load[j].key] ELSE served
  /\ load' = [load EXCEPT ![j] = NoLoad]
  /\ proc' = IF j = Startup THEN "ready" ELSE proc
  /\ UNCHANGED <<files, faults, servers>>

\* The pair is served from now on, whatever other loads have stored meanwhile.
Store(j) ==
  /\ load[j].phase = "store"
  /\ served' = [cert |-> load[j].cert, key |-> load[j].key]
  /\ load' = [k \in Loads |-> IF k = j THEN NoLoad
                              ELSE [load[k] EXCEPT !.overtaken = (load[k].phase # "idle")]]
  /\ proc' = IF j = Startup THEN "ready" ELSE proc
  /\ UNCHANGED <<files, faults, servers>>

-----------------------------------------------------------------------------
(* The servers.                                                            *)

\* SIGINT or SIGTERM; it may come before Run is called.
Signal ==
  /\ proc \in {"loading", "ready", "running"} /\ ~cancelled
  /\ cancelled' = TRUE
  /\ UNCHANGED <<proc, tls, serving, closing, open, failure>>

Run ==
  /\ proc = "ready"
  /\ proc' = "running"
  /\ serving' = [s \in Servers |-> "starting"] /\ closing' = [s \in Servers |-> "waiting"]
  /\ UNCHANGED <<tls, cancelled, open, failure>>

\* Shutdown was called; http.Server refuses to serve from then on.
Shut(s) == closing[s] \notin {"off", "waiting"}

\* Mutant of Ends: the deferred cancel is missing.
EndsAlone(s, how) == serving' = [serving EXCEPT ![s] = how] /\ UNCHANGED cancelled

\* The serving goroutine ends, and with it all servers.
Ends(s, how) == serving' = [serving EXCEPT ![s] = how] /\ cancelled' = TRUE

\* The address may be in use.
Listen(s) ==
  /\ serving[s] = "starting"
  /\ \/ ~Shut(s) /\ serving' = [serving EXCEPT ![s] = "serving"] /\ UNCHANGED cancelled
     \/ ~Shut(s) /\ Ends(s, "failed")
     \/ Shut(s) /\ Ends(s, "closed")
  /\ UNCHANGED <<proc, tls, closing, open, failure>>

\* The listener breaks, or was closed by Shutdown.
StopServing(s) ==
  /\ serving[s] = "serving"
  /\ Ends(s, IF Shut(s) THEN "closed" ELSE "failed")
  /\ UNCHANGED <<proc, tls, closing, open, failure>>

Arrive(s) ==
  /\ serving[s] = "serving" /\ ~Shut(s) /\ open[s] < MaxOpen
  /\ open' = [open EXCEPT ![s] = @ + 1]
  /\ UNCHANGED <<proc, tls, cancelled, serving, closing, failure>>

Respond(s) ==
  /\ open[s] > 0
  /\ open' = [open EXCEPT ![s] = @ - 1]
  /\ UNCHANGED <<proc, tls, cancelled, serving, closing, failure>>

Close(s, how) == closing' = [closing EXCEPT ![s] = how]

BeginShutdown(s) ==
  /\ closing[s] = "waiting" /\ cancelled
  /\ Close(s, "draining")
  /\ UNCHANGED <<proc, tls, cancelled, serving, open, failure>>

\* Shutdown returns when it has found no request under way, or when the timeout
\* has passed, which may be at any time.
EndShutdown(s) ==
  /\ closing[s] = "draining"
  /\ (open[s] = 0 /\ Close(s, "drained")) \/ Close(s, "timeout")
  /\ UNCHANGED <<proc, tls, cancelled, serving, open, failure>>

\* Mutant of Joined: the error of Shutdown is logged and forgotten.
JoinedServe(s) == IF serving[s] = "failed" THEN "serve" ELSE "none"

\* What runServer makes of the two errors.
Joined(s) ==
  IF serving[s] = "failed" THEN "serve"
  ELSE IF closing[s] = "timeout" THEN "shutdown" ELSE "none"

\* runServer returns; the group keeps the first error.
Return(s) ==
  /\ closing[s] \in {"drained", "timeout"} /\ serving[s] \in {"failed", "closed"}
  /\ failure' = IF failure = "none" THEN Joined(s) ELSE failure
  /\ Close(s, IF closing[s] = "timeout" THEN "givenUp" ELSE "done")
  /\ UNCHANGED <<proc, tls, cancelled, serving, open>>

RunReturns ==
  /\ proc = "running" /\ cancelled /\ \A s \in Servers : closing[s] \in {"done", "givenUp"}
  /\ proc' = "returned"
  /\ UNCHANGED <<tls, servers>>

\* Close removes the job from cron.
RemoveJob ==
  /\ proc = "returned"
  /\ proc' = "closing"
  /\ UNCHANGED <<tls, servers>>

\* sched.Stop waits for the jobs under way.
StopCron ==
  /\ proc = "closing" /\ \A j \in Reloads : load[j].phase = "idle"
  /\ proc' = "stopped"
  /\ UNCHANGED <<tls, servers>>

GetOn(j) == ReadKey(j) \/ Store(j)
\* What the main goroutine and those of the servers do by themselves.
GoOn ==
  \/ ReadCert(Startup) \/ GetOn(Startup)
  \/ Run \/ RunReturns \/ RemoveJob \/ StopCron
  \/ \E s \in Servers : \/ Listen(s) \/ (Shut(s) /\ StopServing(s))
                        \/ BeginShutdown(s) \/ EndShutdown(s) \/ Return(s)

Next ==
  \/ Renew \/ Signal
  \/ Run \/ RunReturns \/ RemoveJob \/ StopCron
  \/ \E j \in Loads : ReadCert(j) \/ ReadKey(j) \/ Store(j)
  \/ \E s \in Servers : \/ Listen(s) \/ StopServing(s) \/ Arrive(s) \/ Respond(s)
                        \/ BeginShutdown(s) \/ EndShutdown(s) \/ Return(s)

Spec == Init /\ [][Next]_vars

\* Goroutines that can go on do, and cron comes back to the job.  A server that was
\* not shut down may serve for ever, and a request may take for ever.
FairSpec ==
  /\ Spec
  /\ WF_vars(GoOn) /\ WF_vars(\E j \in Reloads : ReadCert(j))
  /\ \A j \in Reloads : WF_vars(GetOn(j))

-----------------------------------------------------------------------------
(* Properties.                                                             *)

\* Every variable has its type.
TypeOK ==
  /\ proc \in {"loading", "failed", "ready", "running", "returned", "closing", "stopped"}
  /\ files \in [cert : 1..MaxGen, key : 1..MaxGen]
  /\ served \in [cert : 0..MaxGen, key : Nat]
  /\ load \in [Loads -> [phase : {"idle", "key", "store"}, cert : 0..MaxGen,
                         key : Nat, overtaken : BOOLEAN]]
  /\ faults \in Nat /\ cancelled \in BOOLEAN
  /\ serving \in [Servers -> {"off", "starting", "serving", "failed", "closed"}]
  /\ closing \in [Servers -> {"off", "waiting", "draining", "drained", "timeout",
                           "done", "givenUp"}]
  /\ open \in [Servers -> Nat] /\ failure \in {"none", "serve", "shutdown"}

\* The certificate has been on disk together with its key, at some moment.
BeenWhole(g) ==
  g <= files.cert /\ (g <= files.key \/ KeyOf[files.key] = KeyOf[g])

\* tls.go:54-66 and server.go:384-388.  Whatever moment a reload falls on while the
\* files are replaced, and whatever read fails, what clients are shown is a pair
\* that belongs together and was whole on disk, from before the first of them.
ServedWhole ==
  proc \notin {"loading", "failed"} =>
    /\ served.cert # 0 /\ served.key = KeyOf[served.cert]
    /\ BeenWhole(served.cert)

\* tls.go:54-62 and 68-75.  An older certificate takes the place of a newer one only
\* where two reloads overlapped and the one that began first was the last to end.
OnlyOverlapsGoBack ==
  [][served'.cert < served.cert =>
       \E j \in Loads : /\ load[j].overtaken /\ load[j].phase = "store"
                        /\ load[j].cert = served'.cert]_served

Settled == files.cert = MaxGen /\ files.key = MaxGen

\* tls.go:34-41 and 68-75.  As long as the program runs, a renewal that was finished is
\* served in the end, and for good, although overlapping reloads may take it back.
CertificateCatchesUp ==
  <>[](proc = "running" /\ Settled) => <>[](served.cert = MaxGen)

\* server.go:347-366 and 420-424.  Run returns when no server is left, without an error
\* only if none of them has failed and each was waited for until no request was under
\* way, and with the error of a failure, or of a timeout, only if there was one.
RunReports ==
  proc \in {"returned", "closing", "stopped"} =>
    /\ \A s \in Servers : serving[s] \in {"failed", "closed"}
    /\ failure = "none" => \A s \in Servers : /\ serving[s] = "closed" /\ closing[s] = "done"
                                              /\ open[s] = 0
    /\ failure = "serve" => \E s \in Servers : serving[s] = "failed"
    /\ failure = "shutdown" => \E s \in Servers : closing[s] = "givenUp"

\* server.go:336-347 and sched/cron.go:23.  After a signal, and after any one of the
\* servers has failed, all of them end and the program does, however long
\* requests take.
RunEnds ==
  (proc = "running" /\ (cancelled \/ \E s \in Servers : serving[s] = "failed"))
    ~> proc = "stopped"
=============================================================================
