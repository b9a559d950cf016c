--------------------------- MODULE ServingProofs ----------------------------
(***************************************************************************)
(* Theorems about Serving, for any servers, overlapping reloads and        *)
(* certificates.                                                           *)
(***************************************************************************)
EXTENDS Serving, TLAPS

-----------------------------------------------------------------------------
(* The inductive invariant.                                                *)

\* A renewal replaces one file at a time, so the certificate is at most one ahead.
FilesInStep == files.cert <= files.key + 1

\* A load under way has read a certificate that is still on disk or was; it is as new
\* as what is served unless another one stored since; and once both files are read
\* they belong together.
LoadSound(j) ==
  load[j].phase # "idle" =>
    /\ load[j].cert \in 1..MaxGen /\ load[j].cert <= files.cert
    /\ ~load[j].overtaken => served.cert <= load[j].cert
    /\ load[j].phase = "store" =>
         load[j].key = KeyOf[load[j].cert] /\ BeenWhole(load[j].cert)

\* What is served was read by a load, and something is once the program got to run.
ServedSound ==
  /\ served.cert <= files.cert
  /\ served.cert # 0 => served.key = KeyOf[served.cert] /\ BeenWhole(served.cert)
  /\ proc \notin {"loading", "failed"} => served.cert # 0

StartSound == load[Startup].phase # "idle" => proc = "loading"

TlsSound == FilesInStep /\ (\A j \in Loads : LoadSound(j)) /\ ServedSound /\ StartSound

\* Servers do nothing before Run and are done after it; who is done has told the
\* group what there was to tell.
Before == {"loading", "failed", "ready"}
After == {"returned", "closing", "stopped"}

ServersSound ==
  /\ proc \in Before => failure = "none" /\ \A s \in Servers : closing[s] = "off"
  /\ proc \in After => \A s \in Servers : closing[s] \in {"done", "givenUp"}
  /\ \A s \in Servers :
       /\ closing[s] = "drained" => open[s] = 0
       /\ closing[s] = "done" => open[s] = 0
       /\ closing[s] \in {"done", "givenUp"} =>
            /\ serving[s] \in {"failed", "closed"}
            /\ failure = "none" => serving[s] = "closed" /\ closing[s] = "done"
  /\ failure = "serve" => \E s \in Servers : serving[s] = "failed"
  /\ failure = "shutdown" => \E s \in Servers : closing[s] = "givenUp"

Sound == TypeOK /\ TlsSound /\ ServersSound

-----------------------------------------------------------------------------
(* Steps.                                                                  *)

\* The steps that load, and those that do not touch the loader.
LoadStep == \E j \in Loads : ReadCert(j) \/ ReadKey(j) \/ Store(j)
ServerStep ==
  \E s \in Servers : \/ Listen(s) \/ StopServing(s) \/ Arrive(s) \/ Respond(s)
                     \/ BeginShutdown(s) \/ EndShutdown(s) \/ Return(s)
MainStep == Signal \/ Run \/ RunReturns \/ RemoveJob \/ StopCron

LEMMA StepKinds ==
  ASSUME [Next]_vars
  PROVE  Renew \/ LoadStep \/ ServerStep \/ MainStep \/ UNCHANGED vars
BY DEF Next, LoadStep, ServerStep, MainStep

LEMMA InitSound == Init => Sound
<1> SUFFICES ASSUME Init PROVE Sound
  OBVIOUS
<1>1. TypeOK
  <2>1. load \in [Loads -> [phase : {"idle", "key", "store"}, cert : 0..MaxGen,
                            key : Nat, overtaken : BOOLEAN]]
    BY ServingAssumption DEF Init, NoLoad
  <2>2. files \in [cert : 1..MaxGen, key : 1..MaxGen] /\ served \in [cert : 0..MaxGen, key : Nat]
    BY ServingAssumption DEF Init, NoPair
  <2> QED BY <2>1, <2>2 DEF Init, TypeOK
<1>2. TlsSound
  BY ServingAssumption DEF Init, TlsSound, FilesInStep, LoadSound, ServedSound, StartSound,
                           NoPair, NoLoad, Loads
<1>3. ServersSound
  BY DEF Init, ServersSound, Before, After
<1> QED BY <1>1, <1>2, <1>3 DEF Sound

\* What the load of this job leaves alone or gives up.
Dropped(j) == load' = [load EXCEPT ![j] = NoLoad] /\ UNCHANGED served

\* The three steps of a load, as far as the proofs are concerned.
LEMMA ReadCertEffect ==
  ASSUME NEW j \in Loads, ReadCert(j), TypeOK
  PROVE  /\ UNCHANGED <<files, served, servers>> /\ faults' \in Nat
         /\ load[j].phase = "idle"
         /\ j = Startup => proc = "loading"
         /\ \/ /\ load' = [load EXCEPT ![j].phase = "key", ![j].cert = files.cert]
               /\ UNCHANGED proc
            \/ Dropped(j) /\ proc' = IF j = Startup THEN "failed" ELSE proc
BY DEF ReadCert, Begins, CannotRead, Failed, Dropped, TypeOK

LEMMA ReadKeyEffect ==
  ASSUME NEW j \in Loads, ReadKey(j), TypeOK
  PROVE  /\ UNCHANGED <<files, served, servers>> /\ faults' \in Nat
         /\ load[j].phase = "key"
         /\ \/ /\ KeyOf[load[j].cert] = KeyOf[files.key]
               /\ load' = [load EXCEPT ![j].phase = "store", ![j].key = KeyOf[files.key]]
               /\ UNCHANGED proc
            \/ Dropped(j) /\ proc' = IF j = Startup THEN "failed" ELSE proc
BY DEF ReadKey, CannotRead, Failed, Dropped, TypeOK

-----------------------------------------------------------------------------
(* Types.                                                                  *)

LEMMA LoadTypes ==
  ASSUME TypeOK, NEW j \in Loads, ReadCert(j) \/ ReadKey(j) \/ Store(j)
  PROVE  TypeOK'
<1> DEFINE LoadType == [phase : {"idle", "key", "store"}, cert : 0..MaxGen,
                        key : Nat, overtaken : BOOLEAN]
<1>1. load \in [Loads -> LoadType] /\ NoLoad \in LoadType
  BY ServingAssumption DEF TypeOK, NoLoad
<1>2. files.cert \in 1..MaxGen /\ files.key \in 1..MaxGen /\ KeyOf[files.key] \in Nat
  BY ServingAssumption DEF TypeOK
<1>3. ASSUME load' \in [Loads -> LoadType], served' \in [cert : 0..MaxGen, key : Nat],
             proc' \in {"loading", "failed", "ready", "running", "returned", "closing", "stopped"},
             faults' \in Nat, UNCHANGED <<files, servers>>
      PROVE  TypeOK'
  BY <1>3 DEF TypeOK, servers
<1>4. ASSUME NEW l \in LoadType, load' = [load EXCEPT ![j] = l]
      PROVE  load' \in [Loads -> LoadType]
  BY <1>1, <1>4
<1>5. CASE ReadCert(j)
  <2>1. load' \in [Loads -> LoadType]
    <3>1. CASE load' = [load EXCEPT ![j].phase = "key", ![j].cert = files.cert]
      <4>1. [load[j] EXCEPT !.phase = "key", !.cert = files.cert] \in LoadType
        <5>1. load[j] \in LoadType /\ files.cert \in 0..MaxGen
          BY <1>1, <1>2, ServingAssumption
        <5> QED BY <5>1
      <4>2. load' = [load EXCEPT ![j] = [load[j] EXCEPT !.phase = "key", !.cert = files.cert]]
        BY <3>1
      <4> QED BY <1>4, <4>1, <4>2
    <3>2. CASE Dropped(j)
      BY <1>1, <1>4, <3>2 DEF Dropped
    <3> QED BY <1>5, <3>1, <3>2, ReadCertEffect
  <2> QED BY <1>3, <1>5, <2>1, ReadCertEffect DEF TypeOK
<1>6. CASE ReadKey(j)
  <2>1. load' \in [Loads -> LoadType]
    <3>1. CASE load' = [load EXCEPT ![j].phase = "store", ![j].key = KeyOf[files.key]]
      BY <1>1, <1>2, <3>1
    <3>2. CASE Dropped(j)
      BY <1>1, <1>4, <3>2 DEF Dropped
    <3> QED BY <1>6, <3>1, <3>2, ReadKeyEffect
  <2> QED BY <1>3, <1>6, <2>1, ReadKeyEffect DEF TypeOK
<1>7. CASE Store(j)
  <2>1. load' \in [Loads -> LoadType]
    <3>1. ASSUME NEW k \in Loads, k # j
          PROVE  [load[k] EXCEPT !.overtaken = (load[k].phase # "idle")] \in LoadType
      BY <1>1
    <3> QED BY <1>1, <1>7, <3>1 DEF Store
  <2>2. served' \in [cert : 0..MaxGen, key : Nat]
    BY <1>1, <1>7 DEF Store
  <2> QED BY <1>3, <1>7, <2>1, <2>2 DEF Store, TypeOK
<1> QED BY <1>5, <1>6, <1>7

LEMMA ServerTypes ==
  ASSUME TypeOK, ServerStep
  PROVE  TypeOK'
<1> SUFFICES ASSUME NEW s \in Servers,
                    \/ Listen(s) \/ StopServing(s) \/ Arrive(s) \/ Respond(s)
                    \/ BeginShutdown(s) \/ EndShutdown(s) \/ Return(s)
             PROVE  TypeOK'
  BY DEF ServerStep
<1>1. CASE Listen(s)
  BY <1>1 DEF Listen, Ends, TypeOK, tls
<1>2. CASE StopServing(s)
  BY <1>2 DEF StopServing, Ends, TypeOK, tls
<1>3. CASE Arrive(s) \/ Respond(s)
  BY <1>3 DEF Arrive, Respond, TypeOK, tls
<1>4. CASE BeginShutdown(s) \/ EndShutdown(s)
  BY <1>4 DEF BeginShutdown, EndShutdown, Close, TypeOK, tls
<1>5. CASE Return(s)
  BY <1>5 DEF Return, Joined, Close, TypeOK, tls
<1> QED BY <1>1, <1>2, <1>3, <1>4, <1>5

LEMMA TypeStep == TypeOK /\ [Next]_vars => TypeOK'
<1> SUFFICES ASSUME TypeOK, [Next]_vars PROVE TypeOK'
  OBVIOUS
<1>1. CASE Renew
  <2>1. files'.cert \in 1..MaxGen /\ files'.key \in 1..MaxGen
        /\ files' = [cert |-> files'.cert, key |-> files'.key]
    <3>1. files.cert \in 1..MaxGen /\ files.key \in 1..MaxGen /\ MaxGen \in Nat
          /\ files = [cert |-> files.cert, key |-> files.key]
      BY ServingAssumption DEF TypeOK
    <3>2. CASE /\ files.cert = files.key /\ files.cert < MaxGen
               /\ \E f \in {"cert", "key"} : files' = [files EXCEPT ![f] = @ + 1]
      <4>1. files' = [files EXCEPT !.cert = @ + 1] \/ files' = [files EXCEPT !.key = @ + 1]
        BY <3>2
      <4>2. files.cert + 1 \in 1..MaxGen /\ files.key + 1 \in 1..MaxGen
        BY <3>1, <3>2
      <4> QED BY <3>1, <4>1, <4>2
    <3>3. CASE files' = [files EXCEPT !.cert = files.key] \/ files' = [files EXCEPT !.key = files.cert]
      BY <3>1, <3>3
    <3> QED BY <1>1, <3>2, <3>3 DEF Renew
  <2> QED BY <1>1, <2>1 DEF Renew, TypeOK, servers
<1>2. CASE LoadStep
  BY <1>2, LoadTypes DEF LoadStep
<1>3. CASE ServerStep
  BY <1>3, ServerTypes
<1>4. CASE MainStep
  BY <1>4 DEF MainStep, Signal, Run, RunReturns, RemoveJob, StopCron, TypeOK, tls, servers
<1>5. CASE UNCHANGED vars
  BY <1>5 DEF vars, tls, servers, TypeOK
<1> QED BY <1>1, <1>2, <1>3, <1>4, <1>5, StepKinds

-----------------------------------------------------------------------------
(* The certificate.                                                        *)

\* Files are only replaced by newer ones, and a certificate that was on disk with its
\* key has been so for good.
LEMMA FilesStep ==
  ASSUME TypeOK, FilesInStep, Renew
  PROVE  /\ FilesInStep' /\ files.cert <= files'.cert
         /\ \A g \in 1..MaxGen : BeenWhole(g) => BeenWhole(g)'
<1>1. files.cert \in Nat /\ files.key \in Nat /\ files = [cert |-> files.cert, key |-> files.key]
  BY DEF TypeOK
<1>2. /\ files'.cert \in Nat /\ files'.key \in Nat
      /\ files.cert <= files'.cert /\ files.key <= files'.key /\ files'.cert <= files'.key + 1
      /\ files'.key # files.key => files.key < files'.key /\ files.cert <= files'.key
  <2>1. CASE files.cert = files.key /\ \E f \in {"cert", "key"} : files' = [files EXCEPT ![f] = @ + 1]
    BY <1>1, <2>1
  <2>2. CASE files.cert < files.key /\ files' = [files EXCEPT !.cert = files.key]
    BY <1>1, <2>2
  <2>3. CASE files.key < files.cert /\ files' = [files EXCEPT !.key = files.cert]
    BY <1>1, <2>3 DEF FilesInStep
  <2> QED BY <2>1, <2>2, <2>3 DEF Renew
<1>3. ASSUME NEW g \in 1..MaxGen, BeenWhole(g)
      PROVE  BeenWhole(g)'
  <2>1. g \in Nat /\ g <= files'.cert
    BY <1>1, <1>2, <1>3, ServingAssumption DEF BeenWhole
  <2>2. CASE files'.key = files.key
    BY <1>1, <1>2, <1>3, <2>1, <2>2 DEF BeenWhole
  <2>3. CASE files'.key # files.key
    BY <1>1, <1>2, <1>3, <2>1, <2>3 DEF BeenWhole
  <2> QED BY <2>2, <2>3
<1> QED BY <1>2, <1>3 DEF FilesInStep

\* Where the files stay, so does what they say.
LEMMA FilesKept ==
  ASSUME UNCHANGED files
  PROVE  /\ FilesInStep' <=> FilesInStep
         /\ \A g \in 1..MaxGen : BeenWhole(g)' <=> BeenWhole(g)
BY DEF FilesInStep, BeenWhole

LEMMA RenewSound ==
  ASSUME TypeOK, TlsSound, Renew
  PROVE  TlsSound'
<1>1. UNCHANGED <<proc, served, load>>
  BY DEF Renew
<1>2. served.cert \in 0..MaxGen /\ files.cert \in Nat /\ files'.cert \in Nat /\ MaxGen \in Nat
  BY TypeStep, ServingAssumption DEF TypeOK, Next
<1>3. /\ FilesInStep' /\ files.cert <= files'.cert
      /\ \A g \in 1..MaxGen : BeenWhole(g) => BeenWhole(g)'
  BY FilesStep DEF TlsSound
<1>4. ASSUME NEW j \in Loads PROVE LoadSound(j)'
  <2>1. load[j].cert \in 1..MaxGen => load[j].cert \in Nat
    OBVIOUS
  <2> QED BY <1>1, <1>2, <1>3, <2>1 DEF TlsSound, LoadSound
<1>5. ServedSound'
  <2>1. served.cert # 0 => served.cert \in 1..MaxGen
    BY <1>2
  <2> QED BY <1>1, <1>2, <1>3, <2>1 DEF TlsSound, ServedSound
<1> QED BY <1>1, <1>3, <1>4, <1>5 DEF TlsSound, StartSound

LEMMA StoreSound ==
  ASSUME TypeOK, TlsSound, NEW j \in Loads, Store(j)
  PROVE  TlsSound'
<1> DEFINE l == load[j]
<1>1. l.cert \in 1..MaxGen /\ l.cert <= files.cert /\ l.key = KeyOf[l.cert] /\ BeenWhole(l.cert)
  BY DEF TlsSound, LoadSound, Store
<1>2. /\ UNCHANGED files /\ served'.cert = l.cert /\ served'.key = l.key
      /\ proc' = IF j = Startup THEN "ready" ELSE proc
      /\ load' = [k \in Loads |-> IF k = j THEN NoLoad
                                  ELSE [load[k] EXCEPT !.overtaken = (load[k].phase # "idle")]]
  BY DEF Store
<1>3. ASSUME NEW k \in Loads PROVE LoadSound(k)'
  <2>1. CASE k = j
    BY <1>2, <2>1 DEF LoadSound, NoLoad
  <2>2. CASE k # j
    <3>1. /\ load'[k].phase = load[k].phase /\ load'[k].cert = load[k].cert
          /\ load'[k].key = load[k].key /\ load'[k].overtaken = (load[k].phase # "idle")
      BY <1>2, <2>2 DEF TypeOK
    <3> QED BY <1>2, <3>1, FilesKept DEF TlsSound, LoadSound
  <2> QED BY <2>1, <2>2
<1>4. ServedSound'
  BY <1>1, <1>2, FilesKept DEF ServedSound
<1>5. StartSound'
  <2>1. CASE j = Startup
    BY <1>2, <2>1 DEF StartSound, NoLoad
  <2>2. CASE j # Startup
    BY <1>2, <2>2 DEF TlsSound, StartSound, Loads, TypeOK
  <2> QED BY <2>1, <2>2
<1> QED BY <1>2, <1>3, <1>4, <1>5, FilesKept DEF TlsSound

LEMMA DropSound ==
  ASSUME TypeOK, TlsSound, NEW j \in Loads, Dropped(j), UNCHANGED files,
         proc' = IF j = Startup THEN "failed" ELSE proc
  PROVE  TlsSound'
<1>1. \A k \in Loads : load'[k] = IF k = j THEN NoLoad ELSE load[k]
  BY DEF Dropped, TypeOK
<1>2. \A k \in Loads : LoadSound(k)'
  BY <1>1, FilesKept DEF TlsSound, LoadSound, NoLoad, Dropped
<1>3. ServedSound'
  <2>1. served.cert # 0 => served.cert \in 1..MaxGen
    BY ServingAssumption DEF TypeOK
  <2> QED BY <2>1, FilesKept DEF TlsSound, ServedSound, Dropped
<1>4. StartSound'
  BY <1>1 DEF TlsSound, StartSound, NoLoad, Loads
<1> QED BY <1>2, <1>3, <1>4, FilesKept DEF TlsSound

LEMMA ReadSound ==
  ASSUME TypeOK, TlsSound, NEW j \in Loads, ReadCert(j) \/ ReadKey(j)
  PROVE  TlsSound'
<1>1. UNCHANGED <<files, served>>
  BY ReadCertEffect, ReadKeyEffect
<1>2. files.cert \in 1..MaxGen /\ served.cert \in 0..MaxGen
  BY DEF TypeOK
<1>3. CASE Dropped(j) /\ proc' = IF j = Startup THEN "failed" ELSE proc
  BY <1>1, <1>3, DropSound
<1>4. ASSUME UNCHANGED proc, load'[j].phase # "idle" => LoadSound(j)',
             \A k \in Loads : k # j => load'[k] = load[k],
             j = Startup => proc = "loading"
      PROVE  TlsSound'
  <2>1. \A k \in Loads : LoadSound(k)'
    BY <1>1, <1>4, FilesKept DEF TlsSound, LoadSound
  <2>2. ServedSound'
    <3>1. served.cert # 0 => served.cert \in 1..MaxGen
      BY <1>2
    <3> QED BY <1>1, <1>4, <3>1, FilesKept DEF TlsSound, ServedSound
  <2>3. StartSound'
    BY <1>4 DEF TlsSound, StartSound, Loads
  <2> QED BY <1>1, <2>1, <2>2, <2>3, FilesKept DEF TlsSound
<1>5. CASE /\ ReadCert(j) /\ UNCHANGED proc
           /\ load' = [load EXCEPT ![j].phase = "key", ![j].cert = files.cert]
  <2>1. load'[j].phase = "key" /\ load'[j].cert = files.cert
    BY <1>5 DEF TypeOK
  <2>2. LoadSound(j)'
    BY <1>1, <1>2, <2>1 DEF LoadSound, TlsSound, ServedSound
  <2> QED BY <1>4, <1>5, <2>2, ReadCertEffect DEF TypeOK
<1>6. CASE /\ ReadKey(j) /\ UNCHANGED proc /\ KeyOf[load[j].cert] = KeyOf[files.key]
           /\ load' = [load EXCEPT ![j].phase = "store", ![j].key = KeyOf[files.key]]
  <2>1. /\ load'[j].phase = "store" /\ load'[j].key = KeyOf[load[j].cert]
        /\ load'[j].cert = load[j].cert /\ load'[j].overtaken = load[j].overtaken
    BY <1>6 DEF TypeOK
  <2>2. LoadSound(j) /\ load[j].phase = "key"
    BY <1>6, ReadKeyEffect DEF TlsSound
  <2>3. BeenWhole(load[j].cert)
    BY <1>6, <2>2 DEF LoadSound, BeenWhole
  <2>4. LoadSound(j)'
    BY <1>1, <2>1, <2>2, <2>3, FilesKept DEF LoadSound
  <2>5. j = Startup => proc = "loading"
    BY <2>2 DEF TlsSound, StartSound
  <2> QED BY <1>4, <1>6, <2>4, <2>5 DEF TypeOK
<1> QED BY <1>3, <1>5, <1>6, ReadCertEffect, ReadKeyEffect

\* The other steps leave the files, the loader and the loads.
LEMMA OtherSound ==
  ASSUME TypeOK, TlsSound, UNCHANGED tls,
         proc' # proc => proc' \notin {"loading", "failed"} /\ proc \notin {"loading", "failed"}
  PROVE  TlsSound'
<1>1. UNCHANGED <<files, served, load>>
  BY DEF tls
<1>2. \A j \in Loads : LoadSound(j)'
  BY <1>1, FilesKept DEF TlsSound, LoadSound
<1>3. ServedSound'
  <2>1. served.cert # 0 => served.cert \in 1..MaxGen
    BY ServingAssumption DEF TypeOK
  <2> QED BY <1>1, <2>1, FilesKept DEF TlsSound, ServedSound
<1>4. StartSound'
  BY <1>1 DEF TlsSound, StartSound
<1> QED BY <1>1, <1>2, <1>3, <1>4, FilesKept DEF TlsSound

LEMMA TlsStep == TypeOK /\ TlsSound /\ [Next]_vars => TlsSound'
<1> SUFFICES ASSUME TypeOK, TlsSound, [Next]_vars PROVE TlsSound'
  OBVIOUS
<1>1. CASE Renew
  BY <1>1, RenewSound
<1>2. CASE LoadStep
  BY <1>2, ReadSound, StoreSound DEF LoadStep
<1>3. CASE ServerStep
  <2>1. UNCHANGED <<proc, tls>>
    BY <1>3 DEF ServerStep, Listen, StopServing, Arrive, Respond, BeginShutdown, EndShutdown, Return
  <2> QED BY <2>1, OtherSound
<1>4. CASE MainStep
  <2>1. /\ UNCHANGED tls
        /\ proc' # proc => proc' \notin {"loading", "failed"} /\ proc \notin {"loading", "failed"}
    BY <1>4 DEF MainStep, Signal, Run, RunReturns, RemoveJob, StopCron
  <2> QED BY <2>1, OtherSound
<1>5. CASE UNCHANGED vars
  BY <1>5, OtherSound DEF vars
<1> QED BY <1>1, <1>2, <1>3, <1>4, <1>5, StepKinds

-----------------------------------------------------------------------------
(* The servers.                                                            *)

\* Who has failed stays so, so the error of the group keeps its reason.
LEMMA ServersStep == Sound /\ [Next]_vars => ServersSound'
<1> SUFFICES ASSUME TypeOK, TlsSound, ServersSound, [Next]_vars PROVE ServersSound'
  BY DEF Sound
<1>1. CASE Renew
  BY <1>1 DEF Renew, servers, ServersSound
<1>2. CASE LoadStep
  <2>1. UNCHANGED servers
    BY <1>2 DEF LoadStep, ReadCert, ReadKey, Store
  <2>2. PICK j \in Loads : ReadCert(j) \/ ReadKey(j) \/ Store(j)
    BY <1>2 DEF LoadStep
  <2>3. proc' # proc => proc = "loading" /\ proc' \in {"failed", "ready"}
    <3>1. proc' # proc => j = Startup /\ proc' \in {"failed", "ready"}
      BY <2>2, ReadCertEffect, ReadKeyEffect DEF Store
    <3>2. j = Startup => proc = "loading"
      BY <2>2, ReadCertEffect, ReadKeyEffect DEF Store, TlsSound, StartSound
    <3> QED BY <3>1, <3>2
  <2> QED BY <2>1, <2>3 DEF servers, ServersSound, Before, After
<1>3. ASSUME NEW s \in Servers, Listen(s) \/ StopServing(s)
      PROVE  ServersSound'
  <2>1. /\ UNCHANGED <<proc, closing, open, failure>>
        /\ serving[s] \in {"starting", "serving"}
        /\ \E how \in {"serving", "failed", "closed"} : serving' = [serving EXCEPT ![s] = how]
    BY <1>3 DEF Listen, StopServing, Ends
  <2>2. closing[s] \notin {"done", "givenUp"} /\ \A r \in Servers : r # s => serving'[r] = serving[r]
    BY <2>1 DEF ServersSound, TypeOK
  <2>3. \A r \in Servers : serving[r] = "failed" => serving'[r] = "failed"
    BY <2>1, <2>2
  <2> QED BY <2>1, <2>2, <2>3 DEF ServersSound
<1>4. ASSUME NEW s \in Servers, Arrive(s) \/ Respond(s)
      PROVE  ServersSound'
  <2>1. /\ UNCHANGED <<proc, closing, serving, failure>>
        /\ \A r \in Servers : r # s => open'[r] = open[r]
    BY <1>4 DEF Arrive, Respond, TypeOK
  <2>2. closing[s] = "drained" => open[s] > 0
    BY <1>4 DEF Arrive, Respond, Shut
  <2>3. closing[s] = "done" => open[s] > 0
    BY <1>4 DEF Arrive, Respond, Shut
  <2> QED BY <2>1, <2>2, <2>3 DEF ServersSound, TypeOK
<1>5. ASSUME NEW s \in Servers, BeginShutdown(s) \/ EndShutdown(s)
      PROVE  ServersSound'
  <2>1. /\ UNCHANGED <<proc, serving, open, failure>> /\ closing[s] \in {"waiting", "draining"}
        /\ \A r \in Servers : r # s => closing'[r] = closing[r]
        /\ closing'[s] \in {"draining", "drained", "timeout"}
        /\ closing'[s] = "drained" => open[s] = 0
    BY <1>5 DEF BeginShutdown, EndShutdown, Close, TypeOK
  <2> QED BY <2>1 DEF ServersSound, After
<1>6. ASSUME NEW s \in Servers, Return(s)
      PROVE  ServersSound'
  <2>1. /\ UNCHANGED <<proc, serving, open>> /\ closing[s] \in {"drained", "timeout"}
        /\ serving[s] \in {"failed", "closed"}
        /\ failure' = IF failure = "none" THEN Joined(s) ELSE failure
        /\ \A r \in Servers : r # s => closing'[r] = closing[r]
        /\ closing'[s] = IF closing[s] = "timeout" THEN "givenUp" ELSE "done"
    BY <1>6 DEF Return, Close, TypeOK
  <2>2. proc \notin After
    BY <2>1 DEF ServersSound
  <2>3. Joined(s) = "none" => serving[s] = "closed" /\ closing'[s] = "done" /\ open[s] = 0
    BY <2>1 DEF Joined, ServersSound
  <2>4. /\ Joined(s) = "serve" => serving[s] = "failed"
        /\ Joined(s) = "shutdown" => closing'[s] = "givenUp"
    BY <2>1 DEF Joined
  <2>5. proc' \in Before => failure' = "none"
    <3>1. proc \in Before => \A r \in Servers : closing[r] = "off"
      BY DEF ServersSound
    <3> QED BY <2>1, <3>1
  <2> QED BY <2>1, <2>2, <2>3, <2>4, <2>5 DEF ServersSound
<1>7. CASE Run
  BY <1>7 DEF Run, ServersSound, Before, After
<1>8. CASE Signal \/ RunReturns \/ RemoveJob \/ StopCron
  BY <1>8 DEF Signal, RunReturns, RemoveJob, StopCron, servers, ServersSound, Before, After
<1>9. CASE UNCHANGED vars
  BY <1>9 DEF vars, servers, ServersSound
<1> QED
  BY <1>1, <1>2, <1>3, <1>4, <1>5, <1>6, <1>7, <1>8, <1>9, StepKinds DEF ServerStep, MainStep

-----------------------------------------------------------------------------
(* The theorems.                                                           *)

\* Types, loads, what is served and what the servers report stay sound.
THEOREM ServingIsSound == Spec => []Sound
<1>1. Sound /\ [Next]_vars => Sound'
  BY TypeStep, TlsStep, ServersStep DEF Sound
<1> QED BY <1>1, InitSound, PTL DEF Spec

\* Every variable keeps its type.
THEOREM TypeCorrect == Spec => []TypeOK
<1>1. Sound => TypeOK
  BY DEF Sound
<1> QED BY <1>1, ServingIsSound, PTL

\* tls.go:54-66.  Whenever the program runs it serves a certificate with its own key,
\* which had been on disk together.
THEOREM AlwaysServedWhole == Spec => []ServedWhole
<1>1. Sound => ServedWhole
  BY DEF Sound, TlsSound, ServedSound, ServedWhole
<1> QED BY <1>1, ServingIsSound, PTL

\* tls.go:60-62.  Without overlapping reloads the certificate never goes back.
THEOREM OnlyOverlapsEverGoBack == Spec => OnlyOverlapsGoBack
<1>1. ASSUME Sound, [Next]_vars, served'.cert < served.cert
      PROVE  \E j \in Loads : /\ load[j].overtaken /\ load[j].phase = "store"
                              /\ load[j].cert = served'.cert
  <2>1. PICK j \in Loads : Store(j)
    <3>0. served' # served
      <4>1. served.cert \in Nat
        BY <1>1, ServingAssumption DEF Sound, TypeOK
      <4> QED BY <1>1, <4>1
    <3>1. LoadStep
      BY <1>1, <3>0, StepKinds DEF Renew, ServerStep, MainStep, vars, tls, Listen, StopServing, Arrive,
           Respond, BeginShutdown, EndShutdown, Return, Signal, Run, RunReturns, RemoveJob, StopCron
    <3>2. \A j \in Loads : ~ReadCert(j) /\ ~ReadKey(j)
      BY <1>1, <3>0, ReadCertEffect, ReadKeyEffect DEF Sound
    <3> QED BY <3>1, <3>2 DEF LoadStep
  <2>2. load[j].phase = "store" /\ served'.cert = load[j].cert
    BY <2>1 DEF Store
  <2>3. ~load[j].overtaken => served.cert <= load[j].cert
    BY <1>1, <2>2 DEF Sound, TlsSound, LoadSound
  <2>4. served.cert \in Nat /\ load[j].cert \in Nat
    <3>1. load[j] \in [phase : {"idle", "key", "store"}, cert : 0..MaxGen,
                       key : Nat, overtaken : BOOLEAN]
      BY <1>1 DEF Sound, TypeOK
    <3> QED BY <1>1, <3>1, ServingAssumption DEF Sound, TypeOK
  <2> QED BY <1>1, <2>2, <2>3, <2>4
<1>2. Sound /\ [Next]_vars =>
        [served'.cert < served.cert =>
           \E j \in Loads : /\ load[j].overtaken /\ load[j].phase = "store"
                            /\ load[j].cert = served'.cert]_served
  BY <1>1
<1> QED BY <1>2, ServingIsSound, PTL DEF Spec, OnlyOverlapsGoBack

\* server.go:347-366.  What Run returns is true of its servers, and none is left.
THEOREM RunAlwaysReports == Spec => []RunReports
<1>1. Sound => RunReports
  BY DEF Sound, ServersSound, After, RunReports
<1> QED BY <1>1, ServingIsSound, PTL
=============================================================================
