-------------------------- MODULE VpnServiceProofs --------------------------
(***************************************************************************)
(* Proofs about the Go client, for any threads and any number of sessions, *)
(* and about the VPN service, for any number of requests.                  *)
(*                                                                         *)
(* ClientInv is inductive.  What its two properties rest on is that mu is  *)
(* held by exactly the thread that is setting a session up, that this      *)
(* session is not published yet, and that no other one serves meanwhile;   *)
(* the service rests besides on what cancelFunc says of its session.       *)
(*                                                                         *)
(* A step of the service is a step of the Go client or leaves it alone, so *)
(* that what is proved of the client holds here.  VpnInv adds where a job  *)
(* stands in the client (CallInv), to which instance it belongs (InstInv), *)
(* which steps its request may be at (OpInv) and, for requests that come   *)
(* one after the other, what is held at each step (OrderlyInv).            *)
(***************************************************************************)
EXTENDS VpnService, FiniteSetTheorems, TLAPS

-----------------------------------------------------------------------------
(* Start and Stop of the Go client *)

SetsUp(t) == at[t] \in {"dial", "auth"}

\* mu is held by the thread that sets a session up, if there is one.
LockInv ==
  /\ \A t \in Callers : SetsUp(t) <=> mu = t
  /\ mu # None => ~running

\* What a session is before it is published.
FreshInv ==
  /\ \A t \in Callers : SetsUp(t) =>
       mine[t] \in Sessions /\ ctx[mine[t]] = "live" /\ serve[mine[t]] = "none"
  /\ \A s \in Sessions : ctx[s] = "unused" => serve[s] = "none"

\* The session of cancelFunc was published, nobody has cancelled it, and no other one
\* serves.
OwnInv ==
  cancelFunc # None =>
    /\ serve[cancelFunc] # "none" /\ ctx[cancelFunc] = "live"
    /\ \A s \in Sessions : Serving(s) => s = cancelFunc

\* A session that nobody has cancelled listens while it accepts, and closes its
\* connection last.
ServeInv ==
  \A s \in Sessions :
    /\ serve[s] = "accept" /\ ctx[s] = "live" => ln[s] = "open"
    /\ Serving(s) => quic[s] # "closed"

ClientInv ==
  ClientTypeOK /\ LockInv /\ FreshInv /\ RunningIsServing /\ CanBeStopped /\ OwnInv /\ ServeInv

\* Nothing is running at first.
LEMMA ClientInitInv == ClientInit => ClientInv
<1> SUFFICES ASSUME ClientInit PROVE ClientInv
  OBVIOUS
<1>1. ClientTypeOK
  BY DEF ClientInit, ClientTypeOK
<1>2. LockInv /\ FreshInv
  BY GoClientAssumption DEF ClientInit, LockInv, FreshInv, SetsUp
<1>3. \A s \in Sessions : ~Serving(s)
  BY DEF ClientInit, Serving
<1>4. running = FALSE
  BY DEF ClientInit
<1> QED
  BY <1>1, <1>2, <1>3, <1>4 DEF ClientInv, RunningIsServing, CanBeStopped, OwnInv, ServeInv,
     ClientInit

\* A thread in Start or Stop keeps the invariant.
LEMMA CallersKeep ==
  ASSUME ClientInv, NEW t \in Callers,
         StartCall(t) \/ StopCall(t) \/ Acquire(t) \/ SetUp(t)
  PROVE  ClientInv'
<1> USE GoClientAssumption
<1> USE DEF ClientInv, ClientTypeOK, LockInv, FreshInv, SetsUp, RunningIsServing,
            CanBeStopped, OwnInv, ServeInv, Serving
<1>1. CASE StartCall(t)
  BY <1>1 DEF StartCall, CallerOnly
<1>2. CASE StopCall(t)
  BY <1>2 DEF StopCall, CallerOnly
<1>3. CASE StartRefused(t)
  BY <1>3 DEF StartRefused, CallerOnly
<1>4. CASE StartLock(t)
  BY <1>4 DEF StartLock
<1>5. CASE Stop(t)
  BY <1>5 DEF Stop
<1>6. CASE DialOK(t)
  BY <1>6 DEF DialOK
<1>7. CASE DialFail(t)
  BY <1>7 DEF DialFail, StartFails
<1>8. CASE AuthFail(t)
  BY <1>8 DEF AuthFail, StartFails
<1>9. CASE AuthOK(t)
  BY <1>9 DEF AuthOK
<1> QED
  BY <1>1, <1>2, <1>3, <1>4, <1>5, <1>6, <1>7, <1>8, <1>9 DEF Acquire, SetUp

\* A goroutine of a session keeps it, and so does the loss of a connection.
LEMMA SessionsKeep ==
  ASSUME ClientInv, NEW s \in Sessions, Serve(s) \/ AcceptFails(s) \/ QuicLost(s)
  PROVE  ClientInv'
<1> USE GoClientAssumption
<1> USE DEF ClientInv, ClientTypeOK, LockInv, FreshInv, SetsUp, RunningIsServing,
            CanBeStopped, OwnInv, ServeInv, Serving, ServeAt
<1>1. CASE Listen(s)
  BY <1>1 DEF Listen
<1>2. CASE ListenFails(s)
  BY <1>2 DEF ListenFails
<1>3. CASE AcceptFails(s)
  BY <1>3 DEF AcceptFails
<1>4. CASE AcceptEnds(s)
  BY <1>3, <1>4 DEF AcceptEnds
<1>5. CASE StoreStopped(s)
  <2>1. Serving(s) /\ \A r \in Sessions : Serving(r) => r = s
    BY <1>5 DEF StoreStopped
  <2>2. \A r \in Sessions : serve'[r] = IF r = s THEN "close" ELSE serve[r]
    BY <1>5 DEF StoreStopped
  <2>3. \A r \in Sessions : ~Serving(r)'
    BY <2>1, <2>2
  <2>4. running' = FALSE
    BY <1>5 DEF StoreStopped
  <2>5. (ClientTypeOK /\ LockInv /\ FreshInv)'
    <3>1. ClientTypeOK'
      BY <1>5, <2>2 DEF StoreStopped
    <3>2. LockInv'
      BY <1>5 DEF StoreStopped
    <3>3. FreshInv'
      BY <1>5, <2>2 DEF StoreStopped
    <3> QED
      BY ONLY <3>1, <3>2, <3>3
  <2>6. (OwnInv /\ ServeInv)'
    <3>1. (cancelFunc # None => serve[cancelFunc] # "none" /\ ctx[cancelFunc] = "live")'
      BY <1>5 DEF StoreStopped
    <3>2. \A r \in Sessions : serve'[r] = "accept" => serve[r] = "accept"
      BY <2>2
    <3> QED
      BY <1>5, <2>3, <3>1, <3>2 DEF StoreStopped
  <2> QED
    BY ONLY <2>3, <2>4, <2>5, <2>6 DEF ClientInv, RunningIsServing, CanBeStopped
<1>6. CASE CloseQuic(s)
  BY <1>6 DEF CloseQuic
<1>7. CASE CloseListener(s)
  BY <1>7 DEF CloseListener
<1>8. CASE QuicLost(s)
  BY <1>8 DEF QuicLost
<1> QED
  BY <1>1, <1>2, <1>3, <1>4, <1>5, <1>6, <1>7, <1>8 DEF Serve

\* The invariant holds of every behaviour of the client.
THEOREM ClientInvariant == ClientSpec => []ClientInv
<1>1. ClientInv /\ UNCHANGED clientVars => ClientInv'
  BY DEF ClientInv, ClientTypeOK, LockInv, FreshInv, SetsUp, RunningIsServing, CanBeStopped,
         OwnInv, ServeInv, Serving, clientVars
<1>2. ClientInv /\ ClientNext => ClientInv'
  BY CallersKeep, SessionsKeep DEF ClientNext
<1> QED
  BY <1>1, <1>2, ClientInitInv, PTL DEF ClientSpec

\* running is true exactly while one session serves (client.running, stored by
\* start and by the goroutine of the session).
THEOREM ClientRunningIsServing == ClientSpec => []RunningIsServing
BY ClientInvariant, PTL DEF ClientInv

\* A session that serves can be stopped (client.cancelFunc).
THEOREM ClientCanBeStopped == ClientSpec => []CanBeStopped
BY ClientInvariant, PTL DEF ClientInv

\* The variables of the client keep their types.
THEOREM ClientTypeCorrect == ClientSpec => []ClientTypeOK
BY ClientInvariant, PTL DEF ClientInv

-----------------------------------------------------------------------------
(* The service *)

allVars == <<clientVars, vpnVars>>

ConnectSteps == {"start", "establish", "worker", "run", "connected"}
Waiting == {"none", "queued", "sent"}

\* A job is in the Go client exactly while it stands at start or at c5.
CallInv ==
  \A j \in Callers :
    /\ step[j] = "start" => at[j] \in {"start", "dial", "auth"}
    /\ step[j] = "c5" => at[j] = "stop"
    /\ step[j] \notin {"start", "c5"} => at[j] = "idle"

\* The requests that have been made, and the steps each kind takes.
OpInv ==
  \A j \in Callers :
    /\ j > jobs <=> step[j] = "none"
    /\ step[j] \in ConnectSteps => op[j] = "connect"
    /\ step[j] \in Waiting \cup {"launched"} => op[j] # "destroy"

\* The instance the system has is its own first job's, and was never destroyed; while
\* it is being destroyed it stays.
InstInv ==
  /\ \A j \in Callers : step[j] \in Waiting <=> inst[j] = None
  /\ svc # None => inst[svc] # None /\ svc \notin cancelled
  /\ \A i \in cancelled : inst[i] # None
  /\ stopAsked => svc # None
  /\ \A j \in Callers : op[j] = "destroy" /\ UnderWay(j) =>
       /\ inst[j] = svc /\ stopAsked
       /\ \A k \in Callers : op[k] = "destroy" /\ UnderWay(k) => j = k

\* One job at a time; when the instance is to go, only its onDestroy.
OneByOne ==
  /\ \A j, k \in Callers : UnderWay(j) /\ UnderWay(k) => j = k
  /\ \A j \in Callers :
       /\ step[j] # "queued"
       /\ UnderWay(j) /\ step[j] # "sent" => inst[j] = svc
       /\ UnderWay(j) /\ stopAsked => op[j] = "destroy"

\* What is open is what the fields of the instance name.
NothingElse ==
  /\ \A d \in fds : svc # None /\ tunPfd[svc] = d
  /\ \A w \in workers : svc # None /\ tunWorker[svc] = w

Nothing == fds = {} /\ workers = {} /\ cancelFunc = None

\* The instance the system has holds everything.
Held ==
  /\ svc # None /\ tunPfd[svc] \in fds
  /\ tunWorker[svc] \in workers /\ reads[tunWorker[svc]] = tunPfd[svc]
  /\ cancelFunc # None

\* What is held at each step, when isRunning is set and when it is not.
HeldAt(j) ==
  /\ isRunning => step[j] \in {"none", "end", "sent", "launched", "c1"}
  /\ isRunning /\ UnderWay(j) => op[j] # "connect"
  /\ step[j] = "establish" => fds = {} /\ workers = {} /\ cancelFunc # None
  /\ step[j] = "worker" => tunPfd[svc] \in fds /\ workers = {} /\ cancelFunc # None
  /\ step[j] \in {"run", "connected"} =>
       /\ tunPfd[svc] \in fds /\ tunWorker[svc] = j /\ reads[j] = tunPfd[svc]
       /\ cancelFunc # None
  /\ step[j] = "run" => workers = {}
  /\ step[j] = "connected" => j \in workers
  /\ step[j] = "c3" => workers = {}
  /\ step[j] \in {"c4", "c5"} => fds = {} /\ workers = {}

RestSteps == {"none", "end", "sent", "launched", "start", "after"}
AtRest == \A j \in Callers : step[j] \in RestSteps

OrderlyInv ==
  /\ OneByOne
  /\ NothingElse
  /\ \A j \in Callers : HeldAt(j)
  /\ isRunning => Held
  /\ ~isRunning /\ AtRest => Nothing

\* The same, for a job that is alone.
HeldBy(j) ==
  /\ HeldAt(j) /\ NothingElse
  /\ isRunning => Held
  /\ ~isRunning /\ step[j] \in RestSteps => Nothing

FieldTypes ==
  /\ isRunning \in BOOLEAN
  /\ tunPfd \in [Callers -> Callers \cup {None}]
  /\ tunWorker \in [Callers -> Callers \cup {None}]
  /\ reads \in [Callers -> Callers \cup {None}]
  /\ fds \subseteq Callers /\ workers \subseteq Callers

VpnInv == VpnTypeOK /\ CallInv /\ OpInv /\ InstInv /\ (orderly => OrderlyInv)

-----------------------------------------------------------------------------
(* The service drives the Go client as ClientSpec allows. *)

\* Every step of the service is one of the client or leaves the client alone.
LEMMA StepsOfClient == [VpnNext]_allVars => [ClientNext]_clientVars
<1> SUFFICES ASSUME [VpnNext]_allVars PROVE [ClientNext]_clientVars
  OBVIOUS
<1>1. CASE UNCHANGED allVars
  BY <1>1 DEF allVars
<1>2. CASE Click \/ NotificationDisconnect \/ Revoke \/ OnDestroy
  BY <1>2 DEF Click, NotificationDisconnect, Request, Revoke, OnDestroy
<1>3. ASSUME NEW j \in Callers, JobStep(j) PROVE [ClientNext]_clientVars
  <2>1. CASE BeginConnect(j) \/ StartDials(j) \/ StartReturns(j) \/ CallStop(j)
    BY <2>1 DEF BeginConnect, StartDials, StartReturns, CallStop, ClientNext, SetUp
  <2>2. CASE OnStartCommand(j) \/ NeverRuns(j) \/ BeginDisconnect(j) \/ Establish(j)
             \/ EstablishThrows(j) \/ MakeWorker(j) \/ WorkerThrows(j) \/ StartWorker(j)
             \/ SetRunning(j)
    BY <2>2 DEF OnStartCommand, NeverRuns, BeginDisconnect, Establish, EstablishThrows,
                MakeWorker, WorkerThrows, StartWorker, SetRunning
  <2>3. CASE ClearRunning(j) \/ StopWorker(j) \/ CloseTun(j) \/ StopSelf(j) \/ Destroyed(j)
    BY <2>3 DEF ClearRunning, StopWorker, CloseTun, StopSelf, Destroyed
  <2> QED
    BY <1>3, <2>1, <2>2, <2>3 DEF JobStep
<1>4. ASSUME NEW j \in Callers, JobLocks(j) PROVE ClientNext
  BY <1>4 DEF JobLocks, StartThrows, StartLocks, StopDone, ClientNext, Acquire, SetUp
<1>5. ASSUME NEW s \in Sessions, GoStep(s) \/ ListenerFails(s) PROVE ClientNext
  BY <1>5 DEF GoStep, ListenerFails, ClientNext
<1> QED
  BY <1>1, <1>2, <1>3, <1>4, <1>5 DEF VpnNext

\* The requests of the service, however they overlap, call Start and Stop as any
\* threads may: the service implements the specification of the Go client.
THEOREM VpnImplementsClient == VpnSpec => ClientSpec
<1>1. VpnInit => ClientInit
  BY DEF VpnInit
<1> QED
  BY <1>1, StepsOfClient, PTL DEF VpnSpec, ClientSpec, allVars

-----------------------------------------------------------------------------
(* Requests *)

\* Jobs are numbered from 1 on.
LEMMA JobsAreNumbers ==
  \A j \in Callers : j \in Nat /\ j > 0 /\ j \in 0 .. Cardinality(Callers)
<1> DEFINE N == Cardinality(Callers)
<1>1. Callers = 1 .. N
  BY VpnAssumption
<1> HIDE DEF N
<1>2. \A j \in 1 .. N : j \in Nat /\ j > 0 /\ j \in 0 .. N
  OBVIOUS
<1> QED
  BY <1>1, <1>2 DEF N

\* The new job was none before.
LEMMA FreshJob ==
  ASSUME VpnInv, jobs + 1 \in Callers
  PROVE  /\ step[jobs + 1] = "none" /\ inst[jobs + 1] = None
         /\ svc # jobs + 1 /\ jobs + 1 \notin cancelled
         /\ jobs \in Nat
<1>1. jobs \in Nat
  BY DEF VpnInv, VpnTypeOK
<1>2. step[jobs + 1] = "none"
  BY <1>1 DEF VpnInv, OpInv
<1>3. inst[jobs + 1] = None
  BY <1>2 DEF VpnInv, InstInv, Waiting
<1>4. svc # jobs + 1
  <2>1. CASE svc = None
    BY <2>1, GoClientAssumption
  <2>2. CASE svc # None
    BY <2>2, <1>3 DEF VpnInv, InstInv
  <2> QED
    BY <2>1, <2>2
<1> QED
  BY <1>1, <1>2, <1>3, <1>4 DEF VpnInv, InstInv

\* A new request keeps the invariant; it is orderly only if nothing was under way.
LEMMA RequestKeeps ==
  ASSUME VpnInv, NEW what \in {"connect", "disconnect"},
         what = "connect" => ~isRunning, Request(what)
  PROVE  VpnInv'
<1> DEFINE n == jobs + 1
<1>1. n \in Callers /\ jobs' = n
  BY DEF Request, NewJob
<1>2. /\ step[n] = "none" /\ inst[n] = None /\ svc # n /\ n \notin cancelled /\ jobs \in Nat
  BY <1>1, FreshJob
<1> HIDE DEF n
<1>3. PICK at0 \in {"queued", "sent"} :
        /\ at0 = "queued" => stopAsked
        /\ op' = [op EXCEPT ![n] = what] /\ step' = [step EXCEPT ![n] = at0]
  BY DEF Request, NewJob, n
<1>4. /\ UNCHANGED <<clientVars, inst, sysVars, fieldVars>>
      /\ orderly' = (orderly /\ Quiet)
  BY DEF Request
<1>5. VpnTypeOK'
  <2>1. jobs' \in 0 .. Cardinality(Callers)
    BY <1>1, JobsAreNumbers
  <2>2. orderly' \in BOOLEAN
    BY <1>4
  <2> QED
    BY <1>1, <1>3, <1>4, <2>1, <2>2 DEF VpnInv, VpnTypeOK, sysVars, fieldVars, Steps
<1>6. CallInv'
  BY <1>1, <1>2, <1>3, <1>4 DEF VpnInv, VpnTypeOK, CallInv, clientVars
<1>7. OpInv'
  <2>1. \A j \in Callers : j > n <=> j > jobs /\ j # n
    BY <1>2, JobsAreNumbers DEF n
  <2>2. ~(n > n)
    BY <1>1, JobsAreNumbers
  <2>3. \A j \in Callers :
          /\ step'[j] = IF j = n THEN at0 ELSE step[j]
          /\ op'[j] = IF j = n THEN what ELSE op[j]
    BY <1>1, <1>3 DEF VpnInv, VpnTypeOK
  <2> QED
    BY <1>1, <2>1, <2>2, <2>3 DEF VpnInv, OpInv, ConnectSteps, Waiting
<1>8. InstInv'
  BY <1>1, <1>2, <1>3, <1>4 DEF VpnInv, VpnTypeOK, InstInv, UnderWay, Waiting, sysVars
<1>9. ASSUME orderly' PROVE OrderlyInv'
  <2>1. orderly /\ ~stopAsked /\ \A j \in Callers : ~UnderWay(j)
    BY <1>4, <1>9 DEF Quiet, VpnInv, VpnTypeOK
  <2>2. OrderlyInv
    BY <2>1 DEF VpnInv
  <2>3. \A j \in Callers : step[j] \in {"none", "end"}
    BY <2>1 DEF UnderWay
  <2>4. \A j \in Callers : step'[j] = IF j = n THEN "sent" ELSE step[j]
    BY <1>1, <1>3, <2>1 DEF VpnInv, VpnTypeOK
  <2>5. \A j \in Callers : op'[j] = IF j = n THEN what ELSE op[j]
    BY <1>1, <1>3 DEF VpnInv, VpnTypeOK
  <2>6. AtRest
    BY <2>3 DEF AtRest, RestSteps
  <2>7. OneByOne'
    BY <1>1, <1>4, <2>1, <2>3, <2>4 DEF OneByOne, UnderWay, sysVars
  <2>8. NothingElse' /\ (isRunning => Held)'
    BY <1>4, <2>2 DEF OrderlyInv, NothingElse, Held, sysVars, fieldVars, clientVars
  <2>9. \A j \in Callers : HeldAt(j)'
    BY <1>1, <1>4, <2>3, <2>4, <2>5 DEF HeldAt, UnderWay, fieldVars
  <2>10. (~isRunning => Nothing)'
    BY <1>4, <2>2, <2>6 DEF OrderlyInv, Nothing, fieldVars, clientVars
  <2> QED
    BY <2>7, <2>8, <2>9, <2>10 DEF OrderlyInv
<1> QED
  BY <1>5, <1>6, <1>7, <1>8, <1>9 DEF VpnInv

-----------------------------------------------------------------------------
(* A job goes from one step to the next. *)

\* What a step of a job leaves alone: the requests, the instances, the types.
LEMMA StepToKeeps ==
  ASSUME VpnInv, NEW j \in Callers,
         NEW from \in Steps \ (Waiting \cup {"end"}), NEW to \in Steps \ (Waiting \cup {"launched"}),
         to \in ConnectSteps => op[j] = "connect", StepTo(j, from, to)
  PROVE  /\ OpInv' /\ InstInv' /\ (orderly => OneByOne')
         /\ step' \in [Callers -> Steps]
         /\ \A k \in Callers : step'[k] = IF k = j THEN to ELSE step[k]
         /\ \A k \in Callers : inst'[k] = None => step'[k] \in Waiting
<1>1. /\ \A k \in Callers : step'[k] = IF k = j THEN to ELSE step[k]
      /\ step' \in [Callers -> Steps]
      /\ step[j] = from
      /\ UNCHANGED <<jobs, op, inst, sysVars, orderly>>
  BY DEF VpnInv, VpnTypeOK, StepTo
<1>2. OpInv'
  BY <1>1 DEF VpnInv, OpInv, Waiting
<1>3. InstInv'
  BY <1>1 DEF VpnInv, InstInv, UnderWay, Waiting, sysVars
<1>4. ASSUME orderly PROVE OneByOne'
  BY <1>1, <1>4 DEF VpnInv, OrderlyInv, OneByOne, UnderWay, Waiting, sysVars
<1>5. \A k \in Callers : inst'[k] = None => step'[k] \in Waiting
  BY <1>3 DEF InstInv
<1> QED
  BY <1>1, <1>2, <1>3, <1>4, <1>5

\* An orderly job is alone, and belongs to the instance that the system has.
LEMMA Alone ==
  ASSUME VpnInv, orderly, NEW j \in Callers, step[j] \notin Waiting \cup {"end"}
  PROVE  /\ \A k \in Callers : k # j => step[k] \in {"none", "end"}
         /\ inst[j] = svc /\ svc \in Callers /\ svc \notin cancelled
         /\ HeldBy(j)
<1>1. OneByOne
  BY DEF VpnInv, OrderlyInv
<1>2. inst[j] = svc
  BY <1>1 DEF OneByOne, UnderWay, Waiting
<1>3. svc \in Callers /\ svc \notin cancelled
  BY <1>2 DEF VpnInv, VpnTypeOK, InstInv
<1>4. \A k \in Callers : k # j => step[k] \in {"none", "end"}
  BY <1>1 DEF OneByOne, UnderWay, Waiting
<1>5. step[j] \in RestSteps => AtRest
  BY <1>4 DEF AtRest, RestSteps
<1> QED
  BY <1>2, <1>3, <1>4, <1>5 DEF VpnInv, OrderlyInv, HeldBy

\* It is enough to look at that job, at the fields, and at where it is in the client.
LEMMA JobKeeps ==
  ASSUME VpnInv, NEW j \in Callers,
         NEW from \in Steps \ (Waiting \cup {"end"}), NEW to \in Steps \ (Waiting \cup {"launched"}),
         to \in ConnectSteps => op[j] = "connect", StepTo(j, from, to),
         FieldTypes', CallInv', orderly => HeldBy(j)'
  PROVE  VpnInv'
<1>1. /\ OpInv' /\ InstInv' /\ (orderly => OneByOne')
      /\ step' \in [Callers -> Steps]
      /\ \A k \in Callers : step'[k] = IF k = j THEN to ELSE step[k]
      /\ \A k \in Callers : inst'[k] = None => step'[k] \in Waiting
  BY StepToKeeps
<1>2. step[j] = from /\ UNCHANGED <<jobs, op, inst, sysVars, orderly>>
  BY DEF StepTo
<1>3. VpnTypeOK'
  BY <1>1, <1>2 DEF VpnInv, VpnTypeOK, FieldTypes, Waiting, sysVars
<1>4. ASSUME orderly PROVE OrderlyInv'
  <2>1. \A k \in Callers : k # j => step'[k] \in {"none", "end"}
    BY <1>1, <1>2, <1>4, Alone
  <2>2. \A k \in Callers : k # j => HeldAt(k)'
    BY <2>1 DEF HeldAt, UnderWay
  <2>3. AtRest' => step'[j] \in RestSteps
    BY DEF AtRest
  <2> QED
    BY <1>1, <1>4, <2>2, <2>3 DEF OrderlyInv, HeldBy
<1> QED
  BY <1>1, <1>2, <1>3, <1>4 DEF VpnInv

-----------------------------------------------------------------------------
(* connect() *)

\* The steps of a connect that touch the fields or the Go client; in an orderly run
\* nothing is held when it begins, and everything when it ends.
LEMMA ConnectKeeps ==
  ASSUME VpnInv, ClientInv, NEW j \in Callers,
         \/ BeginConnect(j) \/ StartReturns(j) \/ StartThrows(j)
         \/ Establish(j) \/ MakeWorker(j) \/ StartWorker(j) \/ SetRunning(j)
  PROVE  VpnInv'
<1> USE GoClientAssumption
<1>0. step \in [Callers -> Steps] /\ inst \in [Callers -> Callers \cup {None}] /\ FieldTypes
  BY DEF VpnInv, VpnTypeOK, FieldTypes
<1>1. CASE BeginConnect(j)
  <2>1. StepTo(j, "launched", "start") /\ op[j] = "connect" /\ StartCall(j) /\ UNCHANGED fieldVars
    BY <1>1 DEF BeginConnect
  <2>2. CallInv'
    BY <2>1, <1>0 DEF VpnInv, CallInv, StepTo, StartCall, CallerOnly, ClientInv, ClientTypeOK
  <2>3. FieldTypes'
    BY <2>1, <1>0 DEF FieldTypes, fieldVars
  <2>4. ASSUME orderly PROVE HeldBy(j)'
    <3>1. HeldBy(j) /\ step[j] = "launched" /\ step'[j] = "start"
      BY <2>1, <2>4, <1>0, Alone DEF StepTo, Waiting
    <3>2. ~isRunning
      BY <2>1, <3>1 DEF HeldBy, HeldAt, UnderWay
    <3> QED
      BY <2>1, <3>1, <3>2 DEF HeldBy, HeldAt, NothingElse, Nothing, RestSteps, StepTo,
         sysVars, fieldVars, StartCall, CallerOnly
  <2> QED
    BY <2>1, <2>2, <2>3, <2>4, JobKeeps DEF Steps, Waiting
<1>2. CASE StartReturns(j)
  <2>1. StepTo(j, "start", "establish") /\ AuthOK(j) /\ UNCHANGED fieldVars
    BY <1>2 DEF StartReturns
  <2>2. CallInv'
    BY <2>1, <1>0 DEF VpnInv, CallInv, StepTo, AuthOK, ClientInv, ClientTypeOK
  <2>3. FieldTypes'
    BY <2>1, <1>0 DEF FieldTypes, fieldVars
  <2>4. cancelFunc' # None
    BY <2>1 DEF AuthOK, ClientInv, FreshInv, SetsUp
  <2>5. ASSUME orderly PROVE HeldBy(j)'
    <3>1. HeldBy(j) /\ step[j] = "start" /\ step'[j] = "establish"
      BY <2>1, <2>5, <1>0, Alone DEF StepTo, Waiting
    <3>2. ~isRunning /\ Nothing
      BY <3>1 DEF HeldBy, HeldAt, RestSteps
    <3> QED
      BY <2>1, <2>4, <3>1, <3>2 DEF HeldBy, HeldAt, NothingElse, Nothing, RestSteps, StepTo,
         sysVars, fieldVars
  <2>6. op[j] = "connect"
    BY <2>1 DEF VpnInv, OpInv, StepTo, ConnectSteps
  <2> QED
    BY <2>1, <2>2, <2>3, <2>5, <2>6, JobKeeps DEF Steps, Waiting
<1>3. CASE StartThrows(j)
  <2>1. /\ StepTo(j, "start", "c1") /\ UNCHANGED fieldVars
        /\ StartRefused(j) \/ StartFails(j, "dial") \/ StartFails(j, "auth")
    BY <1>3 DEF StartThrows, DialFail, AuthFail
  <2>2. CallInv'
    BY <2>1, <1>0 DEF VpnInv, CallInv, StepTo, StartRefused, CallerOnly, StartFails,
       ClientInv, ClientTypeOK
  <2>3. FieldTypes'
    BY <2>1, <1>0 DEF FieldTypes, fieldVars
  <2>4. ASSUME orderly PROVE HeldBy(j)'
    <3>1. HeldBy(j) /\ step[j] = "start" /\ step'[j] = "c1"
      BY <2>1, <2>4, <1>0, Alone DEF StepTo, Waiting
    <3>2. ~isRunning
      BY <3>1 DEF HeldBy, HeldAt
    <3> QED
      BY <2>1, <3>1, <3>2 DEF HeldBy, HeldAt, NothingElse, RestSteps, StepTo, sysVars, fieldVars
  <2> QED
    BY <2>1, <2>2, <2>3, <2>4, JobKeeps DEF Steps, Waiting, ConnectSteps
<1>4. CASE Establish(j)
  <2>1. /\ StepTo(j, "establish", "worker")
        /\ tunPfd' = [tunPfd EXCEPT ![inst[j]] = j] /\ fds' = fds \cup {j}
        /\ UNCHANGED <<clientVars, isRunning, tunWorker, reads, workers>>
    BY <1>4 DEF Establish
  <2>2. CallInv'
    BY <2>1, <1>0 DEF VpnInv, CallInv, StepTo, clientVars
  <2>3. FieldTypes'
    BY <2>1, <1>0 DEF FieldTypes
  <2>4. ASSUME orderly PROVE HeldBy(j)'
    <3>1. /\ HeldBy(j) /\ step[j] = "establish" /\ step'[j] = "worker"
          /\ inst[j] = svc /\ svc \in Callers
      BY <2>1, <2>4, <1>0, Alone DEF StepTo, Waiting
    <3>2. ~isRunning /\ fds = {} /\ workers = {} /\ cancelFunc # None
      BY <3>1 DEF HeldBy, HeldAt
    <3>3. tunPfd'[svc] = j /\ svc' = svc
      BY <2>1, <3>1, <1>0 DEF FieldTypes, StepTo, sysVars
    <3> QED
      BY <2>1, <3>1, <3>2, <3>3 DEF HeldBy, HeldAt, NothingElse, RestSteps, clientVars
  <2>5. op[j] = "connect"
    BY <2>1 DEF VpnInv, OpInv, StepTo, ConnectSteps
  <2> QED
    BY <2>1, <2>2, <2>3, <2>4, <2>5, JobKeeps DEF Steps, Waiting
<1>5. CASE MakeWorker(j)
  <2>1. /\ StepTo(j, "worker", "run") /\ tunPfd[inst[j]] # None
        /\ tunWorker' = [tunWorker EXCEPT ![inst[j]] = j]
        /\ reads' = [reads EXCEPT ![j] = tunPfd[inst[j]]]
        /\ UNCHANGED <<clientVars, isRunning, tunPfd, fds, workers>>
    BY <1>5 DEF MakeWorker
  <2>2. CallInv'
    BY <2>1, <1>0 DEF VpnInv, CallInv, StepTo, clientVars
  <2>3. op[j] = "connect" /\ inst[j] \in Callers
    BY <2>1, <1>0 DEF VpnInv, OpInv, InstInv, StepTo, ConnectSteps, Waiting
  <2>4. FieldTypes'
    BY <2>1, <2>3, <1>0 DEF FieldTypes
  <2>5. ASSUME orderly PROVE HeldBy(j)'
    <3>1. /\ HeldBy(j) /\ step[j] = "worker" /\ step'[j] = "run"
          /\ inst[j] = svc /\ svc \in Callers
      BY <2>1, <2>5, <1>0, Alone DEF StepTo, Waiting
    <3>2. ~isRunning /\ tunPfd[svc] \in fds /\ workers = {} /\ cancelFunc # None /\ NothingElse
      BY <3>1 DEF HeldBy, HeldAt
    <3>3. tunWorker'[svc] = j /\ reads'[j] = tunPfd[svc] /\ svc' = svc
      BY <2>1, <3>1, <1>0 DEF FieldTypes, StepTo, sysVars
    <3> QED
      BY <2>1, <3>1, <3>2, <3>3 DEF HeldBy, HeldAt, NothingElse, RestSteps, clientVars
  <2> QED
    BY <2>1, <2>2, <2>3, <2>4, <2>5, JobKeeps DEF Steps, Waiting
<1>6. CASE StartWorker(j)
  <2>1. /\ StepTo(j, "run", "connected")
        /\ workers' = IF inst[j] \in cancelled THEN workers ELSE workers \cup {j}
        /\ UNCHANGED <<clientVars, isRunning, tunPfd, tunWorker, reads, fds>>
    BY <1>6 DEF StartWorker
  <2>2. CallInv'
    BY <2>1, <1>0 DEF VpnInv, CallInv, StepTo, clientVars
  <2>3. FieldTypes'
    BY <2>1, <1>0 DEF FieldTypes
  <2>4. ASSUME orderly PROVE HeldBy(j)'
    <3>1. /\ HeldBy(j) /\ step[j] = "run" /\ step'[j] = "connected"
          /\ svc \in Callers /\ workers' = workers \cup {j} /\ svc' = svc
      BY <2>1, <2>4, <1>0, Alone DEF StepTo, Waiting, sysVars
    <3> QED
      BY <2>1, <3>1 DEF HeldBy, HeldAt, NothingElse, RestSteps, clientVars
  <2>5. op[j] = "connect"
    BY <2>1 DEF VpnInv, OpInv, StepTo, ConnectSteps
  <2> QED
    BY <2>1, <2>2, <2>3, <2>4, <2>5, JobKeeps DEF Steps, Waiting
<1>7. CASE SetRunning(j)
  <2>1. /\ StepTo(j, "connected", "end") /\ isRunning' = TRUE
        /\ UNCHANGED <<clientVars, tunPfd, tunWorker, reads, fds, workers>>
    BY <1>7 DEF SetRunning
  <2>2. CallInv'
    BY <2>1, <1>0 DEF VpnInv, CallInv, StepTo, clientVars
  <2>3. FieldTypes'
    BY <2>1, <1>0 DEF FieldTypes
  <2>4. ASSUME orderly PROVE HeldBy(j)'
    <3>1. /\ HeldBy(j) /\ step[j] = "connected" /\ step'[j] = "end"
          /\ svc \in Callers /\ svc' = svc
      BY <2>1, <2>4, <1>0, Alone DEF StepTo, Waiting, sysVars
    <3>2. Held
      BY <3>1 DEF HeldBy, HeldAt, Held
    <3>3. Held'
      BY <2>1, <3>1, <3>2 DEF Held, clientVars
    <3> QED
      BY <2>1, <3>1, <3>3 DEF HeldBy, HeldAt, NothingElse, UnderWay
  <2> QED
    BY <2>1, <2>2, <2>3, <2>4, JobKeeps DEF Steps, Waiting, ConnectSteps
<1> QED
  BY <1>1, <1>2, <1>3, <1>4, <1>5, <1>6, <1>7

\* The steps that only decide where a job goes on: an exception, or a launch.
LEMMA BranchKeeps ==
  ASSUME VpnInv, NEW j \in Callers,
         \/ NeverRuns(j) \/ BeginDisconnect(j) \/ EstablishThrows(j) \/ WorkerThrows(j)
  PROVE  VpnInv'
<1> USE GoClientAssumption
<1>0. step \in [Callers -> Steps] /\ FieldTypes
  BY DEF VpnInv, VpnTypeOK, FieldTypes
<1>1. PICK from \in {"launched", "establish", "worker"}, to \in {"end", "c1"} :
        /\ StepTo(j, from, to) /\ UNCHANGED <<clientVars, fieldVars>>
        /\ to = "end" => from = "launched" /\ inst[j] \in cancelled
        /\ from = "launched" /\ to = "c1" => op[j] = "disconnect"
  BY DEF NeverRuns, BeginDisconnect, EstablishThrows, WorkerThrows
<1>2. CallInv'
  BY <1>1, <1>0 DEF VpnInv, CallInv, StepTo, clientVars
<1>3. FieldTypes'
  BY <1>1, <1>0 DEF FieldTypes, fieldVars
<1>4. ASSUME orderly PROVE HeldBy(j)'
  <2>1. /\ HeldBy(j) /\ step[j] = from /\ step'[j] = to
        /\ inst[j] = svc /\ svc \notin cancelled
    BY <1>0, <1>1, <1>4, Alone DEF StepTo, Waiting
  <2>2. to = "c1"
    BY <1>1, <2>1
  <2>3. isRunning => op[j] # "connect"
    BY <2>1 DEF HeldBy, HeldAt, UnderWay
  <2>4. (isRunning => Held)' /\ NothingElse'
    BY <1>1, <2>1 DEF HeldBy, NothingElse, Held, StepTo, sysVars, fieldVars, clientVars
  <2> QED
    BY <1>1, <2>1, <2>2, <2>3, <2>4 DEF HeldBy, HeldAt, RestSteps, StepTo, fieldVars
<1> QED
  BY <1>1, <1>2, <1>3, <1>4, JobKeeps DEF Steps, Waiting, ConnectSteps

-----------------------------------------------------------------------------
(* cleanup() *)

\* Each step of a cleanup gives back one thing, and there is nothing else.
LEMMA CleanupKeeps ==
  ASSUME VpnInv, ClientInv, NEW j \in Callers,
         ClearRunning(j) \/ StopWorker(j) \/ CloseTun(j) \/ CallStop(j) \/ StopDone(j)
  PROVE  VpnInv'
<1> USE GoClientAssumption
<1>0. step \in [Callers -> Steps] /\ inst \in [Callers -> Callers \cup {None}] /\ FieldTypes
  BY DEF VpnInv, VpnTypeOK, FieldTypes
<1>1. CASE ClearRunning(j)
  <2>1. /\ StepTo(j, "c1", "c2") /\ isRunning' = FALSE
        /\ UNCHANGED <<clientVars, tunPfd, tunWorker, reads, fds, workers>>
    BY <1>1 DEF ClearRunning
  <2>2. CallInv'
    BY <2>1, <1>0 DEF VpnInv, CallInv, StepTo, clientVars
  <2>3. FieldTypes'
    BY <2>1, <1>0 DEF FieldTypes
  <2>4. ASSUME orderly PROVE HeldBy(j)'
    <3>1. HeldBy(j) /\ step'[j] = "c2"
      BY <2>1, <2>4, <1>0, Alone DEF StepTo, Waiting
    <3> QED
      BY <2>1, <3>1 DEF HeldBy, HeldAt, NothingElse, RestSteps, StepTo, sysVars
  <2> QED
    BY <2>1, <2>2, <2>3, <2>4, JobKeeps DEF Steps, Waiting, ConnectSteps
<1>2. CASE StopWorker(j)
  <2>1. /\ StepTo(j, "c2", "c3") /\ workers' = workers \ {tunWorker[inst[j]]}
        /\ UNCHANGED <<clientVars, isRunning, tunPfd, tunWorker, reads, fds>>
    BY <1>2 DEF StopWorker
  <2>2. CallInv'
    BY <2>1, <1>0 DEF VpnInv, CallInv, StepTo, clientVars
  <2>3. FieldTypes'
    BY <2>1, <1>0 DEF FieldTypes
  <2>4. ASSUME orderly PROVE HeldBy(j)'
    <3>1. HeldBy(j) /\ inst[j] = svc /\ step[j] = "c2" /\ step'[j] = "c3"
      BY <2>1, <2>4, <1>0, Alone DEF StepTo, Waiting
    <3>2. workers' = {}
      BY <2>1, <3>1 DEF HeldBy, NothingElse
    <3> QED
      BY <2>1, <3>1, <3>2 DEF HeldBy, HeldAt, NothingElse, RestSteps, StepTo, sysVars
  <2> QED
    BY <2>1, <2>2, <2>3, <2>4, JobKeeps DEF Steps, Waiting, ConnectSteps
<1>3. CASE CloseTun(j)
  <2>1. /\ StepTo(j, "c3", "c4") /\ fds' = fds \ {tunPfd[inst[j]]}
        /\ tunWorker' = [tunWorker EXCEPT ![inst[j]] = None]
        /\ UNCHANGED <<clientVars, isRunning, tunPfd, reads, workers>>
    BY <1>3 DEF CloseTun
  <2>2. CallInv'
    BY <2>1, <1>0 DEF VpnInv, CallInv, StepTo, clientVars
  <2>3. FieldTypes'
    BY <2>1, <1>0 DEF FieldTypes
  <2>4. ASSUME orderly PROVE HeldBy(j)'
    <3>1. HeldBy(j) /\ inst[j] = svc /\ step[j] = "c3" /\ step'[j] = "c4"
      BY <2>1, <2>4, <1>0, Alone DEF StepTo, Waiting
    <3>2. fds' = {} /\ workers' = {} /\ ~isRunning
      BY <2>1, <3>1 DEF HeldBy, HeldAt, NothingElse
    <3> QED
      BY <2>1, <3>1, <3>2 DEF HeldBy, HeldAt, NothingElse, RestSteps
  <2> QED
    BY <2>1, <2>2, <2>3, <2>4, JobKeeps DEF Steps, Waiting, ConnectSteps
<1>4. CASE CallStop(j)
  <2>1. /\ StepTo(j, "c4", "c5") /\ StopCall(j)
        /\ tunPfd' = [tunPfd EXCEPT ![inst[j]] = None]
        /\ UNCHANGED <<isRunning, tunWorker, reads, fds, workers>>
    BY <1>4 DEF CallStop
  <2>2. CallInv'
    BY <2>1, <1>0 DEF VpnInv, CallInv, StepTo, StopCall, CallerOnly, ClientInv, ClientTypeOK
  <2>3. FieldTypes'
    BY <2>1, <1>0 DEF FieldTypes
  <2>4. ASSUME orderly PROVE HeldBy(j)'
    <3>1. HeldBy(j) /\ step[j] = "c4" /\ step'[j] = "c5"
      BY <2>1, <2>4, <1>0, Alone DEF StepTo, Waiting
    <3>2. fds' = {} /\ workers' = {} /\ ~isRunning
      BY <2>1, <3>1 DEF HeldBy, HeldAt
    <3> QED
      BY <2>1, <3>1, <3>2 DEF HeldBy, HeldAt, NothingElse, RestSteps
  <2> QED
    BY <2>1, <2>2, <2>3, <2>4, JobKeeps DEF Steps, Waiting, ConnectSteps
<1>5. CASE StopDone(j)
  <2>1. StepTo(j, "c5", "after") /\ Stop(j) /\ UNCHANGED fieldVars
    BY <1>5 DEF StopDone
  <2>2. CallInv'
    BY <2>1, <1>0 DEF VpnInv, CallInv, StepTo, Stop, ClientInv, ClientTypeOK
  <2>3. FieldTypes'
    BY <2>1, <1>0 DEF FieldTypes, fieldVars
  <2>4. ASSUME orderly PROVE HeldBy(j)'
    <3>1. HeldBy(j) /\ step[j] = "c5" /\ step'[j] = "after"
      BY <2>1, <2>4, <1>0, Alone DEF StepTo, Waiting
    <3>2. Nothing' /\ ~isRunning
      BY <2>1, <3>1 DEF HeldBy, HeldAt, Nothing, Stop, fieldVars
    <3> QED
      BY <2>1, <3>1, <3>2 DEF HeldBy, HeldAt, NothingElse, Nothing, fieldVars
  <2> QED
    BY <2>1, <2>2, <2>3, <2>4, JobKeeps DEF Steps, Waiting, ConnectSteps
<1> QED
  BY <1>1, <1>2, <1>3, <1>4, <1>5

-----------------------------------------------------------------------------
(* The life of an instance *)

\* A job is served by the instance that the system has, or by a new one.
LEMMA OnStartCommandKeeps ==
  ASSUME VpnInv, NEW j \in Callers, OnStartCommand(j)
  PROVE  VpnInv'
<1> USE GoClientAssumption
<1>1. /\ step[j] = "sent" /\ MainFree
      /\ svc' = IF svc = None THEN j ELSE svc
      /\ UNCHANGED <<clientVars, jobs, op, stopAsked, cancelled, fieldVars, orderly>>
  BY DEF OnStartCommand
<1>2. /\ svc' \in Callers
      /\ \A k \in Callers : step'[k] = IF k = j THEN "launched" ELSE step[k]
      /\ \A k \in Callers : inst'[k] = IF k = j THEN svc' ELSE inst[k]
      /\ step' \in [Callers -> Steps] /\ inst' \in [Callers -> Callers \cup {None}]
  BY DEF OnStartCommand, VpnInv, VpnTypeOK, Steps
<1>3. inst[j] = None /\ j \notin cancelled /\ op[j] # "destroy"
  BY <1>1 DEF VpnInv, InstInv, OpInv, Waiting
<1>4. VpnTypeOK'
  <2>1. notified' \in BOOLEAN
    BY DEF OnStartCommand, VpnInv, VpnTypeOK
  <2>2. \A k \in Callers : inst'[k] = None => step'[k] \in {"none", "queued", "sent"}
    BY <1>2 DEF VpnInv, VpnTypeOK
  <2> QED
    BY <1>1, <1>2, <2>1, <2>2 DEF VpnInv, VpnTypeOK, fieldVars
<1>5. CallInv'
  BY <1>1, <1>2 DEF VpnInv, CallInv, clientVars
<1>6. OpInv'
  BY <1>1, <1>2, <1>3 DEF VpnInv, OpInv, ConnectSteps, Waiting
<1>7. InstInv'
  <2>1. \A k \in Callers : op[k] = "destroy" => ~UnderWay(k) /\ ~UnderWay(k)'
    BY <1>1, <1>2, <1>3 DEF MainFree, UnderWay
  <2>2. /\ \A k \in Callers : step'[k] \in Waiting <=> inst'[k] = None
        /\ \A i \in cancelled' : inst'[i] # None
    BY <1>1, <1>2 DEF VpnInv, InstInv, VpnTypeOK, Waiting
  <2>3. inst'[svc'] # None /\ svc' \notin cancelled' /\ svc' # None
    BY <1>1, <1>2, <1>3 DEF VpnInv, InstInv
  <2> QED
    BY <1>1, <2>1, <2>2, <2>3 DEF InstInv
<1>8. ASSUME orderly PROVE OrderlyInv'
  <2>1. OrderlyInv
    BY <1>8 DEF VpnInv
  <2>2. \A k \in Callers : k # j => step[k] \in {"none", "end"}
    BY <1>1, <2>1 DEF OrderlyInv, OneByOne, UnderWay
  <2>3. OneByOne'
    BY <1>1, <1>2, <2>1, <2>2 DEF OrderlyInv, OneByOne, UnderWay
  <2>4. AtRest
    BY <1>1, <2>2 DEF AtRest, RestSteps
  <2>5. svc = None => ~isRunning /\ fds = {} /\ workers = {}
    BY <2>1 DEF OrderlyInv, Held, NothingElse
  <2>6. NothingElse' /\ (isRunning => Held)'
    BY <1>1, <2>1, <2>5 DEF OrderlyInv, NothingElse, Held, fieldVars, clientVars
  <2>7. (~isRunning => Nothing)'
    BY <1>1, <2>1, <2>4 DEF OrderlyInv, Nothing, fieldVars, clientVars
  <2>8. \A k \in Callers : HeldAt(k)'
    <3>1. isRunning => op[j] # "connect"
      BY <1>1, <2>1 DEF OrderlyInv, HeldAt, UnderWay
    <3> QED
      BY <1>1, <1>2, <2>2, <3>1 DEF HeldAt, UnderWay, fieldVars
  <2> QED
    BY <2>3, <2>6, <2>7, <2>8 DEF OrderlyInv
<1> QED
  BY <1>1, <1>4, <1>5, <1>6, <1>7, <1>8 DEF VpnInv

\* The system asks the instance to go, or begins to destroy it, when nothing else runs
\* on the main thread.
LEMMA RevokeKeeps == ASSUME VpnInv, Revoke PROVE VpnInv'
<1>1. /\ MainFree /\ svc # None /\ stopAsked' = TRUE /\ orderly' = (orderly /\ Quiet)
      /\ UNCHANGED <<clientVars, jobVars, svc, notified, cancelled, fieldVars>>
  BY DEF Revoke
<1>2. VpnTypeOK'
  BY <1>1 DEF VpnInv, VpnTypeOK, jobVars, fieldVars
<1>3. CallInv' /\ OpInv'
  BY <1>1 DEF VpnInv, CallInv, OpInv, jobVars, clientVars
<1>4. InstInv'
  BY <1>1 DEF VpnInv, InstInv, UnderWay, jobVars
<1>5. ASSUME orderly' PROVE OrderlyInv'
  <2>1. OrderlyInv /\ \A j \in Callers : ~UnderWay(j)
    BY <1>1, <1>5 DEF VpnInv, VpnTypeOK, Quiet
  <2>2. OneByOne'
    BY <1>1, <2>1 DEF OrderlyInv, OneByOne, UnderWay, jobVars
  <2>3. NothingElse' /\ (isRunning => Held)' /\ (~isRunning /\ AtRest => Nothing)'
    BY <1>1, <2>1 DEF OrderlyInv, NothingElse, Held, Nothing, AtRest,
       jobVars, fieldVars, clientVars
  <2>4. \A j \in Callers : HeldAt(j)'
    BY <1>1, <2>1 DEF OrderlyInv, HeldAt, UnderWay, jobVars, fieldVars, clientVars
  <2> QED
    BY <2>2, <2>3, <2>4 DEF OrderlyInv
<1> QED
  BY <1>2, <1>3, <1>4, <1>5 DEF VpnInv

LEMMA OnDestroyKeeps == ASSUME VpnInv, OnDestroy PROVE VpnInv'
<1> USE GoClientAssumption
<1> DEFINE n == jobs + 1
<1>1. /\ n \in Callers /\ jobs' = n /\ svc # None /\ stopAsked /\ MainFree
      /\ op' = [op EXCEPT ![n] = "destroy"] /\ step' = [step EXCEPT ![n] = "c1"]
      /\ inst' = [inst EXCEPT ![n] = svc]
      /\ UNCHANGED <<clientVars, sysVars, fieldVars, orderly>>
  BY DEF OnDestroy, NewJob
<1>2. /\ step[n] = "none" /\ inst[n] = None /\ svc # n /\ n \notin cancelled /\ jobs \in Nat
  BY <1>1, FreshJob
<1>3. \A j \in Callers : j > n <=> j > jobs /\ j # n
  BY <1>2, JobsAreNumbers
<1> HIDE DEF n
<1>4. \A j \in Callers :
        /\ step'[j] = IF j = n THEN "c1" ELSE step[j]
        /\ op'[j] = IF j = n THEN "destroy" ELSE op[j]
        /\ inst'[j] = IF j = n THEN svc ELSE inst[j]
  BY <1>1 DEF VpnInv, VpnTypeOK
<1>5. VpnTypeOK'
  <2>1. jobs' \in 0 .. Cardinality(Callers)
    BY <1>1, JobsAreNumbers
  <2>2. \A j \in Callers : inst'[j] = None => step'[j] \in {"none", "queued", "sent"}
    BY <1>1, <1>4 DEF VpnInv, VpnTypeOK
  <2> QED
    BY <1>1, <2>1, <2>2 DEF VpnInv, VpnTypeOK, Steps, sysVars, fieldVars
<1>6. CallInv'
  BY <1>1, <1>2, <1>4 DEF VpnInv, CallInv, clientVars
<1>7. OpInv'
  <2>1. ~(n > n)
    BY <1>1, JobsAreNumbers
  <2> QED
    BY <1>1, <1>3, <1>4, <2>1 DEF VpnInv, OpInv, ConnectSteps, Waiting
<1>8. InstInv'
  <2>1. \A j \in Callers : op'[j] = "destroy" /\ UnderWay(j)' => j = n
    BY <1>1, <1>4 DEF MainFree, UnderWay
  <2>2. \A i \in cancelled' : inst'[i] # None
    BY <1>1, <1>4 DEF VpnInv, VpnTypeOK, InstInv, sysVars
  <2>3. \A j \in Callers : step'[j] \in Waiting <=> inst'[j] = None
    BY <1>1, <1>4 DEF VpnInv, InstInv, Waiting
  <2>4. inst'[svc'] # None /\ svc' \notin cancelled' /\ svc' = svc /\ stopAsked'
    BY <1>1, <1>2 DEF VpnInv, VpnTypeOK, InstInv, sysVars
  <2> QED
    BY <1>1, <1>4, <2>1, <2>2, <2>3, <2>4 DEF InstInv
<1>9. ASSUME orderly PROVE OrderlyInv'
  <2>1. OrderlyInv /\ \A j \in Callers : step[j] \in {"none", "end"}
    BY <1>1, <1>9 DEF VpnInv, OrderlyInv, OneByOne, MainFree, UnderWay
  <2>2. OneByOne'
    BY <1>1, <1>4, <2>1 DEF OneByOne, UnderWay, sysVars
  <2>3. NothingElse' /\ (isRunning => Held)'
    BY <1>1, <2>1 DEF OrderlyInv, NothingElse, Held, sysVars, fieldVars, clientVars
  <2>4. \A j \in Callers : HeldAt(j)'
    BY <1>1, <1>4, <2>1 DEF HeldAt, UnderWay, fieldVars
  <2>5. ~AtRest'
    BY <1>1, <1>4 DEF AtRest, RestSteps
  <2> QED
    BY <2>2, <2>3, <2>4, <2>5 DEF OrderlyInv
<1> QED
  BY <1>1, <1>5, <1>6, <1>7, <1>8, <1>9 DEF VpnInv

\* The last step of a job: the instance is asked to go, or is gone.
LEMMA StopSelfKeeps == ASSUME VpnInv, NEW j \in Callers, StopSelf(j) PROVE VpnInv'
<1> USE GoClientAssumption
<1>1. /\ step[j] = "after" /\ op[j] # "destroy"
      /\ stopAsked' = (stopAsked \/ inst[j] = svc)
      /\ UNCHANGED <<clientVars, jobs, op, inst, svc, cancelled, fieldVars, orderly>>
  BY DEF StopSelf
<1>2. /\ \A k \in Callers : step'[k] = IF k = j THEN "end" ELSE step[k]
      /\ step' \in [Callers -> Steps]
  BY DEF StopSelf, VpnInv, VpnTypeOK, Steps
<1>3. VpnTypeOK'
  <2>1. notified' \in BOOLEAN /\ stopAsked' \in BOOLEAN
    BY DEF StopSelf, VpnInv, VpnTypeOK
  <2>2. \A k \in Callers : inst'[k] = None => step'[k] \in {"none", "queued", "sent"}
    BY <1>1, <1>2 DEF VpnInv, VpnTypeOK
  <2> QED
    BY <1>1, <1>2, <2>1, <2>2 DEF VpnInv, VpnTypeOK, fieldVars
<1>4. CallInv' /\ OpInv'
  BY <1>1, <1>2 DEF VpnInv, CallInv, OpInv, ConnectSteps, Waiting, clientVars
<1>5. InstInv'
  <2>1. inst[j] # None
    BY <1>1 DEF VpnInv, InstInv, Waiting
  <2>2. stopAsked' => svc # None
    BY <1>1, <2>1 DEF VpnInv, InstInv
  <2> QED
    BY <1>1, <1>2, <2>2 DEF VpnInv, VpnTypeOK, InstInv, UnderWay, Waiting
<1>6. ASSUME orderly PROVE OrderlyInv'
  <2>1. OrderlyInv /\ \A k \in Callers : k # j => step[k] \in {"none", "end"}
    BY <1>1, <1>6, Alone DEF VpnInv, Waiting
  <2>2. \A k \in Callers : step'[k] \in {"none", "end"}
    BY <1>2, <2>1
  <2>3. Nothing /\ ~isRunning
    BY <1>1, <1>6, Alone DEF HeldBy, HeldAt, RestSteps, Waiting
  <2>4. OneByOne'
    BY <2>2 DEF OneByOne, UnderWay
  <2>5. \A k \in Callers : HeldAt(k)'
    BY <2>2 DEF HeldAt, UnderWay
  <2> QED
    BY <1>1, <2>3, <2>4, <2>5 DEF OrderlyInv, NothingElse, Nothing, fieldVars, clientVars
<1> QED
  BY <1>1, <1>3, <1>4, <1>5, <1>6 DEF VpnInv

LEMMA DestroyedKeeps == ASSUME VpnInv, NEW j \in Callers, Destroyed(j) PROVE VpnInv'
<1> USE GoClientAssumption
<1>1. /\ step[j] = "after" /\ op[j] = "destroy"
      /\ cancelled' = cancelled \cup {inst[j]}
      /\ svc' = None /\ stopAsked' = FALSE /\ notified' = FALSE
      /\ UNCHANGED <<clientVars, jobs, op, inst, fieldVars, orderly>>
  BY DEF Destroyed
<1>2. /\ \A k \in Callers : step'[k] = IF k = j THEN "end"
                                       ELSE IF step[k] = "queued" THEN "sent" ELSE step[k]
      /\ step' \in [Callers -> Steps]
  BY DEF Destroyed, VpnInv, VpnTypeOK, Steps
<1>3. inst[j] = svc /\ svc \in Callers /\ inst[svc] # None
  BY <1>1 DEF VpnInv, VpnTypeOK, InstInv, UnderWay
<1>4. VpnTypeOK'
  <2>1. \A k \in Callers : inst'[k] = None => step'[k] \in {"none", "queued", "sent"}
    BY <1>1, <1>2, <1>3 DEF VpnInv, VpnTypeOK, InstInv, Waiting
  <2> QED
    BY <1>1, <1>2, <1>3, <2>1 DEF VpnInv, VpnTypeOK, fieldVars
<1>5. CallInv' /\ OpInv'
  BY <1>1, <1>2 DEF VpnInv, CallInv, OpInv, ConnectSteps, Waiting, clientVars
<1>6. InstInv'
  <2>1. \A k \in Callers : op[k] = "destroy" => ~UnderWay(k)'
    BY <1>1, <1>2 DEF VpnInv, InstInv, OpInv, UnderWay, Waiting
  <2> QED
    BY <1>1, <1>2, <1>3, <2>1 DEF VpnInv, InstInv, Waiting
<1>7. ASSUME orderly PROVE OrderlyInv'
  <2>1. \A k \in Callers : step'[k] \in {"none", "end"}
    BY <1>1, <1>2, <1>7, Alone DEF Waiting
  <2>2. Nothing /\ ~isRunning
    BY <1>1, <1>7, Alone DEF HeldBy, HeldAt, RestSteps, Waiting
  <2>3. OneByOne'
    BY <2>1 DEF OneByOne, UnderWay
  <2>4. \A k \in Callers : HeldAt(k)'
    BY <2>1 DEF HeldAt, UnderWay
  <2> QED
    BY <1>1, <2>2, <2>3, <2>4 DEF OrderlyInv, NothingElse, Nothing, fieldVars, clientVars
<1> QED
  BY <1>1, <1>4, <1>5, <1>6, <1>7 DEF VpnInv

-----------------------------------------------------------------------------
(* The Go client, and every step *)

\* The client goes on by itself, or sets up the session of a start.
LEMMA ClientStepsKeep ==
  ASSUME VpnInv, ClientInv, UNCHANGED vpnVars,
         \/ \E j \in Callers : StartLocks(j) \/ StartDials(j)
         \/ \E s \in Sessions : GoStep(s) \/ ListenerFails(s)
  PROVE  VpnInv'
<1>1. CallInv' /\ cancelFunc' = cancelFunc
  <2>1. ASSUME NEW j \in Callers, StartLocks(j) \/ StartDials(j)
        PROVE  CallInv' /\ cancelFunc' = cancelFunc
    <3>1. step[j] = "start"
      BY <2>1 DEF VpnInv, CallInv, StartLocks, StartDials, StartLock, DialOK
    <3> QED
      BY <2>1, <3>1 DEF VpnInv, CallInv, StartLocks, StartDials, StartLock, DialOK, vpnVars,
         ClientInv, ClientTypeOK
  <2>2. ASSUME NEW s \in Sessions, GoStep(s) \/ ListenerFails(s)
        PROVE  UNCHANGED <<at, cancelFunc>>
    BY <2>2 DEF GoStep, ListenerFails, Serve, ServeAt, Listen, ListenFails, AcceptEnds,
       AcceptFails, StoreStopped, CloseQuic, CloseListener
  <2> QED
    BY <2>1, <2>2 DEF VpnInv, CallInv, vpnVars
<1>2. VpnTypeOK' /\ OpInv' /\ InstInv'
  BY DEF VpnInv, VpnTypeOK, OpInv, InstInv, UnderWay, vpnVars
<1>3. ASSUME orderly PROVE OrderlyInv'
  <2>1. OneByOne' /\ NothingElse' /\ \A j \in Callers : HeldAt(j)'
    BY <1>1, <1>3 DEF VpnInv, OrderlyInv, OneByOne, NothingElse, HeldAt, UnderWay, vpnVars
  <2>2. (isRunning => Held)' /\ (~isRunning /\ AtRest => Nothing)'
    BY <1>1, <1>3 DEF VpnInv, OrderlyInv, Held, Nothing, AtRest, vpnVars
  <2> QED
    BY <2>1, <2>2 DEF OrderlyInv
<1> QED
  BY <1>1, <1>2, <1>3 DEF VpnInv, vpnVars

LEMMA VpnNextKeeps == ASSUME VpnInv, ClientInv, VpnNext PROVE VpnInv'
<1>1. CASE Click \/ NotificationDisconnect
  <2>1. PICK what \in {"connect", "disconnect"} : (what = "connect" => ~isRunning) /\ Request(what)
    BY <1>1 DEF Click, NotificationDisconnect
  <2> QED
    BY <2>1, RequestKeeps
<1>2. CASE Revoke \/ OnDestroy
  BY <1>2, RevokeKeeps, OnDestroyKeeps
<1>3. ASSUME NEW j \in Callers, JobStep(j) \/ JobLocks(j) PROVE VpnInv'
  <2>1. CASE StartLocks(j) \/ StartDials(j)
    BY <2>1, ClientStepsKeep DEF StartLocks, StartDials
  <2> QED
    BY <1>3, <2>1, OnStartCommandKeeps, BranchKeeps, ConnectKeeps, CleanupKeeps, StopSelfKeeps,
       DestroyedKeeps DEF JobStep, JobLocks
<1>4. ASSUME NEW s \in Sessions, GoStep(s) \/ ListenerFails(s) PROVE VpnInv'
  BY <1>4, ClientStepsKeep DEF GoStep, ListenerFails
<1> QED
  BY <1>1, <1>2, <1>3, <1>4 DEF VpnNext

\* Nothing has been asked yet, and nothing is held.
LEMMA VpnInitInv == VpnInit => VpnInv
<1> SUFFICES ASSUME VpnInit PROVE VpnInv
  OBVIOUS
<1> USE GoClientAssumption DEF VpnInit
<1>1. VpnTypeOK
  <2>1. 0 \in 0 .. Cardinality(Callers)
    <3>1. Cardinality(Callers) \in Nat
      BY VpnAssumption, FS_CardinalityType
    <3> QED
      BY <3>1
  <2> QED
    BY <2>1 DEF VpnTypeOK, Steps
<1>2. CallInv
  BY DEF CallInv, ClientInit
<1>3. OpInv
  BY JobsAreNumbers DEF OpInv, ConnectSteps, Waiting
<1>4. InstInv
  BY DEF InstInv, UnderWay, Waiting
<1>5. OrderlyInv
  BY DEF OrderlyInv, OneByOne, NothingElse, HeldAt, Nothing, UnderWay, ClientInit
<1> QED
  BY <1>1, <1>2, <1>3, <1>4, <1>5 DEF VpnInv

\* The invariants of the client and of the service, together.
THEOREM VpnInvariant == VpnSpec => [](ClientInv /\ VpnInv)
<1>1. VpnSpec => []ClientInv
  BY VpnImplementsClient, ClientInvariant, PTL
<1>2. VpnInv /\ UNCHANGED allVars => VpnInv'
  BY DEF allVars, clientVars, vpnVars, VpnInv, VpnTypeOK, CallInv, OpInv, InstInv, OrderlyInv,
     OneByOne, NothingElse, HeldAt, Held, Nothing, AtRest, UnderWay
<1>3. VpnInv /\ ClientInv /\ [VpnNext]_allVars => VpnInv'
  BY <1>2, VpnNextKeeps
<1> QED
  BY <1>1, <1>3, VpnInitInv, PTL DEF VpnSpec, allVars

\* The variables of the service keep their types.
THEOREM VpnTypeCorrect == VpnSpec => []VpnTypeOK
BY VpnInvariant, PTL DEF VpnInv

\* While isRunning is set everything is held, for requests that come one after the
\* other, and as long as the Go client runs it is the held session that serves
\* (connect and cleanup of ProxyVpnService, start and stop of the client).
THEOREM VpnRunningMeansUp == VpnSpec => []RunningMeansUp
<1>1. ClientInv /\ VpnInv => RunningMeansUp
  <2> SUFFICES ASSUME ClientInv, VpnInv, orderly, isRunning
               PROVE  TunnelIsHeld /\ (running => SessionServes(cancelFunc))
    BY DEF RunningMeansUp
  <2>1. Held
    BY DEF VpnInv, OrderlyInv
  <2>2. cancelFunc \in Sessions /\ ctx[cancelFunc] = "live"
    BY <2>1 DEF Held, ClientInv, ClientTypeOK, OwnInv
  <2>3. ASSUME running PROVE SessionServes(cancelFunc)
    <3>1. Serving(cancelFunc)
      BY <2>1, <2>3 DEF Held, ClientInv, RunningIsServing, OwnInv
    <3> QED
      BY <2>2, <3>1 DEF ClientInv, ServeInv, Serving, SessionServes
  <2> QED
    BY <2>1, <2>2, <2>3 DEF Held, TunnelIsHeld
<1> QED
  BY <1>1, VpnInvariant, PTL

\* When nothing is under way and isRunning is false, nothing is held, whichever step of
\* a connect has failed (the catch block of connect, cleanup).
THEOREM VpnNotRunningMeansDown == VpnSpec => []NotRunningMeansDown
<1>1. ClientInv /\ VpnInv => NotRunningMeansDown
  <2> SUFFICES ASSUME ClientInv, VpnInv, orderly, Quiet, ~isRunning PROVE TunnelIsDown
    BY DEF NotRunningMeansDown
  <2>1. AtRest
    BY DEF Quiet, UnderWay, AtRest, RestSteps
  <2>2. Nothing
    BY <2>1 DEF VpnInv, OrderlyInv
  <2> QED
    BY <2>2, GoClientAssumption DEF Nothing, TunnelIsDown, ClientInv, CanBeStopped
<1> QED
  BY <1>1, VpnInvariant, PTL
=============================================================================
