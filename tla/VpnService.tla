----------------------------- MODULE VpnService -----------------------------
(***************************************************************************)
(* The VPN service of the app, ProxyVpnService.kt, with the button and the *)
(* notification that drive it, over the Go client (GoClient).              *)
(*                                                                         *)
(* A job is one request to the service, from the click to the end of the   *)
(* coroutine that serves it, or one call of onDestroy.  Jobs are numbered  *)
(* in the order in which they are made; under its number a job calls Start *)
(* and Stop of the Go client, and the session it starts has that number.   *)
(* Once start has returned, nothing in the app asks the Go client how its  *)
(* session goes: it may fail to listen or lose its listener, and no step   *)
(* of the service follows.  That its QUIC connection may be lost as well   *)
(* is left to GoClient: only AuthOK would notice, and AuthFail is possible *)
(* anyway.  Coroutines run on a pool, interleaved with each other;         *)
(* onStartCommand and onDestroy run on the main thread, one after the      *)
(* other.  A service instance is named by the job that created it; its     *)
(* fields are tunPfd[i], tunWorker[i] and its scope, whereas isRunning and *)
(* the Go client belong to the process.                                    *)
(***************************************************************************)
EXTENDS GoClient

CONSTANT AtOnce  \* bounds the jobs under way at once

ASSUME VpnAssumption ==
  /\ IsFiniteSet(Callers) /\ Callers = 1 .. Cardinality(Callers) /\ Sessions = Callers
  /\ AtOnce \in Nat \ {0}

VARIABLES
  jobs,        \* the number of jobs so far
  op,          \* what each does: "connect", "disconnect" or "destroy"
  step,        \* the next step of each job
  inst,        \* the service instance it belongs to
  svc,         \* the instance the system has, or None
  stopAsked,   \* stopSelf has been called on it
  notified,    \* its notification, with a Disconnect button, is shown
  cancelled,   \* instances whose serviceScope is cancelled
  isRunning,   \* ProxyVpnService.isRunning
  tunPfd,      \* per instance: the job whose TUN descriptor it holds, or None
  tunWorker,   \* per instance: the job that made its worker, or None
  reads,       \* the descriptor that the worker made by a job reads
  fds,         \* jobs whose TUN descriptor is open
  workers,     \* jobs whose worker has been started and not stopped
  orderly      \* history: every request came when nothing was under way

jobVars == <<jobs, op, step, inst>>
sysVars == <<svc, stopAsked, notified, cancelled>>
fieldVars == <<isRunning, tunPfd, tunWorker, reads, fds, workers>>
vpnVars == <<jobs, op, step, inst, svc, stopAsked, notified, cancelled,
             isRunning, tunPfd, tunWorker, reads, fds, workers, orderly>>

VpnInit ==
  /\ ClientInit
  /\ jobs = 0
  /\ op = [j \in Callers |-> "none"]
  /\ step = [j \in Callers |-> "none"]
  /\ inst = [j \in Callers |-> None]
  /\ svc = None /\ stopAsked = FALSE /\ notified = FALSE /\ cancelled = {}
  /\ isRunning = FALSE
  /\ tunPfd = [i \in Callers |-> None]
  /\ tunWorker = [i \in Callers |-> None]
  /\ reads = [j \in Callers |-> None]
  /\ fds = {} /\ workers = {}
  /\ orderly = TRUE

UnderWay(j) == step[j] \notin {"none", "end"}
MainFree == \A j \in Callers : op[j] = "destroy" => ~UnderWay(j)
Quiet == ~stopAsked /\ \A j \in Callers : ~UnderWay(j)

-----------------------------------------------------------------------------
(* Requests: the button, the notification, the system. *)

NewJob(what, at0) ==
  /\ jobs + 1 \in Callers
  /\ Cardinality({j \in Callers : UnderWay(j)}) < AtOnce
  /\ jobs' = jobs + 1
  /\ op' = [op EXCEPT ![jobs + 1] = what]
  /\ step' = [step EXCEPT ![jobs + 1] = at0]

\* A request made after stopSelf is for the next instance.
Request(what) ==
  /\ MainFree
  /\ NewJob(what, IF stopAsked THEN "queued" ELSE "sent")
  /\ orderly' = (orderly /\ Quiet)
  /\ UNCHANGED <<clientVars, inst, sysVars, fieldVars>>

\* The button asks isRunning what it means.
Click == Request(IF isRunning THEN "disconnect" ELSE "connect")

NotificationDisconnect == notified /\ Request("disconnect")

\* Another VPN takes over: VpnService.onRevoke calls stopSelf.
Revoke ==
  /\ MainFree /\ svc # None
  /\ stopAsked' = TRUE
  /\ orderly' = (orderly /\ Quiet)
  /\ UNCHANGED <<clientVars, jobVars, svc, notified, cancelled, fieldVars>>

\* onStartCommand launches the coroutine; the system makes an instance first
\* if it has none.
OnStartCommand(j) ==
  /\ step[j] = "sent" /\ MainFree
  /\ \A k \in Callers : k < j => step[k] # "sent"
  /\ svc' = IF svc = None THEN j ELSE svc
  /\ inst' = [inst EXCEPT ![j] = svc']
  /\ step' = [step EXCEPT ![j] = "launched"]
  /\ notified' = (notified \/ op[j] = "connect")
  /\ UNCHANGED <<clientVars, jobs, op, stopAsked, cancelled, fieldVars, orderly>>

OnDestroy ==
  /\ svc # None /\ stopAsked /\ MainFree
  /\ NewJob("destroy", "c1")
  /\ inst' = [inst EXCEPT ![jobs + 1] = svc]
  /\ UNCHANGED <<clientVars, sysVars, fieldVars, orderly>>

-----------------------------------------------------------------------------
(* connect(): the coroutine. *)

StepTo(j, from, to) ==
  /\ step[j] = from
  /\ step' = [step EXCEPT ![j] = to]
  /\ UNCHANGED <<jobs, op, inst, sysVars, orderly>>

\* A coroutine of a cancelled scope does not start.
NeverRuns(j) ==
  /\ StepTo(j, "launched", "end")
  /\ inst[j] \in cancelled
  /\ UNCHANGED <<clientVars, fieldVars>>

BeginConnect(j) ==
  /\ StepTo(j, "launched", "start")
  /\ op[j] = "connect" /\ inst[j] \notin cancelled
  /\ StartCall(j)
  /\ UNCHANGED fieldVars

StartLocks(j) == StartLock(j) /\ mine'[j] = j /\ UNCHANGED vpnVars
StartDials(j) == DialOK(j) /\ UNCHANGED vpnVars

StartReturns(j) ==
  /\ StepTo(j, "start", "establish")
  /\ AuthOK(j)
  /\ UNCHANGED fieldVars

StartThrows(j) ==
  /\ StepTo(j, "start", "c1")
  /\ StartRefused(j) \/ DialFail(j) \/ AuthFail(j)
  /\ UNCHANGED fieldVars

Establish(j) ==
  /\ StepTo(j, "establish", "worker")
  /\ tunPfd' = [tunPfd EXCEPT ![inst[j]] = j]
  /\ fds' = fds \cup {j}
  /\ UNCHANGED <<clientVars, isRunning, tunWorker, reads, workers>>

\* Mutant: the coroutine ends without the catch block.
EstablishThrows_Uncaught(j) ==
  /\ StepTo(j, "establish", "end")
  /\ UNCHANGED <<clientVars, fieldVars>>

EstablishThrows(j) ==
  /\ StepTo(j, "establish", "c1")
  /\ UNCHANGED <<clientVars, fieldVars>>

\* tunPfd!!
MakeWorker(j) ==
  /\ StepTo(j, "worker", "run")
  /\ tunPfd[inst[j]] # None
  /\ tunWorker' = [tunWorker EXCEPT ![inst[j]] = j]
  /\ reads' = [reads EXCEPT ![j] = tunPfd[inst[j]]]
  /\ UNCHANGED <<clientVars, isRunning, tunPfd, fds, workers>>

WorkerThrows(j) ==
  /\ StepTo(j, "worker", "c1")
  /\ tunPfd[inst[j]] = None
  /\ UNCHANGED <<clientVars, fieldVars>>

\* The loop of the worker does not start in a cancelled scope.
StartWorker(j) ==
  /\ StepTo(j, "run", "connected")
  /\ workers' = IF inst[j] \in cancelled THEN workers ELSE workers \cup {j}
  /\ UNCHANGED <<clientVars, isRunning, tunPfd, tunWorker, reads, fds>>

SetRunning(j) ==
  /\ StepTo(j, "connected", "end")
  /\ isRunning' = TRUE
  /\ UNCHANGED <<clientVars, tunPfd, tunWorker, reads, fds, workers>>

-----------------------------------------------------------------------------
(* cleanup(), called by disconnect(), onDestroy() and a failed connect(). *)

BeginDisconnect(j) ==
  /\ StepTo(j, "launched", "c1")
  /\ op[j] = "disconnect" /\ inst[j] \notin cancelled
  /\ UNCHANGED <<clientVars, fieldVars>>

\* Mutant: isRunning is left set.
ClearRunning_Not(j) ==
  /\ StepTo(j, "c1", "c2")
  /\ UNCHANGED <<clientVars, fieldVars>>

ClearRunning(j) ==
  /\ StepTo(j, "c1", "c2")
  /\ isRunning' = FALSE
  /\ UNCHANGED <<clientVars, tunPfd, tunWorker, reads, fds, workers>>

StopWorker(j) ==
  /\ StepTo(j, "c2", "c3")
  /\ workers' = workers \ {tunWorker[inst[j]]}
  /\ UNCHANGED <<clientVars, isRunning, tunPfd, tunWorker, reads, fds>>

CloseTun(j) ==
  /\ StepTo(j, "c3", "c4")
  /\ tunWorker' = [tunWorker EXCEPT ![inst[j]] = None]
  /\ fds' = fds \ {tunPfd[inst[j]]}
  /\ UNCHANGED <<clientVars, isRunning, tunPfd, reads, workers>>

\* Mutant: the Go client is not stopped.
CallStop_Skips(j) ==
  /\ StepTo(j, "c4", "after")
  /\ tunPfd' = [tunPfd EXCEPT ![inst[j]] = None]
  /\ UNCHANGED <<clientVars, isRunning, tunWorker, reads, fds, workers>>

CallStop(j) ==
  /\ StepTo(j, "c4", "c5")
  /\ tunPfd' = [tunPfd EXCEPT ![inst[j]] = None]
  /\ StopCall(j)
  /\ UNCHANGED <<isRunning, tunWorker, reads, fds, workers>>

StopDone(j) ==
  /\ StepTo(j, "c5", "after")
  /\ Stop(j)
  /\ UNCHANGED fieldVars

\* stopSelf(), which does nothing for an instance the system has destroyed.
StopSelf(j) ==
  /\ step[j] = "after" /\ op[j] # "destroy"
  /\ step' = [step EXCEPT ![j] = "end"]
  /\ stopAsked' = (stopAsked \/ inst[j] = svc)
  /\ notified' = (notified /\ op[j] # "disconnect")
  /\ UNCHANGED <<clientVars, jobs, op, inst, svc, cancelled, fieldVars, orderly>>

\* serviceScope.cancel(), and the system drops the instance.
Destroyed(j) ==
  /\ step[j] = "after" /\ op[j] = "destroy"
  /\ step' = [k \in Callers |-> IF k = j THEN "end"
                                ELSE IF step[k] = "queued" THEN "sent" ELSE step[k]]
  /\ cancelled' = cancelled \cup {inst[j]}
  /\ svc' = None /\ stopAsked' = FALSE /\ notified' = FALSE
  /\ UNCHANGED <<clientVars, jobs, op, inst, fieldVars, orderly>>

-----------------------------------------------------------------------------
JobStep(j) ==
  \/ OnStartCommand(j) \/ NeverRuns(j) \/ BeginConnect(j) \/ BeginDisconnect(j)
  \/ StartDials(j) \/ StartReturns(j)
  \/ Establish(j) \/ EstablishThrows(j) \/ MakeWorker(j) \/ WorkerThrows(j)
  \/ StartWorker(j) \/ SetRunning(j)
  \/ ClearRunning(j) \/ StopWorker(j) \/ CloseTun(j) \/ CallStop(j)
  \/ StopSelf(j) \/ Destroyed(j)

\* The steps that may wait for the mutex of the Go client.
JobLocks(j) == StartThrows(j) \/ StartLocks(j) \/ StopDone(j)

GoStep(s) == Serve(s) /\ UNCHANGED vpnVars
ListenerFails(s) == AcceptFails(s) /\ UNCHANGED vpnVars

VpnNext ==
  \/ Click \/ NotificationDisconnect \/ Revoke \/ OnDestroy
  \/ \E j \in Callers : JobStep(j) \/ JobLocks(j)
  \/ \E s \in Sessions : GoStep(s) \/ ListenerFails(s)

VpnSpec == VpnInit /\ [][VpnNext]_<<clientVars, vpnVars>>

\* Coroutines, the main thread and goroutines run; the mutex of the Go client
\* is granted, and what holds it ends, as in GoClient.
VpnFairness ==
  /\ \A j \in Callers :
       /\ WF_<<clientVars, vpnVars>>(JobStep(j))
       /\ SF_<<clientVars, vpnVars>>(JobLocks(j))
  /\ \A s \in Sessions : WF_<<clientVars, vpnVars>>(GoStep(s))

FairVpnSpec == VpnSpec /\ VpnFairness

-----------------------------------------------------------------------------
Steps == {"none", "queued", "sent", "launched", "start", "establish", "worker", "run", "connected",
          "c1", "c2", "c3", "c4", "c5", "after", "end"}

\* The type invariant of the service; a job that has been served knows by which
\* instance.
VpnTypeOK ==
  LET JobOrNone == Callers \cup {None} IN
  /\ jobs \in 0 .. Cardinality(Callers)
  /\ op \in [Callers -> {"none", "connect", "disconnect", "destroy"}]
  /\ step \in [Callers -> Steps]
  /\ inst \in [Callers -> JobOrNone]
  /\ \A j \in Callers : inst[j] = None => step[j] \in {"none", "queued", "sent"}
  /\ svc \in JobOrNone
  /\ {stopAsked, notified, isRunning, orderly} \subseteq BOOLEAN
  /\ cancelled \subseteq Callers
  /\ tunPfd \in [Callers -> JobOrNone]
  /\ tunWorker \in [Callers -> JobOrNone]
  /\ reads \in [Callers -> JobOrNone]
  /\ fds \subseteq Callers /\ workers \subseteq Callers

\* The instance the system has holds an open TUN descriptor and a worker that
\* reads it, and the Go client has a session that nobody has cancelled.
TunnelIsHeld ==
  /\ svc # None /\ tunPfd[svc] \in fds
  /\ tunWorker[svc] \in workers /\ reads[tunWorker[svc]] = tunPfd[svc]
  /\ cancelFunc # None /\ ctx[cancelFunc] = "live"

\* The session is about to bind its port or accepts connections on it, or has just
\* failed to and not said so yet, and has not closed its QUIC connection.
SessionServes(s) ==
  /\ serve[s] \in {"listen", "accept", "store"}
  /\ serve[s] = "accept" => ln[s] = "open"
  /\ quic[s] # "closed"

\* Nothing is held: no descriptor, no worker, no session that nobody cancelled.
TunnelIsDown ==
  /\ fds = {} /\ workers = {}
  /\ \A s \in Sessions : Serving(s) => ctx[s] = "cancelled"

(***************************************************************************)
(* For requests that come one after the other, at any step of any of them: *)
(* while isRunning is true the connect that set it has its descriptor, its *)
(* worker and a session nobody has cancelled, for every cleanup clears     *)
(* isRunning first; and for as long as the Go client says that it runs, it *)
(* is this session which serves.  It is not said that the session serves   *)
(* for as long as isRunning is true: start returns before the port is      *)
(* bound, the session may end by itself, and the app does not notice.      *)
(***************************************************************************)
RunningMeansUp ==
  orderly /\ isRunning =>
    TunnelIsHeld /\ (running => SessionServes(cancelFunc))

(***************************************************************************)
(* When nothing is under way and isRunning is false, everything has been   *)
(* released, whichever step of a connect failed and however often it was   *)
(* cleaned up; again for requests that come one after the other.           *)
(***************************************************************************)
NotRunningMeansDown == orderly /\ Quiet /\ ~isRunning => TunnelIsDown

\* Every coroutine that onStartCommand has launched ends, and onDestroy gives
\* the main thread back, although both wait for the Go client's mutex.
JobsEnd ==
  \A j \in Callers :
    step[j] \notin {"none", "queued", "sent", "end"} ~> step[j] = "end"

-----------------------------------------------------------------------------
(* What the documentation of the app says and the code does not do. *)

\* "Status changes to Connected - all traffic now goes through the tunnel": when
\* nothing is under way the button is right about what the service holds.
ConnectedIsConnected == Quiet /\ isRunning => TunnelIsHeld
=============================================================================
