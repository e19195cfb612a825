------------------------------ MODULE GoClient ------------------------------
(***************************************************************************)
(* The Hysteria2 client of the Android library, android/go/hysteria2.go:   *)
(* Start and Stop with their mutex, the sessions that Start creates, the   *)
(* goroutine that serves the local SOCKS5 port of a session, the goroutine *)
(* that closes its listener, and the QUIC connection, which may be lost at *)
(* any time.                                                               *)
(*                                                                         *)
(* Start and Stop are called by any number of threads; mu is held by start *)
(* while it dials and authenticates, which are steps of their own.  Stop   *)
(* is one step once it has the mutex.  The SOCKS5 clients and the streams  *)
(* of a session are left out.                                              *)
(***************************************************************************)
EXTENDS Integers, FiniteSets

CONSTANTS
  Callers,     \* threads that call Start and Stop
  Sessions,    \* one for every start that gets past its check; bounds their number
  PortTaken,   \* may another program hold the local port?
  None

ASSUME GoClientAssumption ==
  /\ PortTaken \in BOOLEAN
  /\ None \notin Callers \cup Sessions

VARIABLES
  mu,          \* the caller that holds client.mu across steps, or None
  running,     \* client.running
  cancelFunc,  \* the session client.cancelFunc cancels, or None
  at,          \* where each caller is
  mine,        \* the session a caller in start is setting up
  ctx,         \* the context of a session
  quic,        \* its QUIC connection
  serve,       \* the goroutine of start that runs runSocks5Listener
  ln           \* the local listener

clientVars == <<mu, running, cancelFunc, at, mine, ctx, quic, serve, ln>>

ClientInit ==
  /\ mu = None /\ running = FALSE /\ cancelFunc = None
  /\ at = [t \in Callers |-> "idle"]
  /\ mine = [t \in Callers |-> None]
  /\ ctx = [s \in Sessions |-> "unused"]
  /\ quic = [s \in Sessions |-> "none"]
  /\ serve = [s \in Sessions |-> "none"]
  /\ ln = [s \in Sessions |-> "none"]

-----------------------------------------------------------------------------
(* Start(...) *)

CallerOnly(t, from, to) ==
  /\ at[t] = from
  /\ at' = [at EXCEPT ![t] = to]
  /\ UNCHANGED <<mu, running, cancelFunc, mine, ctx, quic, serve, ln>>

StartCall(t) == CallerOnly(t, "idle", "start")

\* return fmt.Errorf("already running")
StartRefused(t) == mu = None /\ running /\ CallerOnly(t, "start", "idle")

\* Mutant: start does not ask whether the client is running.
StartLock_NoCheck(t) ==
  /\ at[t] = "start" /\ mu = None
  /\ mu' = t
  /\ at' = [at EXCEPT ![t] = "dial"]
  /\ \E s \in Sessions :
       /\ ctx[s] = "unused"
       /\ ctx' = [ctx EXCEPT ![s] = "live"]
       /\ mine' = [mine EXCEPT ![t] = s]
  /\ UNCHANGED <<running, cancelFunc, quic, serve, ln>>

StartLock(t) ==
  /\ at[t] = "start" /\ mu = None /\ ~running
  /\ mu' = t
  /\ at' = [at EXCEPT ![t] = "dial"]
  /\ \E s \in Sessions :
       /\ ctx[s] = "unused"
       /\ ctx' = [ctx EXCEPT ![s] = "live"]
       /\ mine' = [mine EXCEPT ![t] = s]
  /\ UNCHANGED <<running, cancelFunc, quic, serve, ln>>

DialOK(t) ==
  /\ at[t] = "dial"
  /\ at' = [at EXCEPT ![t] = "auth"]
  /\ quic' = [quic EXCEPT ![mine[t]] = "up"]
  /\ UNCHANGED <<mu, running, cancelFunc, mine, ctx, serve, ln>>

\* cancel(), and for a failed authentication conn.CloseWithError; return err.
StartFails(t, from) ==
  /\ at[t] = from
  /\ at' = [at EXCEPT ![t] = "idle"]
  /\ mine' = [mine EXCEPT ![t] = None]
  /\ ctx' = [ctx EXCEPT ![mine[t]] = "cancelled"]
  /\ quic' = [quic EXCEPT ![mine[t]] = IF from = "auth" THEN "closed" ELSE @]
  /\ mu' = None
  /\ UNCHANGED <<running, cancelFunc, serve, ln>>

\* Mutant: the lock is not released when the dial fails.
DialFail_KeepsLock(t) ==
  /\ CallerOnly(t, "dial", "idle")

DialFail(t) == StartFails(t, "dial")
AuthFail(t) == StartFails(t, "auth")

\* The session is published, its goroutine started, the lock released.
AuthOK(t) ==
  /\ at[t] = "auth" /\ quic[mine[t]] = "up"
  /\ at' = [at EXCEPT ![t] = "idle"]
  /\ mine' = [mine EXCEPT ![t] = None]
  /\ cancelFunc' = mine[t]
  /\ running' = TRUE
  /\ serve' = [serve EXCEPT ![mine[t]] = "listen"]
  /\ mu' = None
  /\ UNCHANGED <<ctx, quic, ln>>

-----------------------------------------------------------------------------
(* Stop() *)

StopCall(t) == CallerOnly(t, "idle", "stop")

\* Mutant: the session is forgotten before it is cancelled.
Stop_ForgetsCancel(t) ==
  /\ at[t] = "stop" /\ mu = None
  /\ at' = [at EXCEPT ![t] = "idle"]
  /\ cancelFunc' = None
  /\ UNCHANGED <<mu, running, mine, ctx, quic, serve, ln>>

Stop(t) ==
  /\ at[t] = "stop" /\ mu = None
  /\ at' = [at EXCEPT ![t] = "idle"]
  /\ ctx' = [s \in Sessions |-> IF s = cancelFunc THEN "cancelled" ELSE ctx[s]]
  /\ cancelFunc' = None
  /\ UNCHANGED <<mu, running, mine, quic, serve, ln>>

-----------------------------------------------------------------------------
(* The goroutines of a session: runSocks5Listener, then the deferred calls. *)

ServeAt(s, from, to) ==
  /\ serve[s] = from
  /\ serve' = [serve EXCEPT ![s] = to]
  /\ UNCHANGED <<mu, cancelFunc, at, mine, ctx>>

PortBusy == \E s \in Sessions : ln[s] = "open"

Listen(s) ==
  /\ ServeAt(s, "listen", "accept")
  /\ ~PortBusy
  /\ ln' = [ln EXCEPT ![s] = "open"]
  /\ UNCHANGED <<running, quic>>

ListenFails(s) ==
  /\ ServeAt(s, "listen", "store")
  /\ PortBusy \/ PortTaken
  /\ UNCHANGED <<running, quic, ln>>

\* Accept fails: ln was closed, or for a reason of its own ("accept: %w"),
\* and then ln is left open.
AcceptFails(s) ==
  /\ ServeAt(s, "accept", "store")
  /\ UNCHANGED <<running, quic, ln>>

AcceptEnds(s) == ln[s] = "closed" /\ AcceptFails(s)

\* Mutant: the goroutine returns without c.running.Store(false).
StoreStopped_Skips(s) ==
  /\ ServeAt(s, "store", "close")
  /\ UNCHANGED <<running, quic, ln>>

StoreStopped(s) ==
  /\ ServeAt(s, "store", "close")
  /\ running' = FALSE
  /\ UNCHANGED <<quic, ln>>

CloseQuic(s) ==
  /\ ServeAt(s, "close", "ended")
  /\ quic' = [quic EXCEPT ![s] = "closed"]
  /\ UNCHANGED <<running, ln>>

\* Mutant: the goroutine that waits for the context is missing.
CloseListener_Never(s) ==
  /\ serve[s] = "ended" /\ ctx[s] = "cancelled" /\ ln[s] = "open"
  /\ ln' = [ln EXCEPT ![s] = "closed"]
  /\ UNCHANGED <<mu, running, cancelFunc, at, mine, ctx, quic, serve>>

\* <-ctx.Done(); ln.Close()
CloseListener(s) ==
  /\ ctx[s] = "cancelled" /\ ln[s] = "open"
  /\ ln' = [ln EXCEPT ![s] = "closed"]
  /\ UNCHANGED <<mu, running, cancelFunc, at, mine, ctx, quic, serve>>

\* The server or the network is gone: an idle timeout, a restart, a roaming phone.
QuicLost(s) ==
  /\ quic[s] = "up"
  /\ quic' = [quic EXCEPT ![s] = "lost"]
  /\ UNCHANGED <<mu, running, cancelFunc, at, mine, ctx, serve, ln>>

-----------------------------------------------------------------------------
Acquire(t) == StartRefused(t) \/ StartLock(t) \/ Stop(t)
SetUp(t) == DialOK(t) \/ DialFail(t) \/ AuthOK(t) \/ AuthFail(t)
Serve(s) ==
  \/ Listen(s) \/ ListenFails(s) \/ AcceptEnds(s)
  \/ StoreStopped(s) \/ CloseQuic(s) \/ CloseListener(s)

ClientNext ==
  \/ \E t \in Callers : StartCall(t) \/ StopCall(t) \/ Acquire(t) \/ SetUp(t)
  \/ \E s \in Sessions : Serve(s) \/ AcceptFails(s) \/ QuicLost(s)

ClientSpec == ClientInit /\ [][ClientNext]_clientVars

(***************************************************************************)
(* Runnable goroutines run; sync.Mutex is starvation-free.  DialAddr ends  *)
(* by its handshake timeout.  That sendAuth ends is an assumption about    *)
(* the server: it answers or closes, as hy2HandleConn does (the keep-alive *)
(* would hold a silent connection up for ever, and sendAuth has no         *)
(* timeout).  Accept is not assumed to fail.                               *)
(***************************************************************************)
ClientFairness ==
  /\ \A t \in Callers : SF_clientVars(Acquire(t)) /\ WF_clientVars(SetUp(t))
  /\ \A s \in Sessions : WF_clientVars(Serve(s))

FairClientSpec == ClientSpec /\ ClientFairness

-----------------------------------------------------------------------------
\* The type invariant of the client.
ClientTypeOK ==
  /\ mu \in Callers \cup {None}
  /\ running \in BOOLEAN
  /\ cancelFunc \in Sessions \cup {None}
  /\ at \in [Callers -> {"idle", "start", "dial", "auth", "stop"}]
  /\ mine \in [Callers -> Sessions \cup {None}]
  /\ ctx \in [Sessions -> {"unused", "live", "cancelled"}]
  /\ quic \in [Sessions -> {"none", "up", "lost", "closed"}]
  /\ serve \in [Sessions -> {"none", "listen", "accept", "store", "close", "ended"}]
  /\ ln \in [Sessions -> {"none", "open", "closed"}]

Serving(s) == serve[s] \in {"listen", "accept", "store"}

(***************************************************************************)
(* running, written without the mutex by the goroutine of a session, is    *)
(* never the word of another session: it is true exactly while a session   *)
(* has been published and its goroutine has not stored false, and then     *)
(* there is one such session only.                                         *)
(***************************************************************************)
RunningIsServing ==
  /\ running <=> \E s \in Sessions : Serving(s)
  /\ \A r, s \in Sessions : Serving(r) /\ Serving(s) => r = s

\* However calls of Start and Stop overlap, a session that serves can be
\* stopped: cancelFunc is its own, or it has been cancelled already.
CanBeStopped ==
  \A s \in Sessions : Serving(s) => cancelFunc = s \/ ctx[s] = "cancelled"

\* Stop returns, also when it is called while another thread is in Start.
StopReturns == \A t \in Callers : at[t] = "stop" ~> at[t] = "idle"

(***************************************************************************)
(* A cancelled session ends completely: its listener is closed, its        *)
(* goroutine is over and its QUIC connection is not left open, whichever   *)
(* of Listen and Stop came first and however the accept loop ended.        *)
(***************************************************************************)
CancelledEnds ==
  \A s \in Sessions :
    ctx[s] = "cancelled" ~>
      ln[s] # "open" /\ serve[s] \in {"none", "ended"} /\ quic[s] # "up"

=============================================================================
