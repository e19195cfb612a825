--------------------------------- MODULE Hy2 ---------------------------------
(***************************************************************************)
(* One QUIC connection with both its ends: the server, proxy/hysteria2.go, *)
(* and the Android client, android/go/hysteria2.go.  A flow is a SOCKS5    *)
(* connection to the client's local port, the stream opened for it and the *)
(* TCP connection that the server dials for the stream.                    *)
(*                                                                         *)
(*   app ==a==> client ==u==> server ==t==> target                         *)
(*   app <==b== client <==d== server <==r== target                         *)
(*                                                                         *)
(* A pipe is one direction of a TCP connection or of a stream; each of the *)
(* four copiers moves bytes from one pipe to the next.  Bytes are numbers. *)
(* Of quic-go (external) the model keeps what both programs depend on:     *)
(* Close ends the write side of a stream only, and does not wake a Write   *)
(* that waits for the reader of the other end, whose bytes the FIN must    *)
(* follow; nobody calls CancelRead or CancelWrite; a stream counts against *)
(* MaxIncomingStreams until the server has read the client's FIN and its   *)
(* own has been acknowledged; once an end has lost the connection, its     *)
(* reads and writes fail.                                                  *)
(***************************************************************************)
EXTENDS Integers, FiniteSets

CONSTANTS
  Flows,
  MaxStreams,   \* MaxIncomingStreams, 1024 in the code
  MaxBytes,     \* bytes that the remote ends of a flow send; a bound
  Window,       \* bytes that wait in a pipe for its reader
  DoneCap,      \* capacity of the channels named done
  Dials,        \* how dialling a target may end
  MaxFaults     \* resets and losses of the connection; a bound

Pipes == {"a", "u", "t", "r", "d", "b"}
Streams == {"u", "d"}
Copiers == {"cu", "su", "sd", "cd"}
Ends == {"client", "server"}
Src == [cu |-> "a", su |-> "u", sd |-> "r", cd |-> "d"]
Dst == [cu |-> "u", su |-> "t", sd |-> "d", cd |-> "b"]
EndOf == [cu |-> "client", cd |-> "client", su |-> "server", sd |-> "server"]
Remote == [a |-> "app", b |-> "app", t |-> "target", r |-> "target"]

ASSUME Hy2Assumption ==
  /\ MaxStreams \in Nat /\ MaxBytes \in Nat
  /\ Window \in Nat \ {0} /\ DoneCap = 2
  /\ Dials \subseteq {"ok", "fail"} /\ MaxFaults \in Nat

VARIABLES
  auth,   \* sendAuth of the client
  good,   \* is its password the server's?
  srv,    \* hy2HandleConn of the server
  word,   \* the server's word on the authentication
  live,   \* the ends that still have the connection
  flow    \* the flows

authVars == <<auth, good, srv, word>>
hy2Vars == <<auth, good, srv, word, live, flow>>

HandlerPoints == {"idle", "greet", "request", "open", "resp", "reply", "relay", "fin", "close", "gone"}
ServerPoints == {"none", "dial", "answer", "relay", "target", "fin", "gone"}

FlowType == [
  h      : HandlerPoints,                    \* handleSocks5Client
  s      : ServerPoints,                     \* hy2HandleStream
  cop    : [Copiers -> {"none", "read", "write", "block", "shut", "send", "end"}],
  done   : [Ends -> 0 .. DoneCap],           \* messages in the channels named done
  six    : BOOLEAN,                          \* the target is an IPv6 address
  opened : BOOLEAN,                          \* the stream exists
  seen   : BOOLEAN,                          \* the server has read its FIN
  acked  : BOOLEAN,                          \* the server's FIN has been acknowledged
  resp   : {"none", "ok", "no"},             \* the server's response on it
  told   : {"none", "ok", "refused"},        \* the last reply to the app
  q      : [Pipes -> 0 .. Window],           \* bytes in a pipe
  fin    : SUBSET Pipes,                     \* pipes that their writer has ended
  shut   : SUBSET {"app", "target"},         \* TCP connections closed by the proxy
  reset  : SUBSET {"app", "target"},         \* and reset by the remote end
  sent   : [{"a", "r"} -> 0 .. MaxBytes],    \* bytes the remote ends have written
  got    : [{"t", "b"} -> Nat]]              \* and read

NewFlow == [
  h |-> "idle", s |-> "none", cop |-> [k \in Copiers |-> "none"],
  done |-> [e \in Ends |-> 0], six |-> FALSE, opened |-> FALSE, seen |-> FALSE, acked |-> FALSE,
  resp |-> "none", told |-> "none", q |-> [p \in Pipes |-> 0],
  fin |-> {}, shut |-> {}, reset |-> {},
  sent |-> [p \in {"a", "r"} |-> 0], got |-> [p \in {"t", "b"} |-> 0]]

Hy2Init ==
  /\ auth = "open" /\ good \in BOOLEAN /\ srv = "accept" /\ word = "none"
  /\ live = Ends
  /\ flow = [f \in Flows |-> NewFlow]

-----------------------------------------------------------------------------
(* Authentication: sendAuth, hy2HandleConn, hy2HandleAuth *)

SendAuth ==
  /\ auth = "open"
  /\ auth' = IF "client" \in live THEN "wait" ELSE "failed"
  /\ UNCHANGED <<good, srv, word, live, flow>>

\* Mutant: the answer to a wrong password is neither a reply nor an error.
HandleAuth_Silent ==
  /\ srv = "accept" /\ "server" \in live /\ auth # "open"
  /\ word' = IF good THEN "ok" ELSE "none"
  /\ srv' = IF good THEN "loop" ELSE "closed"
  /\ UNCHANGED <<auth, good, live, flow>>

\* The reply is written and the stream closed; then the loop, or CloseWithError.
HandleAuth ==
  /\ srv = "accept" /\ "server" \in live /\ auth # "open"
  /\ word' = IF good THEN "ok" ELSE "no"
  /\ srv' = IF good THEN "loop" ELSE "reject"
  /\ UNCHANGED <<auth, good, live, flow>>

RejectAuth ==
  /\ srv = "reject"
  /\ srv' = "closed" /\ live' = live \ {"server"}
  /\ UNCHANGED <<auth, good, word, flow>>

\* AcceptStream fails.
LeaveConn ==
  /\ srv \in {"accept", "loop"} /\ "server" \notin live
  /\ srv' = "closed"
  /\ UNCHANGED <<auth, good, word, live, flow>>

\* A client that is refused closes the connection.
AuthAnswered ==
  /\ auth = "wait" /\ "client" \in live /\ word # "none"
  /\ auth' = IF word = "ok" THEN "up" ELSE "failed"
  /\ live' = IF word = "ok" THEN live ELSE live \ {"client"}
  /\ UNCHANGED <<good, srv, word, flow>>

AuthLost ==
  /\ auth = "wait" /\ "client" \notin live
  /\ auth' = "failed"
  /\ UNCHANGED <<good, srv, word, live, flow>>

Faults == {e \in Flows \X {"app", "target"} : e[2] \in flow[e[1]].reset}
MayFail == Cardinality(Faults) + (IF live = Ends THEN 0 ELSE 1) < MaxFaults

\* The client is stopped or the network fails; the other end learns of it, at the
\* latest by its idle timeout.
ConnDies(e) ==
  /\ e \in live
  /\ live' = live \ {e}
  /\ UNCHANGED <<authVars, flow>>

ConnLost(e) == live = Ends /\ MayFail /\ ConnDies(e)
ConnNoticed(e) == live # Ends /\ ConnDies(e)

-----------------------------------------------------------------------------
(* The client's side of a flow: handleSocks5Client, openTcpStream, relay *)

Becomes(f, new) ==
  /\ flow' = [flow EXCEPT ![f] = new]
  /\ UNCHANGED <<authVars, live>>

\* Streams that count against the limit.
Returned(w) == w.seen /\ w.acked
Held == {f \in Flows : flow[f].opened /\ ~Returned(flow[f])}

\* The stream of the authentication, whose FIN nobody reads, counts as well.
SlotFree == 1 + Cardinality(Held) < MaxStreams

Connect(f) == LET w == flow[f] IN
  /\ w.h = "idle" /\ auth = "up" /\ "client" \in live
  /\ Becomes(f, [w EXCEPT !.h = "greet"])

\* Version 5; the methods that the app offers are not looked at.
Greet(f) == LET w == flow[f] IN
  /\ w.h = "greet" /\ "app" \notin w.reset
  /\ Becomes(f, [w EXCEPT !.h = "request"])

\* CONNECT to an IPv4 address, a name, or an IPv6 address.
Request(f) == LET w == flow[f] IN
  /\ w.h = "request" /\ "app" \notin w.reset
  /\ \E v6 \in BOOLEAN : Becomes(f, [w EXCEPT !.h = "open", !.six = v6])

\* The app is gone, speaks another version, or asks for something else.
Refuse(f) == LET w == flow[f] IN
  /\ w.h \in {"greet", "request"}
  /\ Becomes(f, [w EXCEPT !.h = "close", !.told = "refused"])

\* OpenStreamSync waits for a slot; then the request is written.
OpenStream(f) == LET w == flow[f] IN
  /\ w.h = "open" /\ "client" \in live /\ SlotFree
  /\ Becomes(f, [w EXCEPT !.h = "resp", !.opened = TRUE])

OpenFails(f) == LET w == flow[f] IN
  /\ w.h = "open" /\ "client" \notin live
  /\ Becomes(f, [w EXCEPT !.h = "close", !.told = "refused"])

Response(f) == LET w == flow[f] IN
  /\ w.h = "resp" /\ "client" \in live /\ w.resp = "ok"
  /\ Becomes(f, [w EXCEPT !.h = "reply"])

\* stream.Close(); reply 4, host unreachable.
ResponseFails(f) == LET w == flow[f] IN
  /\ w.h = "resp" /\ ("client" \notin live \/ w.resp = "no")
  /\ Becomes(f, [w EXCEPT !.h = "close", !.told = "refused", !.fin = @ \cup {"u"}])

\* The success reply; both copiers are started.
Reply(f) == LET w == flow[f] IN
  /\ w.h = "reply" /\ "app" \notin w.reset
  /\ Becomes(f, [w EXCEPT !.h = "relay", !.told = "ok", !.cop.cu = "read", !.cop.cd = "read"])

ReplyFails(f) == LET w == flow[f] IN
  /\ w.h = "reply" /\ "app" \in w.reset
  /\ Becomes(f, [w EXCEPT !.h = "fin"])

RecvDone(f) == LET w == flow[f] IN
  /\ w.h = "relay" /\ w.done.client > 0
  /\ Becomes(f, [w EXCEPT !.h = "fin", !.done.client = @ - 1])

\* Mutant: the stream is left open.
CloseStream_Not(f) == LET w == flow[f] IN
  /\ w.h = "fin"
  /\ Becomes(f, [w EXCEPT !.h = "close"])

\* The deferred calls: stream.Close(), client.Close().
CloseStream(f) == LET w == flow[f] IN
  /\ w.h = "fin"
  /\ Becomes(f, [w EXCEPT !.h = "close", !.fin = @ \cup {"u"}])

CloseClient(f) == LET w == flow[f] IN
  /\ w.h = "close"
  /\ Becomes(f, [w EXCEPT !.h = "gone", !.shut = @ \cup {"app"}])

Client(f) ==
  \/ Greet(f) \/ Request(f) \/ OpenStream(f) \/ OpenFails(f) \/ Response(f)
  \/ ResponseFails(f) \/ Reply(f) \/ ReplyFails(f) \/ RecvDone(f)
  \/ CloseStream(f) \/ CloseClient(f)

-----------------------------------------------------------------------------
(* The server's side: hy2HandleStream, hy2HandleTCP *)

\* AcceptStream; the type byte and the request are read.
AcceptStream(f) == LET w == flow[f] IN
  /\ w.s = "none" /\ w.opened /\ srv = "loop" /\ "server" \in live
  /\ Becomes(f, [w EXCEPT !.s = "dial"])

DialOK(f) == LET w == flow[f] IN
  /\ w.s = "dial" /\ "ok" \in Dials /\ ~w.six
  /\ Becomes(f, [w EXCEPT !.s = "answer"])

\* Mutant: the failure is answered like a success.
DialFails_SaysOK(f) == LET w == flow[f] IN
  /\ w.s = "dial" /\ ("fail" \in Dials \/ w.six)
  /\ Becomes(f, [w EXCEPT !.s = "fin", !.resp = IF "server" \in live THEN "ok" ELSE @])

\* Of an IPv6 address, always: the network is tcp4.
DialFails(f) == LET w == flow[f] IN
  /\ w.s = "dial" /\ ("fail" \in Dials \/ w.six)
  /\ Becomes(f, [w EXCEPT !.s = "fin", !.resp = IF "server" \in live THEN "no" ELSE @])

\* The response; both copiers are started.
Answer(f) == LET w == flow[f] IN
  /\ w.s = "answer" /\ "server" \in live
  /\ Becomes(f, [w EXCEPT !.s = "relay", !.resp = "ok", !.cop.su = "read", !.cop.sd = "read"])

AnswerFails(f) == LET w == flow[f] IN
  /\ w.s = "answer" /\ "server" \notin live
  /\ Becomes(f, [w EXCEPT !.s = "target"])

\* Mutant: the relay is left before a direction has ended.
RecvDoneServer_NoWait(f) == LET w == flow[f] IN
  /\ w.s = "relay"
  /\ Becomes(f, [w EXCEPT !.s = "target"])

RecvDoneServer(f) == LET w == flow[f] IN
  /\ w.s = "relay" /\ w.done.server > 0
  /\ Becomes(f, [w EXCEPT !.s = "target", !.done.server = @ - 1])

\* The deferred calls: target.Close(), stream.Close().
CloseTarget(f) == LET w == flow[f] IN
  /\ w.s = "target"
  /\ Becomes(f, [w EXCEPT !.s = "fin", !.shut = @ \cup {"target"}])

\* Mutant: the server's stream is not closed.
CloseStreamServer_Not(f) == LET w == flow[f] IN
  /\ w.s = "fin"
  /\ Becomes(f, [w EXCEPT !.s = "gone"])

CloseStreamServer(f) == LET w == flow[f] IN
  /\ w.s = "fin"
  /\ Becomes(f, [w EXCEPT !.s = "gone", !.fin = @ \cup {"d"}])

Serve(f) ==
  \/ AcceptStream(f) \/ DialOK(f) \/ DialFails(f) \/ Answer(f) \/ AnswerFails(f)
  \/ RecvDoneServer(f) \/ CloseTarget(f) \/ CloseStreamServer(f)

-----------------------------------------------------------------------------
(* io.Copy in its four goroutines *)

\* Reads and writes of copier k on pipe p fail.
Broken(w, k, p) ==
  IF p \in Streams THEN EndOf[k] \notin live ELSE Remote[p] \in w.shut \cup w.reset

\* A Write fails on a stream that has been closed, unless it was waiting already.
WriteBroken(w, k) ==
  Broken(w, k, Dst[k]) \/ (w.cop[k] = "write" /\ Dst[k] \in w.fin)

\* The FIN of a stream follows the bytes of a Write that still waits.
FinSent(w, p) == p \in w.fin /\ \A k \in Copiers : Dst[k] = p => w.cop[k] # "block"

\* Mutant: the reader does not wait for a byte.
CopyRead_NoWait(f, k) == LET w == flow[f]  p == Src[k] IN
  /\ w.cop[k] = "read" /\ ~Broken(w, k, p)
  /\ Becomes(f, [w EXCEPT !.cop[k] = "write", !.q[p] = @ - 1])

\* The FIN of a stream may come with the last byte read, or with the next read.
CopyRead(f, k) == LET w == flow[f]  p == Src[k] IN
  /\ w.cop[k] = "read" /\ ~Broken(w, k, p) /\ w.q[p] > 0
  /\ \E last \in {FALSE, k = "su" /\ FinSent(w, p) /\ w.q[p] = 1} :
       Becomes(f, [w EXCEPT !.cop[k] = "write", !.q[p] = @ - 1, !.seen = @ \/ last])

\* The copy is over; only the server's copier to the target calls CloseWrite.
Over(k) == IF k = "su" THEN "shut" ELSE "send"

\* Mutant: a FIN ends a copy before the bytes that came first are read.
CopyEnds_Early(f, k) == LET w == flow[f]  p == Src[k] IN
  /\ w.cop[k] = "read"
  /\ Broken(w, k, p) \/ FinSent(w, p)
  /\ Becomes(f, [w EXCEPT !.cop[k] = Over(k), !.seen = @ \/ (k = "su" /\ ~Broken(w, k, p))])

CopyEnds(f, k) == LET w == flow[f]  p == Src[k] IN
  /\ w.cop[k] = "read"
  /\ Broken(w, k, p) \/ (w.q[p] = 0 /\ FinSent(w, p))
  /\ Becomes(f, [w EXCEPT !.cop[k] = Over(k), !.seen = @ \/ (k = "su" /\ ~Broken(w, k, p))])

\* A Write on a stream waits until the other end has read.
CopyBlock(f, k) == LET w == flow[f]  p == Dst[k] IN
  /\ w.cop[k] = "write" /\ p \in Streams /\ ~WriteBroken(w, k) /\ w.q[p] = Window
  /\ Becomes(f, [w EXCEPT !.cop[k] = "block"])

CopyWrite(f, k) == LET w == flow[f]  p == Dst[k] IN
  /\ w.cop[k] \in {"write", "block"} /\ ~WriteBroken(w, k) /\ w.q[p] < Window
  /\ Becomes(f, [w EXCEPT !.cop[k] = "read", !.q[p] = @ + 1])

CopyFails(f, k) == LET w == flow[f] IN
  /\ w.cop[k] \in {"write", "block"} /\ WriteBroken(w, k)
  /\ Becomes(f, [w EXCEPT !.cop[k] = Over(k)])

CopyShut(f, k) == LET w == flow[f] IN
  /\ w.cop[k] = "shut"
  /\ Becomes(f, [w EXCEPT !.cop[k] = "send", !.fin = @ \cup {"t"}])

CopySend(f, k) == LET w == flow[f]  e == EndOf[k] IN
  /\ w.cop[k] = "send" /\ w.done[e] < DoneCap
  /\ Becomes(f, [w EXCEPT !.cop[k] = "end", !.done[e] = @ + 1])

Copy(f, k) ==
  \/ CopyRead(f, k) \/ CopyEnds(f, k) \/ CopyBlock(f, k) \/ CopyWrite(f, k)
  \/ CopyFails(f, k) \/ CopyShut(f, k) \/ CopySend(f, k)

\* The server's FIN reaches the client, whose QUIC stack acknowledges it (external).
FinAcked(f) == LET w == flow[f] IN
  /\ live = Ends /\ FinSent(w, "d") /\ ~w.acked
  /\ Becomes(f, [w EXCEPT !.acked = TRUE])

-----------------------------------------------------------------------------
(* The remote ends (external): they write, stop, read, or reset *)

\* Does the proxy's end of a remote connection exist?
Connected(w, x) == x \notin w.shut \cup w.reset /\
  IF x = "app" THEN w.h # "idle" ELSE w.s \in {"answer", "relay", "target"}

RemoteWrite(f, p) == LET w == flow[f] IN
  /\ Connected(w, Remote[p]) /\ p \notin w.fin /\ (p = "a" => w.told = "ok")
  /\ w.sent["a"] + w.sent["r"] < MaxBytes /\ w.q[p] < Window
  /\ Becomes(f, [w EXCEPT !.sent[p] = @ + 1, !.q[p] = @ + 1])

RemoteFin(f, p) == LET w == flow[f] IN
  /\ Connected(w, Remote[p]) /\ p \notin w.fin /\ (p = "a" => w.told = "ok")
  /\ Becomes(f, [w EXCEPT !.fin = @ \cup {p}])

\* What was written before the proxy closed can be read after it.
RemoteRead(f, p) == LET w == flow[f] IN
  /\ Remote[p] \notin w.reset /\ w.q[p] > 0
  /\ Becomes(f, [w EXCEPT !.q[p] = @ - 1, !.got[p] = @ + 1])

RemoteReset(f, x) == LET w == flow[f] IN
  /\ Connected(w, x) /\ MayFail
  /\ Becomes(f, [w EXCEPT !.reset = @ \cup {x}])

RemoteStep(f) ==
  \/ Connect(f) \/ Refuse(f)
  \/ \E p \in {"a", "r"} : RemoteWrite(f, p) \/ RemoteFin(f, p)
  \/ \E p \in {"t", "b"} : RemoteRead(f, p)
  \/ \E x \in {"app", "target"} : RemoteReset(f, x)

-----------------------------------------------------------------------------

AuthStep == SendAuth \/ HandleAuth \/ RejectAuth \/ LeaveConn \/ AuthAnswered \/ AuthLost

Hy2Next ==
  \/ AuthStep
  \/ \E e \in Ends : ConnLost(e) \/ ConnNoticed(e)
  \/ \E f \in Flows :
       \/ Client(f) \/ Serve(f) \/ RemoteStep(f) \/ FinAcked(f)
       \/ \E k \in Copiers : Copy(f, k)

Hy2Spec == Hy2Init /\ [][Hy2Next]_hy2Vars

\* Goroutines run, dials end, an end that is alone notices it, and a FIN is sent and
\* acknowledged if the client leaves room for what precedes it.  Nothing is assumed of
\* the remote ends.
Hy2Fairness ==
  /\ WF_hy2Vars(SendAuth) /\ WF_hy2Vars(AuthAnswered \/ AuthLost)
  /\ WF_hy2Vars(HandleAuth \/ RejectAuth \/ LeaveConn)
  /\ \A e \in Ends : WF_hy2Vars(ConnNoticed(e))
  /\ \A f \in Flows :
       /\ WF_hy2Vars(Client(f)) /\ WF_hy2Vars(Serve(f))
       /\ WF_hy2Vars(FinAcked(f) /\ flow[f].q["d"] < Window)
       /\ \A k \in Copiers : WF_hy2Vars(Copy(f, k))

FairHy2Spec == Hy2Spec /\ Hy2Fairness

-----------------------------------------------------------------------------

Hy2TypeOK ==
  /\ auth \in {"open", "wait", "up", "failed"}
  /\ good \in BOOLEAN
  /\ srv \in {"accept", "loop", "reject", "closed"}
  /\ word \in {"none", "ok", "no"}
  /\ live \subseteq Ends
  /\ flow \in [Flows -> FlowType]

\* An app is told that it is connected only after the server has dialled its target and
\* started to relay, and only over a connection whose password was right (Greet, Response, Reply on the
\* one end, HandleAuth and DialFails on the other).
SuccessIsEarned ==
  \A f \in Flows : flow[f].told = "ok" =>
    good /\ flow[f].cop.su # "none" /\ ~flow[f].six

\* While the connection lasts, the server leaves a stream without having read the
\* client's FIN, and thereby counted against the limit of 1024, only if its target
\* could not be dialled or stopped first (hy2HandleTCP, line 178 and 207).
SlotLostForCause ==
  \A f \in Flows : LET w == flow[f] IN
    w.s = "gone" /\ ~w.seen /\ live = Ends =>
      w.resp = "no" \/ "r" \in w.fin \/ "target" \in w.reset

\* The remote ends go on reading what is queued for them.
Reads(f) == []<>(flow[f].q["t"] = 0) /\ []<>(flow[f].q["b"] = 0)

HandlersGone(w) == w.h = "gone" /\ w.s \in {"none", "gone"}
Ended(w, k) == w.cop[k] \in {"none", "end"}

\* A copier waits in a Write on a stream that the other end does not read any more.
Abandoned(w, k) == live = Ends /\
  w.cop[k] = "block" /\ \A r \in Copiers : Src[r] = Dst[k] => Ended(w, r)

\* Once a stream is open and a remote end stops, or the connection is lost, both handlers
\* return and every copier ends, although the handlers wait for one message only and
\* Close leaves the readers of a stream alone (relay, hy2HandleTCP); but, while the
\* connection lasts, for a copier that waits for a reader which has ended, as when an
\* app breaks off a download: nobody calls CancelRead.
StopEndsFlow ==
  \A f \in Flows : Reads(f) =>
    ((flow[f].opened
       /\ ({"a", "r"} \cap flow[f].fin # {} \/ flow[f].reset # {} \/ live # Ends))
       ~> (HandlersGone(flow[f])
             /\ \A k \in Copiers : Ended(flow[f], k) \/ Abandoned(flow[f], k)))

\* Neither the connection nor the app ends the flow.
AppStays(f) == [](live = Ends /\ flow[f].reset = {} /\ "a" \notin flow[f].fin)
TargetStays(f) == [](live = Ends /\ flow[f].reset = {} /\ "r" \notin flow[f].fin)

\* A target that ends its answer ends the flow, but the app gets the whole answer
\* first, through two copiers and a FIN of the stream.
AnswerArrives ==
  \A f \in Flows : Reads(f) /\ AppStays(f) =>
    ((flow[f].told = "ok" /\ "r" \in flow[f].fin) ~> (flow[f].got["b"] = flow[f].sent["r"]))

\* The client has left so much of the answer unread that the server's FIN may wait.
AnswerLeft(w) == w.cop.cd = "end" /\ w.q["d"] = Window

\* An app that ends its request ends the flow, but the target gets the whole request
\* first, and the stream is given back, unless the client leaves the answer unread.
RequestArrives ==
  \A f \in Flows : Reads(f) /\ TargetStays(f) =>
    ("a" \in flow[f].fin
       ~> (flow[f].got["t"] = flow[f].sent["a"]
             /\ (Returned(flow[f]) \/ AnswerLeft(flow[f]))))

\* sendAuth, which has no timeout of its own, returns: this server answers, and if the
\* connection is lost the client's idle timeout ends it.
AuthReturns == auth = "wait" ~> auth \in {"up", "failed"}

\* "Each TCP connection becomes a separate QUIC stream to the server"
\* (android/README.md:25).
EveryConnectionGetsAStream ==
  \A f \in Flows : flow[f].h = "open" ~> flow[f].h # "open"
=============================================================================
