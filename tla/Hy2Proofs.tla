------------------------------ MODULE Hy2Proofs ------------------------------
(***************************************************************************)
(* Proofs about Hy2: its type, that a success which is reported to an app  *)
(* is earned, and that a stream is lost for a cause only.                  *)
(*                                                                         *)
(* A step of a flow replaces its record by another one (Becomes), which is *)
(* a function of the old one, so the invariant is a predicate FlowInv of   *)
(* one record, of whether the client is authenticated (up) and of whether  *)
(* both ends have the connection (on).                                     *)
(***************************************************************************)
EXTENDS Hy2, TLAPS

\* Who is told of success: the server has dialled before it says so, the client
\* passes on what the server said, and opens no stream before it is let in.
Earned(w, up) ==
  /\ w.h # "idle" => up
  /\ w.opened => w.h \notin {"idle", "greet", "request", "open"}
  /\ w.s # "none" => w.opened
  /\ w.s \in {"answer", "relay"} => ~w.six
  /\ w.resp = "ok" => w.cop.su # "none" /\ ~w.six
  /\ (w.h = "reply" \/ w.told = "ok") => w.resp = "ok"

\* The server has read the client's FIN, or has a cause not to.
Known(w) == w.seen \/ w.resp = "no" \/ "r" \in w.fin \/ "target" \in w.reset

\* Has the relay of the server been left, or can it be?
Leaving(w) ==
  \/ w.s \in {"target", "fin", "gone"} \/ w.done.server > 0
  \/ w.cop.su \in {"shut", "send", "end"} \/ w.cop.sd \in {"shut", "send", "end"}

\* When the server ends a flow, and what it has closed by then.
Slot(w, on) ==
  /\ on /\ Leaving(w) => Known(w)
  /\ "target" \in w.shut => w.s \in {"fin", "gone"}
  /\ \A k \in Copiers : w.cop[k] = "shut" => k = "su"
  /\ "t" \in w.fin => w.cop.su \in {"send", "end"}
  /\ "d" \in w.fin <=> w.s = "gone"
  /\ w.resp # "none" => w.s \notin {"none", "dial", "answer"}
  /\ w.resp = "no" => w.s \in {"fin", "gone"}
  /\ on /\ w.opened /\ w.h # "resp" => w.resp # "none"
  /\ w.s \in {"none", "dial", "answer"} => w.cop.su = "none"

FlowInv(w, up, on) == Earned(w, up) /\ Slot(w, on)

AuthInv == (auth = "up" => word = "ok") /\ (word = "ok" => good)

Hy2IInv ==
  /\ Hy2TypeOK /\ AuthInv
  /\ \A f \in Flows : FlowInv(flow[f], auth = "up", live = Ends)

\* Flow f is replaced by one that satisfies the invariant.
KeepsFlow(f) ==
  \E new \in FlowType : Becomes(f, new) /\ FlowInv(new, auth = "up", live = Ends)

-----------------------------------------------------------------------------
(* Numbers *)

LEMMA Counts ==
  ASSUME Hy2Assumption, NEW w \in FlowType
  PROVE  /\ \A e \in Ends : w.done[e] \in 0 .. 2
         /\ \A e \in Ends : w.done[e] > 0 => w.done[e] - 1 \in 0 .. DoneCap
         /\ \A e \in Ends : w.done[e] < DoneCap => w.done[e] + 1 \in 0 .. DoneCap
         /\ \A p \in Pipes : w.q[p] > 0 => w.q[p] - 1 \in 0 .. Window
         /\ \A p \in Pipes : w.q[p] < Window => w.q[p] + 1 \in 0 .. Window
<1>1. w.done \in [Ends -> 0 .. 2] /\ DoneCap = 2 /\ w.q \in [Pipes -> 0 .. Window] /\ Window \in Nat
  BY DEF FlowType, Hy2Assumption
<1> QED
  BY <1>1

-----------------------------------------------------------------------------
(* The handlers of both ends *)

LEMMA HandlerSteps ==
  ASSUME Hy2Assumption, Hy2IInv, NEW f \in Flows,
         Client(f) \/ Serve(f) \/ Connect(f) \/ Refuse(f)
  PROVE  KeepsFlow(f)
<1> DEFINE w == flow[f]
<1>1. w \in FlowType /\ FlowInv(w, auth = "up", live = Ends)
  BY DEF Hy2IInv, Hy2TypeOK
<1>2. CASE Connect(f)
  <2> DEFINE new == [w EXCEPT !.h = "greet"]
  <2>1. new \in FlowType
    BY <1>1 DEF FlowType, HandlerPoints
  <2>2. FlowInv(new, auth = "up", live = Ends)
    BY <1>1, <1>2 DEF Connect, FlowType, FlowInv, Earned, Slot, Known, Leaving
  <2> QED
    BY <2>1, <2>2, <1>2 DEF Connect, KeepsFlow
<1>3. CASE Greet(f)
  <2> DEFINE new == [w EXCEPT !.h = "request"]
  <2>1. new \in FlowType
    BY <1>1 DEF FlowType, HandlerPoints
  <2>2. FlowInv(new, auth = "up", live = Ends)
    BY <1>1, <1>3 DEF Greet, FlowType, FlowInv, Earned, Slot, Known, Leaving
  <2> QED
    BY <2>1, <2>2, <1>3 DEF Greet, KeepsFlow
<1>4. CASE Refuse(f)
  <2> DEFINE new == [w EXCEPT !.h = "close", !.told = "refused"]
  <2>1. new \in FlowType
    BY <1>1 DEF FlowType, HandlerPoints
  <2>2. FlowInv(new, auth = "up", live = Ends)
    BY <1>1, <1>4 DEF Refuse, FlowType, FlowInv, Earned, Slot, Known, Leaving
  <2> QED
    BY <2>1, <2>2, <1>4 DEF Refuse, KeepsFlow
<1>5. CASE OpenStream(f)
  <2> DEFINE new == [w EXCEPT !.h = "resp", !.opened = TRUE]
  <2>1. new \in FlowType
    BY <1>1 DEF FlowType, HandlerPoints
  <2>2. FlowInv(new, auth = "up", live = Ends)
    BY <1>1, <1>5 DEF OpenStream, FlowType, FlowInv, Earned, Slot, Known, Leaving
  <2> QED
    BY <2>1, <2>2, <1>5 DEF OpenStream, KeepsFlow
<1>6. CASE OpenFails(f)
  <2> DEFINE new == [w EXCEPT !.h = "close", !.told = "refused"]
  <2>1. new \in FlowType
    BY <1>1 DEF FlowType, HandlerPoints
  <2>2. FlowInv(new, auth = "up", live = Ends)
    BY <1>1, <1>6 DEF OpenFails, FlowType, FlowInv, Earned, Slot, Known, Leaving, Ends
  <2> QED
    BY <2>1, <2>2, <1>6 DEF OpenFails, KeepsFlow
<1>7. CASE Response(f)
  <2> DEFINE new == [w EXCEPT !.h = "reply"]
  <2>1. new \in FlowType
    BY <1>1 DEF FlowType, HandlerPoints
  <2>2. FlowInv(new, auth = "up", live = Ends)
    BY <1>1, <1>7 DEF Response, FlowType, FlowInv, Earned, Slot, Known, Leaving
  <2> QED
    BY <2>1, <2>2, <1>7 DEF Response, KeepsFlow
<1>8. CASE ResponseFails(f)
  <2> DEFINE new == [w EXCEPT !.h = "close", !.told = "refused", !.fin = @ \cup {"u"}]
  <2>1. new \in FlowType
    BY <1>1 DEF FlowType, HandlerPoints, Pipes
  <2>2. FlowInv(new, auth = "up", live = Ends)
    BY <1>1, <1>8 DEF ResponseFails, FlowType, FlowInv, Earned, Slot, Known, Leaving, Ends
  <2> QED
    BY <2>1, <2>2, <1>8 DEF ResponseFails, KeepsFlow
<1>9. CASE Reply(f)
  <2> DEFINE new == [w EXCEPT !.h = "relay", !.told = "ok", !.cop.cu = "read", !.cop.cd = "read"]
  <2>1. new \in FlowType
    BY <1>1 DEF FlowType, HandlerPoints, Copiers
  <2>2. FlowInv(new, auth = "up", live = Ends)
    BY <1>1, <1>9 DEF Reply, FlowType, FlowInv, Earned, Slot, Known, Leaving, Copiers
  <2> QED
    BY <2>1, <2>2, <1>9 DEF Reply, KeepsFlow
<1>10. CASE ReplyFails(f)
  <2> DEFINE new == [w EXCEPT !.h = "fin"]
  <2>1. new \in FlowType
    BY <1>1 DEF FlowType, HandlerPoints
  <2>2. FlowInv(new, auth = "up", live = Ends)
    BY <1>1, <1>10 DEF ReplyFails, FlowType, FlowInv, Earned, Slot, Known, Leaving
  <2> QED
    BY <2>1, <2>2, <1>10 DEF ReplyFails, KeepsFlow
<1>11. CASE CloseStream(f)
  <2> DEFINE new == [w EXCEPT !.h = "close", !.fin = @ \cup {"u"}]
  <2>1. new \in FlowType
    BY <1>1 DEF FlowType, HandlerPoints, Pipes
  <2>2. FlowInv(new, auth = "up", live = Ends)
    BY <1>1, <1>11 DEF CloseStream, FlowType, FlowInv, Earned, Slot, Known, Leaving
  <2> QED
    BY <2>1, <2>2, <1>11 DEF CloseStream, KeepsFlow
<1>12. CASE CloseClient(f)
  <2> DEFINE new == [w EXCEPT !.h = "gone", !.shut = @ \cup {"app"}]
  <2>1. new \in FlowType
    BY <1>1 DEF FlowType, HandlerPoints
  <2>2. FlowInv(new, auth = "up", live = Ends)
    BY <1>1, <1>12 DEF CloseClient, FlowType, FlowInv, Earned, Slot, Known, Leaving
  <2> QED
    BY <2>1, <2>2, <1>12 DEF CloseClient, KeepsFlow
<1>13. CASE AcceptStream(f)
  <2> DEFINE new == [w EXCEPT !.s = "dial"]
  <2>1. new \in FlowType
    BY <1>1 DEF FlowType, ServerPoints
  <2>2. FlowInv(new, auth = "up", live = Ends)
    BY <1>1, <1>13 DEF AcceptStream, FlowType, FlowInv, Earned, Slot, Known, Leaving
  <2> QED
    BY <2>1, <2>2, <1>13 DEF AcceptStream, KeepsFlow
<1>14. CASE DialOK(f)
  <2> DEFINE new == [w EXCEPT !.s = "answer"]
  <2>1. new \in FlowType
    BY <1>1 DEF FlowType, ServerPoints
  <2>2. FlowInv(new, auth = "up", live = Ends)
    BY <1>1, <1>14 DEF DialOK, FlowType, FlowInv, Earned, Slot, Known, Leaving
  <2> QED
    BY <2>1, <2>2, <1>14 DEF DialOK, KeepsFlow
<1>15. CASE DialFails(f)
  <2> DEFINE new == [w EXCEPT !.s = "fin", !.resp = IF "server" \in live THEN "no" ELSE @]
  <2>1. new \in FlowType
    BY <1>1 DEF FlowType, ServerPoints
  <2>2. FlowInv(new, auth = "up", live = Ends)
    BY <1>1, <1>15 DEF DialFails, FlowType, FlowInv, Earned, Slot, Known, Leaving, Ends
  <2> QED
    BY <2>1, <2>2, <1>15 DEF DialFails, KeepsFlow
<1>16. CASE Answer(f)
  <2> DEFINE new == [w EXCEPT !.s = "relay", !.resp = "ok", !.cop.su = "read", !.cop.sd = "read"]
  <2>1. new \in FlowType
    BY <1>1 DEF FlowType, ServerPoints, Copiers
  <2>2. FlowInv(new, auth = "up", live = Ends)
    BY <1>1, <1>16 DEF Answer, FlowType, FlowInv, Earned, Slot, Known, Leaving, Copiers
  <2> QED
    BY <2>1, <2>2, <1>16 DEF Answer, KeepsFlow
<1>17. CASE AnswerFails(f)
  <2> DEFINE new == [w EXCEPT !.s = "target"]
  <2>1. new \in FlowType
    BY <1>1 DEF FlowType, ServerPoints
  <2>2. FlowInv(new, auth = "up", live = Ends)
    BY <1>1, <1>17 DEF AnswerFails, FlowType, FlowInv, Earned, Slot, Known, Leaving, Ends
  <2> QED
    BY <2>1, <2>2, <1>17 DEF AnswerFails, KeepsFlow
<1>18. CASE CloseTarget(f)
  <2> DEFINE new == [w EXCEPT !.s = "fin", !.shut = @ \cup {"target"}]
  <2>1. new \in FlowType
    BY <1>1 DEF FlowType, ServerPoints
  <2>2. FlowInv(new, auth = "up", live = Ends)
    BY <1>1, <1>18 DEF CloseTarget, FlowType, FlowInv, Earned, Slot, Known, Leaving
  <2> QED
    BY <2>1, <2>2, <1>18 DEF CloseTarget, KeepsFlow
<1>19. CASE CloseStreamServer(f)
  <2> DEFINE new == [w EXCEPT !.s = "gone", !.fin = @ \cup {"d"}]
  <2>1. new \in FlowType
    BY <1>1 DEF FlowType, ServerPoints, Pipes
  <2>2. FlowInv(new, auth = "up", live = Ends)
    BY <1>1, <1>19 DEF CloseStreamServer, FlowType, FlowInv, Earned, Slot, Known, Leaving
  <2> QED
    BY <2>1, <2>2, <1>19 DEF CloseStreamServer, KeepsFlow
<1>20. CASE Request(f)
  <2> PICK v6 \in BOOLEAN : Becomes(f, [w EXCEPT !.h = "open", !.six = v6])
    BY <1>20 DEF Request
  <2> DEFINE new == [w EXCEPT !.h = "open", !.six = v6]
  <2>1. new \in FlowType
    BY <1>1 DEF FlowType, HandlerPoints
  <2>2. FlowInv(new, auth = "up", live = Ends)
    BY <1>1, <1>20 DEF Request, FlowType, FlowInv, Earned, Slot, Known, Leaving
  <2> QED
    BY <2>1, <2>2 DEF KeepsFlow
<1>21. CASE RecvDone(f)
  <2> DEFINE m == w.done.client - 1
             new == [w EXCEPT !.h = "fin", !.done.client = m]
  <2>1. m \in 0 .. DoneCap /\ w.done.client > 0
    BY <1>1, <1>21, Counts DEF RecvDone, Ends
  <2>2. new \in FlowType
    <3> HIDE DEF m
    <3> QED
      BY <1>1, <2>1 DEF FlowType, HandlerPoints, ServerPoints, Ends
  <2>3. new.done.server > 0 => w.done.server > 0
    BY <1>1, <2>1 DEF FlowType, Ends
  <2>4. FlowInv(new, auth = "up", live = Ends)
    <3> HIDE DEF m
    <3> QED
      BY <1>1, <1>21, <2>1, <2>3 DEF RecvDone, FlowType, FlowInv, Earned, Slot, Known, Leaving
  <2> QED
    BY <2>2, <2>4, <1>21 DEF RecvDone, KeepsFlow
<1>22. CASE RecvDoneServer(f)
  <2> DEFINE m == w.done.server - 1
             new == [w EXCEPT !.s = "target", !.done.server = m]
  <2>1. m \in 0 .. DoneCap /\ w.done.server > 0
    BY <1>1, <1>22, Counts DEF RecvDoneServer, Ends
  <2>2. new \in FlowType
    <3> HIDE DEF m
    <3> QED
      BY <1>1, <2>1 DEF FlowType, HandlerPoints, ServerPoints, Ends
  <2>3. new.done.server > 0 => w.done.server > 0
    BY <1>1, <2>1 DEF FlowType, Ends
  <2>4. FlowInv(new, auth = "up", live = Ends)
    <3> HIDE DEF m
    <3> QED
      BY <1>1, <1>22, <2>1, <2>3 DEF RecvDoneServer, FlowType, FlowInv, Earned, Slot, Known, Leaving
  <2> QED
    BY <2>2, <2>4, <1>22 DEF RecvDoneServer, KeepsFlow
<1> QED
  BY <1>2, <1>3, <1>4, <1>5, <1>6, <1>7, <1>8, <1>9, <1>10, <1>11, <1>12, <1>13, <1>14, <1>15, <1>16, <1>17, <1>18, <1>19, <1>20, <1>21, <1>22 DEF Client, Serve
-----------------------------------------------------------------------------
(* The copiers and the remote ends *)

LEMMA Paths ==
  ASSUME NEW w, NEW k \in Copiers
  PROVE  /\ Src[k] \in Pipes /\ Dst[k] \in Pipes /\ EndOf[k] \in Ends
         /\ Broken(w, "su", Src["su"]) <=> "server" \notin live
         /\ Broken(w, "sd", Src["sd"]) <=> "target" \in w.shut \cup w.reset
         /\ WriteBroken(w, "su") => ("target" \in w.shut \cup w.reset \/ "t" \in w.fin)
         /\ WriteBroken(w, "sd") => ("server" \notin live \/ "d" \in w.fin)
         /\ EndOf[k] = "server" => k \in {"su", "sd"}
         /\ Src["su"] = "u" /\ Src["sd"] = "r"
  BY DEF Copiers, Pipes, Ends, Src, Dst, EndOf, Broken, WriteBroken, Streams, Remote

LEMMA CopySteps ==
  ASSUME Hy2Assumption, Hy2IInv, NEW f \in Flows, NEW k \in Copiers, Copy(f, k)
  PROVE  KeepsFlow(f)
<1> DEFINE w == flow[f]
<1>1. w \in FlowType /\ FlowInv(w, auth = "up", live = Ends)
  BY DEF Hy2IInv, Hy2TypeOK
<1>2. CASE CopyRead(f, k)
  <2> DEFINE p == Src[k]
             m == w.q[p] - 1
  <2>1. PICK last \in BOOLEAN :
          Becomes(f, [w EXCEPT !.cop[k] = "write", !.q[p] = m, !.seen = w.seen \/ last])
    BY <1>2 DEF CopyRead
  <2> DEFINE new == [w EXCEPT !.cop[k] = "write", !.q[p] = m, !.seen = w.seen \/ last]
  <2>2. m \in 0 .. Window /\ p \in Pipes
    BY <1>1, <1>2, Counts, Paths DEF CopyRead
  <2>3. new \in FlowType
    <3> HIDE DEF m, p
    <3> QED
      BY <1>1, <2>2 DEF FlowType
  <2>4. FlowInv(new, auth = "up", live = Ends)
    <3> HIDE DEF m, p
    <3> QED
      BY <1>1, <1>2, <2>2 DEF CopyRead, FlowType, FlowInv, Earned, Slot, Known, Leaving
  <2> QED
    BY <2>1, <2>3, <2>4 DEF KeepsFlow
<1>3. CASE CopyEnds(f, k)
  <2> DEFINE last == k = "su" /\ ~Broken(w, k, Src[k])
             new == [w EXCEPT !.cop[k] = Over(k), !.seen = w.seen \/ last]
  <2>1. new \in FlowType
    <3> HIDE DEF last
    <3>1. last \in BOOLEAN
      BY DEF last
    <3> QED
      BY <1>1, <3>1 DEF FlowType, Over
  <2>2. CASE k = "su"
    <3>1. "server" \notin live \/ new.seen
      BY <2>2, <1>1, Paths DEF FlowType
    <3>2. live = Ends => new.seen
      BY <3>1 DEF Ends
    <3>3. FlowInv(new, auth = "up", live = Ends)
      <4> HIDE DEF last
      <4> QED
        BY <1>1, <1>3, <2>2, <3>2 DEF CopyEnds, Over, FlowType, FlowInv, Earned, Slot, Known, Leaving
    <3> QED
      BY <2>1, <3>3, <1>3 DEF CopyEnds, KeepsFlow
  <2>3. CASE k = "sd"
    <3>1. "target" \in w.shut \cup w.reset \/ "r" \in w.fin
      BY <1>3, <2>3, Paths DEF CopyEnds, FinSent
    <3>2. live = Ends => Known(w)
      BY <1>1, <3>1 DEF FlowInv, Slot, Known, Leaving
    <3>3. FlowInv(new, auth = "up", live = Ends)
      <4> HIDE DEF last
      <4> QED
        BY <1>1, <1>3, <2>3, <3>2 DEF CopyEnds, Over, FlowType, FlowInv, Earned, Slot, Known, Leaving
    <3> QED
      BY <2>1, <3>3, <1>3 DEF CopyEnds, KeepsFlow
  <2>4. CASE k \in {"cu", "cd"}
    <3>1. FlowInv(new, auth = "up", live = Ends)
      <4> HIDE DEF last
      <4> QED
        BY <1>1, <1>3, <2>4 DEF CopyEnds, Over, FlowType, FlowInv, Earned, Slot, Known, Leaving
    <3> QED
      BY <2>1, <3>1, <1>3 DEF CopyEnds, KeepsFlow
  <2> QED
    BY <2>2, <2>3, <2>4 DEF Copiers
<1>4. CASE CopyWrite(f, k)
  <2> DEFINE p == Dst[k]
             m == w.q[p] + 1
             new == [w EXCEPT !.cop[k] = "read", !.q[p] = m]
  <2>1. m \in 0 .. Window /\ p \in Pipes
    BY <1>1, <1>4, Counts, Paths DEF CopyWrite
  <2>2. new \in FlowType
    <3> HIDE DEF m, p
    <3> QED
      BY <1>1, <2>1 DEF FlowType
  <2>3. FlowInv(new, auth = "up", live = Ends)
    <3> HIDE DEF m, p
    <3> QED
      BY <1>1, <1>4, <2>1 DEF CopyWrite, FlowType, FlowInv, Earned, Slot, Known, Leaving
  <2> QED
    BY <2>2, <2>3, <1>4 DEF CopyWrite, KeepsFlow
<1>5. CASE CopyFails(f, k)
  <2> DEFINE new == [w EXCEPT !.cop[k] = Over(k)]
  <2>1. new \in FlowType
    BY <1>1 DEF FlowType, Over
  <2>2. k \in {"su", "sd"} /\ live = Ends => Known(w)
    <3>1. CASE k = "su" /\ live = Ends
      <4>1. w.cop.su \in {"write", "block"} /\ ("target" \in w.shut \cup w.reset \/ "t" \in w.fin)
        BY <1>5, <3>1, Paths DEF CopyFails
      <4> QED
        BY <1>1, <3>1, <4>1 DEF FlowInv, Slot, Known, Leaving
    <3>2. CASE k = "sd" /\ live = Ends
      <4>1. "d" \in w.fin
        BY <1>5, <3>2, Paths DEF CopyFails, Ends
      <4> QED
        BY <1>1, <3>2, <4>1 DEF FlowInv, Slot, Known, Leaving
    <3> QED
      BY <3>1, <3>2
  <2>3. FlowInv(new, auth = "up", live = Ends)
    BY <1>1, <1>5, <2>2 DEF CopyFails, Over, FlowType, FlowInv, Earned, Slot, Known, Leaving, Copiers
  <2> QED
    BY <2>1, <2>3, <1>5 DEF CopyFails, KeepsFlow
<1>6. CASE CopyShut(f, k)
  <2> DEFINE new == [w EXCEPT !.cop[k] = "send", !.fin = @ \cup {"t"}]
  <2>1. k = "su" /\ new \in FlowType
    BY <1>1, <1>6 DEF CopyShut, FlowType, FlowInv, Slot, Pipes
  <2>2. FlowInv(new, auth = "up", live = Ends)
    BY <1>1, <1>6, <2>1 DEF CopyShut, FlowType, FlowInv, Earned, Slot, Known, Leaving
  <2> QED
    BY <2>1, <2>2, <1>6 DEF CopyShut, KeepsFlow
<1>7. CASE CopySend(f, k)
  <2> DEFINE e == EndOf[k]
             m == w.done[e] + 1
             new == [w EXCEPT !.cop[k] = "end", !.done[e] = m]
  <2>1. m \in 0 .. DoneCap /\ e \in Ends
    BY <1>1, <1>7, Counts, Paths DEF CopySend
  <2>2. e = "server" => Leaving(w)
    BY <1>7, Paths DEF CopySend, Leaving
  <2>3. new \in FlowType
    <3> HIDE DEF m, e
    <3> QED
      BY <1>1, <2>1 DEF FlowType
  <2>4. FlowInv(new, auth = "up", live = Ends)
    <3> HIDE DEF m, e
    <3>1. e # "server" => new.done.server = w.done.server
      BY <1>1, <2>1 DEF FlowType
    <3>2. \A j \in Copiers : new.cop[j] \in {"shut", "send", "end"} => w.cop[j] \in {"shut", "send", "end"}
      BY <1>1, <1>7 DEF CopySend, FlowType
    <3>3. Leaving(new) => Leaving(w)
      BY <2>2, <3>1, <3>2, <1>1 DEF Leaving, Copiers, FlowType
    <3> QED
      BY <1>1, <1>7, <3>3 DEF CopySend, FlowType, FlowInv, Earned, Slot, Known, Copiers
  <2> QED
    BY <2>3, <2>4, <1>7 DEF CopySend, KeepsFlow
<1>8. CASE CopyBlock(f, k)
  <2> DEFINE new == [w EXCEPT !.cop[k] = "block"]
  <2>1. new \in FlowType
    BY <1>1 DEF FlowType
  <2>2. FlowInv(new, auth = "up", live = Ends)
    BY <1>1, <1>8 DEF CopyBlock, FlowType, FlowInv, Earned, Slot, Known, Leaving
  <2> QED
    BY <2>1, <2>2, <1>8 DEF CopyBlock, KeepsFlow
<1> QED
  BY <1>2, <1>3, <1>4, <1>5, <1>6, <1>7, <1>8 DEF Copy

\* The acknowledgement of a FIN changes nothing that the programs see.
LEMMA FinAckedStep ==
  ASSUME Hy2IInv, NEW f \in Flows, FinAcked(f)
  PROVE  KeepsFlow(f)
<1> DEFINE w == flow[f]
           new == [w EXCEPT !.acked = TRUE]
<1>1. w \in FlowType /\ FlowInv(w, auth = "up", live = Ends)
  BY DEF Hy2IInv, Hy2TypeOK
<1>2. new \in FlowType
  BY <1>1 DEF FlowType
<1>3. FlowInv(new, auth = "up", live = Ends)
  BY <1>1 DEF FlowType, FlowInv, Earned, Slot, Known, Leaving
<1> QED
  BY <1>2, <1>3 DEF FinAcked, KeepsFlow

LEMMA RemoteSteps ==
  ASSUME Hy2Assumption, Hy2IInv, NEW f \in Flows, RemoteStep(f)
  PROVE  KeepsFlow(f)
<1> DEFINE w == flow[f]
<1>1. w \in FlowType /\ FlowInv(w, auth = "up", live = Ends)
  BY DEF Hy2IInv, Hy2TypeOK
<1>2. ASSUME NEW p \in {"a", "r"}, RemoteWrite(f, p) PROVE KeepsFlow(f)
  <2> DEFINE n == w.sent[p] + 1
             m == w.q[p] + 1
             new == [w EXCEPT !.sent[p] = n, !.q[p] = m]
  <2>1. n \in 0 .. MaxBytes /\ m \in 0 .. Window /\ p \in Pipes
    <3>1. w.sent["a"] \in Nat /\ w.sent["r"] \in Nat /\ MaxBytes \in Nat
      BY <1>1 DEF FlowType, Hy2Assumption
    <3>2. w.sent["a"] + w.sent["r"] < MaxBytes
      BY <1>2 DEF RemoteWrite
    <3>3. w.sent[p] + 1 <= MaxBytes /\ w.sent[p] \in Nat
      BY <3>1, <3>2
    <3>4. p \in Pipes
      BY DEF Pipes
    <3> QED
      BY <1>1, <1>2, <3>1, <3>3, <3>4, Counts DEF RemoteWrite
  <2>2. new \in FlowType
    <3> HIDE DEF m, n
    <3> QED
      BY <1>1, <2>1 DEF FlowType
  <2>3. FlowInv(new, auth = "up", live = Ends)
    <3> HIDE DEF m, n
    <3> QED
      BY <1>1, <2>1 DEF FlowType, FlowInv, Earned, Slot, Known, Leaving
  <2> QED
    BY <2>2, <2>3, <1>2 DEF RemoteWrite, KeepsFlow
<1>3. ASSUME NEW p \in {"a", "r"}, RemoteFin(f, p) PROVE KeepsFlow(f)
  <2> DEFINE new == [w EXCEPT !.fin = @ \cup {p}]
  <2>1. new \in FlowType
    BY <1>1 DEF FlowType, Pipes
  <2>2. FlowInv(new, auth = "up", live = Ends)
    BY <1>1 DEF FlowType, FlowInv, Earned, Slot, Known, Leaving
  <2> QED
    BY <2>1, <2>2, <1>3 DEF RemoteFin, KeepsFlow
<1>4. ASSUME NEW p \in {"t", "b"}, RemoteRead(f, p) PROVE KeepsFlow(f)
  <2> DEFINE n == w.got[p] + 1
             m == w.q[p] - 1
             new == [w EXCEPT !.q[p] = m, !.got[p] = n]
  <2>1. n \in Nat /\ m \in 0 .. Window /\ p \in Pipes
    <3>1. w.got[p] \in Nat
      BY <1>1 DEF FlowType
    <3>2. p \in Pipes
      BY DEF Pipes
    <3> QED
      BY <1>1, <1>4, <3>1, <3>2, Counts DEF RemoteRead
  <2>2. new \in FlowType
    <3> HIDE DEF m, n
    <3> QED
      BY <1>1, <2>1 DEF FlowType
  <2>3. FlowInv(new, auth = "up", live = Ends)
    <3> HIDE DEF m, n
    <3> QED
      BY <1>1, <2>1 DEF FlowType, FlowInv, Earned, Slot, Known, Leaving
  <2> QED
    BY <2>2, <2>3, <1>4 DEF RemoteRead, KeepsFlow
<1>5. ASSUME NEW x \in {"app", "target"}, RemoteReset(f, x) PROVE KeepsFlow(f)
  <2> DEFINE new == [w EXCEPT !.reset = @ \cup {x}]
  <2>1. new \in FlowType
    BY <1>1 DEF FlowType
  <2>2. FlowInv(new, auth = "up", live = Ends)
    BY <1>1 DEF FlowType, FlowInv, Earned, Slot, Known, Leaving
  <2> QED
    BY <2>1, <2>2, <1>5 DEF RemoteReset, KeepsFlow
<1> QED
  BY <1>2, <1>3, <1>4, <1>5, HandlerSteps DEF RemoteStep

-----------------------------------------------------------------------------
(* The connection, and the invariant *)

\* The invariant of a flow survives a step of the connection: a client that is let in
\* stays so, and a connection that is lost stays lost.
LEMMA ConnectionSteps ==
  ASSUME Hy2IInv, AuthStep \/ \E e \in Ends : ConnLost(e) \/ ConnNoticed(e)
  PROVE  Hy2IInv'
<1>1. /\ flow' = flow /\ good' = good
      /\ auth = "up" => auth' = "up"
      /\ live' = Ends => live = Ends
      /\ live' \subseteq Ends
      /\ auth' \in {"open", "wait", "up", "failed"}
      /\ srv' \in {"accept", "loop", "reject", "closed"}
      /\ word' \in {"none", "ok", "no"}
      /\ AuthInv'
  BY DEF Hy2IInv, Hy2TypeOK, AuthInv, AuthStep, SendAuth, HandleAuth, RejectAuth, LeaveConn,
         AuthAnswered, AuthLost, ConnLost, ConnNoticed, ConnDies, authVars
<1>2. Hy2TypeOK'
  BY <1>1 DEF Hy2IInv, Hy2TypeOK
<1>3. ASSUME NEW f \in Flows PROVE FlowInv(flow'[f], auth' = "up", live' = Ends)
  <2>1. FlowInv(flow[f], auth = "up", live = Ends)
    BY DEF Hy2IInv
  <2> QED
    BY <2>1, <1>1 DEF FlowInv, Earned, Slot
<1> QED
  BY <1>1, <1>2, <1>3 DEF Hy2IInv

LEMMA KeepsInvariant ==
  ASSUME Hy2IInv, NEW f \in Flows, KeepsFlow(f)
  PROVE  Hy2IInv'
<1>1. PICK new \in FlowType : Becomes(f, new) /\ FlowInv(new, auth = "up", live = Ends)
  BY DEF KeepsFlow
<1>2. flow \in [Flows -> FlowType] /\ flow' = [flow EXCEPT ![f] = new]
  BY <1>1 DEF Becomes, Hy2IInv, Hy2TypeOK
<1>3. auth' = auth /\ good' = good /\ srv' = srv /\ word' = word /\ live' = live
  BY <1>1 DEF Becomes, authVars
<1>4. Hy2TypeOK' /\ AuthInv'
  BY <1>2, <1>3 DEF Hy2IInv, Hy2TypeOK, AuthInv
<1>5. ASSUME NEW g \in Flows PROVE FlowInv(flow'[g], auth' = "up", live' = Ends)
  <2>1. FlowInv(flow[g], auth = "up", live = Ends)
    BY DEF Hy2IInv
  <2>2. flow'[g] = IF g = f THEN new ELSE flow[g]
    BY <1>2
  <2> QED
    BY <1>1, <1>3, <2>1, <2>2
<1> QED
  BY <1>4, <1>5 DEF Hy2IInv

LEMMA Hy2Initial == ASSUME Hy2Assumption, Hy2Init PROVE Hy2IInv
<1>1. NewFlow \in FlowType
  BY DEF NewFlow, FlowType, Hy2Assumption, HandlerPoints, ServerPoints, Copiers, Ends, Pipes
<1>2. FlowInv(NewFlow, FALSE, TRUE)
  BY DEF FlowInv, Earned, Slot, Known, Leaving, NewFlow, Copiers, Ends
<1>3. Hy2TypeOK /\ AuthInv
  BY <1>1 DEF Hy2Init, Hy2TypeOK, AuthInv
<1>4. ASSUME NEW f \in Flows PROVE FlowInv(flow[f], auth = "up", live = Ends)
  BY <1>2 DEF Hy2Init
<1> QED
  BY <1>3, <1>4 DEF Hy2IInv

\* Every step keeps the invariant.
LEMMA Hy2Inductive ==
  ASSUME Hy2Assumption, Hy2IInv, [Hy2Next]_hy2Vars PROVE Hy2IInv'
<1>1. CASE UNCHANGED hy2Vars
  BY <1>1 DEF hy2Vars, Hy2IInv, Hy2TypeOK, AuthInv
<1>2. CASE AuthStep \/ \E e \in Ends : ConnLost(e) \/ ConnNoticed(e)
  BY <1>2, ConnectionSteps
<1>3. ASSUME NEW f \in Flows,
             \/ Client(f) \/ Serve(f) \/ RemoteStep(f) \/ FinAcked(f)
             \/ \E k \in Copiers : Copy(f, k)
      PROVE  Hy2IInv'
  BY <1>3, HandlerSteps, CopySteps, RemoteSteps, FinAckedStep, KeepsInvariant
<1> QED
  BY <1>1, <1>2, <1>3 DEF Hy2Next

LEMMA Hy2Invariant == Hy2Spec => []Hy2IInv
<1>1. Hy2Init => Hy2IInv
  BY Hy2Initial, Hy2Assumption
<1>2. Hy2IInv /\ [Hy2Next]_hy2Vars => Hy2IInv'
  BY Hy2Inductive, Hy2Assumption
<1> QED
  BY <1>1, <1>2, PTL DEF Hy2Spec

-----------------------------------------------------------------------------

\* Every variable keeps its type, which bounds the channels, the pipes and what the
\* remote ends have sent, for any number of flows.
THEOREM Hy2TypeCorrect == Hy2Spec => []Hy2TypeOK
<1>1. Hy2IInv => Hy2TypeOK
  BY DEF Hy2IInv
<1> QED
  BY <1>1, Hy2Invariant, PTL

\* A success that an app is told of is earned (SuccessIsEarned).
THEOREM SuccessIsTrue == Hy2Spec => []SuccessIsEarned
<1>1. Hy2IInv => SuccessIsEarned
  <2> SUFFICES ASSUME Hy2IInv, NEW f \in Flows, flow[f].told = "ok"
               PROVE  good /\ flow[f].cop.su # "none" /\ ~flow[f].six
    BY DEF SuccessIsEarned
  <2>1. FlowInv(flow[f], auth = "up", live = Ends) /\ AuthInv
    BY DEF Hy2IInv
  <2>2. flow[f].resp = "ok" /\ flow[f].s # "none"
    BY <2>1 DEF FlowInv, Earned, Slot
  <2>3. auth = "up"
    BY <2>1, <2>2 DEF FlowInv, Earned
  <2> QED
    BY <2>1, <2>2, <2>3 DEF FlowInv, Earned, AuthInv
<1> QED
  BY <1>1, Hy2Invariant, PTL

\* A stream is lost for a cause only (SlotLostForCause): the server leaves its relay only
\* after it has read the client's FIN, or after the target has failed, has stopped or
\* has reset.
THEOREM SlotIsLostForCause == Hy2Spec => []SlotLostForCause
<1>1. Hy2IInv => SlotLostForCause
  <2> SUFFICES ASSUME Hy2IInv, NEW f \in Flows, flow[f].s = "gone", ~flow[f].seen, live = Ends
               PROVE  \/ flow[f].resp = "no" \/ "r" \in flow[f].fin
                      \/ "target" \in flow[f].reset
    BY DEF SlotLostForCause
  <2>1. Slot(flow[f], TRUE)
    BY DEF Hy2IInv, FlowInv
  <2>2. Known(flow[f])
    BY <2>1 DEF Slot, Leaving
  <2> QED
    BY <2>2 DEF Known
<1> QED
  BY <1>1, Hy2Invariant, PTL
=============================================================================
