----------------------------- MODULE TunWorker ------------------------------
(***************************************************************************)
(* The TUN worker of the app, TunWorker.kt: the loop that reads packets,   *)
(* a coroutine for every SYN, one for every data segment, one relay per    *)
(* flow, and stop().                                                       *)
(*                                                                         *)
(* Keys share nothing, so one key is modelled; table is flows[key].  A     *)
(* flow f stands for one SYN that was handled, with the FlowState it leads *)
(* to.  The device (external) opens connection after connection with that  *)
(* key, repeats SYNs and segments that are not answered, and resets what   *)
(* it does not know.  The TUN is a queue read by one loop, so a packet is  *)
(* handled in the step in which it is sent.  Segments are numbered;        *)
(* clientSeq is the number of the next one.  What the server sends is left *)
(* out, and serverSeq with it: one relay writes it, in order.              *)
(***************************************************************************)
EXTENDS Integers

CONSTANTS
  Flows,     \* bounds the SYNs that are handled
  Writers,   \* bounds the segments that are being written at a time
  MaxConns,  \* bounds the connections of the device
  MaxSegs,   \* the segments the device sends on each of them
  None

ASSUME TunAssumption ==
  /\ None \notin Flows
  /\ MaxConns \in Nat /\ MaxSegs \in Nat

VARIABLES
  running,    \* the worker runs
  stopping,   \* where stop() is: "no", "begun", "closed", "done"
  reading,    \* tunReadLoop has not ended
  table,      \* flows[key], or None
  syn,        \* the coroutine of handleSyn
  conn,       \* the connection of the device whose SYN it serves
  sock,       \* its socket; closed together with the cancellation of flow.job
  relay,      \* socksToTunRelay
  clientSeq,  \* flow.clientSeq
  seg,        \* the coroutines that write segments
  dev,        \* the device: its connection, how far it is, segments sent and acked
  rstDue      \* the device has got a SYN-ACK that it will answer with RST

tunVars == <<running, stopping, reading, table, syn, conn, sock, relay,
             clientSeq, seg, dev, rstDue>>

NoSeg == [pc |-> "none", flow |-> None, num |-> 0]

TunInit ==
  /\ running = TRUE /\ stopping = "no" /\ reading = TRUE
  /\ table = None
  /\ syn = [f \in Flows |-> "none"]
  /\ conn = [f \in Flows |-> 0]
  /\ sock = [f \in Flows |-> "none"]
  /\ relay = [f \in Flows |-> "none"]
  /\ clientSeq = [f \in Flows |-> 0]
  /\ seg = [w \in Writers |-> NoSeg]
  /\ dev = [conn |-> 0, state |-> "closed", sent |-> 0, acked |-> 0]
  /\ rstDue = FALSE

-----------------------------------------------------------------------------
(* closeFlow(key): whatever flow has the key is removed, cancelled, closed. *)

CloseFlow ==
  /\ table' = None
  /\ sock' = [f \in Flows |-> IF f = table THEN "closed" ELSE sock[f]]

-----------------------------------------------------------------------------
(* The read loop: handleTcpPacket for what the device sends. *)

\* The loop asks for running before every read, so one packet may follow stop.
Packet == reading /\ reading' = running

\* Any exception of a read ends the loop, also while the worker runs: its flows go on
\* and isRunning stays true, but no packet is handled any more.
ReadLoopFails ==
  /\ reading
  /\ reading' = FALSE
  /\ UNCHANGED <<running, stopping, table, syn, conn, sock, relay, clientSeq, seg, dev, rstDue>>

\* The loop sees that running is false, or that tunIn has been closed.
ReadLoopEnds == ~running /\ ReadLoopFails

\* Which unused name a flow gets does not matter.
HandleSyn(c) ==
  IF table # None THEN UNCHANGED <<syn, conn>>
  ELSE LET f == CHOOSE g \in Flows : syn[g] = "none" IN
         /\ \E g \in Flows : syn[g] = "none"
         /\ syn' = [syn EXCEPT ![f] = "connect"]
         /\ conn' = [conn EXCEPT ![f] = c]

DevSyn ==
  /\ Packet
  /\ \/ /\ dev.state = "closed" /\ dev.conn < MaxConns
        /\ dev' = [conn |-> dev.conn + 1, state |-> "syn", sent |-> 0, acked |-> 0]
     \/ dev.state = "syn" /\ UNCHANGED dev
  /\ HandleSyn(dev'.conn)
  /\ UNCHANGED <<running, stopping, table, sock, relay, clientSeq, seg, rstDue>>

\* A segment the device has not sent before, or one it has no ACK for.
DevData ==
  /\ Packet
  /\ dev.state = "open"
  /\ \E i \in dev.acked + 1 .. dev.sent + 1 :
       /\ i <= MaxSegs
       /\ dev' = [dev EXCEPT !.sent = IF i > @ THEN i ELSE @]
       /\ IF table = None THEN UNCHANGED seg
          ELSE \E w \in Writers :
                 /\ seg[w] = NoSeg
                 /\ seg' = [seg EXCEPT ![w] = [pc |-> "write", flow |-> table, num |-> i]]
  /\ UNCHANGED <<running, stopping, table, syn, conn, sock, relay, clientSeq, rstDue>>

\* Mutant: a FIN is acknowledged and the flow kept for the other direction.
DevFin_Keeps ==
  /\ Packet
  /\ dev.state = "open"
  /\ dev' = [dev EXCEPT !.state = "closed"]
  /\ UNCHANGED <<running, stopping, table, syn, conn, sock, relay, clientSeq, seg, rstDue>>

\* A FIN is acknowledged and ends both directions; a payload it has is dropped.
DevFin ==
  /\ Packet
  /\ dev.state = "open"
  /\ dev' = [dev EXCEPT !.state = "closed"]
  /\ CloseFlow
  /\ UNCHANGED <<running, stopping, syn, conn, relay, clientSeq, seg, rstDue>>

\* The device gives a connection up.
DevRst ==
  /\ Packet
  /\ dev.state # "closed"
  /\ dev' = [dev EXCEPT !.state = "closed"]
  /\ CloseFlow
  /\ UNCHANGED <<running, stopping, syn, conn, relay, clientSeq, seg, rstDue>>

DevRefuses ==
  /\ Packet
  /\ rstDue
  /\ rstDue' = FALSE
  /\ CloseFlow
  /\ UNCHANGED <<running, stopping, syn, conn, relay, clientSeq, seg, dev>>

\* Nobody reads the packets of the device, which gives a connection up or tries another.
DevUnheard ==
  /\ ~reading
  /\ \/ /\ dev.state # "closed"
        /\ dev' = [dev EXCEPT !.state = "closed"]
     \/ /\ dev.state = "closed" /\ dev.conn < MaxConns
        /\ dev' = [conn |-> dev.conn + 1, state |-> "syn", sent |-> 0, acked |-> 0]
  /\ UNCHANGED <<running, stopping, reading, table, syn, conn, sock, relay, clientSeq, seg, rstDue>>

-----------------------------------------------------------------------------
(* The coroutine of handleSyn. *)

SynTo(f, from, to) ==
  /\ syn[f] = from
  /\ syn' = [syn EXCEPT ![f] = to]
  /\ UNCHANGED <<running, stopping, reading, conn, seg>>

\* Mutant: the key is reserved before the handshake, which may fail.
ConnectOK_Reserves(f) ==
  /\ SynTo(f, "connect", "socks")
  /\ sock' = [sock EXCEPT ![f] = "open"]
  /\ table' = f
  /\ UNCHANGED <<relay, clientSeq, dev, rstDue>>

ConnectOK(f) ==
  /\ SynTo(f, "connect", "socks")
  /\ sock' = [sock EXCEPT ![f] = "open"]
  /\ UNCHANGED <<table, relay, clientSeq, dev, rstDue>>

\* The SYN is answered with RST; a socket that was connected is not closed.
SynFails(f) ==
  /\ SynTo(f, syn[f], "end")
  /\ syn[f] \in {"connect", "socks"}
  /\ dev' = IF dev.state = "syn" /\ dev.conn = conn[f]
              THEN [dev EXCEPT !.state = "closed"] ELSE dev
  /\ UNCHANGED <<table, sock, relay, clientSeq, rstDue>>

\* socks5Connect has returned: flows[key] = flow.
PutFlow(f) ==
  /\ SynTo(f, "socks", "synack")
  /\ clientSeq' = [clientSeq EXCEPT ![f] = 1]
  /\ table' = f
  /\ UNCHANGED <<sock, relay, dev, rstDue>>

SynAck(f) ==
  /\ SynTo(f, "synack", "launch")
  /\ IF dev.conn = conn[f] /\ dev.state # "closed"
       THEN dev' = [dev EXCEPT !.state = "open"] /\ UNCHANGED rstDue
       ELSE rstDue' = TRUE /\ UNCHANGED dev
  /\ UNCHANGED <<table, sock, relay, clientSeq>>

LaunchRelay(f) ==
  /\ SynTo(f, "launch", "end")
  /\ relay' = [relay EXCEPT ![f] = "launched"]
  /\ UNCHANGED <<table, sock, clientSeq, dev, rstDue>>

-----------------------------------------------------------------------------
(* A segment: write, flush, clientSeq, ACK. *)

SegTo(w, from, to) ==
  /\ seg[w].pc = from
  /\ seg' = [seg EXCEPT ![w] = to]
  /\ UNCHANGED <<running, stopping, reading, syn, conn, relay, rstDue>>

SegWrites(w) ==
  /\ SegTo(w, "write", [seg[w] EXCEPT !.pc = "seq"])
  /\ sock[seg[w].flow] = "open"
  /\ UNCHANGED <<table, sock, clientSeq, dev>>

SegSetsSeq(w) ==
  /\ SegTo(w, "seq", [seg[w] EXCEPT !.pc = "ack"])
  /\ clientSeq' = [clientSeq EXCEPT ![seg[w].flow] = seg[w].num + 1]
  /\ UNCHANGED <<table, sock, dev>>

\* The ACK carries flow.clientSeq, whoever wrote it last.
SegAcks(w) ==
  /\ SegTo(w, "ack", NoSeg)
  /\ LET f == seg[w].flow IN
     dev' = IF conn[f] = dev.conn /\ clientSeq[f] - 1 > dev.acked
              THEN [dev EXCEPT !.acked = clientSeq[f] - 1] ELSE dev
  /\ UNCHANGED <<table, sock, clientSeq>>

\* Mutant: a failed write is tried again.
SegThrows_Retries(w) ==
  /\ SegTo(w, "write", seg[w])
  /\ sock[seg[w].flow] = "closed"
  /\ UNCHANGED <<table, sock, clientSeq, dev>>

\* The write fails, or fails because the socket has been closed.
SegFails(w) ==
  /\ SegTo(w, "write", NoSeg)
  /\ CloseFlow
  /\ UNCHANGED <<clientSeq, dev>>

SegThrows(w) == seg[w].pc = "write" /\ sock[seg[w].flow] = "closed" /\ SegFails(w)

-----------------------------------------------------------------------------
(* socksToTunRelay *)

RelayTo(f, from, to) ==
  /\ relay[f] = from
  /\ relay' = [relay EXCEPT ![f] = to]
  /\ UNCHANGED <<running, stopping, reading, syn, conn, clientSeq, seg, dev, rstDue>>

\* flow.job was cancelled before the coroutine could start.
RelayNeverRuns(f) ==
  /\ RelayTo(f, "launched", "ended")
  /\ sock[f] = "closed"
  /\ UNCHANGED <<table, sock>>

RelayStarts(f) ==
  /\ RelayTo(f, "launched", "loop")
  /\ sock[f] # "closed"
  /\ UNCHANGED <<table, sock>>

\* Mutant: the loop does not ask whether the worker still runs.
RelayLoops_Blindly(f) ==
  /\ RelayTo(f, "loop", "read")
  /\ UNCHANGED <<table, sock>>

RelayLoops(f) ==
  /\ RelayTo(f, "loop", IF running /\ sock[f] # "closed" THEN "read" ELSE "fin")
  /\ UNCHANGED <<table, sock>>

RelayData(f) ==
  /\ RelayTo(f, "read", "loop")
  /\ sock[f] # "closed"
  /\ UNCHANGED <<table, sock>>

\* End of stream, or an exception.
RelayEof(f) ==
  /\ RelayTo(f, "read", "fin")
  /\ UNCHANGED <<table, sock>>

RelayThrows(f) == sock[f] = "closed" /\ RelayEof(f)

\* Mutant: the relay closes its socket and leaves the table alone.
RelayEnds_KeepsEntry(f) ==
  /\ RelayTo(f, "fin", "ended")
  /\ sock' = [sock EXCEPT ![f] = "closed"]
  /\ UNCHANGED table

\* FIN to the device; closeFlow(key), not of this flow.
RelayEnds(f) ==
  /\ RelayTo(f, "fin", "ended")
  /\ CloseFlow

-----------------------------------------------------------------------------
(* stop(): running = false; close every flow; flows.clear(). *)

StopTo(from, to) ==
  /\ stopping = from
  /\ stopping' = to
  /\ UNCHANGED <<reading, syn, conn, relay, clientSeq, seg, dev, rstDue>>

StopBegins ==
  /\ StopTo("no", "begun")
  /\ running' = FALSE
  /\ UNCHANGED <<table, sock>>

StopCloses ==
  /\ StopTo("begun", "closed")
  /\ sock' = [f \in Flows |-> IF f = table THEN "closed" ELSE sock[f]]
  /\ UNCHANGED <<running, table>>

StopClears ==
  /\ StopTo("closed", "done")
  /\ table' = None
  /\ UNCHANGED <<running, sock>>

-----------------------------------------------------------------------------
FlowStep(f) ==
  \/ ConnectOK(f) \/ PutFlow(f) \/ SynAck(f) \/ LaunchRelay(f)
  \/ RelayNeverRuns(f) \/ RelayStarts(f) \/ RelayLoops(f) \/ RelayThrows(f) \/ RelayEnds(f)
SegStep(w) == SegSetsSeq(w) \/ SegAcks(w) \/ SegThrows(w)

TunNext ==
  \/ DevSyn \/ DevData \/ DevFin \/ DevRst \/ DevRefuses \/ DevUnheard \/ ReadLoopFails
  \/ \E f \in Flows : FlowStep(f) \/ SynFails(f) \/ RelayData(f) \/ RelayEof(f)
  \/ \E w \in Writers : SegStep(w) \/ SegWrites(w) \/ SegFails(w)
  \/ StopBegins \/ StopCloses \/ StopClears

TunSpec == TunInit /\ [][TunNext]_tunVars

\* Coroutines and the read loop run; the device repeats its SYN and answers a
\* SYN-ACK it does not know; the local proxy answers a handshake or closes.
\* Nothing makes a read fail, a write that waits for the server go on, or the
\* server, the device or the user end anything.
TunFairness ==
  /\ \A f \in Flows : WF_tunVars(FlowStep(f))
  /\ \A w \in Writers : WF_tunVars(SegStep(w))
  /\ WF_tunVars(DevSyn /\ dev.state = "syn") /\ WF_tunVars(DevRefuses) /\ WF_tunVars(ReadLoopEnds)
  /\ WF_tunVars(StopCloses) /\ WF_tunVars(StopClears)

FairTunSpec == TunSpec /\ TunFairness

-----------------------------------------------------------------------------
\* The type invariant of the worker.
TunTypeOK ==
  /\ {running, reading, rstDue} \subseteq BOOLEAN
  /\ stopping \in {"no", "begun", "closed", "done"}
  /\ table \in Flows \cup {None}
  /\ syn \in [Flows -> {"none", "connect", "socks", "synack", "launch", "end"}]
  /\ conn \in [Flows -> 0 .. MaxConns]
  /\ sock \in [Flows -> {"none", "open", "closed"}]
  /\ relay \in [Flows -> {"none", "launched", "loop", "read", "fin", "ended"}]
  /\ clientSeq \in [Flows -> 0 .. MaxSegs + 1]
  /\ seg \in [Writers ->
       [pc : {"write", "seq", "ack"}, flow : Flows, num : 1 .. MaxSegs] \cup {NoSeg}]
  /\ dev \in [conn : 0 .. MaxConns, state : {"closed", "syn", "open"},
              sent : 0 .. MaxSegs, acked : 0 .. MaxSegs]

(***************************************************************************)
(* While the worker runs, the entry of the table is a flow that works: its *)
(* socket is open and its relay has not ended, although every coroutine    *)
(* closes by key, several flows may have had the key, and any of them may  *)
(* end late.  A dead entry would make the worker ignore every further SYN. *)
(***************************************************************************)
EntryWorks ==
  running /\ table # None => sock[table] = "open" /\ relay[table] # "ended"

(***************************************************************************)
(* An entry that the device knows nothing of (it has given the connection  *)
(* up, perhaps while the SOCKS5 handshake was under way, or has opened     *)
(* another one) does not stay, for as long as the TUN is read: what the    *)
(* device has to say of it is lost on a worker whose read loop has failed. *)
(***************************************************************************)
Stale == table # None /\ (conn[table] # dev.conn \/ dev.state = "closed")
StaleEntryGoes == Stale ~> ~Stale \/ ~reading

(***************************************************************************)
(* A device that wants a connection and repeats its SYN gets an answer for *)
(* as long as the TUN is read, although handleSyn ignores a SYN whose key  *)
(* is in the table: the flow that has it is the new connection's, or goes  *)
(* away.  (Or the model has no flow left for the connection.)              *)
(***************************************************************************)
NoFlowLeft == \A f \in Flows : syn[f] # "none" /\ conn[f] # dev.conn
SynAnswered == dev.state = "syn" ~> dev.state # "syn" \/ ~reading \/ NoFlowLeft

\* After stop the table empties for good, also when a SYN was being handled.
StopEmpties == ~running ~> [](table = None)

\* When a socket has been closed, the relay that reads it and the coroutines
\* that write to it end.
ClosedEnds ==
  \A f \in Flows :
    sock[f] = "closed" ~> /\ relay[f] \in {"none", "ended"}
                          /\ \A w \in Writers : seg[w].flow # f

-----------------------------------------------------------------------------
(* What the comments of the worker say and the code does not do. *)

\* "Next seq we expect from client": what is expected next never moves back.
NextSeqExpected == [][\A f \in Flows : clientSeq'[f] >= clientSeq[f]]_clientSeq
=============================================================================
