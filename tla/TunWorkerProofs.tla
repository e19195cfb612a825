-------------------------- MODULE TunWorkerProofs ---------------------------
(***************************************************************************)
(* EntryWorks of TunWorker, for any number of SYNs, of segments and of     *)
(* connections of the device.                                              *)
(***************************************************************************)
EXTENDS TunWorker, TLAPS

Entries == Flows \cup {None}

\* The part of the types that the argument needs.
EntryTypes ==
  /\ table \in Entries
  /\ syn \in [Flows -> {"none", "connect", "socks", "synack", "launch", "end"}]
  /\ sock \in [Flows -> {"none", "open", "closed"}]
  /\ relay \in [Flows -> {"none", "launched", "loop", "read", "fin", "ended"}]

\* Only a flow that has been put is in the table, and only then has it a relay.
PutBefore ==
  \A f \in Flows :
    /\ table = f => syn[f] \in {"synack", "launch", "end"}
    /\ relay[f] # "none" => syn[f] = "end"
    /\ syn[f] = "socks" => sock[f] = "open"

StopOrder == stopping # "no" => ~running

EntryInv == EntryTypes /\ PutBefore /\ StopOrder /\ EntryWorks

LEMMA EntryInit == TunInit => EntryInv
BY TunAssumption
   DEF TunInit, EntryInv, EntryTypes, PutBefore, StopOrder, EntryWorks, Entries

LEMMA EntryStep == EntryInv /\ [TunNext]_tunVars => EntryInv'
<1> SUFFICES ASSUME EntryInv, [TunNext]_tunVars PROVE EntryInv'
  OBVIOUS
<1> USE TunAssumption
    DEF EntryInv, EntryTypes, PutBefore, StopOrder, EntryWorks, Entries
<1>1. CASE DevSyn
  <2>1. CASE table # None
    BY <1>1, <2>1 DEF DevSyn, Packet, HandleSyn
  <2>2. CASE table = None
    <3> DEFINE g == CHOOSE f \in Flows : syn[f] = "none"
    <3>1. g \in Flows /\ syn[g] = "none"
      BY <1>1, <2>2 DEF DevSyn, HandleSyn
    <3>2. syn' = [syn EXCEPT ![g] = "connect"]
      BY <1>1, <2>2 DEF DevSyn, HandleSyn
    <3> HIDE DEF g
    <3> QED BY <1>1, <2>2, <3>1, <3>2 DEF DevSyn, Packet
  <2> QED BY <2>1, <2>2
<1>2. CASE DevData
  BY <1>2 DEF DevData, Packet
<1>3. CASE DevFin
  BY <1>3 DEF DevFin, Packet, CloseFlow
<1>4. CASE DevRst
  BY <1>4 DEF DevRst, Packet, CloseFlow
<1>5. CASE DevRefuses
  BY <1>5 DEF DevRefuses, Packet, CloseFlow
<1>6. CASE DevUnheard \/ ReadLoopFails
  BY <1>6 DEF DevUnheard, ReadLoopFails
<1>7. ASSUME NEW f \in Flows, ConnectOK(f) PROVE EntryInv'
  BY <1>7 DEF ConnectOK, SynTo
<1>8. ASSUME NEW f \in Flows, SynFails(f) PROVE EntryInv'
  BY <1>8 DEF SynFails, SynTo
<1>9. ASSUME NEW f \in Flows, PutFlow(f) PROVE EntryInv'
  BY <1>9 DEF PutFlow, SynTo
<1>10. ASSUME NEW f \in Flows, SynAck(f) PROVE EntryInv'
  BY <1>10 DEF SynAck, SynTo
<1>11. ASSUME NEW f \in Flows, LaunchRelay(f) PROVE EntryInv'
  BY <1>11 DEF LaunchRelay, SynTo
<1>12. ASSUME NEW f \in Flows, RelayNeverRuns(f) \/ RelayStarts(f) PROVE EntryInv'
  BY <1>12 DEF RelayNeverRuns, RelayStarts, RelayTo
<1>13. ASSUME NEW f \in Flows, RelayLoops(f) \/ RelayData(f) \/ RelayEof(f)
       PROVE  EntryInv'
  BY <1>13 DEF RelayLoops, RelayData, RelayEof, RelayTo
<1>14. ASSUME NEW f \in Flows, RelayEnds(f) PROVE EntryInv'
  BY <1>14 DEF RelayEnds, RelayTo, CloseFlow
<1>15. ASSUME NEW w \in Writers, SegWrites(w) \/ SegSetsSeq(w) \/ SegAcks(w)
       PROVE  EntryInv'
  BY <1>15 DEF SegWrites, SegSetsSeq, SegAcks, SegTo
<1>16. ASSUME NEW w \in Writers, SegFails(w) PROVE EntryInv'
  BY <1>16 DEF SegFails, SegTo, CloseFlow
<1>17. CASE StopBegins
  BY <1>17 DEF StopBegins, StopTo
<1>18. CASE StopCloses
  BY <1>18 DEF StopCloses, StopTo
<1>19. CASE StopClears
  BY <1>19 DEF StopClears, StopTo
<1>20. CASE UNCHANGED tunVars
  BY <1>20 DEF tunVars
<1> QED
  BY <1>1, <1>2, <1>3, <1>4, <1>5, <1>6, <1>7, <1>8, <1>9, <1>10, <1>11, <1>12,
     <1>13, <1>14, <1>15, <1>16, <1>17, <1>18, <1>19, <1>20
  DEF TunNext, FlowStep, SegStep, SegThrows, RelayThrows

(***************************************************************************)
(* While the worker runs, the flow that has the key in flows can be used:  *)
(* no coroutine that closes by key, however late, leaves a dead entry.     *)
(***************************************************************************)
THEOREM TunEntryWorks == TunSpec => []EntryWorks
<1>1. TunInit => EntryInv
  BY EntryInit
<1>2. EntryInv /\ [TunNext]_tunVars => EntryInv'
  BY EntryStep
<1>3. EntryInv => EntryWorks
  BY DEF EntryInv
<1> QED
  BY <1>1, <1>2, <1>3, PTL DEF TunSpec
-----------------------------------------------------------------------------
(* Types. *)

\* The records: of the device, and of a coroutine that writes a segment.
DevType == [conn : 0 .. MaxConns, state : {"closed", "syn", "open"},
            sent : 0 .. MaxSegs, acked : 0 .. MaxSegs]
SegType == [pc : {"write", "seq", "ack"}, flow : Flows, num : 1 .. MaxSegs] \cup {NoSeg}

\* A coroutine that is under way has a flow and a number.
LEMMA SegUnderWay ==
  ASSUME NEW w \in Writers, seg \in [Writers -> SegType], seg[w].pc # "none"
  PROVE  /\ seg[w].flow \in Flows /\ seg[w].num \in 1 .. MaxSegs
         /\ \A to \in {"write", "seq", "ack"} : [seg[w] EXCEPT !.pc = to] \in SegType
BY DEF SegType, NoSeg

LEMMA TypeInit == TunInit => TunTypeOK
<1> SUFFICES ASSUME TunInit PROVE TunTypeOK
  OBVIOUS
<1>1. dev \in DevType
  BY TunAssumption DEF TunInit, DevType
<1>2. seg \in [Writers -> SegType]
  BY DEF TunInit, SegType
<1>3. conn \in [Flows -> 0 .. MaxConns] /\ clientSeq \in [Flows -> 0 .. MaxSegs + 1]
  BY TunAssumption DEF TunInit
<1> QED
  BY <1>1, <1>2, <1>3 DEF TunInit, TunTypeOK, DevType, SegType

LEMMA TypeStep == TunTypeOK /\ [TunNext]_tunVars => TunTypeOK'
<1> SUFFICES ASSUME TunTypeOK, [TunNext]_tunVars PROVE TunTypeOK'
  OBVIOUS
<1> USE TunAssumption DEF TunTypeOK
<1>0. dev \in DevType /\ seg \in [Writers -> SegType]
  BY DEF DevType, SegType
<1>1. CASE DevSyn
  <2>1. dev' \in DevType
    BY <1>0, <1>1 DEF DevSyn, DevType
  <2>2. syn' \in [Flows -> {"none", "connect", "socks", "synack", "launch", "end"}]
        /\ conn' \in [Flows -> 0 .. MaxConns]
    BY <1>1, <2>1 DEF DevSyn, HandleSyn, DevType
  <2> QED BY <1>1, <2>1, <2>2 DEF DevSyn, Packet, DevType
<1>2. CASE DevData
  <2>1. PICK i \in dev.acked + 1 .. dev.sent + 1 :
          /\ i <= MaxSegs
          /\ dev' = [dev EXCEPT !.sent = IF i > @ THEN i ELSE @]
          /\ IF table = None THEN UNCHANGED seg
             ELSE \E w \in Writers :
                    /\ seg[w] = NoSeg
                    /\ seg' = [seg EXCEPT ![w] = [pc |-> "write", flow |-> table, num |-> i]]
    BY <1>2 DEF DevData
  <2>2. i \in 1 .. MaxSegs
    BY <1>0, <2>1 DEF DevType
  <2>3. dev' \in DevType
    BY <1>0, <2>1, <2>2 DEF DevType
  <2>4. table # None => [pc |-> "write", flow |-> table, num |-> i] \in SegType
    BY <2>2 DEF SegType
  <2>5. seg' \in [Writers -> SegType]
    BY <1>0, <2>1, <2>4
  <2> QED BY <1>2, <2>3, <2>5 DEF DevData, Packet, DevType, SegType
<1>3. CASE DevFin
  BY <1>3 DEF DevFin, Packet, CloseFlow
<1>4. CASE DevRst
  BY <1>4 DEF DevRst, Packet, CloseFlow
<1>5. CASE DevRefuses
  BY <1>5 DEF DevRefuses, Packet, CloseFlow
<1>6. CASE DevUnheard \/ ReadLoopFails
  <2>1. dev' \in DevType
    BY <1>0, <1>6 DEF DevUnheard, ReadLoopFails, DevType
  <2> QED BY <1>6, <2>1 DEF DevUnheard, ReadLoopFails, DevType
<1>7. ASSUME NEW f \in Flows, ConnectOK(f) PROVE TunTypeOK'
  BY <1>7 DEF ConnectOK, SynTo
<1>8. ASSUME NEW f \in Flows, SynFails(f) PROVE TunTypeOK'
  BY <1>8 DEF SynFails, SynTo
<1>9. ASSUME NEW f \in Flows, PutFlow(f) PROVE TunTypeOK'
  BY <1>9 DEF PutFlow, SynTo
<1>10. ASSUME NEW f \in Flows, SynAck(f) PROVE TunTypeOK'
  BY <1>10 DEF SynAck, SynTo
<1>11. ASSUME NEW f \in Flows, LaunchRelay(f) PROVE TunTypeOK'
  BY <1>11 DEF LaunchRelay, SynTo
<1>12. ASSUME NEW f \in Flows, RelayNeverRuns(f) \/ RelayStarts(f) PROVE TunTypeOK'
  BY <1>12 DEF RelayNeverRuns, RelayStarts, RelayTo
<1>13. ASSUME NEW f \in Flows, RelayLoops(f) \/ RelayData(f) \/ RelayEof(f)
       PROVE  TunTypeOK'
  BY <1>13 DEF RelayLoops, RelayData, RelayEof, RelayTo
<1>14. ASSUME NEW f \in Flows, RelayEnds(f) PROVE TunTypeOK'
  BY <1>14 DEF RelayEnds, RelayTo, CloseFlow
<1>15. ASSUME NEW w \in Writers, SegWrites(w) \/ SegSetsSeq(w) \/ SegAcks(w) \/ SegFails(w)
       PROVE  TunTypeOK'
  <2> USE <1>15 DEF SegTo
  <2>1. seg' \in [Writers -> SegType]
    <3>1. CASE SegWrites(w)
      BY <1>0, <3>1, SegUnderWay DEF SegWrites
    <3>2. CASE SegSetsSeq(w)
      BY <1>0, <3>2, SegUnderWay DEF SegSetsSeq
    <3>3. CASE SegAcks(w) \/ SegFails(w)
      BY <1>0, <3>3 DEF SegAcks, SegFails, SegType
    <3> QED BY <3>1, <3>2, <3>3
  <2>2. seg[w].flow \in Flows /\ seg[w].num \in 1 .. MaxSegs
    BY <1>0, SegUnderWay DEF SegWrites, SegSetsSeq, SegAcks, SegFails
  <2>3. clientSeq' \in [Flows -> 0 .. MaxSegs + 1]
    BY <2>2 DEF SegWrites, SegSetsSeq, SegAcks, SegFails
  <2>4. dev' \in DevType
    <3>1. CASE SegAcks(w)
      <4> DEFINE n == clientSeq[seg[w].flow] - 1
      <4>1. n > dev.acked => n \in 0 .. MaxSegs
        BY <1>0, <2>2 DEF DevType
      <4> QED BY <1>0, <3>1, <4>1 DEF SegAcks, DevType
    <3>2. CASE ~SegAcks(w)
      BY <1>0, <3>2 DEF SegWrites, SegSetsSeq, SegFails
    <3> QED BY <3>1, <3>2
  <2>5. table' \in Flows \cup {None} /\ sock' \in [Flows -> {"none", "open", "closed"}]
    BY DEF SegWrites, SegSetsSeq, SegAcks, SegFails, CloseFlow
  <2> QED BY <2>1, <2>3, <2>4, <2>5
          DEF SegWrites, SegSetsSeq, SegAcks, SegFails, DevType, SegType
<1>16. CASE StopBegins
  BY <1>16 DEF StopBegins, StopTo
<1>17. CASE StopCloses
  BY <1>17 DEF StopCloses, StopTo
<1>18. CASE StopClears
  BY <1>18 DEF StopClears, StopTo
<1>19. CASE UNCHANGED tunVars
  BY <1>19 DEF tunVars
<1> QED
  BY <1>1, <1>2, <1>3, <1>4, <1>5, <1>6, <1>7, <1>8, <1>9, <1>10, <1>11, <1>12,
     <1>13, <1>14, <1>15, <1>16, <1>17, <1>18, <1>19
  DEF TunNext, FlowStep, SegStep, SegThrows, RelayThrows

\* Type correctness of the worker.
THEOREM TunTypeCorrect == TunSpec => []TunTypeOK
<1> QED BY TypeInit, TypeStep, PTL DEF TunSpec
=============================================================================
