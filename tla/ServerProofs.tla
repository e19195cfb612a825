---------------------------- MODULE ServerProofs ----------------------------
(***************************************************************************)
(* Proofs about the proxy, for any finite set of connections, any secrets, *)
(* any scrapes, any amount of data and any mix of clients.                 *)
(*                                                                         *)
(* ServerInv is inductive.  Its core relates the three threads of one      *)
(* connection: HandlerInv says which step of ConnOpen/ConnClose goes with  *)
(* which point of the handler, CopierInv that a copier runs only after the *)
(* session was counted and the deadline cleared, that it reports once, and *)
(* that it never writes more than was sent.  From these every step of the  *)
(* proxy is a step of Stats, so what StatsProofs proves holds of the proxy.*)
(***************************************************************************)
EXTENDS Server, StatsProofs

\* The steps of a call after which a session is counted.
Later == {"open", "lookClose", "decSecActive", "closed"}
Counter == [d \in Dirs |-> IF d = "up" THEN "in" ELSE "out"]

HandlerInv == \A c \in Conns :
  /\ pc[c] \in {"new", "peek", "hello", "dial", "init", "clear", "spawn"} => call[c] = "none"
  /\ pc[c] = "connopen" =>
       call[c] \in {"none", "incTotal", "lookOpen", "incSecActive", "incSecTotal", "open"}
  /\ pc[c] = "wait" => call[c] = IF MTProto(c) THEN "open" ELSE "none"
  /\ pc[c] = "connclose" => call[c] \in Later
  /\ pc[c] \in {"closedc", "closeraw", "returned"} => call[c] \in {"none", "closed"}
  /\ pc[c] \in {"init", "clear", "connopen", "connclose"} => MTProto(c)
  /\ pc[c] \in {"peek", "hello", "dial"} => raw[c] = "open"
  /\ pc[c] \in {"init", "clear", "connopen", "spawn", "wait", "connclose", "closedc"} =>
       raw[c] = "open" /\ dcs[c] \in {"open", "shut"}
  /\ pc[c] = "connopen" => deadline[c] = "none"
  /\ pc[c] = "spawn" => kind[c] = "socks5"
  /\ pc[c] \in {"hello", "dial"} => kind[c] # "foreign"

CopierInv == \A c \in Conns, d \in Dirs :
  /\ copied[c][d] <= sent[c][d]
  /\ cop[c][d] = "write" => copied[c][d] < sent[c][d]
  /\ cop[c][d] # "idle" =>
       /\ pc[c] \in {"wait", "connclose", "closedc", "closeraw", "returned"}
       /\ kind[c] # "foreign"
       /\ MTProto(c) => call[c] \in Later /\ deadline[c] = "none"
  /\ cop[c][d] = "count" => MTProto(c)
  /\ cop[c][d] \in {"idle", "read", "write", "count"} => Counter[d] \notin added[c]

DoneInv == \A c \in Conns : done[c] > 0 => \E d \in Dirs : cop[c][d] = "end"

ServerOK == ServerTypeOK /\ HandlerInv /\ CopierInv /\ DoneInv /\ EndsOnlyForCause
ServerInv == StatsInv /\ ServerOK

-----------------------------------------------------------------------------
(* The steps whose types need arithmetic or a function built on the spot. *)

\* The client sends one more part of its handshake.
LEMMA HelloType ==
  ASSUME ServerTypeOK, NEW c \in Conns, ClientHello(c)
  PROVE  ServerTypeOK'
<1>1. hello \in [Conns -> 0 .. 2] /\ hello[c] < 2 /\ hello' = [hello EXCEPT ![c] = @ + 1]
  BY DEF ServerTypeOK, ClientHello
<1>2. hello' \in [Conns -> 0 .. 2]
  <2>1. hello[c] + 1 \in 0 .. 2
    BY <1>1
  <2> QED
    BY <1>1, <2>1
<1> QED
  BY <1>2 DEF ServerTypeOK, ClientHello, connVars, copyVars

\* Both copiers start.
LEMMA SpawnType ==
  ASSUME ServerTypeOK, NEW c \in Conns, Spawn(c)
  PROVE  ServerTypeOK'
<1>1. Both("read") \in [Dirs -> CopierPoints]
  BY DEF Both, CopierPoints
<1>2. cop' \in [Conns -> [Dirs -> CopierPoints]]
  BY <1>1 DEF ServerTypeOK, Spawn
<1>3. pc' \in [Conns -> HandlerPoints]
  BY DEF ServerTypeOK, Spawn, Goto, HandlerPoints
<1> QED
  BY <1>2, <1>3 DEF ServerTypeOK, Spawn, peerVars

\* A copier puts its message into done.
LEMMA SendType ==
  ASSUME ServerTypeOK, NEW c \in Conns, NEW d \in Dirs, CopySend(c, d)
  PROVE  ServerTypeOK'
<1>1. done' \in [Conns -> 0 .. DoneCap]
  <2>1. done \in [Conns -> 0 .. DoneCap] /\ done[c] < DoneCap /\ DoneCap \in Nat
    BY ServerAssumption DEF ServerTypeOK, CopySend
  <2>2. done[c] + 1 \in 0 .. DoneCap
    BY <2>1
  <2> QED
    BY <2>1, <2>2 DEF ServerTypeOK, CopySend
<1>2. cop' \in [Conns -> [Dirs -> CopierPoints]]
  BY DEF ServerTypeOK, CopySend, CopierAt, CopierPoints
<1> QED
  BY <1>1, <1>2 DEF ServerTypeOK, CopySend, connVars, peerVars

-----------------------------------------------------------------------------
(* The steps of each thread keep ServerOK.  StatsTypeOK' comes from the    *)
(* refinement below.                                                       *)

\* The remote ends and the clock keep it.
LEMMA EnvironmentKeeps ==
  ASSUME ServerInv, StatsTypeOK', NEW c \in Conns,
         \/ ClientHello(c) \/ PeerBadRecord(c) \/ Expire(c)
         \/ \E d \in Dirs : PeerSend(c, d)
         \/ \E d \in Dirs : PeerRead(c, d)
         \/ \E s \in Sides : PeerFin(c, s)
         \/ \E s \in Sides : PeerReset(c, s)
  PROVE  ServerOK'
<1> USE ServerAssumption, StatsAssumption
<1> USE DEF ServerInv, StatsInv, StatsTypeOK, ServerOK, HandlerInv, CopierInv, DoneInv,
           EndsOnlyForCause, ServerTypeOK, HandlerPoints, CopierPoints, Dirs, Sides, AllKinds,
           Src, Dst, Counter, Later, MTProto, Expired, Sock, InUse, LocalDead, Ended, HasCause,
           connVars, peerVars, copyVars, serverVars, statsVars
<1>1. CASE ClientHello(c)
  <2>1. ServerTypeOK'
    BY ONLY ServerTypeOK, <1>1, HelloType DEF ServerInv
  <2> QED
    BY <1>1, <2>1 DEF ClientHello
<1>2. CASE PeerBadRecord(c)
  BY <1>2 DEF PeerBadRecord, PeerStops
<1>3. CASE Expire(c)
  BY <1>3 DEF Expire
<1>4. CASE \E d \in Dirs : PeerSend(c, d)
  BY <1>4 DEF PeerSend
<1>5. CASE \E d \in Dirs : PeerRead(c, d)
  BY <1>5 DEF PeerRead
<1>6. CASE \E s \in Sides : PeerFin(c, s)
  BY <1>6 DEF PeerFin, PeerStops
<1>7. CASE \E s \in Sides : PeerReset(c, s)
  BY <1>7 DEF PeerReset, PeerStops
<1> QED
  BY <1>1, <1>2, <1>3, <1>4, <1>5, <1>6, <1>7

\* The handler keeps it on its way to the relay.
LEMMA HandshakeKeeps ==
  ASSUME ServerInv, StatsTypeOK', NEW c \in Conns,
         \/ Accept(c) \/ AcceptSocks(c) \/ Peek(c) \/ ReadFail(c) \/ HandshakeReject(c)
         \/ HandshakeOK(c) \/ Dial(c) \/ DialFail(c) \/ WriteInit(c) \/ WriteInitFail(c)
         \/ ClearDeadline(c)
  PROVE  ServerOK'
<1> USE ServerAssumption, StatsAssumption
<1> USE DEF ServerInv, StatsInv, StatsTypeOK, ServerOK, HandlerInv, CopierInv, DoneInv,
           EndsOnlyForCause, ServerTypeOK, HandlerPoints, CopierPoints, Dirs, Sides, AllKinds,
           Src, Dst, Counter, Later, MTProto, Expired, Sock, InUse, LocalDead, Ended, HasCause,
           connVars, peerVars, copyVars, serverVars, statsVars
<1>1. CASE Accept(c)
  BY <1>1 DEF Accept, Goto
<1>2. CASE AcceptSocks(c)
  BY <1>2 DEF AcceptSocks, Goto
<1>3. CASE Peek(c)
  <2>1. CASE kind[c] = "foreign"
    BY <1>3, <2>1 DEF Peek, HandlerOnly, Goto
  <2>2. CASE kind[c] # "foreign"
    BY <1>3, <2>2 DEF Peek, HandlerOnly, Goto
  <2> QED
    BY <2>1, <2>2
<1>4. CASE ReadFail(c)
  BY <1>4 DEF ReadFail, HandlerOnly, Goto
<1>5. CASE HandshakeReject(c)
  BY <1>5 DEF HandshakeReject, HandlerOnly, Goto
<1>6. CASE HandshakeOK(c)
  BY <1>6 DEF HandshakeOK, HandlerOnly, Goto
<1>7. CASE Dial(c)
  BY <1>7 DEF Dial, Goto
<1>8. CASE DialFail(c)
  BY <1>8 DEF DialFail, HandlerOnly, Goto
<1>9. CASE WriteInit(c)
  BY <1>9 DEF WriteInit, HandlerOnly, Goto
<1>10. CASE WriteInitFail(c)
  BY <1>10 DEF WriteInitFail, HandlerOnly, Goto
<1>11. CASE ClearDeadline(c)
  BY <1>11 DEF ClearDeadline, Goto
<1> QED
  BY <1>1, <1>2, <1>3, <1>4, <1>5, <1>6, <1>7, <1>8, <1>9, <1>10, <1>11

\* The two copiers start: no earlier copier exists, nothing is in done.
LEMMA SpawnKeeps ==
  ASSUME ServerInv, NEW c \in Conns, Spawn(c)
  PROVE  ServerOK'
<1>0. /\ ServerTypeOK /\ HandlerInv /\ CopierInv /\ DoneInv /\ EndsOnlyForCause
      /\ DoneCap \in Nat
  BY ServerAssumption DEF ServerInv, ServerOK
<1>1. pc[c] = "spawn" \/ (pc[c] = "connopen" /\ call[c] = "open")
  BY DEF Spawn
<1>2. \A d \in Dirs : cop[c][d] = "idle"
  BY <1>0, <1>1 DEF CopierInv
<1>3. done[c] = 0
  <2>1. done[c] \in Nat /\ ~(done[c] > 0)
    BY <1>0, <1>2 DEF DoneInv, ServerTypeOK
  <2> QED
    BY <2>1
<1>4. \A e \in Conns, d \in Dirs : cop'[e][d] = IF e = c THEN "read" ELSE cop[e][d]
  BY <1>0 DEF Spawn, Both, ServerTypeOK
<1>5. \A e \in Conns : pc'[e] = IF e = c THEN "wait" ELSE pc[e]
  BY <1>0 DEF Spawn, Goto, ServerTypeOK
<1>6. UNCHANGED <<statsVars, kind, raw, dcs, deadline, peerVars, copied, outq, done>>
  BY DEF Spawn
<1>7. ServerTypeOK'
  BY <1>0, SpawnType
<1>8. HandlerInv'
  BY <1>0, <1>1, <1>5, <1>6 DEF HandlerInv, statsVars, MTProto
<1>9. CopierInv'
  BY <1>0, <1>1, <1>4, <1>5, <1>6 DEF CopierInv, HandlerInv, statsVars, peerVars, MTProto, Later
<1>10. DoneInv'
  <2>1. ASSUME NEW e \in Conns, done'[e] > 0 PROVE \E d \in Dirs : cop'[e][d] = "end"
    <3>1. done[e] > 0 /\ e # c
      BY <1>3, <1>6, <2>1
    <3> QED
      BY <1>0, <1>4, <3>1 DEF DoneInv
  <2> QED
    BY <2>1 DEF DoneInv
<1>11. EndsOnlyForCause'
  BY <1>0, <1>4, <1>5, <1>6 DEF EndsOnlyForCause, Ended, HasCause, InUse, Sock, Expired, peerVars
<1> QED
  BY <1>7, <1>8, <1>9, <1>10, <1>11 DEF ServerOK

\* The handler keeps it from the start of the relay on.
LEMMA RelayKeeps ==
  ASSUME ServerInv, StatsTypeOK', NEW c \in Conns,
         \/ Spawn(c) \/ RecvDone(c) \/ CloseDc(c) \/ CloseRaw(c)
  PROVE  ServerOK'
<1> USE ServerAssumption, StatsAssumption
<1> USE DEF ServerInv, StatsInv, StatsTypeOK, ServerOK, HandlerInv, CopierInv, DoneInv,
           EndsOnlyForCause, ServerTypeOK, HandlerPoints, CopierPoints, Dirs, Sides, AllKinds,
           Src, Dst, Counter, Later, MTProto, Expired, Sock, InUse, LocalDead, Ended, HasCause,
           connVars, peerVars, copyVars, serverVars, statsVars
<1>1. CASE Spawn(c)
  BY ONLY ServerInv, <1>1, SpawnKeeps
<1>2. CASE RecvDone(c)
  BY <1>2 DEF RecvDone, Goto
<1>3. CASE CloseDc(c)
  BY <1>3 DEF CloseDc, Goto
<1>4. CASE CloseRaw(c)
  BY <1>4 DEF CloseRaw, Goto
<1> QED
  BY <1>1, <1>2, <1>3, <1>4

\* The calls to Stats keep it.
LEMMA CallsKeep ==
  ASSUME ServerInv, StatsTypeOK', NEW c \in Conns,
         \/ BeginConnOpen(c) \/ BeginConnClose(c)
         \/ (ConnOpenTotal(c) /\ UNCHANGED serverVars)
         \/ (ConnOpenSecActive(c) /\ UNCHANGED serverVars)
         \/ (ConnOpenSecTotal(c) /\ UNCHANGED serverVars)
         \/ (ConnCloseSecActive(c) /\ UNCHANGED serverVars)
         \/ (ConnOpenLookup(c) /\ UNCHANGED serverVars)
         \/ (ConnCloseLookup(c) /\ UNCHANGED serverVars)
  PROVE  ServerOK'
<1> USE ServerAssumption, StatsAssumption
<1> USE DEF ServerInv, StatsInv, StatsTypeOK, ServerOK, HandlerInv, CopierInv, DoneInv,
           EndsOnlyForCause, ServerTypeOK, HandlerPoints, CopierPoints, Dirs, Sides, AllKinds,
           Src, Dst, Counter, Later, MTProto, Expired, Sock, InUse, LocalDead, Ended, HasCause,
           connVars, peerVars, copyVars, serverVars, statsVars
<1>1. CASE BeginConnOpen(c)
  BY <1>1 DEF BeginConnOpen, ConnOpenActive, CallStep
<1>2. CASE BeginConnClose(c)
  BY <1>2 DEF BeginConnClose, ConnCloseActive, CallStep
<1>3. CASE (ConnOpenTotal(c) /\ UNCHANGED serverVars)
  BY <1>3 DEF ConnOpenTotal, CallStep
<1>4. CASE (ConnOpenSecActive(c) /\ UNCHANGED serverVars)
  BY <1>4 DEF ConnOpenSecActive, CallStep
<1>5. CASE (ConnOpenSecTotal(c) /\ UNCHANGED serverVars)
  BY <1>5 DEF ConnOpenSecTotal, CallStep
<1>6. CASE (ConnCloseSecActive(c) /\ UNCHANGED serverVars)
  BY <1>6 DEF ConnCloseSecActive, CallStep
<1>7. CASE (ConnOpenLookup(c) /\ UNCHANGED serverVars)
  BY <1>7 DEF ConnOpenLookup, CallStep, LookupStep
<1>8. CASE (ConnCloseLookup(c) /\ UNCHANGED serverVars)
  BY <1>8 DEF ConnCloseLookup, CallStep, LookupStep
<1> QED
  BY <1>1, <1>2, <1>3, <1>4, <1>5, <1>6, <1>7, <1>8

\* The copiers keep it.
LEMMA CopiersKeep ==
  ASSUME ServerInv, StatsTypeOK', NEW c \in Conns, NEW d \in Dirs,
         \/ CopyRead(c, d) \/ CopyEOF(c, d) \/ CopyReadErr(c, d) \/ CopyWrite(c, d)
         \/ CopyWriteErr(c, d) \/ CopyCount(c, d) \/ (d = "up" /\ CopyShut(c))
         \/ CopySend(c, d)
  PROVE  ServerOK'
<1> USE ServerAssumption, StatsAssumption
<1> USE DEF ServerInv, StatsInv, StatsTypeOK, ServerOK, HandlerInv, CopierInv, DoneInv,
           EndsOnlyForCause, ServerTypeOK, HandlerPoints, CopierPoints, Dirs, Sides, AllKinds,
           Src, Dst, Counter, Later, MTProto, Expired, Sock, InUse, LocalDead, Ended, HasCause,
           connVars, peerVars, copyVars, serverVars, statsVars
<1>1. CASE CopyRead(c, d)
  BY <1>1 DEF CopyRead, CopierOnly, CopierAt
<1>2. CASE CopyEOF(c, d)
  BY <1>2 DEF CopyEOF, CopierOnly, CopierAt, AfterCopy, AfterCount
<1>3. CASE CopyReadErr(c, d)
  BY <1>3 DEF CopyReadErr, CopierOnly, CopierAt, AfterCopy, AfterCount
<1>4. CASE CopyWrite(c, d)
  BY <1>4 DEF CopyWrite, CopierAt
<1>5. CASE CopyWriteErr(c, d)
  BY <1>5 DEF CopyWriteErr, CopierOnly, CopierAt, AfterCopy, AfterCount
<1>6. CASE CopyCount(c, d)
  BY <1>6 DEF CopyCount, CopierAt, AfterCount, AddBytesIn, AddBytesOut, Report
<1>7. CASE (d = "up" /\ CopyShut(c))
  BY <1>7 DEF CopyShut, CopierAt
<1>8. CASE CopySend(c, d)
  <2>1. ServerTypeOK'
    BY ONLY ServerTypeOK, <1>8, SendType DEF ServerInv
  <2> QED
    BY <1>8, <2>1 DEF CopySend, CopierAt
<1> QED
  BY <1>1, <1>2, <1>3, <1>4, <1>5, <1>6, <1>7, <1>8

\* A page being rendered touches nothing that ServerOK is about.
LEMMA ScrapeKeeps ==
  ASSUME ServerInv, NEW s \in Scrapers, Scrape(s)
  PROVE  ServerOK'
<1>1. CountersUnchanged
  BY ScrapeOnlyReads DEF Scrape
<1>2. UNCHANGED <<call, added, serverVars>>
  BY <1>1 DEF CountersUnchanged, Scrape
<1> QED
  BY <1>2 DEF serverVars, ServerInv, ServerOK, ServerTypeOK, HandlerInv, CopierInv, DoneInv,
     EndsOnlyForCause, InUse, Sock, Ended, HasCause, Expired, MTProto

-----------------------------------------------------------------------------
(* The proxy implements Stats. *)

\* A copier reports what Stats expects: after its session was counted, once
\* per direction, no more than the bound.
LEMMA CountRefines ==
  ASSUME ServerInv, NEW c \in Conns, NEW d \in Dirs, CopyCount(c, d)
  PROVE  StatsNext
<1>1. cop[c][d] = "count" /\ d \in {"up", "down"}
  BY DEF CopyCount, CopierAt, Dirs
<1>2. copied[c][d] \in 0 .. MaxBytes
  BY DEF ServerInv, ServerOK, ServerTypeOK
<1>3. MayReport(c, Counter[d])
  BY <1>1 DEF MayReport, ServerInv, ServerOK, CopierInv, Later
<1>4. CASE d = "up"
  BY <1>2, <1>3, <1>4 DEF CopyCount, StatsNext, Counter, Dirs
<1>5. CASE d = "down"
  BY <1>2, <1>3, <1>5 DEF CopyCount, StatsNext, Counter, Dirs
<1> QED
  BY <1>1, <1>4, <1>5

\* Every step of the proxy is a step of Stats or leaves Stats alone.
LEMMA StepRefines ==
  ASSUME ServerInv, [ServerNext]_vars
  PROVE  [StatsNext]_statsVars
<1>1. CASE UNCHANGED vars
  BY <1>1 DEF vars
<1>2. ASSUME NEW c \in Conns, Accept(c) \/ AcceptSocks(c) \/ Expire(c)
      PROVE  UNCHANGED statsVars
  BY <1>2 DEF Accept, AcceptSocks, Expire
<1>3. ASSUME NEW c \in Conns, Environment(c)
      PROVE  UNCHANGED statsVars
  BY <1>3 DEF Environment, ClientHello, PeerBadRecord, PeerSend, PeerRead, PeerFin, PeerReset, PeerStops
<1>4. ASSUME NEW c \in Conns, HandlerStep(c)
      PROVE  StatsNext \/ UNCHANGED statsVars
  <2>1. CASE BeginConnOpen(c) \/ BeginConnClose(c) \/ CallGoesOn(c)
    BY <2>1 DEF BeginConnOpen, BeginConnClose, CallGoesOn, StatsNext
  <2>2. CASE Peek(c) \/ ReadFail(c) \/ HandshakeReject(c) \/ HandshakeOK(c) \/ DialFail(c)
               \/ WriteInit(c) \/ WriteInitFail(c)
    BY <2>2 DEF Peek, ReadFail, HandshakeReject, HandshakeOK, DialFail, WriteInit,
                WriteInitFail, HandlerOnly
  <2>3. CASE Dial(c) \/ ClearDeadline(c) \/ Spawn(c) \/ RecvDone(c) \/ CloseDc(c) \/ CloseRaw(c)
    BY <2>3 DEF Dial, ClearDeadline, Spawn, RecvDone, CloseDc, CloseRaw
  <2> QED
    BY <1>4, <2>1, <2>2, <2>3 DEF HandlerStep
<1>5. ASSUME NEW c \in Conns, CallLocks(c)
      PROVE  StatsNext
  BY <1>5 DEF CallLocks, StatsNext
<1>6. ASSUME NEW c \in Conns, NEW d \in Dirs, CopierStep(c, d)
      PROVE  StatsNext \/ UNCHANGED statsVars
  <2>1. CASE CopyCount(c, d)
    BY <2>1, CountRefines
  <2>2. CASE CopyRead(c, d) \/ CopyEOF(c, d) \/ CopyReadErr(c, d) \/ CopyWrite(c, d)
               \/ CopyWriteErr(c, d) \/ (d = "up" /\ CopyShut(c)) \/ CopySend(c, d)
    BY <2>2 DEF CopyRead, CopyEOF, CopyReadErr, CopyWrite, CopyWriteErr, CopyShut, CopySend, CopierOnly
  <2> QED
    BY <1>6, <2>1, <2>2 DEF CopierStep
<1>7. ASSUME NEW s \in Scrapers, Scrape(s)
      PROVE  StatsNext
  BY <1>7 DEF Scrape, StatsNext
<1> QED
  BY <1>1, <1>2, <1>3, <1>4, <1>5, <1>6, <1>7 DEF ServerNext

\* The initial states satisfy the invariant.
LEMMA ServerInvInit == ServerInit => ServerInv
<1> SUFFICES ASSUME ServerInit PROVE ServerInv
  OBVIOUS
<1>1. StatsInv
  BY StatsTypeInit, CountersInit DEF StatsInv, ServerInit
<1>2. ServerTypeOK
  <2>1. 0 \in 0 .. MaxBytes /\ 0 \in 0 .. Window /\ 0 \in 0 .. DoneCap /\ 0 \in 0 .. 2
    BY ServerAssumption, StatsAssumption
  <2>2. /\ sent \in [Conns -> [Dirs -> 0 .. MaxBytes]]
        /\ copied \in [Conns -> [Dirs -> 0 .. MaxBytes]]
        /\ outq \in [Conns -> [Dirs -> 0 .. Window]]
        /\ cop \in [Conns -> [Dirs -> CopierPoints]]
    BY <2>1 DEF ServerInit, Both, CopierPoints
  <2>3. kind \in [Conns -> AllKinds]
    BY ServerAssumption DEF ServerInit, AllKinds
  <2> QED
    BY <2>1, <2>2, <2>3 DEF ServerInit, ServerTypeOK, HandlerPoints
<1>3. \A c \in Conns : call[c] = "none" /\ added[c] = {}
  BY DEF ServerInit, StatsInit
<1>4. HandlerInv /\ CopierInv /\ DoneInv /\ EndsOnlyForCause
  BY <1>3 DEF ServerInit, HandlerInv, CopierInv, DoneInv, EndsOnlyForCause, InUse, Sock, Both
<1> QED
  BY <1>1, <1>2, <1>4 DEF ServerInv, ServerOK

\* ServerInv is inductive.
LEMMA ServerInvStep == ServerInv /\ [ServerNext]_vars => ServerInv'
<1> SUFFICES ASSUME ServerInv, [ServerNext]_vars PROVE ServerInv'
  OBVIOUS
<1>1. StatsInv'
  BY StepRefines, StatsInvStep DEF ServerInv
<1>2. StatsTypeOK'
  BY <1>1 DEF StatsInv
<1>3. CASE UNCHANGED vars
  <2>1. ServerOK'
    BY <1>3 DEF vars, serverVars, statsVars, ServerInv, ServerOK, ServerTypeOK, HandlerInv,
       CopierInv, DoneInv, EndsOnlyForCause, InUse, Sock, Ended, HasCause, Expired, MTProto
  <2> QED
    BY <1>1, <2>1 DEF ServerInv
<1>4. ASSUME NEW c \in Conns, Environment(c) \/ Expire(c)
      PROVE  ServerOK'
  BY <1>2, <1>4, EnvironmentKeeps DEF Environment
<1>5. ASSUME NEW c \in Conns, Accept(c) \/ AcceptSocks(c) \/ HandlerStep(c) \/ CallLocks(c)
      PROVE  ServerOK'
  BY <1>2, <1>5, HandshakeKeeps, RelayKeeps, CallsKeep
  DEF HandlerStep, CallLocks, CallGoesOn, CallLookup, CallRuns
<1>6. ASSUME NEW c \in Conns, NEW d \in Dirs, CopierStep(c, d)
      PROVE  ServerOK'
  BY <1>2, <1>6, CopiersKeep DEF CopierStep
<1>7. ASSUME NEW s \in Scrapers, Scrape(s)
      PROVE  ServerOK'
  BY <1>7, ScrapeKeeps
<1> QED
  BY <1>1, <1>3, <1>4, <1>5, <1>6, <1>7 DEF ServerNext, ServerInv

\* ServerInv holds in every behaviour of the proxy.
THEOREM ServerInvariant == ServerSpec => []ServerInv
  BY ServerInvInit, ServerInvStep, PTL DEF ServerSpec

-----------------------------------------------------------------------------
(***************************************************************************)
(* The proxy uses Stats as Stats expects to be used: it opens a session    *)
(* once, closes it once after that, and each copier reports once, while or *)
(* after the session is counted, whatever early return or failure a        *)
(* handler meets.                                                          *)
(***************************************************************************)
THEOREM ServerImplementsStats == ServerSpec => StatsSpec
<1>1. ServerInit => StatsInit
  BY DEF ServerInit
<1>2. ServerInv /\ [ServerNext]_vars => [StatsNext]_statsVars
  BY StepRefines
<1> QED
  BY <1>1, <1>2, ServerInvariant, PTL DEF ServerSpec, StatsSpec

\* The counters of Stats are exact in the running proxy.
THEOREM ServerCountersExact == ServerSpec => []CountersExact
  BY ServerImplementsStats, StatsCountersExact, PTL

\* A /stats page of the running proxy adds up when no session came or went.
THEOREM ServerQuietPage == ServerSpec => []QuietPageAgrees
  BY ServerImplementsStats, StatsQuietPage, PTL

\* The proxy's variables keep their types.
THEOREM ServerTypeCorrect == ServerSpec => []ServerTypeOK
<1>1. ServerInv => ServerTypeOK
  BY DEF ServerInv, ServerOK
<1> QED
  BY <1>1, ServerInvariant, PTL

\* The proxy never ends a direction of a relay by itself.
THEOREM ServerEndsOnlyForCause == ServerSpec => []EndsOnlyForCause
<1>1. ServerInv => EndsOnlyForCause
  BY DEF ServerInv, ServerOK
<1> QED
  BY <1>1, ServerInvariant, PTL

(***************************************************************************)
(* active_conns counts every relaying MTProto session and no other         *)
(* connection: the connections CountersExact speaks of contain those that  *)
(* wait and are among those between ConnOpen and ConnClose.                *)
(***************************************************************************)
THEOREM ServerActiveIsRelays == ServerSpec => []ActiveIsRelays
<1> DEFINE In(points) == {c \in Conns : MTProto(c) /\ pc[c] \in points}
<1>1. ServerInv => ActiveIsRelays
  <2> SUFFICES ASSUME ServerInv PROVE ActiveIsRelays
    OBVIOUS
  <2>1. activeConns = Cardinality(At(CountedActive))
    BY DEF ServerInv, StatsInv, CountersExact
  <2>2. In({"wait"}) \subseteq At(CountedActive)
    BY DEF ServerInv, ServerOK, HandlerInv, At, CountedActive
  <2>3. At(CountedActive) \subseteq In({"connopen", "wait", "connclose"})
    <3> SUFFICES ASSUME NEW c \in At(CountedActive)
                 PROVE  MTProto(c) /\ pc[c] \in {"connopen", "wait", "connclose"}
      BY DEF At
    <3>1. c \in Conns /\ call[c] \in CountedActive /\ pc[c] \in HandlerPoints
      BY DEF At, ServerInv, ServerOK, ServerTypeOK
    <3> QED
      BY <3>1 DEF ServerInv, ServerOK, HandlerInv, CountedActive, HandlerPoints, Later
  <2>4. IsFiniteSet(At(CountedActive)) /\ IsFiniteSet(In({"connopen", "wait", "connclose"}))
    BY StatsAssumption, FS_Subset DEF At
  <2>5. /\ Cardinality(In({"wait"})) <= Cardinality(At(CountedActive))
        /\ Cardinality(At(CountedActive)) <= Cardinality(In({"connopen", "wait", "connclose"}))
    BY <2>2, <2>3, <2>4, FS_Subset
  <2> QED
    BY <2>1, <2>5 DEF ActiveIsRelays
<1> QED
  BY <1>1, ServerInvariant, PTL

-----------------------------------------------------------------------------
(* TrafficExact: a copier that has reported writes no more (CopierInv), so *)
(* what it reported is what it has written, for ever.                      *)

\* Bounded amounts of finitely many connections have a sum, to which one more
\* connection adds its own.
LEMMA SumAdds ==
  ASSUME NEW f \in [Conns -> 0 .. MaxBytes], NEW S \in SUBSET Conns, NEW c \in Conns \ S
  PROVE  SumOf(f, S \cup {c}) = SumOf(f, S) + f[c]
<1> DEFINE own == {c} \X (1 .. f[c])
<1>0. MaxBytes \in Nat /\ f[c] \in Nat /\ IsFiniteSet(Conns)
  BY StatsAssumption
<1>1. IsFiniteSet(Units(f, S)) /\ Cardinality(Units(f, S)) \in Nat
  <2>1. Units(f, S) \subseteq Conns \X (1 .. MaxBytes)
    BY <1>0 DEF Units
  <2>2. IsFiniteSet(Conns \X (1 .. MaxBytes))
    <3>1. IsFiniteSet(1 .. MaxBytes)
      BY <1>0, FS_Interval
    <3> QED
      BY <1>0, <3>1, FS_Product
  <2> QED
    BY <2>1, <2>2, FS_Subset, FS_CardinalityType
<1>2. IsFiniteSet(own) /\ Cardinality(own) = f[c]
  <2>1. IsFiniteSet(1 .. f[c]) /\ Cardinality(1 .. f[c]) = f[c]
    BY <1>0, FS_Interval
  <2>2. IsFiniteSet({c}) /\ Cardinality({c}) = 1
    BY FS_Singleton
  <2>3. IsFiniteSet(own) /\ Cardinality(own) = Cardinality({c}) * Cardinality(1 .. f[c])
    BY <2>1, <2>2, FS_Product
  <2> QED
    BY <1>0, <2>1, <2>2, <2>3
<1>3. Units(f, S \cup {c}) = Units(f, S) \cup own
  BY DEF Units
<1>4. Units(f, S) \cap own = {}
  BY DEF Units
<1> HIDE DEF own
<1>5. Cardinality(Units(f, S) \cup own) = Cardinality(Units(f, S)) + Cardinality(own)
  <2>1. Cardinality(Units(f, S) \cup own)
          = Cardinality(Units(f, S)) + Cardinality(own) - Cardinality(Units(f, S) \cap own)
    BY <1>1, <1>2, FS_Union
  <2>2. Cardinality(Units(f, S) \cap own) = 0
    BY <1>4, FS_EmptySet
  <2> QED
    BY <1>0, <1>1, <1>2, <2>1, <2>2
<1> QED
  BY <1>2, <1>3, <1>5 DEF SumOf

\* Nothing is reported and no reported connection writes.
LEMMA TrafficStays ==
  ASSUME ServerTypeOK, TrafficExact, UNCHANGED <<bytesIn, bytesOut, added>>,
         \A c \in Conns, d \in Dirs : Counter[d] \in added[c] => copied'[c][d] = copied[c][d]
  PROVE  TrafficExact'
<1>1. ASSUME NEW d \in Dirs
      PROVE  SumOf(Written(d), Reported(Counter[d]))' = SumOf(Written(d), Reported(Counter[d]))
  <2>1. Reported(Counter[d])' = Reported(Counter[d])
    BY DEF Reported
  <2>2. \A c \in Reported(Counter[d]) : Written(d)'[c] = Written(d)[c]
    BY DEF Reported, Written
  <2>3. Units(Written(d)', Reported(Counter[d])) = Units(Written(d), Reported(Counter[d]))
    BY <2>2 DEF Units
  <2> QED
    BY <2>1, <2>3 DEF SumOf, Units
<1>2. Counter["up"] = "in" /\ Counter["down"] = "out" /\ "up" \in Dirs /\ "down" \in Dirs
  BY DEF Counter, Dirs
<1> QED
  BY <1>1, <1>2 DEF TrafficExact

\* A copier reports what it has written, and has not reported before.
LEMMA CountKeepsTraffic ==
  ASSUME ServerInv, TrafficExact, NEW c \in Conns, NEW d \in Dirs, CopyCount(c, d)
  PROVE  TrafficExact'
<1>1. cop[c][d] = "count" /\ Counter[d] \notin added[c] /\ UNCHANGED copied
  BY DEF CopyCount, CopierAt, ServerInv, ServerOK, CopierInv
<1>2. \A e \in Dirs : Written(e) \in [Conns -> 0 .. MaxBytes] /\ Written(e)' = Written(e)
  BY <1>1 DEF Written, ServerInv, ServerOK, ServerTypeOK
<1>3. added' = [added EXCEPT ![c] = @ \cup {Counter[d]}]
  BY DEF CopyCount, AddBytesIn, AddBytesOut, Report, Counter, Dirs
<1>4. Reported(Counter[d])' = Reported(Counter[d]) \cup {c} /\ c \notin Reported(Counter[d])
  BY <1>1, <1>3 DEF Reported, ServerInv, StatsInv, StatsTypeOK
<1>5. \A a : a # Counter[d] => Reported(a)' = Reported(a)
  BY <1>3 DEF Reported, ServerInv, StatsInv, StatsTypeOK
<1>6. SumOf(Written(d), Reported(Counter[d]))' = SumOf(Written(d), Reported(Counter[d])) + copied[c][d]
  <2>1. Reported(Counter[d]) \in SUBSET Conns /\ Written(d)[c] = copied[c][d]
    BY DEF Reported, Written
  <2>2. SumOf(Written(d), Reported(Counter[d]) \cup {c}) = SumOf(Written(d), Reported(Counter[d])) + copied[c][d]
    BY <1>2, <1>4, <2>1, SumAdds
  <2> QED
    BY <1>2, <1>4, <2>2 DEF SumOf, Units
<1>7. CASE d = "up"
  <2>1. bytesIn' = bytesIn + copied[c]["up"] /\ UNCHANGED bytesOut /\ Counter[d] = "in"
    BY <1>7 DEF CopyCount, AddBytesIn, Counter, Dirs
  <2>2. SumOf(Written("down"), Reported("out"))' = SumOf(Written("down"), Reported("out"))
    <3>1. Written("down")' = Written("down") /\ Reported("out")' = Reported("out")
      BY <1>2, <1>5, <2>1 DEF Dirs
    <3> QED
      BY <3>1 DEF SumOf, Units
  <2> QED
    BY <1>6, <1>7, <2>1, <2>2 DEF TrafficExact
<1>8. CASE d = "down"
  <2>1. bytesOut' = bytesOut + copied[c]["down"] /\ UNCHANGED bytesIn /\ Counter[d] = "out"
    BY <1>8 DEF CopyCount, AddBytesOut, Counter, Dirs
  <2>2. SumOf(Written("up"), Reported("in"))' = SumOf(Written("up"), Reported("in"))
    <3>1. Written("up")' = Written("up") /\ Reported("in")' = Reported("in")
      BY <1>2, <1>5, <2>1 DEF Dirs
    <3> QED
      BY <3>1 DEF SumOf, Units
  <2> QED
    BY <1>6, <1>8, <2>1, <2>2 DEF TrafficExact
<1> QED
  BY <1>7, <1>8 DEF Dirs

\* Every other step reports nothing; only CopyWrite writes.
LEMMA TrafficStep == ServerInv /\ TrafficExact /\ [ServerNext]_vars => TrafficExact'
<1> SUFFICES ASSUME ServerInv, TrafficExact, [ServerNext]_vars PROVE TrafficExact'
  OBVIOUS
<1> DEFINE Same == UNCHANGED <<bytesIn, bytesOut, added, copied>>
<1>1. ServerTypeOK /\ CopierInv
  BY DEF ServerInv, ServerOK
<1>2. ASSUME Same
      PROVE  TrafficExact'
  BY <1>1, <1>2, TrafficStays
<1>3. CASE UNCHANGED vars
  BY <1>2, <1>3 DEF vars, statsVars, serverVars
<1>4. ASSUME NEW c \in Conns, Accept(c) \/ AcceptSocks(c) \/ Expire(c) \/ Environment(c)
      PROVE  Same
  BY <1>4 DEF Accept, AcceptSocks, Expire, Environment, ClientHello, PeerBadRecord, PeerSend,
     PeerRead, PeerFin, PeerReset, PeerStops, statsVars, copyVars
<1>5. ASSUME NEW c \in Conns, HandlerStep(c) \/ CallLocks(c)
      PROVE  Same
  <2>1. CASE Peek(c) \/ ReadFail(c) \/ HandshakeReject(c) \/ HandshakeOK(c) \/ DialFail(c)
               \/ WriteInit(c) \/ WriteInitFail(c)
    BY <2>1 DEF Peek, ReadFail, HandshakeReject, HandshakeOK, DialFail, WriteInit,
                WriteInitFail, HandlerOnly, statsVars, copyVars
  <2>2. CASE Dial(c) \/ ClearDeadline(c) \/ Spawn(c) \/ RecvDone(c) \/ CloseDc(c) \/ CloseRaw(c)
    BY <2>2 DEF Dial, ClearDeadline, Spawn, RecvDone, CloseDc, CloseRaw, statsVars, copyVars
  <2>3. CASE BeginConnOpen(c) \/ BeginConnClose(c)
    BY <2>3 DEF BeginConnOpen, BeginConnClose, ConnOpenActive, ConnCloseActive, CallStep, serverVars
  <2>4. CASE CallGoesOn(c) \/ CallLocks(c)
    BY <2>4 DEF CallGoesOn, CallLocks, CallRuns, CallLookup, ConnOpenTotal, ConnOpenSecActive,
       ConnOpenSecTotal, ConnCloseSecActive, ConnOpenLookup, ConnCloseLookup, LookupStep, CallStep,
       serverVars
  <2> QED
    BY <1>5, <2>1, <2>2, <2>3, <2>4 DEF HandlerStep
<1>6. ASSUME NEW c \in Conns, NEW d \in Dirs, CopierStep(c, d)
      PROVE  TrafficExact'
  <2>1. CASE CopyCount(c, d)
    BY <2>1, CountKeepsTraffic
  <2>2. CASE CopyWrite(c, d)
    <3>1. cop[c][d] = "write" /\ UNCHANGED <<bytesIn, bytesOut, added>>
      BY <2>2 DEF CopyWrite, CopierAt, statsVars
    <3>2. \A e \in Conns, b \in Dirs : <<e, b>> # <<c, d>> => copied'[e][b] = copied[e][b]
      BY <1>1, <2>2 DEF CopyWrite, ServerTypeOK
    <3>3. Counter[d] \notin added[c]
      BY <1>1, <3>1 DEF CopierInv
    <3>4. \A e \in Conns, b \in Dirs : Counter[b] \in added[e] => copied'[e][b] = copied[e][b]
      BY <3>2, <3>3
    <3> QED
      BY <1>1, <3>1, <3>4, TrafficStays
  <2>3. CASE CopyRead(c, d) \/ CopyEOF(c, d) \/ CopyReadErr(c, d) \/ CopyWriteErr(c, d)
               \/ (d = "up" /\ CopyShut(c)) \/ CopySend(c, d)
    BY <1>2, <2>3 DEF CopyRead, CopyEOF, CopyReadErr, CopyWriteErr, CopyShut, CopySend,
       CopierOnly, statsVars
  <2> QED
    BY <1>6, <2>1, <2>2, <2>3 DEF CopierStep
<1>7. ASSUME NEW s \in Scrapers, Scrape(s)
      PROVE  Same
  <2>1. CountersUnchanged /\ UNCHANGED serverVars
    BY <1>7, ScrapeOnlyReads DEF Scrape
  <2> QED
    BY <2>1 DEF CountersUnchanged, serverVars
<1> QED
  BY <1>2, <1>3, <1>4, <1>5, <1>6, <1>7 DEF ServerNext

(***************************************************************************)
(* The byte counters equal what the finished copies have written, for any  *)
(* number of connections: each is counted once, after its last write, also *)
(* when it outlives its session or ends in an error.                       *)
(***************************************************************************)
THEOREM ServerTrafficExact == ServerSpec => []TrafficExact
<1>1. ServerInit => TrafficExact
  <2> SUFFICES ASSUME ServerInit PROVE TrafficExact
    OBVIOUS
  <2>1. Reported("in") = {} /\ Reported("out") = {} /\ bytesIn = 0 /\ bytesOut = 0
    BY DEF ServerInit, StatsInit, Reported
  <2>2. \A f : SumOf(f, {}) = 0
    BY FS_EmptySet DEF SumOf, Units
  <2> QED
    BY <2>1, <2>2 DEF TrafficExact
<1> QED
  BY <1>1, TrafficStep, ServerInvariant, PTL DEF ServerSpec
=============================================================================
