------------------------------- MODULE Server -------------------------------
(***************************************************************************)
(* The TCP proxy, proxy/server.go with the relay of proxy/socks5.go: the   *)
(* life of every accepted connection from Accept to the return of its      *)
(* handler goroutine, the two io.Copy goroutines that relay its bytes, the *)
(* absolute deadline set at Accept, and the calls to Stats.                *)
(*                                                                         *)
(* One connection has three threads: the handler (pc), the copier of each  *)
(* direction (cop), and the two remote ends, which send, stop reading,     *)
(* half-close or reset at any time.  Bytes are counted, not represented:   *)
(* sent is what a remote end has sent, copied what io.Copy has written,    *)
(* outq what the receiving end has not read yet.  What handshakes read is  *)
(* abstracted to whether the client has sent part or all of it.            *)
(***************************************************************************)
EXTENDS Stats

CONSTANTS
  Kinds,       \* what clients of the main port speak (a subset of AllKinds)
  SocksPort,   \* is cfg.Socks5Port set?
  Window,      \* bound: bytes that a socket takes while its remote end reads nothing
  DoneCap      \* capacity of the channel done

AllKinds == {"obfs", "tls", "socks5", "foreign"}

ASSUME ServerAssumption ==
  /\ Kinds \subseteq AllKinds
  /\ SocksPort \in BOOLEAN
  /\ Window \in Nat \ {0}
  /\ DoneCap = 2

Sides == {"client", "dc"}    \* the remote ends: the client, the DC or SOCKS target
Dirs == {"up", "down"}
Src == [d \in Dirs |-> IF d = "up" THEN "client" ELSE "dc"]
Dst == [d \in Dirs |-> IF d = "up" THEN "dc" ELSE "client"]

VARIABLES
  pc,         \* the handler goroutine of each connection
  kind,       \* what its client speaks
  raw, dcs,   \* the proxy's sockets: rawConn, and dcConn or targetConn
  deadline,   \* of rawConn
  hello,      \* how much of its handshake the client has sent: 0, 1 (part), 2 (all)
  peer,       \* whether a remote end still sends, has sent FIN, a record that is
              \* not ApplicationData ("bad"), or a reset
  sent,       \* bytes a remote end has sent for the relay
  cop,        \* the copier goroutine of each direction
  copied,          \* bytes io.Copy has written
  outq,       \* of these, bytes the receiving end has not read
  done        \* messages in the channel done

connVars == <<pc, kind, raw, dcs, deadline>>
peerVars == <<hello, peer, sent>>
copyVars == <<cop, copied, outq, done>>
serverVars == <<pc, kind, raw, dcs, deadline, hello, peer, sent, cop, copied, outq, done>>
vars == <<statsVars, serverVars>>

Both(x) == [d \in Dirs |-> x]

ServerInit ==
  /\ StatsInit
  /\ pc = [c \in Conns |-> "new"]
  /\ kind \in [Conns -> Kinds \cup (IF SocksPort THEN {"socks5"} ELSE {})]
  /\ raw = [c \in Conns |-> "none"]
  /\ dcs = [c \in Conns |-> "none"]
  /\ deadline = [c \in Conns |-> "none"]
  /\ hello = [c \in Conns |-> 0]
  /\ peer = [c \in Conns |-> [s \in Sides |-> "open"]]
  /\ sent = [c \in Conns |-> Both(0)]
  /\ cop = [c \in Conns |-> Both("idle")]
  /\ copied = [c \in Conns |-> Both(0)]
  /\ outq = [c \in Conns |-> Both(0)]
  /\ done = [c \in Conns |-> 0]

MTProto(c) == kind[c] \in {"obfs", "tls"}
Expired(c) == deadline[c] = "expired"
Sock(c, s) == IF s = "client" THEN raw[c] ELSE dcs[c]
InUse(c, s) == Sock(c, s) \in {"open", "shut"}
\* The proxy's own socket makes every read and write on it fail.
LocalDead(c, s) == ~InUse(c, s) \/ (s = "client" /\ Expired(c))

Goto(c, l) == pc' = [pc EXCEPT ![c] = l]

-----------------------------------------------------------------------------
(* The remote ends and the clock. *)

ClientHello(c) ==
  /\ raw[c] = "open" /\ peer[c]["client"] = "open" /\ hello[c] < 2
  /\ hello' = [hello EXCEPT ![c] = @ + 1]
  /\ UNCHANGED <<statsVars, connVars, peer, sent, copyVars>>

PeerSend(c, d) ==
  /\ InUse(c, Src[d]) /\ peer[c][Src[d]] = "open"
  /\ d = "up" => hello[c] = 2
  /\ sent[c][d] < MaxBytes
  /\ sent' = [sent EXCEPT ![c][d] = @ + 1]
  /\ UNCHANGED <<statsVars, connVars, hello, peer, copyVars>>

PeerStops(c, s, how) ==
  /\ InUse(c, s)
  /\ peer' = [peer EXCEPT ![c][s] = how]
  /\ UNCHANGED <<statsVars, connVars, hello, sent, copyVars>>

PeerFin(c, s) == peer[c][s] = "open" /\ PeerStops(c, s, "fin")
PeerReset(c, s) == peer[c][s] # "rst" /\ PeerStops(c, s, "rst")
\* A fake-TLS client sends an alert or any other record, e.g. as it closes.
PeerBadRecord(c) ==
  /\ kind[c] = "tls" /\ hello[c] = 2 /\ peer[c]["client"] = "open"
  /\ PeerStops(c, "client", "bad")

PeerRead(c, d) ==
  /\ InUse(c, Dst[d]) /\ peer[c][Dst[d]] # "rst"
  /\ outq[c][d] > 0
  /\ outq' = [outq EXCEPT ![c][d] = @ - 1]
  /\ UNCHANGED <<statsVars, connVars, peerVars, cop, copied, done>>

Environment(c) ==
  \/ ClientHello(c) \/ PeerBadRecord(c)
  \/ \E d \in Dirs : PeerSend(c, d) \/ PeerRead(c, d)
  \/ \E s \in Sides : PeerFin(c, s) \/ PeerReset(c, s)

\* cfg.Timeout after Accept, whatever the connection did in between.
Expire(c) ==
  /\ raw[c] = "open" /\ deadline[c] = "armed"
  /\ deadline' = [deadline EXCEPT ![c] = "expired"]
  /\ UNCHANGED <<statsVars, pc, kind, raw, dcs, peerVars, copyVars>>

-----------------------------------------------------------------------------
(* The handler up to the relay. *)

\* Mutant: no deadline is set at Accept.
Accept_NoDeadline(c) ==
  /\ pc[c] = "new" /\ kind[c] \in Kinds
  /\ Goto(c, "peek")
  /\ raw' = [raw EXCEPT ![c] = "open"]
  /\ UNCHANGED <<statsVars, kind, dcs, deadline, peerVars, copyVars>>

Accept(c) ==
  /\ pc[c] = "new" /\ kind[c] \in Kinds
  /\ Goto(c, "peek")
  /\ raw' = [raw EXCEPT ![c] = "open"]
  /\ deadline' = [deadline EXCEPT ![c] = "armed"]
  /\ UNCHANGED <<statsVars, kind, dcs, peerVars, copyVars>>

\* listenSOCKS5: the dedicated port sets no deadline.
AcceptSocks(c) ==
  /\ SocksPort /\ pc[c] = "new" /\ kind[c] = "socks5"
  /\ Goto(c, "hello")
  /\ raw' = [raw EXCEPT ![c] = "open"]
  /\ UNCHANGED <<statsVars, kind, dcs, deadline, peerVars, copyVars>>

HandlerOnly(c, from, to) ==
  /\ pc[c] = from
  /\ Goto(c, to)
  /\ UNCHANGED <<statsVars, kind, raw, dcs, deadline, peerVars, copyVars>>

\* The switch on the first byte: SOCKS4 and HTTP clients are turned away.
Peek(c) ==
  /\ hello[c] >= 1 /\ ~Expired(c)
  /\ HandlerOnly(c, "peek", IF kind[c] = "foreign" THEN "closeraw" ELSE "hello")

ReadFail(c) ==
  \E l \in {"peek", "hello"} :
    /\ \/ Expired(c)
       \/ peer[c]["client"] = "rst"
       \/ peer[c]["client"] = "fin" /\ hello[c] < (IF l = "peek" THEN 1 ELSE 2)
    /\ HandlerOnly(c, l, "closeraw")

\* No secret matches, the DC is unknown, SOCKS5 asks for what is not offered, or
\* what has been read already is malformed.
HandshakeReject(c) ==
  /\ hello[c] >= 1 /\ ~Expired(c)
  /\ HandlerOnly(c, "hello", "closeraw")

HandshakeOK(c) ==
  /\ hello[c] = 2 /\ ~Expired(c)
  /\ HandlerOnly(c, "hello", "dial")

DialFail(c) == HandlerOnly(c, "dial", "closeraw")

Dial(c) ==
  /\ pc[c] = "dial"
  /\ Goto(c, IF MTProto(c) THEN "init" ELSE "spawn")
  /\ dcs' = [dcs EXCEPT ![c] = "open"]
  /\ UNCHANGED <<statsVars, kind, raw, deadline, peerVars, copyVars>>

WriteInit(c) ==
  /\ peer[c]["dc"] # "rst"
  /\ HandlerOnly(c, "init", "clear")

WriteInitFail(c) ==
  /\ peer[c]["dc"] = "rst"
  /\ HandlerOnly(c, "init", "closedc")

\* rawConn.SetDeadline(time.Time{}); an expiry that nothing has met is forgotten.
ClearDeadline(c) ==
  /\ pc[c] = "clear"
  /\ Goto(c, "connopen")
  /\ deadline' = [deadline EXCEPT ![c] = "none"]
  /\ UNCHANGED <<statsVars, kind, raw, dcs, peerVars, copyVars>>

BeginConnOpen(c) ==
  /\ pc[c] = "connopen"
  /\ \E s \in Names : ConnOpenActive(c, s)
  /\ UNCHANGED serverVars

\* The rest of ConnOpen or ConnClose, executed by the handler.
CallGoesOn(c) == CallRuns(c) /\ UNCHANGED serverVars
CallLocks(c) == CallLookup(c) /\ UNCHANGED serverVars

\* Mutant: the copiers start before ConnOpen has returned.
Spawn_BeforeOpen(c) ==
  /\ pc[c] = "spawn" \/ (pc[c] = "connopen" /\ call[c] # "none")
  /\ Goto(c, "wait")
  /\ cop' = [cop EXCEPT ![c] = Both("read")]
  /\ UNCHANGED <<statsVars, kind, raw, dcs, deadline, peerVars, copied, outq, done>>

\* The two go statements.
Spawn(c) ==
  /\ \/ pc[c] = "spawn"
     \/ pc[c] = "connopen" /\ call[c] = "open"
  /\ Goto(c, "wait")
  /\ cop' = [cop EXCEPT ![c] = Both("read")]
  /\ UNCHANGED <<statsVars, kind, raw, dcs, deadline, peerVars, copied, outq, done>>

-----------------------------------------------------------------------------
(* The copiers: io.Copy, then AddBytesIn/Out, CloseWrite (up), done <-. *)

CopierAt(c, d, from, to) ==
  /\ cop[c][d] = from
  /\ cop' = [cop EXCEPT ![c][d] = to]

CopierOnly(c, d, from, to) ==
  /\ CopierAt(c, d, from, to)
  /\ UNCHANGED <<statsVars, connVars, peerVars, copied, outq, done>>

AfterCount(d) == IF d = "up" THEN "shut" ELSE "send"
\* Where the goroutine goes when io.Copy returns; handleSOCKS5 counts nothing.
AfterCopy(c, d) == IF MTProto(c) THEN "count" ELSE AfterCount(d)

CopyRead(c, d) ==
  /\ ~LocalDead(c, Src[d]) /\ sent[c][d] > copied[c][d]
  /\ CopierOnly(c, d, "read", "write")

CopyEOF(c, d) ==
  /\ ~LocalDead(c, Src[d]) /\ peer[c][Src[d]] = "fin" /\ sent[c][d] = copied[c][d]
  /\ CopierOnly(c, d, "read", AfterCopy(c, d))

CopyReadErr(c, d) ==
  /\ \/ LocalDead(c, Src[d])
     \/ peer[c][Src[d]] = "rst"
     \/ peer[c][Src[d]] = "bad" /\ sent[c][d] = copied[c][d]
  /\ CopierOnly(c, d, "read", AfterCopy(c, d))

CopyWrite(c, d) ==
  /\ ~LocalDead(c, Dst[d]) /\ peer[c][Dst[d]] # "rst" /\ outq[c][d] < Window
  /\ CopierAt(c, d, "write", "read")
  /\ copied' = [copied EXCEPT ![c][d] = @ + 1]
  /\ outq' = [outq EXCEPT ![c][d] = @ + 1]
  /\ UNCHANGED <<statsVars, connVars, peerVars, done>>

CopyWriteErr(c, d) ==
  /\ LocalDead(c, Dst[d]) \/ peer[c][Dst[d]] = "rst"
  /\ CopierOnly(c, d, "write", AfterCopy(c, d))

\* Mutant: what was sent is reported, not what was written.
CopyCount_Sent(c, d) ==
  /\ CopierAt(c, d, "count", AfterCount(d))
  /\ IF d = "up" THEN AddBytesIn(c, sent[c][d]) ELSE AddBytesOut(c, sent[c][d])
  /\ UNCHANGED <<connVars, peerVars, copied, outq, done>>

CopyCount(c, d) ==
  /\ CopierAt(c, d, "count", AfterCount(d))
  /\ IF d = "up" THEN AddBytesIn(c, copied[c][d]) ELSE AddBytesOut(c, copied[c][d])
  /\ UNCHANGED <<connVars, peerVars, copied, outq, done>>

\* Mutant: Close where the code has CloseWrite.
CopyShut_Close(c) ==
  /\ CopierAt(c, "up", "shut", "send")
  /\ dcs' = [dcs EXCEPT ![c] = "closed"]
  /\ UNCHANGED <<statsVars, pc, kind, raw, deadline, peerVars, copied, outq, done>>

CopyShut(c) ==
  /\ CopierAt(c, "up", "shut", "send")
  /\ dcs' = [dcs EXCEPT ![c] = IF @ = "open" THEN "shut" ELSE @]
  /\ UNCHANGED <<statsVars, pc, kind, raw, deadline, peerVars, copied, outq, done>>

\* Mutant: done has no buffer, a message needs the handler to receive it.
CopySend_Unbuffered(c, d) ==
  /\ pc[c] = "wait" /\ done[c] = 0
  /\ CopierAt(c, d, "send", "end")
  /\ done' = [done EXCEPT ![c] = @ + 1]
  /\ UNCHANGED <<statsVars, connVars, peerVars, copied, outq>>

CopySend(c, d) ==
  /\ done[c] < DoneCap
  /\ CopierAt(c, d, "send", "end")
  /\ done' = [done EXCEPT ![c] = @ + 1]
  /\ UNCHANGED <<statsVars, connVars, peerVars, copied, outq>>

-----------------------------------------------------------------------------
(* The handler after the relay: <-done, then the deferred calls, last first. *)

\* Mutant: the handler waits for both copiers.
RecvDone_Both(c) ==
  /\ pc[c] = "wait" /\ done[c] = 2
  /\ done' = [done EXCEPT ![c] = 0]
  /\ Goto(c, IF MTProto(c) THEN "connclose" ELSE "closedc")
  /\ UNCHANGED <<statsVars, kind, raw, dcs, deadline, peerVars, cop, copied, outq>>

\* Mutant: the deferred ConnClose is missing.
RecvDone_NoConnClose(c) ==
  /\ pc[c] = "wait" /\ done[c] > 0
  /\ done' = [done EXCEPT ![c] = @ - 1]
  /\ Goto(c, "closedc")
  /\ UNCHANGED <<statsVars, kind, raw, dcs, deadline, peerVars, cop, copied, outq>>

RecvDone(c) ==
  /\ pc[c] = "wait" /\ done[c] > 0
  /\ done' = [done EXCEPT ![c] = @ - 1]
  /\ Goto(c, IF MTProto(c) THEN "connclose" ELSE "closedc")
  /\ UNCHANGED <<statsVars, kind, raw, dcs, deadline, peerVars, cop, copied, outq>>

BeginConnClose(c) ==
  /\ pc[c] = "connclose"
  /\ ConnCloseActive(c)
  /\ UNCHANGED serverVars

CloseDc(c) ==
  /\ \/ pc[c] = "closedc"
     \/ pc[c] = "connclose" /\ call[c] = "closed"
  /\ Goto(c, "closeraw")
  /\ dcs' = [dcs EXCEPT ![c] = "closed"]
  /\ UNCHANGED <<statsVars, kind, raw, deadline, peerVars, copyVars>>

CloseRaw(c) ==
  /\ pc[c] = "closeraw"
  /\ Goto(c, "returned")
  /\ raw' = [raw EXCEPT ![c] = "closed"]
  /\ UNCHANGED <<statsVars, kind, dcs, deadline, peerVars, copyVars>>

-----------------------------------------------------------------------------
HandlerStep(c) ==
  \/ Peek(c) \/ ReadFail(c) \/ HandshakeReject(c) \/ HandshakeOK(c)
  \/ Dial(c) \/ DialFail(c) \/ WriteInit(c) \/ WriteInitFail(c)
  \/ ClearDeadline(c) \/ BeginConnOpen(c) \/ Spawn(c)
  \/ RecvDone(c) \/ BeginConnClose(c) \/ CloseDc(c) \/ CloseRaw(c)
  \/ CallGoesOn(c)

CopierStep(c, d) ==
  \/ CopyRead(c, d) \/ CopyEOF(c, d) \/ CopyReadErr(c, d)
  \/ CopyWrite(c, d) \/ CopyWriteErr(c, d)
  \/ CopyCount(c, d) \/ (d = "up" /\ CopyShut(c)) \/ CopySend(c, d)

Scrape(s) ==
  /\ ScrapeActive(s) \/ ScrapeStep(s) \/ ScrapeAgain(s)
  /\ UNCHANGED serverVars

ServerNext ==
  \/ \E c \in Conns :
       \/ Accept(c) \/ AcceptSocks(c)
       \/ HandlerStep(c) \/ CallLocks(c)
       \/ \E d \in Dirs : CopierStep(c, d)
       \/ Environment(c) \/ Expire(c)
  \/ \E s \in Scrapers : Scrape(s)

ServerSpec == ServerInit /\ [][ServerNext]_vars

(***************************************************************************)
(* Runnable goroutines run (dials return: DialTimeout; a 64-byte write to  *)
(* a fresh socket returns), the timer of a deadline fires, and mu is       *)
(* granted as in Stats.  Nothing is assumed of the remote ends.            *)
(***************************************************************************)
ServerFairness ==
  /\ \A c \in Conns :
       /\ WF_vars(HandlerStep(c)) /\ SF_vars(CallLocks(c)) /\ WF_vars(Expire(c))
       /\ \A d \in Dirs : WF_vars(CopierStep(c, d))
  /\ \A s \in Scrapers :
       /\ WF_vars(ScrapeStep(s) /\ UNCHANGED serverVars)
       /\ SF_vars(ScrapeLock(s) /\ UNCHANGED serverVars)

FairServerSpec == ServerSpec /\ ServerFairness

-----------------------------------------------------------------------------
HandlerPoints == {"new", "peek", "hello", "dial", "init", "clear", "connopen", "spawn",
                  "wait", "connclose", "closedc", "closeraw", "returned"}
CopierPoints == {"idle", "read", "write", "count", "shut", "send", "end"}

\* The type invariant of the proxy; that of Stats is StatsTypeOK.
ServerTypeOK ==
  /\ pc \in [Conns -> HandlerPoints]
  /\ kind \in [Conns -> AllKinds]
  /\ raw \in [Conns -> {"none", "open", "closed"}]
  /\ dcs \in [Conns -> {"none", "open", "shut", "closed"}]
  /\ deadline \in [Conns -> {"none", "armed", "expired"}]
  /\ hello \in [Conns -> 0 .. 2]
  /\ peer \in [Conns -> [Sides -> {"open", "fin", "bad", "rst"}]]
  /\ sent \in [Conns -> [Dirs -> 0 .. MaxBytes]]
  /\ cop \in [Conns -> [Dirs -> CopierPoints]]
  /\ copied \in [Conns -> [Dirs -> 0 .. MaxBytes]]
  /\ outq \in [Conns -> [Dirs -> 0 .. Window]]
  /\ done \in [Conns -> 0 .. DoneCap]

Ended(c, d) == cop[c][d] \in {"count", "shut", "send", "end"}
Released(c) == pc[c] = "returned" /\ \A d \in Dirs : cop[c][d] \in {"idle", "end"}

\* A remote end ended direction d, or, on the SOCKS5 relay, the deadline did.
HasCause(c, d) ==
  \/ peer[c][Src[d]] \in {"fin", "bad"} /\ copied[c][d] = sent[c][d]
  \/ peer[c][Src[d]] = "rst" \/ peer[c][Dst[d]] = "rst"
  \/ kind[c] = "socks5" /\ Expired(c)

(***************************************************************************)
(* The proxy ends nothing by itself.  Until the handler closes the         *)
(* sockets, a copy that has ended was ended by a remote end, and unless by *)
(* a reset, every byte sent before has been written to the other side;     *)
(* the CloseWrite of one copier never ends the other, the deadline of the  *)
(* handshake never ends an MTProto relay, and the handler leaves <-done    *)
(* for such an end only.                                                   *)
(***************************************************************************)
EndsOnlyForCause ==
  \A c \in Conns : pc[c] \in {"wait", "connclose", "closedc"} =>
    /\ \A d \in Dirs : Ended(c, d) => HasCause(c, d)
    /\ pc[c] = "connclose" => \E d \in Dirs : Ended(c, d)

(***************************************************************************)
(* active_conns agrees with the sessions: it counts every MTProto          *)
(* connection that is relaying, and none whose handler is before ConnOpen  *)
(* or past ConnClose, whichever early return it took.                      *)
(***************************************************************************)
ActiveIsRelays ==
  LET In(points) == {c \in Conns : MTProto(c) /\ pc[c] \in points} IN
  /\ Cardinality(In({"wait"})) <= activeConns
  /\ activeConns <= Cardinality(In({"connopen", "wait", "connclose"}))

\* What each connection has written in direction d; which ones have reported.
Written(d) == [c \in Conns |-> copied[c][d]]
Reported(a) == {c \in Conns : a \in added[c]}

(***************************************************************************)
(* bytes_in and bytes_out are the bytes that the finished copies have      *)
(* written, each connection once, also for a copy that outlives its        *)
(* session or ends in an error.                                            *)
(***************************************************************************)
TrafficExact ==
  /\ bytesIn = SumOf(Written("up"), Reported("in"))
  /\ bytesOut = SumOf(Written("down"), Reported("out"))

\* A client that stalls in its handshake is dropped: the deadline set at Accept fires.
HandshakeBounded ==
  \A c \in Conns : pc[c] = "peek" ~> pc[c] \notin {"peek", "hello"}

\* No copier outlives its handler for ever: Close wakes the one that is still
\* blocked in Read or Write, and done has room for its message.
NoGoroutineLeak ==
  \A c \in Conns : pc[c] = "returned" ~> Released(c)

(***************************************************************************)
(* Once a remote end has stopped, everything the connection holds is       *)
(* released: both sockets, both copiers, the count of active connections;  *)
(* provided the other end does not refuse for ever to read what is queued  *)
(* for it, and although the last steps wait for Stats.mu.                  *)
(***************************************************************************)
StopEndsSession ==
  \A c \in Conns, d \in Dirs :
    []<>(outq[c][d] < Window) =>
      (pc[c] = "wait" /\ peer[c][Src[d]] # "open" ~> Released(c))

-----------------------------------------------------------------------------
(* What README.md says and the code does not do. *)

\* Both copiers wait for data, nothing is in flight, both ends are there.
Idle(c) ==
  /\ pc[c] = "wait" /\ InUse(c, "client") /\ InUse(c, "dc")
  /\ \A d \in Dirs : cop[c][d] = "read" /\ sent[c][d] = copied[c][d]
  /\ \A s \in Sides : peer[c][s] = "open"

\* "TIMEOUT_SEC: Idle connection timeout": it does not fire on a relay with
\* bytes in flight.
OnlyIdleTimesOut ==
  [][\A c \in Conns : pc[c] = "wait" /\ Expired(c)' => Expired(c) \/ Idle(c)]_vars
=============================================================================
