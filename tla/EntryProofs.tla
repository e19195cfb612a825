----------------------------- MODULE EntryProofs -----------------------------
(***************************************************************************)
(* Proofs about Entry, in two parts.  The stream that follows an MTProto   *)
(* handshake is that of FramingProofs, once the handshake has left the     *)
(* cipher where the client expects it.  The negotiation is followed from   *)
(* one read to the next: what is on the wire is the script from the place  *)
(* that the handler has reached (Stage).                                   *)
(***************************************************************************)
EXTENDS Entry, FramingProofs, WellFoundedInduction

-----------------------------------------------------------------------------
(* The stream after the handshake *)

StreamInv ==
  /\ client \in Clients /\ kind = client.kind /\ kind \in {"tls", "obfs", "plain"}
  /\ UpBytes /\ DownInv
  /\ at # "relay" => delivered = <<>> /\ readBuf = <<>> /\ reading
  /\ at = "relay" /\ kind # "plain" /\ result.via = kind =>
       encPos = InitLen + Len(delivered) + Len(readBuf)

\* What the steps of the negotiation do to the stream.
Negotiates ==
  /\ at # "relay" /\ UNCHANGED <<client, kind, cSent, inq, readBuf, reading, delivered, downVars>>
  /\ inEnd' \in {inEnd, "fin"} /\ encPos' \in {encPos, InitLen}
  /\ at' = "relay" => result'.via = "plain" \/ encPos' = InitLen

LEMMA NegotiatesOrStreams == EntryNext => Negotiates \/ Streaming
<1> USE DEF Negotiates, framingVars, upVars, ReadFull, Goto, Close
<1>1. ClientSays => Negotiates
  BY DEF ClientSays, Speaks, handlerVars, Negotiating
<1>2. ClientQuits => Negotiates
  BY DEF ClientQuits, Speaks, handlerVars, Negotiating
<1>3. Peek => Negotiates
  BY DEF Peek
<1>4. ReadFails \/ WriteFails \/ Deadline => Negotiates
  BY DEF ReadFails, WriteFails, Deadline, Negotiating
<1>5. Greeting \/ Methods \/ DomainLength \/ Host \/ SkipIPv6 => Negotiates
  BY DEF Greeting, Methods, DomainLength, Host, SkipIPv6
<1>6. Request => Negotiates
  BY DEF Request
<1>7. Port => Negotiates
  BY DEF Port
<1>8. ObfuscatedInit => Negotiates
  BY DEF ObfuscatedInit, Enter, otherFramingVars
<1>9. RecordHeader => Negotiates
  BY DEF RecordHeader
<1>10. ClientHello => Negotiates
  BY DEF ClientHello, Enter, otherFramingVars
<1> QED
  BY <1>1, <1>2, <1>3, <1>4, <1>5, <1>6, <1>7, <1>8, <1>9, <1>10 DEF EntryNext

\* A step of a wrapper that the proxy has put around the connection.
LEMMA WrappedSteps ==
  ASSUME FramingAssumption, UpInv, DownInv,
         \/ ReadBuffered \/ ReadRecord \/ ReadEnds \/ WriteChunk \/ ClientRead
         \/ \E n \in 1 .. BufLen : ReadStream(n) \/ WriteCall(n)
  PROVE  \/ UpMove /\ UNCHANGED <<kind, downVars>>
         \/ DownMove /\ UNCHANGED <<kind, upVars>>
<1>1. FramingIInv /\ FramingNext
  BY DEF FramingIInv, FramingNext
<1>2. kind' = kind
  BY DEF ReadBuffered, ReadRecord, ReadEnds, WriteChunk, ClientRead, ReadStream, WriteCall
<1> QED
  BY <1>1, <1>2, FramingSteps

\* What the client does to a wrapped stream, or before there is a wrapper.
LEMMA ClientSteps ==
  ASSUME FramingAssumption, UpBytes,
         ClientEnds \/ ClientOther \/ \E n \in 0 .. MaxBytes : ClientWrite(n)
  PROVE  ClientMove /\ UNCHANGED downVars
<1>1. CASE ClientEnds
  BY <1>1, UpClientEnds DEF ClientEnds
<1>2. CASE ClientOther
  BY <1>2, UpClientOther DEF ClientOther
<1>3. ASSUME NEW n \in 0 .. MaxBytes, ClientWrite(n) PROVE ClientMove /\ UNCHANGED downVars
  BY <1>3, UpClientWrite DEF ClientWrite
<1> QED
  BY <1>1, <1>2, <1>3

\* One direction moves at a time, and each like a byte stream.
StreamMoves ==
  /\ StreamInv'
  /\ \/ delivered' = delivered /\ cSent <= cSent'
     \/ cSent' = cSent /\ Len(delivered) <= Len(delivered')
  /\ \/ received' = received /\ pSent <= pSent'
     \/ pSent' = pSent /\ Len(received) <= Len(received')

LEMMA StreamStep == ASSUME StreamInv, [EntryNext]_vars PROVE StreamMoves
<1>1. /\ UpBytes /\ DownInv /\ cSent <= cSent /\ pSent <= pSent
      /\ client \in Clients /\ kind = client.kind /\ kind \in {"tls", "obfs", "plain"}
  BY DEF StreamInv, UpBytes, DownInv
<1>2. CASE UNCHANGED vars
  BY <1>1, <1>2
  DEF vars, entryVars, handlerVars, framingVars, upVars, downVars, StreamInv, StreamMoves,
      UpBytes, DownInv
<1>3. CASE Negotiates
  <2>1. /\ UNCHANGED <<client, kind, cSent, inq, readBuf, reading, delivered, downVars>>
        /\ UpBytes' /\ DownInv'
    BY <1>1, <1>3, FramingAssumption
    DEF Negotiates, UpBytes, DownInv, downVars, FramingAssumption
  <2>2. delivered = <<>> /\ readBuf = <<>> /\ reading
    BY <1>3 DEF Negotiates, StreamInv
  <2>3. ASSUME at' = "relay", kind # "plain", result'.via = kind
        PROVE  encPos' = InitLen + Len(delivered) + Len(readBuf)
    BY <1>3, <2>2, <2>3, FramingAssumption, EmptySeq DEF Negotiates, FramingAssumption
  <2> QED
    BY <1>1, <2>1, <2>2, <2>3 DEF StreamInv, StreamMoves, downVars
<1>4. CASE Streaming
  <2>1. UNCHANGED entryVars
    BY <1>4 DEF Streaming
  <2>2. CASE ClientEnds \/ ClientOther \/ \E n \in 0 .. MaxBytes : ClientWrite(n)
    <3>1. ClientMove /\ UNCHANGED downVars
      BY <1>1, <2>2, ClientSteps, FramingAssumption
    <3>2. DownInv'
      BY <1>1, <3>1 DEF DownInv, downVars
    <3> QED
      BY <1>1, <2>1, <3>1, <3>2
      DEF ClientMove, StreamInv, StreamMoves, entryVars, handlerVars, downVars
  <2>3. CASE /\ at = "relay" /\ kind # "plain" /\ result.via = kind
             /\ \/ ReadBuffered \/ ReadRecord \/ ReadEnds \/ WriteChunk \/ ClientRead
                \/ \E n \in 1 .. BufLen : ReadStream(n) \/ WriteCall(n)
    <3>1. UpInv
      BY <1>1, <2>3 DEF StreamInv, UpInv
    <3>2. CASE UpMove /\ UNCHANGED <<kind, downVars>>
      <4>1. UpInv' /\ UpBytes' /\ DownInv'
        BY <1>1, <3>2 DEF UpMove, UpInv, DownInv, downVars
      <4> QED
        BY <1>1, <2>1, <2>3, <3>2, <4>1
        DEF UpMove, UpInv, StreamInv, StreamMoves, entryVars, handlerVars, downVars
    <3>3. CASE DownMove /\ UNCHANGED <<kind, upVars>>
      <4>1. UpBytes'
        BY <1>1, <3>3 DEF UpBytes, upVars
      <4> QED
        BY <1>1, <2>1, <2>3, <3>3, <4>1
        DEF DownMove, StreamInv, StreamMoves, entryVars, handlerVars, upVars
    <3> QED
      BY <1>1, <2>3, <3>1, <3>2, <3>3, WrappedSteps, FramingAssumption
  <2> QED
    BY <1>4, <2>2, <2>3 DEF Streaming
<1> QED
  BY <1>2, <1>3, <1>4, NegotiatesOrStreams

LEMMA StreamInvariant == EntrySpec => [](StreamInv /\ UpBytes)
<1>1. EntryInit => StreamInv
  <2> SUFFICES ASSUME EntryInit PROVE StreamInv
    OBVIOUS
  <2>1. client \in Clients /\ kind = client.kind /\ kind \in {"tls", "obfs", "plain"}
    BY ClientsAssumption DEF EntryInit, FramingInit
  <2>2. /\ cSent = 0 /\ inq = <<>> /\ inEnd = "open" /\ encPos = 0
        /\ readBuf = <<>> /\ reading = TRUE /\ delivered = <<>>
        /\ unsent = 0 /\ pSent = 0 /\ outq = <<>> /\ decPos = 0 /\ received = <<>>
        /\ at # "relay"
    BY DEF EntryInit, FramingInit
  <2>3. UpBytes /\ DownInv
    BY <2>2, EmptySeq, FramingAssumption
    DEF UpBytes, DownInv, Counted, Queue, FramingAssumption
  <2> QED
    BY <2>1, <2>2, <2>3 DEF StreamInv
<1>2. StreamInv /\ [EntryNext]_vars => StreamInv'
  BY StreamStep DEF StreamMoves
<1>3. StreamInv => UpBytes
  BY DEF StreamInv
<1> QED
  BY <1>1, <1>2, <1>3, PTL DEF EntrySpec

\* Behind the handshakes, whatever has split them, the copier reads what the client has
\* written after its init.
THEOREM EntryUpIsStream == EntrySpec => UpIsStream
<1>1. EntryInit => Up!StreamInit
  BY StreamsInit DEF EntryInit
<1>2. StreamInv /\ StreamInv' /\ [EntryNext]_vars => [Up!StreamNext]_<<Upto(cSent), delivered>>
  BY StreamStep, UpStep DEF StreamInv, StreamMoves
<1> QED
  BY <1>1, <1>2, StreamInvariant, PTL DEF EntrySpec, UpIsStream, Up!StreamSpec

\* Behind the handshakes, the client deciphers what Write was given.
THEOREM EntryDownIsStream == EntrySpec => DownIsStream
<1>1. EntryInit => Down!StreamInit
  BY StreamsInit DEF EntryInit
<1>2. StreamInv /\ StreamInv' /\ [EntryNext]_vars => [Down!StreamNext]_<<Upto(pSent), received>>
  BY StreamStep, DownStep DEF StreamInv, StreamMoves
<1> QED
  BY <1>1, <1>2, StreamInvariant, PTL DEF EntrySpec, DownIsStream, Down!StreamSpec

\* A FIN loses the record that it cuts off and no other, behind a handshake too.
THEOREM EntryEndLosesTheCut == EntrySpec => []EndLosesOnlyTheCut
<1>1. UpBytes => EndLosesOnlyTheCut
  BY CutOnly
<1> QED
  BY <1>1, StreamInvariant, PTL

-----------------------------------------------------------------------------
(* Scripts and what of them is on the wire *)

First(c) == c.says[1]
Second(c) == c.says[2]
FirstLen(c) == Len(First(c))
SecondLen(c) == Len(Second(c))

\* Byte i of what client c says, and how many bytes its first m messages have.
Script(c, i) ==
  IF i <= FirstLen(c) THEN First(c)[i] ELSE Second(c)[i - FirstLen(c)]
SaidLen(c, m) ==
  IF m = 0 THEN 0 ELSE IF m = 1 THEN FirstLen(c) ELSE FirstLen(c) + SecondLen(c)
Total(c) == SaidLen(c, Len(c.says))

Symbol == {Script(c, i) : c \in Clients, i \in Nat \ {0}}

\* w holds the script of c from byte k + 1 on, as far as the s messages that c has sent,
\* or a part of the next one if it is at its end; rep is what it was answered.
Carries(c, s, end, rep, w, k) ==
  /\ k \in Nat /\ w \in Seq(Symbol)
  /\ \A i \in 1 .. Len(w) : w[i] = Script(c, k + i)
  /\ k + Len(w) <= Total(c)
  /\ end = "open" \/ s = Len(c.says) => k + Len(w) = SaidLen(c, s)
  /\ ~c.eager /\ rep = <<>> => k + Len(w) <= FirstLen(c)

\* The handler has read k bytes of the script.
HasRead(k) == Carries(client, sent, inEnd, replies, wire, k)

\* p is the beginning of what c says.
Begins(p, c) == p \in Seq(Symbol) /\ \A i \in 1 .. Len(p) : p[i] = Script(c, i)

-----------------------------------------------------------------------------
(* Where the handler is *)

\* The first message of a SOCKS5 client has bytes 3 .. 2 + Methods as its methods.
NMethods(c) == Script(c, 2)
OffersNone(c) == \E i \in 3 .. 2 + NMethods(c) : Script(c, i) = 0

Peeked == Len(peek)

\* Bytes that are read when the methods are, of which n have been peeked.
Used(c, n) == IF n > 2 + NMethods(c) THEN n ELSE 2 + NMethods(c)

\* A greeting and the beginning of a request that socks5Handshake does not reject.
SocksSoFar ==
  /\ kind = "plain" /\ Script(client, 1) = SocksByte /\ OffersNone(client)
  /\ Second(client)[1] = SocksByte /\ Second(client)[2] = 1
  /\ Peeked <= FirstLen(client) /\ Len(replies) = 1

AtPeek == need = 1 /\ peek = <<>> /\ replies = <<>> /\ HasRead(0)

AtGreeting ==
  /\ Peeked + need = 2 /\ replies = <<>> /\ HasRead(Peeked)
  /\ \/ Peeked = 0 /\ kind = "plain"
     \/ Peeked = 1 /\ Script(client, 1) = SocksByte

AtMethods ==
  /\ Peeked >= 2 /\ Script(client, 1) = SocksByte
  /\ need = Missing(peek) /\ replies = <<>> /\ HasRead(Peeked)

AtRequest ==
  /\ Peeked >= 2 /\ Script(client, 1) = SocksByte /\ OffersNone(client)
  /\ need = 4 /\ Len(replies) = 1 /\ HasRead(Used(client, Peeked))

\* The address type is dest, the host is behind the first at bytes of the request.
AtAddress(dest, pos, n) ==
  /\ SocksSoFar /\ Second(client)[4] = dest /\ need = n
  /\ HasRead(FirstLen(client) + pos)

AtPort ==
  /\ SocksSoFar /\ Second(client)[4] \in {1, 3} /\ need = 2 /\ host = client.asks.host
  /\ HasRead(Total(client) - 2)

AtInit == kind = "obfs" /\ need = InitLen /\ replies = <<>> /\ HasRead(0)

AtHeader ==
  /\ kind \in {"obfs", "tls"} /\ Script(client, 1) = TlsByte
  /\ need = 5 /\ replies = <<>> /\ HasRead(0)

AtBody ==
  /\ kind \in {"obfs", "tls"} /\ Script(client, 1) = TlsByte
  /\ need = 256 * Script(client, 4) + Script(client, 5) /\ replies = <<>> /\ HasRead(5)

AtClosed == why = "refused" \/ (why = "lost" /\ sent = Len(client.says)) => CauseToRefuse

Stage ==
  /\ at = "peek" => AtPeek
  /\ at = "greeting" => AtGreeting
  /\ at = "methods" => AtMethods
  /\ at = "request" => AtRequest
  /\ at = "ipv4" => AtAddress(1, 4, 4)
  /\ at = "length" => AtAddress(3, 4, 1)
  /\ at = "domain" => AtAddress(3, 5, Second(client)[5])
  /\ at = "ipv6" => AtAddress(4, 4, 18)
  /\ at = "port" => AtPort
  /\ at = "init" => AtInit
  /\ at = "header" => AtHeader
  /\ at = "body" => AtBody
  /\ at = "closed" => AtClosed

\* Only an eager client can have sent more than its first message.
PeekOK ==
  Begins(peek, client) /\ Peeked <= PeekLen /\ (Peeked > FirstLen(client) => client.eager)

\* What holds wherever the handler is.
Common ==
  /\ client \in Clients /\ kind = client.kind /\ sent \in 0 .. Len(client.says)
  /\ at \in Points /\ need \in Word
  /\ replies \in Seq(Seq(Nat)) /\ Len(replies) <= 2
  /\ why \in {"open", "refused", "lost", "unwritten", "late"} /\ (why # "open" <=> at = "closed")
  /\ PeekOK

NegotiationInv == Common /\ Stage /\ AcceptsWhatWasAsked

-----------------------------------------------------------------------------
(* Lemmas about scripts *)

LEMMA Kinds ==
  ASSUME NEW c \in Clients
  PROVE  /\ c.kind \in {"plain", "obfs", "tls"} /\ (Len(c.says) = 1 \/ Len(c.says) = 2)
         /\ c.kind = "plain" => SocksScript(c) /\ Len(c.says) = 2
         /\ c.kind = "obfs" => ObfsScript(c) /\ Len(c.says) = 1
         /\ c.kind = "tls" => TlsScript(c) /\ Len(c.says) = 1
         /\ \A m \in 1 .. Len(c.says) : IsSeq(c.says[m])
  BY ClientsAssumption DEF SocksScript, ObfsScript, TlsScript

LEMMA SaidLens ==
  ASSUME NEW c
  PROVE  /\ SaidLen(c, 0) = 0 /\ SaidLen(c, 1) = FirstLen(c)
         /\ SaidLen(c, 2) = FirstLen(c) + SecondLen(c)
<1>1. 1 # 0 /\ 2 # 0 /\ 2 # 1
  OBVIOUS
<1> QED
  BY <1>1, Zenon DEF SaidLen

LEMMA Lengths ==
  ASSUME NEW c \in Clients
  PROVE  /\ FirstLen(c) \in Nat /\ Total(c) \in Nat
         /\ Len(c.says) = 1 => Total(c) = FirstLen(c)
         /\ Len(c.says) = 2 => /\ SecondLen(c) \in Nat
                              /\ Total(c) = FirstLen(c) + SecondLen(c)
<1>1. Len(c.says) = 1 \/ Len(c.says) = 2
  BY Kinds
<1>2. FirstLen(c) \in Nat /\ (Len(c.says) = 2 => SecondLen(c) \in Nat)
  BY <1>1, Kinds DEF IsSeq, First, Second, FirstLen, SecondLen
<1>3. CASE Len(c.says) = 1
  BY <1>2, <1>3, SaidLens DEF Total
<1>4. CASE Len(c.says) = 2
  BY <1>2, <1>4, SaidLens DEF Total
<1> QED
  BY <1>1, <1>3, <1>4

LEMMA Messages ==
  ASSUME NEW c \in Clients, NEW m \in 0 .. Len(c.says) - 1
  PROVE  /\ c.says[m + 1] \in Seq(Symbol) /\ Len(c.says[m + 1]) \in Nat
         /\ \A i \in 1 .. Len(c.says[m + 1]) : c.says[m + 1][i] = Script(c, SaidLen(c, m) + i)
         /\ SaidLen(c, m) \in Nat /\ SaidLen(c, m + 1) = SaidLen(c, m) + Len(c.says[m + 1])
         /\ \/ m = 0 /\ c.says[m + 1] = First(c)
            \/ m = 1 /\ c.says[m + 1] = Second(c) /\ Len(c.says) = 2
<1> DEFINE s == c.says[m + 1]
           n == Len(s)
<1>1. m = 0 \/ (m = 1 /\ Len(c.says) = 2)
  <2>1. CASE Len(c.says) = 1
    <3>1. m \in 0 .. 0
      BY <2>1
    <3> QED
      BY <3>1
  <2>2. CASE Len(c.says) = 2
    <3>1. m \in 0 .. 1
      BY <2>2
    <3> QED
      BY <2>2, <3>1
  <2> QED
    BY Kinds, <2>1, <2>2
<1>2. m = 0 => m + 1 = 1 /\ s = First(c) /\ n = FirstLen(c)
  BY DEF First, FirstLen
<1>3. m = 1 => m + 1 = 2 /\ s = Second(c) /\ n = SecondLen(c)
  BY DEF Second, SecondLen
<1>4. IsSeq(s)
  <2>1. m = 0 => IsSeq(First(c))
    BY Kinds DEF First
  <2>2. m = 1 /\ Len(c.says) = 2 => IsSeq(Second(c))
    BY Kinds DEF Second
  <2> QED
    BY <1>1, <1>2, <1>3, <2>1, <2>2
<1> HIDE DEF s
<1>5. n \in Nat /\ s = [i \in 1 .. n |-> s[i]] /\ FirstLen(c) \in Nat
  BY <1>4, Lengths DEF IsSeq
<1>6. SaidLen(c, m) \in Nat /\ SaidLen(c, m + 1) = SaidLen(c, m) + n
  <2>1. CASE m = 0
    <3>1. SaidLen(c, m) = 0 /\ SaidLen(c, m + 1) = n
      BY <1>2, <2>1, SaidLens, Zenon
    <3> QED
      BY <1>5, <3>1
  <2>2. CASE m = 1
    <3>1. SaidLen(c, m) = FirstLen(c) /\ SaidLen(c, m + 1) = FirstLen(c) + n
      BY <1>3, <2>2, SaidLens, Zenon
    <3> QED
      BY <1>5, <3>1
  <2> QED
    BY <1>1, <2>1, <2>2
<1>7. ASSUME NEW i \in 1 .. n PROVE s[i] = Script(c, SaidLen(c, m) + i)
  <2>1. CASE m = 0
    <3>1. SaidLen(c, m) = 0
      BY <2>1, SaidLens, Zenon
    <3>2. SaidLen(c, m) + i = i /\ i <= FirstLen(c)
      BY <1>2, <1>5, <2>1, <3>1
    <3> QED
      BY <1>2, <2>1, <3>2 DEF Script
  <2>2. CASE m = 1
    <3>1. SaidLen(c, m) = FirstLen(c)
      BY <2>2, SaidLens, Zenon
    <3>2. FirstLen(c) + i > FirstLen(c) /\ FirstLen(c) + i - FirstLen(c) = i
      BY <1>5
    <3> QED
      BY <1>3, <1>5, <2>2, <3>1, <3>2 DEF Script
  <2> QED
    BY <1>1, <2>1, <2>2
<1>8. ASSUME NEW i \in 1 .. n PROVE s[i] \in Symbol
  <2>1. SaidLen(c, m) + i \in Nat \ {0}
    BY <1>5, <1>6
  <2> QED
    BY <1>7, <2>1 DEF Symbol
<1>9. s \in [1 .. n -> Symbol]
  <2> HIDE DEF n
  <2> QED
    BY <1>5, <1>8
<1>10. s \in Seq(Symbol)
  <2> HIDE DEF n
  <2> QED
    BY <1>5, <1>9
<1> QED
  BY <1>1, <1>2, <1>3, <1>5, <1>6, <1>7, <1>10 DEF s

\* ReadFull takes the next n bytes of the script.
LEMMA CarriesRead ==
  ASSUME NEW c \in Clients, NEW s, NEW end, NEW rep, NEW w, NEW k, NEW n \in Nat,
         Carries(c, s, end, rep, w, k), n <= Len(w),
         NEW rep2, rep2 = rep \/ rep2 # <<>>
  PROVE  /\ Carries(c, s, end, rep2, Rest(w, n), k + n)
         /\ k + n <= Total(c) /\ k + n \in Nat
<1>1. w \in Seq(Symbol) /\ Len(w) \in Nat /\ k \in Nat
  BY LenProperties DEF Carries
<1>3. /\ Rest(w, n) \in Seq(Symbol) /\ Len(Rest(w, n)) = Len(w) - n
      /\ \A i \in 1 .. Len(w) - n : Rest(w, n)[i] = w[n + i]
  BY <1>1, SubSeqProperties DEF Rest
<1>4. ASSUME NEW i \in 1 .. Len(w) - n PROVE Rest(w, n)[i] = Script(c, k + n + i)
  <2>1. n + i \in 1 .. Len(w) /\ k + (n + i) = k + n + i
    BY <1>1
  <2> QED
    BY <1>3, <2>1 DEF Carries
<1>5. k + n + (Len(w) - n) = k + Len(w)
  BY <1>1
<1>6. Total(c) \in Nat
  BY Lengths
<1>8. rep2 = <<>> => rep = <<>>
  OBVIOUS
<1> HIDE DEF Rest
<1>9. Carries(c, s, end, rep2, Rest(w, n), k + n)
  BY <1>1, <1>3, <1>4, <1>5, <1>8 DEF Carries
<1>10. k + n <= Total(c)
  BY <1>1, <1>6 DEF Carries
<1> QED
  BY <1>1, <1>9, <1>10

LEMMA CarriesBuf ==
  ASSUME NEW c, NEW s, NEW end, NEW rep, NEW w, NEW k, NEW n \in Nat,
         Carries(c, s, end, rep, w, k), n <= Len(w)
  PROVE  /\ SubSeq(w, 1, n) \in Seq(Symbol) /\ Len(SubSeq(w, 1, n)) = n
         /\ \A i \in 1 .. n : SubSeq(w, 1, n)[i] = Script(c, k + i)
<1>1. w \in Seq(Symbol) /\ Len(w) \in Nat /\ k \in Nat
  BY LenProperties DEF Carries
<1>2. /\ SubSeq(w, 1, n) \in Seq(Symbol) /\ Len(SubSeq(w, 1, n)) = n
      /\ \A i \in 1 .. n : SubSeq(w, 1, n)[i] = w[i]
  BY <1>1, SubSeqProperties
<1>3. ASSUME NEW i \in 1 .. n PROVE w[i] = Script(c, k + i)
  BY <1>1 DEF Carries
<1> QED
  BY <1>2, <1>3

\* The client sends n bytes of its next message, or the whole of it.
LEMMA CarriesMore ==
  ASSUME NEW c \in Clients, NEW s \in 0 .. Len(c.says) - 1, NEW rep, NEW w, NEW k,
         Carries(c, s, "open", rep, w, k), c.eager \/ Len(rep) >= s,
         NEW n \in 0 .. Len(c.says[s + 1])
  PROVE  /\ n < Len(c.says[s + 1]) =>
              Carries(c, s, "fin", rep, w \o SubSeq(c.says[s + 1], 1, n), k)
         /\ n = Len(c.says[s + 1]) => Carries(c, s + 1, "open", rep, w \o c.says[s + 1], k)
<1> DEFINE m == c.says[s + 1]
           t == SubSeq(m, 1, n)
           u == w \o t
<1>1. /\ s \in Nat /\ s # Len(c.says) /\ (s = 0 \/ (s = 1 /\ Len(c.says) = 2))
      /\ s = 0 => Len(m) = FirstLen(c)
  <2>1. (s = 0 /\ Len(m) = FirstLen(c)) \/ (s = 1 /\ Len(c.says) = 2)
    BY Messages DEF FirstLen
  <2>2. Len(c.says) = 1 \/ Len(c.says) = 2
    BY Kinds
  <2>3. CASE s = 0
    BY <2>1, <2>2, <2>3
  <2>4. CASE s = 1
    BY <2>1, <2>4
  <2> QED
    BY <2>1, <2>3, <2>4
<1>2. /\ m \in Seq(Symbol) /\ Len(m) \in Nat /\ SaidLen(c, s) \in Nat
      /\ \A i \in 1 .. Len(m) : m[i] = Script(c, SaidLen(c, s) + i)
      /\ SaidLen(c, s + 1) = SaidLen(c, s) + Len(m)
  BY Messages
<1>3. /\ w \in Seq(Symbol) /\ Len(w) \in Nat /\ k \in Nat
      /\ \A i \in 1 .. Len(w) : w[i] = Script(c, k + i)
      /\ k + Len(w) = SaidLen(c, s)
  BY LenProperties DEF Carries
<1> HIDE DEF m
<1>4. n \in Nat /\ n <= Len(m)
  BY <1>2 DEF m
<1>5. t \in Seq(Symbol) /\ Len(t) = n /\ \A i \in 1 .. n : t[i] = m[i]
  BY <1>2, <1>4, SubSeqProperties
<1> HIDE DEF t
<1>6. /\ u \in Seq(Symbol) /\ Len(u) = Len(w) + n
      /\ \A i \in 1 .. Len(w) + n : u[i] = IF i <= Len(w) THEN w[i] ELSE t[i - Len(w)]
  BY <1>3, <1>4, <1>5, ConcatProperties
<1> HIDE DEF u
<1>7. ASSUME NEW i \in 1 .. Len(u) PROVE u[i] = Script(c, k + i)
  <2>1. CASE i <= Len(w)
    BY <1>3, <1>6, <2>1
  <2>2. CASE i > Len(w)
    <3>1. i - Len(w) \in 1 .. n /\ i - Len(w) \in 1 .. Len(m)
      BY <1>3, <1>4, <1>6, <2>2
    <3>2. SaidLen(c, s) + (i - Len(w)) = k + i
      BY <1>3, <3>1
    <3>3. u[i] = t[i - Len(w)]
      BY <1>3, <1>4, <1>6, <2>2
    <3>4. t[i - Len(w)] = m[i - Len(w)]
      BY <1>5, <3>1
    <3>5. m[i - Len(w)] = Script(c, SaidLen(c, s) + (i - Len(w)))
      BY <1>2, <3>1
    <3> QED
      BY <3>2, <3>3, <3>4, <3>5
  <2> QED
    BY <1>3, <1>6, <2>1, <2>2
<1>8. k + Len(u) = SaidLen(c, s) + n
  BY <1>3, <1>4, <1>6
<1>9. Total(c) \in Nat /\ SaidLen(c, s + 1) <= Total(c)
  <2>1. CASE s = 0
    <3>1. s + 1 = 1
      BY <2>1
    <3>2. SaidLen(c, s + 1) = FirstLen(c)
      BY <3>1, SaidLens, Zenon
    <3> QED
      BY <3>2, Kinds, Lengths
  <2>2. CASE s = 1 /\ Len(c.says) = 2
    <3>1. s + 1 = 2
      BY <2>2
    <3>2. SaidLen(c, s + 1) = Total(c)
      BY <2>2, <3>1, Zenon DEF Total
    <3> QED
      BY <3>2, Lengths
  <2> QED
    BY <1>1, <2>1, <2>2
<1>10. ~c.eager /\ rep = <<>> => s = 0 /\ SaidLen(c, s) + n <= FirstLen(c)
  <2> SUFFICES ASSUME ~c.eager, rep = <<>> PROVE s = 0 /\ SaidLen(c, s) + n <= FirstLen(c)
    OBVIOUS
  <2>1. s = 0
    BY <1>1, EmptySeq
  <2> QED
    <3>1. SaidLen(c, s) = 0
      BY <2>1, SaidLens, Zenon
    <3> QED
      BY <1>1, <1>4, <2>1, <3>1
<1>11. n < Len(m) => Carries(c, s, "fin", rep, u, k)
  <2> SUFFICES ASSUME n < Len(m) PROVE Carries(c, s, "fin", rep, u, k)
    OBVIOUS
  <2>1. k + Len(u) <= Total(c)
    BY <1>2, <1>4, <1>8, <1>9
  <2> QED
    BY <1>1, <1>3, <1>6, <1>7, <1>8, <1>10, <2>1 DEF Carries
<1>12. n = Len(m) => Carries(c, s + 1, "open", rep, w \o m, k)
  <2> SUFFICES ASSUME n = Len(m) PROVE Carries(c, s + 1, "open", rep, w \o m, k)
    OBVIOUS
  <2>1. \A i \in 1 .. Len(m) : t[i] = m[i]
    BY <1>5
  <2>2. t = m
    BY <1>2, <1>5, <2>1, SeqEqual
  <2>3. k + Len(u) = SaidLen(c, s + 1) /\ k + Len(u) <= Total(c)
    BY <1>2, <1>8, <1>9
  <2> QED
    BY <1>3, <1>6, <1>7, <1>8, <1>10, <2>2, <2>3 DEF Carries, u
<1> QED
  BY <1>11, <1>12 DEF u, t, m

-----------------------------------------------------------------------------
(* What the scripts say *)

\* A greeting with its methods and a request.
LEMMA SocksSays ==
  ASSUME NEW c \in Clients, c.kind = "plain"
  PROVE  /\ NMethods(c) \in 0 .. 255 /\ FirstLen(c) = 2 + NMethods(c)
         /\ Script(c, 1) = c.asks.version /\ c.asks.version \in {4, 5}
         /\ Script(c, 1) = SocksByte <=> c.asks.version = 5
         /\ OffersNone(c) <=> 0 \in c.asks.methods
         /\ Second(c) \in Seq(Byte) /\ SecondLen(c) \in Nat /\ SecondLen(c) >= 6
         /\ Total(c) = FirstLen(c) + SecondLen(c)
         /\ \A i \in 1 .. SecondLen(c) :
              Script(c, FirstLen(c) + i) = Second(c)[i] /\ Second(c)[i] \in Byte
<1> DEFINE g == First(c)
           r == Second(c)
<1>1. SocksScript(c) /\ Len(c.says) = 2
  BY Kinds
<1>2. /\ g \in Seq(Byte) /\ Len(g) >= 2 /\ Len(g) = 2 + g[2]
      /\ g[1] = c.asks.version /\ c.asks.version \in {4, 5}
      /\ c.asks.methods = {g[i] : i \in 3 .. Len(g)}
      /\ r \in Seq(Byte) /\ Len(r) >= 6
  BY <1>1 DEF SocksScript, First, Second
<1>3. /\ Len(g) \in Nat /\ Len(r) \in Nat /\ Total(c) = Len(g) + Len(r)
      /\ \A i \in 1 .. Len(g) : g[i] \in Byte
      /\ \A i \in 1 .. Len(r) : r[i] \in Byte
      /\ FirstLen(c) = Len(g) /\ SecondLen(c) = Len(r)
  BY <1>1, <1>2, Lengths, ElementOfSeq DEF FirstLen, SecondLen
<1>4. ASSUME NEW i \in 1 .. Len(g) PROVE Script(c, i) = g[i]
  BY <1>3 DEF Script
<1>5. ASSUME NEW i \in 1 .. Len(r) PROVE Script(c, Len(g) + i) = r[i]
  <2>1. ~(Len(g) + i <= Len(g)) /\ Len(g) + i - Len(g) = i
    BY <1>3
  <2> QED
    BY <1>3, <2>1 DEF Script
<1> HIDE DEF g, r
<1>6. NMethods(c) = g[2] /\ g[2] \in Byte /\ Script(c, 1) = g[1]
  BY <1>2, <1>3, <1>4 DEF NMethods
<1>7. OffersNone(c) <=> 0 \in {g[i] : i \in 3 .. Len(g)}
  <2>1. ASSUME NEW i \in 3 .. Len(g) PROVE Script(c, i) = g[i]
    BY <1>3, <1>4
  <2> QED
    BY <1>2, <1>6, <2>1 DEF OffersNone
<1>8. Script(c, 1) = SocksByte <=> c.asks.version = 5
  BY <1>2, <1>6 DEF SocksByte
<1> QED
  BY <1>2, <1>3, <1>5, <1>6, <1>7, <1>8 DEF g, r, Byte

LEMMA SocksLens ==
  ASSUME NEW c \in Clients, c.kind = "plain"
  PROVE  /\ NMethods(c) \in 0 .. 255 /\ FirstLen(c) = 2 + NMethods(c)
         /\ SecondLen(c) \in Nat /\ SecondLen(c) >= 6 /\ Second(c)[5] \in Nat
         /\ Total(c) = FirstLen(c) + SecondLen(c)
         /\ Total(c) >= 8 + NMethods(c) /\ Total(c) \in Nat
<1>1. /\ NMethods(c) \in 0 .. 255 /\ FirstLen(c) = 2 + NMethods(c)
      /\ SecondLen(c) \in Nat /\ SecondLen(c) >= 6
      /\ Total(c) = FirstLen(c) + SecondLen(c)
  BY SocksSays, Zenon
<1>2. Second(c)[5] \in Nat
  <2>1. 5 \in 1 .. SecondLen(c)
    BY <1>1
  <2>2. Second(c)[5] \in Byte
    BY <2>1, SocksSays, Zenon
  <2> QED
    BY <2>2 DEF Byte
<1>3. Total(c) >= 8 + NMethods(c) /\ Total(c) \in Nat
  BY <1>1
<1> QED
  BY <1>1, <1>2, <1>3

\* Its request.
LEMMA SocksRequest ==
  ASSUME NEW c \in Clients, c.kind = "plain"
  PROVE  LET r == Second(c) IN
         /\ r[1] = 5 /\ r[2] = c.asks.cmd /\ r[3] = 0 /\ r[4] = c.asks.atyp
         /\ r[4] = 1 => SecondLen(c) = 10 /\ c.asks.host = SubSeq(r, 5, 8)
         /\ r[4] = 3 => SecondLen(c) = 7 + r[5] /\ c.asks.host = SubSeq(r, 6, 5 + r[5])
         /\ c.asks.port = U16(r, SecondLen(c) - 2)
  BY Kinds DEF SocksScript, Second, SecondLen

LEMMA OneMessage ==
  ASSUME NEW c \in Clients, c.kind # "plain"
  PROVE  /\ Len(c.says) = 1 /\ c.port = "main" /\ Total(c) = FirstLen(c) /\ Total(c) \in Nat
         /\ \A i \in 1 .. Total(c) : Script(c, i) = First(c)[i]
<1>1. Len(c.says) = 1 /\ c.port = "main"
  BY Kinds DEF ObfsScript, TlsScript
<1>2. Total(c) = FirstLen(c) /\ Total(c) \in Nat
  BY <1>1, Lengths
<1>3. ASSUME NEW i \in 1 .. Total(c) PROVE Script(c, i) = First(c)[i]
  BY <1>2, <1>3 DEF Script, First, FirstLen
<1> QED
  BY <1>1, <1>2, <1>3

LEMMA Sizes == InitLen = 2 * Half /\ Half \in 4 .. 255 /\ InitLen \in 8 .. 510
<1>1. InitLen \in Nat /\ InitLen = 2 * Half /\ Half \in 4 .. 255
  BY EntryAssumption, FramingAssumption DEF FramingAssumption
<1> QED
  BY <1>1

LEMMA ObfsSays ==
  ASSUME NEW c \in Clients, c.kind = "obfs"
  PROVE  /\ Total(c) = InitLen /\ \A i \in 1 .. InitLen - 3 : Script(c, i) \in Byte
         /\ Script(c, InitLen - 2) = c.asks.raw /\ Script(c, InitLen - 1) = c.asks.tag
         /\ Script(c, InitLen) = c.asks.dc /\ c.asks.dc \in Int
         /\ c.asks.sni = <<>> /\ c.asks.hello
         /\ Script(c, 1) = SocksByte =>
              \A k \in {Script(c, 2) + 3, 5} : k <= InitLen - 3 => Script(c, k) # SocksByte
<1> DEFINE init == First(c)
<1>1. ObfsScript(c)
  BY Kinds
<1>2. /\ Len(init) = InitLen /\ \A i \in 1 .. InitLen - 3 : init[i] \in Byte
      /\ init[InitLen - 2] = c.asks.raw /\ init[InitLen - 1] = c.asks.tag
      /\ init[InitLen] = c.asks.dc /\ c.asks.dc \in Int
      /\ c.asks.sni = <<>> /\ c.asks.hello
      /\ init[1] = SocksByte =>
           \A k \in {init[2] + 3, 5} : k <= InitLen - 3 => init[k] # SocksByte
  BY <1>1 DEF ObfsScript, First
<1>3. Total(c) = InitLen /\ \A i \in 1 .. InitLen : Script(c, i) = init[i]
  BY <1>2, OneMessage DEF FirstLen
<1> HIDE DEF init
<1>4. /\ \A i \in 1 .. InitLen - 3 : Script(c, i) = init[i] /\ init[i] \in Byte
      /\ Script(c, InitLen - 2) = init[InitLen - 2] /\ Script(c, InitLen - 1) = init[InitLen - 1]
      /\ Script(c, InitLen) = init[InitLen] /\ Script(c, 1) = init[1] /\ Script(c, 2) = init[2]
  BY <1>2, <1>3, Sizes
<1>5. ASSUME Script(c, 1) = SocksByte, NEW k \in {Script(c, 2) + 3, 5}, k <= InitLen - 3
      PROVE  Script(c, k) # SocksByte
  <2>1. init[2] \in Nat
    BY <1>4, Sizes DEF Byte
  <2>2. k \in 1 .. InitLen - 3
    BY <1>4, <1>5, <2>1, Sizes
  <2> QED
    BY <1>2, <1>4, <1>5, <2>2
<1> QED
  BY <1>2, <1>3, <1>4, <1>5

LEMMA TlsSays ==
  ASSUME NEW c \in Clients, c.kind = "tls"
  PROVE  /\ Script(c, 1) = TlsByte /\ Script(c, 4) \in Byte /\ Script(c, 5) \in Byte
         /\ Total(c) = 5 + 256 * Script(c, 4) + Script(c, 5)
         /\ First(c) \in Seq(Symbol)
<1> DEFINE hello == First(c)
<1>1. TlsScript(c)
  BY Kinds
<1>2. /\ Len(hello) >= 5 /\ \A i \in 1 .. 5 : hello[i] \in Byte
      /\ hello[1] = TlsByte /\ Len(hello) = 5 + U16(hello, 3)
  BY <1>1 DEF TlsScript, First
<1>3. U16(hello, 3) = 256 * hello[4] + hello[5]
  BY DEF U16
<1>4. /\ Total(c) = Len(hello) /\ Len(hello) \in Nat
      /\ \A i \in 1 .. Len(hello) : Script(c, i) = hello[i]
  BY OneMessage DEF FirstLen
<1>5. First(c) \in Seq(Symbol)
  <2>1. 0 \in 0 .. Len(c.says) - 1 /\ 0 + 1 = 1
    BY OneMessage
  <2>2. c.says[0 + 1] \in Seq(Symbol)
    BY <2>1, Messages
  <2> QED
    BY <2>1, <2>2 DEF First
<1> HIDE DEF hello
<1>6. hello[4] \in 0 .. 255 /\ hello[5] \in 0 .. 255
  BY <1>2 DEF Byte
<1>7. Script(c, 1) = hello[1] /\ Script(c, 4) = hello[4] /\ Script(c, 5) = hello[5]
  BY <1>2, <1>4
<1>8. Total(c) = 5 + 256 * hello[4] + hello[5]
  <2>1. \A x, y \in 0 .. 255 : 5 + (256 * x + y) = 5 + 256 * x + y
    OBVIOUS
  <2>2. Total(c) = 5 + (256 * hello[4] + hello[5])
    BY <1>2, <1>3, <1>4, Zenon
  <2> QED
    BY <1>6, <2>1, <2>2, Zenon
<1>9. First(c)[1] = TlsByte /\ Script(c, 4) \in Byte /\ Script(c, 5) \in Byte
  BY <1>2, <1>7 DEF hello
<1> QED
  BY <1>5, <1>7, <1>8, <1>9 DEF hello

-----------------------------------------------------------------------------
(* Waiting, closing, and the client *)

LEMMA CarriesLen ==
  ASSUME NEW c \in Clients, NEW s, NEW end, NEW rep, NEW w, NEW k, Carries(c, s, end, rep, w, k)
  PROVE  /\ w \in Seq(Symbol) /\ Len(w) \in Nat /\ k \in Nat /\ k + Len(w) <= Total(c)
         /\ s = Len(c.says) => k + Len(w) = Total(c)
         /\ \A i \in 1 .. Len(w) : w[i] = Script(c, k + i)
  BY LenProperties DEF Carries, Total

\* The bytes of peek are those of the script.
LEMMA PeekLens ==
  ASSUME Common
  PROVE  /\ Peeked \in Nat /\ Peeked <= 4 /\ client \in Clients /\ kind = client.kind
         /\ Begins(peek, client)
<1>1. peek \in Seq(Symbol)
  BY DEF Common, PeekOK, Begins
<1>2. Peeked \in Nat
  BY <1>1, LenProperties DEF Peeked
<1> QED
  BY <1>2 DEF Common, PeekOK, PeekLen

LEMMA FirstByte ==
  ASSUME NEW c \in Clients
  PROVE  /\ Script(c, 1) \in Byte /\ Total(c) \in Nat /\ Total(c) >= 5
         /\ FirstLen(c) \in Nat /\ FirstLen(c) >= 2
         /\ c.kind = "tls" => Script(c, 1) = TlsByte
         /\ c.kind = "plain" => Script(c, 1) \in {4, 5} /\ Total(c) >= 8
         /\ c.kind = "obfs" => Total(c) = InitLen
<1>1. CASE c.kind = "plain"
  <2>1. Script(c, 1) = c.asks.version /\ c.asks.version \in {4, 5}
    BY <1>1, SocksSays
  <2>2. Total(c) \in Nat /\ Total(c) >= 8 /\ FirstLen(c) \in Nat /\ FirstLen(c) >= 2
    BY <1>1, SocksLens
  <2> QED
    BY <1>1, <2>1, <2>2 DEF Byte
<1>2. CASE c.kind = "obfs"
  <2>1. Total(c) = InitLen /\ FirstLen(c) = InitLen /\ Script(c, 1) \in Byte
    BY <1>2, ObfsSays, OneMessage, Sizes
  <2> QED
    BY <1>2, <2>1, Sizes
<1>3. CASE c.kind = "tls"
  <2>1. \A x, y \in 0 .. 255 : 5 + 256 * x + y \in Nat /\ 5 + 256 * x + y >= 5
    OBVIOUS
  <2>2. Total(c) \in Nat /\ Total(c) >= 5
    <3>1. Script(c, 4) \in 0 .. 255 /\ Script(c, 5) \in 0 .. 255
      BY <1>3, TlsSays DEF Byte
    <3>2. Total(c) = 5 + 256 * Script(c, 4) + Script(c, 5)
      BY <1>3, TlsSays, Zenon
    <3> QED
      BY ONLY <2>1, <3>1, <3>2
  <2>3. FirstLen(c) = Total(c)
    BY <1>3, OneMessage
  <2> QED
    BY <1>3, <2>2, <2>3, TlsSays DEF Byte, TlsByte
<1> QED
  BY <1>1, <1>2, <1>3, Kinds

\* Where the request begins.
LEMMA UsedLen ==
  ASSUME NEW c, NMethods(c) \in 0 .. 255, NEW n \in Nat, n <= 4
  PROVE  /\ Used(c, n) \in Nat
         /\ Used(c, n) = 2 + NMethods(c) \/ (Used(c, n) = n /\ n > 2 + NMethods(c))
  BY DEF Used

LEMMA MissingSum ==
  ASSUME NEW m \in 0 .. 255, NEW n \in Nat, n >= 2, n <= 4,
         NEW d, d = IF m > n - 2 THEN m - (n - 2) ELSE 0
  PROVE  d \in 0 .. 255 /\ n + d = IF n > 2 + m THEN n ELSE 2 + m
  OBVIOUS

\* What of the method list is still to be read.
LEMMA MissingLen ==
  ASSUME NEW c, NEW p, Begins(p, c), NMethods(c) \in 0 .. 255,
         NEW n \in Nat, n = Len(p), n >= 2, n <= 4
  PROVE  Missing(p) \in 0 .. 255 /\ n + Missing(p) = Used(c, n) /\ p[2] = NMethods(c)
<1> DEFINE m == NMethods(c)
<1>1. p[2] = m
  <2>1. 2 \in 1 .. n
    OBVIOUS
  <2> QED
    BY <2>1, Zenon DEF Begins, NMethods
<1>2. Missing(p) = (IF m > n - 2 THEN m - (n - 2) ELSE 0) /\ m \in 0 .. 255
  BY <1>1, Zenon DEF Missing
<1> HIDE DEF m
<1>3. Missing(p) \in 0 .. 255 /\ n + Missing(p) = IF n > 2 + m THEN n ELSE 2 + m
  <2>1. n \in Nat /\ n >= 2 /\ n <= 4
    OBVIOUS
  <2> QED
    BY ONLY <1>2, <2>1, MissingSum
<1> QED
  BY <1>1, <1>3, Zenon DEF m, Used

\* A client whose first byte is that of SOCKS5, and its method count.
LEMMA FirstIsSocks ==
  ASSUME NEW c \in Clients, Script(c, 1) = SocksByte
  PROVE  /\ c.kind \in {"plain", "obfs"} /\ NMethods(c) \in 0 .. 255
         /\ c.kind = "obfs" => First(c)[1] = SocksByte
         /\ c.kind = "plain" => c.asks.version = 5
<1>1. c.kind # "tls"
  BY FirstByte DEF SocksByte, TlsByte
<1>2. CASE c.kind = "plain"
  BY <1>2, SocksSays
<1>3. CASE c.kind = "obfs"
  <2>1. Script(c, 1) = First(c)[1]
    BY <1>3, OneMessage, ObfsSays, Sizes
  <2>2. Script(c, 2) \in Byte
    BY <1>3, ObfsSays, Sizes
  <2> QED
    BY <1>3, <2>1, <2>2 DEF NMethods, Byte
<1> QED
  BY <1>1, <1>2, <1>3, Kinds

LEMMA OffersOne ==
  ASSUME NEW c \in Clients, Script(c, 1) = SocksByte, OffersNone(c)
  PROVE  NMethods(c) \in 1 .. 255
<1> DEFINE n == NMethods(c)
<1>1. n \in 0 .. 255
  BY FirstIsSocks
<1>2. PICK i \in 3 .. 2 + n : TRUE
  BY Zenon DEF OffersNone
<1> HIDE DEF n
<1>3. n >= 1
  BY <1>1, <1>2
<1> QED
  BY <1>1, <1>3 DEF n

\* An obfuscated client that is taken for another one.
LEMMA Mistaken ==
  ASSUME NEW c \in Clients, c.kind = "obfs", Script(c, 1) \in Foreign \cup {SocksByte, TlsByte}
  PROVE  TakenForAnother(c)
<1>1. Total(c) = InitLen /\ \A i \in 1 .. Total(c) : Script(c, i) = First(c)[i]
  BY OneMessage, ObfsSays
<1>2. Script(c, 1) = First(c)[1]
  BY <1>1, Sizes
<1> QED
  BY <1>2 DEF TakenForAnother, First

\* The handler waits only for what the client sends, unless there is a cause to refuse it.
LEMMA Waits ==
  ASSUME Common, Stage, Starves
  PROVE  CauseToRefuse
<1> DEFINE c == client
           r == Second(c)
<1>1. /\ client \in Clients /\ kind = client.kind /\ Begins(peek, c)
      /\ Peeked \in Nat /\ Peeked <= 4
  BY PeekLens
<1>2. /\ Total(c) \in Nat /\ Total(c) >= 5 /\ (kind = "plain" => Total(c) >= 8)
  BY <1>1, FirstByte
<1>3. ASSUME NEW k, HasRead(k), Total(c) >= k + need, need \in Nat PROVE FALSE
  BY <1>1, <1>3, CarriesLen DEF HasRead, Starves
<1>4. CASE at = "peek"
  BY <1>1, <1>2, <1>3, <1>4 DEF Stage, AtPeek
<1>5. CASE at = "greeting"
  <2>1. Peeked + need = 2 /\ HasRead(Peeked) /\ need \in Nat
    BY <1>5 DEF Stage, AtGreeting, Common, Word
  <2> QED
    BY <1>1, <1>2, <1>3, <2>1
<1>6. CASE at = "methods"
  <2>1. /\ Peeked >= 2 /\ Script(c, 1) = SocksByte /\ need = Missing(peek)
        /\ HasRead(Peeked)
    BY <1>6 DEF Stage, AtMethods
  <2>2. NMethods(c) \in 0 .. 255 /\ kind \in {"plain", "obfs"}
    BY <1>1, <2>1, FirstIsSocks
  <2>3. /\ need \in Nat /\ Peeked + need = Used(c, Peeked)
        /\ Used(c, Peeked) = 2 + NMethods(c) \/ Used(c, Peeked) = Peeked
    <3>1. Missing(peek) \in 0 .. 255 /\ Peeked + Missing(peek) = Used(c, Peeked)
      BY <1>1, <2>1, <2>2, MissingLen DEF Peeked
    <3> QED
      BY <1>1, <2>1, <2>2, <3>1, UsedLen
  <2>4. CASE kind = "plain"
    <3>1. Total(c) >= 8 + NMethods(c)
      BY <1>1, <2>4, SocksLens
    <3>2. Total(c) >= Peeked + need
      BY <1>1, <1>2, <2>2, <2>3, <2>4, <3>1
    <3> QED
      BY <1>3, <2>1, <2>3, <3>2
  <2> QED
    BY <1>1, <2>1, <2>2, <2>4, Mistaken DEF CauseToRefuse
<1>7. CASE at = "request"
  <2>1. /\ Peeked >= 2 /\ Script(c, 1) = SocksByte /\ need = 4
        /\ HasRead(Used(c, Peeked)) /\ OffersNone(c)
    BY <1>7 DEF Stage, AtRequest
  <2>2. NMethods(c) \in 0 .. 255 /\ kind \in {"plain", "obfs"}
    BY <1>1, <2>1, FirstIsSocks
  <2>3. NMethods(c) >= 1
    BY <1>1, <2>1, OffersOne
  <2>4. Used(c, Peeked) = 2 + NMethods(c) \/ (Used(c, Peeked) = 4 /\ NMethods(c) = 1)
    BY <1>1, <2>2, <2>3, UsedLen
  <2>5. CASE kind = "plain"
    <3>1. Total(c) >= 8 + NMethods(c)
      BY <1>1, <2>5, SocksLens
    <3>2. Total(c) >= Used(c, Peeked) + need
      BY <1>2, <2>1, <2>2, <2>4, <3>1
    <3> QED
      BY <1>3, <2>1, <3>2
  <2> QED
    BY <1>1, <2>1, <2>2, <2>5, Mistaken DEF CauseToRefuse
<1>8. CASE at \in {"ipv4", "length", "domain", "ipv6", "port"}
  <2>1. SocksSoFar /\ kind = "plain"
    BY <1>8 DEF Stage, AtAddress, AtPort, SocksSoFar
  <2>2. /\ FirstLen(c) \in Nat /\ SecondLen(c) \in Nat /\ SecondLen(c) >= 6
        /\ Total(c) = FirstLen(c) + SecondLen(c) /\ r[5] \in Nat
    <3>1. NMethods(c) \in 0 .. 255 /\ FirstLen(c) = 2 + NMethods(c)
      BY <1>1, <2>1, SocksLens, Zenon
    <3>2. r[5] \in Nat
      BY <1>1, <2>1, SocksLens, Zenon
    <3>3. /\ SecondLen(c) \in Nat /\ SecondLen(c) >= 6
          /\ Total(c) = FirstLen(c) + SecondLen(c)
      BY <1>1, <2>1, SocksLens, Zenon
    <3> QED
      BY <3>1, <3>2, <3>3
  <2>3. /\ r[4] = 1 => SecondLen(c) = 10
        /\ r[4] = 3 => SecondLen(c) = 7 + r[5]
        /\ r[4] = c.asks.atyp
    BY <1>1, <2>1, SocksRequest
  <2>4. CASE at = "ipv4"
    <3>1. r[4] = 1 /\ need = 4 /\ HasRead(FirstLen(c) + 4)
      BY <2>4 DEF Stage, AtAddress
    <3> QED
      BY <1>3, <2>2, <2>3, <3>1
  <2>5. CASE at = "length"
    <3>1. r[4] = 3 /\ need = 1 /\ HasRead(FirstLen(c) + 4)
      BY <2>5 DEF Stage, AtAddress
    <3> QED
      BY <1>3, <2>2, <2>3, <3>1
  <2>6. CASE at = "domain"
    <3>1. r[4] = 3 /\ need = r[5] /\ HasRead(FirstLen(c) + 5)
      BY <2>6 DEF Stage, AtAddress
    <3> QED
      BY <1>3, <2>2, <2>3, <3>1
  <2>7. CASE at = "port"
    <3>1. need = 2 /\ HasRead(Total(c) - 2)
      BY <2>7 DEF Stage, AtPort
    <3> QED
      BY <1>2, <1>3, <2>2, <3>1
  <2>8. CASE at = "ipv6"
    <3>1. c.asks.atyp = 4
      BY <2>3, <2>8 DEF Stage, AtAddress
    <3> QED
      BY <1>1, <2>1, <3>1 DEF CauseToRefuse, Acceptable
  <2> QED
    BY <1>8, <2>4, <2>5, <2>6, <2>7, <2>8
<1>9. CASE at = "init"
  <2>1. kind = "obfs" /\ need = InitLen /\ HasRead(0) /\ InitLen \in Nat
    BY <1>9, Sizes DEF Stage, AtInit
  <2>2. Total(c) = InitLen
    BY <1>1, <2>1, ObfsSays
  <2>3. Total(c) >= 0 + need
    BY <2>1, <2>2
  <2> QED
    BY <1>3, <2>1, <2>3
<1>10. CASE at \in {"header", "body"}
  <2>1. kind \in {"obfs", "tls"} /\ Script(c, 1) = TlsByte
    BY <1>10 DEF Stage, AtHeader, AtBody
  <2>2. CASE kind = "tls"
    <3>1. /\ Script(c, 4) \in 0 .. 255 /\ Script(c, 5) \in 0 .. 255
          /\ Total(c) = 5 + 256 * Script(c, 4) + Script(c, 5)
      BY <1>1, <2>2, TlsSays DEF Byte
    <3>2. \/ need = 5 /\ HasRead(0)
          \/ need = 256 * Script(c, 4) + Script(c, 5) /\ HasRead(5)
      BY <1>10 DEF Stage, AtHeader, AtBody
    <3>3. ASSUME NEW x \in 0 .. 255, NEW y \in 0 .. 255, NEW t, t = 5 + 256 * x + y,
                 NEW n, n = 256 * x + y
          PROVE  n \in Nat /\ t >= 5 + n
      BY <3>3
    <3>4. CASE need = 256 * Script(c, 4) + Script(c, 5) /\ HasRead(5)
      <4>1. need \in Nat /\ Total(c) >= 5 + need
        BY <3>1, <3>3, <3>4
      <4> QED
        BY <1>3, <3>4, <4>1
    <3>5. CASE need = 5 /\ HasRead(0)
      BY <1>2, <1>3, <3>5
    <3> QED
      BY <3>2, <3>4, <3>5
  <2> QED
    BY <1>1, <2>1, <2>2, Mistaken DEF CauseToRefuse
<1> QED
  BY <1>4, <1>5, <1>6, <1>7, <1>8, <1>9, <1>10 DEF Common, Points, Negotiating, Starves

LEMMA Closes ==
  ASSUME Common, UNCHANGED <<client, sent, kind>>, PeekOK', need' \in Word,
         replies' \in Seq(Seq(Nat)), Len(replies') <= 2,
         at' = "closed", why' \in {"refused", "lost", "unwritten", "late"},
         why' = "refused" \/ (why' = "lost" /\ sent = Len(client.says)) => CauseToRefuse'
  PROVE  NegotiationInv'
<1>1. Common'
  <2>1. client' \in Clients /\ kind' = client'.kind /\ sent' \in 0 .. Len(client'.says)
    BY DEF Common
  <2>2. at' \in Points /\ why' \in {"open", "refused", "lost", "unwritten", "late"}
        /\ (why' # "open" <=> at' = "closed")
    BY DEF Points
  <2> QED
    BY <2>1, <2>2, Zenon DEF Common
<1>2. Stage' /\ AcceptsWhatWasAsked'
  BY DEF Stage, AtClosed, AcceptsWhatWasAsked
<1> QED
  BY <1>1, <1>2 DEF NegotiationInv

LEMMA Goes ==
  ASSUME Common, at # "closed", UNCHANGED <<client, sent, kind, why>>, PeekOK',
         need' \in Word, replies' \in Seq(Seq(Nat)), Len(replies') <= 2,
         at' \in Points \ {"relay", "closed"}, Stage'
  PROVE  NegotiationInv'
<1>1. Common'
  <2>1. client' \in Clients /\ kind' = client'.kind /\ sent' \in 0 .. Len(client'.says)
    BY DEF Common
  <2>2. /\ at' \in Points /\ at' # "closed"
        /\ why' \in {"open", "refused", "lost", "unwritten", "late"}
        /\ (why' # "open" <=> at' = "closed")
    BY DEF Common, Points
  <2> QED
    BY <2>1, <2>2, Zenon DEF Common
<1>2. AcceptsWhatWasAsked'
  BY DEF AcceptsWhatWasAsked
<1> QED
  BY <1>1, <1>2 DEF NegotiationInv

\* What a read of the handler returns, and that it has then read j bytes.
LEMMA Reads ==
  ASSUME Common, NEW k, HasRead(k), NEW p, ReadFull(p), UNCHANGED <<client, sent, inEnd>>,
         replies' = replies \/ replies' # <<>>, NEW j, j = k + need
  PROVE  /\ Carries(client', sent', inEnd', replies', wire', j) /\ j \in Nat
         /\ Buf \in Seq(Symbol) /\ Len(Buf) = need /\ k \in Nat /\ j <= Total(client)
         /\ \A i \in 1 .. need : Buf[i] = Script(client, k + i)
<1>1. client \in Clients /\ need \in Nat
  BY DEF Common, Word
<1>2. need <= Len(wire) /\ wire' = Rest(wire, need)
  <2>1. Len(wire) >= need /\ Len(wire) \in Nat
    BY <1>1, CarriesLen DEF ReadFull, HasRead
  <2> QED
    BY <1>1, <2>1 DEF ReadFull
<1>3. k \in Nat
  BY DEF HasRead, Carries
<1>4. Carries(client, sent, inEnd, replies, wire, k) /\ (replies' = replies \/ replies' # <<>>)
  BY DEF HasRead
<1>5. /\ Carries(client, sent, inEnd, replies', Rest(wire, need), k + need)
      /\ k + need <= Total(client) /\ k + need \in Nat
  BY <1>1, <1>2, <1>4, CarriesRead
<1>6. /\ Buf \in Seq(Symbol) /\ Len(Buf) = need
      /\ \A i \in 1 .. need : Buf[i] = Script(client, k + i)
  <2> DEFINE s == SubSeq(wire, 1, need)
  <2>1. need \in Nat /\ need <= Len(wire) /\ Carries(client, sent, inEnd, replies, wire, k)
    BY <1>1, <1>2, <1>4
  <2>2. /\ s \in Seq(Symbol) /\ Len(s) = need
        /\ \A i \in 1 .. need : s[i] = Script(client, k + i)
    BY ONLY <2>1, CarriesBuf
  <2> QED
    BY <2>2, Zenon DEF Buf
<1> QED
  BY <1>2, <1>3, <1>5, <1>6, Zenon

-----------------------------------------------------------------------------
(* The steps of the negotiation *)

LEMMA NegClient ==
  ASSUME NegotiationInv, ClientSays \/ ClientQuits, kind' = kind
  PROVE  NegotiationInv'
<1>1. /\ Common /\ Stage /\ client \in Clients /\ Negotiating /\ inEnd = "open"
      /\ sent < Len(client.says) /\ (client.eager \/ Len(replies) >= sent)
      /\ UNCHANGED <<client, handlerVars>>
  BY DEF NegotiationInv, Common, ClientSays, ClientQuits, Speaks
<1>2. /\ sent \in 0 .. Len(client.says) - 1 /\ Len(client.says[sent + 1]) \in Nat
      /\ sent + 1 \in 0 .. Len(client.says)
  <2>1. Len(client.says) = 1 \/ Len(client.says) = 2
    BY <1>1, Kinds
  <2>2. sent \in 0 .. Len(client.says)
    BY <1>1 DEF Common
  <2>3. sent \in 0 .. Len(client.says) - 1 /\ sent + 1 \in 0 .. Len(client.says)
    BY <1>1, <2>1, <2>2
  <2> QED
    BY <1>1, <2>3, Messages
<1>3. /\ sent' \in 0 .. Len(client.says)
      /\ \A k : HasRead(k) => Carries(client, sent', inEnd', replies, wire', k)
  <2>1. CASE ClientSays
    <3>1. inEnd' = "open" /\ sent' = sent + 1 /\ wire' = wire \o client.says[sent + 1]
      BY <1>1, <2>1 DEF ClientSays, framingVars, upVars
    <3>2. ASSUME NEW k, HasRead(k)
          PROVE  Carries(client, sent + 1, "open", replies, wire \o client.says[sent + 1], k)
      <4>1. Carries(client, sent, "open", replies, wire, k)
        BY <1>1, <3>2 DEF HasRead
      <4>2. Len(client.says[sent + 1]) \in 0 .. Len(client.says[sent + 1])
        BY <1>2
      <4> QED
        BY <1>1, <1>2, <4>1, <4>2, CarriesMore
    <3> QED
      BY <1>2, <3>1, <3>2
  <2>2. CASE ClientQuits
    <3>1. PICK n \in 0 .. Len(client.says[sent + 1]) - 1 :
            wire' = wire \o SubSeq(client.says[sent + 1], 1, n)
      BY <2>2 DEF ClientQuits
    <3>2. inEnd' = "fin" /\ sent' = sent
      BY <2>2 DEF ClientQuits
    <3>3. ASSUME NEW k, HasRead(k)
          PROVE  Carries(client, sent, "fin", replies,
                         wire \o SubSeq(client.says[sent + 1], 1, n), k)
      <4>1. Carries(client, sent, "open", replies, wire, k)
        BY <1>1, <3>3 DEF HasRead
      <4>2. n \in 0 .. Len(client.says[sent + 1]) /\ n < Len(client.says[sent + 1])
        BY <1>2
      <4> QED
        BY <1>1, <1>2, <4>1, <4>2, CarriesMore
    <3> QED
      BY <1>1, <3>1, <3>2, <3>3 DEF Common
  <2> QED
    BY <2>1, <2>2
<1>4. UNCHANGED <<client, kind, at, need, peek, host, replies, result, why>>
  BY <1>1 DEF handlerVars
<1>5. PeekOK' /\ Peeked' = Peeked
  BY <1>1, <1>4 DEF Common, PeekOK, Peeked
<1>6. Common'
  BY <1>1, <1>3, <1>4, <1>5 DEF Common
<1>7. Stage'
  <2>1. \A k : HasRead(k) => Carries(client', sent', inEnd', replies', wire', k)
    BY <1>3, <1>4
  <2>2. at # "closed"
    BY <1>1 DEF Negotiating
  <2>3. AtPeek => AtPeek'
    BY <1>4, <2>1 DEF AtPeek, HasRead
  <2>4. AtGreeting => AtGreeting'
    BY <1>4, <1>5, <2>1 DEF AtGreeting, HasRead
  <2>5. AtMethods => AtMethods'
    BY <1>4, <1>5, <2>1 DEF AtMethods, HasRead
  <2>6. AtRequest => AtRequest'
    BY <1>4, <1>5, <2>1 DEF AtRequest, HasRead
  <2>7. SocksSoFar => SocksSoFar'
    BY <1>4, <1>5 DEF SocksSoFar
  <2>8. /\ AtAddress(1, 4, 4) => AtAddress(1, 4, 4)'
        /\ AtAddress(3, 4, 1) => AtAddress(3, 4, 1)'
        /\ AtAddress(3, 5, Second(client)[5]) => AtAddress(3, 5, Second(client)[5])'
        /\ AtAddress(4, 4, 18) => AtAddress(4, 4, 18)'
    BY <1>4, <2>1, <2>7 DEF AtAddress, HasRead
  <2>9. AtPort => AtPort'
    BY <1>4, <2>1, <2>7 DEF AtPort, HasRead
  <2>10. (AtInit => AtInit') /\ (AtHeader => AtHeader') /\ (AtBody => AtBody')
    BY <1>4, <2>1 DEF AtInit, AtHeader, AtBody, HasRead
  <2> QED
    BY <1>1, <1>4, <2>2, <2>3, <2>4, <2>5, <2>6, <2>8, <2>9, <2>10 DEF Stage
<1>8. AcceptsWhatWasAsked'
  BY <1>1, <1>4 DEF Negotiating, AcceptsWhatWasAsked
<1> QED
  BY <1>6, <1>7, <1>8 DEF NegotiationInv

LEMMA NegEnds ==
  ASSUME NegotiationInv, ReadFails \/ WriteFails \/ Deadline, kind' = kind
  PROVE  NegotiationInv'
<1>1. /\ Common /\ Stage
      /\ UNCHANGED <<client, sent, kind, need, peek, replies>> /\ at' = "closed"
  BY DEF NegotiationInv, ReadFails, WriteFails, Deadline, Close
<1>2. why' \in {"lost", "unwritten", "late"}
  BY DEF ReadFails, WriteFails, Deadline, Close
<1>3. PeekOK'
  BY <1>1 DEF Common, PeekOK, Peeked
<1>4. ASSUME why' = "lost", sent = Len(client.says) PROVE CauseToRefuse'
  <2>1. ReadFails
    BY <1>4 DEF WriteFails, Deadline, Close
  <2>2. Starves
    BY <1>4, <2>1 DEF ReadFails, Starves
  <2>3. CauseToRefuse
    BY <1>1, <2>2, Waits
  <2> QED
    BY <1>1, <2>3 DEF CauseToRefuse
<1> QED
  BY <1>1, <1>2, <1>3, <1>4, Closes DEF Common

\* What is peeked are the first bytes of the script.
LEMMA NegPeek == ASSUME NegotiationInv, Peek, kind' = kind PROVE NegotiationInv'
<1> DEFINE c == client
<1>1. /\ Common /\ at = "peek" /\ wire # <<>> /\ HasRead(0) /\ replies = <<>>
      /\ client \in Clients /\ kind = client.kind /\ at # "closed"
      /\ UNCHANGED <<client, sent, kind, replies, inEnd>>
  BY DEF NegotiationInv, Stage, AtPeek, Common, Peek, framingVars, upVars
<1>2. PICK n \in 1 .. 4 : n <= Len(wire) /\ peek' = SubSeq(wire, 1, n)
  BY DEF Peek, PeekLen
<1>3. Carries(c, sent, inEnd, replies, wire, 0) /\ n \in Nat
  BY <1>1 DEF HasRead
<1>4. /\ peek' \in Seq(Symbol) /\ Len(peek') = n
      /\ \A i \in 1 .. n : peek'[i] = Script(c, i)
  <2> DEFINE t == SubSeq(wire, 1, n)
  <2>1. /\ t \in Seq(Symbol) /\ Len(t) = n
        /\ \A i \in 1 .. n : t[i] = Script(c, 0 + i)
    BY ONLY <1>2, <1>3, CarriesBuf
  <2>2. \A i \in 1 .. n : 0 + i = i
    OBVIOUS
  <2> QED
    BY <1>2, <2>1, <2>2
<1>5. /\ Begins(peek', c) /\ Peeked' = n /\ n <= 4 /\ n >= 1
      /\ wire[1] = Script(c, 1) /\ Len(wire) \in Nat
  <2>1. Len(wire) \in Nat /\ \A i \in 1 .. Len(wire) : wire[i] = Script(c, 0 + i)
    BY <1>1, <1>3, CarriesLen
  <2>2. 1 \in 1 .. Len(wire) /\ 0 + 1 = 1
    BY <1>2, <2>1
  <2>3. wire[1] = Script(c, 1)
    BY <2>1, <2>2
  <2> QED
    BY <1>2, <1>4, <2>1, <2>3 DEF Begins, Peeked
<1>6. PeekOK'
  <2>1. ASSUME ~c.eager PROVE n <= FirstLen(c)
    <3>1. 0 + Len(wire) <= FirstLen(c)
      BY <1>1, <1>3, <2>1 DEF Carries
    <3>2. FirstLen(c) \in Nat
      BY <1>1, FirstByte
    <3> QED
      BY <1>2, <1>3, <1>5, <3>1, <3>2
  <2>2. n > FirstLen(c) => c.eager
    <3>1. FirstLen(c) \in Nat
      BY <1>1, FirstByte
    <3> QED
      BY <1>3, <2>1, <3>1
  <2> QED
    BY <1>1, <1>5, <2>2 DEF PeekOK, PeekLen
<1>7. /\ replies' \in Seq(Seq(Nat)) /\ Len(replies') <= 2
  BY <1>1 DEF Common
<1>8. CASE wire[1] = SocksByte
  <2>1. Carries(c', sent', inEnd', replies', Rest(wire, n), n)
    <3>1. Carries(c, sent, inEnd, replies, Rest(wire, n), 0 + n) /\ 0 + n = n
      BY <1>1, <1>2, <1>3, CarriesRead
    <3> QED
      BY <1>1, <3>1
  <2>2. /\ Script(c, 1) = SocksByte /\ wire' = Rest(wire, n)
        /\ IF n = 1 THEN Goto("greeting", 1) ELSE Goto("methods", Missing(peek'))
    BY <1>4, <1>5, <1>8 DEF Peek, SocksByte, Foreign, TlsByte
  <2>3. HasRead(Peeked)'
    BY <1>5, <2>1, <2>2 DEF HasRead
  <2>4. CASE n = 1
    <3>1. at' = "greeting" /\ need' = 1 /\ why' = why
      BY <2>2, <2>4 DEF Goto
    <3>2. AtGreeting'
      BY <1>1, <1>5, <2>2, <2>3, <2>4, <3>1 DEF AtGreeting
    <3>3. Stage'
      BY <3>1, <3>2 DEF Stage
    <3> QED
      BY <1>1, <1>6, <1>7, <3>1, <3>3, Goes DEF Points, Word
  <2>5. CASE n # 1
    <3>1. at' = "methods" /\ need' = Missing(peek') /\ why' = why
      BY <2>2, <2>5 DEF Goto
    <3>2. n >= 2 /\ NMethods(c) \in 0 .. 255
      BY <1>1, <1>5, <2>2, <2>5, FirstIsSocks
    <3>3. Missing(peek') \in 0 .. 255
      BY <1>3, <1>4, <1>5, <3>2, MissingLen
    <3>4. AtMethods'
      BY <1>1, <1>5, <2>2, <2>3, <3>1, <3>2 DEF AtMethods
    <3>5. Stage'
      BY <3>1, <3>4 DEF Stage
    <3>6. need' \in Word
      BY <3>1, <3>3 DEF Word
    <3> QED
      BY <1>1, <1>6, <1>7, <3>1, <3>5, <3>6, Goes DEF Points
  <2> QED
    BY <2>4, <2>5
<1>9. CASE wire[1] # SocksByte
  <2>1. \/ wire[1] \in Foreign /\ Close("refused")
        \/ wire[1] = TlsByte /\ Goto("header", 5) /\ wire' = wire
        \/ /\ wire[1] \notin Foreign \cup {SocksByte, TlsByte}
           /\ Goto("init", InitLen) /\ wire' = wire
    BY <1>9 DEF Peek
  <2>2. CASE wire[1] \in Foreign /\ Close("refused")
    <3>1. at' = "closed" /\ why' = "refused" /\ need' = need
      BY <2>2 DEF Close
    <3>2. Script(c, 1) \in Foreign
      BY <1>5, <2>2
    <3>3. c.kind # "tls"
      BY <1>1, <3>2, FirstByte DEF Foreign, TlsByte
    <3>4. ~Acceptable(c) \/ TakenForAnother(c)
      <4>1. CASE c.kind = "plain"
        <5>1. c.asks.version # 5
          BY <1>1, <3>2, <4>1, SocksSays DEF Foreign, SocksByte
        <5> QED
          BY <4>1, <5>1 DEF Acceptable
      <4>2. CASE c.kind = "obfs"
        BY <1>1, <3>2, <4>2, Mistaken
      <4> QED
        BY <1>1, <3>3, <4>1, <4>2, Kinds
    <3>5. CauseToRefuse'
      BY <1>1, <3>4 DEF CauseToRefuse
    <3> QED
      BY <1>1, <1>6, <1>7, <3>1, <3>5, Closes DEF Common
  <2>3. wire' = wire => HasRead(0)'
    BY <1>1 DEF HasRead
  <2>4. CASE wire[1] = TlsByte /\ Goto("header", 5) /\ wire' = wire
    <3>1. at' = "header" /\ need' = 5 /\ why' = why
      BY <2>4 DEF Goto
    <3>2. Script(c, 1) = TlsByte /\ c.kind # "plain"
      BY <1>1, <1>5, <2>4, FirstByte DEF TlsByte
    <3>3. AtHeader'
      BY <1>1, <2>3, <2>4, <3>1, <3>2, Kinds DEF AtHeader
    <3>4. Stage'
      BY <3>1, <3>3 DEF Stage
    <3> QED
      BY <1>1, <1>6, <1>7, <3>1, <3>4, Goes DEF Points, Word
  <2>5. CASE /\ wire[1] \notin Foreign \cup {SocksByte, TlsByte}
             /\ Goto("init", InitLen) /\ wire' = wire
    <3>1. at' = "init" /\ need' = InitLen /\ why' = why
      BY <2>5 DEF Goto
    <3>2. c.kind = "obfs"
      <4>1. c.kind # "plain" /\ c.kind # "tls"
        BY <1>1, <1>5, <2>5, FirstByte DEF TlsByte, SocksByte, Foreign
      <4> QED
        BY <1>1, <4>1, Kinds
    <3>3. AtInit'
      BY <1>1, <2>3, <2>5, <3>1, <3>2 DEF AtInit
    <3>4. Stage'
      BY <3>1, <3>3 DEF Stage
    <3>5. need' \in Word
      BY <3>1, Sizes DEF Word
    <3> QED
      BY <1>1, <1>6, <1>7, <3>1, <3>4, <3>5, Goes DEF Points
  <2> QED
    BY <2>1, <2>2, <2>4, <2>5
<1> QED
  BY <1>8, <1>9

LEMMA NeedNat == ASSUME Common PROVE need \in Nat
  BY DEF Common, Word

LEMMA WordSizes == \A x \in Byte : x \in Word
<1>1. ASSUME NEW x \in Byte PROVE x \in Word
  BY <1>1 DEF Byte, Word
<1> QED
  BY <1>1

LEMMA BeginsMore ==
  ASSUME NEW c, NEW p, Begins(p, c), NEW n \in Nat, n = Len(p),
         NEW b \in Seq(Symbol), NEW m \in Nat, m = Len(b),
         \A i \in 1 .. m : b[i] = Script(c, n + i)
  PROVE  Begins(p \o b, c) /\ Len(p \o b) = n + m
<1> DEFINE q == p \o b
<1>1. p \in Seq(Symbol) /\ \A i \in 1 .. n : p[i] = Script(c, i)
  BY DEF Begins
<1>2. q \in Seq(Symbol) /\ Len(q) = n + m
  BY <1>1, ConcatProperties
<1>3. ASSUME NEW i \in 1 .. n + m PROVE q[i] = Script(c, i)
  <2>1. CASE i <= n
    BY <1>1, <2>1, ConcatProperties
  <2>2. CASE ~(i <= n)
    <3>1. i - n \in 1 .. m /\ n + (i - n) = i
      BY <2>2
    <3>2. q[i] = b[i - n]
      BY <1>1, <2>2, ConcatProperties
    <3>3. b[i - n] = Script(c, n + (i - n))
      BY <3>1, Zenon
    <3> QED
      BY <3>1, <3>2, <3>3
  <2> QED
    BY <2>1, <2>2
<1> QED
  BY <1>2, <1>3, Zenon DEF Begins

\* The greeting, or the rest of it.
LEMMA NegGreeting == ASSUME NegotiationInv, Greeting, kind' = kind PROVE NegotiationInv'
<1> DEFINE c == client
<1>1. /\ Common /\ at = "greeting" /\ ReadFull("greeting") /\ HasRead(Peeked) /\ replies = <<>>
      /\ client \in Clients /\ kind = client.kind /\ at # "closed" /\ Peeked + need = 2
      /\ \/ Peeked = 0 /\ kind = "plain"
         \/ Peeked = 1 /\ Script(client, 1) = SocksByte
      /\ UNCHANGED <<client, sent, kind, replies, inEnd>> /\ peek' = peek \o Buf
  BY DEF NegotiationInv, Stage, AtGreeting, Common, Greeting, ReadFull, framingVars, upVars
<1>2. /\ Carries(client', sent', inEnd', replies', wire', 2)
      /\ Buf \in Seq(Symbol) /\ Len(Buf) = need /\ need \in Nat
      /\ \A i \in 1 .. need : Buf[i] = Script(c, Peeked + i)
  <2>1. need \in Nat
    BY <1>1, NeedNat
  <2> QED
    BY <1>1, <2>1, Reads
<1>3. /\ Begins(peek', c) /\ Peeked' = 2 /\ Peeked' \in Nat
      /\ peek'[1] = Script(c, 1)
  <2>1. Peeked \in Nat /\ Begins(peek, c)
    BY <1>1, PeekLens
  <2>2. Begins(peek \o Buf, c) /\ Len(peek \o Buf) = Peeked + need
    BY <1>2, <2>1, BeginsMore DEF Peeked
  <2>3. Begins(peek', c) /\ Peeked' = 2
    BY <1>1, <2>2 DEF Peeked
  <2>4. peek'[1] = Script(c, 1)
    BY <2>3 DEF Begins, Peeked
  <2> QED
    BY <2>3, <2>4
<1>4. PeekOK'
  <2>1. ~(2 > FirstLen(c))
    BY <1>1, FirstByte
  <2> QED
    BY <1>1, <1>3, <2>1 DEF PeekOK, PeekLen
<1>5. replies' \in Seq(Seq(Nat)) /\ Len(replies') <= 2
  BY <1>1 DEF Common
<1>6. HasRead(Peeked)'
  BY <1>2, <1>3 DEF HasRead
<1>7. CASE peek'[1] = SocksByte
  <2>1. Script(c, 1) = SocksByte
    BY <1>3, <1>7
  <2>2. at' = "methods" /\ need' = Missing(peek') /\ why' = why
    BY <1>7 DEF Greeting, Goto
  <2>3. NMethods(c) \in 0 .. 255
    BY <1>1, <2>1, FirstIsSocks
  <2>4. need' \in Word
    <3>1. 2 = Len(peek') /\ 2 \in Nat /\ 2 >= 2 /\ 2 <= 4 /\ Begins(peek', c)
      BY <1>3 DEF Peeked
    <3>2. Missing(peek') \in 0 .. 255
      BY ONLY <2>3, <3>1, MissingLen
    <3> QED
      BY <2>2, <3>2 DEF Word
  <2>5. AtMethods'
    BY <1>1, <1>3, <1>6, <2>1, <2>2 DEF AtMethods
  <2>6. Stage'
    BY <2>2, <2>5 DEF Stage
  <2> QED
    BY <1>1, <1>4, <1>5, <2>2, <2>4, <2>6, Goes DEF Points
<1>8. CASE peek'[1] # SocksByte
  <2>1. at' = "closed" /\ why' = "refused" /\ need' = need
    BY <1>8 DEF Greeting, Close
  <2>2. kind = "plain" /\ c.kind = "plain"
    BY <1>1, <1>3, <1>8
  <2>3. c.asks.version # 5
    BY <1>1, <1>3, <1>8, <2>2, SocksSays
  <2>4. CauseToRefuse'
    BY <1>1, <2>2, <2>3 DEF CauseToRefuse, Acceptable
  <2> QED
    BY <1>1, <1>4, <1>5, <2>1, <2>4, Closes DEF Common
<1> QED
  BY <1>7, <1>8

\* 0 is one of the methods if the client offers it.
LEMMA MethodsRead ==
  ASSUME NEW c, NEW q, Begins(q, c), NEW m \in 0 .. 255, m = NMethods(c), 2 + m <= Len(q)
  PROVE  0 \in ToSet(SubSeq(q, 3, 2 + m)) <=> OffersNone(c)
<1> DEFINE t == SubSeq(q, 3, 2 + m)
<1>1. q \in Seq(Symbol) /\ Len(q) \in Nat /\ \A i \in 1 .. Len(q) : q[i] = Script(c, i)
  BY LenProperties DEF Begins
<1>2. \A i \in 3 .. 2 + m : i \in 1 .. Len(q)
  BY <1>1
<1>3. /\ t \in Seq(Symbol) /\ Len(t) = m /\ DOMAIN t = 1 .. m
      /\ \A i \in 1 .. m : t[i] = Script(c, i + 2)
  <2>1. \A i \in 3 .. 2 + m : q[i] \in Symbol
    BY <1>1, <1>2, ElementOfSeq
  <2>2. 3 \in Int /\ 2 + m \in Int /\ (2 + m) - 3 + 1 = m /\ (3 <= 2 + m <=> m # 0)
    <3>1. \A n \in 0 .. 255 : /\ 2 + n \in Int /\ (2 + n) - 3 + 1 = n
                              /\ 3 <= 2 + n <=> n # 0
      OBVIOUS
    <3>2. m \in 0 .. 255
      OBVIOUS
    <3> QED
      BY ONLY <3>1, <3>2
  <2>3. /\ t \in Seq(Symbol) /\ Len(t) = IF 3 <= 2 + m THEN (2 + m) - 3 + 1 ELSE 0
        /\ \A i \in 1 .. (2 + m) - 3 + 1 : t[i] = q[3 + i - 1]
    BY ONLY <2>1, <2>2, SubSeqProperties
  <2>4. \A i \in 1 .. m : 3 + i - 1 = i + 2 /\ i + 2 \in 3 .. 2 + m
    OBVIOUS
  <2>5. Len(t) = m
    BY <2>2, <2>3
  <2>6. DOMAIN t = 1 .. m
    BY <2>3, <2>5, LenProperties
  <2>7. \A i \in 1 .. m : t[i] = Script(c, i + 2)
    BY <1>1, <1>2, <2>2, <2>3, <2>4
  <2> QED
    BY <2>3, <2>5, <2>6, <2>7
<1> HIDE DEF t
<1>4. 0 \in ToSet(t) <=> \E i \in 1 .. m : Script(c, i + 2) = 0
  BY <1>3 DEF ToSet
<1>5. (\E i \in 1 .. m : Script(c, i + 2) = 0) <=> OffersNone(c)
  <2>1. ASSUME NEW i \in 1 .. m, Script(c, i + 2) = 0 PROVE OffersNone(c)
    <3>1. i + 2 \in 3 .. 2 + m
      OBVIOUS
    <3> QED
      BY <2>1, <3>1 DEF OffersNone
  <2>2. ASSUME OffersNone(c) PROVE \E i \in 1 .. m : Script(c, i + 2) = 0
    <3>1. PICK j \in 3 .. 2 + m : Script(c, j) = 0
      BY <2>2, Zenon DEF OffersNone
    <3>2. j - 2 \in 1 .. m /\ (j - 2) + 2 = j
      OBVIOUS
    <3> QED
      BY <3>1, <3>2
  <2> QED
    BY <2>1, <2>2
<1> QED
  BY <1>4, <1>5 DEF t

\* The choice of the method.
LEMMA NegMethods == ASSUME NegotiationInv, Methods, kind' = kind PROVE NegotiationInv'
<1> DEFINE c == client
           offers == SubSeq(peek \o Buf, 3, 2 + peek[2])
<1>1. /\ Common /\ at = "methods" /\ ReadFull("methods") /\ HasRead(Peeked) /\ replies = <<>>
      /\ client \in Clients /\ kind = client.kind /\ at # "closed" /\ Peeked >= 2
      /\ Script(client, 1) = SocksByte /\ need = Missing(peek)
      /\ UNCHANGED <<client, sent, kind, peek, inEnd>>
  BY DEF NegotiationInv, Stage, AtMethods, Common, Methods, ReadFull, framingVars, upVars
<1>2. \/ /\ 0 \in ToSet(offers) /\ replies' = <<<<5, 0>>>>
         /\ at' = "request" /\ need' = 4 /\ why' = why
      \/ /\ 0 \notin ToSet(offers) /\ replies' = <<<<5, 255>>>>
         /\ at' = "closed" /\ why' = "refused" /\ need' = need
  BY <1>1 DEF Methods, Write, Goto, Close
<1>3. replies' # <<>> /\ Len(replies') = 1 /\ Len(replies') <= 2 /\ replies' \in Seq(Seq(Nat))
  <2>1. <<5, 0>> \in Seq(Nat) /\ <<5, 255>> \in Seq(Nat)
    OBVIOUS
  <2>2. PICK m \in Seq(Nat) : replies' = <<m>>
    BY <1>2, <2>1
  <2> QED
    BY <2>2
<1>4. /\ Peeked \in Nat /\ Peeked <= 4 /\ Peeked = Len(peek) /\ Begins(peek, c)
      /\ NMethods(c) \in 0 .. 255 /\ need \in Nat
  BY <1>1, PeekLens, FirstIsSocks, NeedNat DEF Peeked
<1>5. /\ need \in 0 .. 255 /\ Peeked + need = Used(c, Peeked) /\ peek[2] = NMethods(c)
  BY ONLY <1>1, <1>4, MissingLen
<1>6. /\ Carries(client', sent', inEnd', replies', wire', Used(c, Peeked))
      /\ Buf \in Seq(Symbol) /\ Len(Buf) = need
      /\ \A i \in 1 .. need : Buf[i] = Script(c, Peeked + i)
  BY <1>1, <1>3, <1>5, Reads
<1>7. 0 \in ToSet(offers) <=> OffersNone(c)
  <2>1. Begins(peek \o Buf, c) /\ Len(peek \o Buf) = Peeked + need
    BY ONLY <1>4, <1>6, BeginsMore
  <2>2. 2 + NMethods(c) <= Used(c, Peeked)
    <3>1. \A n \in 0 .. 255, u \in Nat, p \in Nat : u = 2 + n \/ (u = p /\ p > 2 + n) => 2 + n <= u
      OBVIOUS
    <3> QED
      BY ONLY <1>4, <3>1, UsedLen
  <2>3. Len(peek \o Buf) = Used(c, Peeked)
    BY <1>5, <2>1, Zenon
  <2> QED
    BY ONLY <1>4, <1>5, <2>1, <2>2, <2>3, MethodsRead
<1>8. PeekOK' /\ Peeked' = Peeked
  BY <1>1 DEF Common, PeekOK, Peeked
<1>9. CASE OffersNone(c)
  <2>1. at' = "request" /\ need' = 4 /\ why' = why
    BY <1>2, <1>7, <1>9
  <2>2. AtRequest'
    BY <1>1, <1>3, <1>6, <1>8, <1>9, <2>1 DEF AtRequest, HasRead
  <2>3. Stage'
    BY <2>1, <2>2 DEF Stage
  <2> QED
    BY <1>1, <1>3, <1>8, <2>1, <2>3, Goes DEF Points, Word
<1>10. CASE ~OffersNone(c)
  <2>1. at' = "closed" /\ why' = "refused" /\ need' = need
    BY <1>2, <1>7, <1>10
  <2>2. c.kind = "plain" => ~Acceptable(c)
    BY <1>1, <1>10, SocksSays DEF Acceptable
  <2>3. c.kind # "plain" => TakenForAnother(c)
    BY <1>1, FirstIsSocks, Mistaken
  <2>4. CauseToRefuse'
    BY <1>1, <2>2, <2>3 DEF CauseToRefuse
  <2> QED
    BY <1>1, <1>3, <1>8, <2>1, <2>4, Closes DEF Common
<1> QED
  BY <1>9, <1>10

\* An obfuscated client that is taken for one of SOCKS5 sends no request.
LEMMA ObfsRequest ==
  ASSUME NEW c \in Clients, c.kind = "obfs", Script(c, 1) = SocksByte, OffersNone(c),
         NEW n \in Nat, n <= 4, NEW u, u = Used(c, n), u + 4 <= Total(c)
  PROVE  Script(c, u + 1) # SocksByte
<1> DEFINE m == NMethods(c)
<1>1. m \in 1 .. 255 /\ m \in 0 .. 255
  BY OffersOne
<1>2. u \in Nat /\ (u = 2 + m \/ (u = n /\ n > 2 + m))
  BY <1>1, UsedLen
<1>3. Total(c) = InitLen /\ InitLen \in Nat
  BY ObfsSays, Sizes
<1>4. \A k \in {m + 3, 5} : k <= InitLen - 3 => Script(c, k) # SocksByte
  BY ObfsSays DEF NMethods
<1> HIDE DEF m
<1>5. u + 1 \in {m + 3, 5} /\ u + 1 <= InitLen - 3
  BY <1>1, <1>2, <1>3
<1> QED
  BY <1>4, <1>5

\* What the handler reads of a SOCKS5 client as its request: where peek has swallowed
\* its beginning it is none.
LEMMA SocksRead ==
  ASSUME NEW c \in Clients, c.kind = "plain", Script(c, 1) = SocksByte, OffersNone(c),
         NEW n \in Nat, n <= 4, NEW u, u = Used(c, n)
  PROVE  /\ n > FirstLen(c) => Script(c, u + 2) = 0
         /\ ~(n > FirstLen(c)) =>
              /\ u = FirstLen(c)
              /\ \A i \in 1 .. 4 : Script(c, u + i) = Second(c)[i]
<1> DEFINE m == NMethods(c)
           f == FirstLen(c)
<1>1. m \in 1 .. 255 /\ m \in 0 .. 255
  BY OffersOne
<1>2. u \in Nat /\ (u = 2 + m \/ (u = n /\ n > 2 + m)) /\ (n > 2 + m => u = n)
  BY <1>1, UsedLen DEF Used
<1>3. f = 2 + m /\ SecondLen(c) \in Nat /\ SecondLen(c) >= 6
  BY SocksLens
<1>4. \A i \in 1 .. SecondLen(c) : Script(c, f + i) = Second(c)[i]
  BY SocksSays
<1>5. Second(c)[3] = 0
  BY SocksRequest
<1> HIDE DEF m, f
<1>6. \A i \in 1 .. 4 : i \in 1 .. SecondLen(c)
  BY <1>3
<1>7. ASSUME n > f PROVE Script(c, u + 2) = 0
  <2>1. u + 2 = f + 3
    BY <1>1, <1>2, <1>3, <1>7
  <2>2. Script(c, f + 3) = Second(c)[3]
    BY <1>4, <1>6
  <2> QED
    BY <1>5, <2>1, <2>2
<1>8. ASSUME ~(n > f) PROVE u = f
  BY <1>1, <1>2, <1>3, <1>8
<1> QED
  BY <1>4, <1>6, <1>7, <1>8 DEF f

\* The request.
LEMMA NegRequest == ASSUME NegotiationInv, Request, kind' = kind PROVE NegotiationInv'
<1> DEFINE c == client
           r == Second(c)
           u == Used(c, Peeked)
<1>1. /\ Common /\ at = "request" /\ ReadFull("request") /\ HasRead(u)
      /\ client \in Clients /\ kind = client.kind /\ at # "closed" /\ Len(replies) = 1
      /\ Script(client, 1) = SocksByte /\ OffersNone(client) /\ need = 4
      /\ UNCHANGED <<client, sent, kind, peek, host, inEnd>>
  BY DEF NegotiationInv, Stage, AtRequest, Common, Request, ReadFull, framingVars, upVars
<1>2. \/ /\ Buf[1] # 5 \/ Buf[2] # 1 \/ Buf[4] \notin {1, 3, 4}
         /\ at' = "closed" /\ why' = "refused" /\ need' = need
         /\ \/ replies' = replies
            \/ \E m \in {<<5, 7>>, <<5, 8>>} : replies' = Append(replies, m)
      \/ /\ Buf[1] = 5 /\ Buf[2] = 1 /\ replies' = replies /\ why' = why
         /\ \/ Buf[4] = 1 /\ at' = "ipv4" /\ need' = 4
            \/ Buf[4] = 3 /\ at' = "length" /\ need' = 1
            \/ Buf[4] = 4 /\ at' = "ipv6" /\ need' = 18
  BY DEF Request, Write, Goto, Close, SocksByte
<1>3. /\ Len(replies') <= 2 /\ replies' \in Seq(Seq(Nat))
      /\ replies' = replies \/ replies' # <<>>
  <2>1. replies \in Seq(Seq(Nat)) /\ Len(replies) = 1
    BY <1>1 DEF Common
  <2>2. {<<5, 7>>, <<5, 8>>} \subseteq Seq(Nat)
    OBVIOUS
  <2>3. replies' = replies \/ \E m \in Seq(Nat) : replies' = Append(replies, m)
    BY <1>2, <2>2
  <2>4. ASSUME NEW m \in Seq(Nat), replies' = Append(replies, m)
        PROVE  Len(replies') = 2 /\ replies' \in Seq(Seq(Nat)) /\ replies' # <<>>
    <3>1. replies' \in Seq(Seq(Nat)) /\ Len(replies') = Len(replies) + 1
      BY ONLY <2>1, <2>4, AppendProperties
    <3>2. Len(replies') = 2 /\ 2 <= 2
      BY ONLY <2>1, <3>1
    <3>3. replies' # <<>>
      BY ONLY <2>1, <2>4, AppendProperties
    <3> QED
      BY <3>1, <3>2, <3>3, Zenon
  <2>5. CASE replies' = replies
    <3>1. Len(replies) = 1 => Len(replies) <= 2
      OBVIOUS
    <3> QED
      BY <2>1, <2>5, <3>1, Zenon
  <2>6. \A k : k = 2 => k <= 2
    OBVIOUS
  <2> QED
    BY <2>3, <2>4, <2>5, <2>6, Zenon
<1>4. Peeked \in Nat /\ Peeked <= 4 /\ NMethods(c) \in 0 .. 255
  BY <1>1, PeekLens, FirstIsSocks
<1>5. /\ Carries(client', sent', inEnd', replies', wire', u + 4) /\ u + 4 <= Total(c)
      /\ \A i \in 1 .. 4 : Buf[i] = Script(c, u + i)
  <2>1. u + 4 = u + need
    BY <1>1
  <2> QED
    BY <1>1, <1>3, <2>1, Reads
<1>6. PeekOK' /\ Peeked' = Peeked
  BY <1>1 DEF Common, PeekOK, Peeked
<1> HIDE DEF u
<1>7. CASE c.kind = "obfs"
  <2>1. Buf[1] = Script(c, u + 1) /\ Script(c, u + 1) # SocksByte
    BY <1>1, <1>4, <1>5, <1>7, ObfsRequest DEF u
  <2>2. at' = "closed" /\ why' = "refused" /\ need' = need
    BY <1>2, <2>1 DEF SocksByte
  <2>3. CauseToRefuse'
    <3>1. TakenForAnother(c)
      BY <1>1, <1>7, Mistaken
    <3> QED
      BY <1>1, <3>1 DEF CauseToRefuse
  <2> QED
    BY <1>1, <1>3, <1>6, <2>2, <2>3, Closes DEF Common
<1>8. CASE c.kind = "plain" /\ Peeked > FirstLen(c)
  <2>1. Buf[2] = 0
    <3>1. Script(c, u + 2) = 0
      BY <1>1, <1>4, <1>8, SocksRead DEF u
    <3> QED
      BY <1>5, <3>1
  <2>2. at' = "closed" /\ why' = "refused" /\ need' = need
    BY <1>2, <2>1
  <2>3. CauseToRefuse'
    <3>1. c.eager
      BY <1>1, <1>8 DEF Common, PeekOK
    <3>2. client' = c /\ Len(peek') = Peeked
      BY <1>1 DEF Peeked
    <3> QED
      BY <1>8, <3>1, <3>2 DEF CauseToRefuse, FirstLen, First
  <2> QED
    BY <1>1, <1>3, <1>6, <2>2, <2>3, Closes DEF Common
<1>9. CASE c.kind = "plain" /\ ~(Peeked > FirstLen(c))
  <2>1. u = FirstLen(c) /\ \A i \in 1 .. 4 : Buf[i] = r[i]
    BY <1>1, <1>4, <1>5, <1>9, SocksRead DEF u
  <2>2. Buf[1] = r[1] /\ Buf[2] = r[2] /\ Buf[4] = r[4]
    BY <2>1
  <2>3. r[1] = 5 /\ r[2] = c.asks.cmd /\ r[4] = c.asks.atyp
    BY <1>1, <1>9, SocksRequest
  <2>4. CASE at' = "closed"
    <3>1. /\ why' = "refused" /\ need' = need
          /\ c.asks.cmd # 1 \/ c.asks.atyp \notin {1, 3, 4}
      BY <1>2, <2>2, <2>3, <2>4
    <3>2. CauseToRefuse'
      BY <1>1, <1>9, <3>1 DEF CauseToRefuse, Acceptable
    <3> QED
      BY <1>1, <1>3, <1>6, <2>4, <3>1, <3>2, Closes DEF Common
  <2>5. CASE at' # "closed"
    <3>1. /\ Buf[2] = 1 /\ replies' = replies /\ why' = why
          /\ \/ r[4] = 1 /\ at' = "ipv4" /\ need' = 4
             \/ r[4] = 3 /\ at' = "length" /\ need' = 1
             \/ r[4] = 4 /\ at' = "ipv6" /\ need' = 18
      BY <1>2, <2>2, <2>5
    <3>2. SocksSoFar'
      <4>1. Peeked <= FirstLen(c)
        <5>1. FirstLen(c) \in Nat
          BY <1>1, FirstByte
        <5> QED
          BY <1>4, <1>9, <5>1
      <4>2. r[1] = SocksByte /\ r[2] = 1
        BY <2>2, <2>3, <3>1 DEF SocksByte
      <4> QED
        BY <1>1, <1>6, <1>9, <3>1, <4>1, <4>2 DEF SocksSoFar
    <3>3. HasRead(FirstLen(client) + 4)'
      BY <1>1, <1>5, <2>1 DEF HasRead
    <3>4. /\ at' = "ipv4" => AtAddress(1, 4, 4)'
          /\ at' = "length" => AtAddress(3, 4, 1)'
          /\ at' = "ipv6" => AtAddress(4, 4, 18)'
      BY <1>1, <3>1, <3>2, <3>3 DEF AtAddress
    <3>5. Stage'
      BY <3>1, <3>4 DEF Stage
    <3>6. at' \in Points \ {"relay", "closed"} /\ need' \in Word
      BY <3>1 DEF Points, Word
    <3> QED
      BY <1>1, <1>3, <1>6, <3>1, <3>5, <3>6, Goes
  <2> QED
    BY <2>4, <2>5
<1>10. c.kind = "obfs" \/ c.kind = "plain"
  BY <1>1, FirstIsSocks
<1> QED
  BY <1>7, <1>8, <1>9, <1>10

\* What the handler reads behind the first pos bytes of the request.
LEMMA RequestReads ==
  ASSUME Common, kind = "plain", NEW pos \in Nat, HasRead(FirstLen(client) + pos),
         NEW p, ReadFull(p), UNCHANGED <<client, sent, inEnd>>,
         replies' = replies \/ replies' # <<>>
  PROVE  /\ Carries(client', sent', inEnd', replies', wire', FirstLen(client) + (pos + need))
         /\ need \in Nat /\ Buf \in Seq(Symbol) /\ Len(Buf) = need
         /\ pos + need <= SecondLen(client)
         /\ \A i \in 1 .. need : Buf[i] = Second(client)[pos + i]
<1> DEFINE c == client
           f == FirstLen(c)
           g == SecondLen(c)
<1>1. c \in Clients /\ c.kind = "plain" /\ need \in Nat
  BY NeedNat DEF Common
<1>2. f \in Nat /\ g \in Nat /\ Total(c) = f + g
  BY <1>1, FirstByte, SocksLens
<1>3. \A i \in 1 .. g : Script(c, f + i) = Second(c)[i]
  BY <1>1, SocksSays
<1>4. /\ Carries(client', sent', inEnd', replies', wire', (f + pos) + need)
      /\ Buf \in Seq(Symbol) /\ Len(Buf) = need /\ (f + pos) + need <= Total(c)
      /\ \A i \in 1 .. need : Buf[i] = Script(c, (f + pos) + i)
  <2>1. f + pos \in Nat
    BY <1>2
  <2> QED
    BY <1>1, <2>1, Reads
<1> HIDE DEF f, g
<1>5. (f + pos) + need = f + (pos + need) /\ pos + need <= g
  BY ONLY <1>1, <1>2, <1>4, pos \in Nat
<1>6. ASSUME NEW i \in 1 .. need PROVE Buf[i] = Second(c)[pos + i]
  <2>1. pos + i \in 1 .. g /\ (f + pos) + i = f + (pos + i)
    BY ONLY <1>1, <1>2, <1>5, pos \in Nat, i \in 1 .. need
  <2> QED
    BY <1>3, <1>4, <2>1
<1> QED
  BY <1>1, <1>4, <1>5, <1>6 DEF f, g

\* The length of the host name.
LEMMA NegLength == ASSUME NegotiationInv, DomainLength, kind' = kind PROVE NegotiationInv'
<1> DEFINE c == client
<1>1. /\ Common /\ at = "length" /\ ReadFull("length") /\ AtAddress(3, 4, 1)
      /\ client \in Clients /\ kind = client.kind /\ at # "closed"
      /\ UNCHANGED <<client, sent, kind, peek, host, replies, inEnd>>
      /\ at' = "domain" /\ need' = Buf[1] /\ why' = why
  BY DEF NegotiationInv, Stage, Common, DomainLength, Goto, ReadFull, framingVars, upVars
<1>2. SocksSoFar /\ kind = "plain" /\ Second(c)[4] = 3 /\ need = 1 /\ HasRead(FirstLen(c) + 4)
  BY <1>1 DEF AtAddress, SocksSoFar
<1>3. /\ Carries(client', sent', inEnd', replies', wire', FirstLen(c) + (4 + need))
      /\ \A i \in 1 .. need : Buf[i] = Second(c)[4 + i]
  BY <1>1, <1>2, RequestReads
<1>4. /\ HasRead(FirstLen(c) + 5)' /\ need' = Second(c)[5] /\ Second(c)' = Second(c)
  <2>1. 4 + need = 5 /\ 1 \in 1 .. need /\ 4 + 1 = 5
    BY <1>2
  <2> QED
    BY <1>1, <1>3, <2>1 DEF HasRead
<1>5. PeekOK' /\ Peeked' = Peeked
  BY <1>1 DEF Common, PeekOK, Peeked
<1>6. AtAddress(3, 5, Second(client)[5])'
  <2>1. SocksSoFar'
    BY <1>1, <1>2, <1>5 DEF SocksSoFar
  <2> QED
    BY <1>1, <1>2, <1>4, <2>1 DEF AtAddress
<1>7. Stage'
  BY <1>1, <1>6 DEF Stage
<1>8. need' \in Word
  <2>1. 5 \in 1 .. SecondLen(c)
    <3>1. SecondLen(c) \in Nat /\ SecondLen(c) >= 6
      BY <1>1, <1>2, SocksLens
    <3> QED
      BY ONLY <3>1
  <2>2. Second(c)[5] \in Byte
    BY <1>1, <1>2, <2>1, SocksSays, Zenon
  <2> QED
    BY <1>4, <2>2, WordSizes, Zenon
<1> QED
  BY <1>1, <1>5, <1>7, <1>8, Goes DEF Common, Points

LEMMA Slice ==
  ASSUME NEW S, NEW r \in Seq(S), NEW n \in Nat, n = Len(r), NEW a \in Nat,
         NEW m \in Nat, a + m <= n,
         NEW T, NEW b \in Seq(T), Len(b) = m, \A i \in 1 .. m : b[i] = r[a + i]
  PROVE  b = SubSeq(r, a + 1, a + m)
<1> DEFINE t == SubSeq(r, a + 1, a + m)
<1>1. \A i \in a + 1 .. a + m : r[i] \in S
  <2>1. \A i \in a + 1 .. a + m : i \in 1 .. Len(r)
    OBVIOUS
  <2> QED
    BY <2>1, ElementOfSeq
<1>2. a + 1 \in Int /\ a + m \in Int /\ (a + m) - (a + 1) + 1 = m
  OBVIOUS
<1>3. /\ t \in Seq(S) /\ Len(t) = IF a + 1 <= a + m THEN (a + m) - (a + 1) + 1 ELSE 0
      /\ \A i \in 1 .. (a + m) - (a + 1) + 1 : t[i] = r[a + 1 + i - 1]
  BY ONLY <1>1, <1>2, SubSeqProperties
<1>4. a + 1 <= a + m <=> m # 0
  OBVIOUS
<1>5. Len(t) = m
  BY <1>2, <1>3, <1>4
<1>6. \A i \in 1 .. m : a + 1 + i - 1 = a + i
  OBVIOUS
<1> HIDE DEF t
<1>7. \A i \in 1 .. m : t[i] = b[i]
  BY <1>2, <1>3, <1>6
<1>8. t = [i \in 1 .. m |-> t[i]] /\ b = [i \in 1 .. m |-> b[i]]
  BY <1>3, <1>5, LenProperties
<1> QED
  BY <1>7, <1>8 DEF t

\* The host.
LEMMA NegHost == ASSUME NegotiationInv, Host, kind' = kind PROVE NegotiationInv'
<1> DEFINE c == client
           r == Second(c)
<1>1. /\ Common /\ Stage /\ (ReadFull("ipv4") \/ ReadFull("domain"))
      /\ client \in Clients /\ kind = client.kind /\ at # "closed"
      /\ UNCHANGED <<client, sent, kind, peek, replies, inEnd>>
      /\ at' = "port" /\ need' = 2 /\ why' = why /\ host' = Buf
  BY DEF NegotiationInv, Common, Host, Goto, ReadFull, framingVars, upVars
<1>2. PICK pos \in {4, 5}, p \in {"ipv4", "domain"} :
        /\ ReadFull(p) /\ HasRead(FirstLen(c) + pos) /\ SocksSoFar /\ kind = "plain"
        /\ \/ pos = 4 /\ need = 4 /\ r[4] = 1
           \/ pos = 5 /\ need = r[5] /\ r[4] = 3
  <2>1. CASE ReadFull("ipv4")
    <3>1. AtAddress(1, 4, 4)
      BY <1>1, <2>1 DEF ReadFull, Stage
    <3> QED
      BY <2>1, <3>1 DEF AtAddress, SocksSoFar
  <2>2. CASE ReadFull("domain")
    <3>1. at = "domain"
      BY <2>2 DEF ReadFull
    <3>2. AtAddress(3, 5, Second(client)[5])
      BY <1>1, <3>1, Zenon DEF Stage
    <3> QED
      BY <2>2, <3>2 DEF AtAddress, SocksSoFar
  <2> QED
    BY <1>1, <2>1, <2>2
<1>3. /\ Carries(client', sent', inEnd', replies', wire', FirstLen(c) + (pos + need))
      /\ need \in Nat /\ Buf \in Seq(Symbol) /\ Len(Buf) = need
      /\ pos + need <= SecondLen(c) /\ \A i \in 1 .. need : Buf[i] = r[pos + i]
  <2>1. pos \in Nat
    BY <1>2
  <2> QED
    BY <1>1, <1>2, <2>1, RequestReads
<1>4. /\ r \in Seq(Byte) /\ SecondLen(c) \in Nat /\ SecondLen(c) = Len(r)
      /\ FirstLen(c) \in Nat /\ Total(c) = FirstLen(c) + SecondLen(c)
  BY <1>1, <1>2, SocksSays, FirstByte DEF SecondLen
<1>5. Buf = SubSeq(r, pos + 1, pos + need)
  <2>1. pos \in Nat /\ need \in Nat /\ SecondLen(c) \in Nat /\ SecondLen(c) = Len(r)
    BY <1>2, <1>3, <1>4
  <2>2. /\ r \in Seq(Byte) /\ Buf \in Seq(Symbol) /\ Len(Buf) = need
        /\ pos + need <= SecondLen(c) /\ \A i \in 1 .. need : Buf[i] = r[pos + i]
    BY <1>3, <1>4, Zenon
  <2> HIDE DEF r
  <2> QED
    BY ONLY <2>1, <2>2, Slice
<1>6. /\ r[4] = 1 => SecondLen(c) = 10 /\ c.asks.host = SubSeq(r, 5, 8)
      /\ r[4] = 3 => SecondLen(c) = 7 + r[5] /\ c.asks.host = SubSeq(r, 6, 5 + r[5])
  BY <1>1, <1>2, SocksRequest
<1>7. Buf = c.asks.host /\ SecondLen(c) = pos + need + 2 /\ r[4] \in {1, 3}
  <2>1. CASE pos = 4 /\ need = 4 /\ r[4] = 1
    <3>1. pos + 1 = 5 /\ pos + need = 8 /\ pos + need + 2 = 10
      BY <2>1
    <3> QED
      BY <1>5, <1>6, <2>1, <3>1
  <2>2. CASE pos = 5 /\ need = r[5] /\ r[4] = 3
    <3>1. pos + 1 = 6 /\ pos + need = 5 + r[5] /\ pos + need + 2 = 7 + r[5]
      BY <1>3, <2>2
    <3> QED
      BY <1>5, <1>6, <2>2, <3>1
  <2> QED
    BY <1>2, <2>1, <2>2
<1>8. HasRead(Total(client) - 2)'
  <2>1. FirstLen(c) + (pos + need) = Total(c) - 2
    BY <1>2, <1>3, <1>4, <1>7
  <2> QED
    BY <1>1, <1>3, <2>1 DEF HasRead
<1>9. PeekOK' /\ Peeked' = Peeked
  BY <1>1 DEF Common, PeekOK, Peeked
<1>10. SocksSoFar'
  BY <1>1, <1>2, <1>9 DEF SocksSoFar
<1>11. AtPort'
  BY <1>1, <1>7, <1>8, <1>10 DEF AtPort
<1>12. Stage'
  BY <1>1, <1>11 DEF Stage
<1> QED
  <2>1. need' \in Word /\ replies' \in Seq(Seq(Nat)) /\ Len(replies') <= 2
    <3>1. 2 \in Byte
      BY DEF Byte
    <3> QED
      BY <1>1, <3>1, WordSizes DEF Common
  <2> QED
    BY <1>1, <1>9, <1>12, <2>1, Goes DEF Points

\* An IPv6 address is not supported.
LEMMA NegSkipIPv6 == ASSUME NegotiationInv, SkipIPv6, kind' = kind PROVE NegotiationInv'
<1> DEFINE c == client
<1>1. /\ Common /\ at = "ipv6" /\ AtAddress(4, 4, 18)
      /\ client \in Clients /\ kind = client.kind
      /\ UNCHANGED <<client, sent, kind, peek, need>>
      /\ at' = "closed" /\ why' = "refused" /\ replies' = Append(replies, <<5, 8>>)
  BY DEF NegotiationInv, Stage, Common, SkipIPv6, Write, Close
<1>2. kind = "plain" /\ Second(c)[4] = 4 /\ Len(replies) = 1
  BY <1>1 DEF AtAddress, SocksSoFar
<1>3. replies' \in Seq(Seq(Nat)) /\ Len(replies') <= 2
  <2>1. replies \in Seq(Seq(Nat)) /\ <<5, 8>> \in Seq(Nat)
    BY <1>1 DEF Common
  <2>2. replies' \in Seq(Seq(Nat)) /\ Len(replies') = Len(replies) + 1
    BY ONLY <1>1, <2>1, AppendProperties
  <2>3. 1 + 1 <= 2
    OBVIOUS
  <2> QED
    BY <1>2, <2>2, <2>3, Zenon
<1>4. c.asks.atyp = 4
  BY <1>1, <1>2, SocksRequest
<1>5. CauseToRefuse'
  BY <1>1, <1>2, <1>4 DEF CauseToRefuse, Acceptable
<1>6. PeekOK'
  BY <1>1 DEF Common, PeekOK, Peeked
<1> QED
  BY <1>1, <1>3, <1>5, <1>6, Closes DEF Common

\* The negotiation is over.
LEMMA Relays ==
  ASSUME Common, at # "closed", UNCHANGED <<client, sent, kind, why>>, PeekOK',
         replies' \in Seq(Seq(Nat)), Len(replies') <= 2,
         at' = "relay", need' = 0, AcceptsWhatWasAsked'
  PROVE  NegotiationInv'
<1>1. Common'
  <2>1. client' \in Clients /\ kind' = client'.kind /\ sent' \in 0 .. Len(client'.says)
    BY DEF Common
  <2>2. /\ at' \in Points /\ at' # "closed"
        /\ why' \in {"open", "refused", "lost", "unwritten", "late"}
        /\ (why' # "open" <=> at' = "closed")
    BY DEF Common, Points
  <2>3. need' \in Word
    BY DEF Word
  <2> QED
    BY <2>1, <2>2, <2>3, Zenon DEF Common
<1>2. Stage'
  BY DEF Stage
<1> QED
  BY <1>1, <1>2 DEF NegotiationInv

\* The port, and the relay to where the client has asked to go.
LEMMA NegPort == ASSUME NegotiationInv, Port, kind' = kind PROVE NegotiationInv'
<1> DEFINE c == client
           r == Second(c)
           g == SecondLen(c)
<1>1. /\ Common /\ at = "port" /\ ReadFull("port") /\ AtPort
      /\ client \in Clients /\ kind = client.kind /\ at # "closed"
      /\ UNCHANGED <<client, sent, kind, peek, host, replies, inEnd>>
      /\ at' = "relay" /\ need' = 0 /\ why' = why
      /\ result' = [via |-> "plain", host |-> host, port |-> U16(Buf, 0)]
  BY DEF NegotiationInv, Stage, Common, Port, Goto, ReadFull, framingVars, upVars
<1>2. /\ SocksSoFar /\ kind = "plain" /\ r[4] \in {1, 3} /\ need = 2
      /\ host = c.asks.host /\ HasRead(Total(c) - 2)
  BY <1>1 DEF AtPort, SocksSoFar
<1>3. FirstLen(c) \in Nat /\ g \in Nat /\ g >= 6 /\ Total(c) = FirstLen(c) + g
  BY <1>1, <1>2, SocksLens, FirstByte
<1>4. \A i \in 1 .. need : Buf[i] = r[(g - 2) + i]
  <2>1. g - 2 \in Nat /\ Total(c) - 2 = FirstLen(c) + (g - 2)
    BY <1>3
  <2> QED
    BY <1>1, <1>2, <2>1, RequestReads
<1>5. U16(Buf, 0) = c.asks.port
  <2>1. Buf[1] = r[(g - 2) + 1] /\ Buf[2] = r[(g - 2) + 2]
    BY <1>2, <1>4
  <2>2. U16(Buf, 0) = U16(r, g - 2)
    <3>1. 0 + 1 = 1 /\ 0 + 2 = 2
      OBVIOUS
    <3> QED
      BY <2>1, <3>1, Zenon DEF U16
  <2> QED
    BY <1>1, <1>2, <2>2, SocksRequest
<1>6. AcceptsWhatWasAsked'
  <2>1. c.asks.version = 5 /\ 0 \in c.asks.methods
    BY <1>1, <1>2, SocksSays DEF SocksSoFar
  <2>2. c.asks.cmd = 1 /\ c.asks.atyp \in {1, 3}
    BY <1>1, <1>2, SocksRequest DEF SocksSoFar
  <2>3. Acceptable(c)
    BY <1>1, <1>2, <2>1, <2>2 DEF Acceptable
  <2>4. result'.via = "plain" /\ result'.host = c.asks.host /\ result'.port = c.asks.port
    BY <1>1, <1>2, <1>5
  <2> QED
    BY <1>1, <1>2, <2>3, <2>4 DEF AcceptsWhatWasAsked
<1>7. PeekOK'
  BY <1>1 DEF Common, PeekOK, Peeked
<1> QED
  BY <1>1, <1>6, <1>7, Relays DEF Common

-----------------------------------------------------------------------------
(* The secret and the DC *)

LEMMA Least ==
  ASSUME NEW T, T \subseteq Nat, T # {}
  PROVE  Min(T) \in T
<1> DEFINE R == OpToRel(<, Nat)
<1>1. PICK x \in T : \A y \in T : ~ (<<y, x>> \in R)
  <2>1. IsWellFoundedOn(R, Nat)
    BY NatLessThanWellFounded
  <2> HIDE DEF R
  <2> QED
    BY <2>1, WFMin, Zenon
<1>2. ASSUME NEW y \in T PROVE x <= y
  <2>1. x \in Nat /\ y \in Nat
    OBVIOUS
  <2>2. y < x => <<y, x>> \in R
    BY <2>1 DEF OpToRel
  <2>3. ~ (y < x)
    BY <1>1, <2>2, Zenon
  <2> QED
    BY <2>1, <2>3
<1> HIDE DEF R
<1> QED
  BY <1>1, <1>2 DEF Min

\* The secret that is chosen, if there is one.
LEMMA MatchIs ==
  ASSUME NEW kd, NEW nonce, NEW sni, NEW i, i = Match(kd, nonce, sni)
  PROVE  /\ i # 0 => i \in 1 .. Len(Secrets)
         /\ i # 0 => Fits(Secrets[i], kd, sni) /\ Tag(nonce, Secrets[i]) \in ProtoTags
         /\ i = 0 => \A j \in 1 .. Len(Secrets) :
              ~ (Fits(Secrets[j], kd, sni) /\ Tag(nonce, Secrets[j]) \in ProtoTags)
<1> DEFINE T == {j \in 1 .. Len(Secrets) :
                   Fits(Secrets[j], kd, sni) /\ Tag(nonce, Secrets[j]) \in ProtoTags}
<1>1. i = IF T # {} THEN Min(T) ELSE 0
  BY DEF Match, SelectInSeq
<1>2. T # {} => Min(T) \in T
  <2>1. Len(Secrets) \in Nat
    BY EntryAssumption DEF IsSeq
  <2>2. T \subseteq Nat
    BY <2>1
  <2> HIDE DEF T
  <2> QED
    BY <2>2, Least
<1>3. 0 \notin T
  OBVIOUS
<1>4. CASE T # {}
  <2>1. i \in T
    BY <1>1, <1>2, <1>4
  <2> QED
    BY <1>3, <2>1
<1>5. CASE T = {}
  BY <1>1, <1>5
<1> QED
  BY <1>4, <1>5

\* Division by 2 ^ 16.
LEMMA Mod16 ==
  ASSUME NEW a \in Int
  PROVE  /\ a % 65536 \in Int /\ 0 <= a % 65536 /\ a % 65536 < 65536
         /\ \E q \in Int : a = 65536 * q + (a % 65536)
  BY SMT

LEMMA Mod16Unique ==
  ASSUME NEW q \in Int, NEW r \in Int, 0 <= r, r < 65536
  PROVE  (65536 * q + r) % 65536 = r
  BY SMT

\* The low 16 bits of x are those of r, as signed numbers.
Wraps(x, q, r) ==
  q \in Int /\ r \in Int /\ x = 65536 * q + r /\ -32768 <= r /\ r < 32768

LEMMA Int16Is == ASSUME NEW x, NEW q, NEW r, Wraps(x, q, r) PROVE Int16(x) = r
<1> USE DEF Wraps
<1>1. x + 32768 = 65536 * q + (r + 32768)
  BY SMT
<1>2. r + 32768 \in Int /\ 0 <= r + 32768 /\ r + 32768 < 65536 /\ q \in Int
  BY SMT
<1>3. (65536 * q + (r + 32768)) % 65536 = r + 32768
  BY <1>2, Mod16Unique, SMT
<1>4. (r + 32768) - 32768 = r
  BY SMT
<1> QED
  BY <1>1, <1>3, <1>4, SMT DEF Int16

\* The DC that is looked up is one the client asks for.
LEMMA DcServes ==
  ASSUME NEW x \in Int, NEW d, d = DcGet(Int16(x))
  PROVE  /\ d # 0 => d \in DcIDs /\ Serves(d, x)
         /\ \A n \in DcIDs : Serves(n, x) => d # 0
<1>1. \E q \in Int, y \in Int : Wraps(x, q, y)
  <2>1. PICK q \in Int : x + 32768 = 65536 * q + ((x + 32768) % 65536)
    BY Mod16, SMT
  <2>2. /\ (x + 32768) % 65536 \in Int
        /\ 0 <= (x + 32768) % 65536 /\ (x + 32768) % 65536 < 65536
    BY Mod16, SMT
  <2> DEFINE y == ((x + 32768) % 65536) - 32768
  <2>3. y \in Int /\ Wraps(x, q, y)
    BY <2>1, <2>2, SMT DEF Wraps
  <2> HIDE DEF y
  <2> QED
    BY <2>3
<1>2. PICK q \in Int, y \in Int : Wraps(x, q, y) /\ Int16(x) = y
  BY <1>1, Int16Is, Zenon
<1>3. \A n \in 1 .. 5 : Int16(n) = n
  <2>1. ASSUME NEW n \in 1 .. 5 PROVE Int16(n) = n
    <3>1. Wraps(n, 0, n)
      BY SMT DEF Wraps
    <3> QED
      BY <3>1, Int16Is, Zenon
  <2> QED
    BY <2>1
<1>4. y < 0 => Int16(-y) \notin 1 .. 5 \/ Int16(-y) = -y
  <2>1. CASE y = -32768
    <3>1. PICK r \in Int : r = y /\ Wraps(-y, 1, r)
      BY <2>1, SMT DEF Wraps
    <3>2. Int16(-y) = y
      BY <3>1, Int16Is, Zenon
    <3> QED
      BY <2>1, <3>2, SMT
  <2>2. CASE y < 0 /\ y # -32768
    <3>1. Wraps(-y, 0, -y)
      BY <1>2, <2>2, SMT DEF Wraps
    <3> QED
      BY <3>1, Int16Is, Zenon
  <2> QED
    BY <2>1, <2>2, SMT
<1>5. d = (LET e == IF y < 0 THEN Int16(-y) ELSE y IN IF e \in 1 .. 5 THEN e ELSE 0)
  BY <1>2 DEF DcGet, DcIDs
<1>6. ASSUME d # 0 PROVE d \in DcIDs /\ Serves(d, x)
  <2>1. d \in 1 .. 5 /\ (d = y \/ d = -y)
    BY <1>4, <1>5, <1>6, SMT
  <2>2. CASE d = y
    <3>1. x - d = 65536 * q + 0
      BY <1>2, <2>1, <2>2, SMT DEF Wraps
    <3>2. (x - d) % 65536 = 0
      BY <3>1, Mod16Unique, SMT
    <3> QED
      BY <2>1, <3>2 DEF Serves, DcIDs
  <2>3. CASE d = -y
    <3>1. x + d = 65536 * q + 0
      BY <1>2, <2>1, <2>3, SMT DEF Wraps
    <3>2. (x + d) % 65536 = 0
      BY <3>1, Mod16Unique, SMT
    <3> QED
      BY <2>1, <3>2 DEF Serves, DcIDs
  <2> QED
    BY <2>1, <2>2, <2>3
<1>7. ASSUME NEW n \in DcIDs, Serves(n, x) PROVE d # 0
  <2>1. n \in 1 .. 5
    BY DEF DcIDs
  <2>2. y = n \/ y = -n
    <3>1. CASE (x - n) % 65536 = 0
      <4>1. PICK k \in Int : x - n = 65536 * k + 0
        BY <2>1, <3>1, Mod16, SMT
      <4>2. Wraps(x, k, n)
        BY <2>1, <4>1, SMT DEF Wraps
      <4>3. Int16(x) = n
        BY <4>2, Int16Is, Zenon
      <4> QED
        BY <1>2, <4>3
    <3>2. CASE (x + n) % 65536 = 0
      <4>1. PICK k \in Int : x + n = 65536 * k + 0
        BY <2>1, <3>2, Mod16, SMT
      <4>2. Wraps(x, k, -n)
        BY <2>1, <4>1, SMT DEF Wraps
      <4>3. Int16(x) = -n
        BY <4>2, Int16Is, Zenon
      <4> QED
        BY <1>2, <4>3
    <3> QED
      BY <1>7, <3>1, <3>2 DEF Serves
  <2>3. (IF y < 0 THEN Int16(-y) ELSE y) = n
    <3>1. y = -n => y < 0 /\ -y = n
      BY <2>1, SMT
    <3>2. y = n => ~(y < 0)
      BY <2>1, SMT
    <3> QED
      BY <1>3, <2>1, <2>2, <3>1, <3>2
  <2> QED
    BY <1>5, <2>1, <2>3
<1> QED
  BY <1>6, <1>7

\* The secrets that are tried with success are those that suit the client.
LEMMA FitsSuits ==
  ASSUME NEW c \in Clients, c.kind \in {"obfs", "tls"}, NEW s, NEW nonce, NEW sni,
         nonce[InitLen - 2] = c.asks.raw, nonce[InitLen - 1] = c.asks.tag,
         c.kind = "tls" =>
           EqualFold(sni, c.asks.sni) /\ (sni = <<>> <=> c.asks.sni = <<>>)
  PROVE  Fits(s, c.kind, sni) /\ Tag(nonce, s) \in ProtoTags
           <=> Suits(s, c) /\ c.asks.tag \in ProtoTags
<1>1. Tag(nonce, s) \in ProtoTags <=> s.raw = c.asks.raw /\ c.asks.tag \in ProtoTags
  BY DEF Tag, ProtoTags
<1>2. c.kind = "tls" => (EqualFold(sni, s.domain) <=> EqualFold(c.asks.sni, s.domain))
  BY Zenon DEF EqualFold
<1>3. Fits(s, c.kind, sni) /\ s.raw = c.asks.raw <=> Suits(s, c)
  BY <1>2, Zenon DEF Fits, Suits
<1> QED
  BY <1>1, <1>3, Zenon

\* The init is accepted, or there is something wrong with it.
LEMMA Enters ==
  ASSUME Common, at # "closed", UNCHANGED <<client, sent, kind>>, PeekOK',
         replies' \in Seq(Seq(Nat)), Len(replies') <= 2,
         kind \in {"obfs", "tls"}, client.asks.hello,
         NEW nonce, NEW sni, NEW i, i = Match(kind, nonce, sni), Enter(kind, nonce, i),
         nonce[InitLen - 2] = client.asks.raw, nonce[InitLen - 1] = client.asks.tag,
         nonce[InitLen] = client.asks.dc, client.asks.dc \in Int,
         kind = "tls" =>
           EqualFold(sni, client.asks.sni) /\ (sni = <<>> <=> client.asks.sni = <<>>)
  PROVE  NegotiationInv'
<1> DEFINE c == client
           d == DcGet(Int16(nonce[InitLen]))
<1>1. c \in Clients /\ kind = c.kind /\ c.kind # "plain"
  BY DEF Common
<1>2. \A j \in 1 .. Len(Secrets) :
        Fits(Secrets[j], kind, sni) /\ Tag(nonce, Secrets[j]) \in ProtoTags
          <=> Suits(Secrets[j], c) /\ c.asks.tag \in ProtoTags
  BY <1>1, FitsSuits
<1>3. /\ i # 0 => i \in 1 .. Len(Secrets) /\ Suits(Secrets[i], c) /\ c.asks.tag \in ProtoTags
      /\ i = 0 => \A j \in 1 .. Len(Secrets) :
                    ~ (Suits(Secrets[j], c) /\ c.asks.tag \in ProtoTags)
  BY <1>2, MatchIs
<1>4. /\ d # 0 => d \in DcIDs /\ Serves(d, c.asks.dc)
      /\ \A n \in DcIDs : Serves(n, c.asks.dc) => d # 0
  BY DcServes
<1>5. DOMAIN Secrets = 1 .. Len(Secrets)
  BY EntryAssumption DEF IsSeq
<1>6. \/ /\ i # 0 /\ d # 0 /\ at' = "relay" /\ need' = 0 /\ why' = why
         /\ result' = [via |-> kind, dc |-> d, secret |-> i]
      \/ (i = 0 \/ d = 0) /\ at' = "closed" /\ why' = "refused" /\ need' = need
  BY DEF Enter, Goto, Close
<1> HIDE DEF d
<1>7. CASE at' = "relay"
  <2>1. /\ i # 0 /\ d # 0 /\ need' = 0 /\ why' = why
        /\ result' = [via |-> kind, dc |-> d, secret |-> i]
    BY <1>6, <1>7
  <2>2. Acceptable(c)
    BY <1>1, <1>3, <1>4, <1>5, <2>1 DEF Acceptable
  <2>3. Suits(Secrets[i], c) /\ Serves(d, c.asks.dc)
    BY <1>3, <1>4, <2>1
  <2>4. result'.via = kind /\ result'.dc = d /\ result'.secret = i
    BY <2>1
  <2>5. AcceptsWhatWasAsked'
    BY <1>1, <2>2, <2>3, <2>4 DEF AcceptsWhatWasAsked
  <2> QED
    BY <1>7, <2>1, <2>5, Relays
<1>8. CASE at' # "relay"
  <2>1. (i = 0 \/ d = 0) /\ at' = "closed" /\ why' = "refused" /\ need' = need
    BY <1>6, <1>8
  <2>2. ~Acceptable(c)
    BY <1>1, <1>3, <1>4, <1>5, <2>1 DEF Acceptable
  <2>3. CauseToRefuse'
    BY <2>2 DEF CauseToRefuse
  <2> QED
    BY <2>1, <2>3, Closes DEF Common
<1> QED
  BY <1>7, <1>8

\* The obfuscated init.
LEMMA NegInit == ASSUME NegotiationInv, ObfuscatedInit, kind' = kind PROVE NegotiationInv'
<1> DEFINE c == client
<1>1. /\ Common /\ at = "init" /\ ReadFull("init") /\ HasRead(0) /\ replies = <<>>
      /\ client \in Clients /\ kind = client.kind /\ at # "closed"
      /\ kind = "obfs" /\ need = InitLen
      /\ UNCHANGED <<client, sent, kind, peek, replies, inEnd>>
      /\ Enter(kind, Buf, Match(kind, Buf, <<>>))
  BY DEF NegotiationInv, Stage, AtInit, Common, ObfuscatedInit, otherFramingVars, ReadFull
<1>2. \A i \in 1 .. InitLen : Buf[i] = Script(c, i)
  <2>1. \A i \in 1 .. need : Buf[i] = Script(c, 0 + i)
    <3>1. 0 + need = 0 + need
      OBVIOUS
    <3> QED
      BY <1>1, <3>1, Reads
  <2>2. \A i \in 1 .. InitLen : 0 + i = i
    BY Sizes
  <2> QED
    BY <1>1, <2>1, <2>2
<1>3. Buf[InitLen - 2] = c.asks.raw /\ Buf[InitLen - 1] = c.asks.tag /\ Buf[InitLen] = c.asks.dc
  <2>1. InitLen - 2 \in 1 .. InitLen /\ InitLen - 1 \in 1 .. InitLen /\ InitLen \in 1 .. InitLen
    BY Sizes
  <2> QED
    BY <1>1, <1>2, <2>1, ObfsSays
<1>4. c.asks.dc \in Int /\ c.asks.hello
  BY <1>1, ObfsSays
<1>5. PeekOK'
  BY <1>1 DEF Common, PeekOK, Peeked
<1>6. replies' \in Seq(Seq(Nat)) /\ Len(replies') <= 2
  BY <1>1 DEF Common
<1> QED
  BY <1>1, <1>3, <1>4, <1>5, <1>6, Enters

LEMMA TwoBytes == ASSUME NEW x \in Byte, NEW y \in Byte PROVE 256 * x + y \in Word
  BY SMT DEF Byte, Word

\* The header of the first record.
LEMMA NegHeader == ASSUME NegotiationInv, RecordHeader, kind' = kind PROVE NegotiationInv'
<1> DEFINE c == client
<1>1. /\ Common /\ at = "header" /\ ReadFull("header") /\ HasRead(0) /\ replies = <<>>
      /\ client \in Clients /\ kind = client.kind /\ at # "closed"
      /\ kind \in {"obfs", "tls"} /\ Script(client, 1) = TlsByte /\ need = 5
      /\ UNCHANGED <<client, sent, kind, peek, replies, inEnd>>
      /\ at' = "body" /\ need' = U16(Buf, 3) /\ why' = why
  BY DEF NegotiationInv, Stage, AtHeader, Common, RecordHeader, ReadFull, Goto,
         framingVars, upVars
<1>2. /\ Carries(client', sent', inEnd', replies', wire', 5)
      /\ Buf[4] = Script(c, 4) /\ Buf[5] = Script(c, 5)
  <2>1. 5 = 0 + need
    BY <1>1
  <2>2. /\ Carries(client', sent', inEnd', replies', wire', 5)
        /\ \A i \in 1 .. need : Buf[i] = Script(c, 0 + i)
    BY <1>1, <2>1, Reads
  <2>3. 4 \in 1 .. need /\ 5 \in 1 .. need /\ 0 + 4 = 4 /\ 0 + 5 = 5
    BY <1>1
  <2> QED
    BY <2>2, <2>3
<1>3. Script(c, 4) \in Byte /\ Script(c, 5) \in Byte
  <2>1. CASE c.kind = "obfs"
    <3>1. 4 \in 1 .. InitLen - 3 /\ 5 \in 1 .. InitLen - 3
      BY Sizes
    <3> QED
      BY <1>1, <2>1, <3>1, ObfsSays
  <2>2. CASE c.kind = "tls"
    BY <1>1, <2>2, TlsSays
  <2> QED
    BY <1>1, <2>1, <2>2
<1>4. need' = 256 * Script(c, 4) + Script(c, 5)
  <2>1. 3 + 1 = 4 /\ 3 + 2 = 5
    OBVIOUS
  <2>2. need' = 256 * Buf[4] + Buf[5]
    BY <1>1, <2>1 DEF U16
  <2> QED
    BY <1>2, <2>2
<1>5. need' \in Word
  BY <1>3, <1>4, TwoBytes
<1>6. AtBody'
  BY <1>1, <1>2, <1>4 DEF AtBody, HasRead
<1>7. Stage'
  BY <1>1, <1>6 DEF Stage
<1>8. PeekOK'
  BY <1>1 DEF Common, PeekOK, Peeked
<1> QED
  BY <1>1, <1>5, <1>7, <1>8, Goes DEF Common, Points

\* Where readClientHello finds the init.
LEMMA HelloNonce ==
  ASSUME NEW rec \in Seq(Symbol), NEW n \in Nat, n = Len(rec), 7 + InitLen <= n,
         NEW nonce, nonce = SubSeq(rec, 7, 6 + Half) \o SubSeq(rec, 8 + Half, 7 + InitLen)
  PROVE  /\ nonce # <<>> /\ nonce[InitLen - 2] = rec[5 + InitLen]
         /\ nonce[InitLen - 1] = rec[6 + InitLen] /\ nonce[InitLen] = rec[7 + InitLen]
<1> DEFINE a == SubSeq(rec, 7, 6 + Half)
           b == SubSeq(rec, 8 + Half, 7 + InitLen)
<1>1. InitLen = 2 * Half /\ Half \in Nat /\ Half >= 4
  BY Sizes
<1>2. \A i \in 1 .. n : rec[i] \in Symbol
  BY ElementOfSeq
<1>3. a \in Seq(Symbol) /\ Len(a) = Half
  <2>1. \A i \in 7 .. 6 + Half : i \in 1 .. n
    BY <1>1
  <2>2. \A i \in 7 .. 6 + Half : rec[i] \in Symbol
    BY <1>2, <2>1
  <2>3. 7 \in Int /\ 6 + Half \in Int /\ 7 <= 6 + Half /\ (6 + Half) - 7 + 1 = Half
    BY <1>1
  <2>4. a \in Seq(Symbol) /\ Len(a) = IF 7 <= 6 + Half THEN (6 + Half) - 7 + 1 ELSE 0
    BY ONLY <2>2, <2>3, SubSeqProperties
  <2> QED
    BY <2>3, <2>4
<1>4. /\ b \in Seq(Symbol) /\ Len(b) = Half
      /\ \A i \in 1 .. Half : b[i] = rec[7 + Half + i]
  <2>1. \A i \in 8 + Half .. 7 + InitLen : i \in 1 .. n
    BY <1>1
  <2>2. \A i \in 8 + Half .. 7 + InitLen : rec[i] \in Symbol
    BY <1>2, <2>1
  <2>3. /\ 8 + Half \in Int /\ 7 + InitLen \in Int /\ 8 + Half <= 7 + InitLen
        /\ (7 + InitLen) - (8 + Half) + 1 = Half
    BY <1>1
  <2>4. /\ b \in Seq(Symbol)
        /\ Len(b) = IF 8 + Half <= 7 + InitLen THEN (7 + InitLen) - (8 + Half) + 1 ELSE 0
        /\ \A i \in 1 .. (7 + InitLen) - (8 + Half) + 1 : b[i] = rec[8 + Half + i - 1]
    BY ONLY <2>2, <2>3, SubSeqProperties
  <2>5. \A i \in 1 .. Half : 8 + Half + i - 1 = 7 + Half + i
    BY <1>1
  <2> QED
    BY <2>3, <2>4, <2>5
<1> HIDE DEF a, b
<1>5. /\ nonce \in Seq(Symbol) /\ Len(nonce) = Half + Half
      /\ \A i \in 1 .. Half + Half : nonce[i] = IF i <= Half THEN a[i] ELSE b[i - Half]
  <2>1. nonce = a \o b
    BY DEF a, b
  <2> QED
    BY ONLY <1>3, <1>4, <2>1, ConcatProperties
<1>6. ASSUME NEW i \in 1 .. InitLen, i > Half PROVE nonce[i] = rec[7 + i]
  <2>1. i \in 1 .. Half + Half /\ ~(i <= Half) /\ i - Half \in 1 .. Half
        /\ 7 + Half + (i - Half) = 7 + i
    BY <1>1, <1>6
  <2> QED
    BY <1>4, <1>5, <2>1
<1>7. /\ InitLen - 2 \in 1 .. InitLen /\ InitLen - 2 > Half /\ 7 + (InitLen - 2) = 5 + InitLen
      /\ InitLen - 1 \in 1 .. InitLen /\ InitLen - 1 > Half /\ 7 + (InitLen - 1) = 6 + InitLen
      /\ InitLen \in 1 .. InitLen /\ InitLen > Half
  BY <1>1
<1>8. nonce # <<>>
  <2>1. Half + Half # 0
    BY <1>1
  <2> QED
    BY <1>5, <2>1
<1> QED
  BY <1>6, <1>7, <1>8

LEMMA HelloRead ==
  ASSUME NEW rec \in Seq(Symbol), NEW n \in Nat, n = Len(rec)
  PROVE  LET h == ReadClientHello(rec)
             fits == 7 + InitLen <= n /\ rec[1] = 1 /\ rec[7 + Half] = Half
         IN /\ ~fits => h = NotAHello
            /\ fits => /\ h # NotAHello /\ h.sni = ServerName(rec, 7 + InitLen)
                       /\ h.nonce[InitLen - 2] = rec[5 + InitLen]
                       /\ h.nonce[InitLen - 1] = rec[6 + InitLen]
                       /\ h.nonce[InitLen] = rec[7 + InitLen]
<1> DEFINE h == ReadClientHello(rec)
           nonce == SubSeq(rec, 7, 6 + Half) \o SubSeq(rec, 8 + Half, 7 + InitLen)
<1>1. InitLen = 2 * Half /\ Half \in Nat /\ Half >= 4
  BY Sizes
<1>2. /\ 6 + 1 = 7 /\ 6 + Half + 1 = 7 + Half /\ 6 + Half + 1 + 1 = 8 + Half
      /\ 6 + Half + 1 + Half = 7 + InitLen /\ (7 + InitLen > n <=> ~(7 + InitLen <= n))
  BY <1>1
<1>3. h = IF ~(7 + InitLen <= n) \/ rec[1] # 1 \/ rec[7 + Half] # Half THEN NotAHello
          ELSE [nonce |-> nonce, sni |-> ServerName(rec, 7 + InitLen)]
  BY <1>2, Zenon DEF ReadClientHello
<1> HIDE DEF h
<1>4. ASSUME 7 + InitLen <= n
      PROVE  /\ nonce # <<>> /\ nonce[InitLen - 2] = rec[5 + InitLen]
             /\ nonce[InitLen - 1] = rec[6 + InitLen] /\ nonce[InitLen] = rec[7 + InitLen]
  BY <1>4, HelloNonce
<1> HIDE DEF nonce
<1>5. ASSUME 7 + InitLen <= n, rec[1] = 1, rec[7 + Half] = Half
      PROVE  /\ h # NotAHello /\ h.nonce = nonce /\ h.sni = ServerName(rec, 7 + InitLen)
  <2>1. h = [nonce |-> nonce, sni |-> ServerName(rec, 7 + InitLen)]
    BY <1>3, <1>5
  <2> QED
    BY <1>4, <1>5, <2>1 DEF NotAHello
<1> QED
  BY <1>3, <1>4, <1>5 DEF h

\* What a client of kind tls says behind the header of its record.
LEMMA TlsHello ==
  ASSUME NEW c \in Clients, c.kind = "tls", NEW rec, rec = SubSeq(First(c), 6, Len(First(c)))
  PROVE  LET fits == Len(rec) >= 7 + InitLen /\ rec[1] = 1 /\ rec[7 + Half] = Half IN
         /\ c.asks.hello <=> fits
         /\ fits => /\ rec[5 + InitLen] = c.asks.raw /\ rec[6 + InitLen] = c.asks.tag
                    /\ rec[7 + InitLen] = c.asks.dc /\ c.asks.dc \in Int
                    /\ EqualFold(ServerName(rec, 7 + InitLen), c.asks.sni)
                    /\ ServerName(rec, 7 + InitLen) = <<>> <=> c.asks.sni = <<>>
<1> DEFINE rest == 7 + InitLen
<1>1. TlsScript(c)
  BY Kinds
<1>2. /\ c.asks.hello = (Len(rec) >= rest /\ rec[1] = 1 /\ rec[7 + Half] = Half)
      /\ c.asks.hello =>
           /\ rec[rest - 2] = c.asks.raw /\ rec[rest - 1] = c.asks.tag
           /\ rec[rest] = c.asks.dc /\ c.asks.dc \in Int
           /\ EqualFold(ServerName(rec, rest), c.asks.sni)
           /\ ServerName(rec, rest) = <<>> <=> c.asks.sni = <<>>
  BY <1>1, Zenon DEF TlsScript, First
<1>3. rest - 2 = 5 + InitLen /\ rest - 1 = 6 + InitLen
  BY Sizes
<1> QED
  BY <1>2, <1>3, Zenon

\* The first record.
LEMMA NegHello == ASSUME NegotiationInv, ClientHello, kind' = kind PROVE NegotiationInv'
<1> DEFINE c == client
           h == ReadClientHello(Buf)
           i == Match("tls", h.nonce, h.sni)
<1>1. /\ Common /\ at = "body" /\ ReadFull("body") /\ HasRead(5) /\ replies = <<>>
      /\ client \in Clients /\ kind = client.kind /\ at # "closed"
      /\ kind \in {"obfs", "tls"} /\ Script(client, 1) = TlsByte
      /\ need = 256 * Script(client, 4) + Script(client, 5)
      /\ UNCHANGED <<client, sent, kind, peek, inEnd>>
  BY DEF NegotiationInv, Stage, AtBody, Common, ClientHello, ReadFull, otherFramingVars
<1>2. \/ h = NotAHello /\ at' = "closed" /\ why' = "refused" /\ need' = need /\ replies' = replies
      \/ /\ h # NotAHello /\ Enter("tls", h.nonce, i)
         /\ replies' = replies \/ replies' = Append(replies, <<TlsByte>>)
  BY DEF ClientHello, Close, Write
<1>3. /\ replies' \in Seq(Seq(Nat)) /\ Len(replies') <= 2
      /\ replies' = replies \/ replies' # <<>>
  <2>1. replies' = <<>> \/ replies' = <<<<22>>>>
    BY <1>1, <1>2 DEF TlsByte
  <2>2. <<22>> \in Seq(Nat)
    OBVIOUS
  <2>3. CASE replies' = <<>>
    BY <1>1, <2>3
  <2>4. CASE replies' = <<<<22>>>>
    <3>1. PICK m \in Seq(Nat) : replies' = <<m>>
      BY <2>2, <2>4
    <3> QED
      BY <3>1
  <2> QED
    BY <2>1, <2>3, <2>4
<1> HIDE DEF h
<1>4. need \in Nat /\ PeekOK'
  BY <1>1, NeedNat DEF Common, PeekOK, Peeked
<1>5. /\ Buf \in Seq(Symbol) /\ Len(Buf) = need /\ 5 + need <= Total(c)
      /\ \A j \in 1 .. need : Buf[j] = Script(c, 5 + j)
  <2>1. 5 + need = 5 + need
    OBVIOUS
  <2> QED
    BY <1>1, <1>3, <2>1, Reads
<1>6. CASE c.kind = "obfs"
  <2>1. ~(7 + InitLen <= need)
    <3>1. Total(c) = InitLen /\ InitLen \in Nat
      BY <1>1, <1>6, ObfsSays, Sizes
    <3> QED
      BY <1>4, <1>5, <3>1
  <2>2. h = NotAHello
    BY <1>4, <1>5, <2>1, HelloRead DEF h
  <2>3. TakenForAnother(c)
    BY <1>1, <1>6, Mistaken
  <2>4. CauseToRefuse'
    BY <1>1, <2>3 DEF CauseToRefuse
  <2> QED
    BY <1>1, <1>2, <1>3, <1>4, <2>2, <2>4, Closes DEF Common
<1>7. CASE c.kind = "tls"
  <2> DEFINE fits == 7 + InitLen <= need /\ Buf[1] = 1 /\ Buf[7 + Half] = Half
  <2>1. Buf = SubSeq(First(c), 6, Len(First(c)))
    <3>1. /\ First(c) \in Seq(Symbol) /\ Total(c) = Len(First(c)) /\ Len(First(c)) \in Nat
          /\ \A j \in 1 .. Total(c) : Script(c, j) = First(c)[j]
      BY <1>1, <1>7, OneMessage, TlsSays DEF FirstLen
    <3>2. 5 + need = Len(First(c))
      <4>1. \A x, y \in Byte : 5 + 256 * x + y = 5 + (256 * x + y)
        BY DEF Byte
      <4> QED
        BY <1>1, <1>7, <3>1, <4>1, TlsSays
    <3>3. ASSUME NEW j \in 1 .. need PROVE Buf[j] = First(c)[5 + j]
      <4>1. 5 + j \in 1 .. Total(c)
        BY <1>4, <3>1, <3>2
      <4> QED
        BY <1>5, <3>1, <4>1
    <3>4. Buf = SubSeq(First(c), 5 + 1, 5 + need)
      <4>1. /\ Len(First(c)) \in Nat /\ 5 \in Nat /\ 5 + need <= Len(First(c))
            /\ \A j \in 1 .. need : Buf[j] = First(c)[5 + j]
        BY <3>1, <3>2, <3>3
      <4> QED
        BY ONLY <1>4, <1>5, <3>1, <4>1, Slice
    <3>5. 5 + 1 = 6
      OBVIOUS
    <3> QED
      BY <3>2, <3>4, <3>5
  <2>2. /\ c.asks.hello <=> fits
        /\ fits => /\ Buf[5 + InitLen] = c.asks.raw /\ Buf[6 + InitLen] = c.asks.tag
                   /\ Buf[7 + InitLen] = c.asks.dc /\ c.asks.dc \in Int
                   /\ EqualFold(ServerName(Buf, 7 + InitLen), c.asks.sni)
                   /\ ServerName(Buf, 7 + InitLen) = <<>> <=> c.asks.sni = <<>>
    <3>1. Len(Buf) >= 7 + InitLen <=> 7 + InitLen <= need
      BY <1>4, <1>5, Sizes
    <3> QED
      BY <1>1, <1>7, <2>1, <3>1, TlsHello
  <2>3. /\ ~fits => h = NotAHello
        /\ fits => /\ h # NotAHello /\ h.sni = ServerName(Buf, 7 + InitLen)
                   /\ h.nonce[InitLen - 2] = Buf[5 + InitLen]
                   /\ h.nonce[InitLen - 1] = Buf[6 + InitLen]
                   /\ h.nonce[InitLen] = Buf[7 + InitLen]
    BY <1>4, <1>5, HelloRead DEF h
  <2> HIDE DEF fits
  <2>4. CASE fits
    <3>1. Enter(kind, h.nonce, Match(kind, h.nonce, h.sni))
      BY <1>1, <1>2, <1>7, <2>3, <2>4
    <3>2. /\ h.nonce[InitLen - 2] = c.asks.raw /\ h.nonce[InitLen - 1] = c.asks.tag
          /\ h.nonce[InitLen] = c.asks.dc /\ c.asks.dc \in Int /\ c.asks.hello
          /\ EqualFold(h.sni, c.asks.sni) /\ (h.sni = <<>> <=> c.asks.sni = <<>>)
      BY <2>2, <2>3, <2>4
    <3> QED
      BY <1>1, <1>3, <1>4, <3>1, <3>2, Enters
  <2>5. CASE ~fits
    <3>1. /\ at' = "closed" /\ why' = "refused" /\ need' = need
          /\ ~c.asks.hello
      BY <1>2, <2>2, <2>3, <2>5
    <3>2. CauseToRefuse'
      BY <1>1, <1>7, <3>1 DEF CauseToRefuse, Acceptable
    <3> QED
      BY <1>1, <1>3, <1>4, <3>1, <3>2, Closes DEF Common
  <2> QED
    BY <2>4, <2>5
<1> QED
  BY <1>1, <1>6, <1>7

-----------------------------------------------------------------------------
(* The invariant *)

\* What follows in the stream is not read before the relay.
LEMMA NegStreaming == ASSUME NegotiationInv, Streaming, kind' = kind PROVE NegotiationInv'
<1>1. /\ Common /\ Stage /\ AcceptsWhatWasAsked
      /\ UNCHANGED <<client, sent, wire, at, need, peek, host, replies, result, why>>
  BY DEF NegotiationInv, Streaming, entryVars, handlerVars
<1>2. sent = Len(client.says) \/ at \in {"relay", "closed"}
  BY DEF Streaming
<1>3. PeekOK' /\ Peeked' = Peeked
  BY <1>1 DEF Common, PeekOK, Peeked
<1>4. Common'
  BY <1>1, <1>3 DEF Common
<1>5. AcceptsWhatWasAsked'
  BY <1>1 DEF AcceptsWhatWasAsked
<1>6. Stage'
  <2>1. CASE at \in {"relay", "closed"}
    <3>1. AtClosed => AtClosed'
      BY <1>1 DEF AtClosed, CauseToRefuse
    <3> QED
      BY <1>1, <2>1, <3>1 DEF Stage
  <2>2. CASE sent = Len(client.says) /\ at # "closed"
    <3>1. \A k : HasRead(k) => Carries(client', sent', inEnd', replies', wire', k)
      BY <1>1, <2>2 DEF HasRead, Carries
    <3>2. AtPeek => AtPeek'
      BY <1>1, <3>1 DEF AtPeek, HasRead
    <3>3. AtGreeting => AtGreeting'
      BY <1>1, <1>3, <3>1 DEF AtGreeting, HasRead
    <3>4. AtMethods => AtMethods'
      BY <1>1, <1>3, <3>1 DEF AtMethods, HasRead
    <3>5. AtRequest => AtRequest'
      BY <1>1, <1>3, <3>1 DEF AtRequest, HasRead
    <3>6. SocksSoFar => SocksSoFar'
      BY <1>1, <1>3 DEF SocksSoFar
    <3>7. /\ AtAddress(1, 4, 4) => AtAddress(1, 4, 4)'
          /\ AtAddress(3, 4, 1) => AtAddress(3, 4, 1)'
          /\ AtAddress(3, 5, Second(client)[5]) => AtAddress(3, 5, Second(client)[5])'
          /\ AtAddress(4, 4, 18) => AtAddress(4, 4, 18)'
      BY <1>1, <3>1, <3>6 DEF AtAddress, HasRead
    <3>8. AtPort => AtPort'
      BY <1>1, <3>1, <3>6 DEF AtPort, HasRead
    <3>9. (AtInit => AtInit') /\ (AtHeader => AtHeader') /\ (AtBody => AtBody')
      BY <1>1, <3>1 DEF AtInit, AtHeader, AtBody, HasRead
    <3> QED
      BY <1>1, <2>2, <3>2, <3>3, <3>4, <3>5, <3>7, <3>8, <3>9 DEF Stage
  <2> QED
    BY <1>2, <2>1, <2>2
<1> QED
  BY <1>4, <1>5, <1>6 DEF NegotiationInv

\* At first nothing is read, and nothing is sent.
LEMMA NegInit0 == ASSUME EntryInit PROVE NegotiationInv
<1> DEFINE c == client
<1>1. /\ client \in Clients /\ kind = client.kind /\ inEnd = "open" /\ sent = 0 /\ wire = <<>>
      /\ peek = <<>> /\ replies = <<>> /\ why = "open"
      /\ at = (IF client.port = "main" THEN "peek" ELSE "greeting")
      /\ need = (IF client.port = "main" THEN 1 ELSE 2)
  BY DEF EntryInit, FramingInit
<1>2. Peeked = 0 /\ Len(replies) = 0 /\ Len(wire) = 0 /\ wire \in Seq(Symbol)
  BY <1>1 DEF Peeked
<1>3. FirstLen(c) \in Nat /\ Total(c) \in Nat /\ SaidLen(c, 0) = 0
  BY <1>1, FirstByte, SaidLens
<1>4. HasRead(0)
  BY <1>1, <1>2, <1>3, Kinds DEF HasRead, Carries
<1>5. PeekOK
  BY <1>1, <1>2, <1>3 DEF PeekOK, Begins, PeekLen
<1>6. Common
  <2>1. sent \in 0 .. Len(client.says)
    BY <1>1, Kinds
  <2>2. at \in Points /\ at # "closed"
    BY <1>1 DEF Points
  <2>3. need \in Word
    <3>1. 1 \in Byte /\ 2 \in Byte
      BY DEF Byte
    <3> QED
      BY <1>1, <3>1, WordSizes
  <2>4. replies \in Seq(Seq(Nat)) /\ Len(replies) <= 2
    BY <1>1
  <2> QED
    BY <1>1, <1>5, <2>1, <2>2, <2>3, <2>4 DEF Common
<1>7. Stage
  <2>1. CASE client.port = "main"
    <3>1. AtPeek
      BY <1>1, <1>4, <2>1 DEF AtPeek
    <3> QED
      BY <1>1, <2>1, <3>1 DEF Stage
  <2>2. CASE client.port # "main"
    <3>1. kind = "plain"
      BY <1>1, <2>2, OneMessage
    <3>2. AtGreeting
      BY <1>1, <1>2, <1>4, <2>2, <3>1 DEF AtGreeting
    <3> QED
      BY <1>1, <2>2, <3>2 DEF Stage
  <2> QED
    BY <2>1, <2>2
<1>8. AcceptsWhatWasAsked
  BY <1>1 DEF AcceptsWhatWasAsked
<1> QED
  BY <1>6, <1>7, <1>8 DEF NegotiationInv

LEMMA KindStays == EntryNext => kind' = kind
<1>1. Negotiates => kind' = kind
  BY DEF Negotiates
<1>2. Streaming => kind' = kind
  BY DEF Streaming, ClientEnds, ClientOther, ClientWrite, ReadBuffered, ReadRecord, ReadEnds,
         WriteChunk, ClientRead, ReadStream, WriteCall
<1> QED
  BY <1>1, <1>2, NegotiatesOrStreams

LEMMA NegNext == ASSUME NegotiationInv, [EntryNext]_vars PROVE NegotiationInv'
<1>1. CASE UNCHANGED vars
  BY <1>1 DEF vars, entryVars, handlerVars, framingVars, upVars, NegotiationInv, Common, PeekOK,
      Peeked, Stage, AcceptsWhatWasAsked, AtPeek, AtGreeting, AtMethods, AtRequest, AtAddress,
      AtPort, AtInit, AtHeader, AtBody, AtClosed, CauseToRefuse, SocksSoFar, HasRead
<1>2. CASE EntryNext
  <2>1. kind' = kind
    BY <1>2, KindStays
  <2>2. CASE ClientSays \/ ClientQuits
    BY <2>1, <2>2, NegClient
  <2>3. CASE ReadFails \/ WriteFails \/ Deadline
    BY <2>1, <2>3, NegEnds
  <2>4. CASE Peek
    BY <2>1, <2>4, NegPeek
  <2>5. CASE Greeting
    BY <2>1, <2>5, NegGreeting
  <2>6. CASE Methods
    BY <2>1, <2>6, NegMethods
  <2>7. CASE Request
    BY <2>1, <2>7, NegRequest
  <2>8. CASE DomainLength
    BY <2>1, <2>8, NegLength
  <2>9. CASE Host
    BY <2>1, <2>9, NegHost
  <2>10. CASE SkipIPv6
    BY <2>1, <2>10, NegSkipIPv6
  <2>11. CASE Port
    BY <2>1, <2>11, NegPort
  <2>12. CASE ObfuscatedInit
    BY <2>1, <2>12, NegInit
  <2>13. CASE RecordHeader
    BY <2>1, <2>13, NegHeader
  <2>14. CASE ClientHello
    BY <2>1, <2>14, NegHello
  <2>15. CASE Streaming
    BY <2>1, <2>15, NegStreaming
  <2> QED
    BY <1>2, <2>2, <2>3, <2>4, <2>5, <2>6, <2>7, <2>8, <2>9, <2>10, <2>11, <2>12, <2>13,
       <2>14, <2>15 DEF EntryNext
<1> QED
  BY <1>1, <1>2

LEMMA NegotiationInvariant == EntrySpec => []NegotiationInv
<1>1. EntryInit => NegotiationInv
  BY NegInit0
<1>2. NegotiationInv /\ [EntryNext]_vars => NegotiationInv'
  BY NegNext
<1> QED
  BY <1>1, <1>2, PTL DEF EntrySpec

\* Type correctness of the handshakes and of the stream behind them.
THEOREM EntryTypeCorrect == EntrySpec => []EntryTypeOK
<1>1. StreamInv => FramingTypeOK
  BY DEF StreamInv, UpBytes, DownInv, Queue, Counted, FramingTypeOK
<1>2. NegotiationInv /\ FramingTypeOK => EntryTypeOK
  BY DEF NegotiationInv, Common, PeekOK, Peeked, EntryTypeOK
<1> QED
  BY <1>1, <1>2, NegotiationInvariant, StreamInvariant, PTL

\* Whatever splits the stream and whichever bytes the detection has peeked, a connection is
\* relayed only to where its client has asked to go (handle, socks5Handshake, the secret
\* loops of newObfuscatedClientConn and newFakeTLSClientConn, dc.List.Get).
THEOREM EntryAccepts == EntrySpec => []AcceptsWhatWasAsked
<1>1. NegotiationInv => AcceptsWhatWasAsked
  BY DEF NegotiationInv
<1> QED
  BY <1>1, NegotiationInvariant, PTL

\* No client that asks for something the proxy offers is refused or left waiting, but for
\* the two causes in the detection (server.go, line 99, and socks5.go, line 83).
THEOREM EntryRejects == EntrySpec => []RejectsForCause
<1>1. NegotiationInv => RejectsForCause
  <2> SUFFICES ASSUME NegotiationInv, Refused PROVE CauseToRefuse
    BY DEF RejectsForCause
  <2>1. Common /\ Stage
    BY DEF NegotiationInv
  <2>2. CASE why = "refused" \/ (why = "lost" /\ sent = Len(client.says))
    <3>1. at = "closed"
      BY <2>1, <2>2 DEF Common
    <3> QED
      BY <2>1, <2>2, <3>1 DEF Stage, AtClosed
  <2>3. CASE Starves
    BY <2>1, <2>3, Waits
  <2> QED
    BY <2>2, <2>3 DEF Refused
<1> QED
  BY <1>1, NegotiationInvariant, PTL

=============================================================================
