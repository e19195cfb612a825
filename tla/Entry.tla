-------------------------------- MODULE Entry --------------------------------
(***************************************************************************)
(* A client's way into the proxy: what handle (proxy/server.go) and the    *)
(* three handshakes, proxy/socks5.go, proxy/obfuscated.go and              *)
(* proxy/faketls.go, read from one connection between Accept and the dial, *)
(* and what they make of it: the target, or the end of the connection.     *)
(* After an MTProto handshake the connection goes on as in Framing.  The   *)
(* dial and the relay are in Server.                                       *)
(*                                                                         *)
(* A client is a script: the messages of its handshake, byte by byte, and, *)
(* in asks, what it wants.  A byte stands for itself, except in the        *)
(* enciphered init of InitLen bytes: its last three stand for the secret   *)
(* it was made with, the protocol tag and the DC number.                   *)
(***************************************************************************)
EXTENDS Framing, SequencesExt

CONSTANTS
  Clients,    \* the scripts that may connect
  Secrets     \* cfg.Secrets: a sequence of records type, raw, domain

Half == InitLen \div 2    \* ClientHello.random and the session id, 32 bytes each

\* s is a sequence, whatever its elements are.
IsSeq(s) == Len(s) \in Nat /\ s = [i \in 1 .. Len(s) |-> s[i]]

\* The length of the session id is a byte.
ASSUME EntryAssumption == InitLen = 2 * Half /\ Half \in 4 .. 255 /\ IsSeq(Secrets)

PeekLen == 4
ProtoTags == {"abridged", "intermediate", "full"}

VARIABLES
  client,     \* the script at the other end
  sent,       \* messages of it that were sent as a whole
  wire,       \* bytes that have arrived and were not read
  at,         \* what the handler reads next, or "relay", "closed"
  need,       \* bytes that this io.ReadFull waits for
  peek,       \* the bytes read to detect the protocol
  host,       \* host of socks5Handshake
  replies,    \* what the proxy has written
  result,     \* the target of the dial
  why         \* why the connection was closed

handlerVars == <<at, need, peek, host, replies, result, why>>
entryVars == <<client, sent, wire, handlerVars>>
vars == <<entryVars, framingVars>>

NoResult == [via |-> "none"]

EntryInit ==
  /\ client \in Clients
  /\ FramingInit(client.kind, 0)
  /\ sent = 0 /\ wire = <<>>
  /\ at = (IF client.port = "main" THEN "peek" ELSE "greeting")
  /\ need = (IF client.port = "main" THEN 1 ELSE 2)
  /\ peek = <<>> /\ host = <<>> /\ replies = <<>> /\ result = NoResult /\ why = "open"

Negotiating == at \notin {"relay", "closed"}

-----------------------------------------------------------------------------
(* The client (external).  An eager one does not wait for answers. *)

Speaks ==
  /\ inEnd = "open" /\ Negotiating /\ sent < Len(client.says)
  /\ client.eager \/ Len(replies) >= sent
  /\ UNCHANGED <<client, handlerVars>>

ClientSays ==
  /\ Speaks
  /\ wire' = wire \o client.says[sent + 1] /\ sent' = sent + 1
  /\ UNCHANGED framingVars

\* Its connection ends before its script does, somewhere within a message.
ClientQuits ==
  /\ Speaks
  /\ \E n \in 0 .. Len(client.says[sent + 1]) - 1 :
       wire' = wire \o SubSeq(client.says[sent + 1], 1, n)
  /\ inEnd' = "fin"
  /\ UNCHANGED <<sent, kind, cSent, inq, encPos, readBuf, reading, delivered, downVars>>

-----------------------------------------------------------------------------
(* Reading and answering *)

\* io.ReadFull for what is read at point p; Buf is what it returns.
ReadFull(p) == at = p /\ Len(wire) >= need /\ wire' = Rest(wire, need)
Buf == SubSeq(wire, 1, need)

Goto(p, n) == at' = p /\ need' = n /\ UNCHANGED why
Close(cause) == at' = "closed" /\ why' = cause /\ UNCHANGED need
Write(m) == replies' = Append(replies, m)

\* The stream has ended before ReadFull is done (at "ipv6", see SkipIPv6).
ReadFails ==
  /\ Negotiating /\ at # "ipv6" /\ inEnd # "open" /\ Len(wire) < need
  /\ Close("lost")
  /\ UNCHANGED <<client, sent, wire, peek, host, replies, result, framingVars>>

\* The answer cannot be written: the client is gone.
WriteFails ==
  /\ inEnd # "open" /\ (ReadFull("methods") \/ ReadFull("body"))
  /\ Close("unwritten")
  /\ UNCHANGED <<client, sent, peek, host, replies, result, framingVars>>

\* The deadline of Accept; the port of listenSOCKS5 sets none.
Deadline ==
  /\ client.port = "main" /\ Negotiating
  /\ Close("late")
  /\ UNCHANGED <<client, sent, wire, peek, host, replies, result, framingVars>>

U16(s, p) == 256 * s[p + 1] + s[p + 2]

-----------------------------------------------------------------------------
(* handle: the protocol by the first byte *)

SocksByte == 5
TlsByte == 22
Foreign == {4, 71, 80, 67, 68, 72}    \* SOCKS4, and the letters G P C D H of HTTP

\* Mutant: a greeting that peek has read as a whole is not considered.
Missing_Signed(p) == p[2] - (Len(p) - 2)

\* Bytes of the method list that are not among the bytes p.
Missing(p) == IF p[2] > Len(p) - 2 THEN p[2] - (Len(p) - 2) ELSE 0

\* io.ReadAtLeast(rawConn, peek, 1) returns what has arrived.  prependConn gives the
\* bytes back to the MTProto handshakes; socks5Handshake keeps them.
Peek ==
  /\ at = "peek" /\ wire # <<>>
  /\ \E n \in 1 .. PeekLen : n <= Len(wire) /\ peek' = SubSeq(wire, 1, n)
  /\ LET first == wire[1] IN
       \/ /\ first = SocksByte
          /\ wire' = Rest(wire, Len(peek'))
          /\ IF Len(peek') = 1 THEN Goto("greeting", 1) ELSE Goto("methods", Missing(peek'))
       \/ first \in Foreign /\ Close("refused") /\ UNCHANGED wire
       \/ first = TlsByte /\ Goto("header", 5) /\ UNCHANGED wire
       \/ first \notin Foreign \cup {SocksByte, TlsByte} /\ Goto("init", InitLen) /\ UNCHANGED wire
  /\ UNCHANGED <<client, sent, host, replies, result, framingVars>>

-----------------------------------------------------------------------------
(* socks5Handshake *)

Greeting ==
  /\ ReadFull("greeting")
  /\ peek' = peek \o Buf
  /\ IF peek'[1] = SocksByte THEN Goto("methods", Missing(peek')) ELSE Close("refused")
  /\ UNCHANGED <<client, sent, host, replies, result, framingVars>>

\* copy(methods, peek[2:]) drops what was peeked beyond the methods.
Methods ==
  /\ ReadFull("methods")
  /\ LET methods == SubSeq(peek \o Buf, 3, 2 + peek[2]) IN
       IF 0 \in ToSet(methods) THEN Write(<<5, 0>>) /\ Goto("request", 4)
                               ELSE Write(<<5, 255>>) /\ Close("refused")
  /\ UNCHANGED <<client, sent, peek, host, result, framingVars>>

Request ==
  /\ ReadFull("request")
  /\ LET atyp == Buf[4] IN
       \/ Buf[1] # SocksByte /\ Close("refused") /\ UNCHANGED replies
       \/ /\ Buf[1] = SocksByte
          /\ \/ Buf[2] # 1 /\ Write(<<5, 7>>) /\ Close("refused")
             \/ /\ Buf[2] = 1
                /\ \/ atyp = 1 /\ Goto("ipv4", 4) /\ UNCHANGED replies
                   \/ atyp = 3 /\ Goto("length", 1) /\ UNCHANGED replies
                   \/ atyp = 4 /\ Goto("ipv6", 18) /\ UNCHANGED replies
                   \/ atyp \notin {1, 3, 4} /\ Write(<<5, 8>>) /\ Close("refused")
  /\ UNCHANGED <<client, sent, peek, host, result, framingVars>>

DomainLength ==
  /\ ReadFull("length") /\ Goto("domain", Buf[1])
  /\ UNCHANGED <<client, sent, peek, host, replies, result, framingVars>>

Host ==
  /\ ReadFull("ipv4") \/ ReadFull("domain")
  /\ host' = Buf /\ Goto("port", 2)
  /\ UNCHANGED <<client, sent, peek, replies, result, framingVars>>

\* Address and port are read, or what there is of them, for the sake of the answer.
SkipIPv6 ==
  /\ at = "ipv6" /\ (Len(wire) >= need \/ inEnd # "open")
  /\ wire' = Rest(wire, need)
  /\ Write(<<5, 8>>) /\ Close("refused")
  /\ UNCHANGED <<client, sent, peek, host, result, framingVars>>

Port ==
  /\ ReadFull("port") /\ Goto("relay", 0)
  /\ result' = [via |-> "plain", host |-> host, port |-> U16(Buf, 0)]
  /\ UNCHANGED <<client, sent, peek, host, replies, framingVars>>

-----------------------------------------------------------------------------
(* newObfuscatedClientConn, newFakeTLSClientConn, dc.List *)

Int16(x) == ((x + 32768) % 65536) - 32768
DcIDs == 1 .. 5

\* Mutant: media DCs, whose numbers are negative, are not mapped.
DcGet_Positive(dcID) == IF dcID \in DcIDs THEN dcID ELSE 0

\* List.Get, 0 for an unknown DC; -dcID overflows for the least number.
DcGet(dcID) ==
  LET d == IF dcID < 0 THEN Int16(-dcID) ELSE dcID IN IF d \in DcIDs THEN d ELSE 0

\* strings.EqualFold; 1 .. 9 are lower case letters, 11 .. 19 the upper case ones.
EqualFold(s, t) == [i \in DOMAIN s |-> s[i] % 10] = [i \in DOMAIN t |-> t[i] % 10]

\* Mutant: the host name is not compared.
Fits_AnyName(s, kd, sni) == s.type = kd

\* Is secret s tried for a client of kind kd that names the host sni?
Fits(s, kd, sni) ==
  /\ s.type = kd
  /\ kd = "tls" => s.domain = <<>> \/ sni = <<>> \/ EqualFold(sni, s.domain)

\* The protocol tag in the init, deciphered with the key from secret s.
Tag(nonce, s) == IF nonce[InitLen - 2] = s.raw THEN nonce[InitLen - 1] ELSE "random"

Match(kd, nonce, sni) ==
  SelectInSeq(Secrets, LAMBDA s : Fits(s, kd, sni) /\ Tag(nonce, s) \in ProtoTags)

\* Mutant: the wrapper gets a new cipher stream.
Enter_NewStream(kd, nonce, i) ==
  /\ UNCHANGED encPos
  /\ LET d == DcGet(Int16(nonce[InitLen])) IN
       IF i # 0 /\ d # 0 THEN Goto("relay", 0) /\ result' = [via |-> kd, dc |-> d, secret |-> i]
                         ELSE Close("refused") /\ UNCHANGED result

\* Secret i matches (none if 0).  Deciphering the init has moved c.enc.
Enter(kd, nonce, i) ==
  /\ encPos' = (IF i = 0 THEN encPos ELSE InitLen)
  /\ LET d == DcGet(Int16(nonce[InitLen])) IN
       IF i # 0 /\ d # 0 THEN Goto("relay", 0) /\ result' = [via |-> kd, dc |-> d, secret |-> i]
                         ELSE Close("refused") /\ UNCHANGED result

otherFramingVars == <<kind, cSent, inq, inEnd, readBuf, reading, delivered, downVars>>

ObfuscatedInit ==
  /\ ReadFull("init")
  /\ Enter("obfs", Buf, Match("obfs", Buf, <<>>))
  /\ UNCHANGED <<client, sent, peek, host, replies, otherFramingVars>>

-----------------------------------------------------------------------------
(* readClientHello; positions in rec are those of the code, from 0 *)

\* The host names in the extensions rec[start : extEnd], up to one that is too long.
HostNames(rec, start, extEnd) ==
  LET names[pos \in Nat] ==
        LET data == pos + 4
            next == data + U16(rec, pos + 2)
            nameEnd == data + 5 + U16(rec, data + 3)
            named == U16(rec, pos) = 0 /\ data + 5 <= next /\ nameEnd <= next
        IN IF data > extEnd \/ next > extEnd THEN <<>>
           ELSE (IF named THEN <<SubSeq(rec, data + 6, nameEnd)>> ELSE <<>>) \o names[next]
  IN names[start]

\* Cipher suites and compression methods are skipped from pos on; a record that ends
\* before its extensions names no host.  The last name is kept.
ServerName(rec, pos) ==
  LET n == Len(rec)
      comp == pos + 2 + U16(rec, pos)
      exts == comp + 1 + rec[comp + 1]
      stop == exts + 2 + U16(rec, exts)
      names == HostNames(rec, exts + 2, IF stop > n THEN n ELSE stop)
  IN IF pos + 2 > n \/ comp + 1 > n \/ exts + 2 > n \/ names = <<>> THEN <<>> ELSE Last(names)

NotAHello == [nonce |-> <<>>, sni |-> <<>>]

\* Handshake type 1, version, random, session id of the length of random.
ReadClientHello(rec) ==
  LET random == 6
      session == random + Half + 1
      rest == session + Half
  IN IF rest > Len(rec) \/ rec[1] # 1 \/ rec[session] # Half THEN NotAHello
     ELSE [nonce |-> SubSeq(rec, random + 1, random + Half) \o SubSeq(rec, session + 1, rest),
           sni |-> ServerName(rec, rest)]

RecordHeader ==
  /\ ReadFull("header") /\ Goto("body", U16(Buf, 3))
  /\ UNCHANGED <<client, sent, peek, host, replies, result, framingVars>>

\* The ServerHello is sent before the DC is looked up.
ClientHello ==
  /\ ReadFull("body")
  /\ LET hello == ReadClientHello(Buf)
         i == Match("tls", hello.nonce, hello.sni)
     IN \/ /\ hello = NotAHello
           /\ Close("refused") /\ UNCHANGED <<replies, result, encPos>>
        \/ /\ hello # NotAHello
           /\ IF i = 0 THEN UNCHANGED replies ELSE Write(<<TlsByte>>)
           /\ Enter("tls", hello.nonce, i)
  /\ UNCHANGED <<client, sent, peek, host, otherFramingVars>>

-----------------------------------------------------------------------------

\* Data may follow an MTProto handshake at once; it is read after the dial, through the
\* wrapper that the client expects (AcceptsWhatWasAsked: it gets no other).
Streaming ==
  /\ \/ /\ sent = Len(client.says) /\ at # "closed"
        /\ \/ ClientEnds
           \/ kind # "plain" /\ (ClientOther \/ \E n \in 0 .. MaxBytes : ClientWrite(n))
     \/ /\ at = "relay" /\ kind # "plain" /\ result.via = kind
        /\ \/ ReadBuffered \/ ReadRecord \/ ReadEnds \/ WriteChunk \/ ClientRead
           \/ \E n \in 1 .. BufLen : ReadStream(n) \/ WriteCall(n)
  /\ UNCHANGED entryVars

EntryNext ==
  \/ ClientSays \/ ClientQuits
  \/ Peek \/ ReadFails \/ WriteFails \/ Deadline
  \/ Greeting \/ Methods \/ Request \/ DomainLength \/ Host \/ SkipIPv6 \/ Port
  \/ ObfuscatedInit \/ RecordHeader \/ ClientHello
  \/ Streaming

EntrySpec == EntryInit /\ [][EntryNext]_vars

-----------------------------------------------------------------------------

(***************************************************************************)
(* The formats in which clients ask (external): what relates the bytes of  *)
(* a script to what it asks for.  No other module reads them; positions    *)
(* are those of the RFC of SOCKS5, of MTProto's obfuscated init and of a   *)
(* TLS ClientHello.                                                        *)
(***************************************************************************)
Byte == 0 .. 255
Word == 0 .. 65535

\* A greeting with its methods, a request with a host and a port.
SocksScript(c) ==
  LET g == c.says[1]
      r == c.says[2]
  IN /\ c.port \in {"main", "socks"} /\ Len(c.says) = 2
     /\ g \in Seq(Byte) /\ Len(g) >= 2 /\ Len(g) = 2 + g[2]
     /\ g[1] = c.asks.version /\ c.asks.version \in {4, 5}
     /\ c.asks.methods = {g[i] : i \in 3 .. Len(g)}
     /\ r \in Seq(Byte) /\ Len(r) >= 6
     /\ r[1] = 5 /\ r[2] = c.asks.cmd /\ r[3] = 0 /\ r[4] = c.asks.atyp
     /\ r[4] = 1 => Len(r) = 10 /\ c.asks.host = SubSeq(r, 5, 8)
     /\ r[4] = 3 => Len(r) = 7 + r[5] /\ c.asks.host = SubSeq(r, 6, 5 + r[5])
     /\ c.asks.port = U16(r, Len(r) - 2)

\* An init, which a SOCKS5 server would not take for a greeting and a request.
ObfsScript(c) ==
  LET init == c.says[1] IN
  /\ c.port = "main" /\ Len(c.says) = 1
  /\ Len(init) = InitLen /\ \A i \in 1 .. InitLen - 3 : init[i] \in Byte
  /\ init[InitLen - 2] = c.asks.raw /\ init[InitLen - 1] = c.asks.tag
  /\ init[InitLen] = c.asks.dc /\ c.asks.dc \in Int
  /\ c.asks.sni = <<>> /\ c.asks.hello
  /\ init[1] = SocksByte =>
       \A k \in {init[2] + 3, 5} : k <= InitLen - 3 => init[k] # SocksByte

\* A record whose content may be a ClientHello with the init in random and session id.
TlsScript(c) ==
  LET hello == c.says[1]
      rec == SubSeq(hello, 6, Len(hello))
      rest == 7 + InitLen
  IN /\ c.port = "main" /\ Len(c.says) = 1
     /\ Len(hello) >= 5 /\ \A i \in 1 .. 5 : hello[i] \in Byte
     /\ hello[1] = TlsByte /\ Len(hello) = 5 + U16(hello, 3)
     /\ c.asks.hello = (Len(rec) >= rest /\ rec[1] = 1 /\ rec[7 + Half] = Half)
     /\ c.asks.hello =>
          /\ rec[rest - 2] = c.asks.raw /\ rec[rest - 1] = c.asks.tag
          /\ rec[rest] = c.asks.dc /\ c.asks.dc \in Int
          /\ LET sni == ServerName(rec, rest) IN
               EqualFold(sni, c.asks.sni) /\ (sni = <<>> <=> c.asks.sni = <<>>)

ASSUME ClientsAssumption ==
  \A c \in Clients :
    /\ \A m \in 1 .. Len(c.says) : IsSeq(c.says[m])
    /\ \/ c.kind = "plain" /\ SocksScript(c)
       \/ c.kind = "obfs" /\ ObfsScript(c)
       \/ c.kind = "tls" /\ TlsScript(c)

Points == {"peek", "greeting", "methods", "request", "ipv4", "length", "domain", "port", "ipv6",
           "init", "header", "body", "relay", "closed"}

\* The variables of the negotiation keep their types.
EntryTypeOK ==
  /\ FramingTypeOK
  /\ client \in Clients /\ sent \in 0 .. Len(client.says)
  /\ at \in Points
  /\ need \in Word
  /\ Len(peek) <= PeekLen /\ Len(replies) <= 2
  /\ why \in {"open", "refused", "lost", "unwritten", "late"} /\ (why # "open" <=> at = "closed")

\* What a client can expect, from what it asks for and never from its bytes.
Suits(s, c) ==
  /\ s.type = c.kind /\ s.raw = c.asks.raw
  /\ c.kind = "tls" => \/ s.domain = <<>> \/ c.asks.sni = <<>>
                       \/ EqualFold(c.asks.sni, s.domain)

\* DC n, the media DC -n, or a number that 16 bits cannot tell from them.
Serves(n, dc) == (dc - n) % 65536 = 0 \/ (dc + n) % 65536 = 0

Acceptable(c) ==
  IF c.kind = "plain"
  THEN c.asks.version = 5 /\ 0 \in c.asks.methods /\ c.asks.cmd = 1 /\ c.asks.atyp \in {1, 3}
  ELSE /\ c.asks.hello /\ c.asks.tag \in ProtoTags
       /\ \E i \in DOMAIN Secrets : Suits(Secrets[i], c)
       /\ \E n \in DcIDs : Serves(n, c.asks.dc)

(***************************************************************************)
(* A connection is relayed only to where its client has asked to go, with  *)
(* the secret the client holds, whatever splits the stream, and whichever  *)
(* bytes the protocol detection has read before the handshake.             *)
(***************************************************************************)
AcceptsWhatWasAsked ==
  at = "relay" =>
    /\ Acceptable(client) /\ result.via = client.kind
    /\ IF client.kind = "plain"
       THEN result.host = client.asks.host /\ result.port = client.asks.port
       ELSE Suits(Secrets[result.secret], client) /\ Serves(result.dc, client.asks.dc)

\* The handler waits for bytes the client has no reason to send.
Starves == Negotiating /\ sent = Len(client.says) /\ Len(wire) < need

\* The handler has refused a client, or waits in vain.
Refused == why = "refused" \/ (why = "lost" /\ sent = Len(client.says)) \/ Starves

TakenForAnother(c) == c.kind = "obfs" /\ c.says[1][1] \in Foreign \cup {SocksByte, TlsByte}

\* What may be wrong with a client, see RejectsForCause.
CauseToRefuse ==
  \/ ~Acceptable(client)
  \/ TakenForAnother(client)
  \/ client.kind = "plain" /\ client.eager /\ Len(peek) > Len(client.says[1])

(***************************************************************************)
(* A client that asks for something the proxy offers is not refused, but   *)
(* for two reasons: the first byte of its random init is one by which      *)
(* another protocol is detected (server.go, line 99), or it is a SOCKS5    *)
(* client that does not wait for the choice of method, and the detection   *)
(* has swallowed the beginning of its request (socks5.go, line 83).        *)
(***************************************************************************)
RejectsForCause == Refused => CauseToRefuse
=============================================================================
