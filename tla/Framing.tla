------------------------------- MODULE Framing -------------------------------
(***************************************************************************)
(* The two wrappers that the handshakes put around a client's connection:  *)
(* obfuscatedConn (proxy/obfuscated.go), a cipher, and fakeTLSConn         *)
(* (proxy/faketls.go), TLS records around the cipher.  Both directions are *)
(* shown to be a ByteStream.                                               *)
(*                                                                         *)
(* The bytes of a direction are numbered 1, 2, ...  A record stands for    *)
(* len bytes from number from on, enciphered at position key of the        *)
(* keystream; it comes out right if it is deciphered at that position and  *)
(* as Garbage otherwise.  A wire is a sequence of records; a wire of an    *)
(* obfuscated client has no frames, a record is what one Write sent.  The  *)
(* client's own wrapper is external.                                       *)
(***************************************************************************)
EXTENDS Integers, Sequences

CONSTANTS
  InitLen,    \* bytes of the client's init, 64 in the code
  MaxRecord,  \* maxRecord of Write, 16384
  BufLen,     \* the buffer of io.Copy, 32 KiB
  MaxBytes    \* bytes sent in each direction; a bound

ASSUME FramingAssumption ==
  InitLen \in Nat /\ MaxRecord \in Nat \ {0} /\ BufLen \in Nat \ {0} /\ MaxBytes \in Nat

Garbage == 0

VARIABLES
  kind,       \* what the client speaks: "tls", "obfs", or "plain" (SOCKS5), which has no wrapper
  (* client to proxy *)
  cSent,      \* bytes the client has written
  inq,        \* records that the proxy has not read
  inEnd,      \* the client's end: "open", "fin", or "cut" (FIN within a record)
  encPos,     \* position of c.enc
  readBuf,    \* c.readBuf
  reading,    \* is the copier of this direction still reading?
  delivered,  \* what it has read
  (* proxy to client *)
  unsent,     \* bytes of the current Write that are still to be sent
  pSent,      \* bytes handed to Write
  outq,       \* records that the client has not read
  decPos,     \* position of c.dec
  received    \* what the client has deciphered

upVars == <<cSent, inq, inEnd, encPos, readBuf, reading, delivered>>
downVars == <<unsent, pSent, outq, decPos, received>>
framingVars == <<kind, upVars, downVars>>

Records == [type : {"data", "other"}, from : Nat, len : Nat, key : Nat]

Rest(s, n) == SubSeq(s, n + 1, Len(s))

\* XORKeyStream at position pos.
Decipher(r, pos) ==
  [i \in 1 .. r.len |-> IF r.key = pos THEN r.from + i - 1 ELSE Garbage]

\* The client has sent its init; ep is how far the proxy has deciphered it.
FramingInit(k, ep) ==
  /\ kind = k
  /\ cSent = 0 /\ inq = <<>> /\ inEnd = "open" /\ encPos = ep
  /\ readBuf = <<>> /\ reading = TRUE /\ delivered = <<>>
  /\ unsent = 0 /\ pSent = 0 /\ outq = <<>> /\ decPos = 0 /\ received = <<>>

-----------------------------------------------------------------------------
(* The client (external) *)

\* One Write of n bytes: its keystream goes on where the init has left it.  A TLS
\* record may be empty.
ClientWrite(n) ==
  /\ inEnd = "open" /\ cSent + n <= MaxBytes /\ (n > 0 \/ kind = "tls")
  /\ Len(inq) < MaxBytes
  /\ inq' = Append(inq, [type |-> "data", from |-> cSent + 1, len |-> n, key |-> InitLen + cSent])
  /\ cSent' = cSent + n
  /\ UNCHANGED <<kind, inEnd, encPos, readBuf, reading, delivered, downVars>>

\* A record that is not ApplicationData: an alert, a ChangeCipherSpec.
ClientOther ==
  /\ inEnd = "open" /\ kind = "tls"
  /\ Len(inq) < MaxBytes
  /\ inq' = Append(inq, [type |-> "other", from |-> cSent + 1, len |-> 0, key |-> InitLen + cSent])
  /\ UNCHANGED <<kind, cSent, inEnd, encPos, readBuf, reading, delivered, downVars>>

\* Its connection ends, perhaps in the middle of the last record that it has sent.
ClientEnds ==
  /\ inEnd = "open"
  /\ \E e \in {"fin", "cut"} :
       /\ e = "cut" => kind = "tls" /\ inq # <<>>
       /\ inEnd' = e
  /\ UNCHANGED <<kind, cSent, inq, encPos, readBuf, reading, delivered, downVars>>

-----------------------------------------------------------------------------
(* fakeTLSConn.Read, obfuscatedConn.Read, called by io.Copy *)

\* Has the record at the head of the wire arrived as a whole?
Whole == inq # <<>> /\ ~(inEnd = "cut" /\ Len(inq) = 1)

\* Bytes left from the last record come first.
ReadBuffered ==
  /\ reading /\ readBuf # <<>>
  /\ LET n == IF Len(readBuf) < BufLen THEN Len(readBuf) ELSE BufLen IN
       /\ delivered' = delivered \o SubSeq(readBuf, 1, n)
       /\ readBuf' = Rest(readBuf, n)
  /\ UNCHANGED <<kind, cSent, inq, inEnd, encPos, reading, downVars>>

\* Mutant: the payload is not kept when the caller's buffer is too small for it.
ReadRecord_NoBuffer ==
  /\ kind = "tls" /\ reading /\ readBuf = <<>> /\ Whole /\ inq[1].type = "data"
  /\ LET payload == Decipher(inq[1], encPos)
         n == IF inq[1].len < BufLen THEN inq[1].len ELSE BufLen IN
       /\ delivered' = delivered \o SubSeq(payload, 1, n)
       /\ encPos' = encPos + inq[1].len
  /\ inq' = Tail(inq)
  /\ UNCHANGED <<kind, cSent, inEnd, readBuf, reading, downVars>>

\* A whole record is read and deciphered; what does not fit is kept.
ReadRecord ==
  /\ kind = "tls" /\ reading /\ readBuf = <<>> /\ Whole /\ inq[1].type = "data"
  /\ LET payload == Decipher(inq[1], encPos)
         n == IF inq[1].len < BufLen THEN inq[1].len ELSE BufLen IN
       /\ delivered' = delivered \o SubSeq(payload, 1, n)
       /\ readBuf' = Rest(payload, n)
       /\ encPos' = encPos + inq[1].len
  /\ inq' = Tail(inq)
  /\ UNCHANGED <<kind, cSent, inEnd, reading, downVars>>

\* Without records, Read returns any n bytes that have arrived.
ReadStream(n) ==
  /\ kind = "obfs" /\ reading /\ inq # <<>>
  /\ n \in 1 .. inq[1].len /\ n <= BufLen
  /\ delivered' = delivered \o SubSeq(Decipher(inq[1], encPos), 1, n)
  /\ encPos' = encPos + n
  /\ inq' = IF n = inq[1].len THEN Tail(inq)
            ELSE [inq EXCEPT ![1] = [type |-> "data", from |-> @.from + n,
                                     len |-> @.len - n, key |-> @.key + n]]
  /\ UNCHANGED <<kind, cSent, inEnd, readBuf, reading, downVars>>

\* EOF, a record that FIN has cut off, or one that is not ApplicationData.
ReadEnds ==
  /\ reading /\ readBuf = <<>>
  /\ \/ inEnd # "open" /\ ~Whole
     \/ Whole /\ inq[1].type = "other"
  /\ reading' = FALSE
  /\ UNCHANGED <<kind, cSent, inq, inEnd, encPos, readBuf, delivered, downVars>>

-----------------------------------------------------------------------------
(* fakeTLSConn.Write, obfuscatedConn.Write *)

\* io.Copy hands over n bytes of the DC.
WriteCall(n) ==
  /\ unsent = 0 /\ n \in 1 .. BufLen /\ pSent + n <= MaxBytes
  /\ unsent' = n /\ pSent' = pSent + n
  /\ UNCHANGED <<kind, upVars, outq, decPos, received>>

Chunk == IF kind = "tls" /\ unsent > MaxRecord THEN MaxRecord ELSE unsent

\* Mutant: the keystream of Write is not advanced by the length of the chunk.
WriteChunk_SameKey ==
  /\ unsent > 0
  /\ outq' = Append(outq, [type |-> "data", from |-> pSent - unsent + 1, len |-> Chunk, key |-> decPos])
  /\ unsent' = unsent - Chunk
  /\ UNCHANGED <<kind, upVars, pSent, decPos, received>>

\* One record of at most MaxRecord bytes, or all bytes at once.
WriteChunk ==
  /\ unsent > 0
  /\ outq' = Append(outq, [type |-> "data", from |-> pSent - unsent + 1, len |-> Chunk, key |-> decPos])
  /\ decPos' = decPos + Chunk
  /\ unsent' = unsent - Chunk
  /\ UNCHANGED <<kind, upVars, pSent, received>>

\* The client deciphers from position 0 on (external).
ClientRead ==
  /\ outq # <<>>
  /\ received' = received \o Decipher(outq[1], Len(received))
  /\ outq' = Tail(outq)
  /\ UNCHANGED <<kind, upVars, unsent, pSent, decPos>>

FramingNext ==
  \/ \E n \in 0 .. MaxBytes : ClientWrite(n)
  \/ ClientOther \/ ClientEnds
  \/ ReadBuffered \/ ReadRecord \/ ReadEnds
  \/ \E n \in 1 .. BufLen : ReadStream(n) \/ WriteCall(n)
  \/ WriteChunk \/ ClientRead

FramingSpec == (\E k \in {"tls", "obfs"} : FramingInit(k, InitLen)) /\ [][FramingNext]_framingVars

-----------------------------------------------------------------------------

FramingTypeOK ==
  /\ kind \in {"tls", "obfs", "plain"}
  /\ cSent \in Nat /\ inq \in Seq(Records) /\ inEnd \in {"open", "fin", "cut"}
  /\ encPos \in Nat /\ readBuf \in Seq(Nat) /\ reading \in BOOLEAN /\ delivered \in Seq(Nat)
  /\ unsent \in Nat /\ pSent \in Nat /\ outq \in Seq(Records) /\ decPos \in Nat
  /\ received \in Seq(Nat)

Upto(n) == [i \in 1 .. n |-> i]

\* What the copiers read is what the client has written, whatever records it comes in
\* and however they fit into buffers, and the client gets what Write was given.
Up == INSTANCE ByteStream WITH written <- Upto(cSent), read <- delivered
Down == INSTANCE ByteStream WITH written <- Upto(pSent), read <- received
UpIsStream == Up!StreamSpec
DownIsStream == Down!StreamSpec

\* When reading has ended, every byte of the records that arrived as a whole before
\* the end has been delivered: a FIN loses the record that it cuts off and no other
\* (fakeTLSConn.Read, line 58), a foreign record loses what comes after it.
EndLosesOnlyTheCut ==
  ~reading =>
    Len(delivered) = IF inq = <<>> THEN cSent ELSE inq[1].from - 1
=============================================================================
