--------------------------- MODULE FramingProofs ---------------------------
(***************************************************************************)
(* Proofs about Framing: its type, that both directions are a ByteStream,  *)
(* and that the end of a connection loses only the record that it cuts.    *)
(*                                                                         *)
(* The invariant of a direction says that the bytes which are somewhere    *)
(* between its ends are numbered consecutively, and that the reader stands *)
(* in the keystream where the writer stood for the first of them.          *)
(***************************************************************************)
EXTENDS Framing, SequenceTheorems, TLAPS

\* s holds the bytes a + 1, a + 2, ...
Counted(s, a) == s \in Seq(Nat) /\ \A i \in 1 .. Len(s) : s[i] = a + i

\* The records of q hold the bytes from a up to, but without, b, and the first byte of
\* each was enciphered off positions further than its number.
Queue(q, a, b, off) ==
  /\ q \in Seq(Records) /\ a \in Nat /\ b \in Nat /\ a <= b
  /\ q = <<>> => a = b
  /\ q # <<>> => q[1].from = a /\ q[Len(q)].from + q[Len(q)].len = b
  /\ \A i \in 1 .. Len(q) : q[i].key = q[i].from + off /\ q[i].from + q[i].len <= b
  /\ \A i \in 1 .. Len(q) - 1 : q[i + 1].from = q[i].from + q[i].len

UpBytes ==
  /\ inEnd \in {"open", "fin", "cut"} /\ reading \in BOOLEAN
  /\ cSent \in Nat /\ encPos \in Nat
  /\ Counted(delivered, 0) /\ Counted(readBuf, Len(delivered))
  /\ Queue(inq, Len(delivered) + Len(readBuf) + 1, cSent + 1, InitLen - 1)
  /\ (~reading \/ kind = "obfs") => readBuf = <<>>

UpInv ==
  /\ UpBytes /\ kind \in {"tls", "obfs"}
  /\ encPos = InitLen + Len(delivered) + Len(readBuf)

DownInv ==
  /\ unsent \in Nat /\ pSent \in Nat /\ decPos \in Nat
  /\ decPos + unsent = pSent
  /\ Counted(received, 0)
  /\ Queue(outq, Len(received) + 1, decPos + 1, -1)

FramingIInv == UpInv /\ DownInv

-----------------------------------------------------------------------------
(* Bytes and records *)

LEMMA CountedCat ==
  ASSUME NEW a \in Nat, NEW s, NEW t, Counted(s, a), Counted(t, a + Len(s))
  PROVE  Counted(s \o t, a) /\ Len(s \o t) = Len(s) + Len(t)
<1>1. s \in Seq(Nat) /\ t \in Seq(Nat)
  BY DEF Counted
<1>2. s \o t \in Seq(Nat) /\ Len(s \o t) = Len(s) + Len(t)
  BY <1>1, ConcatProperties
<1>3. \A i \in 1 .. Len(s) + Len(t) : (s \o t)[i] = IF i <= Len(s) THEN s[i] ELSE t[i - Len(s)]
  BY <1>1, ConcatProperties
<1>4. ASSUME NEW i \in 1 .. Len(s) + Len(t) PROVE (s \o t)[i] = a + i
  <2>1. Len(s) \in Nat /\ Len(t) \in Nat
    BY <1>1, LenProperties
  <2>2. CASE i <= Len(s)
    BY <2>1, <2>2, <1>3 DEF Counted
  <2>3. CASE i > Len(s)
    <3>1. i - Len(s) \in 1 .. Len(t) /\ (s \o t)[i] = t[i - Len(s)]
      BY <2>1, <2>3, <1>3
    <3>2. t[i - Len(s)] = a + Len(s) + (i - Len(s))
      BY <3>1 DEF Counted
    <3> QED
      BY <3>1, <3>2, <2>1
  <2> QED
    BY <2>1, <2>2, <2>3
<1> QED
  BY <1>2, <1>4 DEF Counted

LEMMA CountedSplit ==
  ASSUME NEW a \in Nat, NEW s, Counted(s, a), NEW n \in 0 .. Len(s)
  PROVE  /\ Counted(SubSeq(s, 1, n), a) /\ Len(SubSeq(s, 1, n)) = n
         /\ Counted(Rest(s, n), a + n) /\ Len(Rest(s, n)) = Len(s) - n
<1>1. s \in Seq(Nat) /\ Len(s) \in Nat /\ n \in Nat /\ n <= Len(s)
  BY LenProperties DEF Counted
<1>2. /\ SubSeq(s, 1, n) \in Seq(Nat) /\ Len(SubSeq(s, 1, n)) = n
      /\ \A i \in 1 .. n : SubSeq(s, 1, n)[i] = s[i]
  BY <1>1
<1>3. /\ Rest(s, n) \in Seq(Nat) /\ Len(Rest(s, n)) = Len(s) - n
      /\ \A i \in 1 .. Len(s) - n : Rest(s, n)[i] = s[n + i]
  BY <1>1 DEF Rest
<1>4. Counted(SubSeq(s, 1, n), a)
  BY <1>1, <1>2 DEF Counted
<1>5. ASSUME NEW i \in 1 .. Len(s) - n PROVE Rest(s, n)[i] = a + n + i
  <2>1. n + i \in 1 .. Len(s) /\ i \in Nat
    BY <1>1
  <2>2. s[n + i] = a + (n + i)
    BY <2>1 DEF Counted
  <2> QED
    BY <1>1, <1>3, <2>1, <2>2
<1> QED
  BY <1>2, <1>3, <1>4, <1>5 DEF Counted

LEMMA Deciphered ==
  ASSUME NEW r \in Records, NEW a \in Nat, r.from = a + 1
  PROVE  Counted(Decipher(r, r.key), a) /\ Len(Decipher(r, r.key)) = r.len
<1>1. r.len \in Nat /\ Decipher(r, r.key) = [i \in 1 .. r.len |-> a + 1 + i - 1]
  BY DEF Decipher, Records
<1>2. [i \in 1 .. r.len |-> a + 1 + i - 1] \in Seq(Nat)
  BY <1>1
<1> QED
  BY <1>1, <1>2 DEF Counted

LEMMA QueueAppend ==
  ASSUME NEW q, NEW a, NEW b, NEW off, Queue(q, a, b, off),
         NEW r \in Records, r.from = b, r.key = b + off
  PROVE  Queue(Append(q, r), a, b + r.len, off)
<1> DEFINE s == Append(q, r)
<1>1. q \in Seq(Records) /\ Len(q) \in Nat /\ a \in Nat /\ b \in Nat /\ r.len \in Nat
  BY LenProperties DEF Queue, Records
<1>2. s \in Seq(Records) /\ Len(s) = Len(q) + 1 /\ s # <<>> /\ s[Len(q) + 1] = r
      /\ \A i \in 1 .. Len(q) : s[i] = q[i]
  BY <1>1, AppendProperties
<1> HIDE DEF s
<1>3. s[1].from = a
  <2>1. CASE q = <<>>
    BY <2>1, <1>1, <1>2 DEF Queue
  <2>2. CASE q # <<>>
    <3>1. 1 \in 1 .. Len(q)
      BY <2>2, <1>1, EmptySeq
    <3> QED
      BY <3>1, <2>2, <1>2 DEF Queue
  <2> QED
    BY <2>1, <2>2
<1>4. ASSUME NEW i \in 1 .. Len(s)
      PROVE  s[i].key = s[i].from + off /\ s[i].from + s[i].len <= b + r.len
  <2>1. CASE i = Len(q) + 1
    BY <2>1, <1>1, <1>2
  <2>2. CASE i \in 1 .. Len(q)
    <3>1. q[i] \in Records
      BY <2>2, <1>1, ElementOfSeq
    <3>2. q[i].from \in Nat /\ q[i].len \in Nat
      BY <3>1 DEF Records
    <3>3. q[i].key = q[i].from + off /\ q[i].from + q[i].len <= b /\ s[i] = q[i]
      BY <2>2, <1>2 DEF Queue
    <3> QED
      BY <3>2, <3>3, <1>1
  <2> QED
    BY <2>1, <2>2, <1>1, <1>2
<1>5. ASSUME NEW i \in 1 .. Len(s) - 1 PROVE s[i + 1].from = s[i].from + s[i].len
  <2>1. i \in 1 .. Len(q) /\ s[i] = q[i]
    BY <1>1, <1>2
  <2>2. CASE i = Len(q)
    <3>1. q # <<>>
      BY <2>1, <2>2, <1>1
    <3> QED
      BY <3>1, <2>1, <2>2, <1>2 DEF Queue
  <2>3. CASE i # Len(q)
    <3>1. i \in 1 .. Len(q) - 1 /\ i + 1 \in 1 .. Len(q)
      BY <2>1, <2>3, <1>1
    <3> QED
      BY <3>1, <2>1, <1>2 DEF Queue
  <2> QED
    BY <2>2, <2>3
<1>6. a <= b + r.len /\ b + r.len \in Nat /\ s[Len(s)].from + s[Len(s)].len = b + r.len
  BY <1>1, <1>2 DEF Queue
<1> QED
  BY <1>1, <1>2, <1>3, <1>4, <1>5, <1>6 DEF Queue

LEMMA QueueTail ==
  ASSUME NEW q, NEW a, NEW b, NEW off, Queue(q, a, b, off), q # <<>>
  PROVE  q[1] \in Records /\ q[1].from = a /\ q[1].key = a + off
         /\ Queue(Tail(q), a + q[1].len, b, off)
<1> DEFINE s == Tail(q)
<1>1. q \in Seq(Records) /\ Len(q) \in Nat /\ Len(q) >= 1 /\ a \in Nat /\ b \in Nat
  BY LenProperties, EmptySeq DEF Queue
<1>2. s \in Seq(Records) /\ Len(s) = Len(q) - 1 /\ \A i \in 1 .. Len(s) : s[i] = q[i + 1]
  BY <1>1, HeadTailProperties
<1>3. q[1] \in Records /\ q[1].from = a /\ q[1].key = a + off /\ q[1].from + q[1].len <= b
  BY <1>1, ElementOfSeq DEF Queue
<1>4. q[1].len \in Nat
  BY <1>3 DEF Records
<1> HIDE DEF s
<1>5. ASSUME s = <<>> PROVE a + q[1].len = b
  <2>1. Len(q) = 1
    BY <1>1, <1>2, <1>5
  <2> QED
    BY <2>1, <1>3 DEF Queue
<1>6. ASSUME s # <<>>
      PROVE  s[1].from = a + q[1].len /\ s[Len(s)].from + s[Len(s)].len = b
  <2>1. Len(s) >= 1 /\ Len(s) \in Nat
    BY <1>2, <1>6, LenProperties, EmptySeq
  <2>2. s[1] = q[2] /\ s[Len(s)] = q[Len(q)] /\ 1 \in 1 .. Len(q) - 1
    BY <2>1, <1>1, <1>2
  <2>3. q[1 + 1].from = q[1].from + q[1].len
    BY <2>2 DEF Queue
  <2> QED
    BY <2>2, <2>3, <1>3 DEF Queue
<1>7. ASSUME NEW i \in 1 .. Len(s)
      PROVE  s[i].key = s[i].from + off /\ s[i].from + s[i].len <= b
  <2>1. i + 1 \in 1 .. Len(q) /\ s[i] = q[i + 1]
    BY <1>1, <1>2
  <2> QED
    BY <2>1 DEF Queue
<1>8. ASSUME NEW i \in 1 .. Len(s) - 1 PROVE s[i + 1].from = s[i].from + s[i].len
  <2>1. i + 1 \in 1 .. Len(q) - 1 /\ i \in 1 .. Len(s) /\ i + 1 \in 1 .. Len(s)
    BY <1>1, <1>2
  <2> QED
    BY <2>1, <1>2 DEF Queue
<1>9. a + q[1].len \in Nat /\ a + q[1].len <= b
  BY <1>1, <1>3, <1>4
<1> QED
  BY <1>1, <1>2, <1>3, <1>5, <1>6, <1>7, <1>8, <1>9 DEF Queue

\* A part of the first record is taken.
LEMMA QueueTrim ==
  ASSUME NEW q, NEW a, NEW b, NEW off \in Int, Queue(q, a, b, off), q # <<>>,
         NEW n \in Nat, n < q[1].len, NEW new \in Records,
         new.from = a + n, new.len = q[1].len - n, new.key = a + n + off
  PROVE  Queue([q EXCEPT ![1] = new], a + n, b, off)
<1> DEFINE s == [q EXCEPT ![1] = new]
<1>1. q \in Seq(Records) /\ Len(q) \in Nat /\ Len(q) >= 1 /\ a \in Nat /\ b \in Nat
  BY LenProperties, EmptySeq DEF Queue
<1>2. s \in Seq(Records) /\ Len(s) = Len(q) /\ s # <<>> /\ s[1] = new
      /\ \A i \in 2 .. Len(s) : s[i] = q[i]
  <2>1. 1 \in 1 .. Len(q)
    BY <1>1
  <2>2. /\ s \in Seq(Records) /\ Len(s) = Len(q)
        /\ \A i \in 1 .. Len(q) : s[i] = IF i = 1 THEN new ELSE q[i]
    BY <1>1, <2>1, ExceptSeq
  <2> HIDE DEF s
  <2> QED
    BY <1>1, <2>1, <2>2
<1>3. q[1].from = a /\ q[1].from + q[1].len <= b /\ q[1].len \in Nat
  <2>1. q[1] \in Records /\ q[1].from = a /\ Queue(Tail(q), a + q[1].len, b, off)
    BY QueueTail
  <2>2. q[1].len \in Nat /\ a + q[1].len <= b
    BY <2>1 DEF Queue, Records
  <2> QED
    BY <2>1, <2>2
<1> HIDE DEF s
<1>4. s[1].from = a + n /\ s[1].from + s[1].len = q[1].from + q[1].len
  BY <1>2, <1>3, <1>1
<1>5. s[Len(s)].from + s[Len(s)].len = b
  <2>1. CASE Len(q) = 1
    BY <2>1, <1>2, <1>4 DEF Queue
  <2>2. CASE Len(q) # 1
    <3>1. Len(q) \in 2 .. Len(s)
      BY <2>2, <1>1, <1>2
    <3> QED
      BY <3>1, <1>2 DEF Queue
  <2> QED
    BY <2>1, <2>2
<1>6. ASSUME NEW i \in 1 .. Len(s)
      PROVE  s[i].key = s[i].from + off /\ s[i].from + s[i].len <= b
  <2>1. CASE i = 1
    BY <2>1, <1>2, <1>3, <1>4
  <2>2. CASE i # 1
    <3>1. i \in 2 .. Len(s) /\ i \in 1 .. Len(q)
      BY <2>2, <1>1, <1>2
    <3> QED
      BY <3>1, <1>2 DEF Queue
  <2> QED
    BY <2>1, <2>2
<1>7. ASSUME NEW i \in 1 .. Len(s) - 1 PROVE s[i + 1].from = s[i].from + s[i].len
  <2>1. q[i + 1].from = q[i].from + q[i].len /\ i + 1 \in 2 .. Len(s)
    BY <1>1, <1>2 DEF Queue
  <2>2. CASE i = 1
    BY <2>1, <2>2, <1>2, <1>4
  <2>3. CASE i # 1
    <3>1. i \in 2 .. Len(s)
      BY <2>3, <1>1, <1>2
    <3> QED
      BY <3>1, <2>1, <1>2
  <2> QED
    BY <2>2, <2>3
<1>8. a + n \in Nat /\ a + n <= b
  BY <1>1, <1>3
<1> QED
  BY <1>1, <1>2, <1>4, <1>5, <1>6, <1>7, <1>8 DEF Queue

-----------------------------------------------------------------------------
(* The direction from the client *)

\* A step of this direction: the client writes, or the proxy reads.
UpMove ==
  /\ UpInv'
  /\ \/ delivered' = delivered /\ cSent <= cSent'
     \/ cSent' = cSent /\ Len(delivered) <= Len(delivered')

\* Steps that leave the bytes alone.
LEMMA UpKept ==
  ASSUME UpInv, UNCHANGED <<kind, cSent, inq, encPos, readBuf, delivered>>,
         inEnd' \in {"open", "fin", "cut"}, reading' \in BOOLEAN, ~reading' => readBuf = <<>>
  PROVE  UpMove
<1>1. cSent <= cSent'
  BY DEF UpInv, UpBytes
<1> QED
  BY <1>1 DEF UpInv, UpBytes, UpMove

\* What the client does before anything is read needs no position of the cipher.
ClientMove ==
  UpBytes' /\ cSent <= cSent' /\ UNCHANGED <<kind, encPos, readBuf, reading, delivered>>

LEMMA ClientMoves == ASSUME UpInv, ClientMove PROVE UpMove
  BY DEF UpInv, UpMove, ClientMove

LEMMA UpClientEnds == ASSUME UpBytes, ClientEnds PROVE ClientMove
  BY DEF UpBytes, ClientEnds, ClientMove

LEMMA UpClientWrite ==
  ASSUME FramingAssumption, UpBytes, NEW n \in 0 .. MaxBytes, ClientWrite(n)
  PROVE  ClientMove
<1> DEFINE r == [type |-> "data", from |-> cSent + 1, len |-> n, key |-> InitLen + cSent]
           a == Len(delivered) + Len(readBuf) + 1
<1>1. r \in Records /\ n \in Nat /\ cSent \in Nat /\ InitLen \in Nat
  BY DEF FramingAssumption, UpBytes, Records
<1>2. r.key = cSent + 1 + (InitLen - 1) /\ r.from = cSent + 1 /\ r.len = n
  BY <1>1
<1> HIDE DEF r
<1>3. Queue(Append(inq, r), a, cSent + 1 + r.len, InitLen - 1)
  <2>1. Queue(inq, a, cSent + 1, InitLen - 1)
    BY DEF UpBytes
  <2> HIDE DEF a
  <2> QED
    BY <1>1, <1>2, <2>1, QueueAppend
<1>4. cSent + 1 + r.len = (cSent + n) + 1
  BY <1>1, <1>2
<1>5. Queue(Append(inq, r), a, (cSent + n) + 1, InitLen - 1)
  BY <1>3, <1>4
<1>6. inq' = Append(inq, r) /\ cSent' = cSent + n
      /\ UNCHANGED <<kind, inEnd, encPos, readBuf, reading, delivered>>
  BY DEF ClientWrite, r
<1>7. cSent <= cSent' /\ cSent' \in Nat
  BY <1>1, <1>6
<1> QED
  BY <1>5, <1>6, <1>7 DEF UpBytes, ClientMove

LEMMA UpClientOther == ASSUME FramingAssumption, UpBytes, ClientOther PROVE ClientMove
<1> DEFINE r == [type |-> "other", from |-> cSent + 1, len |-> 0, key |-> InitLen + cSent]
           a == Len(delivered) + Len(readBuf) + 1
<1>1. r \in Records /\ cSent \in Nat /\ InitLen \in Nat
  BY DEF FramingAssumption, UpBytes, Records
<1>2. r.key = cSent + 1 + (InitLen - 1) /\ r.from = cSent + 1 /\ r.len = 0
  BY <1>1
<1> HIDE DEF r
<1>3. Queue(Append(inq, r), a, cSent + 1 + r.len, InitLen - 1)
  <2>1. Queue(inq, a, cSent + 1, InitLen - 1)
    BY DEF UpBytes
  <2> HIDE DEF a
  <2> QED
    BY <1>1, <1>2, <2>1, QueueAppend
<1>4. Queue(Append(inq, r), a, cSent + 1, InitLen - 1)
  BY <1>1, <1>2, <1>3
<1>5. inq' = Append(inq, r) /\ cSent <= cSent'
      /\ UNCHANGED <<kind, cSent, inEnd, encPos, readBuf, reading, delivered>>
  BY <1>1 DEF ClientOther, r
<1> QED
  BY <1>4, <1>5 DEF UpBytes, ClientMove

\* The first n bytes of s, which follow those delivered, are handed over; the rest is kept.
LEMMA Delivers ==
  ASSUME UpInv, NEW s, Counted(s, Len(delivered)), NEW n \in 0 .. Len(s)
  PROVE  /\ Counted(delivered \o SubSeq(s, 1, n), 0)
         /\ Len(delivered \o SubSeq(s, 1, n)) = Len(delivered) + n
         /\ Counted(Rest(s, n), Len(delivered) + n)
         /\ Len(Rest(s, n)) = Len(s) - n
<1>1. Counted(delivered, 0) /\ Len(delivered) \in Nat
  BY LenProperties DEF UpInv, UpBytes, Counted
<1>2. /\ Counted(SubSeq(s, 1, n), Len(delivered)) /\ Len(SubSeq(s, 1, n)) = n
      /\ Counted(Rest(s, n), Len(delivered) + n) /\ Len(Rest(s, n)) = Len(s) - n
  BY <1>1, CountedSplit
<1>3. 0 + Len(delivered) = Len(delivered)
  BY <1>1
<1> QED
  BY <1>1, <1>2, <1>3, CountedCat

LEMMA UpReadBuffered == ASSUME FramingAssumption, UpInv, ReadBuffered PROVE UpMove
<1> DEFINE n == IF Len(readBuf) < BufLen THEN Len(readBuf) ELSE BufLen
<1>1. Len(delivered) \in Nat /\ Len(readBuf) \in Nat
  BY LenProperties DEF UpInv, UpBytes, Counted
<1>2. n \in 0 .. Len(readBuf)
  BY <1>1 DEF FramingAssumption
<1>3. /\ delivered' = delivered \o SubSeq(readBuf, 1, n) /\ readBuf' = Rest(readBuf, n)
      /\ UNCHANGED <<kind, cSent, inq, inEnd, encPos, reading>> /\ reading
      /\ kind # "obfs"
  BY DEF ReadBuffered, UpInv, UpBytes
<1> HIDE DEF n
<1>4. /\ Counted(delivered', 0) /\ Len(delivered') = Len(delivered) + n
      /\ Counted(readBuf', Len(delivered')) /\ Len(readBuf') = Len(readBuf) - n
  <2>1. Counted(readBuf, Len(delivered))
    BY DEF UpInv, UpBytes
  <2> QED
    BY <1>2, <1>3, <2>1, Delivers
<1>5. Len(delivered') + Len(readBuf') = Len(delivered) + Len(readBuf)
      /\ Len(delivered) <= Len(delivered')
  BY <1>1, <1>2, <1>4
<1>6. encPos' = InitLen + Len(delivered') + Len(readBuf')
  BY <1>1, <1>2, <1>3, <1>4 DEF UpInv, UpBytes, FramingAssumption
<1> QED
  BY <1>3, <1>4, <1>5, <1>6 DEF UpInv, UpBytes, UpMove

\* The proxy stands at the first record of the wire, with nothing kept from the last.
LEMMA AtRecord ==
  ASSUME FramingAssumption, UpInv, readBuf = <<>>, inq # <<>>
  PROVE  /\ Len(delivered) \in Nat /\ encPos = InitLen + Len(delivered)
         /\ inq[1] \in Records /\ inq[1].from = Len(delivered) + 1 /\ inq[1].key = encPos
         /\ inq[1].len \in Nat
         /\ Queue(Tail(inq), Len(delivered) + 1 + inq[1].len, cSent + 1, InitLen - 1)
         /\ Counted(Decipher(inq[1], encPos), Len(delivered))
         /\ Len(Decipher(inq[1], encPos)) = inq[1].len
<1>1. Len(delivered) \in Nat /\ Len(readBuf) = 0 /\ InitLen \in Nat
  BY LenProperties, EmptySeq DEF UpInv, UpBytes, Counted, FramingAssumption
<1>2. encPos = InitLen + Len(delivered)
      /\ Queue(inq, Len(delivered) + 1, cSent + 1, InitLen - 1)
  BY <1>1 DEF UpInv, UpBytes
<1>3. /\ inq[1] \in Records /\ inq[1].from = Len(delivered) + 1
      /\ inq[1].key = Len(delivered) + 1 + (InitLen - 1)
      /\ Queue(Tail(inq), Len(delivered) + 1 + inq[1].len, cSent + 1, InitLen - 1)
  BY <1>2, QueueTail
<1>4. inq[1].key = encPos
  BY <1>1, <1>2, <1>3
<1>5. inq[1].len \in Nat
  BY <1>3 DEF Records
<1>6. Counted(Decipher(inq[1], inq[1].key), Len(delivered))
      /\ Len(Decipher(inq[1], inq[1].key)) = inq[1].len
  BY <1>1, <1>3, Deciphered
<1> QED
  BY <1>1, <1>2, <1>3, <1>4, <1>5, <1>6

LEMMA UpReadRecord == ASSUME FramingAssumption, UpInv, ReadRecord PROVE UpMove
<1> DEFINE s == Decipher(inq[1], encPos)
           n == IF inq[1].len < BufLen THEN inq[1].len ELSE BufLen
<1>1. readBuf = <<>> /\ inq # <<>> /\ reading /\ kind = "tls"
  BY DEF ReadRecord, Whole
<1>2. /\ Len(delivered) \in Nat /\ encPos = InitLen + Len(delivered)
      /\ inq[1].len \in Nat /\ Counted(s, Len(delivered)) /\ Len(s) = inq[1].len
      /\ Queue(Tail(inq), Len(delivered) + 1 + inq[1].len, cSent + 1, InitLen - 1)
  BY <1>1, AtRecord
<1>3. n \in 0 .. Len(s)
  BY <1>2 DEF FramingAssumption
<1>4. /\ delivered' = delivered \o SubSeq(s, 1, n) /\ readBuf' = Rest(s, n)
      /\ encPos' = encPos + inq[1].len /\ inq' = Tail(inq)
      /\ UNCHANGED <<kind, cSent, inEnd, reading>>
  BY DEF ReadRecord
<1> HIDE DEF n, s
<1>5. /\ Counted(delivered', 0) /\ Len(delivered') = Len(delivered) + n
      /\ Counted(readBuf', Len(delivered')) /\ Len(readBuf') = Len(s) - n
  BY <1>2, <1>3, <1>4, Delivers
<1>6. n \in Nat /\ InitLen \in Nat
  BY <1>2, <1>3 DEF FramingAssumption
<1>7. /\ Len(delivered') + Len(readBuf') + 1 = Len(delivered) + 1 + inq[1].len
      /\ encPos' = InitLen + Len(delivered') + Len(readBuf') /\ encPos' \in Nat
      /\ Len(delivered) <= Len(delivered')
  <2> DEFINE old == Len(delivered)
             len == inq[1].len
  <2>1. old \in Nat /\ len \in Nat /\ encPos' = InitLen + old + len
    BY <1>2, <1>4
  <2>2. Len(delivered') = old + n /\ Len(readBuf') = len - n
    BY <1>2, <1>5
  <2> HIDE DEF old, len
  <2>3. /\ Len(delivered') + Len(readBuf') + 1 = old + 1 + len
        /\ encPos' = InitLen + Len(delivered') + Len(readBuf') /\ encPos' \in Nat
        /\ old <= Len(delivered')
    BY <1>6, <2>1, <2>2
  <2> QED
    BY <2>3 DEF old, len
<1>8. Queue(inq', Len(delivered') + Len(readBuf') + 1, cSent' + 1, InitLen - 1)
  BY <1>2, <1>4, <1>7
<1> QED
  BY <1>1, <1>4, <1>5, <1>7, <1>8 DEF UpInv, UpBytes, UpMove

LEMMA UpReadStream ==
  ASSUME FramingAssumption, UpInv, NEW n \in 1 .. BufLen, ReadStream(n)
  PROVE  UpMove
<1> DEFINE r == inq[1]
           s == Decipher(r, encPos)
           new == [type |-> "data", from |-> r.from + n, len |-> r.len - n, key |-> r.key + n]
           old == Len(delivered)
<1>1. inq # <<>> /\ n \in 1 .. r.len /\ readBuf = <<>> /\ reading /\ kind = "obfs"
  BY DEF ReadStream, UpInv, UpBytes
<1>2. /\ old \in Nat /\ encPos = InitLen + old
      /\ r.from = old + 1 /\ r.key = encPos /\ r.len \in Nat
      /\ Queue(Tail(inq), old + 1 + r.len, cSent + 1, InitLen - 1)
      /\ Counted(s, old) /\ Len(s) = r.len
  BY <1>1, AtRecord
<1>3. InitLen \in Nat /\ n \in Nat /\ n \in 0 .. Len(s)
  BY <1>1, <1>2 DEF FramingAssumption
<1>4. /\ delivered' = delivered \o SubSeq(s, 1, n)
      /\ encPos' = encPos + n
      /\ inq' = IF n = r.len THEN Tail(inq) ELSE [inq EXCEPT ![1] = new]
      /\ UNCHANGED <<kind, cSent, inEnd, readBuf, reading>>
  BY DEF ReadStream
<1>5. Counted(delivered', 0) /\ Len(delivered') = old + n
  BY <1>2, <1>3, <1>4, Delivers
<1>6. Queue(inq', old + 1 + n, cSent + 1, InitLen - 1)
  <2>1. CASE n = r.len
    BY <1>2, <1>4, <2>1
  <2>2. CASE n < r.len
    <3>1. Queue(inq, old + 1, cSent + 1, InitLen - 1)
      <4>1. Len(readBuf) = 0
        BY <1>1, EmptySeq
      <4> QED
        BY <1>2, <4>1 DEF UpInv, UpBytes
    <3>2. new \in Records
      <4>1. r.from + n \in Nat /\ r.len - n \in Nat /\ r.key + n \in Nat
        BY <1>1, <1>2, <1>3
      <4> QED
        BY <4>1 DEF Records
    <3>3. new.from = old + 1 + n /\ new.len = r.len - n /\ new.key = old + 1 + n + (InitLen - 1)
      BY <1>2, <1>3
    <3>4. InitLen - 1 \in Int
      BY <1>3
    <3> HIDE DEF new
    <3>5. Queue([inq EXCEPT ![1] = new], old + 1 + n, cSent + 1, InitLen - 1)
      BY <1>1, <1>3, <2>2, <3>1, <3>2, <3>3, <3>4, QueueTrim
    <3> QED
      BY <1>1, <1>2, <1>4, <2>2, <3>5
  <2> QED
    BY <1>1, <1>2, <2>1, <2>2
<1>7. /\ Len(readBuf') = 0 /\ old <= Len(delivered')
      /\ encPos' = InitLen + Len(delivered') + Len(readBuf') /\ encPos' \in Nat
      /\ old + 1 + n = Len(delivered') + Len(readBuf') + 1
  <2>1. Len(readBuf') = 0
    BY <1>1, <1>4, EmptySeq
  <2>2. old \in Nat /\ n \in Nat /\ InitLen \in Nat /\ Len(delivered') = old + n
        /\ encPos' = InitLen + old + n
    BY <1>2, <1>3, <1>4, <1>5
  <2> HIDE DEF old
  <2> QED
    BY <2>1, <2>2
<1>8. Counted(readBuf', Len(delivered'))
  BY <1>1, <1>4, EmptySeq DEF Counted
<1>9. Queue(inq', Len(delivered') + Len(readBuf') + 1, cSent' + 1, InitLen - 1)
  BY <1>4, <1>6, <1>7
<1> QED
  BY <1>1, <1>4, <1>5, <1>7, <1>8, <1>9 DEF UpInv, UpBytes, UpMove

-----------------------------------------------------------------------------
(* The direction to the client *)

\* A step of this direction: a Write is called, or the client reads.
DownMove ==
  /\ DownInv'
  /\ \/ received' = received /\ pSent <= pSent'
     \/ pSent' = pSent /\ Len(received) <= Len(received')

LEMMA DownWriteCall ==
  ASSUME FramingAssumption, DownInv, NEW n \in 1 .. BufLen, WriteCall(n)
  PROVE  DownMove
<1>1. n \in Nat /\ unsent = 0 /\ unsent' = n /\ pSent' = pSent + n
      /\ UNCHANGED <<outq, decPos, received>>
  BY DEF WriteCall, FramingAssumption
<1>2. unsent' \in Nat /\ pSent' \in Nat /\ decPos' + unsent' = pSent' /\ pSent <= pSent'
  BY <1>1 DEF DownInv
<1> QED
  BY <1>1, <1>2 DEF DownInv, DownMove

LEMMA DownWriteChunk == ASSUME FramingAssumption, DownInv, WriteChunk PROVE DownMove
<1> DEFINE n == Chunk
           r == [type |-> "data", from |-> pSent - unsent + 1, len |-> n, key |-> decPos]
<1>1. unsent \in Nat /\ pSent \in Nat /\ decPos \in Nat /\ decPos + unsent = pSent /\ unsent > 0
  BY DEF DownInv, WriteChunk
<1>2. n \in Nat /\ n <= unsent
  BY <1>1 DEF Chunk, FramingAssumption
<1>3. /\ outq' = Append(outq, r) /\ decPos' = decPos + n /\ unsent' = unsent - n
      /\ pSent' = pSent /\ received' = received
  BY DEF WriteChunk
<1> HIDE DEF n
<1>4. r \in Records /\ r.from = decPos + 1 /\ r.len = n /\ r.key = decPos + 1 + (-1)
  BY <1>1, <1>2 DEF Records
<1> HIDE DEF r
<1>5. Queue(Append(outq, r), Len(received) + 1, decPos + 1 + r.len, -1)
  <2>1. Queue(outq, Len(received) + 1, decPos + 1, -1)
    BY DEF DownInv
  <2> QED
    BY <1>4, <2>1, QueueAppend
<1>6. decPos + 1 + r.len = decPos' + 1
  BY <1>1, <1>2, <1>3, <1>4
<1>7. Queue(outq', Len(received') + 1, decPos' + 1, -1)
  BY <1>3, <1>5, <1>6
<1>8. decPos' \in Nat /\ unsent' \in Nat /\ decPos' + unsent' = pSent' /\ pSent <= pSent'
  BY <1>1, <1>2, <1>3
<1> QED
  BY <1>3, <1>7, <1>8, <1>1 DEF DownInv, DownMove

LEMMA DownClientRead == ASSUME FramingAssumption, DownInv, ClientRead PROVE DownMove
<1> DEFINE old == Len(received)
           r == outq[1]
           s == Decipher(r, old)
<1>1. old \in Nat /\ Counted(received, 0)
  BY LenProperties DEF DownInv, Counted
<1>2. outq # <<>> /\ received' = received \o s /\ outq' = Tail(outq)
      /\ UNCHANGED <<unsent, pSent, decPos>>
  BY DEF ClientRead
<1>3. /\ r \in Records /\ r.from = old + 1 /\ r.key = old + 1 + (-1)
      /\ Queue(outq', old + 1 + r.len, decPos + 1, -1)
  <2>1. Queue(outq, old + 1, decPos + 1, -1)
    BY DEF DownInv
  <2> QED
    BY <1>2, <2>1, QueueTail
<1>4. r.key = old /\ r.len \in Nat
  BY <1>1, <1>3 DEF Records
<1>5. Counted(s, 0 + old) /\ Len(s) = r.len
  BY <1>1, <1>3, <1>4, Deciphered
<1>6. Counted(received', 0) /\ Len(received') = old + r.len
  <2> HIDE DEF s
  <2>1. Counted(received \o s, 0) /\ Len(received \o s) = Len(received) + Len(s)
    BY <1>1, <1>5, CountedCat
  <2> QED
    BY <1>2, <1>5, <2>1
<1>7. old + 1 + r.len = Len(received') + 1 /\ old <= Len(received') /\ Len(received') \in Nat
  <2> HIDE DEF old, r
  <2> QED
    BY <1>1, <1>4, <1>6
<1>8. Queue(outq', Len(received') + 1, decPos' + 1, -1)
  BY <1>2, <1>3, <1>7
<1> QED
  BY <1>2, <1>6, <1>7, <1>8 DEF DownInv, DownMove

-----------------------------------------------------------------------------
(* Both directions together *)

LEMMA FramingSteps ==
  ASSUME FramingAssumption, FramingIInv, FramingNext
  PROVE  \/ UpMove /\ UNCHANGED downVars
         \/ DownMove /\ UNCHANGED <<kind, upVars>>
<1>1. UpInv /\ DownInv
  BY DEF FramingIInv
<1>2. ASSUME NEW n \in 0 .. MaxBytes, ClientWrite(n) PROVE UpMove /\ UNCHANGED downVars
  BY <1>1, <1>2, UpClientWrite, ClientMoves DEF ClientWrite, UpInv
<1>3. CASE ClientOther
  BY <1>1, <1>3, UpClientOther, ClientMoves DEF ClientOther, UpInv
<1>4. CASE ClientEnds
  BY <1>1, <1>4, UpClientEnds, ClientMoves DEF ClientEnds, UpInv
<1>5. CASE ReadBuffered
  BY <1>1, <1>5, UpReadBuffered DEF ReadBuffered
<1>6. CASE ReadRecord
  BY <1>1, <1>6, UpReadRecord DEF ReadRecord
<1>7. CASE ReadEnds
  BY <1>1, <1>7, UpKept DEF ReadEnds, UpInv, UpBytes
<1>8. ASSUME NEW n \in 1 .. BufLen, ReadStream(n) PROVE UpMove /\ UNCHANGED downVars
  BY <1>1, <1>8, UpReadStream DEF ReadStream
<1>9. ASSUME NEW n \in 1 .. BufLen, WriteCall(n)
      PROVE  DownMove /\ UNCHANGED <<kind, upVars>>
  BY <1>1, <1>9, DownWriteCall DEF WriteCall
<1>10. CASE WriteChunk
  BY <1>1, <1>10, DownWriteChunk DEF WriteChunk
<1>11. CASE ClientRead
  BY <1>1, <1>11, DownClientRead DEF ClientRead
<1> QED
  BY <1>2, <1>3, <1>4, <1>5, <1>6, <1>7, <1>8, <1>9, <1>10, <1>11 DEF FramingNext

LEMMA FramingInductive ==
  ASSUME FramingAssumption, FramingIInv, [FramingNext]_framingVars PROVE FramingIInv'
<1>1. CASE UNCHANGED framingVars
  BY <1>1 DEF framingVars, upVars, downVars, FramingIInv, UpInv, UpBytes, DownInv
<1>2. CASE UpMove /\ UNCHANGED downVars
  BY <1>2 DEF UpMove, downVars, FramingIInv, DownInv
<1>3. CASE DownMove /\ UNCHANGED <<kind, upVars>>
  BY <1>3 DEF DownMove, upVars, FramingIInv, UpInv, UpBytes
<1> QED
  BY <1>1, <1>2, <1>3, FramingSteps

LEMMA FramingInitial ==
  ASSUME FramingAssumption, \E k \in {"tls", "obfs"} : FramingInit(k, InitLen)
  PROVE  FramingIInv
<1>1. /\ kind \in {"tls", "obfs"} /\ cSent = 0 /\ inq = <<>> /\ inEnd = "open"
      /\ encPos = InitLen /\ readBuf = <<>> /\ reading = TRUE /\ delivered = <<>>
      /\ unsent = 0 /\ pSent = 0 /\ outq = <<>> /\ decPos = 0 /\ received = <<>>
  BY DEF FramingInit
<1>2. Counted(<<>>, 0) /\ Len(<<>>) = 0 /\ InitLen \in Nat
  BY EmptySeq DEF Counted, FramingAssumption
<1>3. Queue(<<>>, 1, 1, InitLen - 1) /\ Queue(<<>>, 1, 1, -1)
  BY <1>2, EmptySeq DEF Queue
<1> QED
  BY <1>1, <1>2, <1>3 DEF FramingIInv, UpInv, UpBytes, DownInv

LEMMA FramingInvariant == FramingSpec => []FramingIInv
<1>1. (\E k \in {"tls", "obfs"} : FramingInit(k, InitLen)) => FramingIInv
  BY FramingInitial, FramingAssumption
<1>2. FramingIInv /\ [FramingNext]_framingVars => FramingIInv'
  BY FramingInductive, FramingAssumption
<1> QED
  BY <1>1, <1>2, PTL DEF FramingSpec

LEMMA UptoCounted == ASSUME NEW n \in Nat PROVE Counted(Upto(n), 0) /\ Len(Upto(n)) = n
<1>1. Upto(n) \in Seq(Nat) /\ Len(Upto(n)) = n /\ \A i \in 1 .. n : Upto(n)[i] = i
  BY DEF Upto
<1> QED
  BY <1>1 DEF Counted

LEMMA CountedExtends ==
  ASSUME NEW s, NEW t, Counted(s, 0), Counted(t, 0), Len(s) <= Len(t)
  PROVE  Up!Extends(s, t) /\ Down!Extends(s, t)
<1>1. Len(s) \in Nat /\ Len(t) \in Nat
  BY LenProperties DEF Counted
<1>2. ASSUME NEW i \in 1 .. Len(s) PROVE t[i] = s[i]
  BY <1>1 DEF Counted
<1> QED
  BY <1>2 DEF Up!Extends, Down!Extends

\* Nothing is written and nothing read when a connection begins.
LEMMA StreamsInit ==
  ASSUME NEW k, NEW ep, FramingInit(k, ep) PROVE Up!StreamInit /\ Down!StreamInit
<1>1. Upto(0) = <<>>
  BY DEF Upto
<1> QED
  BY <1>1 DEF FramingInit, Up!StreamInit, Down!StreamInit

\* Between states that satisfy the invariant it is enough that one end moves, and
\* not backwards: the numbers of the bytes say which ones they are.
LEMMA UpStep ==
  ASSUME UpBytes, UpBytes',
         \/ delivered' = delivered /\ cSent <= cSent'
         \/ cSent' = cSent /\ Len(delivered) <= Len(delivered')
  PROVE  [Up!StreamNext]_<<Upto(cSent), delivered>>
<1>1. CASE delivered' = delivered /\ cSent <= cSent'
  <2>1. cSent \in Nat /\ cSent' \in Nat
    BY DEF UpBytes
  <2>2. Up!Extends(Upto(cSent), Upto(cSent'))
    BY <1>1, <2>1, UptoCounted, CountedExtends
  <2>3. Up!WriteBytes
    BY <1>1, <2>2 DEF Up!WriteBytes
  <2> QED
    BY <2>3 DEF Up!StreamNext
<1>2. CASE cSent' = cSent /\ Len(delivered) <= Len(delivered')
  <2>1. /\ Counted(delivered, 0) /\ Counted(delivered', 0) /\ Counted(readBuf', Len(delivered'))
        /\ cSent \in Nat /\ Len(delivered') + Len(readBuf') + 1 <= cSent' + 1
    BY DEF UpBytes, Queue
  <2>2. Len(delivered') \in Nat /\ Len(readBuf') \in Nat
    BY <2>1, LenProperties DEF Counted
  <2>3. Len(delivered') <= cSent
    BY <1>2, <2>1, <2>2
  <2>4. Up!Extends(delivered, delivered') /\ Up!Extends(delivered', Upto(cSent))
    BY <1>2, <2>1, <2>3, UptoCounted, CountedExtends
  <2>5. Up!ReadBytes
    BY <1>2, <2>4 DEF Up!ReadBytes
  <2> QED
    BY <2>5 DEF Up!StreamNext
<1> QED
  BY <1>1, <1>2

LEMMA DownStep ==
  ASSUME DownInv, DownInv',
         \/ received' = received /\ pSent <= pSent'
         \/ pSent' = pSent /\ Len(received) <= Len(received')
  PROVE  [Down!StreamNext]_<<Upto(pSent), received>>
<1>1. CASE received' = received /\ pSent <= pSent'
  <2>1. pSent \in Nat /\ pSent' \in Nat
    BY DEF DownInv
  <2>2. Down!Extends(Upto(pSent), Upto(pSent'))
    BY <1>1, <2>1, UptoCounted, CountedExtends
  <2>3. Down!WriteBytes
    BY <1>1, <2>2 DEF Down!WriteBytes
  <2> QED
    BY <2>3 DEF Down!StreamNext
<1>2. CASE pSent' = pSent /\ Len(received) <= Len(received')
  <2>1. /\ Counted(received, 0) /\ Counted(received', 0)
        /\ pSent \in Nat /\ decPos' \in Nat /\ unsent' \in Nat
        /\ decPos' + unsent' = pSent' /\ Len(received') + 1 <= decPos' + 1
    BY DEF DownInv, Queue
  <2>2. Len(received') \in Nat
    BY <2>1, LenProperties DEF Counted
  <2>3. Len(received') <= pSent'
    BY <2>1, <2>2
  <2>4. Down!Extends(received, received') /\ Down!Extends(received', Upto(pSent))
    BY <1>2, <2>1, <2>3, UptoCounted, CountedExtends
  <2>5. Down!ReadBytes
    BY <1>2, <2>4 DEF Down!ReadBytes
  <2> QED
    BY <2>5 DEF Down!StreamNext
<1> QED
  BY <1>1, <1>2

\* When reading has ended, what is missing is still on the wire.
LEMMA CutOnly == UpBytes => EndLosesOnlyTheCut
<1> SUFFICES ASSUME UpBytes, ~reading
             PROVE  Len(delivered) = IF inq = <<>> THEN cSent ELSE inq[1].from - 1
  BY DEF EndLosesOnlyTheCut
<1>1. Len(readBuf) = 0 /\ Len(delivered) \in Nat /\ cSent \in Nat
  BY LenProperties, EmptySeq DEF UpBytes, Counted
<1>2. Queue(inq, Len(delivered) + 1, cSent + 1, InitLen - 1)
  BY <1>1 DEF UpBytes
<1>3. CASE inq = <<>>
  <2>1. Len(delivered) + 1 = cSent + 1
    BY <1>2, <1>3 DEF Queue
  <2> QED
    BY <1>1, <1>3, <2>1
<1>4. CASE inq # <<>>
  <2>1. inq[1].from = Len(delivered) + 1
    BY <1>2, <1>4, QueueTail
  <2> QED
    BY <1>1, <1>4, <2>1
<1> QED
  BY <1>3, <1>4

-----------------------------------------------------------------------------

\* Every variable keeps its type.
THEOREM FramingTypeCorrect == FramingSpec => []FramingTypeOK
<1>1. FramingIInv => FramingTypeOK
  BY DEF FramingIInv, UpInv, UpBytes, DownInv, Queue, Counted, FramingTypeOK
<1> QED
  BY <1>1, FramingInvariant, PTL

\* What the copiers read is what the client has written, whatever the lengths of its
\* records and of the buffers (fakeTLSConn.Read, obfuscatedConn.Read).
THEOREM UpRefinesStream == FramingSpec => UpIsStream
<1>1. (\E k \in {"tls", "obfs"} : FramingInit(k, InitLen)) => Up!StreamInit
  BY StreamsInit
<1>2. FramingIInv /\ FramingIInv' /\ [FramingNext]_framingVars
        => [Up!StreamNext]_<<Upto(cSent), delivered>>
  <2> SUFFICES ASSUME FramingIInv, FramingIInv', [FramingNext]_framingVars
               PROVE  [Up!StreamNext]_<<Upto(cSent), delivered>>
    OBVIOUS
  <2>1. CASE UNCHANGED framingVars
    BY <2>1 DEF framingVars, upVars
  <2>2. CASE FramingNext
    BY <2>2, FramingSteps, UpStep, FramingAssumption
    DEF FramingIInv, UpInv, UpMove, upVars
  <2> QED
    BY <2>1, <2>2
<1> QED
  BY <1>1, <1>2, FramingInvariant, PTL DEF FramingSpec, UpIsStream, Up!StreamSpec

\* What the client deciphers is what Write was given, however it is cut into records
\* (fakeTLSConn.Write, obfuscatedConn.Write).
THEOREM DownRefinesStream == FramingSpec => DownIsStream
<1>1. (\E k \in {"tls", "obfs"} : FramingInit(k, InitLen)) => Down!StreamInit
  BY StreamsInit
<1>2. FramingIInv /\ FramingIInv' /\ [FramingNext]_framingVars
        => [Down!StreamNext]_<<Upto(pSent), received>>
  <2> SUFFICES ASSUME FramingIInv, FramingIInv', [FramingNext]_framingVars
               PROVE  [Down!StreamNext]_<<Upto(pSent), received>>
    OBVIOUS
  <2>1. CASE UNCHANGED framingVars
    BY <2>1 DEF framingVars, downVars
  <2>2. CASE FramingNext
    BY <2>2, FramingSteps, DownStep, FramingAssumption
    DEF FramingIInv, DownMove, downVars
  <2> QED
    BY <2>1, <2>2
<1> QED
  BY <1>1, <1>2, FramingInvariant, PTL DEF FramingSpec, DownIsStream, Down!StreamSpec

\* When reading has ended, nothing but the record that the FIN has cut off, or what
\* follows a foreign record, is missing (fakeTLSConn.Read, line 58).
THEOREM EndLosesTheCut == FramingSpec => []EndLosesOnlyTheCut
<1>1. FramingIInv => EndLosesOnlyTheCut
  BY CutOnly DEF FramingIInv, UpInv
<1> QED
  BY <1>1, FramingInvariant, PTL
=============================================================================
