--------------------------- MODULE StartupProofs ---------------------------
(***************************************************************************)
(* Proofs about the start, for any SECRETS, machines and lengths of keys.  *)
(*                                                                         *)
(* Of the parser: Encode and Decode are inverse (EncodeIs), parseSecret    *)
(* reads what spells a secret (SpellsParse) and nothing else               *)
(* (ParseIsSecret), TrimSpace and the search for the colon find name and   *)
(* secret in a part (CutRead), so that a part is read as it is meant       *)
(* (PartRead).  Of the loop: StartupInv says that after k parts cfg.Secrets*)
(* holds what those of the first k mean that mean something, each at the   *)
(* place that counting gives it.                                           *)
(***************************************************************************)
EXTENDS Startup, FiniteSetTheorems, SequenceTheorems, WellFoundedInduction, TLAPS

-----------------------------------------------------------------------------
(* Minima, maxima, and parts of texts *)

\* A set of numbers that is not empty has a least one.
LEMMA Least ==
  ASSUME NEW T, T \subseteq Nat, T # {}
  PROVE  Min(T) \in T /\ \A y \in T : Min(T) <= y
<1> DEFINE R == OpToRel(<, Nat)
<1>1. PICK x \in T : \A y \in T : ~ (<<y, x>> \in R)
  <2>1. IsWellFoundedOn(R, Nat)
    BY NatLessThanWellFounded
  <2> HIDE DEF R
  <2> QED
    BY <2>1, WFMin, Zenon
<1>2. ASSUME NEW y \in T PROVE x <= y
  <2>1. x \in Nat /\ y \in Nat
    OBVIOUS
  <2>2. y < x => <<y, x>> \in R
    BY <2>1 DEF OpToRel
  <2>3. ~ (y < x)
    BY <1>1, <2>2, Zenon
  <2> QED
    BY <2>1, <2>3
<1> HIDE DEF R
<1> QED
  BY <1>1, <1>2 DEF Min

\* One that no other is smaller than is it.
LEMMA MinIs ==
  ASSUME NEW T, T \subseteq Nat, NEW x \in T, \A y \in T : x <= y
  PROVE  Min(T) = x
<1>1. Min(T) \in T /\ Min(T) <= x
  BY Least
<1>2. Min(T) \in Nat /\ x \in Nat /\ x <= Min(T)
  BY <1>1
<1> QED
  BY ONLY <1>1, <1>2

\* The same of the greatest.
LEMMA MaxIs ==
  ASSUME NEW T, T \subseteq Nat, NEW x \in T, \A y \in T : y <= x
  PROVE  Max(T) = x
<1>1. ASSUME NEW z \in T, \A y \in T : z >= y PROVE z = x
  <2>1. z \in Nat /\ x \in Nat /\ z >= x /\ z <= x
    BY <1>1
  <2> QED
    BY ONLY <2>1
<1>2. \A y \in T : x >= y
  OBVIOUS
<1> QED
  BY <1>1, <1>2 DEF Max

\* A bounded set of numbers that is not empty has a greatest one.
LEMMA Greatest ==
  ASSUME NEW n \in Nat, NEW T, T \subseteq 1 .. n, T # {}
  PROVE  \E x \in T : \A y \in T : y <= x
<1> DEFINE D == {n - y : y \in T}
<1>1. D \subseteq Nat /\ D # {}
  <2>1. \A y \in T : y \in 1 .. n /\ n - y \in Nat
    OBVIOUS
  <2> QED
    BY <2>1
<1>2. PICK d \in D : \A y \in D : d <= y
  BY <1>1, Least
<1>3. PICK x \in T : d = n - x
  OBVIOUS
<1>4. \A y \in T : n - x <= n - y
  BY <1>2, <1>3
<1> HIDE DEF D
<1>5. \A y \in T : y \in Nat /\ x \in Nat
  OBVIOUS
<1> QED
  BY <1>4, <1>5

\* A part of a text, letter by letter.
LEMMA Slice ==
  ASSUME NEW S, NEW t \in Seq(S), NEW a \in Nat, NEW m \in Nat, a + m <= Len(t)
  PROVE  LET s == SubSeq(t, a + 1, a + m) IN
           s \in Seq(S) /\ Len(s) = m /\ \A i \in 1 .. m : s[i] = t[a + i]
<1>1. \A i \in a + 1 .. a + m : t[i] \in S
  <2>1. \A i \in a + 1 .. a + m : i \in 1 .. Len(t)
    OBVIOUS
  <2> QED
    BY <2>1, ElementOfSeq
<1>2. a + 1 \in Int /\ a + m \in Int /\ (a + m) - (a + 1) + 1 = m
  OBVIOUS
<1> DEFINE s == SubSeq(t, a + 1, a + m)
<1>3. /\ s \in Seq(S) /\ Len(s) = IF a + 1 <= a + m THEN (a + m) - (a + 1) + 1 ELSE 0
      /\ \A i \in 1 .. (a + m) - (a + 1) + 1 : s[i] = t[a + 1 + i - 1]
  BY ONLY <1>1, <1>2, SubSeqProperties
<1>4. a + 1 <= a + m <=> m # 0
  OBVIOUS
<1>5. \A i \in 1 .. m : a + 1 + i - 1 = a + i
  OBVIOUS
<1> HIDE DEF s
<1>6. Len(s) = m
  BY <1>2, <1>3, <1>4
<1>7. \A i \in 1 .. m : s[i] = t[a + i]
  BY <1>2, <1>3, <1>5
<1> QED
  BY <1>3, <1>6, <1>7 DEF s

\* Two texts of one length and the same letters are the same.
LEMMA Equal ==
  ASSUME NEW S, NEW s \in Seq(S), NEW t \in Seq(S), NEW n \in Nat,
         Len(s) = n, Len(t) = n, \A i \in 1 .. n : s[i] = t[i]
  PROVE  s = t
BY SeqEqual

\* A part of a part is a part.
LEMMA SliceOfSlice ==
  ASSUME NEW S, NEW t \in Seq(S), NEW a \in Nat, NEW m \in Nat, a + m <= Len(t),
         NEW b \in Nat, NEW k \in Nat, b + k <= m
  PROVE  SubSeq(SubSeq(t, a + 1, a + m), b + 1, b + k) = SubSeq(t, (a + b) + 1, (a + b) + k)
<1> DEFINE s == SubSeq(t, a + 1, a + m)
           u == SubSeq(s, b + 1, b + k)
           v == SubSeq(t, (a + b) + 1, (a + b) + k)
<1>1. s \in Seq(S) /\ Len(s) = m /\ \A i \in 1 .. m : s[i] = t[a + i]
  BY Slice
<1>2. a + b \in Nat /\ (a + b) + k <= Len(t)
  BY LenProperties
<1>3. v \in Seq(S) /\ Len(v) = k /\ \A i \in 1 .. k : v[i] = t[(a + b) + i]
  BY <1>2, Slice
<1> HIDE DEF s, v
<1>4. u \in Seq(S) /\ Len(u) = k /\ \A i \in 1 .. k : u[i] = s[b + i]
  BY <1>1, Slice
<1>5. \A i \in 1 .. k : b + i \in 1 .. m /\ a + (b + i) = (a + b) + i
  OBVIOUS
<1> HIDE DEF u
<1>6. \A i \in 1 .. k : u[i] = v[i]
  BY <1>1, <1>3, <1>4, <1>5
<1>7. u = v
  BY ONLY <1>3, <1>4, <1>6, Equal, k \in Nat
<1> QED
  BY <1>7 DEF u, v, s

-----------------------------------------------------------------------------
(* Where ReadPart finds the name and the secret *)

\* text[lo .. hi] is what TrimSpace leaves of text, colon its first colon (lo - 1: none).
Cut(text, lo, colon, hi) ==
  /\ lo \in 1 .. Len(text) /\ hi \in 1 .. Len(text) /\ lo <= hi
  /\ text[lo] # Space /\ text[hi] # Space
  /\ \A i \in 1 .. Len(text) : i < lo \/ i > hi => text[i] = Space
  /\ colon \in Nat /\ lo - 1 <= colon /\ colon <= hi
  /\ lo <= colon => text[colon] = Colon
  /\ \A i \in lo .. hi : i < colon \/ colon < lo => text[i] # Colon

\* Every part that is not blank is cut in one way.
LEMMA CutExists ==
  ASSUME NEW text \in Seq(Nat), ~IsBlank(text)
  PROVE  \E lo, hi \in 1 .. Len(text), colon \in Nat : Cut(text, lo, colon, hi)
<1> DEFINE n == Len(text)
           solid == {i \in 1 .. n : text[i] # Space}
<1>1. n \in Nat /\ DOMAIN text = 1 .. n
  BY LenProperties
<1> HIDE DEF n
<1>2. solid # {} /\ solid \subseteq Nat /\ solid \subseteq 1 .. n
  BY <1>1 DEF IsBlank
<1>3. PICK lo \in solid : \A i \in solid : lo <= i
  BY <1>2, Least
<1>4. PICK hi \in solid : \A i \in solid : i <= hi
  BY <1>1, <1>2, Greatest
<1>5. lo \in 1 .. n /\ hi \in 1 .. n /\ lo <= hi /\ text[lo] # Space /\ text[hi] # Space
  BY <1>3, <1>4
<1>6. \A i \in 1 .. n : i < lo \/ i > hi => text[i] = Space
  <2> SUFFICES ASSUME NEW i \in 1 .. n, i < lo \/ i > hi, i \in solid PROVE FALSE
    OBVIOUS
  <2>1. lo <= i /\ i <= hi
    BY <1>3, <1>4
  <2> QED
    BY ONLY <2>1, <1>5, i \in 1 .. n, i < lo \/ i > hi
<1> DEFINE colons == {i \in lo .. hi : text[i] = Colon}
<1>7. PICK colon \in Nat :
        /\ lo - 1 <= colon /\ colon <= hi /\ (lo <= colon => text[colon] = Colon)
        /\ \A i \in lo .. hi : i < colon \/ colon < lo => text[i] # Colon
  <2>1. CASE colons = {}
    <3>1. lo - 1 \in Nat /\ lo - 1 <= hi /\ ~(lo <= lo - 1) /\ lo - 1 <= lo - 1
      BY <1>5
    <3>2. \A i \in lo .. hi : text[i] # Colon
      BY <2>1
    <3> QED
      BY <3>1, <3>2
  <2>2. CASE colons # {}
    <3>1. colons \subseteq Nat
      BY <1>5
    <3>2. PICK x \in colons : \A i \in colons : x <= i
      BY <2>2, <3>1, Least
    <3>3. x \in Nat /\ lo \in Nat /\ lo - 1 <= x /\ lo <= x /\ x <= hi /\ text[x] = Colon
      BY <1>5
    <3>4. ASSUME NEW i \in lo .. hi, i < x \/ x < lo, text[i] = Colon PROVE FALSE
      <4>1. x <= i
        BY <3>2, <3>4
      <4>2. i \in Int
        BY <1>5
      <4> QED
        BY ONLY <4>1, <4>2, <3>3, <3>4
    <3> QED
      BY <3>3, <3>4
  <2> QED
    BY <2>1, <2>2
<1>8. Cut(text, lo, colon, hi)
  BY <1>5, <1>6, <1>7 DEF Cut, n
<1> QED
  BY <1>5, <1>8 DEF n

\* What ReadPart makes of a part that is cut so.
LEMMA CutRead ==
  ASSUME NEW text \in Seq(Nat), NEW lo, NEW colon, NEW hi, Cut(text, lo, colon, hi)
  PROVE  /\ TrimSpace(text) # <<>>
         /\ ReadPart(text) = Named(parseSecret(ToLower(SecretText(text, colon, hi))),
                                   SubSeq(text, lo, colon - 1), SecretText(text, colon, hi))
<1> DEFINE n == Len(text)
           part == SubSeq(text, lo, hi)
<1>1. n \in Nat /\ DOMAIN text = 1 .. n
  BY LenProperties
<1>2. PICK a \in Nat, m \in Nat, c \in Nat :
        /\ m # 0 /\ a + m <= Len(text) /\ c <= m
        /\ lo = a + 1 /\ hi = a + m /\ colon = a + c
  <2>1. lo - 1 \in Nat /\ hi - lo + 1 \in Nat /\ colon - (lo - 1) \in Nat
    BY <1>1 DEF Cut
  <2>2. /\ hi - lo + 1 # 0 /\ (lo - 1) + (hi - lo + 1) <= Len(text)
        /\ colon - (lo - 1) <= hi - lo + 1
        /\ lo = (lo - 1) + 1 /\ hi = (lo - 1) + (hi - lo + 1) /\ colon = (lo - 1) + (colon - (lo - 1))
    BY <1>1 DEF Cut
  <2> QED
    BY <2>1, <2>2
<1>3. part \in Seq(Nat) /\ Len(part) = m /\ \A i \in 1 .. m : part[i] = text[a + i]
  BY <1>2, Slice
<1>4. TrimSpace(text) = part
  <2> DEFINE solid == {i \in DOMAIN text : text[i] # Space}
  <2>1. solid \subseteq Nat /\ lo \in solid /\ hi \in solid
    BY <1>1 DEF Cut
  <2>2. \A i \in solid : lo <= i /\ i <= hi
    BY <1>1 DEF Cut
  <2>3. Min(solid) = lo
    BY ONLY <2>1, <2>2, MinIs
  <2>4. Max(solid) = hi
    BY ONLY <2>1, <2>2, MaxIs
  <2>5. solid # {}
    BY <2>1
  <2> QED
    BY ONLY <2>3, <2>4, <2>5 DEF TrimSpace
<1>5. SelectInSeq(part, LAMBDA ch : ch = Colon) = c
  <2> DEFINE I == {i \in 1 .. Len(part) : part[i] = Colon}
  <2>1. SelectInSeq(part, LAMBDA ch : ch = Colon) = IF I # {} THEN Min(I) ELSE 0
    BY DEF SelectInSeq
  <2>2. \A i \in I : i \in 1 .. m /\ a + i \in lo .. hi /\ text[a + i] = Colon
    <3>1. \A i \in 1 .. m : a + i \in lo .. hi
      BY <1>2
    <3> QED
      BY <1>3, <3>1
  <2>3. CASE c = 0
    <3>1. \A i \in lo .. hi : text[i] # Colon
      BY <1>2, <2>3 DEF Cut
    <3>2. I = {}
      BY <2>2, <3>1
    <3> QED
      BY <2>1, <2>3, <3>2
  <2>4. CASE c # 0
    <3>1. c \in 1 .. m /\ lo <= colon
      BY <1>2, <2>4
    <3>2. c \in I
      BY <1>2, <1>3, <3>1 DEF Cut
    <3>3. \A i \in I : c <= i
      <4> SUFFICES ASSUME NEW i \in I, ~(c <= i) PROVE FALSE
        OBVIOUS
      <4>1. a + i < colon
        BY <1>2, <2>2
      <4> QED
        BY <2>2, <4>1 DEF Cut
    <3>4. I \subseteq Nat
      OBVIOUS
    <3> HIDE DEF I
    <3> QED
      BY <2>1, <3>2, <3>3, <3>4, MinIs
  <2> QED
    BY <2>3, <2>4
<1>6. After(part, c) = SecretText(text, colon, hi)
  <2>1. c \in Nat /\ m - c \in Nat /\ c + (m - c) = m /\ (a + c) + (m - c) = hi
    BY <1>2
  <2>2. SubSeq(SubSeq(text, a + 1, a + m), c + 1, c + (m - c))
          = SubSeq(text, (a + c) + 1, (a + c) + (m - c))
    BY <1>2, <2>1, SliceOfSlice
  <2> QED
    BY <1>2, <1>3, <2>1, <2>2 DEF After, SecretText
<1>7. SubSeq(part, 1, c - 1) = SubSeq(text, lo, colon - 1)
  <2>1. CASE c = 0
    <3>1. SubSeq(part, 1, c - 1) = <<>> /\ SubSeq(text, lo, colon - 1) = <<>>
      BY <1>2, <2>1, SubSeqEmpty
    <3> QED
      BY <3>1
  <2>2. CASE c # 0
    <3>1. /\ c - 1 \in Nat /\ 0 + (c - 1) <= m /\ 0 \in Nat
          /\ 0 + 1 = 1 /\ 0 + (c - 1) = c - 1 /\ (a + 0) + 1 = lo /\ (a + 0) + (c - 1) = colon - 1
      BY <1>2, <2>2
    <3>2. SubSeq(SubSeq(text, a + 1, a + m), 0 + 1, 0 + (c - 1))
            = SubSeq(text, (a + 0) + 1, (a + 0) + (c - 1))
      BY <1>2, <3>1, SliceOfSlice
    <3> QED
      BY <1>2, <3>1, <3>2
  <2> QED
    BY <2>1, <2>2
<1>8. part # <<>>
  BY <1>2, <1>3, EmptySeq
<1> HIDE DEF part
<1> QED
  BY <1>4, <1>5, <1>6, <1>7, <1>8 DEF ReadPart

\* A blank part is empty, and what is written in any other is found.
LEMMA BlankIs ==
  ASSUME NEW text \in Seq(Nat), IsBlank(text)
  PROVE  TrimSpace(text) = <<>>
BY DEF TrimSpace, IsBlank

-----------------------------------------------------------------------------
(* Hexadecimal digits *)

\* The two digits of a byte.
LEMMA TwoDigits ==
  ASSUME NEW b \in Byte
  PROVE  b \div 16 \in Digits /\ b % 16 \in Digits /\ 16 * (b \div 16) + (b % 16) = b
<1>1. b \in Int /\ 0 <= b /\ b <= 255
  BY DEF Byte
<1>2. 16 * (b \div 16) + (b % 16) = b /\ b \div 16 \in Int /\ b % 16 \in 0 .. 15
  BY ONLY <1>1, SMT
<1>3. 0 <= b \div 16 /\ b \div 16 <= 15
  BY ONLY <1>1, <1>2
<1>4. b \div 16 \in 0 .. 15
  BY ONLY <1>2, <1>3
<1> QED
  BY ONLY <1>2, <1>4, Zenon DEF Digits

\* Where they are written.
LEMMA Places ==
  ASSUME NEW j \in Nat \ {0}
  PROVE  /\ (2 * j) % 2 = 0 /\ (2 * j + 1) \div 2 = j
         /\ (2 * j - 1) % 2 = 1 /\ (2 * j - 1 + 1) \div 2 = j
BY SMT

\* Every place is one of them.
LEMMA Halves ==
  ASSUME NEW n \in Nat, NEW i \in 1 .. 2 * n
  PROVE  (i + 1) \div 2 \in 1 .. n
BY SMT

\* Encode writes two digits for each byte, from which Decode gets it back.
LEMMA EncodeIs ==
  ASSUME NEW b \in Seq(Byte), NEW n \in Nat, n = Len(b)
  PROVE  /\ Encode(b) \in Seq(Digits) /\ Len(Encode(b)) = 2 * n
         /\ Decode(Encode(b)) = b
<1> DEFINE t == Encode(b)
<1>1. \A j \in 1 .. n : b[j] \in Byte
  BY ElementOfSeq
<1>2. \A i \in 1 .. 2 * n :
        t[i] = IF i % 2 = 1 THEN b[(i + 1) \div 2] \div 16 ELSE b[(i + 1) \div 2] % 16
  BY DEF Encode
<1>3. t = [i \in 1 .. 2 * n |-> t[i]]
  BY DEF Encode
<1> HIDE DEF t
<1>4. \A i \in 1 .. 2 * n : t[i] \in Digits
  <2> SUFFICES ASSUME NEW i \in 1 .. 2 * n PROVE t[i] \in Digits
    OBVIOUS
  <2>1. b[(i + 1) \div 2] \in Byte
    BY <1>1, Halves
  <2> QED
    BY <1>2, <2>1, TwoDigits
<1>5. 2 * n \in Nat
  OBVIOUS
<1>6. t \in Seq(Digits) /\ Len(t) = 2 * n
  <2>1. t \in [1 .. 2 * n -> Digits]
    BY <1>3, <1>4
  <2> QED
    BY ONLY <1>5, <2>1
<1>7. (2 * n) \div 2 = n
  BY SMT
<1>8. \A j \in 1 .. n : 16 * t[2 * j - 1] + t[2 * j] = b[j]
  <2> SUFFICES ASSUME NEW j \in 1 .. n PROVE 16 * t[2 * j - 1] + t[2 * j] = b[j]
    OBVIOUS
  <2>1. j \in Nat \ {0} /\ 2 * j - 1 \in 1 .. 2 * n /\ 2 * j \in 1 .. 2 * n
    OBVIOUS
  <2>2. t[2 * j - 1] = b[j] \div 16
    BY <1>2, <2>1, Places
  <2>3. t[2 * j] = b[j] % 16
    <3>1. (2 * j) % 2 # 1
      BY <2>1, Places
    <3> QED
      BY <1>2, <2>1, <3>1, Places
  <2>4. b[j] \in Byte
    BY <1>1
  <2>5. 16 * (b[j] \div 16) + (b[j] % 16) = b[j]
    BY ONLY <2>4, TwoDigits, Zenon
  <2> QED
    BY ONLY <2>2, <2>3, <2>5, Zenon
<1>9. Decode(t) = [j \in 1 .. n |-> b[j]]
  BY <1>6, <1>7, <1>8 DEF Decode
<1> QED
  BY <1>6, <1>9 DEF t

\* Sequences of digits are hexadecimal if their length is even.
LEMMA DigitsAreHex ==
  ASSUME NEW t \in Seq(Digits), NEW n \in Nat, Len(t) = 2 * n
  PROVE  IsHex(t) /\ ToSet(t) \subseteq Digits
<1>1. (2 * n) % 2 = 0
  BY SMT
<1>2. \A i \in DOMAIN t : t[i] \in Digits
  BY ElementOfSeq
<1> QED
  BY <1>1, <1>2 DEF IsHex, ToSet

-----------------------------------------------------------------------------
(* Prefixes *)

\* A text begins with a letter twice.
LEMMA BeginsWith ==
  ASSUME NEW t \in Seq(Nat), NEW d \in Nat
  PROVE  /\ IsPrefix(<<d, d>>, t) <=> Len(t) >= 2 /\ t[1] = d /\ t[2] = d
         /\ Len(t) >= 2 => (SubSeq(t, 1, 2) = <<d, d>> <=> t[1] = d /\ t[2] = d)
<1>1. <<d, d>> \in Seq(Nat) /\ Len(<<d, d>>) = 2 /\ SubSeq(<<d, d>>, 1, 2) = <<d, d>>
  <2>1. <<d, d>> \in Seq(Nat) /\ Len(<<d, d>>) = 2
    OBVIOUS
  <2> QED
    BY <2>1, SubSeqFull
<1>2. ASSUME Len(t) >= 2 PROVE SubSeq(t, 1, 2) = <<d, d>> <=> t[1] = d /\ t[2] = d
  <2> DEFINE s == SubSeq(t, 0 + 1, 0 + 2)
  <2>1. s \in Seq(Nat) /\ Len(s) = 2 /\ \A i \in 1 .. 2 : s[i] = t[0 + i]
    BY <1>2, Slice
  <2>2. s = SubSeq(t, 1, 2)
    OBVIOUS
  <2> HIDE DEF s
  <2>3. s[1] = t[1] /\ s[2] = t[2]
    BY <2>1
  <2>4. s = <<d, d>> <=> s[1] = d /\ s[2] = d
    <3>1. s = <<d, d>> => s[1] = d /\ s[2] = d
      OBVIOUS
    <3>2. ASSUME s[1] = d, s[2] = d PROVE s = <<d, d>>
      <4>1. \A i \in 1 .. 2 : s[i] = <<d, d>>[i]
        BY <3>2
      <4> QED
        BY <1>1, <2>1, <4>1, Equal
    <3> QED
      BY <3>1, <3>2
  <2> QED
    BY <2>2, <2>3, <2>4
<1> QED
  BY <1>1, <1>2 DEF IsPrefix

\* What follows a prefix.
LEMMA AfterConcat ==
  ASSUME NEW S, NEW s \in Seq(S), NEW t \in Seq(S), NEW m \in Nat, NEW n \in Nat,
         Len(s) = m, Len(t) = n
  PROVE  /\ s \o t \in Seq(S) /\ Len(s \o t) = m + n
         /\ SubSeq(s \o t, 1, m) = s /\ After(s \o t, m) = t
         /\ \A i \in 1 .. m : (s \o t)[i] = s[i]
<1> DEFINE u == s \o t
<1>1. u \in Seq(S) /\ Len(u) = m + n
      /\ \A i \in 1 .. m + n : u[i] = IF i <= m THEN s[i] ELSE t[i - m]
  BY ConcatProperties
<1> HIDE DEF u
<1>2. SubSeq(u, 1, m) = s
  <2> DEFINE v == SubSeq(u, 0 + 1, 0 + m)
  <2>1. v \in Seq(S) /\ Len(v) = m /\ \A i \in 1 .. m : v[i] = u[0 + i]
    <3>1. 0 \in Nat /\ 0 + m <= Len(u)
      BY <1>1
    <3> QED
      BY <1>1, <3>1, Slice
  <2>2. v = SubSeq(u, 1, m)
    OBVIOUS
  <2> HIDE DEF v
  <2>3. \A i \in 1 .. m : v[i] = s[i]
    BY <1>1, <2>1
  <2> QED
    BY <2>1, <2>2, <2>3, Equal
<1>3. SubSeq(u, m + 1, m + n) = t
  <2> DEFINE v == SubSeq(u, m + 1, m + n)
  <2>1. v \in Seq(S) /\ Len(v) = n /\ \A i \in 1 .. n : v[i] = u[m + i]
    <3>1. m + n <= Len(u)
      BY <1>1
    <3> QED
      BY <1>1, <3>1, Slice
  <2> HIDE DEF v
  <2>2. \A i \in 1 .. n : v[i] = t[i]
    <3>1. \A i \in 1 .. n : m + i \in 1 .. m + n /\ ~(m + i <= m) /\ (m + i) - m = i
      OBVIOUS
    <3> QED
      BY <1>1, <2>1, <3>1
  <2> QED
    BY <2>1, <2>2, Equal DEF v
<1>4. \A i \in 1 .. m : u[i] = s[i]
  BY <1>1
<1> QED
  BY <1>1, <1>2, <1>3, <1>4 DEF u, After

-----------------------------------------------------------------------------
(* parseSecret *)

\* The digits of bytes that follow one another.
LEMMA ParseEEIs ==
  ASSUME NEW raw \in Seq(Byte), NEW domain \in Seq(Byte), Len(raw) = KeyLen
  PROVE  ParseEE(Encode(raw) \o Encode(domain)) = [type |-> "ee", raw |-> raw, domain |-> domain]
<1> DEFINE s == Encode(raw)
           t == Encode(domain)
           n == Len(domain)
<1>1. KeyLen \in Nat /\ 2 * KeyLen \in Nat /\ n \in Nat /\ 2 * n \in Nat
  BY StartupAssumption, LenProperties
<1>2. s \in Seq(Digits) /\ Len(s) = 2 * KeyLen /\ Decode(s) = raw
  BY <1>1, EncodeIs
<1>3. t \in Seq(Digits) /\ Len(t) = 2 * n /\ Decode(t) = domain
  BY <1>1, EncodeIs
<1>4. IsHex(s) /\ IsHex(t)
  BY <1>1, <1>2, <1>3, DigitsAreHex
<1> HIDE DEF s, t, n
<1>5. /\ Len(s \o t) = 2 * KeyLen + 2 * n
      /\ SubSeq(s \o t, 1, 2 * KeyLen) = s /\ After(s \o t, 2 * KeyLen) = t
  BY ONLY <1>1, <1>2, <1>3, AfterConcat
<1>6. ~(2 * KeyLen + 2 * n < 2 * KeyLen)
  BY <1>1
<1>7. ~(Len(s \o t) < 2 * KeyLen)
  BY <1>5, <1>6
<1>8. ParseEE(s \o t) = [type |-> "ee", raw |-> raw, domain |-> domain]
  BY ONLY <1>2, <1>3, <1>4, <1>5, <1>7 DEF ParseEE
<1> QED
  BY <1>8 DEF s, t

LEMMA ParseDDIs ==
  ASSUME NEW raw \in Seq(Byte), Len(raw) = KeyLen
  PROVE  ParseDD(Encode(raw)) = [type |-> "dd", raw |-> raw, domain |-> <<>>]
<1>1. KeyLen \in Nat
  BY StartupAssumption
<1>2. Encode(raw) \in Seq(Digits) /\ Len(Encode(raw)) = 2 * KeyLen /\ Decode(Encode(raw)) = raw
  BY <1>1, EncodeIs
<1>3. IsHex(Encode(raw))
  BY <1>1, <1>2, DigitsAreHex
<1> QED
  BY <1>2, <1>3 DEF ParseDD

\* A prefix before a text of digits.
LEMMA PrefixIs ==
  ASSUME NEW d \in Digits, NEW t \in Seq(Digits)
  PROVE  LET u == <<d, d>> \o t IN
           /\ u \in Seq(Nat) /\ After(u, 2) = t /\ Len(u) = 2 + Len(t)
           /\ \A c \in Nat : IsPrefix(<<c, c>>, u) <=> c = d
<1> DEFINE p == <<d, d>>
           u == p \o t
<1>1. p \in Seq(Digits) /\ Len(p) = 2 /\ p[1] = d /\ p[2] = d /\ Len(t) \in Nat
  OBVIOUS
<1> HIDE DEF p
<1>2. /\ u \in Seq(Digits) /\ Len(u) = 2 + Len(t) /\ After(u, 2) = t
      /\ \A i \in 1 .. 2 : u[i] = p[i]
  <2>1. PICK m \in Nat, n \in Nat : m = 2 /\ Len(p) = m /\ Len(t) = n
    BY <1>1
  <2>2. /\ p \o t \in Seq(Digits) /\ Len(p \o t) = m + n /\ After(p \o t, m) = t
        /\ \A i \in 1 .. m : (p \o t)[i] = p[i]
    <3>1. p \in Seq(Digits) /\ Len(p) = m /\ Len(t) = n
      BY <1>1, <2>1
    <3> QED
      BY ONLY <3>1, AfterConcat, t \in Seq(Digits), m \in Nat, n \in Nat
  <2> QED
    BY <2>1, <2>2
<1> HIDE DEF u
<1>3. u \in Seq(Nat)
  <2>1. Digits \subseteq Nat
    BY DEF Digits
  <2> QED
    BY <1>2, <2>1, SeqMonotonic
<1>4. Len(u) >= 2 /\ u[1] = d /\ u[2] = d
  BY <1>1, <1>2
<1>5. \A c \in Nat : IsPrefix(<<c, c>>, u) <=> c = d
  <2> SUFFICES ASSUME NEW c \in Nat PROVE IsPrefix(<<c, c>>, u) <=> c = d
    OBVIOUS
  <2>1. IsPrefix(<<c, c>>, u) <=> Len(u) >= 2 /\ u[1] = c /\ u[2] = c
    BY <1>3, BeginsWith
  <2> QED
    BY <1>4, <2>1
<1> QED
  BY <1>2, <1>3, <1>5 DEF u, p

\* parseSecret reads back what spells a secret, but for a plain one that begins like another.
LEMMA SpellsParse ==
  ASSUME NEW text, NEW m, m.type \in {"dd", "ee"}, Spells(text, m)
  PROVE  parseSecret(text) = IF TakenForPrefixed(m) THEN Invalid
                             ELSE [type |-> m.type, raw |-> m.raw, domain |-> m.domain]
<1> DEFINE s == Encode(m.raw)
           t == Encode(m.domain)
<1>1. m.raw \in Seq(Byte) /\ Len(m.raw) = KeyLen /\ m.domain \in Seq(Byte) /\ KeyLen \in Nat \ {0}
  BY StartupAssumption DEF Spells
<1>2. s \in Seq(Digits) /\ Len(s) = 2 * KeyLen
  BY <1>1, EncodeIs
<1>3. t \in Seq(Digits)
  BY <1>1, EncodeIs, LenProperties
<1>4. 13 \in Digits /\ 14 \in Digits /\ 13 \in Nat /\ 14 \in Nat
  BY DEF Digits
<1>5. CASE m.type = "ee"
  <2>1. text = EE \o s \o t
    BY <1>5 DEF Spells
  <2>2. s \o t \in Seq(Digits)
    BY <1>2, <1>3, ConcatProperties
  <2>3. EE \o s \o t = EE \o (s \o t)
    <3>1. EE \in Seq(Digits)
      BY <1>4 DEF EE
    <3> HIDE DEF s, t
    <3> QED
      BY <1>2, <1>3, <3>1, ConcatAssociative
  <2> HIDE DEF s, t
  <2>4. IsPrefix(EE, text) /\ After(text, 2) = s \o t
    <3> DEFINE r == s \o t
    <3>1. r \in Seq(Digits) /\ text = <<14, 14>> \o r
      BY <2>1, <2>2, <2>3 DEF EE
    <3> HIDE DEF r
    <3>2. IsPrefix(<<14, 14>>, text) /\ After(text, 2) = r
      BY ONLY <1>4, <3>1, PrefixIs
    <3> QED
      BY ONLY <3>2 DEF EE, r
  <2>5. ParseEE(s \o t) = [type |-> "ee", raw |-> m.raw, domain |-> m.domain]
    BY <1>1, ParseEEIs DEF s, t
  <2>6. ~TakenForPrefixed(m)
    BY <1>5 DEF TakenForPrefixed
  <2> QED
    BY <1>5, <2>4, <2>5, <2>6 DEF parseSecret
<1>6. CASE m.type = "dd" /\ ~m.plain
  <2>1. text = DD \o s /\ m.domain = <<>>
    BY <1>6 DEF Spells
  <2>2. ~IsPrefix(EE, text) /\ IsPrefix(DD, text) /\ After(text, 2) = s
    <3> HIDE DEF s
    <3> QED
      BY <1>2, <1>4, <2>1, PrefixIs DEF EE, DD
  <2>3. ParseDD(s) = [type |-> "dd", raw |-> m.raw, domain |-> <<>>]
    BY <1>1, ParseDDIs
  <2>4. ~TakenForPrefixed(m)
    BY <1>6 DEF TakenForPrefixed
  <2> HIDE DEF s
  <2> QED
    BY <1>6, <2>1, <2>2, <2>3, <2>4 DEF parseSecret
<1>7. CASE m.type = "dd" /\ m.plain
  <2>1. text = s /\ m.domain = <<>>
    BY <1>7 DEF Spells
  <2>2. text \in Seq(Nat) /\ Len(text) = 2 * KeyLen
    <3>1. Digits \subseteq Nat
      BY DEF Digits
    <3> QED
      BY <1>2, <2>1, <3>1, SeqMonotonic
  <2>3. 2 * KeyLen \in Nat /\ 2 * KeyLen >= 2
    BY <1>1
  <2>4. Len(text) >= 2
    BY ONLY <2>2, <2>3
  <2>5. /\ IsPrefix(EE, text) <=> SubSeq(text, 1, 2) = EE
        /\ IsPrefix(DD, text) <=> SubSeq(text, 1, 2) = DD
    BY ONLY <1>4, <2>2, <2>4, BeginsWith DEF EE, DD
  <2>6. TakenForPrefixed(m) <=> IsPrefix(EE, text) \/ IsPrefix(DD, text)
    BY <1>7, <2>1, <2>5 DEF TakenForPrefixed
  <2>7. Len(After(text, 2)) = 2 * KeyLen - 2
    <3>1. 2 * KeyLen - 2 \in Nat /\ 2 + (2 * KeyLen - 2) = 2 * KeyLen
      BY <2>3
    <3>2. Len(SubSeq(text, 2 + 1, 2 + (2 * KeyLen - 2))) = 2 * KeyLen - 2
      BY <2>2, <3>1, Slice
    <3> QED
      BY <2>2, <3>1, <3>2 DEF After
  <2>8. 2 * KeyLen - 2 < 2 * KeyLen /\ 2 * KeyLen - 2 # 2 * KeyLen
    BY <2>3
  <2>9. ParseEE(After(text, 2)) = Invalid /\ ParseDD(After(text, 2)) = Invalid
    <3>1. Len(After(text, 2)) < 2 * KeyLen /\ Len(After(text, 2)) # 2 * KeyLen
      BY <2>7, <2>8
    <3> QED
      BY ONLY <3>1 DEF ParseEE, ParseDD
  <2>10. ParseDD(text) = [type |-> "dd", raw |-> m.raw, domain |-> <<>>]
    BY <1>1, <2>1, ParseDDIs
  <2> HIDE DEF s
  <2> QED
    BY <1>7, <2>1, <2>6, <2>9, <2>10 DEF parseSecret
<1> QED
  BY <1>5, <1>6, <1>7

\* The texts that spell a secret have digits only, and enough of them.
LEMMA SpellsDigits ==
  ASSUME NEW text, NEW m, m.type \in {"dd", "ee"}, Spells(text, m)
  PROVE  text \in Seq(Digits) /\ Len(text) >= 2 * KeyLen
<1> DEFINE s == Encode(m.raw)
           t == Encode(m.domain)
<1>1. PICK k \in Nat, n \in Nat : KeyLen = k /\ Len(m.domain) = n
  BY StartupAssumption, LenProperties DEF Spells
<1>2. s \in Seq(Digits) /\ Len(s) = 2 * k
  BY <1>1, EncodeIs DEF Spells
<1>3. t \in Seq(Digits) /\ Len(t) = 2 * n
  BY <1>1, EncodeIs DEF Spells
<1>4. EE \in Seq(Digits) /\ DD \in Seq(Digits) /\ Len(EE) = 2 /\ Len(DD) = 2
  BY DEF EE, DD, Digits
<1> HIDE DEF s, t
<1>5. EE \o s \in Seq(Digits) /\ Len(EE \o s) = 2 + 2 * k
  <2>1. EE \o s \in Seq(Digits) /\ Len(EE \o s) = Len(EE) + Len(s)
    BY ONLY <1>2, <1>4, ConcatProperties
  <2> QED
    BY ONLY <1>2, <1>4, <2>1
<1>6. EE \o s \o t \in Seq(Digits) /\ Len(EE \o s \o t) = 2 + 2 * k + 2 * n
  BY <1>3, <1>5, ConcatProperties
<1>7. DD \o s \in Seq(Digits) /\ Len(DD \o s) = 2 + 2 * k
  <2>1. DD \o s \in Seq(Digits) /\ Len(DD \o s) = Len(DD) + Len(s)
    BY ONLY <1>2, <1>4, ConcatProperties
  <2> QED
    BY ONLY <1>2, <1>4, <2>1
<1>8. text \in {EE \o s \o t, s, DD \o s}
  BY DEF Spells, s, t
<1>9. 2 + 2 * k + 2 * n >= 2 * k /\ 2 + 2 * k >= 2 * k /\ 2 * k >= 2 * k
  OBVIOUS
<1> QED
  BY <1>1, <1>2, <1>6, <1>7, <1>8, <1>9

\* Of a text of digits every letter is one.
LEMMA AllDigits ==
  ASSUME NEW t \in Seq(Nat), NEW n \in Nat, Len(t) = n
  PROVE  ToSet(t) \subseteq Digits <=> \A i \in 1 .. n : t[i] \in Digits
BY LenProperties DEF ToSet

\* A part of even length before which an even number of letters stand.
LEMMA EvenSum ==
  ASSUME NEW k \in Nat, NEW n \in Nat, n % 2 = 0
  PROVE  (2 + 2 * k + n) % 2 = 0 /\ (2 * k) % 2 = 0 /\ (2 + 2 * k) % 2 = 0
BY SMT

\* parseSecret accepts nothing but the three forms of a secret.
LEMMA ParseIsSecret ==
  ASSUME NEW t \in Seq(Nat), parseSecret(t).type # "invalid"
  PROVE  IsSecret(t)
<1>1. PICK k \in Nat, n \in Nat : KeyLen = k /\ Len(t) = n
  BY StartupAssumption, LenProperties
<1>2. 14 \in Digits /\ 13 \in Digits /\ 14 \in Nat /\ 13 \in Nat
  BY DEF Digits
<1>3. Invalid.type = "invalid"
  BY DEF Invalid
<1> DEFINE rest == After(t, 2)
<1>4. ASSUME NEW d \in Digits, IsPrefix(<<d, d>>, t)
      PROVE  \E m \in Nat :
               /\ n = 2 + m /\ rest \in Seq(Nat) /\ Len(rest) = m
               /\ ToSet(rest) \subseteq Digits => ToSet(t) \subseteq Digits
  <2>1. d \in Nat
    BY DEF Digits
  <2>2. n >= 2 /\ t[1] = d /\ t[2] = d
    BY <1>1, <1>4, <2>1, BeginsWith
  <2>3. PICK m \in Nat : n = 2 + m
    <3>1. n - 2 \in Nat /\ n = 2 + (n - 2)
      BY <2>2
    <3> QED
      BY <3>1
  <2>4. rest = SubSeq(t, 2 + 1, 2 + m)
    BY <1>1, <2>3 DEF After
  <2> HIDE DEF rest
  <2>5. rest \in Seq(Nat) /\ Len(rest) = m /\ \A i \in 1 .. m : rest[i] = t[2 + i]
    BY <1>1, <2>3, <2>4, Slice
  <2>6. ASSUME ToSet(rest) \subseteq Digits, NEW i \in 1 .. n PROVE t[i] \in Digits
    <3>1. \A j \in 1 .. m : rest[j] \in Digits
      BY <2>5, <2>6, AllDigits
    <3>2. CASE i > 2
      <4>1. i - 2 \in 1 .. m /\ 2 + (i - 2) = i
        BY <2>3, <3>2
      <4> QED
        BY <2>5, <3>1, <4>1
    <3>3. CASE i <= 2
      <4>1. i = 1 \/ i = 2
        BY <3>3
      <4> QED
        BY <2>2, <4>1
    <3> QED
      BY <3>2, <3>3
  <2>7. ToSet(rest) \subseteq Digits => ToSet(t) \subseteq Digits
    BY <1>1, <2>6, AllDigits
  <2> QED
    BY <2>3, <2>5, <2>7
<1>5. CASE IsPrefix(EE, t)
  <2>1. PICK m \in Nat :
          /\ n = 2 + m /\ rest \in Seq(Nat) /\ Len(rest) = m
          /\ ToSet(rest) \subseteq Digits => ToSet(t) \subseteq Digits
    BY <1>2, <1>4, <1>5 DEF EE
  <2> DEFINE key == SubSeq(rest, 1, 2 * KeyLen)
             domain == After(rest, 2 * KeyLen)
  <2>2. parseSecret(t) = ParseEE(rest)
    BY <1>5 DEF parseSecret
  <2> HIDE DEF rest
  <2>3. ~(m < 2 * k) /\ IsHex(key) /\ IsHex(domain)
    BY <1>1, <1>3, <2>1, <2>2 DEF ParseEE
  <2>4. PICK q \in Nat : m = 2 * k + q
    <3>1. m - 2 * k \in Nat /\ m = 2 * k + (m - 2 * k)
      BY <2>3
    <3> QED
      BY <3>1
  <2>5. PICK j \in Nat : j = 2 * k
    OBVIOUS
  <2>6. key = SubSeq(rest, 0 + 1, 0 + j) /\ domain = SubSeq(rest, j + 1, j + q)
    BY <1>1, <2>1, <2>4, <2>5 DEF After
  <2> HIDE DEF key, domain
  <2>7. key \in Seq(Nat) /\ Len(key) = j /\ \A i \in 1 .. j : key[i] = rest[0 + i]
    <3>1. 0 \in Nat /\ 0 + j <= Len(rest)
      BY <2>1, <2>4, <2>5
    <3> QED
      BY <2>1, <2>6, <3>1, Slice
  <2>8. domain \in Seq(Nat) /\ Len(domain) = q /\ \A i \in 1 .. q : domain[i] = rest[j + i]
    <3>1. j + q <= Len(rest)
      BY <2>1, <2>4, <2>5
    <3> QED
      BY <2>1, <2>6, <3>1, Slice
  <2>9. /\ \A i \in 1 .. j : key[i] \in Digits
        /\ \A i \in 1 .. q : domain[i] \in Digits
    BY <2>3, <2>7, <2>8, AllDigits DEF IsHex
  <2>10. ASSUME NEW i \in 1 .. m PROVE rest[i] \in Digits
    <3>1. CASE i <= j
      <4>1. i \in 1 .. j /\ 0 + i = i
        BY <3>1
      <4> QED
        BY <2>7, <2>9, <4>1
    <3>2. CASE ~(i <= j)
      <4>1. i - j \in 1 .. q /\ j + (i - j) = i
        BY <2>4, <2>5, <3>2
      <4> QED
        BY <2>8, <2>9, <4>1
    <3> QED
      BY <3>1, <3>2
  <2>11. ToSet(t) \subseteq Digits
    BY <2>1, <2>10, AllDigits
  <2>12. n = 2 + 2 * k + q /\ q % 2 = 0 /\ n >= 2 + 2 * k
    BY <2>1, <2>3, <2>4, <2>8 DEF IsHex
  <2>13. n % 2 = 0
    BY ONLY <2>12, EvenSum, k \in Nat, q \in Nat
  <2> QED
    BY <1>1, <1>5, <2>11, <2>12, <2>13 DEF IsSecret
<1>6. CASE ~IsPrefix(EE, t) /\ IsPrefix(DD, t)
  <2>1. PICK m \in Nat :
          /\ n = 2 + m /\ rest \in Seq(Nat) /\ Len(rest) = m
          /\ ToSet(rest) \subseteq Digits => ToSet(t) \subseteq Digits
    BY <1>2, <1>4, <1>6 DEF DD
  <2>2. parseSecret(t) = ParseDD(rest)
    BY <1>6 DEF parseSecret
  <2> HIDE DEF rest
  <2>3. IsHex(rest) /\ m = 2 * k
    BY <1>1, <1>3, <2>1, <2>2 DEF ParseDD
  <2>4. n = 2 + 2 * k /\ ToSet(t) \subseteq Digits
    BY <2>1, <2>3 DEF IsHex
  <2>5. n % 2 = 0
    BY <2>4, EvenSum
  <2> QED
    BY <1>1, <1>6, <2>4, <2>5 DEF IsSecret
<1>7. CASE ~IsPrefix(EE, t) /\ ~IsPrefix(DD, t)
  <2>1. parseSecret(t) = ParseDD(t)
    BY <1>7 DEF parseSecret
  <2>2. IsHex(t) /\ n = 2 * k
    BY <1>1, <1>3, <2>1 DEF ParseDD
  <2> QED
    BY <1>1, <2>2 DEF IsHex, IsSecret
<1> QED
  BY <1>5, <1>6, <1>7

-----------------------------------------------------------------------------
(* What Load reads from a part *)

\* Small letters stand where letters stood.
LEMMA LowerIs ==
  ASSUME NEW t \in Seq(Nat), NEW n \in Nat, Len(t) = n
  PROVE  /\ ToLower(t) \in Seq(Nat) /\ Len(ToLower(t)) = n
         /\ \A i \in 1 .. n : ToLower(t)[i] \in Digits => t[i] # Colon /\ t[i] # Space
<1>1. DOMAIN t = 1 .. n
  BY LenProperties
<1>2. ToLower(t) = [i \in 1 .. n |-> IF t[i] \in 26 .. 31 THEN t[i] - 16 ELSE t[i]]
  BY <1>1 DEF ToLower
<1>3. \A i \in 1 .. n : t[i] \in Nat
  BY ElementOfSeq
<1>4. ASSUME NEW i \in 1 .. n
      PROVE  /\ ToLower(t)[i] \in Nat
             /\ ToLower(t)[i] \in Digits => t[i] # Colon /\ t[i] # Space
  <2>1. ToLower(t)[i] = IF t[i] \in 26 .. 31 THEN t[i] - 16 ELSE t[i]
    BY <1>2
  <2>2. PICK x \in Nat : x = t[i]
    BY <1>3
  <2>3. CASE 26 <= x /\ x <= 31
    <3>1. x \in 26 .. 31 /\ x - 16 \in Nat /\ x # 40 /\ x # 41
      BY <2>3
    <3> QED
      BY <2>1, <2>2, <3>1 DEF Colon, Space
  <2>4. CASE ~(26 <= x /\ x <= 31)
    <3>1. x \notin 26 .. 31 /\ 40 \notin 0 .. 15 /\ 41 \notin 0 .. 15
      BY <2>4
    <3> QED
      BY <2>1, <2>2, <3>1 DEF Colon, Space, Digits
  <2> QED
    BY <2>3, <2>4
<1>5. ToLower(t) \in [1 .. n -> Nat]
  BY <1>2, <1>4
<1>6. ToLower(t) \in Seq(Nat) /\ Len(ToLower(t)) = n
  BY ONLY <1>5, n \in Nat
<1> QED
  BY <1>4, <1>6

\* The secret in a part, and its letters.
LEMMA SecretTextIs ==
  ASSUME NEW text \in Seq(Nat), NEW colon \in Nat, NEW hi \in Nat, NEW m \in Nat,
         hi = colon + m, hi <= Len(text)
  PROVE  LET st == SecretText(text, colon, hi) IN
           st \in Seq(Nat) /\ Len(st) = m /\ \A i \in 1 .. m : st[i] = text[colon + i]
BY Slice DEF SecretText

\* A part that is neither blank nor a secret is refused.
LEMMA InvalidRead ==
  ASSUME NEW text \in Seq(Nat), ~IsBlank(text), IsNoSecret(text)
  PROVE  TrimSpace(text) # <<>> /\ ReadPart(text).type = "invalid"
<1>1. PICK lo \in 1 .. Len(text), hi \in 1 .. Len(text), colon \in Nat : Cut(text, lo, colon, hi)
  BY CutExists
<1> DEFINE st == SecretText(text, colon, hi)
           sec == parseSecret(ToLower(st))
<1>2. TrimSpace(text) # <<>> /\ ReadPart(text) = Named(sec, SubSeq(text, lo, colon - 1), st)
  BY <1>1, CutRead
<1>3. ReadPart(text).type = sec.type
  BY <1>2 DEF Named
<1>4. PICK n \in Nat : Len(text) = n /\ DOMAIN text = 1 .. n
  BY LenProperties
<1>5. PICK m \in Nat : hi = colon + m
  <2>1. hi - colon \in Nat /\ hi = colon + (hi - colon)
    BY <1>1, <1>4 DEF Cut
  <2> QED
    BY <2>1
<1>6. st \in Seq(Nat) /\ Len(st) = m /\ \A i \in 1 .. m : st[i] = text[colon + i]
  <2>1. hi \in Nat /\ hi <= Len(text)
    BY <1>1, <1>4 DEF Cut
  <2> QED
    BY <1>5, <2>1, SecretTextIs
<1> HIDE DEF st
<1>7. /\ ToLower(st) \in Seq(Nat) /\ Len(ToLower(st)) = m
      /\ \A i \in 1 .. m : ToLower(st)[i] \in Digits => st[i] # Colon /\ st[i] # Space
  BY <1>6, LowerIs
<1>8. ASSUME sec.type # "invalid" PROVE FALSE
  <2>1. IsSecret(ToLower(st))
    BY <1>7, <1>8, ParseIsSecret
  <2>2. \A i \in 1 .. m : ToLower(st)[i] \in Digits
    BY <1>7, <2>1, AllDigits DEF IsSecret
  <2>3. m # 0
    <3>1. PICK k \in Nat : k # 0 /\ KeyLen = k
      BY StartupAssumption
    <3>2. m = 2 * k \/ m = 2 + 2 * k \/ m >= 2 + 2 * k
      BY <1>7, <2>1, <3>1 DEF IsSecret
    <3> QED
      BY <3>1, <3>2
  <2>4. \A i \in lo .. hi : text[i] = Colon <=> i = colon
    <3> SUFFICES ASSUME NEW i \in lo .. hi PROVE text[i] = Colon <=> i = colon
      OBVIOUS
    <3>1. i = colon => text[i] = Colon
      BY <1>1 DEF Cut
    <3>2. CASE i > colon
      <4>1. i - colon \in 1 .. m /\ colon + (i - colon) = i
        BY <1>1, <1>5, <3>2
      <4>2. text[i] # Colon
        BY <1>6, <1>7, <2>2, <4>1
      <4> QED
        BY <3>2, <4>2
    <3>3. CASE i < colon
      <4>1. text[i] # Colon
        BY <1>1, <3>3 DEF Cut
      <4> QED
        BY <3>3, <4>1
    <3>4. i > colon \/ i < colon \/ i = colon
      BY <1>1
    <3> QED
      BY <3>1, <3>2, <3>3, <3>4
  <2>5. lo - 1 <= colon /\ colon < hi
    BY <1>1, <1>5, <2>3 DEF Cut
  <2>6. Layout(text, lo, colon, hi)
    BY <1>1, <1>4, <2>4, <2>5 DEF Layout, Cut
  <2>7. lo \in 0 .. Len(text) /\ colon \in 0 .. Len(text) /\ hi \in 0 .. Len(text) /\ lo > 0
    BY <1>1, <1>4, <2>5
  <2>8. ~IsSecret(ToLower(st))
    BY <2>6, <2>7 DEF IsNoSecret, st
  <2> QED
    BY <2>1, <2>8
<1> QED
  BY <1>2, <1>3, <1>8

\* A part that is meant as a secret is read as that secret, under its name, or refused
\* as one that begins like another.
LEMMA SecretRead ==
  ASSUME NEW m, m.text \in Seq(Nat), m.type \in {"dd", "ee"}, Writes(m)
  PROVE  /\ TrimSpace(m.text) # <<>>
         /\ TakenForPrefixed(m) => ReadPart(m.text).type = "invalid"
         /\ ~TakenForPrefixed(m) =>
              ReadPart(m.text) = [type |-> m.type, raw |-> m.raw, domain |-> m.domain, name |-> m.name]
         /\ m.raw \in Seq(Byte) /\ Len(m.raw) = KeyLen /\ m.domain \in Seq(Byte)
         /\ m.type = "dd" => m.domain = <<>>
         /\ m.name \in Seq(Nat) /\ m.name # <<>>
<1> DEFINE text == m.text
<1>1. PICK n \in Nat : Len(text) = n /\ DOMAIN text = 1 .. n
  BY LenProperties
<1>2. PICK lo \in 0 .. n, colon \in 0 .. n, hi \in 0 .. n :
        /\ lo > 0 /\ Layout(text, lo, colon, hi)
        /\ Spells(ToLower(SecretText(text, colon, hi)), m)
        /\ m.name = GivenName(text, lo, colon, hi)
  BY <1>1 DEF Writes
<1> HIDE DEF text
<1> DEFINE st == SecretText(text, colon, hi)
<1>3. PICK q \in Nat : q # 0 /\ hi = colon + q
  <2>1. hi - colon \in Nat /\ hi - colon # 0 /\ hi = colon + (hi - colon)
    BY <1>2 DEF Layout
  <2> QED
    BY <2>1
<1>4. text \in Seq(Nat) /\ lo \in Nat /\ colon \in Nat /\ hi \in Nat /\ lo - 1 <= colon
  BY <1>2 DEF text, Layout
<1>5. st \in Seq(Nat) /\ Len(st) = q /\ \A i \in 1 .. q : st[i] = text[colon + i]
  <2>1. hi <= Len(text)
    BY <1>1, <1>2
  <2>2. ASSUME NEW h \in Nat, h = colon + q, h <= Len(text)
        PROVE  LET s == SecretText(text, colon, h) IN
                 s \in Seq(Nat) /\ Len(s) = q /\ \A i \in 1 .. q : s[i] = text[colon + i]
    BY ONLY <1>4, <2>2, q \in Nat, SecretTextIs
  <2> QED
    BY ONLY <1>3, <1>4, <2>1, <2>2
<1> HIDE DEF st
<1>6. /\ ToLower(st) \in Seq(Digits) /\ Len(ToLower(st)) = q /\ q >= 2 * KeyLen
      /\ \A i \in 1 .. q : st[i] # Colon /\ st[i] # Space
  <2>1. ToLower(st) \in Seq(Digits) /\ Len(ToLower(st)) >= 2 * KeyLen
    BY <1>2, SpellsDigits DEF st
  <2>2. /\ Len(ToLower(st)) = q
        /\ \A i \in 1 .. q : ToLower(st)[i] \in Digits => st[i] # Colon /\ st[i] # Space
    BY <1>5, LowerIs
  <2>3. \A i \in 1 .. q : ToLower(st)[i] \in Digits
    BY <2>1, <2>2, ElementOfSeq
  <2> QED
    BY <2>1, <2>2, <2>3
<1>7. Cut(text, lo, colon, hi)
  <2>1. lo \in 1 .. n /\ hi \in 1 .. n /\ lo <= hi /\ lo - 1 <= colon /\ colon <= hi
    BY <1>2, <1>3, <1>4
  <2>2. text[hi] # Space
    <3>1. q \in 1 .. q /\ colon + q = hi
      BY <1>3
    <3> QED
      BY <1>5, <1>6, <3>1
  <2>3. lo <= colon => text[colon] = Colon
    <3>1. lo <= colon => colon \in lo .. hi
      BY <2>1, <1>4
    <3> QED
      BY <1>2, <3>1 DEF Layout
  <2>4. \A i \in lo .. hi : i < colon \/ colon < lo => text[i] # Colon
    BY <1>2, <1>4 DEF Layout
  <2> QED
    BY <1>1, <1>2, <1>4, <2>1, <2>2, <2>3, <2>4 DEF Cut, Layout
<1> DEFINE nm == SubSeq(text, lo, colon - 1)
           sec == parseSecret(ToLower(st))
<1>8. TrimSpace(text) # <<>> /\ ReadPart(text) = Named(sec, nm, st)
  BY <1>4, <1>7, CutRead DEF st
<1>9. sec = IF TakenForPrefixed(m) THEN Invalid
            ELSE [type |-> m.type, raw |-> m.raw, domain |-> m.domain]
  BY <1>2, SpellsParse DEF st
<1> DEFINE own == SubSeq(st, 1, NameLen)
<1>10. NameLen \in Nat /\ NameLen # 0 /\ NameLen <= q
  <2>1. PICK k \in Nat : KeyLen = k /\ NameLen \in 1 .. 2 * k
    BY StartupAssumption
  <2> QED
    BY <1>6, <2>1
<1>11. own \in Seq(Nat) /\ Len(own) = NameLen /\ Min({NameLen, Len(st)}) = NameLen
  <2>1. 0 \in Nat /\ 0 + NameLen <= Len(st) /\ 0 + 1 = 1 /\ 0 + NameLen = NameLen
    BY <1>5, <1>10
  <2>2. SubSeq(st, 0 + 1, 0 + NameLen) \in Seq(Nat) /\ Len(SubSeq(st, 0 + 1, 0 + NameLen)) = NameLen
    BY <1>5, <1>10, <2>1, Slice
  <2> DEFINE T == {NameLen, Len(st)}
  <2>3. T \subseteq Nat /\ NameLen \in T /\ \A y \in T : NameLen <= y
    BY <1>5, <1>10
  <2> HIDE DEF T
  <2>4. Min(T) = NameLen
    BY ONLY <2>3, MinIs
  <2> QED
    BY <2>1, <2>2, <2>4 DEF T
<1>12. IF colon > lo THEN nm \in Seq(Nat) /\ nm # <<>> ELSE nm = <<>>
  <2>1. CASE colon > lo
    <3>1. PICK a \in Nat, r \in Nat : r # 0 /\ lo = a + 1 /\ colon - 1 = a + r
      <4>1. lo - 1 \in Nat /\ colon - lo \in Nat /\ colon - lo # 0 /\ lo = (lo - 1) + 1
            /\ colon - 1 = (lo - 1) + (colon - lo)
        BY <1>2, <1>4, <2>1
      <4> QED
        BY <4>1
    <3>2. a + r <= Len(text)
      BY <1>1, <1>2, <3>1
    <3>3. nm \in Seq(Nat) /\ Len(nm) = r
      BY <1>4, <3>1, <3>2, Slice
    <3> QED
      BY <2>1, <3>1, <3>3, EmptySeq
  <2>2. CASE ~(colon > lo)
    <3>1. lo \in Int /\ colon - 1 \in Int /\ colon - 1 < lo
      BY <1>4, <2>2
    <3> QED
      BY <2>2, <3>1, SubSeqEmpty
  <2> QED
    BY <2>1, <2>2
<1>13. m.name = IF colon > lo THEN nm ELSE own
  BY <1>2 DEF GivenName, st
<1>14. own # <<>>
  BY <1>10, <1>11, EmptySeq
<1> HIDE DEF nm, own
<1>15. m.name = IF nm = <<>> THEN own ELSE nm
  BY <1>12, <1>13
<1>16. m.name \in Seq(Nat) /\ m.name # <<>>
  BY <1>11, <1>12, <1>13, <1>14
<1>17. ReadPart(text) = [type |-> sec.type, raw |-> sec.raw, domain |-> sec.domain, name |-> m.name]
  BY <1>8, <1>11, <1>15 DEF Named, own
<1>18. /\ m.raw \in Seq(Byte) /\ Len(m.raw) = KeyLen /\ m.domain \in Seq(Byte)
       /\ m.type = "dd" => m.domain = <<>>
  BY <1>2 DEF Spells
<1>19. TakenForPrefixed(m) => sec.type = "invalid"
  BY <1>9 DEF Invalid
<1>20. ~TakenForPrefixed(m) => sec.type = m.type /\ sec.raw = m.raw /\ sec.domain = m.domain
  BY <1>9
<1> HIDE DEF sec
<1> QED
  BY <1>8, <1>16, <1>17, <1>18, <1>19, <1>20 DEF text

-----------------------------------------------------------------------------
(* What is known of SECRETS *)

\* Part i is read as the secret that it means.
Accepted(i) == env.parts[i].type \in {"dd", "ee"} /\ ~TakenForPrefixed(env.parts[i])

\* Part i as a secret.
AsSecret(i) ==
  LET m == env.parts[i] IN
    [type |-> m.type, raw |-> m.raw, domain |-> m.domain, name |-> m.name]

SecretRecord == [type : {"dd", "ee"}, raw : Seq(Byte), domain : Seq(Byte), name : Seq(Nat)]

\* Load passes over the blank parts, stops at a cause, and reads the others as meant.
LEMMA PartRead ==
  ASSUME env \in Environments, NEW i \in DOMAIN env.parts
  PROVE  LET m == env.parts[i] IN
           /\ Read[m.text] = ReadPart(m.text)
           /\ m.type = "blank" <=> TrimSpace(m.text) = <<>>
           /\ m.type # "blank" =>
                (Read[m.text].type = "invalid" <=> m.type = "invalid" \/ TakenForPrefixed(m))
           /\ m.type # "blank" /\ Read[m.text].type # "invalid" =>
                /\ Accepted(i) /\ Read[m.text] = AsSecret(i) /\ AsSecret(i) \in SecretRecord
                /\ Len(m.raw) = KeyLen /\ m.name # <<>> /\ (m.type = "dd" => m.domain = <<>>)
<1> DEFINE m == env.parts[i]
<1>1. /\ m.text \in Seq(Nat)
      /\ \/ m.type = "blank" /\ IsBlank(m.text)
         \/ m.type = "invalid" /\ ~IsBlank(m.text) /\ IsNoSecret(m.text)
         \/ m.type \in {"dd", "ee"} /\ Writes(m)
  BY EnvironmentsAssumption
<1>2. Read[m.text] = ReadPart(m.text)
  <2>1. m.text \in UNION {{e.parts[j].text : j \in DOMAIN e.parts} : e \in Environments}
    BY DEF m
  <2> HIDE DEF m
  <2> QED
    BY <2>1 DEF Read
<1> HIDE DEF m
<1>3. CASE m.type = "blank"
  <2>1. TrimSpace(m.text) = <<>>
    BY <1>1, <1>3, BlankIs
  <2> QED
    BY <1>2, <1>3, <2>1 DEF m
<1>4. CASE m.type = "invalid"
  <2>1. TrimSpace(m.text) # <<>> /\ ReadPart(m.text).type = "invalid"
    BY <1>1, <1>4, InvalidRead
  <2> QED
    BY <1>2, <1>4, <2>1 DEF m
<1>5. CASE m.type \in {"dd", "ee"}
  <2>1. /\ TrimSpace(m.text) # <<>>
        /\ TakenForPrefixed(m) => ReadPart(m.text).type = "invalid"
        /\ ~TakenForPrefixed(m) =>
             ReadPart(m.text) = [type |-> m.type, raw |-> m.raw, domain |-> m.domain, name |-> m.name]
        /\ m.raw \in Seq(Byte) /\ Len(m.raw) = KeyLen /\ m.domain \in Seq(Byte)
        /\ m.type = "dd" => m.domain = <<>>
        /\ m.name \in Seq(Nat) /\ m.name # <<>>
    BY <1>1, <1>5, SecretRead
  <2>2. m.type # "blank" /\ m.type # "invalid"
    BY <1>5
  <2>3. AsSecret(i) = [type |-> m.type, raw |-> m.raw, domain |-> m.domain, name |-> m.name]
    BY DEF AsSecret, m
  <2>4. AsSecret(i) \in SecretRecord /\ AsSecret(i).type = m.type
    BY <1>5, <2>1, <2>3 DEF SecretRecord
  <2>5. Accepted(i) <=> ~TakenForPrefixed(m)
    BY <1>5 DEF Accepted, m
  <2>6. Read[m.text].type = "invalid" <=> TakenForPrefixed(m)
    BY <1>2, <2>1, <2>2
  <2> QED
    BY <1>2, <2>1, <2>2, <2>3, <2>4, <2>5, <2>6 DEF m
<1> QED
  BY <1>1, <1>3, <1>4, <1>5

-----------------------------------------------------------------------------
(* Counting the parts that mean something *)

Count(n) == Cardinality(Meant(n))

\* They are finitely many, in order.
LEMMA CountIs ==
  ASSUME NEW n \in Nat
  PROVE  /\ IsFiniteSet(Meant(n)) /\ Count(n) \in Nat
         /\ \A i \in Meant(n) : Count(i) \in 1 .. Count(n)
<1>1. ASSUME NEW i \in Nat PROVE IsFiniteSet(Meant(i)) /\ Count(i) \in Nat
  <2>1. IsFiniteSet(1 .. i) /\ Meant(i) \subseteq 1 .. i
    BY FS_Interval DEF Meant
  <2> QED
    BY <2>1, FS_Subset, FS_CardinalityType DEF Count
<1>2. ASSUME NEW i \in Meant(n) PROVE Count(i) \in 1 .. Count(n)
  <2>1. i \in Nat /\ i \in Meant(i) /\ Meant(i) \subseteq Meant(n)
    BY DEF Meant
  <2>2. Count(i) <= Count(n)
    BY <1>1, <2>1, FS_Subset DEF Count
  <2>3. Count(i) # 0
    BY <1>1, <2>1, FS_EmptySet DEF Count
  <2> QED
    BY <1>1, <2>1, <2>2, <2>3
<1> QED
  BY <1>1, <1>2

\* The next part adds itself, if it means something.
LEMMA CountNext ==
  ASSUME NEW n \in Nat
  PROVE  IF env.parts[n + 1].type = "blank" THEN Meant(n + 1) = Meant(n)
         ELSE Meant(n + 1) = Meant(n) \cup {n + 1} /\ Count(n + 1) = Count(n) + 1
<1>1. \A i : i \in 1 .. n + 1 <=> i \in 1 .. n \/ i = n + 1
  OBVIOUS
<1>2. CASE env.parts[n + 1].type = "blank"
  BY <1>1, <1>2 DEF Meant
<1>3. CASE env.parts[n + 1].type # "blank"
  <2>1. Meant(n + 1) = Meant(n) \cup {n + 1}
    BY <1>1, <1>3 DEF Meant
  <2>2. n + 1 \notin Meant(n)
    BY DEF Meant
  <2>3. Count(n + 1) = Count(n) + 1
    BY <2>1, <2>2, CountIs, FS_AddElement DEF Count
  <2> QED
    BY <1>3, <2>1, <2>3
<1> QED
  BY <1>2, <1>3

-----------------------------------------------------------------------------
(* The invariant *)

\* The first k parts have been read: left are the texts of the others, and secrets what
\* those of the first k mean that mean something.
ReadUpTo(k) ==
  /\ k <= Len(env.parts) /\ Len(left) = Len(env.parts) - k
  /\ \A j \in 1 .. Len(left) : left[j] = env.parts[k + j].text
  /\ Len(secrets) = Count(k)
  /\ \A i \in Meant(k) : Accepted(i) /\ secrets[Count(i)] = AsSecret(i)

LoadInv ==
  \E k \in Nat : ReadUpTo(k) /\ (main \notin {"load", "dead"} => k = Len(env.parts))

\* The other goroutines start in the order of main.
OrderInv ==
  /\ main \notin {"serve", "dead"} => socks = "none"
  /\ hy2 # "none" => Hysteria2Port # 0

PlainSecrets == \A i \in DOMAIN secrets : secrets[i].type = "dd" => secrets[i].domain = <<>>

StartupInv ==
  env \in Environments /\ StartupTypeOK /\ LoadInv /\ PlainSecrets /\ OrderInv /\ DiesForCause

\* SECRETS are a sequence of parts.
LEMMA PartsLen ==
  ASSUME env \in Environments
  PROVE  Len(env.parts) \in Nat /\ DOMAIN env.parts = 1 .. Len(env.parts)
BY EnvironmentsAssumption

\* Nothing has been read at first.
LEMMA StartupInitInv == ASSUME StartupInit PROVE StartupInv
<1> DEFINE n == Len(env.parts)
           T == {env.parts[i].text : i \in DOMAIN env.parts}
<1>1. env \in Environments /\ n \in Nat /\ DOMAIN env.parts = 1 .. n
  BY PartsLen DEF StartupInit
<1> HIDE DEF n
<1>2. left = [i \in 1 .. n |-> env.parts[i].text]
  BY <1>1 DEF StartupInit
<1>3. left \in Seq(T) /\ Len(left) = n
  <2>1. left \in [1 .. n -> T]
    BY <1>1, <1>2
  <2> HIDE DEF T
  <2> QED
    BY ONLY <1>1, <2>1
<1>4. secrets = <<>> /\ DOMAIN secrets = {}
  BY DEF StartupInit
<1>5. StartupTypeOK
  BY <1>3, <1>4, EmptySeq DEF StartupTypeOK, StartupInit
<1>6. ReadUpTo(0)
  <2>1. Meant(0) = {}
    BY DEF Meant
  <2>2. Count(0) = 0 /\ Len(secrets) = 0
    BY <1>4, <2>1, FS_EmptySet DEF Count
  <2>3. 0 <= n /\ n = n - 0 /\ \A j \in 1 .. n : 0 + j = j
    BY <1>1
  <2> QED
    BY <1>2, <1>3, <2>1, <2>2, <2>3 DEF ReadUpTo, n
<1>7. LoadInv
  BY <1>6 DEF LoadInv, StartupInit
<1>8. PlainSecrets /\ OrderInv /\ DiesForCause
  BY <1>4 DEF PlainSecrets, OrderInv, DiesForCause, StartupInit
<1> QED
  BY <1>1, <1>5, <1>7, <1>8 DEF StartupInv

\* The operators of the invariant look at these variables.
LEMMA LoadUnchanged ==
  ASSUME UNCHANGED <<env, left, secrets>>
  PROVE  /\ \A k \in Nat : ReadUpTo(k)' <=> ReadUpTo(k)
         /\ PlainSecrets' <=> PlainSecrets
         /\ AllMeant' = AllMeant
         /\ Port' = Port /\ Hysteria2Port' = Hysteria2Port
<1>1. ASSUME NEW n PROVE Meant(n)' = Meant(n) /\ Count(n)' = Count(n)
  BY DEF Meant, Count
<1>2. \A i : (Accepted(i)' <=> Accepted(i)) /\ AsSecret(i)' = AsSecret(i)
  BY DEF Accepted, AsSecret, TakenForPrefixed
<1> QED
  BY <1>1, <1>2 DEF ReadUpTo, PlainSecrets, AllMeant, Port, Hysteria2Port

\* A step that leaves left and secrets, and Load only when all parts have been read.
LEMMA LaterKeeps ==
  ASSUME StartupInv, UNCHANGED <<env, left, secrets>>, StartupTypeOK', OrderInv', DiesForCause',
         main' \in {"load", "dead"} \/ main \notin {"load", "dead"}
         \/ \A k \in Nat : ReadUpTo(k) => k = Len(env.parts)
  PROVE  StartupInv'
<1>1. PICK k \in Nat : ReadUpTo(k) /\ (main \notin {"load", "dead"} => k = Len(env.parts))
  BY DEF StartupInv, LoadInv
<1>2. ReadUpTo(k)' /\ PlainSecrets'
  BY <1>1, LoadUnchanged DEF StartupInv
<1>3. main' \notin {"load", "dead"} => k = Len(env'.parts)
  BY <1>1
<1> QED
  BY <1>2, <1>3 DEF StartupInv, LoadInv

\* One turn of the loop.
LEMMA LoadPartKeeps == ASSUME StartupInv, LoadPart PROVE StartupInv'
<1> DEFINE n == Len(env.parts)
           T == {env.parts[i].text : i \in DOMAIN env.parts}
<1>1. /\ env \in Environments /\ n \in Nat /\ DOMAIN env.parts = 1 .. n
      /\ main = "load" /\ left # <<>> /\ env' = env /\ UNCHANGED listeners
  BY PartsLen DEF StartupInv, LoadPart
<1>2. PICK k \in Nat : ReadUpTo(k)
  BY DEF StartupInv, LoadInv
<1>3. left \in Seq(T)
  BY DEF StartupInv, StartupTypeOK
<1> HIDE DEF n, T
<1>4. PICK r \in Nat : r # 0 /\ Len(left) = r /\ r = n - k /\ k + 1 \in 1 .. n
  <2>1. Len(left) \in Nat \ {0} /\ Len(left) = n - k
    BY <1>1, <1>2, <1>3, EmptySeq DEF ReadUpTo, n
  <2>2. n - k >= 1
    BY <2>1
  <2>3. k + 1 \in 1 .. n
    BY <1>1, <2>2
  <2> QED
    BY <2>1, <2>3
<1> DEFINE m == env.parts[k + 1]
<1>5. Head(left) = m.text
  <2>1. 1 \in 1 .. Len(left)
    BY <1>4
  <2>2. left[1] = m.text
    BY <1>2, <2>1 DEF ReadUpTo
  <2> QED
    BY <1>1, <1>3, <2>2
<1>6. /\ Read[m.text] = ReadPart(m.text)
      /\ m.type = "blank" <=> TrimSpace(m.text) = <<>>
      /\ m.type # "blank" =>
           (Read[m.text].type = "invalid" <=> m.type = "invalid" \/ TakenForPrefixed(m))
      /\ m.type # "blank" /\ Read[m.text].type # "invalid" =>
           /\ Accepted(k + 1) /\ Read[m.text] = AsSecret(k + 1) /\ AsSecret(k + 1) \in SecretRecord
           /\ Len(m.raw) = KeyLen /\ m.name # <<>> /\ (m.type = "dd" => m.domain = <<>>)
  BY <1>1, <1>4, PartRead
<1>7. IF m.type = "blank" THEN Meant(k + 1) = Meant(k)
      ELSE Meant(k + 1) = Meant(k) \cup {k + 1} /\ Count(k + 1) = Count(k) + 1
  BY CountNext
<1>8. Count(k) \in Nat /\ \A i \in Meant(k) : Count(i) \in 1 .. Count(k)
  BY CountIs
<1>9. OrderInv'
  BY <1>1 DEF StartupInv, OrderInv, LoadPart, Die, Hysteria2Port, listeners
<1> HIDE DEF m
\* The part has been read, and secrets are as they should be.
<1>10. ASSUME left' = Tail(left), main' = main, StartupTypeOK', PlainSecrets',
              Len(secrets') = Count(k + 1),
              \A i \in Meant(k + 1) : Accepted(i) /\ secrets'[Count(i)] = AsSecret(i)
       PROVE  StartupInv'
  <2>1. \A i : (Accepted(i)' <=> Accepted(i)) /\ AsSecret(i)' = AsSecret(i)
    BY <1>1 DEF Accepted, AsSecret, TakenForPrefixed
  <2>2. \A i : Meant(i)' = Meant(i) /\ Count(i)' = Count(i)
    BY <1>1 DEF Meant, Count
  <2>3. /\ Len(left') = r - 1
        /\ \A j \in 1 .. r - 1 : left'[j] = left[j + 1]
    BY <1>3, <1>4, <1>10, HeadTailProperties, EmptySeq
  <2>4. r - 1 = n - (k + 1) /\ k + 1 <= n
    BY <1>1, <1>4
  <2>5. \A j \in 1 .. r - 1 : left'[j] = env.parts[(k + 1) + j].text
    <3> SUFFICES ASSUME NEW j \in 1 .. r - 1 PROVE left'[j] = env.parts[(k + 1) + j].text
      OBVIOUS
    <3>1. j + 1 \in 1 .. Len(left) /\ k + (j + 1) = (k + 1) + j
      BY <1>4
    <3> QED
      BY <1>2, <2>3, <3>1 DEF ReadUpTo
  <2>6. ReadUpTo(k + 1)'
    BY <1>1, <1>10, <2>1, <2>2, <2>3, <2>4, <2>5 DEF ReadUpTo, n
  <2>7. k + 1 \in Nat /\ main' = "load"
    BY <1>1, <1>10
  <2>8. LoadInv'
    BY <2>6, <2>7 DEF LoadInv
  <2>9. DiesForCause'
    BY <2>7 DEF DiesForCause
  <2> QED
    BY <1>1, <1>9, <1>10, <2>8, <2>9 DEF StartupInv
<1>11. left' = Tail(left) => left' \in Seq(T)
  BY <1>1, <1>3, HeadTailProperties
<1>12. CASE TrimSpace(Head(left)) = <<>>
  <2>1. left' = Tail(left) /\ main' = main /\ secrets' = secrets
    BY <1>12 DEF LoadPart
  <2>2. Meant(k + 1) = Meant(k)
    BY <1>5, <1>6, <1>7, <1>12
  <2>3. Count(k + 1) = Count(k)
    BY <2>2 DEF Count
  <2>4. StartupTypeOK' /\ PlainSecrets'
    BY <1>1, <1>11, <2>1 DEF StartupInv, StartupTypeOK, PlainSecrets, listeners, T
  <2> QED
    BY <1>2, <1>10, <2>1, <2>2, <2>3, <2>4 DEF ReadUpTo
<1>13. CASE TrimSpace(Head(left)) # <<>> /\ Read[Head(left)].type = "invalid"
  <2>1. main' = "dead" /\ UNCHANGED <<env, left, secrets>>
    BY <1>1, <1>13 DEF LoadPart, Die
  <2>2. m.type # "blank" /\ (m.type = "invalid" \/ TakenForPrefixed(m))
    BY <1>5, <1>6, <1>13
  <2>3. k + 1 \in AllMeant
    BY <1>4, <2>2 DEF AllMeant, Meant, m, n
  <2>4. DiesForCause'
    <3>1. k + 1 \in AllMeant'
      BY <2>1, <2>3, LoadUnchanged
    <3>2. env'.parts[k + 1] = m
      BY <2>1 DEF m
    <3>3. \E i \in AllMeant' : env'.parts[i].type = "invalid" \/ TakenForPrefixed(env'.parts[i])
      BY <2>2, <3>1, <3>2
    <3> QED
      BY <3>3 DEF DiesForCause, TakenForPrefixed
  <2>5. StartupTypeOK'
    BY <1>1, <2>1 DEF StartupInv, StartupTypeOK, listeners
  <2> QED
    BY <1>9, <2>1, <2>4, <2>5, LaterKeeps
<1>14. CASE TrimSpace(Head(left)) # <<>> /\ Read[Head(left)].type # "invalid"
  <2>1. left' = Tail(left) /\ main' = main /\ secrets' = Append(secrets, Read[Head(left)])
    BY <1>14 DEF LoadPart
  <2>2. m.type # "blank" /\ Read[m.text].type # "invalid"
    BY <1>5, <1>6, <1>14
  <2>3. /\ Accepted(k + 1) /\ AsSecret(k + 1) \in SecretRecord
        /\ Len(m.raw) = KeyLen /\ m.name # <<>> /\ (m.type = "dd" => m.domain = <<>>)
    BY <1>6, <2>2
  <2>4. secrets' = Append(secrets, AsSecret(k + 1))
    BY <1>5, <1>6, <2>1, <2>2
  <2>5. Meant(k + 1) = Meant(k) \cup {k + 1} /\ Count(k + 1) = Count(k) + 1
    BY <1>7, <2>2
  <2>6. PICK q \in Nat : q = Count(k)
    BY <1>8
  <2>7. secrets \in Seq(SecretRecord) /\ Len(secrets) = q
    BY <1>2, <2>6 DEF StartupInv, StartupTypeOK, SecretRecord, ReadUpTo
  <2>8. /\ secrets' \in Seq(SecretRecord) /\ Len(secrets') = q + 1
        /\ \A i \in 1 .. q : secrets'[i] = secrets[i]
        /\ secrets'[q + 1] = AsSecret(k + 1)
    BY <2>3, <2>4, <2>7, AppendProperties
  <2>9. DOMAIN secrets = 1 .. q /\ DOMAIN secrets' = 1 .. q + 1
    BY <2>7, <2>8, LenProperties
  <2>10. AsSecret(k + 1).raw = m.raw /\ AsSecret(k + 1).name = m.name
         /\ AsSecret(k + 1).type = m.type /\ AsSecret(k + 1).domain = m.domain
    BY DEF AsSecret, m
  <2>11. \A i \in 1 .. q + 1 : i \in 1 .. q \/ i = q + 1
    OBVIOUS
  <2>12. \A i \in DOMAIN secrets' : Len(secrets'[i].raw) = KeyLen /\ secrets'[i].name # <<>>
    <3> SUFFICES ASSUME NEW i \in 1 .. q + 1
                 PROVE  Len(secrets'[i].raw) = KeyLen /\ secrets'[i].name # <<>>
      BY <2>9
    <3>1. CASE i = q + 1
      BY <2>3, <2>8, <2>10, <3>1
    <3>2. CASE i \in 1 .. q
      <4>1. Len(secrets[i].raw) = KeyLen /\ secrets[i].name # <<>>
        BY <2>9, <3>2 DEF StartupInv, StartupTypeOK
      <4> QED
        BY <2>8, <3>2, <4>1
    <3> QED
      BY <2>11, <3>1, <3>2
  <2>13. PlainSecrets'
    BY <2>3, <2>8, <2>9, <2>10, <2>11 DEF StartupInv, PlainSecrets
  <2>14. StartupTypeOK'
    BY <1>1, <1>11, <2>1, <2>8, <2>12 DEF StartupInv, StartupTypeOK, listeners, T, SecretRecord
  <2>15. \A i \in Meant(k + 1) : Accepted(i) /\ secrets'[Count(i)] = AsSecret(i)
    <3> SUFFICES ASSUME NEW i \in Meant(k + 1)
                 PROVE  Accepted(i) /\ secrets'[Count(i)] = AsSecret(i)
      OBVIOUS
    <3>1. CASE i = k + 1
      BY <2>3, <2>5, <2>6, <2>8, <3>1
    <3>2. CASE i \in Meant(k)
      <4>1. Count(i) \in 1 .. q
        BY <1>8, <2>6, <3>2
      <4> QED
        BY <1>2, <2>8, <3>2, <4>1 DEF ReadUpTo
    <3> QED
      BY <2>5, <3>1, <3>2
  <2>16. Len(secrets') = Count(k + 1)
    BY <2>5, <2>6, <2>8
  <2> QED
    BY <1>10, <2>1, <2>13, <2>14, <2>15, <2>16
<1> QED
  BY <1>12, <1>13, <1>14

\* The end of the loop.
LEMMA LoadEndsKeeps == ASSUME StartupInv, LoadEnds PROVE StartupInv'
<1>1. /\ main = "load" /\ left = <<>> /\ UNCHANGED <<env, left, secrets, listeners>>
      /\ main' = IF secrets = <<>> THEN "dead" ELSE "stats"
  BY DEF LoadEnds, Die
<1>2. ASSUME NEW k \in Nat, ReadUpTo(k) PROVE k = Len(env.parts)
  <2>1. Len(env.parts) \in Nat /\ Len(left) = 0
    BY <1>1, PartsLen DEF StartupInv
  <2> QED
    BY <1>2, <2>1 DEF ReadUpTo
<1>3. StartupTypeOK' /\ OrderInv'
  BY <1>1 DEF StartupInv, StartupTypeOK, OrderInv, Hysteria2Port, listeners
<1>4. DiesForCause'
  <2> SUFFICES ASSUME secrets = <<>> PROVE AllMeant' = {}
    BY <1>1 DEF DiesForCause
  <2>1. PICK k \in Nat : ReadUpTo(k)
    BY DEF StartupInv, LoadInv
  <2>2. Count(k) = 0 /\ AllMeant = Meant(k) /\ IsFiniteSet(Meant(k))
    BY <1>2, <2>1, CountIs DEF ReadUpTo, AllMeant
  <2>3. AllMeant = {}
    BY <2>2, FS_EmptySet DEF Count
  <2> QED
    BY <1>1, <2>3, LoadUnchanged
<1> QED
  BY <1>1, <1>2, <1>3, <1>4, LaterKeeps

\* The rest of main, which ends only for a cause.
LEMMA MainKeeps == ASSUME StartupInv, ServeStats \/ StartHysteria \/ Listen PROVE StartupInv'
<1>1. UNCHANGED <<env, left, secrets>> /\ main \notin {"load", "dead"}
  BY DEF ServeStats, StartHysteria, Listen, Die
<1>2. /\ Port' = Port /\ Hysteria2Port' = Hysteria2Port
  BY <1>1, LoadUnchanged
<1>3. CASE ServeStats
  <2>1. main' = "hysteria" /\ main = "stats" /\ stats' = "bind" /\ UNCHANGED <<hy2, socks>>
    BY <1>3 DEF ServeStats
  <2>2. StartupTypeOK' /\ OrderInv' /\ DiesForCause'
    BY <1>1, <1>2, <2>1 DEF StartupInv, StartupTypeOK, OrderInv, DiesForCause
  <2> QED
    BY <1>1, <2>2, LaterKeeps
<1>4. CASE StartHysteria
  <2>1. /\ main = "hysteria" /\ UNCHANGED <<stats, socks>>
        /\ \/ Hysteria2Port # 0 /\ ~env.password /\ main' = "dead" /\ hy2' = hy2
           \/ main' = "listen" /\ hy2' = IF Hysteria2Port # 0 THEN "cert" ELSE "none"
    BY <1>4 DEF StartHysteria, Die
  <2>2. StartupTypeOK' /\ OrderInv'
    BY <1>1, <1>2, <2>1 DEF StartupInv, StartupTypeOK, OrderInv
  <2>3. DiesForCause'
    BY <1>1, <1>2, <2>1 DEF DiesForCause
  <2> QED
    BY <1>1, <2>2, <2>3, LaterKeeps
<1>5. CASE Listen
  <2>1. /\ main = "listen" /\ UNCHANGED <<stats, hy2>>
        /\ \/ Port \in Busy /\ main' = "dead" /\ socks' = socks
           \/ main' = "serve" /\ socks' \in {"bind", "none"}
    BY <1>5 DEF Listen, Die
  <2>2. StartupTypeOK' /\ OrderInv'
    BY <1>1, <1>2, <2>1 DEF StartupInv, StartupTypeOK, OrderInv
  <2>3. Port \in Busy => Port \in env.taken \/ (Port = env.statsPort /\ stats = "serve")
    BY <2>1 DEF StartupInv, OrderInv, Busy
  <2>4. DiesForCause'
    BY <1>1, <1>2, <2>1, <2>3 DEF DiesForCause
  <2> QED
    BY <1>1, <2>2, <2>4, LaterKeeps
<1> QED
  BY <1>3, <1>4, <1>5

\* The other listeners.
LEMMA ListenersKeep ==
  ASSUME StartupInv, StatsListen \/ SocksListen \/ Hy2Certificate \/ Hy2Listen
  PROVE  StartupInv'
<1>1. UNCHANGED <<env, left, secrets>> /\ main # "dead"
  BY DEF StatsListen, SocksListen, Hy2Certificate, Hy2Listen, Die
<1>2. /\ Port' = Port /\ Hysteria2Port' = Hysteria2Port
  BY <1>1, LoadUnchanged
<1>3. /\ main' = main \/ main' = "dead"
      /\ socks = "none" => socks' = "none"
      /\ hy2' # "none" => hy2 # "none"
  BY DEF StatsListen, SocksListen, Hy2Certificate, Hy2Listen, Die
<1>4. OrderInv'
  BY <1>1, <1>2, <1>3 DEF StartupInv, OrderInv
<1>5. StartupTypeOK'
  BY <1>1, <1>3 DEF StartupInv, StartupTypeOK, StatsListen, SocksListen, Hy2Certificate, Hy2Listen
<1>6. main' = "dead" => Hysteria2Port # 0 /\ (env.cert = "bad" \/ env.udpTaken)
  BY <1>1 DEF StartupInv, OrderInv, StatsListen, SocksListen, Hy2Certificate, Hy2Listen
<1>7. DiesForCause'
  BY <1>1, <1>2, <1>6 DEF DiesForCause
<1>8. main' \in {"load", "dead"} \/ main \notin {"load", "dead"}
  BY <1>3
<1> QED
  BY <1>1, <1>4, <1>5, <1>7, <1>8, LaterKeeps

\* The invariant holds of every start.
LEMMA StartupInvariant == StartupSpec => []StartupInv
<1>1. StartupInv /\ UNCHANGED vars => StartupInv'
  <2> SUFFICES ASSUME StartupInv, UNCHANGED vars PROVE StartupInv'
    OBVIOUS
  <2>1. UNCHANGED <<env, left, secrets>> /\ main' = main /\ UNCHANGED listeners
    BY DEF vars
  <2>2. AllMeant' = AllMeant /\ Port' = Port /\ Hysteria2Port' = Hysteria2Port
    BY <2>1, LoadUnchanged
  <2>3. StartupTypeOK' /\ OrderInv' /\ DiesForCause'
    BY <2>1, <2>2
       DEF StartupInv, StartupTypeOK, OrderInv, DiesForCause, TakenForPrefixed, listeners
  <2>4. main' \in {"load", "dead"} \/ main \notin {"load", "dead"}
    BY <2>1
  <2> QED
    BY <2>1, <2>3, <2>4, LaterKeeps
<1>2. StartupInv /\ StartupNext => StartupInv'
  BY LoadPartKeeps, LoadEndsKeeps, MainKeeps, ListenersKeep DEF StartupNext, MainStep
<1> QED
  BY <1>1, <1>2, StartupInitInv, PTL DEF StartupSpec

-----------------------------------------------------------------------------

\* The variables of a start keep their types; a secret has a key of KeyLen bytes and a name.
THEOREM StartupTypeCorrect == StartupSpec => []StartupTypeOK
BY StartupInvariant, PTL DEF StartupInv

\* The program ends only for a reason it was given (config.go, parseSecret and Load;
\* main.go, log.Fatal in whichever goroutine), for SECRETS of any length and any ports.
THEOREM StartupDiesForCause == StartupSpec => []DiesForCause
BY StartupInvariant, PTL DEF StartupInv

\* Load yields what SECRETS means (config.go, Load), whatever they are and for every
\* length of a key.
THEOREM StartupLoads == StartupSpec => []LoadsWhatIsMeant
<1>1. StartupInv => LoadsWhatIsMeant
  <2> SUFFICES ASSUME StartupInv, main \notin {"load", "dead"}
               PROVE  /\ Len(secrets) = Cardinality(AllMeant)
                      /\ \A i \in AllMeant, f \in {"type", "raw", "domain", "name"} :
                           secrets[Cardinality(Meant(i))][f] = env.parts[i][f]
    BY DEF LoadsWhatIsMeant
  <2>1. ReadUpTo(Len(env.parts))
    BY DEF StartupInv, LoadInv
  <2>2. Len(secrets) = Cardinality(AllMeant)
    BY <2>1 DEF ReadUpTo, Count, AllMeant
  <2>3. \A i \in AllMeant : secrets[Cardinality(Meant(i))] = AsSecret(i)
    BY <2>1 DEF ReadUpTo, Count, AllMeant
  <2>4. \A i, f : f \in {"type", "raw", "domain", "name"} => AsSecret(i)[f] = env.parts[i][f]
    BY DEF AsSecret
  <2> QED
    BY <2>2, <2>3, <2>4
<1> QED
  BY <1>1, StartupInvariant, PTL

\* The link of a secret is read back as that secret (config.go, HexString and parseSecret).
THEOREM StartupLinks == StartupSpec => []LinkIsSecret
<1>1. StartupInv => LinkIsSecret
  <2> SUFFICES ASSUME StartupInv, NEW i \in DOMAIN secrets
               PROVE  LET s == secrets[i] IN
                        parseSecret(HexString(s)) = [type |-> s.type, raw |-> s.raw, domain |-> s.domain]
    BY DEF LinkIsSecret
  <2> DEFINE s == secrets[i]
             m == [type |-> s.type, raw |-> s.raw, domain |-> s.domain, plain |-> FALSE]
  <2>1. s \in SecretRecord /\ Len(s.raw) = KeyLen /\ (s.type = "dd" => s.domain = <<>>)
    <3>1. secrets \in Seq(SecretRecord)
      BY DEF StartupInv, StartupTypeOK, SecretRecord
    <3> QED
      BY <3>1, LenProperties, ElementOfSeq DEF StartupInv, StartupTypeOK, PlainSecrets
  <2> HIDE DEF s
  <2>2. /\ s.type \in {"dd", "ee"} /\ s.raw \in Seq(Byte) /\ s.domain \in Seq(Byte)
    BY <2>1 DEF SecretRecord
  <2>3. s.type = "dd" => HexString(s) = DD \o Encode(s.raw)
    <3> SUFFICES ASSUME s.type = "dd" PROVE HexString(s) = DD \o Encode(s.raw)
      OBVIOUS
    <3>1. <<>> \in Seq(Byte) /\ Len(<<>>) = 0 /\ 2 * 0 = 0
      OBVIOUS
    <3>2. Encode(<<>>) \in Seq(Digits) /\ Len(Encode(<<>>)) = 0
      BY <3>1, EncodeIs
    <3>3. Encode(s.domain) = <<>>
      BY <2>1, <3>2, EmptySeq
    <3>4. DD \o Encode(s.raw) \in Seq(Digits)
      <4>1. DD \in Seq(Digits)
        BY DEF DD, Digits
      <4>2. Encode(s.raw) \in Seq(Digits)
        BY <2>2, EncodeIs, LenProperties
      <4> QED
        BY <4>1, <4>2, ConcatProperties
    <3> QED
      BY <3>3, <3>4, ConcatEmptySeq DEF HexString
  <2>4. s.type = "ee" => HexString(s) = EE \o Encode(s.raw) \o Encode(s.domain)
    BY DEF HexString
  <2>5. Spells(HexString(s), m) /\ m.type \in {"dd", "ee"} /\ ~TakenForPrefixed(m)
    BY <2>1, <2>2, <2>3, <2>4 DEF Spells, TakenForPrefixed
  <2>6. parseSecret(HexString(s)) = [type |-> m.type, raw |-> m.raw, domain |-> m.domain]
    BY ONLY <2>5, SpellsParse
  <2> QED
    BY <2>6 DEF s
<1> QED
  BY <1>1, StartupInvariant, PTL
=============================================================================
