----------------------------- MODULE ByteStream -----------------------------
(* What one direction of a connection promises: bytes come out as they went *)
(* in, in order, none twice, none altered; a tail of them may never come.   *)
EXTENDS Naturals, Sequences

VARIABLES written, read

StreamInit == written = <<>> /\ read = <<>>

\* t is s, followed by something.
Extends(s, t) ==
  Len(s) <= Len(t) /\ \A i \in 1 .. Len(s) : t[i] = s[i]

WriteBytes == Extends(written, written') /\ UNCHANGED read

ReadBytes == Extends(read, read') /\ Extends(read', written) /\ UNCHANGED written

StreamNext == WriteBytes \/ ReadBytes

StreamSpec == StreamInit /\ [][StreamNext]_<<written, read>>
=============================================================================
