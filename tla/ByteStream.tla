------------------------------ MODULE ByteStream ------------------------------
(***************************************************************************)
(* What the codecs take a flow_io for (c_components/imageflow.h): a file   *)
(* of bytes and a position in it.  CIo implements this for its three       *)
(* kinds.                                                                  *)
(***************************************************************************)
EXTENDS Integers, Sequences, SequencesExt

CONSTANTS Byte, MaxLength

VARIABLES content, position, got   \* the bytes the last call got out of it

vars == <<content, position, got>>

Least(m, n) == IF m < n THEN m ELSE n

(* content with data at position p, longer if need be.                     *)
Overwritten(s, p, data) ==
  [i \in 1 .. (IF p + Len(data) > Len(s) THEN p + Len(data) ELSE Len(s)) |->
     IF i \in p + 1 .. p + Len(data) THEN data[i - p] ELSE s[i]]

Init == content \in BoundedSeq(Byte, MaxLength) /\ position = 0 /\ got = <<>>

Read(n) ==
  LET end == Least(position + n, Len(content))
  IN  /\ got' = SubSeq(content, position + 1, end)
      /\ position' = position + Len(got')
      /\ UNCHANGED content

(* Skipping past the end may stop there or go on.                          *)
Skip(n) ==
  /\ position' \in {position + n, Least(position + n, Len(content))}
  /\ got' = <<>>
  /\ UNCHANGED content

Write(data) ==
  /\ position <= Len(content)
  /\ content' = Overwritten(content, position, data)
  /\ position' = position + Len(data)
  /\ got' = <<>>

Seek(p) == p >= 0 /\ position' = p /\ got' = <<>> /\ UNCHANGED content

Fail == got' = <<>> /\ UNCHANGED <<content, position>>

Next ==
  \/ \E n \in 0 .. MaxLength + 1 : Read(n) \/ Skip(n) \/ Seek(n)
  \/ \E data \in BoundedSeq(Byte, MaxLength) : Write(data)
  \/ Fail

Spec == Init /\ [][Next]_vars
=============================================================================
