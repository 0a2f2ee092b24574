------------------------------- MODULE ErrorText -------------------------------
(***************************************************************************)
(* How an error is written to a client's buffer without allocating         *)
(* (imageflow_core/src/errors.rs, writing_to_slices): the text arrives in  *)
(* pieces, a cursor takes what fits, a text that was cut off gets a        *)
(* suffix, and the whole is made a C string.                               *)
(***************************************************************************)
EXTENDS Integers, Sequences, SequencesExt

CONSTANTS Bytes,       \* what a text is made of
          Capacities,  \* sizes of buffers
          Texts,       \* errors to write, as sequences of pieces, each a sequence of bytes
          Endings     \* what to append when truncated, as sequences of bytes; the empty one is None

CONSTANTS Null, Space, Old  \* the null byte, the one that replaces it, what was in the buffer

TextAssumption ==
  /\ Capacities \subseteq Nat
  /\ Texts \subseteq Seq(Seq(Bytes)) /\ Endings \subseteq Seq(Bytes \ {Null})
  /\ Space \in Bytes \ {Null} /\ Null \in Bytes /\ Old \notin Bytes

VARIABLES
  buffer,  \* the client's buffer
  text,    \* all of the error
  suffix,
  pieces,  \* what is still to come
  pos,     \* the cursor
  result,  \* the WriteResult, or "none" while writing
  written  \* its bytes_written

vars == <<buffer, text, suffix, pieces, pos, result, written>>

Init ==
  /\ \E n \in Capacities : buffer = [i \in 1 .. n |-> Old]
  /\ pieces \in Texts /\ text = FlattenSeq(pieces)
  /\ suffix \in Endings
  /\ pos = 0 /\ result = "none" /\ written = 0

(* The last byte is kept for the null, and room for the suffix.            *)
Room == Len(buffer) - 1
TextRoom == Room - Len(suffix)

Ends(r, n) == result' = r /\ written' = n
Kept == UNCHANGED <<text, suffix>>

(* Bytes put at a position, up to an end.                                  *)
Put(b, at, bytes, end) ==
  [i \in DOMAIN b |-> IF i > at /\ i <= at + Len(bytes) /\ i <= end THEN bytes[i - at] ELSE b[i]]

(* write_and_write_errors_to_cstring_slice, write_and_write_errors_to_slice:*)
(* too small for anything.                                                 *)
TooSmall ==
  /\ result = "none" /\ pos = 0
  /\ Len(buffer) < 2 \/ Len(suffix) >= Room
  /\ Ends("truncated", 0)
  /\ Kept /\ UNCHANGED <<buffer, pieces, pos>>

Fits == Len(buffer) >= 2 /\ Len(suffix) < Room

(* NonAllocatingCursor::write_all, of one piece.                           *)
FitsWhole(piece) == Len(piece) <= TextRoom - pos

WritePiece ==
  /\ result = "none" /\ Fits /\ pieces # <<>>
  /\ buffer' = Put(buffer, pos, Head(pieces), TextRoom)
  /\ \/ /\ FitsWhole(Head(pieces))
        /\ pos' = pos + Len(Head(pieces)) /\ pieces' = Tail(pieces)
        /\ UNCHANGED <<result, written>>
     \/ /\ ~FitsWhole(Head(pieces))
        /\ pos' = TextRoom /\ Ends("cut", TextRoom)
        /\ UNCHANGED pieces
  /\ Kept

AllWritten ==
  /\ result = "none" /\ Fits /\ pieces = <<>>
  /\ Ends("all", pos)
  /\ Kept /\ UNCHANGED <<buffer, pieces, pos>>

(* The suffix goes behind the text; what is told is how many bytes this    *)
(* second cursor wrote.                                                    *)
AppendSuffix ==
  /\ result = "cut"
  /\ buffer' = Put(buffer, written, suffix, Room)
  /\ Ends("truncated", IF suffix = <<>> THEN written ELSE Len(suffix))
  /\ Kept /\ UNCHANGED <<pieces, pos>>

(* Nulls within what is told become spaces, and a null ends it.            *)
TerminatedOnly(b, n) == [b EXCEPT ![n + 1] = Null]   \* variant: nulls in the text stay
Terminated(b, n) ==
  [i \in DOMAIN b |-> IF i <= n /\ b[i] = Null THEN Space ELSE IF i = n + 1 THEN Null ELSE b[i]]

Terminate ==
  /\ result \in {"all", "truncated"}
  /\ buffer' = IF Len(buffer) < 2 THEN buffer ELSE Terminated(buffer, written)
  /\ result' = IF result = "all" THEN "told all" ELSE "told truncated"
  /\ Kept /\ UNCHANGED <<pieces, pos, written>>

Done == result \in {"told all", "told truncated"}

Next == TooSmall \/ WritePiece \/ AllWritten \/ AppendSuffix \/ Terminate \/ (Done /\ UNCHANGED vars)

Spec == Init /\ [][Next]_vars

-----------------------------------------------------------------------------
(* What a client of C reads: up to the first null.                         *)
Shown == SubSeq(buffer, 1, SelectInSeq(buffer, LAMBDA b : b = Null) - 1)
Readable == [i \in DOMAIN text |-> IF text[i] = Null THEN Space ELSE text[i]]

(* What is told to have been written is what a client of C reads; no null  *)
(* in the text cuts it short, and nothing that was in the buffer before    *)
(* shows (errors.rs:893-908).                                              *)
ToldIsShown ==
  Done /\ Len(buffer) >= 2 =>
    /\ Null \in Range(buffer)
    /\ Len(Shown) = written
    /\ Old \notin Range(Shown)

(* All of the error is shown if that is told, and some of its beginning in *)
(* any case (errors.rs:871-890).                                           *)
ShownIsTheError ==
  Done /\ Len(buffer) >= 2 =>
    /\ result = "told all" => Shown = Readable
    /\ result = "told truncated" =>
         \A i \in DOMAIN Shown : i <= Len(Readable) => Shown[i] = Readable[i] \/ i > TextRoom

(* Nothing is cut off that would have fitted beside the suffix.            *)
CutOnlyWhenNeeded ==
  Done /\ Len(buffer) >= 2 /\ Len(text) <= TextRoom /\ TextRoom > 0 => result = "told all"
=============================================================================
