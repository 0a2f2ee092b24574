--------------------------------- MODULE CIo ----------------------------------
(***************************************************************************)
(* The ios of the C components, c_components/lib/io.c: an output buffer    *)
(* that grows, a piece of memory, and a file.  One io is modelled, of any  *)
(* kind, and any client that calls its functions in turn.  The operators   *)
(* take and give the io's state, for JpegIo to use them too.               *)
(*                                                                         *)
(* A client stops after an error, but may ask for the output buffer.       *)
(***************************************************************************)
EXTENDS Integers, Sequences, SequencesExt

CONSTANTS Byte,      \* what is written and read
          NULL,
          MinGrowth, \* the least size of an output buffer (4096 in the code)
          MaxLength, \* bound of the model: contents are no longer than this
          Kinds,     \* of io to look at
          Fails      \* memory and disks may be full

IoAssumption ==
  /\ MinGrowth \in Nat \ {0} /\ MaxLength \in Nat /\ Kinds \subseteq {"obuf", "memory", "file"} /\ Fails \in BOOLEAN
  /\ NULL \notin Seq(Byte)

VARIABLES
  io,    \* flow_io with its flow_io_obuf, flow_io_memory or flow_io_fileptr
  error, \* flow_context_has_error
  got    \* the bytes the last call read

vars == <<io, error, got>>

Lesser(m, n) == IF m < n THEN m ELSE n
Greater(m, n) == IF m > n THEN m ELSE n

(* flow_io_obuf: buffer, length, uncleared_memory_begins and cursor.  Of   *)
(* the buffer only what has been written is kept.  flow_io_memory: memory, *)
(* length and cursor.  flow_io_fileptr: the file, and cursor; fp is where  *)
(* the file is.                                                            *)
NewObuf == [kind |-> "obuf", buffer |-> NULL, length |-> 0, uncleared |-> 0, cursor |-> 0]
NewMemory(s) == [kind |-> "memory", buffer |-> s, length |-> Len(s), cursor |-> 0]
NewFile(s) == [kind |-> "file", buffer |-> s, fp |-> 0, cursor |-> 0]

Init ==
  /\ \/ "obuf" \in Kinds /\ io = NewObuf
     \/ \E s \in BoundedSeq(Byte, MaxLength) :
          \/ "memory" \in Kinds /\ s # <<>> /\ io = NewMemory(s)
          \/ "file" \in Kinds /\ io = NewFile(s)
  /\ error = FALSE /\ got = <<>>

(* buffer with data at p, up to its new end.                               *)
Stored(buffer, p, data) ==
  LET old == IF buffer = NULL THEN <<>> ELSE buffer
  IN  [i \in 1 .. Greater(Len(old), p + Len(data)) |-> IF i \in p + 1 .. p + Len(data) THEN data[i - p] ELSE old[i]]

-----------------------------------------------------------------------------
CanSeekBack(x, p) ==   \* variant: no lower bound
  CASE x.kind = "obuf"   -> p <= x.uncleared
    [] x.kind = "memory" -> p <= x.length
    [] x.kind = "file"   -> p >= 0

(* Where a seek may go: not past the written area, the memory; a file can  *)
(* be sought to anywhere from 0.                                           *)
CanSeek(x, p) ==
  CASE x.kind = "obuf"   -> p >= 0 /\ p <= x.uncleared
    [] x.kind = "memory" -> p >= 0 /\ p <= x.length
    [] x.kind = "file"   -> p >= 0

Sought(x, p) == IF x.kind = "file" THEN [x EXCEPT !.fp = p, !.cursor = p] ELSE [x EXCEPT !.cursor = p]

(* flow_io_obuf_seek, flow_io_memory_seek, flow_io_fileptr_seek            *)
Seek(p) ==
  /\ ~error
  /\ IF CanSeek(io, p) THEN io' = Sought(io, p) /\ UNCHANGED error
                       ELSE error' = TRUE /\ UNCHANGED io
  /\ got' = <<>>

(* How many bytes of count there are.                                      *)
Remaining(x) ==
  CASE x.kind = "obuf"   -> x.uncleared - x.cursor
    [] x.kind = "memory" -> x.length - x.cursor
    [] x.kind = "file"   -> Len(x.buffer) - x.fp
Allowed(x, count) == Lesser(Greater(Remaining(x), 0), count)

ReadFrom(x, count) == IF Allowed(x, count) = 0 THEN <<>> ELSE SubSeq(x.buffer, x.cursor + 1, x.cursor + Allowed(x, count))

AfterRead(x, n) == IF x.kind = "file" THEN [x EXCEPT !.fp = @ + n, !.cursor = @ + n] ELSE [x EXCEPT !.cursor = @ + n]

(* flow_io_obuf_read, flow_io_memory_read, flow_io_fileptr_read            *)
Read(count) ==
  /\ ~error
  /\ got' = ReadFrom(io, count)
  /\ io' = AfterRead(io, Len(got'))
  /\ UNCHANGED error

(* The same with no buffer to read to: skip.  A file seeks ahead from the  *)
(* cursor, whether there is anything there or not.                         *)
Skip(count) ==
  LET n == IF io.kind = "file" THEN count ELSE Allowed(io, count)
  IN  /\ ~error
      /\ io' = Sought(io, io.cursor + n)
      /\ got' = <<>>
      /\ UNCHANGED error

-----------------------------------------------------------------------------
(* flow_io_obuf_write: the size the buffer grows to, by half at least.     *)
NewLength(x, count) ==
  LET need == x.cursor + count
      half == (x.length * 3) \div 2
  IN  Greater(MinGrowth, IF need < half THEN half + 1 ELSE need)

MustGrow(x, count) == x.length - x.cursor < count

ObufWrittenShort(x, data) ==   \* variant: what is written last is what there is
  LET end == x.cursor + Len(data)
  IN  [x EXCEPT !.length = IF MustGrow(x, Len(data)) THEN NewLength(x, Len(data)) ELSE @,
                !.buffer = Stored(@, x.cursor, data),
                !.cursor = end,
                !.uncleared = end]

ObufWritten(x, data) ==
  LET end == x.cursor + Len(data)
  IN  [x EXCEPT !.length = IF MustGrow(x, Len(data)) THEN NewLength(x, Len(data)) ELSE @,
                !.buffer = Stored(@, x.cursor, data),
                !.cursor = end,
                !.uncleared = Greater(@, end)]

WriteObuf(data) ==
  /\ io.kind = "obuf" /\ ~error
  /\ io.cursor + Len(data) <= MaxLength
  /\ \/ io' = ObufWritten(io, data) /\ UNCHANGED error
     \/ Fails /\ MustGrow(io, Len(data))
        /\ io' = [io EXCEPT !.buffer = NULL] /\ error' = TRUE
  /\ got' = <<>>

(* flow_io_memory_write: refused if there is more room than is needed.     *)
(* What is not refused and does not fit is written past the end; the model *)
(* stops short of that.                                                    *)
WriteMemory(data) ==
  /\ io.kind = "memory" /\ ~error
  /\ IF io.length - io.cursor > Len(data)
     THEN error' = TRUE /\ UNCHANGED io
     ELSE /\ io.cursor + Len(data) <= io.length
          /\ io' = [io EXCEPT !.buffer = Stored(@, io.cursor, data), !.cursor = @ + Len(data)]
          /\ UNCHANGED error
  /\ got' = <<>>

(* flow_io_fileptr_write: what is between the end of the file and fp is    *)
(* left to the file system; the model does not write there.                *)
FileWritten(x, data) ==
  [x EXCEPT !.buffer = Stored(@, x.fp, data), !.fp = @ + Len(data), !.cursor = @ + Len(data)]

WriteFile(data) ==
  /\ io.kind = "file" /\ ~error
  /\ io.fp <= Len(io.buffer) /\ io.fp + Len(data) <= MaxLength
  /\ \E n \in (IF Fails THEN 0 .. Len(data) ELSE {Len(data)}) :
       /\ io' = FileWritten(io, SubSeq(data, 1, n))
       /\ error' = (n < Len(data))
  /\ got' = <<>>

Next ==
  \/ \E n \in 0 .. MaxLength : Read(n)
  \/ \E n \in 0 .. MaxLength : (io.kind # "file" \/ io.cursor + n <= MaxLength + 1) /\ Skip(n)
  \/ \E p \in -1 .. MaxLength + 1 : Seek(p)
  \/ \E data \in BoundedSeq(Byte, 2) \ {<<>>} : WriteObuf(data) \/ WriteMemory(data) \/ WriteFile(data)
  \/ error /\ UNCHANGED vars   \* the client has stopped

Spec == Init /\ [][Next]_vars

-----------------------------------------------------------------------------
(* The type of an io's state.                                              *)
TypeOK ==
  /\ io.kind \in Kinds
  /\ io.buffer \in Seq(Byte) \cup {NULL} /\ io.cursor \in Nat
  /\ error \in BOOLEAN /\ got \in Seq(Byte)

(* Nothing is read or written outside what is there: whatever is skipped,  *)
(* sought and overwritten, the cursor stays in the written area, and that  *)
(* in the buffer; a file's cursor is where the file is (io.c:52-132,       *)
(* 190-248, 310-388).                                                      *)
InBounds ==
  CASE io.kind = "obuf"   -> /\ io.cursor <= io.uncleared /\ io.uncleared <= io.length
                             /\ io.buffer = NULL \/ Len(io.buffer) = io.uncleared
    [] io.kind = "memory" -> io.cursor <= io.length /\ Len(io.buffer) = io.length
    [] io.kind = "file"   -> io.cursor = io.fp

(* An io is a stream of bytes: what is read is what was last written       *)
(* there, and what is handed out in the end is all that was written.       *)
Stream ==
  INSTANCE ByteStream WITH
    content  <- CASE io.kind = "obuf" -> IF io.buffer = NULL THEN <<>> ELSE SubSeq(io.buffer, 1, io.uncleared)
                  [] io.kind # "obuf" -> io.buffer,
    position <- io.cursor
ImplementsStream == Stream!Spec
=============================================================================
