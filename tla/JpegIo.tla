-------------------------------- MODULE JpegIo --------------------------------
(***************************************************************************)
(* libjpeg's source and destination managers over a flow_io:               *)
(* c_components/lib/codecs_jpeg_io.c, on the io of CIo.  The library is    *)
(* any caller that takes, skips or emits bytes.                            *)
(***************************************************************************)
EXTENDS Integers, Sequences

CONSTANTS Byte, NULL, MinGrowth, MaxLength, Kinds, Fails,
          BufferSize, \* FLOW_JPEG_INPUT_BUFFER_SIZE, FLOW_JPEG_OUTPUT_BUFFER_SIZE
          Eoi         \* the two bytes of an end of image

JpegIoAssumption == BufferSize \in Nat \ {0} /\ Eoi \in Seq(Byte) /\ Len(Eoi) = 2

VARIABLES
  io, error, got, \* of CIo
  buffer,   \* what is in the manager's buffer: bytes to take, or bytes emitted
  begun,    \* bytes_have_been_read
  toSkip,   \* bytes skip_input_data has still to skip
  passed,   \* how many bytes the library has taken or skipped
  emitted,  \* the bytes the library has emitted
  state     \* "running", "finished", or "failed": the library has jumped out

ioVars == <<io, error, got>>
vars == <<ioVars, buffer, begun, toSkip, passed, emitted, state>>

Io == INSTANCE CIo

Init ==
  /\ Io!Init
  /\ buffer = <<>> /\ begun = FALSE /\ toSkip = 0
  /\ passed = 0 /\ emitted = <<>>
  /\ state = "running"

Reading == state = "running" /\ io.kind # "obuf"
Writing == state = "running" /\ io.kind = "obuf"

-----------------------------------------------------------------------------
(* _flow_jpeg_io_source_fill_input_buffer.  An empty file is an error; at  *)
(* the end of another the image is made to end.                            *)
Fill ==
  /\ Io!Read(BufferSize)
  /\ \/ got' # <<>> /\ buffer' = got' /\ begun' = TRUE /\ UNCHANGED state
     \/ got' = <<>> /\ begun /\ buffer' = Eoi /\ UNCHANGED <<begun, state>>
     \/ got' = <<>> /\ ~begun /\ state' = "failed" /\ UNCHANGED <<buffer, begun>>

FillInputBuffer ==
  /\ Reading /\ toSkip = 0 /\ buffer = <<>>
  /\ Fill
  /\ UNCHANGED <<toSkip, passed, emitted>>

Take ==
  /\ Reading /\ toSkip = 0 /\ buffer # <<>>
  /\ passed <= MaxLength
  /\ buffer' = Tail(buffer)
  /\ passed' = passed + 1
  /\ UNCHANGED <<ioVars, begun, toSkip, emitted, state>>

(* _flow_jpeg_io_source_skip_input_data, and the steps of its loop.        *)
SkipInputData(n) ==
  /\ Reading /\ toSkip = 0 /\ n > 0
  /\ passed + n <= MaxLength + 1
  /\ toSkip' = n
  /\ passed' = passed + n
  /\ UNCHANGED <<ioVars, buffer, begun, emitted, state>>

SkipBufferKeeping ==   \* variant: what was in the buffer is not counted
  /\ Reading /\ toSkip > Len(buffer)
  /\ toSkip' = toSkip
  /\ Fill
  /\ UNCHANGED <<passed, emitted>>

SkipBuffer ==
  /\ Reading /\ toSkip > Len(buffer)
  /\ toSkip' = toSkip - Len(buffer)
  /\ Fill
  /\ UNCHANGED <<passed, emitted>>

SkipRestWhole ==   \* variant: the rest of the buffer goes too
  /\ Reading /\ toSkip > 0 /\ toSkip <= Len(buffer)
  /\ buffer' = <<>>
  /\ toSkip' = 0
  /\ UNCHANGED <<ioVars, begun, passed, emitted, state>>

SkipRest ==
  /\ Reading /\ toSkip > 0 /\ toSkip <= Len(buffer)
  /\ buffer' = SubSeq(buffer, toSkip + 1, Len(buffer))
  /\ toSkip' = 0
  /\ UNCHANGED <<ioVars, begun, passed, emitted, state>>

-----------------------------------------------------------------------------
(* The library puts a byte in the buffer and, when that is full,           *)
(* _flow_jpeg_io_dest_empty_output_buffer writes it out.                   *)
Flush(data) ==
  /\ Io!WriteObuf(data)
  /\ state' = IF error' THEN "failed" ELSE state

Emit(b) ==
  LET held == Append(buffer, b)
  IN  /\ Writing /\ Len(emitted) < MaxLength
      /\ emitted' = Append(emitted, b)
      /\ \/ Len(held) < BufferSize /\ buffer' = held /\ UNCHANGED <<ioVars, state>>
         \/ Len(held) = BufferSize /\ Flush(held) /\ buffer' = <<>>
      /\ UNCHANGED <<begun, toSkip, passed>>

(* _flow_jpeg_io_dest_terminate                                            *)
Terminate ==
  /\ Writing
  /\ \/ buffer = <<>> /\ UNCHANGED ioVars /\ state' = "finished"
     \/ /\ buffer # <<>>
        /\ Io!WriteObuf(buffer)
        /\ state' = IF error' THEN "failed" ELSE "finished"
  /\ UNCHANGED <<buffer, begun, toSkip, passed, emitted>>

Stopped == state # "running" /\ UNCHANGED vars
ReadEnough == Reading /\ passed > MaxLength /\ toSkip = 0 /\ UNCHANGED vars

Skipping == SkipBuffer \/ SkipRest

Next ==
  \/ FillInputBuffer \/ Take
  \/ \E n \in 1 .. MaxLength : SkipInputData(n)
  \/ Skipping
  \/ \E b \in Byte : Emit(b)
  \/ Terminate
  \/ Stopped \/ ReadEnough

Spec == Init /\ [][Next]_vars

(* A skip is a plain loop.                                                 *)
FairSpec == Spec /\ WF_vars(Skipping)

-----------------------------------------------------------------------------
(* The library gets the bytes of the io one after the other, across all    *)
(* refills and skips, and ends of image only after the last of them        *)
(* (codecs_jpeg_io.c:99-155).                                              *)
SourceInOrder ==
  Reading /\ toSkip = 0 =>
    IF passed + Len(buffer) <= Len(io.buffer)
    THEN io.cursor = passed + Len(buffer) /\ buffer = SubSeq(io.buffer, passed + 1, io.cursor)
    ELSE io.cursor = Len(io.buffer) /\ (passed < Len(io.buffer) => buffer = <<>>)

(* What has been written and what is in the buffer is what was emitted;    *)
(* once the library is done it is all written (codecs_jpeg_io.c:24-86).    *)
DestinationComplete ==
  LET written == IF io.buffer = NULL THEN <<>> ELSE io.buffer
  IN  io.kind = "obuf" =>
        /\ state = "running" => written \o buffer = emitted
        /\ state = "finished" => written = emitted

(* Skipping ends also when there is less to skip than asked for.           *)
SkippingEnds == toSkip > 0 ~> toSkip = 0 \/ state = "failed"
=============================================================================
