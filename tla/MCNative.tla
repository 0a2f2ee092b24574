------------------------------- MODULE MCNative -------------------------------
(***************************************************************************)
(* Instances for TLC of the native components: the context's heap with its *)
(* clients, an io, libjpeg's managers over an io of their own, a decoder,  *)
(* and the context's error.                                                *)
(*                                                                         *)
(* They share no state, so that steps of two of them have no order to get  *)
(* wrong: a behaviour looks at one of them, chosen by `part`, while the    *)
(* others rest.                                                            *)
(***************************************************************************)
EXTENDS ObjectTracking

CONSTANTS
  Parts,                                                \* what to look at
  Byte, MinGrowth, MaxLength, Kinds, BufferSize, Eoi,   \* of CIo and JpegIo
  Images, Hints, NoHints, Crashes,                      \* of CDecoders
  Statuses, Messages, Locations, Rooms                  \* of CErrorBuffer

VARIABLES
  part,
  io, error, got,                                            \* of CIo
  jpegIo, jpegError, jpegGot,                                \* of JpegIo
  buffer, begun, toSkip, passed, emitted, state,
  image, kind, decoder, reply,                               \* of CDecoders
  reason, message, included, locked, frames, first, others   \* of CErrorBuffer

ioVars      == <<io, error, got>>
jpegVars    == <<jpegIo, jpegError, jpegGot, buffer, begun, toSkip, passed, emitted, state>>
decoderVars == <<image, kind, decoder, reply>>
errorVars   == <<reason, message, included, locked, frames, first, others>>
nativeVars  == <<part, vars, ioVars, jpegVars, decoderVars, errorVars>>

\* What becomes of an io whose memory runs out is JpegIo's to look at: it is
\* no stream any more.
Io   == INSTANCE CIo WITH Fails <- FALSE
Jpeg == INSTANCE JpegIo WITH io <- jpegIo, error <- jpegError, got <- jpegGot, Fails <- TRUE
Dec  == INSTANCE CDecoders
Err  == INSTANCE CErrorBuffer WITH stack <- frames

ASSUME NativeAssumption ==
  /\ Parts \subseteq {"heap", "io", "jpeg io", "decoder", "error"}
  /\ Io!IoAssumption /\ Jpeg!JpegIoAssumption /\ Dec!DecoderAssumption /\ Err!ErrorBufferAssumption

NativeInit ==
  /\ part \in Parts
  /\ Init
  /\ Io!Init /\ (part # "io" => io = Io!NewObuf)
  /\ Jpeg!Init /\ (part # "jpeg io" => jpegIo = Io!NewObuf)
  /\ Dec!Init /\ (part # "decoder" => image = CHOOSE i \in Images : TRUE)
  /\ Err!Init

HeapStep(A)    == part = "heap"    /\ A /\ UNCHANGED <<part, ioVars, jpegVars, decoderVars, errorVars>>
IoStep(A)      == part = "io"      /\ A /\ UNCHANGED <<part, vars, jpegVars, decoderVars, errorVars>>
JpegStep(A)    == part = "jpeg io" /\ A /\ UNCHANGED <<part, vars, ioVars, decoderVars, errorVars>>
DecoderStep(A) == part = "decoder" /\ A /\ UNCHANGED <<part, vars, ioVars, jpegVars, errorVars>>
ErrorStep(A)   == part = "error"   /\ A /\ UNCHANGED <<part, vars, ioVars, jpegVars, decoderVars>>

NativeNext ==
  \/ HeapStep(Next)
  \/ IoStep(Io!Next)
  \/ JpegStep(Jpeg!Next)
  \/ DecoderStep(Dec!Next)
  \/ ErrorStep(Err!Next)

\* The fairness of ObjectTracking and of JpegIo.
NativeSpec ==
  /\ NativeInit /\ [][NativeNext]_nativeVars
  /\ WF_nativeVars(HeapStep(Destroying))
  /\ WF_nativeVars(JpegStep(Jpeg!Skipping))

-----------------------------------------------------------------------------
\* Instances: images of a few sizes, kinds and states of repair, hints that
\* shrink, do not, or ask for more than there is; frames of a stack trace as
\* long as the shortest and the longest of the code.
EndOfImage == <<1, 1>>

Plain(k, w, h) == [kind |-> k, w |-> w, h |-> h, color |-> "rgb", alpha |-> FALSE, trns |-> FALSE,
                   profile |-> "none", broken |-> "no"]
JpegImages ==
  {[Plain("jpeg", s[1], s[2]) EXCEPT !.broken = b, !.profile = p] :
     s \in {<<1, 1>>, <<16, 9>>, <<3, 20>>}, b \in {"no", "header", "body", "end"}, p \in {"none", "icc"}}
PngImages ==
  {[Plain("png", 2, 3) EXCEPT !.color = c, !.alpha = a, !.profile = p, !.broken = b] :
     c \in {"gray", "rgb", "palette"}, a \in BOOLEAN, p \in {"none", "srgb", "icc", "gama_chrm"},
     b \in {"no", "header", "body"}}
AllImages == JpegImages \cup {i \in PngImages : i.color = "palette" => ~i.alpha}
             \cup {Plain("other", 1, 1), Plain("short", 1, 1)}

Unhinted == [ifWider |-> -1, ifTaller |-> -1, minW |-> -1, minH |-> -1]
SomeHints ==
  {Unhinted} \cup [ifWider: {2, 100}, ifTaller: {2, 100}, minW: {1, 5}, minH: {1, 3}]

SomeLocations == {[size |-> 45], [size |-> 98]}

-----------------------------------------------------------------------------
\* The types of the five components' states, and that the cursor of an io stays
\* in what has been written (io.c:52-132, 190-248, 310-388).
NativeTypeOK ==
  /\ part \in Parts
  /\ TypeOK /\ Io!TypeOK /\ Io!InBounds /\ Jpeg!Io!TypeOK /\ Jpeg!Io!InBounds
  /\ Dec!TypeOK /\ Err!TypeOK

\* The heap's table holds what the underlying heap has handed out, its free slot
\* is the lowest, and nothing is freed that it has no record of, however
\* destructors and reuse of slots interleave (context_heap.c:62-109, 265-398).
TableIsSound == TableMatchesHeap /\ NextIsLowestFree /\ NothingFreedTwice

\* An output buffer, a piece of memory and a file are streams of bytes: what is
\* read is what was last written there, and an output buffer holds all that was
\* written (io.c).
ImplementsStream == Io!ImplementsStream

\* libjpeg reads the bytes of an io in order, whatever it skips, and what it
\* emits is in the io, or still in the buffer (codecs_jpeg_io.c).
StreamsMatch == Jpeg!SourceInOrder /\ Jpeg!DestinationComplete

\* Skipping ends, also past the end of the image (codecs_jpeg_io.c:126-144).
SkippingEnds == Jpeg!SkippingEnds

\* A decoder decodes one frame at most, of the size it last announced, whatever
\* hints and failures came before, and the library's structures are there exactly
\* when they are needed (codecs_jpeg.c, codecs_png.c).
DecodedAsAnnounced ==
  /\ [](Dec!LibraryFollowsStage /\ Dec!AnnouncedIsDecoded /\ Dec!NeverMisfits)
  /\ Dec!OneFrame

\* The first error raised is the one that is told, as it was raised and with its
\* own trace, within the room there is, and as a failure (context.c, errors.rs).
FirstErrorIsTold ==
  /\ [](/\ Err!FirstErrorStands /\ Err!ReportFits /\ Err!CategoriesSurvive
        /\ Err!ErrorsCanBeTold /\ Err!NoErrorIsSuccess)
  /\ Err!TraceOfTheFirst
=============================================================================
