------------------------------- MODULE CDecoders -------------------------------
(***************************************************************************)
(* The JPEG and PNG decoders of the C components, c_components/lib/        *)
(* codecs.c, codecs_jpeg.c and codecs_png.c, as their one client drives    *)
(* them: an io is recognised, a decoder made, told hints, asked for its    *)
(* size and for its frame, in any order.  The libraries are modelled by    *)
(* what they are called for: they may find the image broken at any stage   *)
(* and then call the decoder's error handler, which jumps to where the     *)
(* decoder last called setjmp.                                             *)
(***************************************************************************)
EXTENDS Integers

CONSTANTS Images,  \* the images to read
          Hints,   \* flow_decoder_downscale_hints to tell
          NoHints, \* the hints a decoder starts with
          NULL,
          Crashes  \* also look at what is not defined: memory that runs out in a JPEG
                   \* decoder, errors while it starts to decompress

DecoderAssumption ==
  /\ Crashes \in BOOLEAN
  /\ Images \subseteq
       [kind: {"jpeg", "png", "other", "short"}, w: Nat \ {0}, h: Nat \ {0},
        color: {"gray", "rgb", "palette"}, alpha: BOOLEAN, trns: BOOLEAN,
        profile: {"none", "srgb", "icc", "gama_chrm"},
        broken: {"no", "header", "start", "body", "end"}]
  /\ NoHints \in Hints
  /\ Hints \subseteq [ifWider: Int, ifTaller: Int, minW: Int, minH: Int]

VARIABLES
  image,   \* what the io holds
  kind,    \* the codec selected for it, or NULL
  decoder, \* its state, or NULL
  reply    \* what the last call returned

vars == <<image, kind, decoder, reply>>

Ok(value) == [ok |-> TRUE, value |-> value]
Error(status) == [ok |-> FALSE, value |-> status]

Init ==
  /\ image \in Images
  /\ kind = NULL /\ decoder = NULL
  /\ reply = Ok("nothing")

-----------------------------------------------------------------------------
(* flow_codec_select_from_seekable_io: the first bytes decide.             *)
Select ==
  /\ kind = NULL /\ decoder = NULL
  /\ \/ image.kind = "short" /\ reply' = Error("IO_error") /\ UNCHANGED kind
     \/ image.kind = "other" /\ reply' = Error("Not_implemented") /\ UNCHANGED kind
     \/ image.kind \in {"jpeg", "png"} /\ kind' = image.kind /\ reply' = Ok("selected")
  /\ UNCHANGED <<image, decoder>>

(* reset, of a decoder whose stage is not Null.  The hints stay.           *)
Fresh(hints) ==
  [stage |-> "NotStarted", library |-> "null", frame |-> "none", w |-> 0, h |-> 0, num |-> 8,
   canvas |-> NULL, color |-> "none", format |-> "bgra32", hints |-> hints]

Reset(d) == [Fresh(d.hints) EXCEPT !.frame = d.frame]
Failed(d) == [Reset(d) EXCEPT !.stage = "Failed"]

(* flow_codecs_initialize_decode_jpeg, flow_codecs_initialize_decode_png   *)
Initialize ==
  /\ kind # NULL /\ decoder = NULL
  /\ decoder' = Fresh(NoHints)
  /\ reply' = Ok("done")
  /\ UNCHANGED <<image, kind>>

(* flow_codec_decoder_set_downscale_hints                                  *)
SetDownscaleHints(h) ==
  /\ kind # NULL
  /\ \/ kind = "png" /\ reply' = Ok("done") /\ UNCHANGED decoder
     \/ kind = "jpeg" /\ decoder = NULL /\ reply' = Error("Invalid_internal_state") /\ UNCHANGED decoder
     \/ kind = "jpeg" /\ decoder # NULL /\ decoder' = [decoder EXCEPT !.hints = h] /\ reply' = Ok("done")
  /\ UNCHANGED <<image, kind>>

-----------------------------------------------------------------------------
(* How a call may end: the decoder, and the reply.  An error handler that  *)
(* jumps to a frame that has returned leaves it to chance.                 *)
Ends(d, r) == [decoder |-> d, reply |-> r]
Jumped(d) ==
  IF d.frame = "dead" THEN Ends([d EXCEPT !.stage = "Undefined"], Error("undefined"))
                      ELSE Ends([Failed(d) EXCEPT !.frame = "dead"], Error("Image_decoding_failed"))

(* When the function that called setjmp returns, its frame is gone.        *)
Returns(d) == [d EXCEPT !.frame = IF d.frame = "none" THEN "none" ELSE "dead"]

(* png_decoder_load_color_profile, and the source interpret_metadata sets; *)
(* a GAMA_CHRM source is of colour images without an sRGB chunk.           *)
ColorOf(i) ==
  CASE i.profile = "none" -> "none"
    [] i.profile = "srgb" -> "sRGB"
    [] i.profile = "icc"  -> IF i.kind = "png" /\ i.color = "gray" THEN "ICCP_GRAY" ELSE "ICCP"
    [] i.profile = "gama_chrm" -> IF i.kind = "png" /\ i.color # "gray" THEN "GAMA_CHRM" ELSE "none"

(* The format a frame is decoded into: a PNG's, by its own colour type     *)
(* before it is expanded.                                                  *)
FormatOf(i) == IF i.kind = "png" /\ i.alpha THEN "bgra32" ELSE "bgr32"

(* flow_codecs_jpg_decoder_BeginRead, flow_codecs_png_decoder_BeginRead    *)
BeginRead(d) ==
  IF d.stage # "NotStarted"
  THEN {Ends(d, Error("Invalid_internal_state"))}
  ELSE LET begun == [Reset(d) EXCEPT !.stage = "BeginRead", !.library = "live", !.frame = "begin"]
       IN  (IF image.broken = "header" THEN {Jumped(begun)}
            ELSE {Ends(Returns([begun EXCEPT !.w = image.w, !.h = image.h, !.color = ColorOf(image),
                                             !.format = FormatOf(image)]), Ok("done"))})
           \cup (IF kind = "png" THEN {Ends(Failed(d), Error("Out_of_memory"))}
                 ELSE IF Crashes THEN {Ends([d EXCEPT !.stage = "Undefined"], Error("undefined"))} ELSE {})

(* jpeg_apply_downscaling: the smallest eighths that are large enough.     *)
Eighths(n, size) == (size * n + 7) \div 8
Enough(hints, n) == Eighths(n, image.w) >= hints.minW /\ Eighths(n, image.h) >= hints.minH
Scales == (1 .. 8) \ {7}

ApplyDownscaling(d) ==
  LET fits == {n \in Scales : Enough(d.hints, n)}
      wanted == /\ d.hints.minW # -1 /\ d.hints.minH # 1
                /\ image.w > d.hints.ifWider \/ image.h > d.hints.ifTaller
  IN  IF kind = "jpeg" /\ wanted /\ fits # {}
      THEN LET n == CHOOSE n \in fits : \A m \in fits : n <= m
           IN  [d EXCEPT !.num = n, !.w = Eighths(n, image.w), !.h = Eighths(n, image.h)]
      ELSE d

(* flow_codecs_jpeg_get_info, get_frame_info and their PNG counterparts:   *)
(* read the header if need be, then announce the size.                     *)
AnnounceFullSize(d) ==   \* variant: the size in the header, whatever the hints
  IF d.stage \in {"Failed", "NotStarted"} THEN BeginRead(d) ELSE {Ends(d, Ok("size"))}
Announce(d) ==
  LET told(e) == IF e.stage = "FinishRead" THEN e ELSE ApplyDownscaling(e)
      begun == IF d.stage \in {"Failed", "NotStarted"} THEN BeginRead(d) ELSE {Ends(d, Ok("done"))}
  IN  {IF x.reply.ok THEN LET e == told(x.decoder) IN Ends(e, Ok("size"))
                     ELSE x : x \in begun}

-----------------------------------------------------------------------------
(* flow_codecs_jpg_decoder_FinishRead: decompression is started before the *)
(* frame for its errors is established.  A PNG's is established first.     *)
FinishRead(d) ==
  LET caught == [d EXCEPT !.stage = "FinishRead", !.frame = "finish"]
      done   == Returns([caught EXCEPT !.library = "null"])
  IN  {IF kind = "jpeg" /\ image.broken = "start" THEN Jumped(d)
       ELSE IF image.broken # "no" THEN Jumped(caught)
       ELSE Ends(done, Ok("frame"))}

(* flow_codecs_jpeg_read_frame, flow_codecs_png_read_frame, into a canvas  *)
(* of a size.                                                              *)
ReadInto(d, w, h) ==
  IF d.stage # "BeginRead" THEN {Ends(d, Error("Invalid_internal_state"))}
  ELSE LET e == ApplyDownscaling([d EXCEPT !.canvas = <<w, h>>])
       IN  IF kind = "jpeg" /\ (e.w # w \/ e.h # h) THEN {Ends(e, Error("Invalid_argument"))}
           ELSE FinishRead(e)

Answers(ends) == \E x \in ends : decoder' = x.decoder /\ reply' = x.reply /\ UNCHANGED <<image, kind>>

InUse == decoder # NULL /\ decoder.stage # "Undefined"

GetInfo == InUse /\ Answers(Announce(decoder))

(* flow_codec_execute_read_frame: a bitmap of the announced size, and the  *)
(* frame in it.  The bitmap may not be had.                                *)
ExecuteReadFrame ==
  /\ InUse
  /\ \/ Answers(UNION {IF x.reply.ok THEN ReadInto(x.decoder, x.decoder.w, x.decoder.h) ELSE {x}
                        : x \in Announce(decoder)})
     \/ \E x \in Announce(decoder) :
          x.reply.ok /\ decoder' = x.decoder /\ reply' = Error("Out_of_memory") /\ UNCHANGED <<image, kind>>

(* The destructor, when the context goes.                                  *)
Cleanup ==
  /\ InUse
  /\ decoder' = NULL /\ kind' = NULL
  /\ reply' = Ok("gone")
  /\ UNCHANGED image

Over == decoder # NULL /\ decoder.stage = "Undefined" /\ UNCHANGED vars

Next ==
  \/ Select \/ Initialize
  \/ \E h \in Hints : SetDownscaleHints(h)
  \/ GetInfo \/ ExecuteReadFrame
  \/ Cleanup \/ Over

Spec == Init /\ [][Next]_vars

-----------------------------------------------------------------------------
(* The type of a decoder's state.                                          *)
TypeOK ==
  /\ kind \in {"jpeg", "png", NULL}
  /\ decoder # NULL =>
       /\ decoder.stage \in {"Failed", "NotStarted", "BeginRead", "FinishRead", "Undefined"}
       /\ decoder.num \in 1 .. 8 /\ decoder.w \in Nat /\ decoder.h \in Nat
       /\ decoder.hints \in Hints
  /\ reply.ok \in BOOLEAN

(* The library's structures are there exactly between the header and the   *)
(* end of the frame, and not after any error, so that neither is freed     *)
(* twice nor used when gone (codecs_jpeg.c:44-48, 639-669,                 *)
(* codecs_png.c:45-70, 73-89).                                             *)
LibraryFollowsStage ==
  InUse => (decoder.library = "live") = (decoder.stage = "BeginRead")

(* What is announced of a JPEG that is not read yet is what the library    *)
(* will decode, whatever hints came in between: the canvas made of the     *)
(* announced size fits (codecs_jpeg.c:830-861, 925-932).                   *)
AnnouncedIsDecoded ==
  InUse /\ kind = "jpeg" /\ decoder.stage \in {"BeginRead", "FinishRead"} =>
    decoder.w = Eighths(decoder.num, image.w) /\ decoder.h = Eighths(decoder.num, image.h)

(* A frame asked for in one go is refused only for what the image is, for  *)
(* memory, or because it was read before: never for its size.              *)
NeverMisfits == reply.ok \/ reply.value # "Invalid_argument"

(* One frame at most, and none from a decoder that failed: both stages     *)
(* last (codecs_jpeg.c:425-433, 944-947).                                  *)
OneFrame ==
  [][decoder # NULL /\ decoder' # NULL /\ decoder.stage \in {"Failed", "FinishRead"} =>
       decoder'.stage = decoder.stage /\ (reply' # reply => reply' # Ok("frame"))]_vars
=============================================================================
