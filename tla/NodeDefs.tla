------------------------------ MODULE NodeDefs -------------------------------
(***************************************************************************)
(* The node definitions of imageflow_core/src/flow: which definitions can  *)
(* be expanded, which can be executed, the edges each one requires, the    *)
(* parameters it accepts, and what its expansion is replaced with.  These  *)
(* are the constant parts of the NodeDef trait objects; what a definition  *)
(* reads from or writes to the graph is in ExecutionEngine.                *)
(*                                                                         *)
(* A node's parameters are [t |-> tag, a |-> numbers]: the tag is the      *)
(* s::Node variant they were parsed from, the numbers its fields in order. *)
(***************************************************************************)
EXTENDS Bitmaps, Sequences, FiniteSets

NoParams == [t |-> "none", a |-> <<>>]
P(t, a) == [t |-> t, a |-> a]
Node(d, p) == [def |-> d, p |-> p]

(* How many numbers the variants with fields have; a decode has the size   *)
(* of its downscaling commands or none.                                    *)
Fields == [ crop |-> {4}, fill_rect |-> {4}, copy_rect |-> {6}, draw_image_exact |-> {4},
            create_canvas |-> {2}, expand_canvas |-> {4}, scale |-> {2}, constrain |-> {2},
            apply_orientation |-> {1}, command_string |-> {4}, encode |-> {1}, decode |-> {1, 3} ]
Fieldless == {"none", "flip_v", "flip_h", "transpose", "rotate_90", "rotate_180", "rotate_270",
              "color_matrix_srgb", "color_filter_srgb"}
Params == {p \in [t: DOMAIN Fields \cup Fieldless, a: Seq(Nat)] : p.t \in DOMAIN Fields => Len(p.a) \in Fields[p.t]}

(* MutProtect wrappers and the mutating definition each one protects.      *)
Inner == [ flip_v |-> "flip_v_primitive", flip_h |-> "flip_h_primitive",
           crop |-> "crop_mutate", color_matrix_srgb |-> "color_matrix_srgb_mutate" ]
Protected == DOMAIN Inner

OneInputOneCanvas == {"copy_rect", "transpose_mut", "scale_2d_to_canvas", "draw_image_exact"}

MutateBitmap == {"fill_rect", "flip_v_primitive", "flip_h_primitive",
                 "color_matrix_srgb_mutate"}

OneInputExpand == Protected \cup
  {"apply_orientation", "transpose", "rotate_90", "rotate_180", "rotate_270",
   "expand_canvas", "scale", "constrain", "color_filter_srgb"}

CanExpand == OneInputExpand \cup {"decoder", "command_string", "expanding_command_string"}

CanExecute == OneInputOneCanvas \cup MutateBitmap \cup
  {"crop_mutate", "primitive_decoder", "primitive_encoder", "create_canvas"}

Defs == CanExpand \cup CanExecute

Decoders == {"decoder", "primitive_decoder"}

(* NodeDef::edges_required *)
NoInput == Decoders \cup {"create_canvas"}
NoChildren == {"primitive_encoder"}

EdgesInOf(d) == IF d \in NoInput THEN "NoInput"
                ELSE IF d \in OneInputOneCanvas THEN "OneInputOneCanvas"
                ELSE "OneInput"

(* The inputs_failed match of validate_graph, arm by arm.  The guards of   *)
(* the last two arms join their conditions with "&&", as the source does.  *)
InputsFailed(d, inputs, canvases) ==
  \/ EdgesInOf(d) = "NoInput" /\ (inputs > 0 \/ canvases > 0)
  \/ EdgesInOf(d) = "OneInput" /\ inputs # 1 /\ canvases # 0
  \/ EdgesInOf(d) = "OneInputOneCanvas" /\ inputs # 1 /\ canvases # 1

(* NodeDef::validate_params.  Definitions without a validation of their    *)
(* own accept anything.                                                    *)
CropValid(p) == p.t = "crop" /\ p.a[3] > p.a[1] /\ p.a[4] > p.a[2]

ParamsValid(d, p) ==
  CASE d \in {"crop", "crop_mutate"} -> CropValid(p)
    [] d = "create_canvas"           -> p.t = "create_canvas" /\ p.a[1] >= 1 /\ p.a[2] >= 1
    [] d \in Decoders                -> p.t = "decode"
    [] d = "primitive_encoder"       -> p.t = "encode"
    [] OTHER                         -> TRUE

(* The tag execute and expand insist on; NodeParamsMismatch otherwise.     *)
TagOf == [ copy_rect |-> "copy_rect", scale_2d_to_canvas |-> "scale",
           draw_image_exact |-> "draw_image_exact", fill_rect |-> "fill_rect",
           color_matrix_srgb_mutate |-> "color_matrix_srgb", crop_mutate |-> "crop",
           apply_orientation |-> "apply_orientation", expand_canvas |-> "expand_canvas",
           scale |-> "scale", constrain |-> "constrain",
           color_filter_srgb |-> "color_filter_srgb",
           command_string |-> "command_string",
           expanding_command_string |-> "command_string",
           create_canvas |-> "create_canvas" ]

ParamsMatch(d, p) == d \in DOMAIN TagOf => p.t = TagOf[d]

-----------------------------------------------------------------------------
(* Estimates: FrameEstimate without the pixel format.                      *)
Est(k, w, h) == [k |-> k, w |-> w, h |-> h]
Unknown    == Est("None", 0, 0)
Impossible == Est("Impossible", 0, 0)
Invalidate == Est("InvalidateGraph", 0, 0)
Known(w, h) == Est("Some", w, h)
Estimates == [k: {"None", "Impossible", "InvalidateGraph", "Some"}, w: Nat, h: Nat]

(* constrain() and scale_b_to(): f32 arithmetic rounded to nearest, in     *)
(* exact rationals.  A zero stands for an absent bound.                    *)
ScaleTo(from, to, other) == (2 * other * to + from) \div (2 * from)

Constrained(ow, oh, w, h) ==
  CASE w > 0 /\ h = 0 /\ w < ow -> <<w, ScaleTo(ow, w, oh)>>
    [] w = 0 /\ h > 0 /\ h < oh -> <<ScaleTo(oh, h, ow), h>>
    [] w > 0 /\ h > 0 /\ (w < ow \/ h < oh) ->
         IF w * oh > ow * h THEN <<ScaleTo(oh, h, ow), h>> ELSE <<w, ScaleTo(ow, w, oh)>>
    [] OTHER -> <<ow, oh>>

(* NodeDefOneInputExpand::estimate through map_frame: only Some changes.   *)
OrientedEst(p, e) == IF p.a[1] \in 5 .. 8 THEN Known(e.h, e.w) ELSE e
ExpandedEst(p, e) == Known(e.w + p.a[1] + p.a[3], e.h + p.a[2] + p.a[4])
ScaledEst(p) == Known(p.a[1], p.a[2])
ConstrainedEst(p, e) == LET s == Constrained(e.w, e.h, p.a[1], p.a[2]) IN Known(s[1], s[2])

MapFrame(d, p, e) ==
  IF e.k # "Some" THEN e
  ELSE CASE d = "apply_orientation" -> OrientedEst(p, e)
         [] d \in {"transpose", "rotate_90", "rotate_270"} -> Known(e.h, e.w)
         [] d = "expand_canvas" -> ExpandedEst(p, e)
         [] d = "scale" -> ScaledEst(p)
         [] d = "constrain" -> ConstrainedEst(p, e)
         [] OTHER -> e

(* CropMutNodeDef::est_validate; in the variant the corners are subtracted *)
(* the wrong way round.                                                    *)
CropEstimateBackwards(p, e) ==
  IF e.k = "Some" THEN Known(p.a[1] - p.a[3], p.a[2] - p.a[4]) ELSE Unknown

CropFits(p, w, h) == CropValid(p) /\ p.a[3] <= w /\ p.a[4] <= h
CropEstimate(p, e) ==
  IF e.k = "Some" THEN Known(p.a[3] - p.a[1], p.a[4] - p.a[2]) ELSE Unknown

-----------------------------------------------------------------------------
(* Expansions that put a chain of nodes in the place of one (replace_node).*)

OrientationSteps(flag) ==
  CASE flag = 7 -> <<"rotate_180", "transpose">>
    [] flag = 8 -> <<"rotate_90">>
    [] flag = 6 -> <<"rotate_270">>
    [] flag = 5 -> <<"transpose">>
    [] flag = 4 -> <<"flip_v">>
    [] flag = 3 -> <<"rotate_180">>
    [] flag = 2 -> <<"flip_h">>
    [] OTHER    -> <<>>

Bare(ds) == [i \in DOMAIN ds |-> Node(ds[i], NoParams)]

(* get_decode_commands for w=tw&h=th&mode=stretch&scale=both: the size the *)
(* decoder may shrink to, or <<>> when the preshrink ratio is not below 1. *)
(* 2.1 / min(from.w/to.w, from.h/to.w): the divisor is to.w both times.    *)
\* In the variant the decoder may shrink to the target itself.
DecodeHintTight(sw, sh, tw) ==
  LET least == IF sw < sh THEN sw ELSE sh
  IN  IF tw < least THEN <<(sw * tw) \div least, (sh * tw) \div least>> ELSE <<>>

DecodeHint(sw, sh, tw) ==
  LET least == IF sw < sh THEN sw ELSE sh
  IN  IF 21 * tw < 10 * least
      THEN <<(sw * 21 * tw) \div (10 * least), (sh * 21 * tw) \div (10 * least)>>
      ELSE <<>>

(* expand_steps for the same command, from a source of the given size:     *)
(* a resample unless the size already fits, then an encoder if asked for.  *)
CommandSteps(p, w, h) ==
  LET resample == IF <<p.a[1], p.a[2]>> = <<w, h>> THEN <<>>
                  ELSE <<Node("scale", P("scale", <<p.a[1], p.a[2]>>))>>
      encode   == IF p.a[4] = 0 THEN <<>>
                  ELSE <<Node("primitive_encoder", P("encode", <<p.a[4]>>))>>
  IN  resample \o encode

(* MutProtect: a second node, without the parameters, stands for a copy.   *)
ProtectedChain(d, p, shared) ==
  IF shared THEN <<Node(Inner[d], NoParams), Node(Inner[d], p)>> ELSE <<Node(Inner[d], p)>>
FilterChain == <<Node("color_matrix_srgb_mutate", P("color_matrix_srgb", <<>>))>>
ConstrainChain(p, w, h) ==
  LET s == Constrained(w, h, p.a[1], p.a[2])
  IN  IF s = <<w, h>> THEN <<>> ELSE <<Node("scale", P("scale", s))>>

(* The chain a definition expands to, given its parent's size.             *)
ChainOf(d, p, w, h, shared) ==
  CASE d \in Protected -> ProtectedChain(d, p, shared)
    [] d = "apply_orientation" -> Bare(OrientationSteps(p.a[1]))
    [] d = "rotate_90"  -> Bare(<<"transpose", "flip_v">>)
    [] d = "rotate_180" -> Bare(<<"flip_v", "flip_h">>)
    [] d = "rotate_270" -> Bare(<<"flip_v", "transpose">>)
    [] d = "color_filter_srgb" -> FilterChain
    [] d = "constrain" -> ConstrainChain(p, w, h)
    [] d = "expanding_command_string" -> CommandSteps(p, w, h)

(* Expansions that put a canvas and a rendering node in the place of one   *)
(* (replace_node_with_existing).                                           *)
ToCanvas == {"transpose", "expand_canvas", "scale"}

CanvasFor(d, p, w, h) ==
  LET size == CASE d = "transpose"     -> <<h, w>>
                [] d = "expand_canvas" -> <<w + p.a[1] + p.a[3], h + p.a[2] + p.a[4]>>
                [] d = "scale"         -> <<p.a[1], p.a[2]>>
  IN  Node("create_canvas", P("create_canvas", size))


RenderFor(d, p, w, h) ==
  CASE d = "transpose"     -> Node("transpose_mut", NoParams)
    [] d = "expand_canvas" -> Node("copy_rect", P("copy_rect", <<0, 0, w, h, p.a[1], p.a[2]>>))
    [] d = "scale"         -> Node("scale_2d_to_canvas", p)

-----------------------------------------------------------------------------
(* What executing nodes do to pixels, and the checks they make first.      *)

RenderFits(d, p, canvas, input) ==
  CASE d = "copy_rect" ->
         /\ input.w > p.a[1] /\ input.h > p.a[2]
         /\ input.w >= p.a[1] + p.a[3] /\ input.h >= p.a[2] + p.a[4]
         /\ canvas.w >= p.a[5] + p.a[3] /\ canvas.h >= p.a[6] + p.a[4]
    [] d = "transpose_mut" -> input.w = canvas.h /\ input.h = canvas.w
    [] d = "scale_2d_to_canvas" -> canvas.w = p.a[1] /\ canvas.h = p.a[2]
    [] d = "draw_image_exact" -> p.a[1] + p.a[3] <= canvas.w /\ p.a[2] + p.a[4] <= canvas.h

Drawn(p, canvas, input) ==
  Pasted(canvas, Resampled(input, p.a[3], p.a[4]), 0, 0, p.a[3], p.a[4], p.a[1], p.a[2])

Render(d, p, canvas, input) ==
  CASE d = "copy_rect" ->
         Pasted(canvas, input, p.a[1], p.a[2], p.a[3], p.a[4], p.a[5], p.a[6])
    [] d = "transpose_mut" -> Transposed(input)
    [] d = "scale_2d_to_canvas" -> Resampled(input, canvas.w, canvas.h)
    [] d = "draw_image_exact" -> Drawn(p, canvas, input)

MutateFits(d, p, b) ==
  CASE d = "fill_rect" -> p.a[3] > p.a[1] /\ p.a[4] > p.a[2] /\ p.a[3] <= b.w /\ p.a[4] <= b.h
    [] d = "crop_mutate" -> CropFits(p, b.w, b.h)
    [] OTHER -> TRUE

Mutate(d, p, b) ==
  CASE d = "fill_rect" -> Filled(b, p.a[1], p.a[2], p.a[3], p.a[4])
    [] d = "crop_mutate" -> Cropped(b, p.a[1], p.a[2], p.a[3], p.a[4])
    [] d = "flip_v_primitive" -> FlippedV(b)
    [] d = "flip_h_primitive" -> FlippedH(b)
    [] d = "color_matrix_srgb_mutate" -> Tinted(b)
=============================================================================
