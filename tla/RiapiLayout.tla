------------------------------ MODULE RiapiLayout ------------------------------
(***************************************************************************)
(* From the instructions of a command string and the size of an image to   *)
(* the nodes that carry them out (Ir4Layout of                             *)
(* imageflow_riapi/src/ir4/layout.rs): the window of the manual crop, the  *)
(* target, the steps of mode and scale, and where the crop and the image   *)
(* are placed.  An instruction that may be absent is a set of at most one. *)
(***************************************************************************)
EXTENDS LayoutRun

CONSTANT Asked   \* what is asked, [instructions, image]: of images of what sizes

VARIABLES i, source, window, nodes   \* what is asked, of what, the initial window, and the result

vars == <<layout, i, source, window, nodes>>

(* The instructions that can be parsed.                                    *)
Turns == SUBSET {0, 90, 180, 270}
Instructions ==
  [w : SUBSET Int, h : SUBSET Int, maxwidth : SUBSET Int, maxheight : SUBSET Int, zoom : SUBSET (Int \X Nat),
   mode : SUBSET {"max", "pad", "crop", "stretch"}, scale : SUBSET {"down", "up", "both", "canvas"},
   crop : SUBSET (Int \X Int \X Int \X Int), xunits : SUBSET Int, yunits : SUBSET Int,
   anchor : SUBSET ({"near", "center", "far"} \X {"near", "center", "far"}), srotate : Turns, rotate : Turns,
   sflip : SUBSET (BOOLEAN \X BOOLEAN), flip : SUBSET (BOOLEAN \X BOOLEAN), sharpen : BOOLEAN, filters : SUBSET STRING]
AskedAssumption == Asked \subseteq [instructions : Instructions, image : Sizes]

Or(option, default) == IF option = {} THEN default ELSE CHOOSE x \in option : TRUE
Node(what, w, h) == [node |-> what, w |-> w, h |-> h, x |-> 0, y |-> 0]

(* get_precrop: srotate comes first.                                       *)
Precrop(j, s) == IF ((Or(j.srotate, 0) \div 90) + 4) % 2 = 0 THEN s ELSE Size(s.h, s.w)

-----------------------------------------------------------------------------
(* The corner of the crop in pixels, as n/d: from the bottom right if it   *)
(* is negative, and for the second corner if it is 0.                      *)
Corner(v, side, units, second) ==
  LET u == Or(units, 0)
      d == IF u = 0 THEN side ELSE Abs(u)
      n == IF u < 0 THEN -(v * side) ELSE v * side IN
  [n |-> IF n < 0 \/ (second /\ n = 0) THEN n + side * d ELSE n, d |-> d]
Pixel(c, side) == Max2(0, Min2(Round(c.n, c.d), side))

(* One side of get_initial_copy_window: its ends, or none if they are the  *)
(* wrong way round before or after they are whole pixels.                  *)
Ends(v1, v2, side, units) ==
  LET a == Corner(v1, side, units, FALSE)
      b == Corner(v2, side, units, TRUE)
      p == Pixel(a, side)
      q == Pixel(b, side) IN
  IF b.n <= a.n THEN {} ELSE {<<p, q>>}

(* If one side is wrong, both are the whole image's.                       *)
InitialWindow(j, s) ==
  LET whole == <<0, 0, s.w, s.h>>
      c == Or(j.crop, whole)
      xs == Ends(c[1], c[3], s.w, j.xunits)
      ys == Ends(c[2], c[4], s.h, j.yunits) IN
  IF j.crop = {} \/ xs = {} \/ ys = {} THEN whole
  ELSE LET x == Or(xs, <<>>)
           y == Or(ys, <<>>) IN
       IF y[2] <= y[1] \/ x[2] <= x[1] THEN whole ELSE <<x[1], y[1], x[2], y[2]>>

-----------------------------------------------------------------------------
(* w and h, or the smaller of them and maxwidth and maxheight, each of     *)
(* which is bounded by what the other side leaves; below 1 is absent.      *)
LegacyWH(j, s) ==
  LET w == Or(j.w, -1)
      h == Or(j.h, -1)
      mw == Or(j.maxwidth, -1)
      mh == Or(j.maxheight, -1)
      bothw == mw > 0 /\ w > 0
      bothh == mh > 0 /\ h > 0
      w1 == IF bothw THEN Min2(mw, w) ELSE w
      h1 == IF bothh THEN Min2(mh, h) ELSE h
      mw1 == IF bothw THEN -1 ELSE mw
      mh1 == IF bothh THEN -1 ELSE mh
      mhs == IF w1 # -1 /\ mh1 # -1 THEN {Min2(mh1, x) : x \in HeightFor(s, w1, s)} ELSE {mh1}
      mws == IF h1 # -1 /\ mw1 # -1 THEN {Min2(mw1, x) : x \in WidthFor(s, h1, s)} ELSE {mw1} IN
  {<<Max2(w1, x), Max2(h1, y)>> : x \in mws, y \in mhs}

(* zoom is n/d, kept positive; what is no number is the largest zoom.      *)
Zoomed(length, zoom) ==
  LET z == Or(zoom, <<1, 1>>) IN
  {Max2(1, Min2(x, MaxSize)) : x \in IF z[2] = 0 THEN {80000} ELSE {Round(length * Max2(z[1], 0), z[2])}}

TargetOf(wh, s) ==
  IF wh[1] >= 1 /\ wh[2] >= 1 THEN {wh}
  ELSE IF wh[1] >= 1 THEN {<<wh[1], x>> : x \in HeightFor(s, wh[1], s)}
  ELSE IF wh[2] >= 1 THEN {<<x, wh[2]>> : x \in WidthFor(s, wh[2], s)}
  ELSE {<<s.w, s.h>>}
IdealTargets(j, s) ==
  UNION {UNION {Create(w, h) : w \in Zoomed(t[1], j.zoom), h \in Zoomed(t[2], j.zoom)}
           : t \in UNION {TargetOf(wh, s) : wh \in LegacyWH(j, s)}}

-----------------------------------------------------------------------------
ModeOf(j) == IF j.w = {} /\ j.h = {} THEN "max" ELSE Or(j.mode, "pad")
ScaleOf(j) == Or(j.scale, "down")

InnerOfTarget == [kind |-> "inner", target |-> "target", ratio |-> "canvas"]
Fitted(mode) ==
  CASE mode = "max" -> <<Step("scale_to_inner")>>
    [] mode = "pad" -> <<Step("scale_to_inner"), Step("pad")>>
    [] mode = "stretch" -> <<Step("distort")>>
    [] mode = "crop" -> <<Step("scale_to_outer"), Step("crop")>>

WhenNeitherGreater(mode) == <<SkipUnless("neither_greater")>> \o Fitted(mode)
(* Down: only if larger than the target on a side, or to crop on none      *)
(* smaller; the canvas grows to what is left.                              *)
WhenGreater(mode) ==
  IF mode = "crop"
  THEN <<SkipIf("either_less")>> \o Fitted("crop") \o <<Step("begin"), SkipUnless("larger_1d_smaller_1d")>>
  ELSE <<SkipUnless("either_greater")>> \o (IF mode = "pad" THEN Fitted("max") ELSE Fitted(mode))
OnCanvas(mode) ==
  WhenGreater(mode) \o
    (CASE mode = "crop" -> <<Step("virtual_canvas")>>
       [] mode = "max" -> <<Step("begin"), StepTo("virtual_canvas", InnerOfTarget)>>
       [] OTHER -> <<Step("begin"), Step("pad")>>)

BuildConstraints(j) ==
  LET mode == ModeOf(j) IN
  CASE ScaleOf(j) = "both" -> Fitted(mode)
    [] ScaleOf(j) = "up" -> WhenNeitherGreater(mode)
    [] ScaleOf(j) = "canvas" -> OnCanvas(mode)
    [] ScaleOf(j) = "down" ->
         WhenGreater(mode) \o
           (CASE mode = "crop" -> <<Step("crop_intersection")>>
              [] mode = "pad" -> <<Step("pad")>>
              [] OTHER -> <<>>)

-----------------------------------------------------------------------------
Init ==
  /\ \E a \in Asked : i = a.instructions /\ source = a.image
  /\ window = InitialWindow(i, Precrop(i, source))
  /\ \E t \in IdealTargets(i, Size(window[3] - window[1], window[4] - window[2])) :
       Start(Size(window[3] - window[1], window[4] - window[2]), t, BuildConstraints(i))
  /\ nodes = <<>>

RoundedUp(a, inner, outer) == IF a = "near" THEN 0 ELSE (outer - inner) \div 2 + 1   \* variant: off by one
Align1d(a, inner, outer) ==
  CASE a = "near" -> 0
    [] a = "center" -> IF inner <= outer THEN (outer - inner) \div 2 ELSE -((inner - outer) \div 2)
    [] a = "far" -> outer - inner
AlignX(inner, outer) == Align1d(Or(i.anchor, <<"center", "center">>)[1], inner.w, outer.w)
AlignY(inner, outer) == Align1d(Or(i.anchor, <<"center", "center">>)[2], inner.h, outer.h)

Rotate(degrees) == IF Or(degrees, 0) = 0 THEN <<>> ELSE <<Node("rotate" , Or(degrees, 0), 0)>>
Flip(f) == (IF Or(f, <<FALSE, FALSE>>)[1] THEN <<Node("flip_h", 0, 0)>> ELSE <<>>) \o
           (IF Or(f, <<FALSE, FALSE>>)[2] THEN <<Node("flip_v", 0, 0)>> ELSE <<>>)

(* What is left of the window; nothing if that is the whole image.         *)
CropNode ==
  LET x == window[1] + AlignX(lay.source, original)
      y == window[2] + AlignY(lay.source, original)
      whole == lay.source = Precrop(i, source) IN
  IF x > 0 \/ y > 0 \/ ~whole
  THEN <<[Node("crop", lay.source.w, lay.source.h) EXCEPT !.x = x, !.y = y]>> ELSE <<>>
ScaleNode == IF lay.image # lay.source \/ i.sharpen THEN <<Node("resample_2d", lay.image.w, lay.image.h)>> ELSE <<>>
Filter(f) == IF f \in i.filters THEN <<Node(f, 0, 0)>> ELSE <<>>
FilterNodes ==
  Filter("white_balance") \o Filter("contrast") \o Filter("alpha") \o Filter("brightness")
    \o Filter("saturation") \o Filter("sepia") \o Filter("grayscale")

(* The padding, left, top, right and bottom.                               *)
Padding ==
  LET left == AlignX(lay.image, lay.canvas)
      top == AlignY(lay.image, lay.canvas) IN
  <<left, top, lay.canvas.w - lay.image.w - left, lay.canvas.h - lay.image.h - top>>
PadNode ==
  IF \E n \in 1..4 : Padding[n] > 0
  THEN <<[Node("expand_canvas", Padding[3], Padding[4]) EXCEPT !.x = Padding[1], !.y = Padding[2]]>> ELSE <<>>

(* add_steps; padding that is negative on a side is a panic.               *)
AddSteps ==
  /\ Done
  /\ verdict' = IF PadNode # <<>> /\ \E n \in 1..4 : Padding[n] < 0 THEN "panic" ELSE "done"
  /\ nodes' = Rotate(i.srotate) \o Flip(i.sflip) \o CropNode \o ScaleNode \o FilterNodes \o PadNode
                \o Rotate(i.rotate) \o Flip(i.flip)
  /\ UNCHANGED <<original, plan, lay, rest, skipping, i, source, window>>

Next == (Advance /\ UNCHANGED <<i, source, window, nodes>>) \/ AddSteps
Spec == Init /\ [][Next]_vars

-----------------------------------------------------------------------------
TypeOKLayout ==
  /\ lay \in [canvas : Sizes, image : Sizes, source : Sizes, target : Sizes]
  /\ verdict \in {"running", "failed", "done", "panic"}
  /\ 0 <= window[1] /\ window[1] < window[3] /\ window[3] <= Precrop(i, source).w
  /\ 0 <= window[2] /\ window[2] < window[4] /\ window[4] <= Precrop(i, source).h
  /\ nodes # <<>> => verdict \in {"done", "panic"}

(* The size an image has after a node; none if the node does not fit it.   *)
Turned(degrees, s) == IF degrees \in {90, 270} THEN Size(s.h, s.w) ELSE s
After(n, s) ==
  CASE n.node = "rotate" -> Turned(n.w, s)
    [] n.node = "crop" -> IF n.x >= 0 /\ n.y >= 0 /\ n.x + n.w <= s.w /\ n.y + n.h <= s.h THEN Size(n.w, n.h) ELSE Size(0, 0)
    [] n.node = "resample_2d" -> Size(n.w, n.h)
    [] n.node = "expand_canvas" -> Size(n.x + s.w + n.w, n.y + s.h + n.h)
    [] OTHER -> s
SizeAfter[n \in 0..Len(nodes)] ==
  IF n = 0 THEN source ELSE IF SizeAfter[n - 1] = Size(0, 0) THEN Size(0, 0) ELSE After(nodes[n], SizeAfter[n - 1])

(* The nodes can be carried out one after the other on the image, no       *)
(* padding is negative, and what comes out has the size of the canvas that *)
(* is announced, turned last (layout.rs:259-351).                          *)
NodesFit ==
  /\ verdict # "panic"
  /\ verdict = "done" => SizeAfter[Len(nodes)] = Turned(Or(i.rotate, 0), lay.canvas)

Grows == ScaleOf(i) = "up"
Finished == verdict = "done"
(* "never_larger_than_target" (sizing_tests.rs:132), for every mode: but   *)
(* for scale=up, which leaves larger images as they are.                   *)
NeverLargerThanTarget == Finished /\ ~Grows => ~ExceedsAny(lay.canvas, lay.target)

(* "Width and height are considered exact values" (parsing.rs:679-684),    *)
(* with scale=both; maximums are met on one side.                          *)
ExactSizes ==
  Finished /\ ScaleOf(i) = "both" =>
    IF ModeOf(i) = "max"
    THEN lay.canvas.w = lay.target.w \/ lay.canvas.h = lay.target.h
    ELSE lay.canvas = lay.target

(* Without stretching the image looks like the part of the source it       *)
(* shows, whatever was cropped and padded.                                 *)
StretchedOnlyWhenAsked ==
  Finished /\ ModeOf(i) # "stretch" => Narrower(lay.image, lay.source) /\ Narrower(lay.source, lay.image)

(* Larger images are never enlarged and smaller ones never shrunk against  *)
(* what scale says (parsing.rs:740-751), in modes that keep all of the     *)
(* image.                                                                  *)
ScaleIsRespected ==
  Finished /\ ModeOf(i) \in {"max", "pad"} =>
    /\ ScaleOf(i) \in {"down", "canvas"} => ~ExceedsAny(lay.image, lay.source)
    /\ ScaleOf(i) = "up" => ~ExceedsAny(lay.source, lay.image)

(* No sizes but those out of range make a layout fail: the steps never ask *)
(* for an impossible crop or pad (sizing.rs:264-277).                      *)
InRange == lay.target.w * original.h < MaxSize /\ lay.target.h * original.w < MaxSize
LayoutsSucceed == InRange => verdict # "failed"

=============================================================================
