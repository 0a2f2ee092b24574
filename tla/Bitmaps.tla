------------------------------- MODULE Bitmaps -------------------------------
(***************************************************************************)
(* Bitmaps and the operations that imageflow's executing nodes perform on  *)
(* them.  A bitmap is a rectangle of pixels; a pixel is not a colour but   *)
(* the set of samples blended into it.  A sample says where it came from   *)
(* (decoder, frame, source coordinates) and how many times a colour        *)
(* transform was applied to it (tint).  That is what the properties of the *)
(* engine must tell apart: two images are equal iff the same source pixels *)
(* ended up in the same places with the same colour steps.  Strides, pixel *)
(* formats, filter weights and compositing modes are left out.             *)
(***************************************************************************)
EXTENDS Integers

Sample == [io: Nat, frame: Nat, x: Nat, y: Nat, tint: Nat]

\* A sample no decoder produced: of a cleared canvas, of a filled rectangle.
BlankSample == [io |-> 0, frame |-> 0, x |-> 0, y |-> 0, tint |-> 0]
FilledSample == [BlankSample EXCEPT !.tint = 1]

Area(w, h) == (0 .. w - 1) \X (0 .. h - 1)

\* The w x h bitmap whose pixel at column x, row y is At(x, y).
Make(w, h, At(_, _)) ==
  [w |-> w, h |-> h, px |-> [c \in Area(w, h) |-> At(c[1], c[2])]]

NoBitmap == [w |-> 0, h |-> 0, px |-> [c \in {} |-> {}]]

Canvas(w, h) == Make(w, h, LAMBDA x, y : {BlankSample})

\* What a decoder yields for its k-th frame, before any scaling.
Source(io, k, w, h) ==
  Make(w, h, LAMBDA x, y : {[io |-> io, frame |-> k, x |-> x, y |-> y, tint |-> 0]})

Transposed(b) == Make(b.h, b.w, LAMBDA x, y : b.px[<<y, x>>])
FlippedV(b)   == Make(b.w, b.h, LAMBDA x, y : b.px[<<x, b.h - 1 - y>>])
FlippedH(b)   == Make(b.w, b.h, LAMBDA x, y : b.px[<<b.w - 1 - x, y>>])

Cropped(b, x1, y1, x2, y2) ==
  Make(x2 - x1, y2 - y1, LAMBDA x, y : b.px[<<x + x1, y + y1>>])

\* Resampling blends the source pixels that a target pixel covers, wholly or
\* in part; Covered(x, from, to) are their columns (or rows).
Covered(x, from, to) == (x * from) \div to .. ((x + 1) * from + to - 1) \div to - 1

Resampled(b, w, h) ==
  Make(w, h, LAMBDA x, y :
         UNION {b.px[c] : c \in Covered(x, b.w, w) \X Covered(y, b.h, h)})

Tinted(b) ==
  Make(b.w, b.h, LAMBDA x, y : {[s EXCEPT !.tint = @ + 1] : s \in b.px[<<x, y>>]})

\* b with the w x h rectangle of src that starts at (fx, fy) written at (x0, y0).
Pasted(b, src, fx, fy, w, h, x0, y0) ==
  Make(b.w, b.h, LAMBDA x, y :
         IF x \in x0 .. x0 + w - 1 /\ y \in y0 .. y0 + h - 1
         THEN src.px[<<fx + x - x0, fy + y - y0>>]
         ELSE b.px[<<x, y>>])

Filled(b, x1, y1, x2, y2) ==
  Make(b.w, b.h, LAMBDA x, y :
         IF x \in x1 .. x2 - 1 /\ y \in y1 .. y2 - 1 THEN {FilledSample} ELSE b.px[<<x, y>>])
=============================================================================
