-------------------------------- MODULE Sizing --------------------------------
(***************************************************************************)
(* The sizes of a layout and the steps that change them                    *)
(* (imageflow_riapi/src/sizing.rs).  A result is the set of its possible   *)
(* values, which has at most one; none is an error.                        *)
(***************************************************************************)
EXTENDS Integers

CONSTANT MaxSize   \* i32::MAX

SizingAssumption == MaxSize \in Nat \ {0}

Min2(a, b) == IF a < b THEN a ELSE b
Max2(a, b) == IF a > b THEN a ELSE b
Abs(a) == Max2(a, -a)
Sizes == [w : 1..MaxSize, h : 1..MaxSize]
Size(w, h) == [w |-> w, h |-> h]
Create(w, h) == IF w < 1 \/ h < 1 THEN {} ELSE {Size(w, h)}

(* Of ratios, doubles compare as the fractions do.                         *)
WiderThan(a, b) == b.w * a.h > a.w * b.h   \* b is the wider one
ExceedsAny(a, b) == a.w > b.w \/ a.h > b.h

(* n/d to the next whole number, halves away from zero.                    *)
Round(n, d) == IF n >= 0 THEN (2 * n + d) \div (2 * d) ELSE -((2 * (-n) + d) \div (2 * d))

(* proportional: n/d, or one of two lengths if it is less than one away;  *)
(* the fraction of two doubles is taken to be exact.                       *)
Near(n, d, s) == Abs(n - s * d) < d
Snapped(n, d, a, b) == IF Near(n, d, a) THEN a ELSE IF Near(n, d, b) THEN b ELSE Round(n, d)
Proportional(n, d, a, b) ==
  LET v == Snapped(n, d, a, b) IN IF v < 0 \/ v >= MaxSize THEN {} ELSE {Max2(v, 1)}
HeightFor(r, w, target) == Proportional(w * r.h, r.w, r.h, target.h)
WidthFor(r, h, target) == Proportional(h * r.w, r.h, r.w, target.w)

ByWidth(r, target, kind) == UNION {Create(target.w, h) : h \in HeightFor(r, target.w, target)}   \* variant: whatever is wider
(* The largest size of r's ratio in target, or the smallest around it.     *)
BoxOf(r, target, kind) ==
  IF WiderThan(target, r) = (kind = "inner")
  THEN UNION {Create(target.w, h) : h \in HeightFor(r, target.w, target)}
  ELSE UNION {Create(w, target.h) : w \in WidthFor(r, target.h, target)}

Intersection(a, b) == Create(Min2(a.w, b.w), Min2(a.h, b.h))

(* as i32 of an i64                                                        *)
Wrap(x) == ((x + MaxSize + 1) % (2 * MaxSize + 2)) - MaxSize - 1
MultFraction(value, num, denom) == Wrap((value * num) \div denom)
DistortWith(s, old, new) == Create(MultFraction(s.w, new.w, old.w), MultFraction(s.h, new.h, old.h))

-----------------------------------------------------------------------------
LayoutOf(original, target) == [canvas |-> original, image |-> original, source |-> original, target |-> target]

DistortCanvas(l, target) ==
  {[l EXCEPT !.image = i, !.canvas = target] : i \in DistortWith(l.image, l.canvas, target)}
ScaleCanvas(l, kind) == UNION {DistortCanvas(l, c) : c \in BoxOf(l.canvas, l.target, kind)}
FillCrop(l) == {[l EXCEPT !.source = s, !.image = l.target, !.canvas = l.target] : s \in BoxOf(l.target, l.source, "inner")}
SourceIsKept(l, target) == {[l EXCEPT !.image = i, !.canvas = target] : i \in Intersection(l.image, target)}   \* variant
VirtualCanvas(l, target) ==
  UNION {{[l EXCEPT !.source = s, !.image = i, !.canvas = target] : s \in BoxOf(i, l.source, "inner")}
           : i \in Intersection(l.image, target)}
PadCanvas(l, target) == IF ExceedsAny(l.canvas, target) THEN {} ELSE {[l EXCEPT !.canvas = target]}
Crop(l, target) == IF ExceedsAny(target, l.canvas) THEN {} ELSE VirtualCanvas(l, target)

(* A box, or a box of one's ratio in or around another.                    *)
ResolveBoxParam(l, p) == IF p.kind = "exact" THEN {l[p.target]} ELSE BoxOf(l[p.ratio], l[p.target], p.kind)
Exact(which) == [kind |-> "exact", target |-> which, ratio |-> which]

Step(name) == [do |-> name, box |-> Exact("target"), cond |-> "true", one |-> "none"]
StepTo(name, box) == [Step(name) EXCEPT !.box = box]
SkipIf(c) == [Step("skip_if") EXCEPT !.cond = c]
SkipUnless(c) == [Step("skip_unless") EXCEPT !.cond = c]
Along(axis, name) == [Step(axis) EXCEPT !.one = name]

(* Partial crops are whole crops (IdentityCropProvider).                   *)
Execute2D(l, step) ==
  CASE step.do = "scale_to_inner" -> ScaleCanvas(l, "inner")
    [] step.do = "scale_to_outer" -> ScaleCanvas(l, "outer")
    [] step.do = "fill_crop" -> FillCrop(l)
    [] step.do = "distort" -> UNION {DistortCanvas(l, b) : b \in ResolveBoxParam(l, step.box)}
    [] step.do = "virtual_canvas" -> UNION {VirtualCanvas(l, b) : b \in ResolveBoxParam(l, step.box)}
    [] step.do = "pad" -> PadCanvas(l, l.target)
    [] step.do = "pad_aspect" -> UNION {PadCanvas(l, b) : b \in BoxOf(l.target, l.canvas, "outer")}
    [] step.do \in {"crop", "partial_crop"} -> Crop(l, l.target)
    [] step.do \in {"crop_aspect", "partial_crop_aspect"} -> UNION {Crop(l, b) : b \in BoxOf(l.target, l.canvas, "inner")}
    [] step.do = "crop_intersection" -> UNION {Crop(l, b) : b \in Intersection(l.image, l.target)}
    [] OTHER -> {l}

(* In one dimension: the other one of the target is the canvas's for now.  *)
Execute1D(l, horizontal, name) ==
  LET flat == IF horizontal THEN Size(l.target.w, l.canvas.h) ELSE Size(l.canvas.w, l.target.h)
      outer == ~horizontal /\ (WiderThan(l.canvas, flat) \/ WiderThan(flat, l.canvas)) IN
  {[r EXCEPT !.target = l.target] :
     r \in Execute2D([l EXCEPT !.target = flat],
                     Step(IF name # "scale_proportional" THEN name ELSE IF outer THEN "scale_to_outer" ELSE "scale_to_inner"))}

(* How the canvas compares with the target in width and height.            *)
Cmp(a, b) == IF a < b THEN "less" ELSE IF a > b THEN "greater" ELSE "equal"
CmpSize(a, b) == <<Cmp(a.w, b.w), Cmp(a.h, b.h)>>
EitherIs(v, c) == v \in {c[1], c[2]}
Matches(cond, c) ==
  CASE cond = "either_greater" -> EitherIs("greater", c)
    [] cond = "either_less" -> EitherIs("less", c)
    [] cond = "neither_greater" -> ~EitherIs("greater", c)
    [] cond = "larger_1d_smaller_1d" -> EitherIs("greater", c) /\ EitherIs("less", c)
    [] cond = "both_less" -> c = <<"less", "less">>
    [] cond = "both_greater" -> c = <<"greater", "greater">>
    [] OTHER -> TRUE

(* A step that skips what follows it up to the next sequence.              *)
BeginsSkip(l, step) ==
  \/ step.do = "skip_if" /\ Matches(step.cond, CmpSize(l.canvas, l.target))
  \/ step.do = "skip_unless" /\ ~Matches(step.cond, CmpSize(l.canvas, l.target))
=============================================================================
