------------------------------ MODULE RiapiProofs ------------------------------
(***************************************************************************)
(* That the nodes of a layout fit each other and the image, whatever is    *)
(* asked and of what image, that no list of steps takes the source out of  *)
(* the original or the image out of the canvas, that colors are what       *)
(* their digits say, that the steps of every mode and scale succeed and    *)
(* come to what was asked, and that a query means what it says.            *)
(***************************************************************************)
EXTENDS MCRiapi, Induction, SequenceTheorems

-----------------------------------------------------------------------------

\* A product orders its factors.
LEMMA ProductsOrder ==
  ASSUME NEW a \in Int, NEW b \in Int, NEW d \in Nat \ {0}
  PROVE  /\ a <= b => a * d <= b * d
         /\ a * d < b * d => a < b
         /\ a * d <= b * d => a <= b
<1>1. a <= b => a * d <= b * d
  OBVIOUS
<1>2. a >= b => a * d >= b * d
  OBVIOUS
<1>3. a > b => a * d > b * d
  <2>1. a > b => a >= b + 1
    OBVIOUS
  <2>2. a >= b + 1 => a * d >= (b + 1) * d
    OBVIOUS
  <2>3. (b + 1) * d = b * d + d
    OBVIOUS
  <2> QED BY <2>1, <2>2, <2>3
<1> QED BY <1>1, <1>2, <1>3

\* A quotient, less its remainder.
LEMMA Quotient ==
  ASSUME NEW n \in Nat, NEW d \in Nat \ {0}
  PROVE  n \div d \in Nat /\ d * (n \div d) <= n
  OBVIOUS

\* Rounding to a whole number: one that is less by one or more stays so.
LEMMA RoundIsWhole ==
  ASSUME NEW n \in Int, NEW d \in Nat \ {0}
  PROVE  Layout!Round(n, d) \in Int /\ (n >= 0 => Layout!Round(n, d) \in Nat)
<1>1. 2 * d \in Nat \ {0}
  OBVIOUS
<1>2. CASE n >= 0
  <2>1. 2 * n + d \in Nat
    BY <1>2
  <2> QED BY <1>1, <1>2, <2>1, Quotient DEF Layout!Round
<1>3. CASE n < 0
  <2>1. 2 * (-n) + d \in Nat
    BY <1>3
  <2> QED BY <1>1, <1>3, <2>1, Quotient DEF Layout!Round
<1> QED BY <1>2, <1>3

\* A quotient that ends half a unit below a bound is rounded to less than the bound.
LEMMA RoundIsBelow ==
  ASSUME NEW n \in Nat, NEW d \in Nat \ {0}, NEW b \in Int, n + d <= b * d
  PROVE  Layout!Round(n, d) < b
<1> DEFINE r == (2 * n + d) \div (2 * d)
<1>1. 2 * d \in Nat \ {0} /\ 2 * n + d \in Nat
  OBVIOUS
<1>2. r \in Nat /\ (2 * d) * r <= 2 * n + d
  BY <1>1, Quotient
<1>3. Layout!Round(n, d) = r
  BY DEF Layout!Round
<1> HIDE DEF r
<1>4. 2 * (r * d) <= 2 * n + d
  BY <1>2
<1>5. 2 * n + d < 2 * (b * d)
  OBVIOUS
<1>6. r * d < b * d
  <2>1. r * d \in Int /\ b * d \in Int
    BY <1>2
  <2> QED BY <1>4, <1>5, <2>1
<1> QED BY <1>2, <1>3, <1>6, ProductsOrder

\* What is snapped to is near, so that a quotient that is no more than b becomes
\* no more than b.
LEMMA SnappedFits ==
  ASSUME NEW n \in Nat, NEW d \in Nat \ {0}, NEW a \in Nat, NEW b \in Nat, n <= b * d
  PROVE  Layout!Snapped(n, d, a, b) \in 0 .. b
<1> DEFINE p == a * d
           q == b * d
<1>1. p \in Nat /\ q \in Nat
  OBVIOUS
<1>2. CASE Layout!Near(n, d, a)
  <2>1. p - n < d
    <3> HIDE DEF p
    <3>1. Layout!Near(n, d, a) <=> Layout!Abs(n - p) < d
      BY DEF Layout!Near, p
    <3> QED BY <1>1, <1>2, <3>1 DEF Layout!Abs, Layout!Max2
  <2>2. p < q + d
    <3> HIDE DEF p, q
    <3> QED BY <1>1, <2>1 DEF q
  <2>3. q + d = (b + 1) * d
    OBVIOUS
  <2>4. a < b + 1
    BY <2>2, <2>3, ProductsOrder
  <2> QED BY <1>2, <2>4 DEF Layout!Snapped
<1>3. CASE ~Layout!Near(n, d, a) /\ Layout!Near(n, d, b)
  BY <1>3 DEF Layout!Snapped
<1>4. CASE ~Layout!Near(n, d, a) /\ ~Layout!Near(n, d, b)
  <2>1. n <= q
    OBVIOUS
  <2>2. n + d <= q
    <3> HIDE DEF q
    <3>1. Layout!Near(n, d, b) <=> Layout!Abs(n - q) < d
      BY DEF Layout!Near, q
    <3> QED BY <1>1, <1>4, <2>1, <3>1 DEF Layout!Abs, Layout!Max2
  <2>3. Layout!Round(n, d) < b
    BY <2>2, RoundIsBelow
  <2>4. Layout!Round(n, d) \in Nat
    BY RoundIsWhole
  <2> QED BY <1>4, <2>3, <2>4 DEF Layout!Snapped
<1> QED BY <1>2, <1>3, <1>4

-----------------------------------------------------------------------------

\* A length in proportion is a length.
LEMMA ProportionalIsLength ==
  ASSUME Layout!SizingAssumption, NEW n \in Int, NEW d \in Nat \ {0}, NEW a \in Int, NEW b \in Int,
         NEW x \in Layout!Proportional(n, d, a, b)
  PROVE  x \in 1 .. MaxSize
<1> DEFINE v == Layout!Snapped(n, d, a, b)
<1>1. v \in Int
  BY RoundIsWhole DEF Layout!Snapped
<1>2. x \in IF v < 0 \/ v >= MaxSize THEN {} ELSE {Layout!Max2(v, 1)}
  BY DEF Layout!Proportional
<1> HIDE DEF v
<1> QED BY <1>1, <1>2 DEF Layout!Max2, Layout!SizingAssumption

\* It is no more than b if the quotient is not.
LEMMA ProportionalFits ==
  ASSUME NEW n \in Nat, NEW d \in Nat \ {0}, NEW a \in Nat, NEW b \in Nat \ {0}, n <= b * d,
         NEW x \in Layout!Proportional(n, d, a, b)
  PROVE  x \in 1 .. b
<1> DEFINE v == Layout!Snapped(n, d, a, b)
<1>1. v \in 0 .. b
  BY SnappedFits
<1>2. x \in IF v < 0 \/ v >= MaxSize THEN {} ELSE {Layout!Max2(v, 1)}
  BY DEF Layout!Proportional
<1> HIDE DEF v
<1> QED BY <1>1, <1>2 DEF Layout!Max2

\* The sides of a size.
LEMMA SidesOf ==
  ASSUME Layout!SizingAssumption, NEW s \in Layout!Sizes
  PROVE  s.w \in 1 .. MaxSize /\ s.h \in 1 .. MaxSize /\ s.w \in Nat \ {0} /\ s.h \in Nat \ {0}
         /\ s = Layout!Size(s.w, s.h)
  BY DEF Layout!Sizes, Layout!Size, Layout!SizingAssumption

\* Sizes in range are made as they are asked.
LEMMA SizeOf ==
  ASSUME NEW w \in 1 .. MaxSize, NEW h \in 1 .. MaxSize
  PROVE  /\ Layout!Size(w, h) \in Layout!Sizes /\ Layout!Size(w, h).w = w /\ Layout!Size(w, h).h = h
         /\ \A b \in Layout!Create(w, h) : b = Layout!Size(w, h)
  BY DEF Layout!Size, Layout!Sizes, Layout!Create

\* The height that goes with a width is in range.
LEMMA HeightsAre ==
  ASSUME Layout!SizingAssumption, NEW r \in Layout!Sizes, NEW w \in Int, NEW t \in Layout!Sizes,
         NEW x \in Layout!HeightFor(r, w, t)
  PROVE  x \in 1 .. MaxSize
<1>1. r.w \in Nat \ {0} /\ r.h \in Nat \ {0} /\ t.h \in Nat \ {0}
  BY SidesOf
<1>2. w * r.h \in Int
  BY <1>1
<1>3. x \in Layout!Proportional(w * r.h, r.w, r.h, t.h)
  BY DEF Layout!HeightFor
<1> QED BY <1>1, <1>2, <1>3, ProportionalIsLength

\* The width that goes with a height is in range.
LEMMA WidthsAre ==
  ASSUME Layout!SizingAssumption, NEW r \in Layout!Sizes, NEW h \in Int, NEW t \in Layout!Sizes,
         NEW x \in Layout!WidthFor(r, h, t)
  PROVE  x \in 1 .. MaxSize
<1>1. r.w \in Nat \ {0} /\ r.h \in Nat \ {0} /\ t.w \in Nat \ {0}
  BY SidesOf
<1>2. h * r.w \in Int
  BY <1>1
<1>3. x \in Layout!Proportional(h * r.w, r.h, r.w, t.w)
  BY DEF Layout!WidthFor
<1> QED BY <1>1, <1>2, <1>3, ProportionalIsLength

-----------------------------------------------------------------------------
Fits(a, b) == a.w <= b.w /\ a.h <= b.h

\* A box is a size.
LEMMA BoxesAre ==
  ASSUME Layout!SizingAssumption, NEW r \in Layout!Sizes, NEW t \in Layout!Sizes, NEW kind,
         NEW b \in Layout!BoxOf(r, t, kind)
  PROVE  b \in Layout!Sizes
<1>1. t.w \in 1 .. MaxSize /\ t.h \in 1 .. MaxSize /\ t.w \in Int /\ t.h \in Int
  BY SidesOf
<1>2. \/ \E h \in Layout!HeightFor(r, t.w, t) : b \in Layout!Create(t.w, h)
      \/ \E w \in Layout!WidthFor(r, t.h, t) : b \in Layout!Create(w, t.h)
  BY DEF Layout!BoxOf
<1>3. CASE \E h \in Layout!HeightFor(r, t.w, t) : b \in Layout!Create(t.w, h)
  <2>1. PICK h \in Layout!HeightFor(r, t.w, t) : b \in Layout!Create(t.w, h)
    BY <1>3
  <2>2. h \in 1 .. MaxSize
    BY <1>1, HeightsAre
  <2> QED BY <1>1, <2>1, <2>2, SizeOf
<1>4. CASE \E w \in Layout!WidthFor(r, t.h, t) : b \in Layout!Create(w, t.h)
  <2>1. PICK w \in Layout!WidthFor(r, t.h, t) : b \in Layout!Create(w, t.h)
    BY <1>4
  <2>2. w \in 1 .. MaxSize
    BY <1>1, WidthsAre
  <2> QED BY <1>1, <2>1, <2>2, SizeOf
<1> QED BY <1>2, <1>3, <1>4

\* An inner box is within what it is to be in, although its sides are rounded.
LEMMA InnerBoxFits ==
  ASSUME Layout!SizingAssumption, NEW r \in Layout!Sizes, NEW t \in Layout!Sizes,
         NEW b \in Layout!BoxOf(r, t, "inner")
  PROVE  b \in Layout!Sizes /\ Fits(b, t)
<1>1. /\ t.w \in 1 .. MaxSize /\ t.h \in 1 .. MaxSize /\ t.w \in Nat \ {0} /\ t.h \in Nat \ {0}
      /\ r.w \in Nat \ {0} /\ r.h \in Nat \ {0} /\ MaxSize \in Nat
  BY SidesOf DEF Layout!SizingAssumption
<1>2. b \in Layout!Sizes
  BY BoxesAre
<1>3. CASE Layout!WiderThan(t, r)
  <2>1. PICK h \in Layout!HeightFor(r, t.w, t) : b \in Layout!Create(t.w, h)
    BY <1>3 DEF Layout!BoxOf
  <2>2. t.w * r.h \in Nat /\ t.w * r.h <= t.h * r.w
    <3>1. r.w * t.h > t.w * r.h
      BY <1>3 DEF Layout!WiderThan
    <3>2. r.w * t.h = t.h * r.w
      BY <1>1
    <3> QED BY <1>1, <3>1, <3>2
  <2>3. h \in Layout!Proportional(t.w * r.h, r.w, r.h, t.h)
    BY <2>1 DEF Layout!HeightFor
  <2>4. h \in 1 .. t.h
    BY <1>1, <2>2, <2>3, ProportionalFits
  <2>5. t.w \in 1 .. MaxSize /\ h \in 1 .. MaxSize
    BY <1>1, <2>4
  <2>6. b.w = t.w /\ b.h = h
    BY <2>1, <2>5, SizeOf
  <2> QED BY <1>1, <1>2, <2>4, <2>6 DEF Fits
<1>4. CASE ~Layout!WiderThan(t, r)
  <2>1. PICK w \in Layout!WidthFor(r, t.h, t) : b \in Layout!Create(w, t.h)
    BY <1>4 DEF Layout!BoxOf
  <2>2. t.h * r.w \in Nat /\ t.h * r.w <= t.w * r.h
    <3>1. ~(r.w * t.h > t.w * r.h)
      BY <1>4 DEF Layout!WiderThan
    <3>2. r.w * t.h = t.h * r.w
      BY <1>1
    <3> QED BY <1>1, <3>1, <3>2
  <2>3. w \in Layout!Proportional(t.h * r.w, r.h, r.w, t.w)
    BY <2>1 DEF Layout!WidthFor
  <2>4. w \in 1 .. t.w
    BY <1>1, <2>2, <2>3, ProportionalFits
  <2>5. t.h \in 1 .. MaxSize /\ w \in 1 .. MaxSize
    BY <1>1, <2>4
  <2>6. b.w = w /\ b.h = t.h
    BY <2>1, <2>5, SizeOf
  <2> QED BY <1>1, <1>2, <2>4, <2>6 DEF Fits
<1> QED BY <1>3, <1>4

\* What two sizes share is within both.
LEMMA IntersectionFits ==
  ASSUME NEW a \in Layout!Sizes, NEW b \in Layout!Sizes, NEW s \in Layout!Intersection(a, b), Layout!SizingAssumption
  PROVE  s \in Layout!Sizes /\ Fits(s, a) /\ Fits(s, b)
<1>1. a.w \in 1 .. MaxSize /\ a.h \in 1 .. MaxSize /\ b.w \in 1 .. MaxSize /\ b.h \in 1 .. MaxSize
  BY SidesOf
<1>2. Layout!Min2(a.w, b.w) \in 1 .. MaxSize /\ Layout!Min2(a.h, b.h) \in 1 .. MaxSize
  BY <1>1 DEF Layout!Min2
<1>3. s = Layout!Size(Layout!Min2(a.w, b.w), Layout!Min2(a.h, b.h))
  BY <1>2, SizeOf DEF Layout!Intersection
<1> QED BY <1>1, <1>2, <1>3, SizeOf DEF Fits, Layout!Min2

\* A fraction of a length is no more than the length, and nothing overflows.
LEMMA FractionFits ==
  ASSUME Layout!SizingAssumption, NEW v \in Nat, NEW num \in 1 .. MaxSize, NEW den \in Nat \ {0}, v <= den
  PROVE  Layout!MultFraction(v, num, den) \in 0 .. num
<1> DEFINE p == v * num
           q == p \div den
<1>1. num \in Nat \ {0} /\ MaxSize \in Nat /\ num <= MaxSize
  BY DEF Layout!SizingAssumption
<1>2. p \in Nat
  BY <1>1
<1>3. q \in Nat /\ den * q <= p
  <2> HIDE DEF p
  <2> QED BY <1>2, Quotient
<1>4. v * num <= den * num
  BY <1>1, ProductsOrder
<1>5. q <= num
  <2>1. p <= den * num
    BY <1>4
  <2> HIDE DEF p, q
  <2>2. q * den <= num * den
    BY <1>1, <1>2, <1>3, <2>1
  <2> QED BY <1>1, <1>3, <2>2, ProductsOrder
<1>6. Layout!MultFraction(v, num, den) = Layout!Wrap(q)
  BY DEF Layout!MultFraction
<1> HIDE DEF q
<1>7. (q + MaxSize + 1) % (2 * MaxSize + 2) = q + MaxSize + 1
  BY <1>1, <1>3, <1>5
<1>8. Layout!Wrap(q) = q
  BY <1>1, <1>3, <1>7 DEF Layout!Wrap
<1> QED BY <1>1, <1>3, <1>5, <1>6, <1>8

\* What is distorted as its canvas is stays within it.
LEMMA DistortedFits ==
  ASSUME Layout!SizingAssumption, NEW s \in Layout!Sizes, NEW old \in Layout!Sizes, NEW new \in Layout!Sizes,
         Fits(s, old), NEW x \in Layout!DistortWith(s, old, new)
  PROVE  x \in Layout!Sizes /\ Fits(x, new)
<1> DEFINE w == Layout!MultFraction(s.w, new.w, old.w)
           h == Layout!MultFraction(s.h, new.h, old.h)
<1>1. /\ s.w \in Nat /\ s.h \in Nat /\ old.w \in Nat \ {0} /\ old.h \in Nat \ {0} /\ s.w <= old.w /\ s.h <= old.h
      /\ new.w \in 1 .. MaxSize /\ new.h \in 1 .. MaxSize /\ MaxSize \in Nat
  BY SidesOf DEF Fits, Layout!SizingAssumption
<1>2. w \in 0 .. new.w /\ h \in 0 .. new.h
  BY <1>1, FractionFits
<1>3. x \in Layout!Create(w, h)
  BY DEF Layout!DistortWith
<1> HIDE DEF w, h
<1>4. w \in 1 .. MaxSize /\ h \in 1 .. MaxSize
  BY <1>1, <1>2, <1>3 DEF Layout!Create
<1>5. x = Layout!Size(w, h)
  BY <1>3, <1>4, SizeOf
<1> QED BY <1>2, <1>4, <1>5, <1>1, SizeOf DEF Fits

-----------------------------------------------------------------------------
Layouts == [canvas : Layout!Sizes, image : Layout!Sizes, source : Layout!Sizes, target : Layout!Sizes]

\* What a step keeps: the image within the canvas, and the source within what it was.
Sound(l) == l \in Layouts /\ Fits(l.image, l.canvas)
Kept(l, r) == Sound(r) /\ Fits(r.source, l.source)

\* What fits what fits a third, fits that.
LEMMA FitsFits ==
  ASSUME Layout!SizingAssumption, NEW a \in Layout!Sizes, NEW b \in Layout!Sizes, NEW c \in Layout!Sizes
  PROVE  /\ Fits(a, a)
         /\ Fits(a, b) /\ Fits(b, c) => Fits(a, c)
         /\ ~Layout!ExceedsAny(a, b) <=> Fits(a, b)
  BY SidesOf DEF Fits, Layout!ExceedsAny, Layout!SizingAssumption

\* Distorting the canvas distorts the image with it.
LEMMA DistortKeeps ==
  ASSUME Layout!SizingAssumption, NEW l, Sound(l), NEW t \in Layout!Sizes, NEW r \in Layout!DistortCanvas(l, t)
  PROVE  Kept(l, r)
<1>1. /\ l.canvas \in Layout!Sizes /\ l.image \in Layout!Sizes /\ l.source \in Layout!Sizes
      /\ l.target \in Layout!Sizes /\ Fits(l.image, l.canvas)
  BY DEF Sound, Layouts
<1>2. PICK x \in Layout!DistortWith(l.image, l.canvas, t) : r = [l EXCEPT !.image = x, !.canvas = t]
  BY DEF Layout!DistortCanvas
<1>3. x \in Layout!Sizes /\ Fits(x, t)
  BY <1>1, DistortedFits
<1>4. r \in Layouts /\ r.image = x /\ r.canvas = t /\ r.source = l.source
  BY <1>1, <1>2, <1>3 DEF Sound, Layouts
<1> QED BY <1>1, <1>3, <1>4, FitsFits DEF Kept, Sound

\* Cropping the canvas crops the image to it and the source with the image.
LEMMA VirtualKeeps ==
  ASSUME Layout!SizingAssumption, NEW l, Sound(l), NEW t \in Layout!Sizes, NEW r \in Layout!VirtualCanvas(l, t)
  PROVE  Kept(l, r)
<1>1. /\ l.canvas \in Layout!Sizes /\ l.image \in Layout!Sizes /\ l.source \in Layout!Sizes
      /\ l.target \in Layout!Sizes /\ Fits(l.image, l.canvas)
  BY DEF Sound, Layouts
<1>2. PICK x \in Layout!Intersection(l.image, t) :
        r \in {[l EXCEPT !.source = s, !.image = x, !.canvas = t] : s \in Layout!BoxOf(x, l.source, "inner")}
  BY DEF Layout!VirtualCanvas
<1>3. PICK s \in Layout!BoxOf(x, l.source, "inner") : r = [l EXCEPT !.source = s, !.image = x, !.canvas = t]
  BY <1>2
<1>4. x \in Layout!Sizes /\ Fits(x, t)
  BY <1>1, IntersectionFits
<1>5. s \in Layout!Sizes /\ Fits(s, l.source)
  BY <1>1, <1>4, InnerBoxFits
<1>6. r \in Layouts /\ r.image = x /\ r.canvas = t /\ r.source = s
  BY <1>1, <1>3, <1>4, <1>5 DEF Sound, Layouts
<1> QED BY <1>4, <1>5, <1>6 DEF Kept, Sound

\* Filling the target takes from the source what has its shape.
LEMMA FillKeeps ==
  ASSUME Layout!SizingAssumption, NEW l, Sound(l), NEW r \in Layout!FillCrop(l)
  PROVE  Kept(l, r)
<1>1. l.source \in Layout!Sizes /\ l.target \in Layout!Sizes
  BY DEF Sound, Layouts
<1>2. PICK s \in Layout!BoxOf(l.target, l.source, "inner") :
        r = [l EXCEPT !.source = s, !.image = l.target, !.canvas = l.target]
  BY DEF Layout!FillCrop
<1>3. s \in Layout!Sizes /\ Fits(s, l.source)
  BY <1>1, InnerBoxFits
<1>4. r \in Layouts /\ r.image = l.target /\ r.canvas = l.target /\ r.source = s
  BY <1>1, <1>2, <1>3 DEF Sound, Layouts
<1> QED BY <1>1, <1>3, <1>4, FitsFits DEF Kept, Sound

\* Padding is refused if the canvas would shrink.
LEMMA PadKeeps ==
  ASSUME Layout!SizingAssumption, NEW l, Sound(l), NEW t \in Layout!Sizes, NEW r \in Layout!PadCanvas(l, t)
  PROVE  Kept(l, r)
<1>1. /\ l.canvas \in Layout!Sizes /\ l.image \in Layout!Sizes /\ l.source \in Layout!Sizes
      /\ l.target \in Layout!Sizes /\ Fits(l.image, l.canvas)
  BY DEF Sound, Layouts
<1>2. ~Layout!ExceedsAny(l.canvas, t) /\ r = [l EXCEPT !.canvas = t]
  BY DEF Layout!PadCanvas
<1>3. r \in Layouts /\ r.image = l.image /\ r.canvas = t /\ r.source = l.source
  BY <1>1, <1>2 DEF Sound, Layouts
<1>4. Fits(l.canvas, t)
  BY <1>1, <1>2, FitsFits
<1>5. Fits(l.image, t) /\ Fits(l.source, l.source)
  BY <1>1, <1>4, FitsFits
<1> QED BY <1>3, <1>5 DEF Kept, Sound

\* The boxes a step can ask for.
Boxes == [kind : {"exact", "inner", "outer"}, target : {"canvas", "image", "source", "target"},
          ratio : {"canvas", "image", "source", "target"}]
Words ==
  {"scale_to_inner", "scale_to_outer", "fill_crop", "distort", "virtual_canvas", "pad", "pad_aspect", "crop", "partial_crop",
   "crop_aspect", "partial_crop_aspect", "crop_intersection", "begin", "skip_if", "skip_unless", "x", "y", "scale_proportional",
   "none", "true", "either_greater", "either_less", "neither_greater", "larger_1d_smaller_1d", "both_less", "both_greater"}
Steps == [do : Words, box : Boxes, cond : Words, one : Words]

\* What a box of a step stands for is a size in range.
LEMMA ResolvedAre ==
  ASSUME Layout!SizingAssumption, NEW l \in Layouts, NEW p \in Boxes, NEW b \in Layout!ResolveBoxParam(l, p)
  PROVE  b \in Layout!Sizes
<1>1. \A which \in {"canvas", "image", "source", "target"} : l[which] \in Layout!Sizes
  BY DEF Layouts
<1>2. l[p.target] \in Layout!Sizes /\ l[p.ratio] \in Layout!Sizes
  BY <1>1 DEF Boxes
<1>3. b = l[p.target] \/ b \in Layout!BoxOf(l[p.ratio], l[p.target], p.kind)
  BY DEF Layout!ResolveBoxParam
<1> QED BY <1>2, <1>3, BoxesAre

\* Whatever a step in two dimensions does.
LEMMA Steps2DKeep ==
  ASSUME Layout!SizingAssumption, NEW l, Sound(l), NEW step, step.box \in Boxes, NEW r \in Layout!Execute2D(l, step)
  PROVE  Kept(l, r)
<1>1. /\ l \in Layouts /\ l.canvas \in Layout!Sizes /\ l.image \in Layout!Sizes /\ l.source \in Layout!Sizes
      /\ l.target \in Layout!Sizes
  BY DEF Sound, Layouts
<1>2. ASSUME NEW kind, NEW x \in Layout!ScaleCanvas(l, kind)
      PROVE  Kept(l, x)
  <2>1. PICK c \in Layout!BoxOf(l.canvas, l.target, kind) : x \in Layout!DistortCanvas(l, c)
    BY <1>2 DEF Layout!ScaleCanvas
  <2>2. c \in Layout!Sizes
    BY <1>1, BoxesAre
  <2> QED BY <2>1, <2>2, DistortKeeps
<1>3. ASSUME NEW t \in Layout!Sizes, NEW x \in Layout!Crop(l, t)
      PROVE  Kept(l, x)
  <2>1. x \in Layout!VirtualCanvas(l, t)
    BY <1>3 DEF Layout!Crop
  <2> QED BY <2>1, VirtualKeeps
<1>4. CASE r \in UNION {Layout!DistortCanvas(l, b) : b \in Layout!ResolveBoxParam(l, step.box)}
  <2>1. PICK b \in Layout!ResolveBoxParam(l, step.box) : r \in Layout!DistortCanvas(l, b)
    BY <1>4
  <2>2. b \in Layout!Sizes
    BY <1>1, ResolvedAre
  <2> QED BY <2>1, <2>2, DistortKeeps
<1>5. CASE r \in UNION {Layout!VirtualCanvas(l, b) : b \in Layout!ResolveBoxParam(l, step.box)}
  <2>1. PICK b \in Layout!ResolveBoxParam(l, step.box) : r \in Layout!VirtualCanvas(l, b)
    BY <1>5
  <2>2. b \in Layout!Sizes
    BY <1>1, ResolvedAre
  <2> QED BY <2>1, <2>2, VirtualKeeps
<1>6. CASE r \in UNION {Layout!PadCanvas(l, b) : b \in Layout!BoxOf(l.target, l.canvas, "outer")}
  <2>1. PICK b \in Layout!BoxOf(l.target, l.canvas, "outer") : r \in Layout!PadCanvas(l, b)
    BY <1>6
  <2>2. b \in Layout!Sizes
    BY <1>1, BoxesAre
  <2> QED BY <2>1, <2>2, PadKeeps
<1>7. CASE r \in UNION {Layout!Crop(l, b) : b \in Layout!BoxOf(l.target, l.canvas, "inner")}
  <2>1. PICK b \in Layout!BoxOf(l.target, l.canvas, "inner") : r \in Layout!Crop(l, b)
    BY <1>7
  <2>2. b \in Layout!Sizes
    BY <1>1, BoxesAre
  <2> QED BY <1>3, <2>1, <2>2
<1>8. CASE r \in UNION {Layout!Crop(l, b) : b \in Layout!Intersection(l.image, l.target)}
  <2>1. PICK b \in Layout!Intersection(l.image, l.target) : r \in Layout!Crop(l, b)
    BY <1>8
  <2>2. b \in Layout!Sizes
    BY <1>1, IntersectionFits
  <2> QED BY <1>3, <2>1, <2>2
<1>9. CASE r = l
  BY <1>1, <1>9, FitsFits DEF Kept, Sound
<1>10. \/ r \in Layout!ScaleCanvas(l, "inner") \/ r \in Layout!ScaleCanvas(l, "outer")
       \/ r \in Layout!FillCrop(l) \/ r \in Layout!PadCanvas(l, l.target) \/ r \in Layout!Crop(l, l.target)
       \/ r \in UNION {Layout!DistortCanvas(l, b) : b \in Layout!ResolveBoxParam(l, step.box)}
       \/ r \in UNION {Layout!VirtualCanvas(l, b) : b \in Layout!ResolveBoxParam(l, step.box)}
       \/ r \in UNION {Layout!PadCanvas(l, b) : b \in Layout!BoxOf(l.target, l.canvas, "outer")}
       \/ r \in UNION {Layout!Crop(l, b) : b \in Layout!BoxOf(l.target, l.canvas, "inner")}
       \/ r \in UNION {Layout!Crop(l, b) : b \in Layout!Intersection(l.image, l.target)}
       \/ r = l
  BY Zenon DEF Layout!Execute2D
<1> QED BY <1>1, <1>2, <1>3, <1>4, <1>5, <1>6, <1>7, <1>8, <1>9, <1>10, FillKeeps, PadKeeps

\* In one dimension the target is another for as long as the step takes.
LEMMA Steps1DKeep ==
  ASSUME Layout!SizingAssumption, NEW l, Sound(l), NEW horizontal, NEW name, NEW r \in Layout!Execute1D(l, horizontal, name)
  PROVE  Kept(l, r)
<1> DEFINE flat == IF horizontal THEN Layout!Size(l.target.w, l.canvas.h) ELSE Layout!Size(l.canvas.w, l.target.h)
           outer == ~horizontal /\ (Layout!WiderThan(l.canvas, flat) \/ Layout!WiderThan(flat, l.canvas))
           step == Layout!Step(IF name # "scale_proportional" THEN name ELSE IF outer THEN "scale_to_outer" ELSE "scale_to_inner")
           m == [l EXCEPT !.target = flat]
<1>1. /\ l \in Layouts /\ l.canvas \in Layout!Sizes /\ l.image \in Layout!Sizes /\ l.source \in Layout!Sizes
      /\ l.target \in Layout!Sizes /\ Fits(l.image, l.canvas)
  BY DEF Sound, Layouts
<1>2. flat \in Layout!Sizes
  <2>1. /\ l.target.w \in 1 .. MaxSize /\ l.target.h \in 1 .. MaxSize
        /\ l.canvas.w \in 1 .. MaxSize /\ l.canvas.h \in 1 .. MaxSize
    BY <1>1, SidesOf
  <2> QED BY <2>1, SizeOf
<1>3. PICK x \in Layout!Execute2D(m, step) : r = [x EXCEPT !.target = l.target]
  BY DEF Layout!Execute1D
<1>4. step.box \in Boxes
  BY DEF Layout!Step, Layout!Exact, Boxes
<1> HIDE DEF flat, step
<1>5. m \in Layouts /\ m.canvas = l.canvas /\ m.image = l.image /\ m.source = l.source
  BY <1>1, <1>2 DEF Layouts
<1>6. Sound(m)
  BY <1>1, <1>5 DEF Sound
<1> HIDE DEF m
<1>7. Kept(m, x)
  BY <1>3, <1>4, <1>6, Steps2DKeep
<1>8. r \in Layouts /\ r.image = x.image /\ r.canvas = x.canvas /\ r.source = x.source
  BY <1>1, <1>3, <1>7 DEF Kept, Sound, Layouts
<1> QED BY <1>5, <1>7, <1>8 DEF Kept, Sound

\* Whatever a step does.
LEMMA StepsKeep ==
  ASSUME Layout!SizingAssumption, NEW l, Sound(l), NEW step \in Steps, NEW r \in Layout!Execute(l, step)
  PROVE  Kept(l, r)
<1>1. step.box \in Boxes
  BY DEF Steps
<1>2. r \in Layout!Execute1D(l, TRUE, step.one) \/ r \in Layout!Execute1D(l, FALSE, step.one) \/ r \in Layout!Execute2D(l, step)
  BY Zenon DEF Layout!Execute
<1> QED BY <1>1, <1>2, Steps1DKeep, Steps2DKeep

-----------------------------------------------------------------------------

\* The steps there are.
LEMMA StepsAre ==
  ASSUME NEW name \in Words
  PROVE  /\ Layout!Step(name) \in Steps /\ Layout!SkipIf(name) \in Steps /\ Layout!SkipUnless(name) \in Steps
         /\ \A box \in Boxes : Layout!StepTo(name, box) \in Steps
         /\ \A axis \in Words : Layout!Along(axis, name) \in Steps
<1>1. Layout!Exact("target") \in Boxes
  BY DEF Layout!Exact, Boxes
<1>2. ASSUME NEW any \in Words
      PROVE  Layout!Step(any) \in Steps
  BY <1>1 DEF Layout!Step, Steps, Words
<1>3. Layout!SkipIf(name) \in Steps /\ Layout!SkipUnless(name) \in Steps
  <2>1. Layout!Step("skip_if") \in Steps /\ Layout!Step("skip_unless") \in Steps
    BY <1>2 DEF Words
  <2> QED BY <2>1 DEF Layout!SkipIf, Layout!SkipUnless, Steps
<1>4. \A box \in Boxes : Layout!StepTo(name, box) \in Steps
  BY <1>2 DEF Layout!StepTo, Steps
<1>5. \A axis \in Words : Layout!Along(axis, name) \in Steps
  BY <1>2 DEF Layout!Along, Steps
<1> QED BY <1>2, <1>3, <1>4, <1>5

\* The steps of mode and scale are a plan.
LEMMA ConstraintsAre ==
  ASSUME NEW j \in Layout!Instructions
  PROVE  Layout!BuildConstraints(j) \in Seq(Steps)
<1> DEFINE Modes_ == {"max", "pad", "crop", "stretch"}
           mode == Layout!ModeOf(j)
           scale == Layout!ScaleOf(j)
<1>1. mode \in Modes_
  BY DEF Layout!ModeOf, Layout!Or, Layout!Instructions
<1>2. scale \in {"down", "up", "both", "canvas"}
  BY DEF Layout!ScaleOf, Layout!Or, Layout!Instructions
<1>3. /\ Layout!Step("scale_to_inner") \in Steps /\ Layout!Step("pad") \in Steps /\ Layout!Step("distort") \in Steps
      /\ Layout!Step("scale_to_outer") \in Steps /\ Layout!Step("crop") \in Steps /\ Layout!Step("begin") \in Steps
      /\ Layout!Step("virtual_canvas") \in Steps /\ Layout!Step("crop_intersection") \in Steps
      /\ Layout!SkipUnless("neither_greater") \in Steps /\ Layout!SkipUnless("larger_1d_smaller_1d") \in Steps
      /\ Layout!SkipUnless("either_greater") \in Steps /\ Layout!SkipIf("either_less") \in Steps
  BY StepsAre DEF Words
<1>4. Layout!StepTo("virtual_canvas", Layout!InnerOfTarget) \in Steps
  <2>1. Layout!InnerOfTarget \in Boxes
    BY DEF Layout!InnerOfTarget, Boxes
  <2> QED BY <2>1, StepsAre DEF Words
<1>5. ASSUME NEW m \in Modes_
      PROVE  Layout!Fitted(m) \in Seq(Steps)
  BY <1>3 DEF Layout!Fitted
<1>6. ASSUME NEW m \in Modes_
      PROVE  Layout!WhenNeitherGreater(m) \in Seq(Steps)
  BY <1>3, <1>5 DEF Layout!WhenNeitherGreater
<1>7. ASSUME NEW m \in Modes_
      PROVE  Layout!WhenGreater(m) \in Seq(Steps)
  <2>1. /\ Layout!Fitted("crop") \in Seq(Steps) /\ Layout!Fitted("max") \in Seq(Steps) /\ Layout!Fitted(m) \in Seq(Steps)
        /\ <<Layout!SkipIf("either_less")>> \in Seq(Steps) /\ <<Layout!SkipUnless("either_greater")>> \in Seq(Steps)
        /\ <<Layout!Step("begin"), Layout!SkipUnless("larger_1d_smaller_1d")>> \in Seq(Steps)
    BY <1>3, <1>5
  <2> QED BY <2>1 DEF Layout!WhenGreater
<1>8. ASSUME NEW m \in Modes_
      PROVE  Layout!OnCanvas(m) \in Seq(Steps)
  <2>1. /\ <<Layout!Step("virtual_canvas")>> \in Seq(Steps) /\ <<Layout!Step("begin"), Layout!Step("pad")>> \in Seq(Steps)
        /\ <<Layout!Step("begin"), Layout!StepTo("virtual_canvas", Layout!InnerOfTarget)>> \in Seq(Steps)
    BY <1>3, <1>4
  <2> QED BY <1>7, <2>1 DEF Layout!OnCanvas
<1>9. /\ <<Layout!Step("crop_intersection")>> \in Seq(Steps) /\ <<Layout!Step("pad")>> \in Seq(Steps)
      /\ <<>> \in Seq(Steps)
  BY <1>3
<1> HIDE DEF Modes_
<1> QED BY <1>1, <1>2, <1>5, <1>6, <1>7, <1>8, <1>9 DEF Layout!BuildConstraints

\* The lists of steps nobody wrote are plans as well.
LEMMA PlansAre == Strategies \cup OddPlans \subseteq Seq(Steps)
<1>1. /\ Do("scale_to_inner") \in Steps /\ Do("scale_to_outer") \in Steps /\ Do("pad") \in Steps /\ Do("begin") \in Steps
      /\ Do("pad_aspect") \in Steps /\ Do("fill_crop") \in Steps /\ Do("crop_aspect") \in Steps
      /\ Do("crop_intersection") \in Steps /\ Do("partial_crop_aspect") \in Steps
  BY StepsAre DEF Do, Words
<1>2. /\ Layout!SkipUnless("either_greater") \in Steps /\ Layout!SkipUnless("both_greater") \in Steps
      /\ Layout!SkipUnless("both_less") \in Steps /\ Layout!SkipUnless("either_less") \in Steps
      /\ Layout!SkipUnless("larger_1d_smaller_1d") \in Steps
      /\ Layout!SkipIf("both_less") \in Steps /\ Layout!SkipIf("either_less") \in Steps
  BY StepsAre DEF Words
<1>3. /\ Layout!Along("x", "scale_proportional") \in Steps /\ Layout!Along("y", "crop") \in Steps
      /\ Layout!Along("y", "pad") \in Steps /\ Layout!Along("x", "distort") \in Steps
      /\ Layout!Along("y", "virtual_canvas") \in Steps
  BY StepsAre DEF Words
<1>4. /\ Layout!StepTo("distort", Layout!Exact("image")) \in Steps
      /\ Layout!StepTo("virtual_canvas", [kind |-> "inner", target |-> "target", ratio |-> "canvas"]) \in Steps
  <2>1. Layout!Exact("image") \in Boxes /\ [kind |-> "inner", target |-> "target", ratio |-> "canvas"] \in Boxes
    BY DEF Layout!Exact, Boxes
  <2> QED BY <2>1, StepsAre DEF Words
<1>5. ASSUME NEW a \in Steps, NEW b \in Steps
      PROVE  /\ <<a, b>> \in Seq(Steps)
             /\ \A c \in Steps : <<a, b, c>> \in Seq(Steps)
             /\ \A c, d \in Steps : <<a, b, c, d>> \in Seq(Steps)
             /\ \A c, d, e \in Steps : <<a, b, c, d, e>> \in Seq(Steps)
  OBVIOUS
<1>6. Strategies \subseteq Seq(Steps)
  BY <1>1, <1>2, <1>5 DEF Strategies
<1>7. OddPlans \subseteq Seq(Steps)
  BY <1>1, <1>3, <1>4, <1>5 DEF OddPlans
<1> QED BY <1>6, <1>7

-----------------------------------------------------------------------------
\* The steps taken, whatever the layout is for.
StepsInv ==
  /\ Sound(lay) /\ original \in Layout!Sizes /\ Fits(lay.source, original)
  /\ rest \in Seq(Steps) /\ skipping \in BOOLEAN

\* A layout begins as the image itself.
LEMMA StepsBegin ==
  ASSUME Layout!SizingAssumption, NEW o \in Layout!Sizes, NEW t \in Layout!Sizes, NEW steps \in Seq(Steps),
         Layout!Start(o, t, steps)
  PROVE  StepsInv /\ verdict = "running"
<1>1. lay = [canvas |-> o, image |-> o, source |-> o, target |-> t] /\ original = o /\ rest = steps
      /\ skipping = FALSE /\ verdict = "running"
  BY DEF Layout!Start, Layout!LayoutOf
<1>2. Fits(o, o)
  BY FitsFits
<1> QED BY <1>1, <1>2 DEF StepsInv, Sound, Layouts

\* A step leaves it sound.
LEMMA StepsAdvance ==
  ASSUME Layout!SizingAssumption, StepsInv, Layout!Advance
  PROVE  StepsInv' /\ verdict = "running" /\ verdict' \in {"running", "failed"}
<1> DEFINE step == Head(rest)
           results == IF Layout!Skips(step) THEN {lay} ELSE Layout!Execute(lay, step)
<1>1. /\ verdict = "running" /\ rest # <<>> /\ skipping' = Layout!Skips(step) /\ rest' = Tail(rest)
      /\ original' = original
      /\ IF results = {} THEN verdict' = "failed" /\ UNCHANGED lay ELSE lay' \in results /\ UNCHANGED verdict
  BY DEF Layout!Advance
<1>2. Sound(lay) /\ original \in Layout!Sizes /\ Fits(lay.source, original) /\ rest \in Seq(Steps)
  BY DEF StepsInv
<1>3. step \in Steps /\ Tail(rest) \in Seq(Steps)
  BY <1>1, <1>2
<1>4. Layout!Skips(step) \in BOOLEAN
  BY <1>2 DEF Layout!Skips, StepsInv
<1> HIDE DEF step
<1>5. \A r \in results : Kept(lay, r)
  <2>1. CASE Layout!Skips(step)
    BY <1>2, <2>1, FitsFits DEF Kept, Sound, Layouts
  <2>2. CASE ~Layout!Skips(step)
    BY <1>2, <1>3, <2>2, StepsKeep
  <2> QED BY <2>1, <2>2
<1> HIDE DEF results
<1>6. Kept(lay, lay)
  BY <1>2, FitsFits DEF Kept, Sound, Layouts
<1>7. Kept(lay, lay')
  BY <1>1, <1>5, <1>6
<1>8. Fits(lay'.source, original)
  <2>1. lay.source \in Layout!Sizes /\ lay'.source \in Layout!Sizes /\ Fits(lay'.source, lay.source)
    BY <1>2, <1>7 DEF Kept, Sound, Layouts
  <2> QED BY <1>2, <2>1, FitsFits
<1>9. Sound(lay')
  BY <1>7 DEF Kept
<1> QED BY <1>1, <1>2, <1>3, <1>4, <1>8, <1>9 DEF StepsInv, Sound, Fits

-----------------------------------------------------------------------------

\* An option, or what is taken for it.
LEMMA OptionIs ==
  ASSUME NEW S, NEW option \in SUBSET S, NEW default
  PROVE  Layout!Or(option, default) \in S \cup {default} /\ (option # {} => Layout!Or(option, default) \in S)
  BY DEF Layout!Or

\* A crop's corner is a pixel of the image or its edge.
LEMMA CornersAre ==
  ASSUME NEW v \in Int, NEW side \in Nat \ {0}, NEW units \in SUBSET Int, NEW second \in BOOLEAN
  PROVE  Layout!Pixel(Layout!Corner(v, side, units, second), side) \in 0 .. side
<1> DEFINE u == Layout!Or(units, 0)
           d == IF u = 0 THEN side ELSE Layout!Abs(u)
           n == IF u < 0 THEN -(v * side) ELSE v * side
           m == IF n < 0 \/ (second /\ n = 0) THEN n + side * d ELSE n
<1>1. u \in Int
  <2>1. Layout!Or(units, 0) \in Int \cup {0}
    BY OptionIs
  <2> QED BY <2>1
<1>2. d \in Nat \ {0}
  <2> HIDE DEF u
  <2> QED BY <1>1 DEF Layout!Abs, Layout!Max2
<1>3. n \in Int
  <2>1. v * side \in Int
    OBVIOUS
  <2> QED BY <2>1
<1>4. Layout!Corner(v, side, units, second) = [n |-> m, d |-> d]
  BY DEF Layout!Corner
<1> HIDE DEF n, d
<1>5. m \in Int
  <2>1. side * d \in Int
    BY <1>2
  <2> QED BY <1>3, <2>1
<1> HIDE DEF m
<1> DEFINE r == Layout!Round(m, d)
<1>6. r \in Int
  BY <1>2, <1>5, RoundIsWhole
<1>7. Layout!Pixel(Layout!Corner(v, side, units, second), side) = Layout!Max2(0, Layout!Min2(r, side))
  BY <1>4 DEF Layout!Pixel
<1> HIDE DEF r
<1> QED BY <1>6, <1>7 DEF Layout!Max2, Layout!Min2

\* The ends of one side of the window.
LEMMA EndsAre ==
  ASSUME NEW v1 \in Int, NEW v2 \in Int, NEW side \in Nat \ {0}, NEW units \in SUBSET Int,
         NEW e \in Layout!Ends(v1, v2, side, units)
  PROVE  e[1] \in 0 .. side /\ e[2] \in 0 .. side
<1>1. e = <<Layout!Pixel(Layout!Corner(v1, side, units, FALSE), side), Layout!Pixel(Layout!Corner(v2, side, units, TRUE), side)>>
  BY DEF Layout!Ends
<1> QED BY <1>1, CornersAre

IsWindow(w, s) ==
  /\ w[1] \in Int /\ w[2] \in Int /\ w[3] \in Int /\ w[4] \in Int
  /\ 0 <= w[1] /\ w[1] < w[3] /\ w[3] <= s.w
  /\ 0 <= w[2] /\ w[2] < w[4] /\ w[4] <= s.h

\* The window is within the image and not empty, whatever crop is asked for.
LEMMA WindowIs ==
  ASSUME Layout!SizingAssumption, NEW j \in Layout!Instructions, NEW s \in Layout!Sizes
  PROVE  IsWindow(Layout!InitialWindow(j, s), s)
<1> DEFINE whole == <<0, 0, s.w, s.h>>
           c == Layout!Or(j.crop, whole)
           xs == Layout!Ends(c[1], c[3], s.w, j.xunits)
           ys == Layout!Ends(c[2], c[4], s.h, j.yunits)
           x == Layout!Or(xs, <<>>)
           y == Layout!Or(ys, <<>>)
           win == Layout!InitialWindow(j, s)
<1>1. s.w \in Nat \ {0} /\ s.h \in Nat \ {0}
  BY SidesOf
<1>2. IsWindow(whole, s)
  BY <1>1 DEF IsWindow
<1>3. CASE win = whole
  BY <1>2, <1>3
<1>4. CASE /\ j.crop # {} /\ xs # {} /\ ys # {}
           /\ win = <<x[1], y[1], x[2], y[2]>> /\ y[2] > y[1] /\ x[2] > x[1]
  <2>1. j.crop \in SUBSET (Int \X Int \X Int \X Int) /\ j.xunits \in SUBSET Int /\ j.yunits \in SUBSET Int
    BY DEF Layout!Instructions
  <2>2. c \in Int \X Int \X Int \X Int
    BY <1>4, <2>1, OptionIs
  <2>3. c[1] \in Int /\ c[2] \in Int /\ c[3] \in Int /\ c[4] \in Int
    BY <2>2
  <2>4. x \in xs /\ y \in ys
    BY <1>4 DEF Layout!Or
  <2> HIDE DEF c, x, y
  <2>5. x[1] \in 0 .. s.w /\ x[2] \in 0 .. s.w
    BY <1>1, <2>1, <2>3, <2>4, EndsAre
  <2>6. y[1] \in 0 .. s.h /\ y[2] \in 0 .. s.h
    BY <1>1, <2>1, <2>3, <2>4, EndsAre
  <2>7. win[1] = x[1] /\ win[2] = y[1] /\ win[3] = x[2] /\ win[4] = y[2]
    <3> HIDE DEF win
    <3> QED BY <1>4
  <2> HIDE DEF win
  <2>8. IsWindow(win, s)
    BY <1>1, <1>4, <2>5, <2>6, <2>7 DEF IsWindow
  <2> QED BY <2>8 DEF win
<1>5. IF j.crop = {} \/ xs = {} \/ ys = {} THEN win = whole
      ELSE IF y[2] <= y[1] \/ x[2] <= x[1] THEN win = whole ELSE win = <<x[1], y[1], x[2], y[2]>>
  BY DEF Layout!InitialWindow
<1>6. ASSUME xs # {}, ys # {}, j.crop # {}
      PROVE  x[1] \in Int /\ x[2] \in Int /\ y[1] \in Int /\ y[2] \in Int
  <2>1. j.crop \in SUBSET (Int \X Int \X Int \X Int) /\ j.xunits \in SUBSET Int /\ j.yunits \in SUBSET Int
    BY DEF Layout!Instructions
  <2>2. c \in Int \X Int \X Int \X Int
    BY <1>6, <2>1, OptionIs
  <2>3. c[1] \in Int /\ c[2] \in Int /\ c[3] \in Int /\ c[4] \in Int
    BY <2>2
  <2>4. x \in xs /\ y \in ys
    BY <1>6 DEF Layout!Or
  <2> HIDE DEF c, x, y
  <2>5. x[1] \in 0 .. s.w /\ x[2] \in 0 .. s.w
    BY <1>1, <2>1, <2>3, <2>4, EndsAre
  <2>6. y[1] \in 0 .. s.h /\ y[2] \in 0 .. s.h
    BY <1>1, <2>1, <2>3, <2>4, EndsAre
  <2> QED BY <1>1, <2>5, <2>6
<1> HIDE DEF x, y, win, whole, xs, ys
<1> QED BY <1>3, <1>4, <1>5, <1>6 DEF win

-----------------------------------------------------------------------------

\* Widths and heights are numbers, absent ones as well.
LEMMA LegacyAre ==
  ASSUME Layout!SizingAssumption, NEW j \in Layout!Instructions, NEW s \in Layout!Sizes, NEW wh \in Layout!LegacyWH(j, s)
  PROVE  wh[1] \in Int /\ wh[2] \in Int
<1> DEFINE w == Layout!Or(j.w, -1)
           h == Layout!Or(j.h, -1)
           mw == Layout!Or(j.maxwidth, -1)
           mh == Layout!Or(j.maxheight, -1)
           bothw == mw > 0 /\ w > 0
           bothh == mh > 0 /\ h > 0
           w1 == IF bothw THEN Layout!Min2(mw, w) ELSE w
           h1 == IF bothh THEN Layout!Min2(mh, h) ELSE h
           mw1 == IF bothw THEN -1 ELSE mw
           mh1 == IF bothh THEN -1 ELSE mh
           mhs == IF w1 # -1 /\ mh1 # -1 THEN {Layout!Min2(mh1, x) : x \in Layout!HeightFor(s, w1, s)} ELSE {mh1}
           mws == IF h1 # -1 /\ mw1 # -1 THEN {Layout!Min2(mw1, x) : x \in Layout!WidthFor(s, h1, s)} ELSE {mw1}
<1>1. w \in Int /\ h \in Int /\ mw \in Int /\ mh \in Int
  <2>1. j.w \in SUBSET Int /\ j.h \in SUBSET Int /\ j.maxwidth \in SUBSET Int /\ j.maxheight \in SUBSET Int /\ -1 \in Int
    BY DEF Layout!Instructions
  <2> QED BY <2>1, OptionIs
<1>2. w1 \in Int /\ h1 \in Int /\ mw1 \in Int /\ mh1 \in Int
  <2> HIDE DEF w, h, mw, mh
  <2> QED BY <1>1 DEF Layout!Min2
<1>3. PICK x \in mws, y \in mhs : wh = <<Layout!Max2(w1, x), Layout!Max2(h1, y)>>
  BY DEF Layout!LegacyWH
<1> HIDE DEF w1, h1, mw1, mh1
<1>4. x \in Int
  <2>1. \A v \in Layout!WidthFor(s, h1, s) : v \in Int
    BY <1>2, WidthsAre
  <2> QED BY <1>2, <1>3, <2>1 DEF Layout!Min2
<1>5. y \in Int
  <2>1. \A v \in Layout!HeightFor(s, w1, s) : v \in Int
    BY <1>2, HeightsAre
  <2> QED BY <1>2, <1>3, <2>1 DEF Layout!Min2
<1> HIDE DEF mws, mhs
<1> QED BY <1>2, <1>3, <1>4, <1>5 DEF Layout!Max2

\* A zoomed length is a length.
LEMMA ZoomedAre ==
  ASSUME Layout!SizingAssumption, NEW length \in Int, NEW zoom \in SUBSET (Int \X Nat), NEW x \in Layout!Zoomed(length, zoom)
  PROVE  x \in 1 .. MaxSize
<1> DEFINE z == Layout!Or(zoom, <<1, 1>>)
           S == IF z[2] = 0 THEN {80000} ELSE {Layout!Round(length * Layout!Max2(z[1], 0), z[2])}
<1>1. z \in Int \X Nat
  BY OptionIs
<1>2. PICK v \in S : x = Layout!Max2(1, Layout!Min2(v, MaxSize))
  BY DEF Layout!Zoomed
<1> HIDE DEF z
<1>3. v \in Int
  <2>1. CASE z[2] = 0
    BY <1>2, <2>1
  <2>2. CASE z[2] # 0
    <3>1. z[2] \in Nat \ {0} /\ z[1] \in Int
      BY <1>1, <2>2
    <3>2. Layout!Max2(z[1], 0) \in Int
      BY <3>1 DEF Layout!Max2
    <3>3. length * Layout!Max2(z[1], 0) \in Int
      BY <3>2
    <3> QED BY <1>2, <2>2, <3>1, <3>3, RoundIsWhole
  <2> QED BY <2>1, <2>2
<1> HIDE DEF S
<1> QED BY <1>2, <1>3 DEF Layout!Max2, Layout!Min2, Layout!SizingAssumption

\* What a layout aims at is a size.
LEMMA TargetsAre ==
  ASSUME Layout!SizingAssumption, NEW j \in Layout!Instructions, NEW s \in Layout!Sizes, NEW t \in Layout!IdealTargets(j, s)
  PROVE  t \in Layout!Sizes
<1>0. PICK wh \in Layout!LegacyWH(j, s) :
        \E u \in Layout!TargetOf(wh, s) :
          \E w \in Layout!Zoomed(u[1], j.zoom), h \in Layout!Zoomed(u[2], j.zoom) : t \in Layout!Create(w, h)
  BY DEF Layout!IdealTargets
<1>1. PICK u \in Layout!TargetOf(wh, s) :
        \E w \in Layout!Zoomed(u[1], j.zoom), h \in Layout!Zoomed(u[2], j.zoom) : t \in Layout!Create(w, h)
  BY <1>0
<1>2. wh[1] \in Int /\ wh[2] \in Int
  BY LegacyAre
<1>3. s.w \in Int /\ s.h \in Int /\ j.zoom \in SUBSET (Int \X Nat)
  BY SidesOf DEF Layout!Instructions
<1>4. u[1] \in Int /\ u[2] \in Int
  <2>1. \/ u = wh \/ u = <<s.w, s.h>>
        \/ \E x \in Layout!HeightFor(s, wh[1], s) : u = <<wh[1], x>>
        \/ \E x \in Layout!WidthFor(s, wh[2], s) : u = <<x, wh[2]>>
    BY DEF Layout!TargetOf
  <2>2. \A x \in Layout!HeightFor(s, wh[1], s) : x \in Int
    BY <1>2, HeightsAre
  <2>3. \A x \in Layout!WidthFor(s, wh[2], s) : x \in Int
    BY <1>2, WidthsAre
  <2> QED BY <1>2, <1>3, <2>1, <2>2, <2>3
<1>5. PICK w \in Layout!Zoomed(u[1], j.zoom), h \in Layout!Zoomed(u[2], j.zoom) : t \in Layout!Create(w, h)
  BY <1>1
<1>6. w \in 1 .. MaxSize /\ h \in 1 .. MaxSize
  BY <1>3, <1>4, ZoomedAre
<1> QED BY <1>5, <1>6, SizeOf

-----------------------------------------------------------------------------
\* A list of nodes takes an image from one size to another, each node fitting it.
Leads(s, list, t) ==
  \E f : /\ f \in [0 .. Len(list) -> Layout!Sizes] /\ f[0] = s /\ f[Len(list)] = t
         /\ \A k \in 1 .. Len(list) : f[k] = Layout!After(list[k], f[k - 1])

\* No nodes lead nowhere, one node where it says.
LEMMA NoneLeads ==
  ASSUME NEW s \in Layout!Sizes
  PROVE  Leads(s, <<>>, s)
<1> DEFINE f == [k \in 0 .. 0 |-> s]
<1>1. /\ f \in [0 .. 0 -> Layout!Sizes] /\ f[0] = s
  OBVIOUS
<1>2. Len(<<>>) = 0 /\ 1 .. 0 = {}
  OBVIOUS
<1> HIDE DEF f
<1> QED BY <1>1, <1>2 DEF Leads

\* A node leads from what it reads to what it makes of it.
LEMMA OneLeads ==
  ASSUME NEW s \in Layout!Sizes, NEW x, Layout!After(x, s) \in Layout!Sizes
  PROVE  Leads(s, <<x>>, Layout!After(x, s))
<1> DEFINE t == Layout!After(x, s)
           f == [k \in 0 .. 1 |-> IF k = 0 THEN s ELSE t]
<1>1. /\ f \in [0 .. 1 -> Layout!Sizes] /\ f[0] = s /\ f[1] = t
  OBVIOUS
<1>2. Len(<<x>>) = 1 /\ <<x>>[1] = x
  OBVIOUS
<1>3. \A k \in 1 .. 1 : k = 1 /\ k - 1 = 0
  OBVIOUS
<1> HIDE DEF f
<1>4. \A k \in 1 .. 1 : f[k] = Layout!After(<<x>>[k], f[k - 1])
  BY <1>1, <1>2, <1>3
<1> QED BY <1>1, <1>2, <1>4 DEF Leads

\* One list after another.
LEMMA LeadsOn ==
  ASSUME NEW S, NEW a \in Seq(S), NEW b \in Seq(S), NEW s, NEW t, NEW u, Leads(s, a, t), Leads(t, b, u)
  PROVE  Leads(s, a \o b, u)
<1> DEFINE m == Len(a)
           n == Len(b)
           c == a \o b
<1>1. m \in Nat /\ n \in Nat /\ Len(c) = m + n
  OBVIOUS
<1>2. (\A k \in 1 .. m : c[k] = a[k]) /\ (\A k \in m + 1 .. m + n : c[k] = b[k - m])
  OBVIOUS
<1>3. PICK f : /\ f \in [0 .. m -> Layout!Sizes] /\ f[0] = s /\ f[m] = t
               /\ \A k \in 1 .. m : f[k] = Layout!After(a[k], f[k - 1])
  BY DEF Leads
<1>4. PICK g : /\ g \in [0 .. n -> Layout!Sizes] /\ g[0] = t /\ g[n] = u
               /\ \A k \in 1 .. n : g[k] = Layout!After(b[k], g[k - 1])
  BY DEF Leads
<1> HIDE DEF m, n, c
<1> DEFINE h == [k \in 0 .. m + n |-> IF k <= m THEN f[k] ELSE g[k - m]]
<1>5. ASSUME NEW k \in 0 .. m + n, k > m
      PROVE  k - m \in 1 .. n /\ k - m \in 0 .. n /\ k \in m + 1 .. m + n
  BY <1>1, <1>5
<1>6. h \in [0 .. m + n -> Layout!Sizes]
  BY <1>1, <1>3, <1>4, <1>5
<1>7. h[0] = s /\ h[m + n] = u
  <2>1. h[0] = s
    BY <1>1, <1>3
  <2>2. CASE n = 0
    BY <1>1, <1>3, <1>4, <2>2
  <2>3. CASE n > 0
    <3>1. m + n \in 0 .. m + n /\ ~(m + n <= m) /\ (m + n) - m = n
      BY <1>1, <2>3
    <3>2. h[m + n] = g[(m + n) - m]
      BY <3>1
    <3> HIDE DEF h
    <3> QED BY <1>4, <2>1, <3>1, <3>2
  <2>4. n = 0 \/ n > 0
    BY <1>1
  <2> HIDE DEF h
  <2> QED BY <2>2, <2>3, <2>4
<1>8. ASSUME NEW k \in 1 .. m + n
      PROVE  h[k] = Layout!After(c[k], h[k - 1])
  <2>0. k \in 0 .. m + n /\ k - 1 \in 0 .. m + n
    BY <1>1
  <2>1. CASE k <= m
    <3>1. k \in 1 .. m /\ k - 1 <= m
      BY <1>1, <2>1
    <3>2. h[k] = f[k] /\ h[k - 1] = f[k - 1]
      BY <2>0, <2>1, <3>1
    <3> HIDE DEF h
    <3> QED BY <1>2, <1>3, <3>1, <3>2
  <2>2. CASE k > m
    <3>1. k - m \in 1 .. n /\ k \in m + 1 .. m + n /\ (k - 1) - m = (k - m) - 1
      BY <1>1, <1>5, <2>0, <2>2
    <3>2. h[k] = g[k - m]
      BY <1>1, <2>0, <2>2
    <3>3. h[k - 1] = g[(k - m) - 1]
      <4>1. CASE k - 1 > m
        BY <1>1, <2>0, <3>1, <4>1
      <4>2. CASE k - 1 = m
        <5>1. h[k - 1] = f[m]
          BY <1>1, <2>0, <4>2
        <5>2. (k - m) - 1 = 0
          BY <1>1, <4>2
        <5> QED BY <1>3, <1>4, <5>1, <5>2
      <4> QED BY <1>1, <2>2, <4>1, <4>2
    <3>4. g[k - m] = Layout!After(b[k - m], g[(k - m) - 1])
      BY <1>4, <3>1
    <3>5. c[k] = b[k - m]
      BY <1>2, <3>1
    <3> HIDE DEF h
    <3> QED BY <3>2, <3>3, <3>4, <3>5
  <2> QED BY <1>1, <2>1, <2>2
<1> HIDE DEF h
<1> QED BY <1>1, <1>6, <1>7, <1>8 DEF Leads, c

\* What the nodes lead to is the size after them.
LEMMA LeadsThere ==
  ASSUME NEW S, nodes \in Seq(S), NEW t, Leads(source, nodes, t)
  PROVE  Layout!SizeAfter[Len(nodes)] = t
<1> DEFINE n == Len(nodes)
           Zero == Layout!Size(0, 0)
           Is(g) == g = [k \in 0 .. n |-> IF k = 0 THEN source
                                          ELSE IF g[k - 1] = Zero THEN Zero ELSE Layout!After(nodes[k], g[k - 1])]
<1>1. n \in Nat
  OBVIOUS
<1>2. PICK f : /\ f \in [0 .. n -> Layout!Sizes] /\ f[0] = source /\ f[n] = t
               /\ \A k \in 1 .. n : f[k] = Layout!After(nodes[k], f[k - 1])
  BY DEF Leads
<1>3. Layout!SizeAfter = CHOOSE g : Is(g)
  BY DEF Layout!SizeAfter
<1> HIDE DEF n
<1>4. \A x \in Layout!Sizes : x # Zero
  BY DEF Layout!Sizes, Layout!Size
<1>5. ASSUME NEW k \in 0 .. n, k # 0
      PROVE  k \in 1 .. n /\ k - 1 \in 0 .. n
  BY <1>1, <1>5
<1> HIDE DEF Zero
<1>6. f = [k \in 0 .. n |-> IF k = 0 THEN source
                            ELSE IF f[k - 1] = Zero THEN Zero ELSE Layout!After(nodes[k], f[k - 1])]
  BY <1>2, <1>4, <1>5
<1>7. Is(Layout!SizeAfter)
  BY <1>3, <1>6, Zenon
<1> DEFINE g == Layout!SizeAfter
<1>8. g = [k \in 0 .. n |-> IF k = 0 THEN source
                            ELSE IF g[k - 1] = Zero THEN Zero ELSE Layout!After(nodes[k], g[k - 1])]
  BY <1>7
<1> HIDE DEF g
<1> DEFINE T == {k \in 0 .. n : g[k] = f[k]}
<1>9. 0 \in T
  BY <1>1, <1>2, <1>8
<1>10. ASSUME NEW k \in 0 .. n - 1, k \in T
       PROVE  k + 1 \in T
  <2>1. k + 1 \in 0 .. n /\ k + 1 # 0 /\ (k + 1) - 1 = k /\ k + 1 \in 1 .. n /\ k \in 0 .. n
    BY <1>1
  <2>2. g[k] = f[k] /\ f[k] # Zero
    BY <1>2, <1>4, <1>10, <2>1
  <2>3. g[k + 1] = Layout!After(nodes[k + 1], g[k])
    BY <1>8, <2>1, <2>2
  <2>4. f[k + 1] = Layout!After(nodes[k + 1], f[k])
    BY <1>2, <2>1
  <2> QED BY <2>1, <2>2, <2>3, <2>4
<1>11. \A k \in 0 .. n : k \in T
  <2> HIDE DEF T
  <2> QED BY <1>1, <1>9, <1>10, InductionUpTo
<1>12. n \in T
  BY <1>1, <1>11
<1>13. g[n] = f[n]
  BY <1>12
<1> QED BY <1>2, <1>13 DEF g, n

-----------------------------------------------------------------------------
\* The nodes of a layout.
FilterWords == {"white_balance", "contrast", "alpha", "brightness", "saturation", "sepia", "grayscale"}
NodeWords == {"rotate", "flip_h", "flip_v", "crop", "resample_2d", "expand_canvas"} \cup FilterWords
Nodes == [node : NodeWords, w : Int, h : Int, x : Int, y : Int]
Carries(s, list, t) == list \in Seq(Nodes) /\ t \in Layout!Sizes /\ Leads(s, list, t)

\* No nodes carry a frame as it is.
LEMMA NoneCarries ==
  ASSUME NEW s \in Layout!Sizes
  PROVE  Carries(s, <<>>, s)
<1>1. <<>> \in Seq(Nodes)
  OBVIOUS
<1> QED BY <1>1, NoneLeads DEF Carries

\* A node carries a frame to what it makes of it.
LEMMA OneCarries ==
  ASSUME NEW s \in Layout!Sizes, NEW x \in Nodes, NEW t \in Layout!Sizes, t = Layout!After(x, s)
  PROVE  Carries(s, <<x>>, t)
<1>1. <<x>> \in Seq(Nodes)
  OBVIOUS
<1> QED BY <1>1, OneLeads DEF Carries

\* Nodes after nodes carry a frame on.
LEMMA CarriesOn ==
  ASSUME NEW s, NEW a, NEW t, NEW b, NEW u, Carries(s, a, t), Carries(t, b, u)
  PROVE  Carries(s, a \o b, u)
<1>1. a \in Seq(Nodes) /\ b \in Seq(Nodes) /\ a \o b \in Seq(Nodes)
  BY DEF Carries
<1> QED BY <1>1, LeadsOn DEF Carries

\* What a node is made of.
LEMMA NodeIs ==
  ASSUME NEW what \in NodeWords, NEW w \in Int, NEW h \in Int
  PROVE  /\ Layout!Node(what, w, h) \in Nodes /\ Layout!Node(what, w, h).node = what
         /\ Layout!Node(what, w, h).w = w /\ Layout!Node(what, w, h).h = h
  BY DEF Layout!Node, Nodes

\* A node that is given its place.
LEMMA NodeAt ==
  ASSUME NEW m \in Nodes, NEW x \in Int, NEW y \in Int
  PROVE  LET n == [m EXCEPT !.x = x, !.y = y] IN
         n \in Nodes /\ n.node = m.node /\ n.w = m.w /\ n.h = m.h /\ n.x = x /\ n.y = y
  BY DEF Nodes

\* Turning an image swaps its sides or leaves them; two turns may be asked for.
LEMMA RotateCarries ==
  ASSUME Layout!SizingAssumption, NEW s \in Layout!Sizes, NEW option \in SUBSET {0, 90, 180, 270}
  PROVE  Carries(s, Layout!Rotate(option), Layout!Turned(Layout!Or(option, 0), s))
<1> DEFINE d == Layout!Or(option, 0)
           t == Layout!Turned(d, s)
           x == Layout!Node("rotate", d, 0)
<1>1. d \in {0, 90, 180, 270}
  <2>1. Layout!Or(option, 0) \in {0, 90, 180, 270} \cup {0}
    BY OptionIs
  <2> QED BY <2>1
<1>2. Layout!Rotate(option) = IF d = 0 THEN <<>> ELSE <<x>>
  BY DEF Layout!Rotate
<1> HIDE DEF d
<1>3. t \in Layout!Sizes
  <2>1. s.w \in 1 .. MaxSize /\ s.h \in 1 .. MaxSize
    BY SidesOf
  <2> QED BY <2>1, SizeOf DEF Layout!Turned
<1>4. CASE d = 0
  <2>1. t = s
    BY <1>4 DEF Layout!Turned
  <2> QED BY <1>2, <1>4, <2>1, NoneCarries DEF d
<1>5. CASE d # 0
  <2>1. "rotate" \in NodeWords /\ d \in Int
    BY <1>1 DEF NodeWords
  <2>2. x \in Nodes /\ x.node = "rotate" /\ x.w = d
    BY <2>1, NodeIs
  <2> HIDE DEF x
  <2>3. t = Layout!After(x, s)
    BY <2>2 DEF Layout!After
  <2>4. Carries(s, <<x>>, t)
    <3> HIDE DEF t
    <3> QED BY <1>3, <2>2, <2>3, OneCarries
  <2> QED BY <1>2, <1>5, <2>4 DEF d
<1> QED BY <1>4, <1>5

\* A node that leaves the size of an image as it is.
LEMMA SameCarries ==
  ASSUME NEW s \in Layout!Sizes, NEW what \in {"flip_h", "flip_v"} \cup FilterWords, NEW asked_ \in BOOLEAN
  PROVE  Carries(s, IF asked_ THEN <<Layout!Node(what, 0, 0)>> ELSE <<>>, s)
<1> DEFINE x == Layout!Node(what, 0, 0)
<1>1. x \in Nodes /\ x.node = what
  <2>1. what \in NodeWords /\ 0 \in Int
    BY DEF NodeWords
  <2> QED BY <2>1, NodeIs
<1> HIDE DEF x
<1>2. what \notin {"rotate", "crop", "resample_2d", "expand_canvas"}
  BY DEF FilterWords
<1>3. Layout!After(x, s) = s
  BY <1>1, <1>2 DEF Layout!After
<1>4. Carries(s, <<x>>, s)
  BY <1>1, <1>3, OneCarries
<1> QED BY <1>4, NoneCarries DEF x

\* Flips keep the size.
LEMMA FlipCarries ==
  ASSUME NEW s \in Layout!Sizes, NEW option \in SUBSET (BOOLEAN \X BOOLEAN)
  PROVE  Carries(s, Layout!Flip(option), s)
<1> DEFINE f == Layout!Or(option, <<FALSE, FALSE>>)
           a == IF f[1] THEN <<Layout!Node("flip_h", 0, 0)>> ELSE <<>>
           b == IF f[2] THEN <<Layout!Node("flip_v", 0, 0)>> ELSE <<>>
<1>2. Layout!Flip(option) = a \o b
  BY DEF Layout!Flip
<1> HIDE DEF f
<1>3. f[1] \in BOOLEAN /\ f[2] \in BOOLEAN
  <2>1. f \in option \/ f = <<FALSE, FALSE>>
    BY DEF f, Layout!Or
  <2>2. CASE f \in option
    <3>1. f \in BOOLEAN \X BOOLEAN
      BY <2>2
    <3> QED BY <3>1
  <2>3. CASE f = <<FALSE, FALSE>>
    BY <2>3
  <2> QED BY <2>1, <2>2, <2>3
<1>4. Carries(s, a, s) /\ Carries(s, b, s)
  BY <1>3, SameCarries
<1> HIDE DEF a, b
<1> QED BY <1>2, <1>4, CarriesOn

\* Filters keep the size.
LEMMA FiltersCarry ==
  ASSUME NEW s \in Layout!Sizes
  PROVE  Carries(s, Layout!FilterNodes, s)
<1>1. ASSUME NEW what \in FilterWords
      PROVE  Carries(s, Layout!Filter(what), s)
  <2>1. (what \in instructions.filters) \in BOOLEAN
    OBVIOUS
  <2> QED BY <2>1, SameCarries DEF Layout!Filter
<1>2. /\ Carries(s, Layout!Filter("white_balance"), s) /\ Carries(s, Layout!Filter("contrast"), s)
      /\ Carries(s, Layout!Filter("alpha"), s) /\ Carries(s, Layout!Filter("brightness"), s)
      /\ Carries(s, Layout!Filter("saturation"), s) /\ Carries(s, Layout!Filter("sepia"), s)
      /\ Carries(s, Layout!Filter("grayscale"), s)
  BY <1>1 DEF FilterWords
<1> QED BY <1>2, CarriesOn DEF Layout!FilterNodes

-----------------------------------------------------------------------------

\* What is aligned in something larger is within it.
LEMMA AlignedIs ==
  ASSUME NEW a \in {"near", "center", "far"}, NEW inner \in Nat, NEW outer \in Nat, inner <= outer
  PROVE  Layout!Align1d(a, inner, outer) \in 0 .. outer - inner
  BY DEF Layout!Align1d

\* What is asked, of an image, and the window of the crop.
LayoutAsked ==
  /\ instructions \in Layout!Instructions /\ source \in Layout!Sizes
  /\ IsWindow(window, Layout!Precrop(instructions, source))
  /\ original = Layout!Size(window[3] - window[1], window[4] - window[2])

\* What fits is placed within, however it is aligned.
LEMMA AlignedWithin ==
  ASSUME Layout!SizingAssumption, LayoutAsked, NEW inner \in Layout!Sizes, NEW outer \in Layout!Sizes, Fits(inner, outer)
  PROVE  Layout!AlignX(inner, outer) \in 0 .. outer.w - inner.w /\ Layout!AlignY(inner, outer) \in 0 .. outer.h - inner.h
<1> DEFINE a == Layout!Or(instructions.anchor, <<"center", "center">>)
           W == {"near", "center", "far"}
<1>1. a \in W \X W
  <2>1. instructions.anchor \in SUBSET (W \X W)
    BY DEF LayoutAsked, Layout!Instructions
  <2>2. Layout!Or(instructions.anchor, <<"center", "center">>) \in (W \X W) \cup {<<"center", "center">>}
    BY <2>1, OptionIs
  <2> QED BY <2>2
<1>2. /\ inner.w \in Nat /\ inner.h \in Nat /\ outer.w \in Nat /\ outer.h \in Nat
      /\ inner.w <= outer.w /\ inner.h <= outer.h
  BY SidesOf DEF Fits
<1>3. a[1] \in W /\ a[2] \in W
  <2> HIDE DEF a
  <2> QED BY <1>1
<1>4. Layout!AlignX(inner, outer) = Layout!Align1d(a[1], inner.w, outer.w)
      /\ Layout!AlignY(inner, outer) = Layout!Align1d(a[2], inner.h, outer.h)
  BY DEF Layout!AlignX, Layout!AlignY
<1> HIDE DEF a
<1> QED BY <1>2, <1>3, <1>4, AlignedIs

\* The crop is within the image and leaves what the layout took from it.
LEMMA CropCarries ==
  ASSUME Layout!SizingAssumption, LayoutAsked, StepsInv
  PROVE  Carries(Layout!Precrop(instructions, source), Layout!CropNode, lay.source)
<1> DEFINE s == Layout!Precrop(instructions, source)
           ax == Layout!AlignX(lay.source, original)
           ay == Layout!AlignY(lay.source, original)
           n == [Layout!Node("crop", lay.source.w, lay.source.h) EXCEPT !.x = window[1] + ax, !.y = window[2] + ay]
<1>1. lay.source \in Layout!Sizes /\ original \in Layout!Sizes /\ Fits(lay.source, original)
  BY DEF StepsInv, Sound, Layouts
<1>2. /\ lay.source.w \in 1 .. MaxSize /\ lay.source.h \in 1 .. MaxSize /\ MaxSize \in Nat
      /\ lay.source = Layout!Size(lay.source.w, lay.source.h)
  BY <1>1, SidesOf DEF Layout!SizingAssumption
<1>3. /\ original.w = window[3] - window[1] /\ original.h = window[4] - window[2]
      /\ window[1] \in Int /\ window[2] \in Int /\ window[3] \in Int /\ window[4] \in Int
      /\ 0 <= window[1] /\ 0 <= window[2] /\ window[3] <= s.w /\ window[4] <= s.h
  BY DEF LayoutAsked, IsWindow, Layout!Size
<1>4. ax \in 0 .. original.w - lay.source.w /\ ay \in 0 .. original.h - lay.source.h
  BY <1>1, AlignedWithin
<1>5. s \in Layout!Sizes
  <2>1. source \in Layout!Sizes
    BY DEF LayoutAsked
  <2>2. source.w \in 1 .. MaxSize /\ source.h \in 1 .. MaxSize
    BY <2>1, SidesOf
  <2> QED BY <2>1, <2>2, SizeOf DEF Layout!Precrop
<1>6. s.w \in Nat /\ s.h \in Nat
  BY <1>5, SidesOf
<1>7. Layout!CropNode = IF window[1] + ax > 0 \/ window[2] + ay > 0 \/ lay.source # s THEN <<n>> ELSE <<>>
  BY DEF Layout!CropNode
<1> HIDE DEF ax, ay, s
<1>8. CASE window[1] + ax > 0 \/ window[2] + ay > 0 \/ lay.source # s
  <2>1. /\ n \in Nodes /\ n.node = "crop" /\ n.w = lay.source.w /\ n.h = lay.source.h
        /\ n.x = window[1] + ax /\ n.y = window[2] + ay
    <3>1. window[1] + ax \in Int /\ window[2] + ay \in Int /\ lay.source.w \in Int /\ lay.source.h \in Int
      BY <1>2, <1>3, <1>4
    <3>2. "crop" \in NodeWords
      BY DEF NodeWords
    <3> DEFINE m == Layout!Node("crop", lay.source.w, lay.source.h)
               a == window[1] + ax
               b == window[2] + ay
    <3>3. m \in Nodes /\ m.node = "crop" /\ m.w = lay.source.w /\ m.h = lay.source.h
      BY <3>1, <3>2, NodeIs
    <3>4. a \in Int /\ b \in Int
      BY <3>1
    <3> HIDE DEF m, a, b
    <3>5. LET o == [m EXCEPT !.x = a, !.y = b] IN
          o \in Nodes /\ o.node = m.node /\ o.w = m.w /\ o.h = m.h /\ o.x = a /\ o.y = b
      BY <3>3, <3>4, NodeAt
    <3>6. n = [m EXCEPT !.x = a, !.y = b]
      BY DEF m, a, b
    <3> HIDE DEF n
    <3>7. n \in Nodes /\ n.node = m.node /\ n.w = m.w /\ n.h = m.h /\ n.x = a /\ n.y = b
      BY <3>5, <3>6, Zenon
    <3> QED BY <3>3, <3>7 DEF a, b
  <2>2. n.x >= 0 /\ n.y >= 0 /\ n.x + n.w <= s.w /\ n.y + n.h <= s.h
    <3> HIDE DEF n
    <3>1. window[1] + ax + lay.source.w <= s.w
      BY <1>2, <1>3, <1>4, <1>6
    <3>2. window[2] + ay + lay.source.h <= s.h
      BY <1>2, <1>3, <1>4, <1>6
    <3> QED BY <1>3, <1>4, <2>1, <3>1, <3>2
  <2> HIDE DEF n
  <2>3. Layout!After(n, s) = lay.source
    BY <1>2, <2>1, <2>2 DEF Layout!After
  <2>4. Carries(s, <<n>>, lay.source)
    BY <1>1, <1>5, <2>1, <2>3, OneCarries
  <2> QED BY <1>7, <1>8, <2>4 DEF s
<1>9. CASE ~(window[1] + ax > 0 \/ window[2] + ay > 0 \/ lay.source # s)
  BY <1>5, <1>7, <1>9, NoneCarries DEF s
<1> QED BY <1>8, <1>9

\* Scaling leaves the image.
LEMMA ScaleCarries ==
  ASSUME Layout!SizingAssumption, LayoutAsked, StepsInv
  PROVE  Carries(lay.source, Layout!ScaleNode, lay.image)
<1> DEFINE n == Layout!Node("resample_2d", lay.image.w, lay.image.h)
<1>1. lay.source \in Layout!Sizes /\ lay.image \in Layout!Sizes
  BY DEF StepsInv, Sound, Layouts
<1>2. lay.image.w \in Int /\ lay.image.h \in Int /\ lay.image = Layout!Size(lay.image.w, lay.image.h)
  BY <1>1, SidesOf
<1>3. n \in Nodes /\ n.node = "resample_2d" /\ n.w = lay.image.w /\ n.h = lay.image.h
  <2>1. "resample_2d" \in NodeWords
    BY DEF NodeWords
  <2> QED BY <1>2, <2>1, NodeIs
<1>4. Layout!ScaleNode = IF lay.image # lay.source \/ instructions.sharpen THEN <<n>> ELSE <<>>
  BY DEF Layout!ScaleNode
<1> HIDE DEF n
<1>5. Layout!After(n, lay.source) = lay.image
  BY <1>2, <1>3 DEF Layout!After
<1>6. Carries(lay.source, <<n>>, lay.image)
  BY <1>1, <1>3, <1>5, OneCarries
<1>7. Carries(lay.source, <<>>, lay.source)
  BY <1>1, NoneCarries
<1> QED BY <1>4, <1>6, <1>7

\* No padding is negative, and it leaves the canvas.
LEMMA PadCarries ==
  ASSUME Layout!SizingAssumption, LayoutAsked, StepsInv
  PROVE  /\ \A n \in 1 .. 4 : Layout!Padding[n] \in Nat
         /\ Carries(lay.image, Layout!PadNode, lay.canvas)
<1> DEFINE left == Layout!AlignX(lay.image, lay.canvas)
           top == Layout!AlignY(lay.image, lay.canvas)
           right == lay.canvas.w - lay.image.w - left
           bottom == lay.canvas.h - lay.image.h - top
           p == Layout!Padding
           n == [Layout!Node("expand_canvas", right, bottom) EXCEPT !.x = left, !.y = top]
<1>1. lay.image \in Layout!Sizes /\ lay.canvas \in Layout!Sizes /\ Fits(lay.image, lay.canvas)
  BY DEF StepsInv, Sound, Layouts
<1>2. /\ lay.image.w \in Nat /\ lay.image.h \in Nat /\ lay.canvas.w \in Nat /\ lay.canvas.h \in Nat
      /\ lay.image = Layout!Size(lay.image.w, lay.image.h) /\ lay.canvas = Layout!Size(lay.canvas.w, lay.canvas.h)
  BY <1>1, SidesOf
<1>3. left \in 0 .. lay.canvas.w - lay.image.w /\ top \in 0 .. lay.canvas.h - lay.image.h
  BY <1>1, AlignedWithin
<1>4. p = <<left, top, right, bottom>>
  BY DEF Layout!Padding
<1>5. Layout!PadNode = IF \E k \in 1 .. 4 : p[k] > 0 THEN <<[Layout!Node("expand_canvas", p[3], p[4]) EXCEPT !.x = p[1], !.y = p[2]]>> ELSE <<>>
  BY DEF Layout!PadNode
<1> HIDE DEF left, top, p
<1>6. left \in Nat /\ top \in Nat /\ right \in Nat /\ bottom \in Nat
      /\ left + lay.image.w + right = lay.canvas.w /\ top + lay.image.h + bottom = lay.canvas.h
  BY <1>2, <1>3
<1> HIDE DEF right, bottom
<1>7. p[1] = left /\ p[2] = top /\ p[3] = right /\ p[4] = bottom
  BY <1>4
<1>8. \A k \in 1 .. 4 : p[k] \in Nat
  BY <1>6, <1>7
<1>9. CASE \E k \in 1 .. 4 : p[k] > 0
  <2>1. Layout!PadNode = <<n>>
    BY <1>5, <1>7, <1>9
  <2>2. /\ n \in Nodes /\ n.node = "expand_canvas" /\ n.w = right /\ n.h = bottom /\ n.x = left /\ n.y = top
    <3>1. "expand_canvas" \in NodeWords /\ right \in Int /\ bottom \in Int /\ left \in Int /\ top \in Int
      BY <1>6 DEF NodeWords
    <3> DEFINE m == Layout!Node("expand_canvas", right, bottom)
    <3>2. m \in Nodes /\ m.node = "expand_canvas" /\ m.w = right /\ m.h = bottom
      BY <3>1, NodeIs
    <3> HIDE DEF m
    <3>3. LET o == [m EXCEPT !.x = left, !.y = top] IN
          o \in Nodes /\ o.node = m.node /\ o.w = m.w /\ o.h = m.h /\ o.x = left /\ o.y = top
      <4>1. left \in Int /\ top \in Int /\ m \in Nodes
        BY <3>1, <3>2
      <4> QED BY <4>1 DEF Nodes
    <3>4. n = [m EXCEPT !.x = left, !.y = top]
      BY DEF m
    <3> HIDE DEF n
    <3>5. n \in Nodes /\ n.node = m.node /\ n.w = m.w /\ n.h = m.h /\ n.x = left /\ n.y = top
      BY <3>3, <3>4, Zenon
    <3> QED BY <3>2, <3>5
  <2> HIDE DEF n
  <2>3. Layout!After(n, lay.image) = Layout!Size(left + lay.image.w + right, top + lay.image.h + bottom)
    BY <2>2 DEF Layout!After
  <2>4. Layout!After(n, lay.image) = lay.canvas
    BY <1>2, <1>6, <2>3
  <2> QED BY <1>1, <1>8, <2>1, <2>2, <2>4, OneCarries DEF p
<1>10. CASE ~\E k \in 1 .. 4 : p[k] > 0
  <2>1. left = 0 /\ top = 0 /\ right = 0 /\ bottom = 0
    BY <1>6, <1>7, <1>10
  <2>2. lay.image = lay.canvas
    BY <1>2, <1>6, <2>1
  <2> QED BY <1>1, <1>5, <1>8, <1>10, <2>2, NoneCarries DEF p
<1> QED BY <1>9, <1>10

-----------------------------------------------------------------------------
\* The nodes, once they are chosen, carry the image to the canvas, turned last.
Goal == Layout!Turned(Layout!Or(instructions.rotate, 0), lay.canvas)
NodesCarry ==
  /\ verdict \in {"running", "failed", "done"}
  /\ verdict = "done" => Carries(source, nodes, Goal)
  /\ verdict # "done" => nodes = <<>>

\* Choosing them.
LEMMA ChosenCarry ==
  ASSUME Layout!SizingAssumption, LayoutAsked, StepsInv, Layout!AddSteps
  PROVE  NodesCarry' /\ LayoutAsked' /\ StepsInv'
<1> DEFINE j == instructions
           s == Layout!Precrop(j, source)
           a == Layout!Rotate(j.srotate)
           b == Layout!Flip(j.sflip)
           c == Layout!CropNode
           d == Layout!ScaleNode
           e == Layout!FilterNodes
           f == Layout!PadNode
           g == Layout!Rotate(j.rotate)
           h == Layout!Flip(j.flip)
<1>1. /\ verdict' = IF f # <<>> /\ \E n \in 1 .. 4 : Layout!Padding[n] < 0 THEN "panic" ELSE "done"
      /\ nodes' = a \o b \o c \o d \o e \o f \o g \o h
      /\ UNCHANGED <<original, plan, lay, rest, skipping, instructions, source, window>>
  BY DEF Layout!AddSteps
<1>2. j \in Layout!Instructions /\ source \in Layout!Sizes
  BY DEF LayoutAsked
<1>3. lay.source \in Layout!Sizes /\ lay.image \in Layout!Sizes /\ lay.canvas \in Layout!Sizes
  BY DEF StepsInv, Sound, Layouts
<1>4. /\ j.srotate \in SUBSET {0, 90, 180, 270} /\ j.rotate \in SUBSET {0, 90, 180, 270}
      /\ j.sflip \in SUBSET (BOOLEAN \X BOOLEAN) /\ j.flip \in SUBSET (BOOLEAN \X BOOLEAN)
  BY <1>2 DEF Layout!Instructions, Layout!Turns
<1>5. Layout!Turned(Layout!Or(j.srotate, 0), source) = s
  <2> DEFINE r == Layout!Or(j.srotate, 0)
  <2>1. r \in {0, 90, 180, 270}
    <3>1. r \in j.srotate \/ r = 0
      BY DEF Layout!Or
    <3> HIDE DEF r, j
    <3> QED BY <1>4, <3>1
  <2>2. s = IF ((r \div 90) + 4) % 2 = 0 THEN source ELSE Layout!Size(source.h, source.w)
    BY DEF Layout!Precrop
  <2> HIDE DEF r
  <2>3. /\ r = 0 => ((r \div 90) + 4) % 2 = 0
        /\ r = 90 => ((r \div 90) + 4) % 2 # 0
        /\ r = 180 => ((r \div 90) + 4) % 2 = 0
        /\ r = 270 => ((r \div 90) + 4) % 2 # 0
    OBVIOUS
  <2>4. Layout!Turned(r, source) = s
    BY <2>1, <2>2, <2>3 DEF Layout!Turned
  <2> QED BY <2>4 DEF r
<1>6. Carries(source, a, s)
  <2>1. Carries(source, a, Layout!Turned(Layout!Or(j.srotate, 0), source))
    BY <1>2, <1>4, RotateCarries
  <2> QED BY <1>5, <2>1
<1>7. s \in Layout!Sizes
  BY <1>6 DEF Carries
<1>8. Carries(s, b, s)
  BY <1>4, <1>7, FlipCarries
<1>9. Carries(s, c, lay.source) /\ Carries(lay.source, d, lay.image) /\ Carries(lay.image, f, lay.canvas)
  BY CropCarries, ScaleCarries, PadCarries
<1>10. Carries(lay.image, e, lay.image)
  BY <1>3, FiltersCarry
<1>11. Carries(lay.canvas, g, Goal)
  BY <1>3, <1>4, RotateCarries DEF Goal
<1>12. Goal \in Layout!Sizes
  BY <1>11 DEF Carries
<1>13. Carries(Goal, h, Goal)
  BY <1>4, <1>12, FlipCarries
<1>14. \A n \in 1 .. 4 : Layout!Padding[n] \in Nat
  BY PadCarries
<1>15. verdict' = "done"
  <2>1. ASSUME NEW n \in 1 .. 4, Layout!Padding[n] < 0
        PROVE  FALSE
    BY <1>14, <2>1
  <2> QED BY <1>1, <2>1
<1> HIDE DEF a, b, c, d, e, f, g, h, s, j
<1>16. Carries(source, a \o b \o c \o d \o e \o f \o g \o h, Goal)
  <2>1. Carries(source, a \o b, s)
    BY <1>6, <1>8, CarriesOn
  <2>2. Carries(source, a \o b \o c, lay.source)
    BY <1>9, <2>1, CarriesOn
  <2>3. Carries(source, a \o b \o c \o d, lay.image)
    BY <1>9, <2>2, CarriesOn
  <2>4. Carries(source, a \o b \o c \o d \o e, lay.image)
    BY <1>10, <2>3, CarriesOn
  <2>5. Carries(source, a \o b \o c \o d \o e \o f, lay.canvas)
    BY <1>9, <2>4, CarriesOn
  <2>6. Carries(source, a \o b \o c \o d \o e \o f \o g, Goal)
    BY <1>11, <2>5, CarriesOn
  <2> QED BY <1>13, <2>6, CarriesOn
<1>17. Goal' = Goal /\ source' = source
  BY <1>1 DEF Goal
<1>18. Carries(source', nodes', Goal')
  BY <1>1, <1>16, <1>17
<1>19. NodesCarry'
  BY <1>15, <1>18 DEF NodesCarry
<1>20. LayoutAsked' /\ StepsInv'
  BY <1>1 DEF LayoutAsked, IsWindow, StepsInv, Sound
<1> QED BY <1>19, <1>20

-----------------------------------------------------------------------------
\* What holds of all that is looked at.
LayoutInv ==
  /\ StepsInv
  /\ part = "layout" => LayoutAsked /\ NodesCarry

\* It holds when something is asked.
LEMMA LayoutsBegin ==
  ASSUME RiapiAssumption, RiapiInit
  PROVE  LayoutInv
<1>0. Layout!SizingAssumption /\ Layout!AskedAssumption /\ Side \in Nat /\ Side < MaxSize /\ MaxSize \in Nat \ {0}
  BY DEF RiapiAssumption, Layout!SizingAssumption
<1>1. LayoutInit
  BY DEF RiapiInit
<1>2. ASSUME NEW s, NEW o \in [w : 1 .. s, h : 1 .. s], s \in Nat, s <= MaxSize
      PROVE  o \in Layout!Sizes
  BY <1>0, <1>2 DEF Layout!Sizes
<1>3. Layout!Size(1, 1) \in Layout!Sizes
  BY <1>0, SizeOf
<1>4. CASE part = "layout"
  <2>1. Layout!Init
    BY <1>1, <1>4 DEF LayoutInit
  <2> DEFINE w == window
             o == Layout!Size(w[3] - w[1], w[4] - w[2])
  <2>2. /\ \E x \in Asked : instructions = x.instructions /\ source = x.image
        /\ window = Layout!InitialWindow(instructions, Layout!Precrop(instructions, source))
        /\ \E t \in Layout!IdealTargets(instructions, o) : Layout!Start(o, t, Layout!BuildConstraints(instructions))
        /\ nodes = <<>>
    BY <2>1 DEF Layout!Init
  <2>3. instructions \in Layout!Instructions /\ source \in Layout!Sizes
    BY <1>0, <2>2 DEF Layout!AskedAssumption
  <2>4. Layout!Precrop(instructions, source) \in Layout!Sizes
    <3>1. source.w \in 1 .. MaxSize /\ source.h \in 1 .. MaxSize
      BY <1>0, <2>3, SidesOf
    <3> QED BY <2>3, <3>1, SizeOf DEF Layout!Precrop
  <2>5. IsWindow(window, Layout!Precrop(instructions, source))
    BY <1>0, <2>2, <2>3, <2>4, WindowIs
  <2>6. o \in Layout!Sizes
    <3> DEFINE s == Layout!Precrop(instructions, source)
    <3>1. s.w \in 1 .. MaxSize /\ s.h \in 1 .. MaxSize
      BY <1>0, <2>4, SidesOf
    <3>2. IsWindow(w, s)
      BY <2>5
    <3> HIDE DEF s
    <3>3. w[3] - w[1] \in 1 .. MaxSize /\ w[4] - w[2] \in 1 .. MaxSize
      BY <1>0, <3>1, <3>2 DEF IsWindow
    <3> QED BY <3>3, SizeOf
  <2> HIDE DEF o
  <2>7. PICK t \in Layout!IdealTargets(instructions, o) : Layout!Start(o, t, Layout!BuildConstraints(instructions))
    BY <2>2
  <2>8. t \in Layout!Sizes
    BY <1>0, <2>3, <2>6, TargetsAre
  <2>9. Layout!BuildConstraints(instructions) \in Seq(Steps)
    BY <2>3, ConstraintsAre
  <2>10. StepsInv /\ verdict = "running"
    BY <1>0, <2>6, <2>7, <2>8, <2>9, StepsBegin
  <2>11. original = o
    BY <2>7 DEF Layout!Start
  <2>12. LayoutAsked
    BY <2>3, <2>5, <2>11 DEF LayoutAsked, o
  <2>13. NodesCarry
    BY <2>2, <2>10 DEF NodesCarry
  <2> QED BY <2>10, <2>12, <2>13 DEF LayoutInv
<1>5. CASE part = "steps"
  <2>1. PICK o, t \in Square(Side), p \in Strategies \cup OddPlans : Layout!Start(o, t, p)
    BY <1>1, <1>5 DEF LayoutInit
  <2>2. o \in Layout!Sizes /\ t \in Layout!Sizes
    BY <1>0, <1>2 DEF Square
  <2>3. p \in Seq(Steps)
    BY PlansAre
  <2>4. StepsInv
    BY <1>0, <2>1, <2>2, <2>3, StepsBegin
  <2> QED BY <1>5, <2>4 DEF LayoutInv
<1>6. CASE part # "layout" /\ part # "steps"
  <2>1. Layout!Start(Layout!Size(1, 1), Layout!Size(1, 1), <<>>)
    BY <1>1, <1>6 DEF LayoutInit
  <2>2. <<>> \in Seq(Steps)
    OBVIOUS
  <2>3. StepsInv
    BY <1>0, <1>3, <2>1, <2>2, StepsBegin
  <2> QED BY <1>6, <2>3 DEF LayoutInv
<1> QED BY <1>4, <1>5, <1>6

\* It stays.
LEMMA LayoutsGoOn ==
  ASSUME RiapiAssumption, LayoutInv, [RiapiNext]_riapiVars
  PROVE  LayoutInv'
<1>0. Layout!SizingAssumption
  BY DEF RiapiAssumption
<1>1. ASSUME UNCHANGED <<part, stepsVars, nodesVars>>
      PROVE  LayoutInv'
  <2>1. UNCHANGED <<part, original, lay, rest, skipping, verdict, instructions, source, window, nodes>>
    BY <1>1 DEF stepsVars, nodesVars
  <2>2. StepsInv'
    BY <2>1 DEF LayoutInv, StepsInv, Sound
  <2>3. part = "layout" => LayoutAsked' /\ NodesCarry'
    BY <2>1 DEF LayoutInv, LayoutAsked, IsWindow, NodesCarry, Carries, Leads, Goal
  <2> QED BY <2>1, <2>2, <2>3 DEF LayoutInv
<1>2. CASE LayoutStep
  <2>1. part = "layout" /\ part' = part /\ Layout!Next
    BY <1>2 DEF LayoutStep
  <2>2. CASE Layout!AddSteps
    <3>1. NodesCarry' /\ LayoutAsked' /\ StepsInv'
      BY <1>0, <2>1, <2>2, ChosenCarry DEF LayoutInv
    <3> QED BY <3>1 DEF LayoutInv
  <2>3. CASE Layout!Advance /\ UNCHANGED <<instructions, source, window, nodes>>
    <3>1. StepsInv' /\ verdict = "running" /\ verdict' \in {"running", "failed"}
      BY <1>0, <2>3, StepsAdvance DEF LayoutInv
    <3>2. original' = original
      BY <2>3 DEF Layout!Advance
    <3>3. LayoutAsked'
      BY <2>1, <2>3, <3>2 DEF LayoutInv, LayoutAsked, IsWindow
    <3>4. nodes' = <<>>
      BY <2>1, <2>3, <3>1 DEF LayoutInv, NodesCarry
    <3>5. NodesCarry'
      BY <3>1, <3>4 DEF NodesCarry
    <3> QED BY <3>1, <3>3, <3>5 DEF LayoutInv
  <2> QED BY <2>1, <2>2, <2>3 DEF Layout!Next
<1>3. CASE StepsStep
  <2>1. part = "steps" /\ part' = part /\ Layout!Advance
    BY <1>3 DEF StepsStep
  <2>2. StepsInv'
    BY <1>0, <2>1, StepsAdvance DEF LayoutInv
  <2> QED BY <2>1, <2>2 DEF LayoutInv
<1>4. CASE ParserStep
  BY <1>1, <1>4 DEF ParserStep
<1>5. CASE ColorStep
  BY <1>1, <1>5 DEF ColorStep
<1>6. CASE UNCHANGED riapiVars
  BY <1>1, <1>6 DEF riapiVars
<1> QED BY <1>2, <1>3, <1>4, <1>5, <1>6 DEF RiapiNext

\* What follows from it: the source stays within the original and the image within
\* the canvas.
LEMMA LayoutsAreWithin ==
  ASSUME RiapiAssumption, LayoutInv
  PROVE  Layout!StaysWithin
<1>0. Layout!SizingAssumption
  BY DEF RiapiAssumption
<1>1. /\ lay.source \in Layout!Sizes /\ original \in Layout!Sizes /\ Fits(lay.source, original)
      /\ lay.image \in Layout!Sizes /\ lay.canvas \in Layout!Sizes /\ Fits(lay.image, lay.canvas)
  BY DEF LayoutInv, StepsInv, Sound, Layouts
<1> QED BY <1>0, <1>1, FitsFits DEF Layout!StaysWithin

\* And the nodes fit.
LEMMA LayoutsAreFit ==
  ASSUME RiapiAssumption, LayoutInv
  PROVE  LayoutsFit
<1> SUFFICES ASSUME part = "layout"
             PROVE  Layout!TypeOKLayout /\ Layout!NodesFit
  BY LayoutsAreWithin DEF LayoutsFit
<1>1. LayoutAsked /\ NodesCarry /\ lay \in Layouts
  BY DEF LayoutInv, StepsInv, Sound
<1>2. Layout!TypeOKLayout
  BY <1>1 DEF Layout!TypeOKLayout, LayoutAsked, IsWindow, NodesCarry, Layouts
<1>3. Layout!NodesFit
  <2>1. verdict # "panic"
    BY <1>1 DEF NodesCarry
  <2>2. ASSUME verdict = "done"
        PROVE  Layout!SizeAfter[Len(nodes)] = Goal
    <3>1. nodes \in Seq(Nodes) /\ Leads(source, nodes, Goal)
      BY <1>1, <2>2 DEF NodesCarry, Carries
    <3> QED BY <3>1, LeadsThere
  <2> QED BY <2>1, <2>2 DEF Layout!NodesFit, Goal
<1> QED BY <1>2, <1>3

\* The nodes of every layout can be carried out one after the other, and what comes
\* out has the size of the canvas, for images, crops and sizes of any numbers; no list
\* of steps takes the source out of the original or the image out of the canvas, on
\* which it is placed, whatever is rounded on the way (layout.rs:243-351).
THEOREM LayoutsAlwaysFit == RiapiSpec => []LayoutsFit
<1>1. RiapiInit => LayoutInv
  BY RiapiAssumption, LayoutsBegin
<1>2. LayoutInv /\ [RiapiNext]_riapiVars => LayoutInv'
  BY RiapiAssumption, LayoutsGoOn
<1>3. LayoutInv => LayoutsFit
  BY RiapiAssumption, LayoutsAreFit
<1> QED BY <1>1, <1>2, <1>3, PTL DEF RiapiSpec

-----------------------------------------------------------------------------
\* What a text of one or two digits says, and a text that may be signed.
DigitChars == {"0", "2", "f"}
DigitValues == {0, 2, 15}
IsByte(b) == \E x, y \in DigitValues : b = 16 * x + y

\* The digits and their values.
LEMMA DigitsAre ==
  /\ DOMAIN Color!Digit = DigitChars
  /\ Color!Digit["0"] = 0 /\ Color!Digit["2"] = 2 /\ Color!Digit["f"] = 15
  /\ \A x \in DigitChars : Color!Digit[x] \in DigitValues
  /\ \A x \in DigitChars : x # "+"
  BY DEF Color!Digit, DigitChars, DigitValues

\* Two digits make a byte.
LEMMA TwoDigits ==
  ASSUME NEW x \in DigitChars, NEW y \in DigitChars
  PROVE  /\ Color!Value(<<x, y>>) = 16 * Color!Digit[x] + Color!Digit[y]
         /\ Color!Unsigned(<<x, y>>) = <<x, y>>
         /\ Color!Byte(<<x, y>>) = 16 * Color!Digit[x] + Color!Digit[y]
         /\ IsByte(Color!Byte(<<x, y>>))
<1>1. Len(<<x, y>>) = 2 /\ <<x, y>>[1] = x /\ <<x, y>>[2] = y /\ Head(<<x, y>>) = x
  OBVIOUS
<1>2. Color!Value(<<x, y>>) = 16 * Color!Digit[x] + Color!Digit[y]
  BY <1>1 DEF Color!Value
<1>3. Color!Unsigned(<<x, y>>) = <<x, y>>
  BY <1>1, DigitsAre DEF Color!Unsigned
<1>4. Color!Byte(<<x, y>>) = 16 * Color!Digit[x] + Color!Digit[y]
  BY <1>1, <1>2, <1>3 DEF Color!Byte
<1>5. IsByte(Color!Byte(<<x, y>>))
  BY <1>4, DigitsAre DEF IsByte
<1> QED BY <1>2, <1>3, <1>4, <1>5

\* One digit counts twice.
LEMMA OneDigit ==
  ASSUME NEW x \in DigitChars
  PROVE  Color!Byte(<<x>>) = 16 * Color!Digit[x] + Color!Digit[x] /\ IsByte(Color!Byte(<<x>>))
<1>1. Len(<<x>>) = 1 /\ <<x>>[1] = x
  OBVIOUS
<1>2. Color!Byte(<<x>>) = 17 * Color!Digit[x]
  BY <1>1 DEF Color!Byte, Color!Value
<1>3. Color!Digit[x] \in DigitValues
  BY DigitsAre
<1>4. 17 * Color!Digit[x] = 16 * Color!Digit[x] + Color!Digit[x]
  BY <1>3 DEF DigitValues
<1> QED BY <1>2, <1>3, <1>4 DEF IsByte

\* Texts of one or two characters that are numbers make bytes, signed or not.
LEMMA NumbersAreBytes ==
  ASSUME NEW S, NEW s \in Seq(S), Len(s) \in {1, 2}, Color!IsNumber(s, 2)
  PROVE  IsByte(Color!Byte(s))
<1> DEFINE u == Color!Unsigned(s)
<1>1. u # <<>> /\ \A n \in DOMAIN u : u[n] \in DigitChars
  BY DigitsAre DEF Color!IsNumber
<1>2. u = IF s # <<>> /\ Head(s) = "+" THEN Tail(s) ELSE s
  BY DEF Color!Unsigned
<1> HIDE DEF u
<1>3. CASE Len(s) = 1
  <2>1. s = <<s[1]>> /\ s # <<>>
    BY <1>3
  <2>2. Tail(s) \in Seq(S) /\ Len(Tail(s)) = 0
    BY <1>3, <2>1, HeadTailProperties
  <2>a. Tail(s) = <<>>
    BY <2>2, EmptySeq
  <2>3. u = s /\ 1 \in DOMAIN s
    BY <1>1, <1>2, <1>3, <2>a
  <2>4. s[1] \in DigitChars
    BY <1>1, <2>3
  <2> QED BY <2>1, <2>4, OneDigit
<1>4. CASE Len(s) = 2
  <2>1. s = <<s[1], s[2]>> /\ s # <<>> /\ Head(s) = s[1]
    BY <1>4
  <2>2. CASE s[1] = "+"
    <3>a. u = Tail(s)
      BY <1>2, <2>1, <2>2
    <3>b. /\ Tail(s) \in Seq(S) /\ Len(Tail(s)) = 1
          /\ \A n \in 1 .. Len(Tail(s)) : Tail(s)[n] = s[n + 1]
      BY <1>4, <2>1, HeadTailProperties
    <3>c. Tail(s)[1] = s[2] /\ s[2] \in S
      <4>a. Len(Tail(s)) = 1
        BY <3>b
      <4>b. \A n \in 1 .. 1 : Tail(s)[n] = s[n + 1]
        BY <3>b, <4>a
      <4>c. 1 \in 1 .. 1
        OBVIOUS
      <4>d. Tail(s)[1] = s[1 + 1]
        BY <4>b, <4>c, Zenon
      <4>e. 1 + 1 = 2
        OBVIOUS
      <4>1. Tail(s)[1] = s[2]
        BY <4>d, <4>e
      <4>2. s[2] \in S
        <5>1. 2 \in 1 .. Len(s)
          BY <1>4
        <5> QED BY <5>1, ElementOfSeq
      <4> QED BY <4>1, <4>2
    <3>d. <<s[2]>> \in Seq(S) /\ Len(<<s[2]>>) = 1 /\ <<s[2]>>[1] = s[2]
      BY <3>c
    <3>e. Tail(s) = <<s[2]>>
      <4>a. Len(Tail(s)) = 1
        BY <3>b
      <4>b. ASSUME NEW n \in 1 .. 1
            PROVE  Tail(s)[n] = <<s[2]>>[n]
        <5>1. n = 1
          OBVIOUS
        <5> QED BY <3>c, <3>d, <5>1, Zenon
      <4>1. \A n \in 1 .. Len(Tail(s)) : Tail(s)[n] = <<s[2]>>[n]
        BY <4>a, <4>b
      <4> QED BY <3>b, <3>d, <4>1, SeqEqual
    <3>1. u = <<s[2]>>
      BY <3>a, <3>e
    <3>2. s[2] \in DigitChars
      BY <1>1, <3>1
    <3>3. Color!Byte(s) = Color!Value(u)
      BY <1>4 DEF Color!Byte, u
    <3>4. Color!Value(u) = Color!Digit[s[2]]
      BY <3>1 DEF Color!Value
    <3>5. Color!Digit[s[2]] \in DigitValues /\ 0 \in DigitValues
      BY <3>2, DigitsAre DEF DigitValues
    <3>6. Color!Byte(s) = 16 * 0 + Color!Digit[s[2]]
      BY <3>3, <3>4, <3>5 DEF DigitValues
    <3> QED BY <3>5, <3>6 DEF IsByte
  <2>3. CASE s[1] # "+"
    <3>1. u = s /\ 1 \in DOMAIN s /\ 2 \in DOMAIN s
      BY <1>2, <1>4, <2>1, <2>3
    <3>2. s[1] \in DigitChars /\ s[2] \in DigitChars
      BY <1>1, <3>1
    <3>3. IsByte(Color!Byte(<<s[1], s[2]>>))
      BY <3>2, TwoDigits
    <3> QED BY <2>1, <3>3
  <2> QED BY <2>2, <2>3
<1> QED BY <1>3, <1>4

\* The lengths of texts that are bytes.
LEMMA ShortLengths ==
  ASSUME NEW k \in {1, 2}
  PROVE  k \in Nat /\ k <= 2 /\ k # 0
  OBVIOUS

\* The lengths of texts that are colors.
LEMMA LongLengths ==
  ASSUME NEW k \in {3, 4, 6, 8}
  PROVE  k \in Nat /\ k <= 8 /\ k # 0
  OBVIOUS

\* The texts of the bytes: of one character each, or two.
LEMMA BytesAre ==
  ASSUME NEW S, NEW s \in Seq(S), Len(s) \in {3, 4, 6, 8}
  PROVE  /\ DOMAIN Color!Bytes(s) = 1 .. (IF Len(s) \in {3, 6} THEN 3 ELSE 4)
         /\ \A n \in DOMAIN Color!Bytes(s) :
              /\ Color!Bytes(s)[n] \in Seq(S)
              /\ Len(s) \in {3, 4} => Len(Color!Bytes(s)[n]) = 1 /\ Color!Bytes(s)[n][1] = s[n]
              /\ Len(s) \in {6, 8} => /\ Len(Color!Bytes(s)[n]) = 2
                                      /\ Color!Bytes(s)[n][1] = s[2 * n - 1]
                                      /\ Color!Bytes(s)[n][2] = s[2 * n]
<1> DEFINE k == IF Len(s) < 5 THEN 1 ELSE 2
           B == Color!Bytes(s)
<1>a. B = [n \in 1 .. (Len(s) \div k) |-> SubSeq(s, k * (n - 1) + 1, k * n)]
  BY DEF Color!Bytes
<1>e. Len(s) = 3 \/ Len(s) = 4 \/ Len(s) = 6 \/ Len(s) = 8
  OBVIOUS
<1>b. /\ Len(s) \in {3, 4} => k = 1
      /\ Len(s) \in {6, 8} => k = 2
  <2>1. CASE Len(s) = 3
    BY <2>1
  <2>2. CASE Len(s) = 4
    BY <2>2
  <2>3. CASE Len(s) = 6
    BY <2>3
  <2>4. CASE Len(s) = 8
    BY <2>4
  <2> QED BY <1>e, <2>1, <2>2, <2>3, <2>4
<1>c. 3 \div 1 = 3 /\ 4 \div 1 = 4 /\ 6 \div 2 = 3 /\ 8 \div 2 = 4
  OBVIOUS
<1>d. Len(s) \div k = (IF Len(s) \in {3, 6} THEN 3 ELSE 4)
  BY <1>b, <1>c
<1>1. \A j \in 1 .. Len(s) : s[j] \in S
  OBVIOUS
<1> HIDE DEF k, B
<1>2. CASE Len(s) \in {3, 4}
  <2>1. ASSUME NEW n \in 1 .. Len(s)
        PROVE  B[n] = SubSeq(s, n, n)
    <3>1. k = 1 /\ Len(s) \div k = Len(s)
      BY <1>2, <1>b, <1>d
    <3>2. 1 * (n - 1) + 1 = n /\ 1 * n = n
      OBVIOUS
    <3>3. B[n] = SubSeq(s, k * (n - 1) + 1, k * n)
      BY <1>a, <3>1
    <3> QED BY <3>1, <3>2, <3>3
  <2>2. ASSUME NEW n \in 1 .. Len(s)
        PROVE  SubSeq(s, n, n) \in Seq(S) /\ Len(SubSeq(s, n, n)) = 1 /\ SubSeq(s, n, n)[1] = s[n]
    <3>1. \A j \in n .. n : s[j] \in S
      BY <1>1
    <3>2. n \in Int
      OBVIOUS
    <3> QED BY <3>1, <3>2, SubSeqProperties
  <2>3. DOMAIN B = 1 .. (IF Len(s) \in {3, 6} THEN 3 ELSE 4)
    BY <1>a, <1>d
  <2>a. Len(s) \notin {6, 8} /\ Len(s) = (IF Len(s) \in {3, 6} THEN 3 ELSE 4)
    <3>1. CASE Len(s) = 3
      BY <3>1
    <3>2. CASE Len(s) = 4
      BY <3>2
    <3> QED BY <1>2, <3>1, <3>2
  <2>4. ASSUME NEW n \in DOMAIN B
        PROVE  B[n] \in Seq(S) /\ Len(B[n]) = 1 /\ B[n][1] = s[n]
    <3>1. n \in 1 .. Len(s)
      BY <2>3, <2>a
    <3>2. B[n] = SubSeq(s, n, n)
      BY <2>1, <3>1
    <3>3. SubSeq(s, n, n) \in Seq(S) /\ Len(SubSeq(s, n, n)) = 1 /\ SubSeq(s, n, n)[1] = s[n]
      BY <2>2, <3>1
    <3> QED BY <3>2, <3>3
  <2> QED BY <1>2, <2>3, <2>4, <2>a DEF B
<1>3. CASE Len(s) \in {6, 8}
  <2>1. ASSUME NEW n \in 1 .. (Len(s) \div k)
        PROVE  B[n] = SubSeq(s, 2 * n - 1, 2 * n)
    <3>1. k = 2
      BY <1>3, <1>b
    <3>2. n \in Int
      BY <1>d
    <3>3. 2 * (n - 1) + 1 = 2 * n - 1
      BY <3>2
    <3>4. B[n] = SubSeq(s, k * (n - 1) + 1, k * n)
      BY <1>a
    <3> QED BY <3>1, <3>3, <3>4
  <2>2. ASSUME NEW n \in Int, 1 <= n, 2 * n <= Len(s)
        PROVE  /\ SubSeq(s, 2 * n - 1, 2 * n) \in Seq(S) /\ Len(SubSeq(s, 2 * n - 1, 2 * n)) = 2
               /\ SubSeq(s, 2 * n - 1, 2 * n)[1] = s[2 * n - 1] /\ SubSeq(s, 2 * n - 1, 2 * n)[2] = s[2 * n]
    <3>1. \A j \in 2 * n - 1 .. 2 * n : s[j] \in S
      BY <1>1, <2>2
    <3>2. 2 * n - 1 \in Int /\ 2 * n \in Int
      OBVIOUS
    <3> DEFINE p == 2 * n - 1
               q == 2 * n
    <3>3. q - p + 1 = 2 /\ p <= q /\ p + 1 - 1 = p /\ p + 2 - 1 = q
      OBVIOUS
    <3>4. \A j \in p .. q : s[j] \in S
      BY <3>1
    <3>5. p \in Int /\ q \in Int
      BY <3>2
    <3> HIDE DEF p, q
    <3>6. /\ SubSeq(s, p, q) \in Seq(S)
          /\ Len(SubSeq(s, p, q)) = IF p <= q THEN q - p + 1 ELSE 0
          /\ \A j \in 1 .. q - p + 1 : SubSeq(s, p, q)[j] = s[p + j - 1]
      BY <3>4, <3>5, SubSeqProperties
    <3>7. SubSeq(s, p, q)[1] = s[p] /\ SubSeq(s, p, q)[2] = s[q] /\ Len(SubSeq(s, p, q)) = 2
      BY <3>3, <3>5, <3>6
    <3> QED BY <3>6, <3>7 DEF p, q
  <2>3. DOMAIN B = 1 .. (IF Len(s) \in {3, 6} THEN 3 ELSE 4)
    BY <1>a, <1>d
  <2>4. ASSUME NEW n \in DOMAIN B
        PROVE  B[n] \in Seq(S) /\ Len(B[n]) = 2 /\ B[n][1] = s[2 * n - 1] /\ B[n][2] = s[2 * n]
    <3>1. n \in 1 .. (Len(s) \div k)
      BY <1>d, <2>3
    <3>2. n \in Int /\ 1 <= n /\ 2 * n <= Len(s)
      <4>1. CASE Len(s) = 6
        BY <2>3, <4>1
      <4>2. CASE Len(s) = 8
        BY <2>3, <4>2
      <4> QED BY <1>3, <4>1, <4>2
    <3> QED BY <2>1, <2>2, <3>1, <3>2
  <2>5. Len(s) \notin {3, 4}
    <3>1. CASE Len(s) = 6
      BY <3>1
    <3>2. CASE Len(s) = 8
      BY <3>2
    <3> QED BY <1>3, <3>1, <3>2
  <2> QED BY <2>3, <2>4, <2>5 DEF B
<1> QED BY <1>2, <1>3

\* Digits alone are a number, of as many digits as there are at most.
LEMMA DigitsAreNumbers ==
  ASSUME NEW s \in Seq(DigitChars), s # <<>>, NEW digits \in Nat, Len(s) <= digits
  PROVE  Color!Unsigned(s) = s /\ Color!IsNumber(s, digits)
<1>1. Len(s) \in Nat /\ DOMAIN s = 1 .. Len(s) /\ Head(s) \in DigitChars /\ \A n \in 1 .. Len(s) : s[n] \in DigitChars
  BY HeadTailProperties, LenProperties, ElementOfSeq
<1>2. Color!Unsigned(s) = s
  BY <1>1, DigitsAre DEF Color!Unsigned
<1>3. Len(Color!Significant(s)) <= digits
  <2> DEFINE Significant == {n \in DOMAIN s : s[n] # "0"}
             c == CHOOSE n \in DOMAIN s : s[n] # "0" /\ \A m \in 1 .. (n - 1) : s[m] = "0"
  <2>1. CASE Significant = {}
    <3>1. Color!Significant(s) = <<>>
      BY <2>1 DEF Color!Significant
    <3> QED BY <3>1
  <2>2. CASE Significant # {}
    <3>1. Significant \in SUBSET Nat
      BY <1>1
    <3>2. PICK n \in Significant : \A y \in Significant : n <= y
      BY <2>2, <3>1, LeastNumber
    <3>3. ASSUME NEW m \in 1 .. (n - 1)
          PROVE  s[m] = "0"
      BY <1>1, <3>2
    <3>4. c \in DOMAIN s
      BY <3>2, <3>3
    <3>5. Color!Significant(s) = SubSeq(s, c, Len(s))
      BY <2>2 DEF Color!Significant
    <3> HIDE DEF c
    <3>6. \A j \in c .. Len(s) : s[j] \in DigitChars
      BY <1>1, <3>4
    <3>7. Len(SubSeq(s, c, Len(s))) = Len(s) - c + 1
      BY <1>1, <3>4, <3>6, SubSeqProperties
    <3> QED BY <1>1, <3>4, <3>5, <3>7
  <2> QED BY <2>1, <2>2
<1> QED BY <1>1, <1>2, <1>3, DigitsAre DEF Color!IsNumber

\* What a color of the digits d is: the value of two digits for every byte, where
\* one digit stands for two of it.
LEMMA ChannelsOfDigits ==
  ASSUME NEW d \in Seq(DigitChars), Len(d) \in {3, 4, 6, 8}
  PROVE  /\ Color!Color(d) = "color"
         /\ \A n \in 1 .. 4 :
              Color!Channels(d)[n] =
                IF n = 4 /\ Len(d) \in {3, 6} THEN 255
                ELSE IF Len(d) \in {3, 4} THEN 16 * Color!Digit[d[n]] + Color!Digit[d[n]]
                ELSE 16 * Color!Digit[d[2 * n - 1]] + Color!Digit[d[2 * n]]
<1> DEFINE B == Color!Bytes(d)
<1>1. DOMAIN B = 1 .. (IF Len(d) \in {3, 6} THEN 3 ELSE 4)
  BY BytesAre
<1>2. \A n \in DOMAIN B :
        /\ B[n] \in Seq(DigitChars)
        /\ Len(d) \in {3, 4} => Len(B[n]) = 1 /\ B[n][1] = d[n]
        /\ Len(d) \in {6, 8} => Len(B[n]) = 2 /\ B[n][1] = d[2 * n - 1] /\ B[n][2] = d[2 * n]
  BY BytesAre
<1> HIDE DEF B
<1>a. Len(d) = 3 \/ Len(d) = 4 \/ Len(d) = 6 \/ Len(d) = 8
  OBVIOUS
<1>3. ASSUME NEW n \in DOMAIN B
      PROVE  B[n] \in Seq(DigitChars) /\ B[n] # <<>> /\ Len(B[n]) \in {1, 2}
  <2>1. B[n] \in Seq(DigitChars)
    BY <1>2
  <2>2. Len(B[n]) \in {1, 2}
    BY <1>2, <1>a
  <2>3. B[n] # <<>>
    BY <2>1, <2>2, ShortLengths, EmptySeq
  <2> QED BY <2>1, <2>2, <2>3
<1>4. ASSUME NEW n \in DOMAIN B
      PROVE  Color!IsNumber(B[n], 2) /\ Color!Unsigned(B[n]) = B[n]
  <2>1. Len(B[n]) <= 2 /\ 2 \in Nat
    BY <1>3, ShortLengths
  <2> QED BY <1>3, <2>1, DigitsAreNumbers
<1>5. Color!IsNumber(d, 8)
  <2>1. d # <<>>
    BY LongLengths, EmptySeq
  <2>2. Len(d) <= 8 /\ 8 \in Nat
    BY LongLengths
  <2> QED BY <2>1, <2>2, DigitsAreNumbers
<1>6. Color!Color(d) = "color"
  BY <1>4, <1>5 DEF Color!Color, B
<1>7. ASSUME NEW n \in 1 .. 4
      PROVE  Color!Channels(d)[n] =
               IF n = 4 /\ Len(d) \in {3, 6} THEN 255
               ELSE IF Len(d) \in {3, 4} THEN 16 * Color!Digit[d[n]] + Color!Digit[d[n]]
               ELSE 16 * Color!Digit[d[2 * n - 1]] + Color!Digit[d[2 * n]]
  <2>1. Color!Channels(d)[n] = IF n \in DOMAIN B THEN Color!Byte(B[n]) ELSE 255
    BY DEF Color!Channels, B
  <2>2. n \in DOMAIN B <=> ~(n = 4 /\ Len(d) \in {3, 6})
    <3>1. CASE Len(d) \in {3, 6}
      BY <1>1, <3>1
    <3>2. CASE Len(d) \notin {3, 6}
      BY <1>1, <3>2
    <3> QED BY <3>1, <3>2
  <2>3. CASE n \notin DOMAIN B
    BY <2>1, <2>2, <2>3
  <2>4. CASE n \in DOMAIN B /\ Len(d) \in {3, 4}
    <3>1. Len(B[n]) = 1 /\ B[n][1] = d[n]
      BY <1>2, <2>4
    <3>2. B[n][1] \in DigitChars
      BY <1>3, <2>4, <3>1, ElementOfSeq
    <3>3. Color!Byte(B[n]) = 17 * Color!Digit[d[n]]
      BY <3>1 DEF Color!Byte, Color!Value
    <3>4. Color!Digit[d[n]] \in DigitValues
      BY <3>1, <3>2, DigitsAre
    <3>5. 17 * Color!Digit[d[n]] = 16 * Color!Digit[d[n]] + Color!Digit[d[n]]
      BY <3>4 DEF DigitValues
    <3> QED BY <2>1, <2>2, <2>4, <3>3, <3>5
  <2>5. CASE n \in DOMAIN B /\ Len(d) \notin {3, 4}
    <3>1. Len(B[n]) = 2 /\ B[n][1] = d[2 * n - 1] /\ B[n][2] = d[2 * n]
      BY <1>2, <1>a, <2>5
    <3>2. Color!Byte(B[n]) = Color!Value(B[n])
      BY <1>4, <2>5, <3>1 DEF Color!Byte
    <3>3. Color!Value(B[n]) = 16 * Color!Digit[d[2 * n - 1]] + Color!Digit[d[2 * n]]
      BY <3>1 DEF Color!Value
    <3> QED BY <2>1, <2>2, <2>5, <3>2, <3>3
  <2> QED BY <2>3, <2>4, <2>5
<1> QED BY <1>6, <1>7

\* The value of the n-th two digits.
LEMMA ValueOfPair ==
  ASSUME NEW l \in Seq(DigitChars), Len(l) = 8, NEW n \in 1 .. 4
  PROVE  Color!Value(SubSeq(l, 2 * n - 1, 2 * n)) = 16 * Color!Digit[l[2 * n - 1]] + Color!Digit[l[2 * n]]
<1> DEFINE k == Len(l)
<1>a. k \in {3, 4, 6, 8} /\ k \notin {3, 6} /\ k \in {6, 8} /\ k = 8
  OBVIOUS
<1>c. Len(l) \in {3, 4, 6, 8}
  OBVIOUS
<1>d. /\ DOMAIN Color!Bytes(l) = 1 .. (IF Len(l) \in {3, 6} THEN 3 ELSE 4)
      /\ \A j \in DOMAIN Color!Bytes(l) :
           Len(l) \in {6, 8} => /\ Len(Color!Bytes(l)[j]) = 2
                               /\ Color!Bytes(l)[j][1] = l[2 * j - 1]
                               /\ Color!Bytes(l)[j][2] = l[2 * j]
  <2> HIDE DEF k
  <2> USE <1>c
  <2>1. DOMAIN Color!Bytes(l) = 1 .. (IF Len(l) \in {3, 6} THEN 3 ELSE 4)
    BY BytesAre, Zenon
  <2>2. \A j \in DOMAIN Color!Bytes(l) :
           Len(l) \in {6, 8} => /\ Len(Color!Bytes(l)[j]) = 2
                               /\ Color!Bytes(l)[j][1] = l[2 * j - 1]
                               /\ Color!Bytes(l)[j][2] = l[2 * j]
    <3> SUFFICES ASSUME NEW j \in DOMAIN Color!Bytes(l), Len(l) \in {6, 8}
                 PROVE  /\ Len(Color!Bytes(l)[j]) = 2
                        /\ Color!Bytes(l)[j][1] = l[2 * j - 1]
                        /\ Color!Bytes(l)[j][2] = l[2 * j]
      OBVIOUS
    <3> QED BY BytesAre, Zenon
  <2> QED BY <2>1, <2>2, Zenon
<1> HIDE DEF k
<1>b. /\ DOMAIN Color!Bytes(l) = 1 .. (IF k \in {3, 6} THEN 3 ELSE 4)
      /\ \A j \in DOMAIN Color!Bytes(l) :
           k \in {6, 8} => /\ Len(Color!Bytes(l)[j]) = 2
                          /\ Color!Bytes(l)[j][1] = l[2 * j - 1]
                          /\ Color!Bytes(l)[j][2] = l[2 * j]
  BY <1>d, Zenon DEF k
<1>1. DOMAIN Color!Bytes(l) = 1 .. 4
  BY <1>a, <1>b
<1>2. Len(Color!Bytes(l)[n]) = 2 /\ Color!Bytes(l)[n][1] = l[2 * n - 1] /\ Color!Bytes(l)[n][2] = l[2 * n]
  BY <1>a, <1>b, <1>1
<1>3. Color!Bytes(l)[n] = SubSeq(l, 2 * n - 1, 2 * n)
  <2> DEFINE c == IF Len(l) < 5 THEN 1 ELSE 2
  <2>1. Color!Bytes(l) = [j \in 1 .. (Len(l) \div c) |-> SubSeq(l, c * (j - 1) + 1, c * j)]
    BY DEF Color!Bytes
  <2>2. c = 2
    OBVIOUS
  <2> HIDE DEF c
  <2>3. Color!Bytes(l)[n] = SubSeq(l, c * (n - 1) + 1, c * n)
    BY <1>1, <2>1
  <2>4. 2 * (n - 1) + 1 = 2 * n - 1
    OBVIOUS
  <2> QED BY <2>2, <2>3, <2>4
<1> QED BY <1>2, <1>3 DEF Color!Value

-----------------------------------------------------------------------------
\* What is parsed is a text of Texts, and what comes of it is its color.
ColorOf(t) == IF t = <<>> THEN {Color!Outcome("panic", <<>>)}
             ELSE {Color!Outcome(Color!Color(Color!Digits(t)),
                     IF Color!Color(Color!Digits(t)) = "color" THEN Color!Channels(Color!Digits(t)) ELSE <<>>)}
ColorInv == part = "color" => text \in Seq(STRING) /\ result \in {{}, ColorOf(text)}

\* The digits of a text are a text.
LEMMA DigitsOf ==
  ASSUME NEW t \in Seq(STRING), t # <<>>
  PROVE  Color!Digits(t) \in Seq(STRING)
  BY HeadTailProperties DEF Color!Digits

\* A text whose characters are digits is one of digits.
LEMMA TextOfDigits ==
  ASSUME NEW S, NEW d \in Seq(S), \A n \in DOMAIN d : d[n] \in DigitChars
  PROVE  d \in Seq(DigitChars)
<1>1. Len(d) \in Nat /\ d \in [1 .. Len(d) -> S] /\ DOMAIN d = 1 .. Len(d)
  BY LenProperties
<1>2. d \in [1 .. Len(d) -> DigitChars]
  BY <1>1
<1> QED BY <1>1, <1>2, SeqDef

\* The digits that a text of digits is short for.
LEMMA LongIsAsMeant ==
  ASSUME NEW d \in Seq(DigitChars), Color!Digits(text) = d, Len(Color!Long) = 8
  PROVE  /\ Len(d) \in {3, 4, 6, 8}
         /\ Color!Long \in Seq(DigitChars)
         /\ \A n \in 1 .. 4 :
              16 * Color!Digit[Color!Long[2 * n - 1]] + Color!Digit[Color!Long[2 * n]] =
                IF n = 4 /\ Len(d) \in {3, 6} THEN 255
                ELSE IF Len(d) \in {3, 4} THEN 16 * Color!Digit[d[n]] + Color!Digit[d[n]]
                ELSE 16 * Color!Digit[d[2 * n - 1]] + Color!Digit[d[2 * n]]
<1> DEFINE l == IF Len(d) \in {3, 4} THEN Color!Twice(d) ELSE d
           ff == <<"f", "f">>
<1>1. Color!Long = IF Len(l) = 6 THEN l \o ff ELSE l
  BY DEF Color!Long
<1>2. Len(d) \in Nat /\ DOMAIN d = 1 .. Len(d) /\ \A n \in 1 .. Len(d) : d[n] \in DigitChars
  BY LenProperties, ElementOfSeq
<1>3. CASE Len(d) \in {3, 4}
  <2> DEFINE k == Len(d)
  <2>1. k = 3 \/ k = 4
    BY <1>3
  <2>2. Color!Twice(d) = [n \in 1 .. (2 * k) |-> d[(n + 1) \div 2]]
    BY DEF Color!Twice
  <2> HIDE DEF k
  <2>3. \A n \in 1 .. (2 * k) : (n + 1) \div 2 \in 1 .. k
    BY <2>1
  <2>4. Color!Twice(d) \in [1 .. (2 * k) -> DigitChars] /\ 2 * k \in Nat
    BY <1>2, <2>1, <2>2, <2>3 DEF k
  <2>5. Color!Twice(d) \in Seq(DigitChars) /\ Len(Color!Twice(d)) = 2 * k
    BY <2>4, SeqDef
  <2>6. ASSUME NEW n \in 1 .. k
        PROVE  Color!Twice(d)[2 * n - 1] = d[n] /\ Color!Twice(d)[2 * n] = d[n]
    <3>1. 2 * n - 1 \in 1 .. (2 * k) /\ 2 * n \in 1 .. (2 * k)
      BY <2>1
    <3>2. (2 * n - 1 + 1) \div 2 = n /\ (2 * n + 1) \div 2 = n
      BY <2>1
    <3> QED BY <2>2, <3>1, <3>2
  <2>7. Color!Long = IF 2 * k = 6 THEN Color!Twice(d) \o ff ELSE Color!Twice(d)
    BY <1>1, <1>3, <2>5
  <2>8. CASE k = 3
    <3>1. Color!Long = Color!Twice(d) \o ff /\ Len(Color!Twice(d)) = 6
      BY <2>5, <2>7, <2>8
    <3>2. ff \in Seq(DigitChars) /\ Len(ff) = 2 /\ ff[1] = "f" /\ ff[2] = "f"
      BY DEF DigitChars
    <3>3. /\ Color!Long \in Seq(DigitChars)
          /\ \A j \in 1 .. 8 : Color!Long[j] = IF j <= 6 THEN Color!Twice(d)[j] ELSE ff[j - 6]
      BY <2>5, <3>1, <3>2, ConcatProperties
    <3>4. ASSUME NEW n \in 1 .. 3
          PROVE  Color!Long[2 * n - 1] = d[n] /\ Color!Long[2 * n] = d[n]
      BY <2>6, <2>8, <3>3
    <3>5. Color!Long[7] = "f" /\ Color!Long[8] = "f"
      <4>1. 7 \in 1 .. 8 /\ 8 \in 1 .. 8 /\ 7 - 6 = 1 /\ 8 - 6 = 2 /\ ~(7 <= 6) /\ ~(8 <= 6)
        OBVIOUS
      <4> QED BY <3>2, <3>3, <4>1
    <3>6. ASSUME NEW n \in 1 .. 4
          PROVE  16 * Color!Digit[Color!Long[2 * n - 1]] + Color!Digit[Color!Long[2 * n]] =
                   IF n = 4 THEN 255 ELSE 16 * Color!Digit[d[n]] + Color!Digit[d[n]]
      <4>1. CASE n = 4
        <5>1. 2 * n - 1 = 7 /\ 2 * n = 8
          BY <4>1
        <5> QED BY <3>5, <4>1, <5>1, DigitsAre
      <4>2. CASE n # 4
        <5>1. n \in 1 .. 3
          BY <4>2
        <5> QED BY <3>4, <4>2, <5>1
      <4> QED BY <4>1, <4>2
    <3>7. Len(d) \in {3, 4, 6, 8} /\ Len(d) \in {3, 6} /\ Len(d) \in {3, 4}
      BY <2>8 DEF k
    <3> QED BY <3>3, <3>6, <3>7
  <2>9. CASE k = 4
    <3>1. Color!Long = Color!Twice(d)
      BY <2>7, <2>9
    <3>2. ASSUME NEW n \in 1 .. 4
          PROVE  Color!Long[2 * n - 1] = d[n] /\ Color!Long[2 * n] = d[n]
      BY <2>6, <2>9, <3>1
    <3>3. Len(d) \in {3, 4, 6, 8} /\ Len(d) \notin {3, 6} /\ Len(d) \in {3, 4}
      BY <2>9 DEF k
    <3> QED BY <2>5, <3>1, <3>2, <3>3
  <2> QED BY <2>1, <2>8, <2>9
<1>4. CASE Len(d) \notin {3, 4}
  <2>1. Color!Long = IF Len(d) = 6 THEN d \o ff ELSE d
    BY <1>1, <1>4
  <2>2. ff \in Seq(DigitChars) /\ Len(ff) = 2 /\ ff[1] = "f" /\ ff[2] = "f"
    BY DEF DigitChars
  <2>3. CASE Len(d) = 6
    <3>1. Color!Long = d \o ff
      BY <2>1, <2>3
    <3>2. /\ Color!Long \in Seq(DigitChars)
          /\ \A j \in 1 .. 8 : Color!Long[j] = IF j <= 6 THEN d[j] ELSE ff[j - 6]
      BY <2>2, <2>3, <3>1, ConcatProperties
    <3>3. Color!Long[7] = "f" /\ Color!Long[8] = "f"
      <4>1. 7 \in 1 .. 8 /\ 8 \in 1 .. 8 /\ 7 - 6 = 1 /\ 8 - 6 = 2 /\ ~(7 <= 6) /\ ~(8 <= 6)
        OBVIOUS
      <4> QED BY <2>2, <3>2, <4>1
    <3>4. ASSUME NEW n \in 1 .. 4
          PROVE  16 * Color!Digit[Color!Long[2 * n - 1]] + Color!Digit[Color!Long[2 * n]] =
                   IF n = 4 THEN 255 ELSE 16 * Color!Digit[d[2 * n - 1]] + Color!Digit[d[2 * n]]
      <4>1. CASE n = 4
        <5>1. 2 * n - 1 = 7 /\ 2 * n = 8
          BY <4>1
        <5> QED BY <3>3, <4>1, <5>1, DigitsAre
      <4>2. CASE n # 4
        <5>1. 2 * n - 1 \in 1 .. 8 /\ 2 * n \in 1 .. 8 /\ 2 * n - 1 <= 6 /\ 2 * n <= 6
          BY <4>2
        <5> QED BY <3>2, <4>2, <5>1
      <4> QED BY <4>1, <4>2
    <3>5. Len(d) \in {3, 4, 6, 8} /\ Len(d) \in {3, 6} /\ Len(d) \notin {3, 4}
      BY <2>3
    <3> QED BY <3>2, <3>4, <3>5
  <2>4. CASE Len(d) # 6
    <3>1. Color!Long = d
      BY <2>1, <2>4
    <3>2. Len(d) = 8
      BY <3>1
    <3>3. Len(d) \in {3, 4, 6, 8} /\ Len(d) \notin {3, 6} /\ Len(d) \notin {3, 4}
      BY <3>2
    <3> QED BY <3>1, <3>3
  <2> QED BY <2>3, <2>4
<1> QED BY <1>3, <1>4

\* A color of digits is what it is short for.
LEMMA ParsedIsMeant ==
  ASSUME text \in Seq(STRING), result \in {{}, ColorOf(text)}
  PROVE  Color!ColorsAreMeant
<1> SUFFICES ASSUME NEW r \in result, Color!Plain, Len(Color!Long) = 8
             PROVE  r.is = "color" /\ \A n \in 1 .. 4 : r.rgba[n] = Color!Value(SubSeq(Color!Long, 2 * n - 1, 2 * n))
  BY DEF Color!ColorsAreMeant
<1> DEFINE d == Color!Digits(text)
           l == Color!Long
<1>1. text # <<>> /\ \A n \in DOMAIN d : d[n] \in DigitChars
  BY DigitsAre DEF Color!Plain
<1>2. d \in Seq(DigitChars)
  BY <1>1, DigitsOf, TextOfDigits
<1>3. r = Color!Outcome(Color!Color(d), IF Color!Color(d) = "color" THEN Color!Channels(d) ELSE <<>>)
  BY <1>1 DEF ColorOf
<1> DEFINE dd == d
<1>d. Color!Digits(text) = dd /\ dd \in Seq(DigitChars)
  BY <1>2
<1> HIDE DEF dd
<1>4. /\ Len(dd) \in {3, 4, 6, 8}
      /\ l \in Seq(DigitChars)
      /\ \A n \in 1 .. 4 :
              16 * Color!Digit[l[2 * n - 1]] + Color!Digit[l[2 * n]] =
                IF n = 4 /\ Len(dd) \in {3, 6} THEN 255
                ELSE IF Len(dd) \in {3, 4} THEN 16 * Color!Digit[dd[n]] + Color!Digit[dd[n]]
                ELSE 16 * Color!Digit[dd[2 * n - 1]] + Color!Digit[dd[2 * n]]
  BY <1>d, LongIsAsMeant
<1>5. /\ Color!Color(dd) = "color"
      /\ \A n \in 1 .. 4 :
              Color!Channels(dd)[n] =
                IF n = 4 /\ Len(dd) \in {3, 6} THEN 255
                ELSE IF Len(dd) \in {3, 4} THEN 16 * Color!Digit[dd[n]] + Color!Digit[dd[n]]
                ELSE 16 * Color!Digit[dd[2 * n - 1]] + Color!Digit[dd[2 * n]]
  BY <1>d, <1>4, ChannelsOfDigits
<1>6. r.is = Color!Color(dd) /\ (Color!Color(dd) = "color" => r.rgba = Color!Channels(dd))
  BY <1>3, <1>d DEF Color!Outcome
<1>7. Len(l) = 8
  OBVIOUS
<1> HIDE DEF l
<1>8. ASSUME NEW n \in 1 .. 4
      PROVE  Color!Value(SubSeq(l, 2 * n - 1, 2 * n)) = 16 * Color!Digit[l[2 * n - 1]] + Color!Digit[l[2 * n]]
  BY <1>4, <1>7, ValueOfPair
<1>9. \A n \in 1 .. 4 : r.rgba[n] = Color!Value(SubSeq(l, 2 * n - 1, 2 * n))
  BY <1>4, <1>5, <1>6, <1>8
<1> QED BY <1>5, <1>6, <1>9 DEF l

\* The digits of a byte.
LEMMA HexIs ==
  ASSUME NEW b, IsByte(b)
  PROVE  /\ Color!Hex(b) \in Seq(DigitChars) /\ Len(Color!Hex(b)) = 2
         /\ 16 * Color!Digit[Color!Hex(b)[1]] + Color!Digit[Color!Hex(b)[2]] = b
<1>1. PICK x \in DigitValues, y \in DigitValues : b = 16 * x + y
  BY DEF IsByte
<1>2. b \div 16 = x /\ b % 16 = y
  BY <1>1 DEF DigitValues
<1> DEFINE D(v) == CHOOSE c \in DOMAIN Color!Digit : Color!Digit[c] = v
<1>3. ASSUME NEW v \in DigitValues
      PROVE  D(v) \in DigitChars /\ Color!Digit[D(v)] = v
  BY DigitsAre DEF DigitValues, DigitChars
<1>4. Color!Hex(b) = <<D(b \div 16), D(b % 16)>>
  BY DEF Color!Hex
<1> HIDE DEF D
<1>5. D(x) \in DigitChars /\ D(y) \in DigitChars /\ Color!Digit[D(x)] = x /\ Color!Digit[D(y)] = y
  BY <1>3
<1>6. Color!Hex(b) = <<D(x), D(y)>>
  BY <1>2, <1>4
<1> DEFINE p == D(x)
           q == D(y)
<1>7. p \in DigitChars /\ q \in DigitChars /\ Color!Digit[p] = x /\ Color!Digit[q] = y /\ Color!Hex(b) = <<p, q>>
  BY <1>5, <1>6
<1> HIDE DEF p, q
<1>8. <<p, q>> \in Seq(DigitChars) /\ Len(<<p, q>>) = 2 /\ <<p, q>>[1] = p /\ <<p, q>>[2] = q
  BY <1>7
<1> QED BY <1>1, <1>7, <1>8, Zenon

\* The channels of a color are bytes.
LEMMA ChannelsAreBytes ==
  ASSUME NEW S, NEW d \in Seq(S), Color!Color(d) = "color", NEW n \in 1 .. 4
  PROVE  IsByte(Color!Channels(d)[n])
<1>1. Len(d) \in {3, 4, 6, 8} /\ \A j \in DOMAIN Color!Bytes(d) : Color!IsNumber(Color!Bytes(d)[j], 2)
  BY DEF Color!Color
<1>2. CASE n \in DOMAIN Color!Bytes(d)
  <2> DEFINE b == Color!Bytes(d)[n]
  <2>1. b \in Seq(S) /\ (Len(b) = 1 \/ Len(b) = 2)
    <3>1. CASE Len(d) \in {3, 4}
      BY <1>1, <1>2, <3>1, BytesAre
    <3>2. CASE Len(d) \in {6, 8}
      BY <1>1, <1>2, <3>2, BytesAre
    <3> QED BY <1>1, <3>1, <3>2
  <2>2. Color!IsNumber(b, 2)
    BY <1>1, <1>2
  <2>3. Color!Channels(d)[n] = Color!Byte(b)
    BY <1>2 DEF Color!Channels
  <2> HIDE DEF b
  <2>4. Len(b) \in {1, 2}
    BY <2>1
  <2>5. IsByte(Color!Byte(b))
    BY <2>1, <2>2, <2>4, NumbersAreBytes
  <2> QED BY <2>3, <2>5
<1>3. CASE n \notin DOMAIN Color!Bytes(d)
  <2>1. Color!Channels(d)[n] = 255
    BY <1>3 DEF Color!Channels
  <2>2. 15 \in DigitValues /\ 255 = 16 * 15 + 15
    BY DEF DigitValues
  <2> QED BY <2>1, <2>2 DEF IsByte
<1> QED BY <1>2, <1>3

\* Digits after digits.
LEMMA DigitsAfter ==
  ASSUME NEW a \in Seq(DigitChars), NEW b \in Seq(DigitChars), NEW m \in Nat, NEW n \in Nat,
         Len(a) = m, Len(b) = 2, n = m + 2
  PROVE  /\ a \o b \in Seq(DigitChars) /\ Len(a \o b) = n
         /\ \A j \in 1 .. n : (a \o b)[j] = IF j <= m THEN a[j] ELSE b[j - m]
<1>1. /\ a \o b \in Seq(DigitChars) /\ Len(a \o b) = Len(a) + Len(b)
      /\ \A j \in 1 .. Len(a) + Len(b) : (a \o b)[j] = IF j <= Len(a) THEN a[j] ELSE b[j - Len(a)]
  BY ConcatProperties
<1>2. Len(a) + Len(b) = n
  OBVIOUS
<1> QED BY <1>1, <1>2

\* Bytes that are written are read as themselves.
LEMMA WrittenIsRead ==
  ASSUME NEW rgba, \A n \in 1 .. 4 : IsByte(rgba[n])
  PROVE  \A n \in 1 .. 4 : Color!Channels(Color!Written(rgba))[n] = rgba[n]
<1> DEFINE h(n) == Color!Hex(rgba[n])
           w == Color!Written(rgba)
<1>1. \A n \in 1 .. 4 : /\ h(n) \in Seq(DigitChars) /\ Len(h(n)) = 2
                        /\ 16 * Color!Digit[h(n)[1]] + Color!Digit[h(n)[2]] = rgba[n]
  BY HexIs
<1>2. w = h(1) \o h(2) \o h(3) \o h(4)
  BY DEF Color!Written
<1> HIDE DEF h, w
<1>a. 1 \in 1 .. 4 /\ 2 \in 1 .. 4 /\ 3 \in 1 .. 4 /\ 4 \in 1 .. 4
  OBVIOUS
<1>3. /\ h(1) \o h(2) \in Seq(DigitChars) /\ Len(h(1) \o h(2)) = 4
      /\ \A j \in 1 .. 4 : (h(1) \o h(2))[j] = IF j <= 2 THEN h(1)[j] ELSE h(2)[j - 2]
  <2> DEFINE a == h(1)
             b == h(2)
  <2>1. a \in Seq(DigitChars) /\ Len(a) = 2 /\ b \in Seq(DigitChars) /\ Len(b) = 2
    BY <1>1, <1>a
  <2>2. 2 \in Nat /\ 4 \in Nat /\ 4 = 2 + 2
    OBVIOUS
  <2> HIDE DEF a, b
  <2>3. /\ a \o b \in Seq(DigitChars) /\ Len(a \o b) = 4
        /\ \A j \in 1 .. 4 : (a \o b)[j] = IF j <= 2 THEN a[j] ELSE b[j - 2]
    BY <2>1, <2>2, DigitsAfter
  <2> QED BY <2>3 DEF a, b
<1> DEFINE u == h(1) \o h(2)
<1> HIDE DEF u
<1>4. /\ u \o h(3) \in Seq(DigitChars) /\ Len(u \o h(3)) = 6
      /\ \A j \in 1 .. 6 : (u \o h(3))[j] = IF j <= 4 THEN u[j] ELSE h(3)[j - 4]
  <2> DEFINE b == h(3)
  <2>1. u \in Seq(DigitChars) /\ Len(u) = 4 /\ b \in Seq(DigitChars) /\ Len(b) = 2
    BY <1>1, <1>3, <1>a DEF u
  <2>2. 4 \in Nat /\ 6 \in Nat /\ 6 = 4 + 2
    OBVIOUS
  <2> HIDE DEF b
  <2>3. /\ u \o b \in Seq(DigitChars) /\ Len(u \o b) = 6
        /\ \A j \in 1 .. 6 : (u \o b)[j] = IF j <= 4 THEN u[j] ELSE b[j - 4]
    BY <2>1, <2>2, DigitsAfter
  <2> QED BY <2>3 DEF b
<1> DEFINE v == u \o h(3)
<1> HIDE DEF v
<1>5. /\ v \o h(4) \in Seq(DigitChars) /\ Len(v \o h(4)) = 8
      /\ \A j \in 1 .. 8 : (v \o h(4))[j] = IF j <= 6 THEN v[j] ELSE h(4)[j - 6]
  <2> DEFINE b == h(4)
  <2>1. v \in Seq(DigitChars) /\ Len(v) = 6 /\ b \in Seq(DigitChars) /\ Len(b) = 2
    BY <1>1, <1>4, <1>a DEF v
  <2>2. 6 \in Nat /\ 8 \in Nat /\ 8 = 6 + 2
    OBVIOUS
  <2> HIDE DEF b
  <2>3. /\ v \o b \in Seq(DigitChars) /\ Len(v \o b) = 8
        /\ \A j \in 1 .. 8 : (v \o b)[j] = IF j <= 6 THEN v[j] ELSE b[j - 6]
    BY <2>1, <2>2, DigitsAfter
  <2> QED BY <2>3 DEF b
<1>6. w = v \o h(4)
  BY <1>2 DEF v, u
<1>7. w \in Seq(DigitChars) /\ Len(w) = 8
  BY <1>5, <1>6
<1>8. ASSUME NEW n \in 1 .. 4
      PROVE  w[2 * n - 1] = h(n)[1] /\ w[2 * n] = h(n)[2]
  <2>1. \A j \in 1 .. 8 : w[j] = IF j <= 6 THEN IF j <= 4 THEN IF j <= 2 THEN h(1)[j] ELSE h(2)[j - 2]
                                               ELSE h(3)[j - 4]
                                 ELSE h(4)[j - 6]
    <3> SUFFICES ASSUME NEW j \in 1 .. 8
                 PROVE  w[j] = IF j <= 6 THEN IF j <= 4 THEN IF j <= 2 THEN h(1)[j] ELSE h(2)[j - 2]
                                               ELSE h(3)[j - 4]
                                 ELSE h(4)[j - 6]
      OBVIOUS
    <3>1. w[j] = IF j <= 6 THEN v[j] ELSE h(4)[j - 6]
      BY <1>5, <1>6
    <3>2. j <= 6 => v[j] = IF j <= 4 THEN u[j] ELSE h(3)[j - 4]
      <4>1. \A k \in 1 .. 6 : (u \o h(3))[k] = IF k <= 4 THEN u[k] ELSE h(3)[k - 4]
        BY <1>4
      <4>2. v = u \o h(3)
        BY DEF v
      <4>3. j <= 6 => j \in 1 .. 6
        OBVIOUS
      <4> HIDE DEF u
      <4> QED BY <4>1, <4>2, <4>3
    <3>3. j <= 4 => u[j] = IF j <= 2 THEN h(1)[j] ELSE h(2)[j - 2]
      BY <1>3 DEF u
    <3> QED BY <3>1, <3>2, <3>3
  <2>2. w[1] = h(1)[1] /\ w[2] = h(1)[2]
    BY <2>1
  <2>3. w[3] = h(2)[1] /\ w[4] = h(2)[2]
    <3>1. 3 \in 1 .. 8 /\ 4 \in 1 .. 8 /\ 3 - 2 = 1 /\ 4 - 2 = 2
      OBVIOUS
    <3> QED BY <2>1, <3>1
  <2>4. w[5] = h(3)[1] /\ w[6] = h(3)[2]
    <3>1. 5 \in 1 .. 8 /\ 6 \in 1 .. 8 /\ 5 - 4 = 1 /\ 6 - 4 = 2
      OBVIOUS
    <3> QED BY <2>1, <3>1
  <2>5. w[7] = h(4)[1] /\ w[8] = h(4)[2]
    <3>1. 7 \in 1 .. 8 /\ 8 \in 1 .. 8 /\ 7 - 6 = 1 /\ 8 - 6 = 2
      OBVIOUS
    <3> QED BY <2>1, <3>1
  <2>6. n = 1 \/ n = 2 \/ n = 3 \/ n = 4
    OBVIOUS
  <2>7. CASE n = 1
    BY <2>2, <2>7
  <2>8. CASE n = 2
    BY <2>3, <2>8
  <2>9. CASE n = 3
    BY <2>4, <2>9
  <2>10. CASE n = 4
    BY <2>5, <2>10
  <2> QED BY <2>6, <2>7, <2>8, <2>9, <2>10
<1> DEFINE k == Len(w)
<1>9. k \in {3, 4, 6, 8} /\ k \notin {3, 6} /\ k \notin {3, 4}
  BY <1>7
<1> HIDE DEF k
<1>10. \A n \in 1 .. 4 : Color!Channels(w)[n] = 16 * Color!Digit[w[2 * n - 1]] + Color!Digit[w[2 * n]]
  BY <1>7, <1>9, ChannelsOfDigits DEF k
<1>11. \A n \in 1 .. 4 : Color!Channels(w)[n] = rgba[n]
  BY <1>1, <1>8, <1>10
<1> QED BY <1>11 DEF w

\* A color that is read and written is read as it was.
LEMMA ParsedSurvives ==
  ASSUME text \in Seq(STRING), result \in {{}, ColorOf(text)}
  PROVE  Color!ColorsSurvive
<1> SUFFICES ASSUME NEW r \in result, r.is = "color"
             PROVE  Color!Channels(Color!Written(r.rgba)) = r.rgba
  BY DEF Color!ColorsSurvive
<1> DEFINE d == Color!Digits(text)
<1>1. result = ColorOf(text) /\ r \in ColorOf(text)
  OBVIOUS
<1>2. text # <<>>
  BY <1>1 DEF ColorOf, Color!Outcome
<1>3. r = Color!Outcome(Color!Color(d), IF Color!Color(d) = "color" THEN Color!Channels(d) ELSE <<>>)
  BY <1>1, <1>2 DEF ColorOf
<1>4. Color!Color(d) = "color" /\ r.rgba = Color!Channels(d)
  BY <1>3 DEF Color!Outcome
<1>5. d \in Seq(STRING)
  BY <1>2, DigitsOf
<1> HIDE DEF d
<1> DEFINE c == r.rgba
<1>6. \A n \in 1 .. 4 : IsByte(c[n])
  BY <1>4, <1>5, ChannelsAreBytes
<1>7. DOMAIN c = 1 .. 4 /\ c = [n \in 1 .. 4 |-> c[n]]
  BY <1>4 DEF Color!Channels
<1> HIDE DEF c
<1>8. \A n \in 1 .. 4 : Color!Channels(Color!Written(c))[n] = c[n]
  BY <1>6, WrittenIsRead
<1> DEFINE e == Color!Channels(Color!Written(c))
<1>9. e = [n \in 1 .. 4 |-> e[n]]
  BY DEF Color!Channels
<1>a. \A n \in 1 .. 4 : e[n] = c[n]
  BY <1>8
<1> HIDE DEF e
<1>10. [n \in 1 .. 4 |-> e[n]] = [n \in 1 .. 4 |-> c[n]]
  BY <1>a
<1>11. e = c
  BY <1>7, <1>9, <1>10
<1> QED BY <1>11 DEF e, c

-----------------------------------------------------------------------------
\* Every text of digits is the color it is short for, and every color that is read
\* and written is read as it was (colors.rs:26-96).
THEOREM ColorsAreAlwaysMeant == RiapiSpec => []ColorsAreMeant
<1>1. RiapiInit => ColorInv
  BY RiapiAssumption DEF RiapiInit, ColorInit, ColorInv, Color!Init, Color!TextsAssumption
<1>2. ColorInv /\ [RiapiNext]_riapiVars => ColorInv'
  <2> SUFFICES ASSUME ColorInv, [RiapiNext]_riapiVars
               PROVE  ColorInv'
    OBVIOUS
  <2>1. CASE LayoutStep
    BY <2>1 DEF LayoutStep, ColorInv, colorVars
  <2>2. CASE StepsStep
    BY <2>2 DEF StepsStep, ColorInv, colorVars
  <2>3. CASE ParserStep
    BY <2>3 DEF ParserStep, ColorInv, colorVars
  <2>4. CASE ColorStep
    <3>1. part' = part /\ text' = text /\ result' = ColorOf(text)
      BY <2>4 DEF ColorStep, Color!Parse, ColorOf
    <3> QED BY <3>1 DEF ColorInv
  <2>5. CASE UNCHANGED riapiVars
    BY <2>5 DEF riapiVars, ColorInv, colorVars
  <2> QED BY <2>1, <2>2, <2>3, <2>4, <2>5 DEF RiapiNext
<1>3. ColorInv => ColorsAreMeant
  BY ParsedIsMeant, ParsedSurvives DEF ColorInv, ColorsAreMeant
<1> QED BY <1>1, <1>2, <1>3, PTL DEF RiapiSpec

-----------------------------------------------------------------------------
\* A length whose quotient is less than one away.
Close(x, n, d) == x * d - n < d /\ n - x * d < d

\* The next multiple is more.
LEMMA NextQuotient ==
  ASSUME NEW n \in Nat, NEW d \in Nat \ {0}
  PROVE  n < d * ((n \div d) + 1)
  OBVIOUS

\* A rounded quotient is less than one away from it.
LEMMA RoundIsClose ==
  ASSUME NEW n \in Nat, NEW d \in Nat \ {0}
  PROVE  Close(Layout!Round(n, d), n, d)
<1> DEFINE q == (2 * n + d) \div (2 * d)
<1>1. 2 * d \in Nat \ {0} /\ 2 * n + d \in Nat
  OBVIOUS
<1>2. q \in Nat /\ (2 * d) * q <= 2 * n + d /\ 2 * n + d < (2 * d) * (q + 1)
  BY <1>1, Quotient, NextQuotient
<1>3. Layout!Round(n, d) = q
  BY DEF Layout!Round
<1> HIDE DEF q
<1> DEFINE p == q * d
<1>4. p \in Nat /\ (2 * d) * q = 2 * p /\ (2 * d) * (q + 1) = 2 * p + 2 * d
  BY <1>2
<1> HIDE DEF p
<1>5. p - n < d /\ n - p < d
  BY <1>2, <1>4
<1> QED BY <1>3, <1>5 DEF Close, p

\* A length in proportion is at least 1 and less than one away.
LEMMA ProportionalIsClose ==
  ASSUME Layout!SizingAssumption, NEW n \in Nat \ {0}, NEW d \in Nat \ {0}, NEW a \in Nat \ {0}, NEW b \in Nat \ {0},
         NEW x \in Layout!Proportional(n, d, a, b)
  PROVE  x \in Nat \ {0} /\ Close(x, n, d)
<1> DEFINE v == Layout!Snapped(n, d, a, b)
<1>1. v \in Nat /\ Close(v, n, d)
  <2>1. CASE Layout!Near(n, d, a)
    <3>1. v = a
      BY <2>1 DEF Layout!Snapped
    <3>2. Layout!Abs(n - a * d) < d
      BY <2>1 DEF Layout!Near
    <3> DEFINE q == a * d
    <3>3. q \in Nat
      OBVIOUS
    <3>4. Layout!Abs(n - q) < d
      BY <3>2
    <3> HIDE DEF q
    <3>5. q - n < d /\ n - q < d
      BY <3>3, <3>4 DEF Layout!Abs, Layout!Max2
    <3> QED BY <3>1, <3>5 DEF Close, q
  <2>2. CASE ~Layout!Near(n, d, a) /\ Layout!Near(n, d, b)
    <3>1. v = b
      BY <2>2 DEF Layout!Snapped
    <3>2. Layout!Abs(n - b * d) < d
      BY <2>2 DEF Layout!Near
    <3> DEFINE q == b * d
    <3>3. q \in Nat
      OBVIOUS
    <3>4. Layout!Abs(n - q) < d
      BY <3>2
    <3> HIDE DEF q
    <3>5. q - n < d /\ n - q < d
      BY <3>3, <3>4 DEF Layout!Abs, Layout!Max2
    <3> QED BY <3>1, <3>5 DEF Close, q
  <2>3. CASE ~Layout!Near(n, d, a) /\ ~Layout!Near(n, d, b)
    <3>1. v = Layout!Round(n, d)
      BY <2>3 DEF Layout!Snapped
    <3> QED BY <3>1, RoundIsClose, RoundIsWhole
  <2> QED BY <2>1, <2>2, <2>3
<1>2. x \in IF v < 0 \/ v >= MaxSize THEN {} ELSE {Layout!Max2(v, 1)}
  BY DEF Layout!Proportional
<1> HIDE DEF v
<1>3. x = Layout!Max2(v, 1)
  BY <1>2
<1>4. CASE v = 0
  <2>1. x = 1
    BY <1>3, <1>4 DEF Layout!Max2
  <2>2. n < d
    BY <1>1, <1>4 DEF Close
  <2> QED BY <2>1, <2>2 DEF Close
<1>5. CASE v # 0
  <2>1. x = v
    BY <1>1, <1>3, <1>5 DEF Layout!Max2
  <2> QED BY <1>1, <1>5, <2>1
<1> QED BY <1>4, <1>5

\* There is one, if the sides are small enough.
LEMMA ProportionalIsThere ==
  ASSUME Layout!SizingAssumption, NEW n \in Nat \ {0}, NEW d \in Nat \ {0}, NEW a \in Nat \ {0}, NEW b \in Nat \ {0},
         n < MaxSize, a < MaxSize, b < MaxSize
  PROVE  Layout!Proportional(n, d, a, b) # {}
<1> DEFINE v == Layout!Snapped(n, d, a, b)
<1>0. n \in Nat /\ n \in Int /\ n >= 0
  OBVIOUS
<1>1. v \in Nat /\ v < MaxSize
  <2>1. Layout!Round(n, d) \in Nat
    BY <1>0, RoundIsWhole
  <2>2. Layout!Round(n, d) < MaxSize
    <3> DEFINE q == Layout!Round(n, d)
    <3>1. Close(q, n, d) /\ q \in Nat
      BY <1>0, <2>1, RoundIsClose
    <3> SUFFICES q < MaxSize
      OBVIOUS
    <3> HIDE DEF q
    <3>2. CASE q > n
      <4>1. q * d >= (n + 1) * d
        BY <3>1, <3>2, ProductsOrder
      <4>2. (n + 1) * d = n * d + d /\ n * d >= n * 1
        BY ProductsOrder
      <4>3. q * d - n >= d
        BY <3>1, <4>1, <4>2
      <4> QED BY <3>1, <4>3 DEF Close
    <3>3. CASE ~(q > n)
      BY <1>0, <3>1, <3>3 DEF Layout!SizingAssumption
    <3> QED BY <3>2, <3>3
  <2> QED BY <2>1, <2>2 DEF Layout!Snapped
<1>2. Layout!Proportional(n, d, a, b) = IF v < 0 \/ v >= MaxSize THEN {} ELSE {Layout!Max2(v, 1)}
  BY DEF Layout!Proportional
<1> HIDE DEF v
<1> QED BY <1>1, <1>2 DEF Layout!SizingAssumption

\* What is close to a quotient is on the same side of a whole number.
LEMMA CloseIsOrdered ==
  ASSUME NEW x \in Nat, NEW n \in Nat, NEW d \in Nat \ {0}, NEW c \in Nat, Close(x, n, d)
  PROVE  /\ n <= c * d => x <= c
         /\ c * d <= n => c <= x
<1> DEFINE p == x * d
           q == c * d
<1>1. p \in Nat /\ q \in Nat /\ p - n < d /\ n - p < d
  BY DEF Close
<1>2. x > c => p >= q + d
  <2>1. x > c => x * d >= (c + 1) * d
    BY ProductsOrder
  <2>2. (c + 1) * d = c * d + d
    OBVIOUS
  <2> QED BY <2>1, <2>2
<1>3. c > x => q >= p + d
  <2>1. c > x => c * d >= (x + 1) * d
    BY ProductsOrder
  <2>2. (x + 1) * d = x * d + d
    OBVIOUS
  <2> QED BY <2>1, <2>2
<1> HIDE DEF p, q
<1>4. (n <= q => x <= c) /\ (q <= n => c <= x)
  BY <1>1, <1>2, <1>3
<1> QED BY <1>4 DEF q

\* What a box is: the target's width, or height, and the other in proportion.
LEMMA BoxIs ==
  ASSUME Layout!SizingAssumption, NEW r \in Layout!Sizes, NEW t \in Layout!Sizes, NEW kind,
         NEW b \in Layout!BoxOf(r, t, kind)
  PROVE  /\ b \in Layout!Sizes
         /\ \/ b.w = t.w /\ (r.w * t.h > t.w * r.h <=> kind = "inner") /\ Close(b.h, t.w * r.h, r.w)
            \/ b.h = t.h /\ ~(r.w * t.h > t.w * r.h <=> kind = "inner") /\ Close(b.w, t.h * r.w, r.h)
<1>1. /\ t.w \in 1 .. MaxSize /\ t.h \in 1 .. MaxSize /\ t.w \in Nat \ {0} /\ t.h \in Nat \ {0}
      /\ r.w \in Nat \ {0} /\ r.h \in Nat \ {0} /\ t.w \in Int /\ t.h \in Int
  BY SidesOf
<1>2. Layout!BoxOf(r, t, kind) =
        IF r.w * t.h > t.w * r.h <=> kind = "inner"
        THEN UNION {Layout!Create(t.w, h) : h \in Layout!HeightFor(r, t.w, t)}
        ELSE UNION {Layout!Create(w, t.h) : w \in Layout!WidthFor(r, t.h, t)}
  <2>1. Layout!WiderThan(t, r) = (r.w * t.h > t.w * r.h)
    BY DEF Layout!WiderThan
  <2>2. CASE kind = "inner"
    BY <2>1, <2>2 DEF Layout!BoxOf
  <2>3. CASE kind # "inner"
    BY <2>1, <2>3 DEF Layout!BoxOf
  <2> QED BY <2>2, <2>3
<1>3. CASE r.w * t.h > t.w * r.h <=> kind = "inner"
  <2>1. PICK h \in Layout!HeightFor(r, t.w, t) : b \in Layout!Create(t.w, h)
    BY <1>2, <1>3
  <2>2. h \in 1 .. MaxSize
    BY <1>1, HeightsAre
  <2>3. b.w = t.w /\ b.h = h
    BY <1>1, <2>1, <2>2, SizeOf
  <2>4. h \in Layout!Proportional(t.w * r.h, r.w, r.h, t.h) /\ t.w * r.h \in Nat \ {0}
    BY <1>1, <2>1 DEF Layout!HeightFor
  <2>5. Close(h, t.w * r.h, r.w)
    BY <1>1, <2>4, ProportionalIsClose
  <2> QED BY <1>3, <2>3, <2>5, BoxesAre
<1>4. CASE ~(r.w * t.h > t.w * r.h <=> kind = "inner")
  <2>1. PICK w \in Layout!WidthFor(r, t.h, t) : b \in Layout!Create(w, t.h)
    BY <1>2, <1>4
  <2>2. w \in 1 .. MaxSize
    BY <1>1, WidthsAre
  <2>3. b.w = w /\ b.h = t.h
    BY <1>1, <2>1, <2>2, SizeOf
  <2>4. w \in Layout!Proportional(t.h * r.w, r.h, r.w, t.w) /\ t.h * r.w \in Nat \ {0}
    BY <1>1, <2>1 DEF Layout!WidthFor
  <2>5. Close(w, t.h * r.w, r.h)
    BY <1>1, <2>4, ProportionalIsClose
  <2> QED BY <1>4, <2>3, <2>5, BoxesAre
<1> QED BY <1>3, <1>4

\* There is a box, if the sides are small enough.
LEMMA BoxIsThere ==
  ASSUME Layout!SizingAssumption, NEW r \in Layout!Sizes, NEW t \in Layout!Sizes, NEW kind,
         t.w * r.h < MaxSize, t.h * r.w < MaxSize
  PROVE  Layout!BoxOf(r, t, kind) # {}
<1>1. /\ t.w \in 1 .. MaxSize /\ t.h \in 1 .. MaxSize /\ t.w \in Nat \ {0} /\ t.h \in Nat \ {0}
      /\ r.w \in Nat \ {0} /\ r.h \in Nat \ {0} /\ t.w \in Int /\ t.h \in Int /\ MaxSize \in Nat
  BY SidesOf DEF Layout!SizingAssumption
<1>2. t.w * r.h \in Nat \ {0} /\ t.h * r.w \in Nat \ {0}
  BY <1>1
<1>3. t.w < MaxSize /\ t.h < MaxSize /\ r.w < MaxSize /\ r.h < MaxSize
  <2>1. t.w * 1 <= t.w * r.h /\ 1 * r.h <= t.w * r.h /\ t.h * 1 <= t.h * r.w /\ 1 * r.w <= t.h * r.w
    BY <1>1, ProductsOrder
  <2> QED BY <1>1, <1>2, <2>1
<1>4. ASSUME NEW h \in Layout!HeightFor(r, t.w, t)
      PROVE  Layout!Create(t.w, h) # {}
  BY <1>1, HeightsAre DEF Layout!Create
<1>5. ASSUME NEW w \in Layout!WidthFor(r, t.h, t)
      PROVE  Layout!Create(w, t.h) # {}
  BY <1>1, WidthsAre DEF Layout!Create
<1>6. Layout!HeightFor(r, t.w, t) # {}
  BY <1>1, <1>2, <1>3, ProportionalIsThere DEF Layout!HeightFor
<1>7. Layout!WidthFor(r, t.h, t) # {}
  BY <1>1, <1>2, <1>3, ProportionalIsThere DEF Layout!WidthFor
<1>8. PICK h \in Layout!HeightFor(r, t.w, t), w \in Layout!WidthFor(r, t.h, t) : TRUE
  BY <1>6, <1>7
<1>9. PICK p \in Layout!Create(t.w, h) : TRUE
  BY <1>4
<1>10. PICK q \in Layout!Create(w, t.h) : TRUE
  BY <1>5
<1>11. p \in UNION {Layout!Create(t.w, y) : y \in Layout!HeightFor(r, t.w, t)}
  BY <1>9
<1>12. q \in UNION {Layout!Create(x, t.h) : x \in Layout!WidthFor(r, t.h, t)}
  BY <1>10
<1> QED BY <1>11, <1>12 DEF Layout!BoxOf

-----------------------------------------------------------------------------
\* An outer box is around what it is to be around.
LEMMA OuterBoxFits ==
  ASSUME Layout!SizingAssumption, NEW r \in Layout!Sizes, NEW t \in Layout!Sizes, NEW b \in Layout!BoxOf(r, t, "outer")
  PROVE  Fits(t, b)
<1>1. /\ t.w \in Nat \ {0} /\ t.h \in Nat \ {0} /\ r.w \in Nat \ {0} /\ r.h \in Nat \ {0}
      /\ b.w \in Nat \ {0} /\ b.h \in Nat \ {0}
  BY BoxIs, SidesOf
<1>2. \/ b.w = t.w /\ ~(r.w * t.h > t.w * r.h) /\ Close(b.h, t.w * r.h, r.w)
      \/ b.h = t.h /\ r.w * t.h > t.w * r.h /\ Close(b.w, t.h * r.w, r.h)
  BY BoxIs
<1>3. CASE b.w = t.w /\ ~(r.w * t.h > t.w * r.h) /\ Close(b.h, t.w * r.h, r.w)
  <2>1. t.h * r.w <= t.w * r.h /\ t.w * r.h \in Nat
    BY <1>1, <1>3
  <2>2. t.h <= b.h
    BY <1>1, <1>3, <2>1, CloseIsOrdered
  <2> QED BY <1>1, <1>3, <2>2 DEF Fits
<1>4. CASE b.h = t.h /\ r.w * t.h > t.w * r.h /\ Close(b.w, t.h * r.w, r.h)
  <2>1. t.w * r.h <= t.h * r.w /\ t.h * r.w \in Nat
    BY <1>1, <1>4
  <2>2. t.w <= b.w
    BY <1>1, <1>4, <2>1, CloseIsOrdered
  <2> QED BY <1>1, <1>4, <2>2 DEF Fits
<1> QED BY <1>2, <1>3, <1>4

\* What is larger than the target on a side is not enlarged by fitting in.
LEMMA InnerBoxIsSmaller ==
  ASSUME Layout!SizingAssumption, NEW r \in Layout!Sizes, NEW t \in Layout!Sizes, NEW b \in Layout!BoxOf(r, t, "inner"),
         Layout!ExceedsAny(r, t)
  PROVE  Fits(b, r)
<1>1. /\ t.w \in Nat \ {0} /\ t.h \in Nat \ {0} /\ r.w \in Nat \ {0} /\ r.h \in Nat \ {0}
      /\ b.w \in Nat \ {0} /\ b.h \in Nat \ {0}
  BY BoxIs, SidesOf
<1>2. \/ b.w = t.w /\ r.w * t.h > t.w * r.h /\ Close(b.h, t.w * r.h, r.w)
      \/ b.h = t.h /\ ~(r.w * t.h > t.w * r.h) /\ Close(b.w, t.h * r.w, r.h)
  BY BoxIs
<1>3. r.w > t.w \/ r.h > t.h
  BY DEF Layout!ExceedsAny
<1>4. CASE b.w = t.w /\ r.w * t.h > t.w * r.h /\ Close(b.h, t.w * r.h, r.w)
  <2>1. ~(r.w <= t.w)
    <3> SUFFICES ASSUME r.w <= t.w
                 PROVE  FALSE
      OBVIOUS
    <3>1. r.h >= t.h
      BY <1>1, <1>3
    <3>2. r.w * t.h <= t.w * t.h
      BY <1>1, ProductsOrder
    <3>3. t.h * t.w <= r.h * t.w
      BY <1>1, <3>1, ProductsOrder
    <3>4. t.h * t.w = t.w * t.h /\ r.h * t.w = t.w * r.h /\ t.w * t.h \in Int /\ r.w * t.h \in Int /\ t.w * r.h \in Int
      BY <1>1
    <3> QED BY <1>4, <3>2, <3>3, <3>4
  <2>2. t.w <= r.w
    BY <1>1, <2>1
  <2>3. t.w * r.h <= r.w * r.h
    BY <1>1, <2>2, ProductsOrder
  <2>4. t.w * r.h <= r.h * r.w /\ t.w * r.h \in Nat
    BY <1>1, <2>3
  <2> QED BY <1>1, <1>4, <2>2, <2>4, CloseIsOrdered DEF Fits
<1>5. CASE b.h = t.h /\ ~(r.w * t.h > t.w * r.h) /\ Close(b.w, t.h * r.w, r.h)
  <2>1. ~(r.h <= t.h)
    <3> SUFFICES ASSUME r.h <= t.h
                 PROVE  FALSE
      OBVIOUS
    <3>1. t.w < r.w
      BY <1>1, <1>3
    <3>2. r.h * t.w <= t.h * t.w
      BY <1>1, ProductsOrder
    <3>3. t.w * t.h < r.w * t.h
      <4>1. t.w + 1 <= r.w
        BY <1>1, <3>1
      <4>2. (t.w + 1) * t.h <= r.w * t.h
        BY <1>1, <4>1, ProductsOrder
      <4>3. (t.w + 1) * t.h = t.w * t.h + t.h
        BY <1>1
      <4> QED BY <1>1, <4>2, <4>3
    <3>4. t.h * t.w = t.w * t.h /\ r.h * t.w = t.w * r.h /\ t.w * t.h \in Int /\ r.w * t.h \in Int /\ t.w * r.h \in Int
      BY <1>1
    <3> QED BY <1>5, <3>2, <3>3, <3>4
  <2>2. t.h <= r.h
    BY <1>1, <2>1
  <2>3. t.h * r.w <= r.h * r.w
    BY <1>1, <2>2, ProductsOrder
  <2>4. t.h * r.w <= r.w * r.h /\ t.h * r.w \in Nat
    BY <1>1, <2>3
  <2> QED BY <1>1, <1>5, <2>2, <2>4, CloseIsOrdered DEF Fits
<1> QED BY <1>2, <1>4, <1>5

\* What fits is not shrunk by fitting in.
LEMMA BoxIsLarger ==
  ASSUME Layout!SizingAssumption, NEW r \in Layout!Sizes, NEW t \in Layout!Sizes, NEW kind, NEW b \in Layout!BoxOf(r, t, kind),
         Fits(r, t)
  PROVE  Fits(r, b)
<1>1. /\ t.w \in Nat \ {0} /\ t.h \in Nat \ {0} /\ r.w \in Nat \ {0} /\ r.h \in Nat \ {0}
      /\ b.w \in Nat \ {0} /\ b.h \in Nat \ {0} /\ r.w <= t.w /\ r.h <= t.h
  BY BoxIs, SidesOf DEF Fits
<1>2. \/ b.w = t.w /\ Close(b.h, t.w * r.h, r.w)
      \/ b.h = t.h /\ Close(b.w, t.h * r.w, r.h)
  BY BoxIs
<1>3. r.w * r.h <= t.w * r.h /\ r.h * r.w <= t.h * r.w /\ t.w * r.h \in Nat /\ t.h * r.w \in Nat
  BY <1>1, ProductsOrder
<1>4. r.h * r.w <= t.w * r.h /\ r.w * r.h <= t.h * r.w
  <2>1. r.h * r.w = r.w * r.h
    BY <1>1
  <2> QED BY <1>3, <2>1
<1>5. CASE b.w = t.w /\ Close(b.h, t.w * r.h, r.w)
  BY <1>1, <1>3, <1>4, <1>5, CloseIsOrdered DEF Fits
<1>6. CASE b.h = t.h /\ Close(b.w, t.h * r.w, r.h)
  BY <1>1, <1>3, <1>4, <1>6, CloseIsOrdered DEF Fits
<1> QED BY <1>2, <1>5, <1>6

\* A box has the shape of what it is made from.
LEMMA BoxHasShape ==
  ASSUME Layout!SizingAssumption, NEW r \in Layout!Sizes, NEW t \in Layout!Sizes, NEW kind, NEW b \in Layout!BoxOf(r, t, kind)
  PROVE  Layout!Narrower(b, r) /\ Layout!Narrower(r, b)
<1>1. /\ t.w \in Nat \ {0} /\ t.h \in Nat \ {0} /\ r.w \in Nat \ {0} /\ r.h \in Nat \ {0}
      /\ b.w \in Nat \ {0} /\ b.h \in Nat \ {0}
  BY BoxIs, SidesOf
<1> DEFINE p == b.h * r.w
           q == b.w * r.h
<1>2. p \in Nat /\ q \in Nat
  BY <1>1
<1>3. (p - q < r.w /\ q - p < r.w) \/ (p - q < r.h /\ q - p < r.h)
  BY BoxIs DEF Close
<1>4. /\ (b.w - 1) * (r.h - 1) = q - b.w - r.h + 1 /\ (r.w + 1) * (b.h + 1) = p + r.w + b.h + 1
      /\ (r.w - 1) * (b.h - 1) = p - r.w - b.h + 1 /\ (b.w + 1) * (r.h + 1) = q + b.w + r.h + 1
  <2>1. \A x, y \in Int : (x - 1) * (y - 1) = x * y - x - y + 1 /\ (x + 1) * (y + 1) = x * y + x + y + 1
    OBVIOUS
  <2>2. b.w * r.h = q /\ r.w * b.h = p
    BY <1>1
  <2> HIDE DEF p, q
  <2> QED BY <1>1, <2>1, <2>2
<1> HIDE DEF p, q
<1>5. q - b.w - r.h + 1 < p + r.w + b.h + 1 /\ p - r.w - b.h + 1 < q + b.w + r.h + 1
  BY <1>1, <1>2, <1>3
<1> QED BY <1>4, <1>5 DEF Layout!Narrower

-----------------------------------------------------------------------------
\* The layouts the steps of a mode and a scale can come to: the image itself, what is
\* fitted to the target, padded, or cropped; an image on a larger canvas;
\* and the part of it that both share.
FitSizes(o, t, mode) ==
  IF mode = "stretch" THEN {t} ELSE Layout!BoxOf(o, t, IF mode = "crop" THEN "outer" ELSE "inner")
Whole(o, t) == {l \in Layouts : l.target = t /\ l.canvas = o /\ l.image = o /\ l.source = o}
FitTo(o, t, mode) ==
  {l \in Layouts : l.target = t /\ l.source = o /\ l.image = l.canvas /\ l.canvas \in FitSizes(o, t, mode)}
Ended(o, t, mode) ==
  CASE mode = "pad" -> {l \in Layouts : l.target = t /\ l.source = o /\ l.canvas = t /\ l.image \in FitSizes(o, t, "pad")}
    [] mode = "crop" ->
         {l \in Layouts : l.target = t /\ l.canvas = t /\ l.image = t /\ l.source \in Layout!BoxOf(t, o, "inner")}
    [] OTHER -> FitTo(o, t, mode)
Placed(o, t, canvases) == {l \in Layouts : l.target = t /\ l.canvas \in canvases /\ l.image = o /\ l.source = o}
Shown(o, t) ==
  {l \in Layouts : l.target = t /\ l.canvas = l.image /\ l.image \in FitSizes(o, t, "max")
                     /\ l.source \in Layout!BoxOf(l.image, o, "inner")}
Shared(o, t, canvases) ==
  {l \in Layouts : l.target = t /\ l.canvas \in canvases /\ l.image \in Layout!Intersection(o, t)
                     /\ l.source \in Layout!BoxOf(l.image, o, "inner")}

\* The target is in range of the image, and how they compare.
MayFit(o, t) == t.w * o.h < MaxSize /\ t.h * o.w < MaxSize
Larger(o, t) == Layout!ExceedsAny(o, t)
Smaller(o, t) == Layout!ExceedsAny(t, o)

FitStep(mode) ==
  Layout!Step(IF mode = "stretch" THEN "distort" ELSE IF mode = "crop" THEN "scale_to_outer" ELSE "scale_to_inner")
Anew == Layout!Step("begin")

\* How far the steps are, for a mode and a scale: what is left, whether it is
\* skipped, and the layout.  Of the two that crop what is larger, `last` is what is
\* done if the image is larger one way and smaller the other.
Here == [rest |-> rest, skips |-> skipping, lay |-> lay]
At(here, steps, skips, layouts) == here.rest = steps /\ (here.skips <=> skips) /\ here.lay \in layouts

SkipStep(scale) == Layout!SkipUnless(IF scale = "up" THEN "neither_greater" ELSE "either_greater")
Skipped(scale, o, t) == (scale = "up" /\ Larger(o, t)) \/ (scale \in {"down", "canvas"} /\ ~Larger(o, t))
PlainStage(here, scale, mode, o, t) ==
  LET skips == Skipped(scale, o, t)
      after == IF mode \in {"pad", "crop"} THEN <<Layout!Step(mode)>> ELSE <<>> IN
  \/ scale # "both" /\ At(here, <<SkipStep(scale), FitStep(mode)>> \o after, FALSE, Whole(o, t))
  \/ At(here, <<FitStep(mode)>> \o after, skips, Whole(o, t))
  \/ mode \in {"pad", "crop"} /\ At(here, after, skips, IF skips THEN Whole(o, t) ELSE FitTo(o, t, mode))
  \/ At(here, <<>>, skips, IF skips THEN Whole(o, t) ELSE Ended(o, t, mode))

CanvasEnd(mode, o, t) ==
  IF ~Larger(o, t) THEN Placed(o, t, IF mode = "max" THEN FitSizes(o, t, "max") ELSE {t})
  ELSE IF mode = "max" THEN Shown(o, t) ELSE Ended(o, t, mode)
CanvasStage(here, mode, o, t) ==
  LET skips == ~Larger(o, t)
      then == IF skips THEN Whole(o, t) ELSE FitTo(o, t, mode)
      last == IF mode = "max" THEN Layout!StepTo("virtual_canvas", Layout!InnerOfTarget) ELSE Layout!Step("pad") IN
  \/ At(here, <<SkipStep("canvas"), FitStep(mode), Anew, last>>, FALSE, Whole(o, t))
  \/ At(here, <<FitStep(mode), Anew, last>>, skips, Whole(o, t))
  \/ At(here, <<Anew, last>>, skips, then)
  \/ At(here, <<last>>, FALSE, then)
  \/ At(here, <<>>, FALSE, CanvasEnd(mode, o, t))

LastStep(scale) == Layout!Step(IF scale = "canvas" THEN "virtual_canvas" ELSE "crop_intersection")
LastCanvases(scale, o, t) == IF scale = "canvas" THEN {t} ELSE Layout!Intersection(o, t)
CropStage(here, scale, o, t) ==
  LET less == Smaller(o, t)
      mixed == less /\ Larger(o, t)
      last == LastStep(scale)
      unless == Layout!SkipUnless("larger_1d_smaller_1d")
      then == IF less THEN Whole(o, t) ELSE Ended(o, t, "crop") IN
  \/ At(here, <<Layout!SkipIf("either_less"), FitStep("crop"), Layout!Step("crop"), Anew, unless, last>>, FALSE, Whole(o, t))
  \/ At(here, <<FitStep("crop"), Layout!Step("crop"), Anew, unless, last>>, less, Whole(o, t))
  \/ At(here, <<Layout!Step("crop"), Anew, unless, last>>, less, IF less THEN Whole(o, t) ELSE FitTo(o, t, "crop"))
  \/ At(here, <<Anew, unless, last>>, less, then)
  \/ At(here, <<unless, last>>, FALSE, then)
  \/ At(here, <<last>>, ~mixed, then)
  \/ At(here, <<>>, ~mixed, IF mixed THEN Shared(o, t, LastCanvases(scale, o, t)) ELSE then)

Stage(here, scale, mode, o, t) ==
  CASE scale \in {"down", "canvas"} /\ mode = "crop" -> CropStage(here, scale, o, t)
    [] scale = "canvas" /\ mode # "crop" -> CanvasStage(here, mode, o, t)
    [] OTHER -> PlainStage(here, scale, mode, o, t)

\* What holds of a layout: it is on its way, or there, or the sizes are out of range.
AskedInv ==
  part = "layout" =>
    /\ verdict \in {"done", "panic"} => rest = <<>>
    /\ verdict = "failed" => ~MayFit(original, lay.target)
    /\ verdict # "failed" => Stage(Here, Layout!ScaleOf(instructions), Layout!ModeOf(instructions), original, lay.target)

-----------------------------------------------------------------------------
\* What is close to a whole quotient is the quotient.
LEMMA CloseIsExact ==
  ASSUME NEW x \in Nat, NEW c \in Nat, NEW d \in Nat \ {0}, Close(x, c * d, d)
  PROVE  x = c
<1> DEFINE n == c * d
<1>1. n \in Nat /\ n <= c * d /\ c * d <= n /\ Close(x, n, d)
  OBVIOUS
<1> HIDE DEF n
<1>2. x <= c /\ c <= x
  BY <1>1, CloseIsOrdered
<1> QED BY <1>2

\* A box for a box of the same shape is itself, if there is one.
LEMMA OwnBox ==
  ASSUME Layout!SizingAssumption, NEW b \in Layout!Sizes, NEW t \in Layout!Sizes, Fits(b, t), b.w = t.w \/ b.h = t.h,
         NEW x \in Layout!BoxOf(b, t, "inner")
  PROVE  x = b
<1>1. /\ t.w \in Nat \ {0} /\ t.h \in Nat \ {0} /\ b.w \in Nat \ {0} /\ b.h \in Nat \ {0} /\ b.w <= t.w /\ b.h <= t.h
      /\ x.w \in Nat \ {0} /\ x.h \in Nat \ {0} /\ b = Layout!Size(b.w, b.h) /\ x = Layout!Size(x.w, x.h)
  BY BoxIs, SidesOf DEF Fits
<1>2. \/ x.w = t.w /\ b.w * t.h > t.w * b.h /\ Close(x.h, t.w * b.h, b.w)
      \/ x.h = t.h /\ ~(b.w * t.h > t.w * b.h) /\ Close(x.w, t.h * b.w, b.h)
  BY BoxIs
<1>3. CASE x.w = t.w /\ b.w * t.h > t.w * b.h /\ Close(x.h, t.w * b.h, b.w)
  <2>1. b.w = t.w
    <3> SUFFICES ASSUME b.h = t.h
                 PROVE  b.w = t.w
      OBVIOUS
    <3>1. t.w * t.h < b.w * t.h
      BY <1>1, <1>3
    <3>2. t.w < b.w
      BY <1>1, <3>1, ProductsOrder
    <3> QED BY <1>1, <3>2
  <2>2. t.w * b.h = b.h * b.w
    BY <1>1, <2>1
  <2>3. x.h = b.h
    BY <1>1, <1>3, <2>2, CloseIsExact
  <2> QED BY <1>1, <1>3, <2>1, <2>3
<1>4. CASE x.h = t.h /\ ~(b.w * t.h > t.w * b.h) /\ Close(x.w, t.h * b.w, b.h)
  <2>1. b.h = t.h
    <3> SUFFICES ASSUME b.w = t.w
                 PROVE  b.h = t.h
      OBVIOUS
    <3>1. t.h * t.w <= b.h * t.w
      BY <1>1, <1>4
    <3>2. t.h <= b.h
      BY <1>1, <3>1, ProductsOrder
    <3> QED BY <1>1, <3>2
  <2>2. t.h * b.w = b.w * b.h
    BY <1>1, <2>1
  <2>3. Close(x.w, b.w * b.h, b.h)
    BY <1>4, <2>2
  <2>4. x.w = b.w
    BY <1>1, <2>3, CloseIsExact
  <2> QED BY <1>1, <1>4, <2>1, <2>4
<1> QED BY <1>2, <1>3, <1>4

\* What one size shares with another it fits is itself.
LEMMA SharedIs ==
  ASSUME Layout!SizingAssumption, NEW a \in Layout!Sizes, NEW b \in Layout!Sizes
  PROVE  /\ Layout!Intersection(a, b) # {}
         /\ Fits(a, b) => Layout!Intersection(a, b) = {a}
         /\ Fits(b, a) => Layout!Intersection(a, b) = {b}
<1>1. /\ a.w \in 1 .. MaxSize /\ a.h \in 1 .. MaxSize /\ b.w \in 1 .. MaxSize /\ b.h \in 1 .. MaxSize
      /\ a = Layout!Size(a.w, a.h) /\ b = Layout!Size(b.w, b.h)
  BY SidesOf
<1> DEFINE w == Layout!Min2(a.w, b.w)
           h == Layout!Min2(a.h, b.h)
<1>2. /\ w \in 1 .. MaxSize /\ h \in 1 .. MaxSize
      /\ Fits(a, b) => w = a.w /\ h = a.h
      /\ Fits(b, a) => w = b.w /\ h = b.h
  BY <1>1 DEF Layout!Min2, Fits
<1>3. Layout!Intersection(a, b) = {Layout!Size(w, h)}
  BY <1>2 DEF Layout!Intersection, Layout!Create
<1> QED BY <1>1, <1>2, <1>3

\* All of a length is the whole new length, and it does not overflow.
LEMMA WholeFraction ==
  ASSUME Layout!SizingAssumption, NEW v \in Nat \ {0}, NEW num \in 1 .. MaxSize
  PROVE  Layout!MultFraction(v, num, v) = num
<1>1. num \in Nat /\ MaxSize \in Nat /\ num <= MaxSize
  BY DEF Layout!SizingAssumption
<1> DEFINE p == v * num
           q == p \div v
<1>2. p \in Nat /\ p = num * v
  BY <1>1
<1>3. q = num
  <2> HIDE DEF p
  <2>1. q \in Nat /\ v * q <= p /\ p < v * (q + 1)
    BY <1>2, Quotient, NextQuotient
  <2> HIDE DEF q
  <2>2. q * v <= num * v /\ num * v < (q + 1) * v
    BY <1>1, <1>2, <2>1
  <2>3. q <= num /\ num < q + 1
    BY <1>1, <2>1, <2>2, ProductsOrder
  <2> QED BY <1>1, <2>1, <2>3
<1>4. Layout!MultFraction(v, num, v) = Layout!Wrap(num)
  BY <1>3 DEF Layout!MultFraction
<1>5. (num + MaxSize + 1) % (2 * MaxSize + 2) = num + MaxSize + 1
  BY <1>1
<1> QED BY <1>1, <1>4, <1>5 DEF Layout!Wrap

-----------------------------------------------------------------------------
\* An image that is all of its canvas is distorted to all of the new one.
LEMMA WholeIsDistorted ==
  ASSUME Layout!SizingAssumption, NEW l \in Layouts, l.image = l.canvas, NEW c \in Layout!Sizes
  PROVE  /\ Layout!DistortCanvas(l, c) # {}
         /\ \A r \in Layout!DistortCanvas(l, c) :
              r \in Layouts /\ r.image = c /\ r.canvas = c /\ r.source = l.source /\ r.target = l.target
<1>1. l.canvas \in Layout!Sizes
  BY DEF Layouts
<1>2. /\ l.canvas.w \in Nat \ {0} /\ l.canvas.h \in Nat \ {0} /\ c.w \in 1 .. MaxSize /\ c.h \in 1 .. MaxSize
      /\ c = Layout!Size(c.w, c.h) /\ MaxSize \in Nat
  BY <1>1, SidesOf DEF Layout!SizingAssumption
<1>3. Layout!DistortWith(l.image, l.canvas, c) = {c}
  <2>1. Layout!MultFraction(l.canvas.w, c.w, l.canvas.w) = c.w /\ Layout!MultFraction(l.canvas.h, c.h, l.canvas.h) = c.h
    BY <1>2, WholeFraction
  <2>2. Layout!DistortWith(l.image, l.canvas, c) = Layout!Create(c.w, c.h)
    BY <2>1 DEF Layout!DistortWith
  <2> QED BY <1>2, <2>2 DEF Layout!Create
<1>4. Layout!DistortCanvas(l, c) = {[l EXCEPT !.image = c, !.canvas = c]}
  BY <1>3 DEF Layout!DistortCanvas
<1> DEFINE r == [l EXCEPT !.image = c, !.canvas = c]
<1>5. r \in Layouts /\ r.image = c /\ r.canvas = c /\ r.source = l.source /\ r.target = l.target
  BY DEF Layouts
<1> QED BY <1>4, <1>5

\* What is cropped to a canvas.
LEMMA VirtualIs ==
  ASSUME Layout!SizingAssumption, NEW l \in Layouts, NEW c \in Layout!Sizes, NEW r \in Layout!VirtualCanvas(l, c)
  PROVE  /\ r \in Layouts /\ r.canvas = c /\ r.target = l.target
         /\ r.image \in Layout!Intersection(l.image, c) /\ r.source \in Layout!BoxOf(r.image, l.source, "inner")
<1>1. l.image \in Layout!Sizes /\ l.source \in Layout!Sizes
  BY DEF Layouts
<1>2. PICK x \in Layout!Intersection(l.image, c) :
        r \in {[l EXCEPT !.source = s, !.image = x, !.canvas = c] : s \in Layout!BoxOf(x, l.source, "inner")}
  BY DEF Layout!VirtualCanvas
<1>3. PICK s \in Layout!BoxOf(x, l.source, "inner") : r = [l EXCEPT !.source = s, !.image = x, !.canvas = c]
  BY <1>2
<1>4. x \in Layout!Sizes
  BY <1>1, IntersectionFits
<1>5. s \in Layout!Sizes
  BY <1>1, <1>4, BoxesAre
<1>6. r \in Layouts /\ r.image = x /\ r.canvas = c /\ r.source = s /\ r.target = l.target
  BY <1>3, <1>4, <1>5 DEF Layouts
<1> QED BY <1>2, <1>3, <1>6

\* It is there if the source is in range of the target.
LEMMA VirtualIsThere ==
  ASSUME Layout!SizingAssumption, NEW l \in Layouts, NEW c \in Layout!Sizes, NEW t \in Layout!Sizes,
         Fits(l.image, t) \/ Fits(c, t), MayFit(l.source, t)
  PROVE  Layout!VirtualCanvas(l, c) # {}
<1>1. l.image \in Layout!Sizes /\ l.source \in Layout!Sizes
  BY DEF Layouts
<1>2. PICK x \in Layout!Intersection(l.image, c) : TRUE
  BY <1>1, SharedIs
<1>3. x \in Layout!Sizes /\ Fits(x, t)
  BY <1>1, IntersectionFits, FitsFits
<1> DEFINE o == l.source
<1>4. /\ x.w \in Nat \ {0} /\ x.h \in Nat \ {0} /\ t.w \in Nat \ {0} /\ t.h \in Nat \ {0} /\ o.w \in Nat \ {0} /\ o.h \in Nat \ {0}
      /\ x.w <= t.w /\ x.h <= t.h
  BY <1>1, <1>3, SidesOf DEF Fits
<1>5. o.w * x.h < MaxSize /\ o.h * x.w < MaxSize
  <2>1. x.w * o.h <= t.w * o.h /\ x.h * o.w <= t.h * o.w
    BY <1>4, ProductsOrder
  <2>2. x.w * o.h = o.h * x.w /\ x.h * o.w = o.w * x.h /\ t.w * o.h \in Int /\ t.h * o.w \in Int /\ o.h * x.w \in Int
        /\ o.w * x.h \in Int
    BY <1>4
  <2>3. MaxSize \in Nat /\ t.w * o.h < MaxSize /\ t.h * o.w < MaxSize
    BY DEF MayFit, Layout!SizingAssumption
  <2> QED BY <2>1, <2>2, <2>3
<1>6. PICK s \in Layout!BoxOf(x, o, "inner") : TRUE
  BY <1>1, <1>3, <1>5, BoxIsThere
<1>7. [l EXCEPT !.source = s, !.image = x, !.canvas = c]
        \in {[l EXCEPT !.source = u, !.image = x, !.canvas = c] : u \in Layout!BoxOf(x, l.source, "inner")}
  BY <1>6
<1> DEFINE results(y) == {[l EXCEPT !.source = u, !.image = y, !.canvas = c] : u \in Layout!BoxOf(y, l.source, "inner")}
<1>8. Layout!VirtualCanvas(l, c) = UNION {results(y) : y \in Layout!Intersection(l.image, c)}
  BY DEF Layout!VirtualCanvas
<1>9. results(x) # {}
  BY <1>7
<1> HIDE DEF results
<1>10. results(x) \in {results(y) : y \in Layout!Intersection(l.image, c)}
  BY <1>2
<1> QED BY <1>8, <1>9, <1>10

\* Padding changes the canvas only.
LEMMA PadIs ==
  ASSUME NEW l \in Layouts, NEW c \in Layout!Sizes, Fits(l.canvas, c), Layout!SizingAssumption
  PROVE  /\ Layout!PadCanvas(l, c) # {}
         /\ \A r \in Layout!PadCanvas(l, c) :
              r \in Layouts /\ r.canvas = c /\ r.image = l.image /\ r.source = l.source /\ r.target = l.target
<1>1. l.canvas \in Layout!Sizes
  BY DEF Layouts
<1>2. Layout!PadCanvas(l, c) = {[l EXCEPT !.canvas = c]}
  BY <1>1, FitsFits DEF Layout!PadCanvas
<1> DEFINE r == [l EXCEPT !.canvas = c]
<1>3. r \in Layouts /\ r.canvas = c /\ r.image = l.image /\ r.source = l.source /\ r.target = l.target
  BY DEF Layouts
<1> QED BY <1>2, <1>3

\* What the steps of the modes are.
LEMMA ExecuteIs ==
  ASSUME NEW l
  PROVE  /\ Layout!Execute(l, Layout!Step("scale_to_inner")) = Layout!ScaleCanvas(l, "inner")
         /\ Layout!Execute(l, Layout!Step("scale_to_outer")) = Layout!ScaleCanvas(l, "outer")
         /\ Layout!Execute(l, Layout!Step("distort")) = Layout!DistortCanvas(l, l.target)
         /\ Layout!Execute(l, Layout!Step("virtual_canvas")) = Layout!VirtualCanvas(l, l.target)
         /\ Layout!Execute(l, Layout!Step("pad")) = Layout!PadCanvas(l, l.target)
         /\ Layout!Execute(l, Layout!Step("crop")) = Layout!Crop(l, l.target)
         /\ Layout!Execute(l, Layout!Step("crop_intersection")) =
              UNION {Layout!Crop(l, b) : b \in Layout!Intersection(l.image, l.target)}
         /\ Layout!Execute(l, Layout!StepTo("virtual_canvas", Layout!InnerOfTarget)) =
              UNION {Layout!VirtualCanvas(l, b) : b \in Layout!BoxOf(l.canvas, l.target, "inner")}
         /\ Layout!Execute(l, Anew) = {l}
         /\ \A c : Layout!Execute(l, Layout!SkipIf(c)) = {l} /\ Layout!Execute(l, Layout!SkipUnless(c)) = {l}
<1>1. \A name : Layout!Step(name).do = name /\ Layout!Step(name).box = Layout!Exact("target")
  BY DEF Layout!Step
<1>2. Layout!ResolveBoxParam(l, Layout!Exact("target")) = {l.target}
  BY DEF Layout!ResolveBoxParam, Layout!Exact
<1>3. ASSUME NEW s
      PROVE  /\ s.do = "scale_to_inner" => Layout!Execute(l, s) = Layout!ScaleCanvas(l, "inner")
             /\ s.do = "scale_to_outer" => Layout!Execute(l, s) = Layout!ScaleCanvas(l, "outer")
             /\ s.do = "pad" => Layout!Execute(l, s) = Layout!PadCanvas(l, l.target)
             /\ s.do = "crop" => Layout!Execute(l, s) = Layout!Crop(l, l.target)
             /\ s.do = "crop_intersection" =>
                  Layout!Execute(l, s) = UNION {Layout!Crop(l, b) : b \in Layout!Intersection(l.image, l.target)}
             /\ s.do = "begin" => Layout!Execute(l, s) = {l}
             /\ s.do = "distort" =>
                  Layout!Execute(l, s) = UNION {Layout!DistortCanvas(l, b) : b \in Layout!ResolveBoxParam(l, s.box)}
             /\ s.do = "virtual_canvas" =>
                  Layout!Execute(l, s) = UNION {Layout!VirtualCanvas(l, b) : b \in Layout!ResolveBoxParam(l, s.box)}
  <2>1. s.do \notin {"x", "y"} => Layout!Execute(l, s) = Layout!Execute2D(l, s)
    BY DEF Layout!Execute
  <2>2. s.do = "scale_to_inner" => Layout!Execute2D(l, s) = Layout!ScaleCanvas(l, "inner")
    BY DEF Layout!Execute2D
  <2>3. s.do = "scale_to_outer" => Layout!Execute2D(l, s) = Layout!ScaleCanvas(l, "outer")
    BY DEF Layout!Execute2D
  <2>4. s.do = "pad" => Layout!Execute2D(l, s) = Layout!PadCanvas(l, l.target)
    BY DEF Layout!Execute2D
  <2>5. s.do = "crop" => Layout!Execute2D(l, s) = Layout!Crop(l, l.target)
    BY DEF Layout!Execute2D
  <2>6. s.do = "crop_intersection" =>
          Layout!Execute2D(l, s) = UNION {Layout!Crop(l, b) : b \in Layout!Intersection(l.image, l.target)}
    BY DEF Layout!Execute2D
  <2>7. s.do = "begin" => Layout!Execute2D(l, s) = {l}
    BY DEF Layout!Execute2D
  <2>8. s.do = "distort" =>
          Layout!Execute2D(l, s) = UNION {Layout!DistortCanvas(l, b) : b \in Layout!ResolveBoxParam(l, s.box)}
    BY DEF Layout!Execute2D
  <2>9. s.do = "virtual_canvas" =>
          Layout!Execute2D(l, s) = UNION {Layout!VirtualCanvas(l, b) : b \in Layout!ResolveBoxParam(l, s.box)}
    BY DEF Layout!Execute2D
  <2> QED BY <2>1, <2>2, <2>3, <2>4, <2>5, <2>6, <2>7, <2>8, <2>9
<1>4. Layout!Execute(l, Layout!Step("distort")) = Layout!DistortCanvas(l, l.target)
  <2>1. Layout!Execute(l, Layout!Step("distort")) = UNION {Layout!DistortCanvas(l, b) : b \in {l.target}}
    BY <1>1, <1>2, <1>3
  <2> QED BY <2>1
<1>5. Layout!Execute(l, Layout!Step("virtual_canvas")) = Layout!VirtualCanvas(l, l.target)
  <2>1. Layout!Execute(l, Layout!Step("virtual_canvas")) = UNION {Layout!VirtualCanvas(l, b) : b \in {l.target}}
    BY <1>1, <1>2, <1>3
  <2> QED BY <2>1
<1>6. Layout!Execute(l, Layout!StepTo("virtual_canvas", Layout!InnerOfTarget)) =
        UNION {Layout!VirtualCanvas(l, b) : b \in Layout!BoxOf(l.canvas, l.target, "inner")}
  <2> DEFINE s == Layout!StepTo("virtual_canvas", Layout!InnerOfTarget)
  <2>1. s.do = "virtual_canvas" /\ s.box = Layout!InnerOfTarget
    BY DEF Layout!StepTo, Layout!Step
  <2> HIDE DEF s
  <2>2. Layout!Execute(l, s) = UNION {Layout!VirtualCanvas(l, b) : b \in Layout!ResolveBoxParam(l, s.box)}
    BY <2>1 DEF Layout!Execute, Layout!Execute2D
  <2>3. Layout!ResolveBoxParam(l, Layout!InnerOfTarget) = Layout!BoxOf(l.canvas, l.target, "inner")
    BY DEF Layout!ResolveBoxParam, Layout!InnerOfTarget
  <2> QED BY <2>1, <2>2, <2>3 DEF s
<1>7. \A c : Layout!Execute(l, Layout!SkipIf(c)) = {l} /\ Layout!Execute(l, Layout!SkipUnless(c)) = {l}
  <2> TAKE c
  <2>1. Layout!SkipIf(c).do = "skip_if" /\ Layout!SkipUnless(c).do = "skip_unless"
    BY DEF Layout!SkipIf, Layout!SkipUnless, Layout!Step
  <2> QED BY <2>1 DEF Layout!Execute, Layout!Execute2D
<1>8. /\ Layout!Execute(l, Layout!Step("scale_to_inner")) = Layout!ScaleCanvas(l, "inner")
      /\ Layout!Execute(l, Layout!Step("scale_to_outer")) = Layout!ScaleCanvas(l, "outer")
      /\ Layout!Execute(l, Layout!Step("pad")) = Layout!PadCanvas(l, l.target)
      /\ Layout!Execute(l, Layout!Step("crop")) = Layout!Crop(l, l.target)
      /\ Layout!Execute(l, Layout!Step("crop_intersection")) =
           UNION {Layout!Crop(l, b) : b \in Layout!Intersection(l.image, l.target)}
      /\ Layout!Execute(l, Anew) = {l}
  BY <1>1, <1>3 DEF Anew
<1> QED BY <1>4, <1>5, <1>6, <1>7, <1>8

\* What skips: nothing but the conditions, when they are met.
LEMMA SkipsAre ==
  ASSUME Layout!SizingAssumption, lay \in Layouts, skipping \in BOOLEAN
  PROVE  /\ ~Layout!Skips(Anew)
         /\ \A name \in {"scale_to_inner", "scale_to_outer", "distort", "virtual_canvas", "pad", "crop", "crop_intersection"} :
              (Layout!Skips(Layout!Step(name)) <=> skipping)
         /\ Layout!Skips(Layout!StepTo("virtual_canvas", Layout!InnerOfTarget)) <=> skipping
         /\ Layout!Skips(Layout!SkipUnless("either_greater")) <=> (skipping \/ ~Larger(lay.canvas, lay.target))
         /\ Layout!Skips(Layout!SkipUnless("neither_greater")) <=> (skipping \/ Larger(lay.canvas, lay.target))
         /\ Layout!Skips(Layout!SkipIf("either_less")) <=> (skipping \/ Smaller(lay.canvas, lay.target))
         /\ Layout!Skips(Layout!SkipUnless("larger_1d_smaller_1d")) <=>
              (skipping \/ ~(Larger(lay.canvas, lay.target) /\ Smaller(lay.canvas, lay.target)))
<1> DEFINE a == lay.canvas
           b == lay.target
           c == Layout!CmpSize(a, b)
<1>1. a.w \in Int /\ a.h \in Int /\ b.w \in Int /\ b.h \in Int
  <2>1. a \in Layout!Sizes /\ b \in Layout!Sizes
    BY DEF Layouts
  <2> QED BY <2>1, SidesOf
<1>2. \A name : Layout!Step(name).do = name
  BY DEF Layout!Step
<1>3. ~Layout!Skips(Anew)
  BY <1>2 DEF Layout!Skips, Anew
<1>4. \A name \in {"scale_to_inner", "scale_to_outer", "distort", "virtual_canvas", "pad", "crop", "crop_intersection"} :
        (Layout!Skips(Layout!Step(name)) <=> skipping)
  BY <1>2 DEF Layout!Skips, Layout!BeginsSkip
<1>5. Layout!Skips(Layout!StepTo("virtual_canvas", Layout!InnerOfTarget)) <=> skipping
  <2>1. Layout!StepTo("virtual_canvas", Layout!InnerOfTarget).do = "virtual_canvas"
    BY DEF Layout!StepTo, Layout!Step
  <2> QED BY <2>1 DEF Layout!Skips, Layout!BeginsSkip
<1>6. /\ Layout!Matches("either_greater", c) <=> Larger(a, b)
      /\ Layout!Matches("neither_greater", c) <=> ~Larger(a, b)
      /\ Layout!Matches("either_less", c) <=> Smaller(a, b)
      /\ Layout!Matches("larger_1d_smaller_1d", c) <=> Larger(a, b) /\ Smaller(a, b)
  <2>1. /\ Layout!EitherIs("greater", c) <=> Larger(a, b)
        /\ Layout!EitherIs("less", c) <=> Smaller(a, b)
    <3> HIDE DEF a, b
    <3> QED BY <1>1 DEF Layout!EitherIs, Layout!CmpSize, Layout!Cmp, Larger, Smaller, Layout!ExceedsAny
  <2> HIDE DEF c
  <2> QED BY <2>1 DEF Layout!Matches
<1>7. ASSUME NEW cond
      PROVE  /\ Layout!Skips(Layout!SkipUnless(cond)) <=> skipping \/ ~Layout!Matches(cond, c)
             /\ Layout!Skips(Layout!SkipIf(cond)) <=> skipping \/ Layout!Matches(cond, c)
  <2>1. /\ Layout!SkipIf(cond).do = "skip_if" /\ Layout!SkipUnless(cond).do = "skip_unless"
        /\ Layout!SkipIf(cond).cond = cond /\ Layout!SkipUnless(cond).cond = cond
    BY DEF Layout!SkipIf, Layout!SkipUnless, Layout!Step
  <2> QED BY <2>1 DEF Layout!Skips, Layout!BeginsSkip
<1> HIDE DEF c
<1>8. /\ Layout!Skips(Layout!SkipUnless("either_greater")) <=> (skipping \/ ~Larger(a, b))
      /\ Layout!Skips(Layout!SkipUnless("neither_greater")) <=> (skipping \/ Larger(a, b))
      /\ Layout!Skips(Layout!SkipIf("either_less")) <=> (skipping \/ Smaller(a, b))
      /\ Layout!Skips(Layout!SkipUnless("larger_1d_smaller_1d")) <=> (skipping \/ ~(Larger(a, b) /\ Smaller(a, b)))
  BY <1>6, <1>7
<1> QED BY <1>3, <1>4, <1>5, <1>8

-----------------------------------------------------------------------------
\* A step takes any of some layouts to one of others, and there is one if the target
\* is in range.
Brings(S, step, R, o, t) ==
  \A l \in S : Layout!Execute(l, step) \subseteq R /\ (MayFit(o, t) => Layout!Execute(l, step) # {})
ModeNames == {"max", "pad", "crop", "stretch"}
Aimed(t) == {l \in Layouts : l.target = t}

\* All that the steps come to have the target.
LEMMA AllAimed ==
  ASSUME NEW o, NEW t, NEW mode, NEW canvases
  PROVE  /\ Whole(o, t) \subseteq Aimed(t) /\ FitTo(o, t, mode) \subseteq Aimed(t) /\ Ended(o, t, mode) \subseteq Aimed(t)
         /\ Placed(o, t, canvases) \subseteq Aimed(t) /\ Shown(o, t) \subseteq Aimed(t) /\ Shared(o, t, canvases) \subseteq Aimed(t)
<1>1. Whole(o, t) \subseteq Aimed(t) /\ FitTo(o, t, mode) \subseteq Aimed(t)
  BY DEF Whole, FitTo, Aimed
<1>2. Ended(o, t, mode) \subseteq Aimed(t)
  <2>1. CASE mode = "pad"
    BY <2>1 DEF Ended, Aimed
  <2>2. CASE mode = "crop"
    BY <2>2 DEF Ended, Aimed
  <2>3. CASE mode # "pad" /\ mode # "crop"
    BY <1>1, <2>3 DEF Ended
  <2> QED BY <2>1, <2>2, <2>3
<1>3. Placed(o, t, canvases) \subseteq Aimed(t) /\ Shown(o, t) \subseteq Aimed(t) /\ Shared(o, t, canvases) \subseteq Aimed(t)
  BY DEF Placed, Shown, Shared, Aimed
<1> QED BY <1>1, <1>2, <1>3

\* The sizes an image is fitted to.
LEMMA FitSizesAre ==
  ASSUME Layout!SizingAssumption, NEW o \in Layout!Sizes, NEW t \in Layout!Sizes, NEW mode \in ModeNames
  PROVE  /\ FitSizes(o, t, mode) \subseteq Layout!Sizes
         /\ MayFit(o, t) => FitSizes(o, t, mode) # {}
         /\ mode # "crop" => \A c \in FitSizes(o, t, mode) : Fits(c, t)
         /\ mode = "crop" => \A c \in FitSizes(o, t, mode) : Fits(t, c)
<1>1. CASE mode = "stretch"
  BY <1>1, FitsFits DEF FitSizes
<1>2. CASE mode = "crop"
  <2>1. FitSizes(o, t, mode) = Layout!BoxOf(o, t, "outer")
    BY <1>2 DEF FitSizes
  <2>2. MayFit(o, t) => FitSizes(o, t, mode) # {}
    BY <2>1, BoxIsThere DEF MayFit
  <2>3. \A c \in FitSizes(o, t, mode) : c \in Layout!Sizes /\ Fits(t, c)
    BY <2>1, OuterBoxFits, BoxesAre
  <2> QED BY <1>2, <2>2, <2>3
<1>3. CASE mode = "max" \/ mode = "pad"
  <2>1. FitSizes(o, t, mode) = Layout!BoxOf(o, t, "inner")
    BY <1>3 DEF FitSizes
  <2>2. MayFit(o, t) => FitSizes(o, t, mode) # {}
    BY <2>1, BoxIsThere DEF MayFit
  <2>3. \A c \in FitSizes(o, t, mode) : c \in Layout!Sizes /\ Fits(c, t)
    BY <2>1, InnerBoxFits
  <2> QED BY <1>3, <2>2, <2>3
<1> QED BY <1>1, <1>2, <1>3 DEF ModeNames

\* Fitting the image to the target.
LEMMA FitBrings ==
  ASSUME Layout!SizingAssumption, NEW o \in Layout!Sizes, NEW t \in Layout!Sizes, NEW mode \in ModeNames
  PROVE  Brings(Whole(o, t), FitStep(mode), FitTo(o, t, mode), o, t)
<1> SUFFICES ASSUME NEW l \in Whole(o, t)
             PROVE  /\ Layout!Execute(l, FitStep(mode)) \subseteq FitTo(o, t, mode)
                    /\ MayFit(o, t) => Layout!Execute(l, FitStep(mode)) # {}
  BY DEF Brings
<1>1. l \in Layouts /\ l.target = t /\ l.canvas = o /\ l.image = o /\ l.source = o
  BY DEF Whole
<1>2. Layout!Execute(l, FitStep(mode)) = UNION {Layout!DistortCanvas(l, c) : c \in FitSizes(o, t, mode)}
  <2>1. CASE mode = "stretch"
    <3>1. Layout!Execute(l, FitStep(mode)) = Layout!DistortCanvas(l, t)
      BY <1>1, <2>1, ExecuteIs DEF FitStep
    <3>2. FitSizes(o, t, mode) = {t}
      BY <2>1 DEF FitSizes
    <3> QED BY <3>1, <3>2
  <2>2. CASE mode = "crop"
    <3>1. Layout!Execute(l, FitStep(mode)) = Layout!ScaleCanvas(l, "outer")
      BY <2>2, ExecuteIs DEF FitStep
    <3>2. FitSizes(o, t, mode) = Layout!BoxOf(l.canvas, l.target, "outer")
      BY <1>1, <2>2 DEF FitSizes
    <3> QED BY <3>1, <3>2 DEF Layout!ScaleCanvas
  <2>3. CASE mode = "max" \/ mode = "pad"
    <3>1. Layout!Execute(l, FitStep(mode)) = Layout!ScaleCanvas(l, "inner")
      BY <2>3, ExecuteIs DEF FitStep
    <3>2. FitSizes(o, t, mode) = Layout!BoxOf(l.canvas, l.target, "inner")
      BY <1>1, <2>3 DEF FitSizes
    <3> QED BY <3>1, <3>2 DEF Layout!ScaleCanvas
  <2> QED BY <2>1, <2>2, <2>3 DEF ModeNames
<1>3. ASSUME NEW c \in FitSizes(o, t, mode)
      PROVE  Layout!DistortCanvas(l, c) # {} /\ Layout!DistortCanvas(l, c) \subseteq FitTo(o, t, mode)
  <2>1. c \in Layout!Sizes
    BY FitSizesAre
  <2>2. /\ Layout!DistortCanvas(l, c) # {}
        /\ \A r \in Layout!DistortCanvas(l, c) :
             r \in Layouts /\ r.image = c /\ r.canvas = c /\ r.source = o /\ r.target = t
    BY <1>1, <2>1, WholeIsDistorted
  <2> QED BY <2>2 DEF FitTo
<1>4. MayFit(o, t) => FitSizes(o, t, mode) # {}
  BY FitSizesAre
<1> QED BY <1>2, <1>3, <1>4

\* Padding what was fitted, and what fits.
LEMMA PadBrings ==
  ASSUME Layout!SizingAssumption, NEW o \in Layout!Sizes, NEW t \in Layout!Sizes
  PROVE  /\ \A mode \in {"pad", "stretch"} : Brings(FitTo(o, t, mode), Layout!Step("pad"), Ended(o, t, mode), o, t)
         /\ ~Larger(o, t) => Brings(Whole(o, t), Layout!Step("pad"), Placed(o, t, {t}), o, t)
<1>1. ASSUME NEW l \in Layouts, l.target = t, Fits(l.canvas, t)
      PROVE  /\ Layout!Execute(l, Layout!Step("pad")) # {}
             /\ \A r \in Layout!Execute(l, Layout!Step("pad")) :
                  r \in Layouts /\ r.canvas = t /\ r.image = l.image /\ r.source = l.source /\ r.target = t
  <2>1. Layout!Execute(l, Layout!Step("pad")) = Layout!PadCanvas(l, t)
    BY <1>1, ExecuteIs
  <2> QED BY <1>1, <2>1, PadIs
<1>2. ASSUME NEW mode \in {"pad", "stretch"}, NEW l \in FitTo(o, t, mode)
      PROVE  Layout!Execute(l, Layout!Step("pad")) \subseteq Ended(o, t, mode) /\ Layout!Execute(l, Layout!Step("pad")) # {}
  <2>1. l \in Layouts /\ l.target = t /\ l.source = o /\ l.image = l.canvas /\ l.canvas \in FitSizes(o, t, mode)
    BY DEF FitTo
  <2>2. Fits(l.canvas, t)
    BY <2>1, FitSizesAre DEF ModeNames
  <2>3. CASE mode = "pad"
    BY <1>1, <2>1, <2>2, <2>3 DEF Ended
  <2>4. CASE mode = "stretch"
    <3>1. l.image = t
      BY <2>1, <2>4 DEF FitSizes
    <3>2. Ended(o, t, mode) = FitTo(o, t, mode)
      BY <2>4 DEF Ended
    <3>3. t \in FitSizes(o, t, mode)
      BY <2>4 DEF FitSizes
    <3> QED BY <1>1, <2>1, <2>2, <3>1, <3>2, <3>3 DEF FitTo
  <2> QED BY <2>3, <2>4
<1>3. ASSUME ~Larger(o, t), NEW l \in Whole(o, t)
      PROVE  Layout!Execute(l, Layout!Step("pad")) \subseteq Placed(o, t, {t}) /\ Layout!Execute(l, Layout!Step("pad")) # {}
  <2>1. l \in Layouts /\ l.target = t /\ l.canvas = o /\ l.image = o /\ l.source = o
    BY DEF Whole
  <2>2. Fits(l.canvas, t)
    BY <1>3, <2>1, FitsFits DEF Larger
  <2> QED BY <1>1, <2>1, <2>2 DEF Placed
<1> QED BY <1>2, <1>3 DEF Brings

\* Cropping what was fitted around the target.
LEMMA CropBrings ==
  ASSUME Layout!SizingAssumption, NEW o \in Layout!Sizes, NEW t \in Layout!Sizes
  PROVE  Brings(FitTo(o, t, "crop"), Layout!Step("crop"), Ended(o, t, "crop"), o, t)
<1> SUFFICES ASSUME NEW l \in FitTo(o, t, "crop")
             PROVE  /\ Layout!Execute(l, Layout!Step("crop")) \subseteq Ended(o, t, "crop")
                    /\ MayFit(o, t) => Layout!Execute(l, Layout!Step("crop")) # {}
  BY DEF Brings
<1>1. l \in Layouts /\ l.target = t /\ l.source = o /\ l.image = l.canvas /\ l.canvas \in FitSizes(o, t, "crop")
  BY DEF FitTo
<1>2. l.canvas \in Layout!Sizes /\ Fits(t, l.canvas)
  BY <1>1, FitSizesAre DEF ModeNames
<1>3. Layout!Execute(l, Layout!Step("crop")) = Layout!VirtualCanvas(l, t)
  <2>1. Layout!Execute(l, Layout!Step("crop")) = Layout!Crop(l, t)
    BY <1>1, ExecuteIs
  <2>2. ~Layout!ExceedsAny(t, l.canvas)
    BY <1>2, FitsFits
  <2> QED BY <2>1, <2>2 DEF Layout!Crop
<1>4. Layout!Intersection(l.image, t) = {t}
  BY <1>1, <1>2, SharedIs
<1>5. ASSUME NEW r \in Layout!VirtualCanvas(l, t)
      PROVE  r \in Ended(o, t, "crop")
  <2>1. /\ r \in Layouts /\ r.canvas = t /\ r.target = l.target
        /\ r.image \in Layout!Intersection(l.image, t) /\ r.source \in Layout!BoxOf(r.image, l.source, "inner")
    BY <1>1, VirtualIs
  <2>2. r.image = t
    BY <1>4, <2>1
  <2> QED BY <1>1, <2>1, <2>2 DEF Ended
<1>6. MayFit(o, t) => Layout!VirtualCanvas(l, t) # {}
  BY <1>1, VirtualIsThere, FitsFits
<1> QED BY <1>3, <1>5, <1>6

\* A canvas of the image's shape, around the image that fits and for one that was fitted.
LEMMA ShowBrings ==
  ASSUME Layout!SizingAssumption, NEW o \in Layout!Sizes, NEW t \in Layout!Sizes
  PROVE  LET step == Layout!StepTo("virtual_canvas", Layout!InnerOfTarget) IN
         /\ Larger(o, t) => Brings(FitTo(o, t, "max"), step, Shown(o, t), o, t)
         /\ ~Larger(o, t) => Brings(Whole(o, t), step, Placed(o, t, FitSizes(o, t, "max")), o, t)
<1> DEFINE step == Layout!StepTo("virtual_canvas", Layout!InnerOfTarget)
<1>1. ASSUME NEW l \in Layouts, l.target = t
      PROVE  Layout!Execute(l, step) = UNION {Layout!VirtualCanvas(l, b) : b \in Layout!BoxOf(l.canvas, t, "inner")}
  BY <1>1, ExecuteIs
<1> HIDE DEF step
<1>2. ASSUME Larger(o, t), NEW l \in FitTo(o, t, "max")
      PROVE  /\ Layout!Execute(l, step) \subseteq Shown(o, t)
             /\ MayFit(o, t) => Layout!Execute(l, step) # {}
  <2> DEFINE c == l.canvas
  <2>1. l \in Layouts /\ l.target = t /\ l.source = o /\ l.image = c /\ c \in FitSizes(o, t, "max")
    BY DEF FitTo
  <2>2. c \in Layout!Sizes /\ Fits(c, t)
    BY <2>1, FitSizesAre DEF ModeNames
  <2>3. c \in Layout!BoxOf(o, t, "inner")
    BY <2>1 DEF FitSizes
  <2>4. c.w = t.w \/ c.h = t.h
    BY <2>3, BoxIs
  <2>5. \A b \in Layout!BoxOf(c, t, "inner") : b = c
    BY <2>2, <2>4, OwnBox
  <2>6. Layout!Intersection(l.image, c) = {c}
    BY <2>1, <2>2, SharedIs, FitsFits
  <2>7. ASSUME NEW r \in Layout!VirtualCanvas(l, c)
        PROVE  r \in Shown(o, t)
    <3>1. /\ r \in Layouts /\ r.canvas = c /\ r.target = l.target
          /\ r.image \in Layout!Intersection(l.image, c) /\ r.source \in Layout!BoxOf(r.image, l.source, "inner")
      BY <2>1, <2>2, VirtualIs
    <3>2. r.image = c
      BY <2>6, <3>1
    <3> QED BY <2>1, <3>1, <3>2 DEF Shown
  <2>8. ASSUME MayFit(o, t)
        PROVE  Layout!BoxOf(c, t, "inner") # {} /\ Layout!VirtualCanvas(l, c) # {}
    <3>1. /\ MaxSize \in Nat /\ t.w \in Nat \ {0} /\ t.h \in Nat \ {0} /\ c.w \in Nat \ {0} /\ c.h \in Nat \ {0}
          /\ o.w \in Nat \ {0} /\ o.h \in Nat \ {0} /\ c.w <= o.w /\ c.h <= o.h
      BY <1>2, <2>2, <2>3, SidesOf, InnerBoxIsSmaller DEF Larger, Fits, Layout!SizingAssumption
    <3>2. c.h * t.w <= o.h * t.w /\ c.w * t.h <= o.w * t.h
      BY <3>1, ProductsOrder
    <3>3. t.w * c.h < MaxSize /\ t.h * c.w < MaxSize
      <4>1. /\ c.h * t.w = t.w * c.h /\ o.h * t.w = t.w * o.h /\ c.w * t.h = t.h * c.w /\ o.w * t.h = t.h * o.w
            /\ t.w * c.h \in Int /\ t.w * o.h \in Int /\ t.h * c.w \in Int /\ t.h * o.w \in Int
        BY <3>1
      <4>2. t.w * o.h < MaxSize /\ t.h * o.w < MaxSize
        BY <2>8 DEF MayFit
      <4> QED BY <3>1, <3>2, <4>1, <4>2
    <3>4. Layout!BoxOf(c, t, "inner") # {}
      BY <2>2, <3>3, BoxIsThere
    <3>5. Layout!VirtualCanvas(l, c) # {}
      BY <2>1, <2>2, <2>8, VirtualIsThere
    <3> QED BY <3>4, <3>5
  <2> QED BY <1>1, <2>1, <2>5, <2>7, <2>8
<1>3. ASSUME ~Larger(o, t), NEW l \in Whole(o, t)
      PROVE  /\ Layout!Execute(l, step) \subseteq Placed(o, t, FitSizes(o, t, "max"))
             /\ MayFit(o, t) => Layout!Execute(l, step) # {}
  <2>1. l \in Layouts /\ l.target = t /\ l.source = o /\ l.image = o /\ l.canvas = o
    BY DEF Whole
  <2>2. FitSizes(o, t, "max") = Layout!BoxOf(l.canvas, t, "inner") /\ Fits(o, t) /\ Fits(o, o)
    BY <1>3, <2>1, FitsFits DEF FitSizes, Larger
  <2>3. ASSUME NEW b \in FitSizes(o, t, "max"), NEW r \in Layout!VirtualCanvas(l, b)
        PROVE  r \in Placed(o, t, FitSizes(o, t, "max"))
    <3>1. b \in Layout!Sizes /\ Fits(o, b)
      BY <2>1, <2>2, BoxesAre, BoxIsLarger
    <3>2. /\ r \in Layouts /\ r.canvas = b /\ r.target = l.target
          /\ r.image \in Layout!Intersection(l.image, b) /\ r.source \in Layout!BoxOf(r.image, l.source, "inner")
      BY <2>1, <3>1, VirtualIs
    <3>3. r.image = o
      BY <2>1, <3>1, <3>2, SharedIs
    <3>4. r.source = o
      BY <2>1, <2>2, <3>2, <3>3, OwnBox
    <3> QED BY <2>1, <3>2, <3>3, <3>4 DEF Placed
  <2>4. ASSUME MayFit(o, t), NEW b \in FitSizes(o, t, "max")
        PROVE  Layout!VirtualCanvas(l, b) # {}
    <3>1. b \in Layout!Sizes
      BY <2>1, <2>2, BoxesAre
    <3> QED BY <2>1, <2>2, <2>4, <3>1, VirtualIsThere
  <2>5. MayFit(o, t) => FitSizes(o, t, "max") # {}
    BY FitSizesAre DEF ModeNames
  <2>6. Layout!Execute(l, step) = UNION {Layout!VirtualCanvas(l, b) : b \in FitSizes(o, t, "max")}
    BY <1>1, <2>1, <2>2
  <2> QED BY <2>3, <2>4, <2>5, <2>6
<1>4. /\ Larger(o, t) => Brings(FitTo(o, t, "max"), step, Shown(o, t), o, t)
      /\ ~Larger(o, t) => Brings(Whole(o, t), step, Placed(o, t, FitSizes(o, t, "max")), o, t)
  BY <1>2, <1>3 DEF Brings
<1> QED BY <1>4 DEF step

\* What the image and the target share, if one is larger one way and the other another.
LEMMA ShareBrings ==
  ASSUME Layout!SizingAssumption, NEW o \in Layout!Sizes, NEW t \in Layout!Sizes, NEW scale \in {"down", "canvas"}
  PROVE  Brings(Whole(o, t), LastStep(scale), Shared(o, t, LastCanvases(scale, o, t)), o, t)
<1> SUFFICES ASSUME NEW l \in Whole(o, t)
             PROVE  /\ Layout!Execute(l, LastStep(scale)) \subseteq Shared(o, t, LastCanvases(scale, o, t))
                    /\ MayFit(o, t) => Layout!Execute(l, LastStep(scale)) # {}
  BY DEF Brings
<1>1. l \in Layouts /\ l.target = t /\ l.canvas = o /\ l.image = o /\ l.source = o
  BY DEF Whole
<1>2. PICK p \in Layout!Intersection(o, t) : TRUE
  BY SharedIs
<1>3. p \in Layout!Sizes /\ Fits(p, o) /\ Fits(p, t) /\ Layout!Intersection(o, t) = {p}
  <2>1. Layout!Intersection(o, t) = {p}
    BY <1>2 DEF Layout!Intersection, Layout!Create
  <2> QED BY <1>2, <2>1, IntersectionFits
<1> DEFINE c == IF scale = "canvas" THEN t ELSE p
<1>4. /\ c \in Layout!Sizes /\ Fits(c, t) /\ LastCanvases(scale, o, t) = {c}
      /\ Layout!Execute(l, LastStep(scale)) = Layout!VirtualCanvas(l, c)
  <2>1. CASE scale = "canvas"
    BY <1>1, <2>1, ExecuteIs, FitsFits DEF LastStep, LastCanvases
  <2>2. CASE scale = "down"
    <3>1. Layout!Execute(l, LastStep(scale)) = UNION {Layout!Crop(l, b) : b \in {p}}
      BY <1>1, <1>3, <2>2, ExecuteIs DEF LastStep
    <3>2. ~Layout!ExceedsAny(p, l.canvas)
      BY <1>1, <1>3, FitsFits
    <3>3. Layout!Crop(l, p) = Layout!VirtualCanvas(l, p)
      BY <3>2 DEF Layout!Crop
    <3> QED BY <1>3, <2>2, <3>1, <3>3 DEF LastCanvases
  <2> QED BY <2>1, <2>2
<1> HIDE DEF c
<1>5. p \in Layout!Intersection(o, c) /\ Layout!Intersection(o, c) = Layout!Intersection(o, t)
  <2>1. CASE scale = "canvas"
    BY <1>2, <2>1 DEF c
  <2>2. CASE scale = "down"
    BY <1>3, <2>2, SharedIs DEF c
  <2> QED BY <2>1, <2>2
<1>6. ASSUME NEW r \in Layout!VirtualCanvas(l, c)
      PROVE  r \in Shared(o, t, LastCanvases(scale, o, t))
  <2>1. /\ r \in Layouts /\ r.canvas = c /\ r.target = l.target
        /\ r.image \in Layout!Intersection(l.image, c) /\ r.source \in Layout!BoxOf(r.image, l.source, "inner")
    BY <1>1, <1>4, VirtualIs
  <2> QED BY <1>1, <1>4, <1>5, <2>1 DEF Shared
<1>7. MayFit(o, t) => Layout!VirtualCanvas(l, c) # {}
  BY <1>1, <1>4, VirtualIsThere
<1> QED BY <1>4, <1>6, <1>7

-----------------------------------------------------------------------------
\* A sequence with one more at its end.
LEMMA OneMore ==
  ASSUME NEW S, NEW s \in Seq(S), NEW x \in S, NEW u \in Seq(S), Len(u) = Len(s) + 1, u[Len(s) + 1] = x,
         \A n \in 1 .. Len(s) : u[n] = s[n]
  PROVE  s \o <<x>> = u
<1> DEFINE v == s \o <<x>>
<1>1. <<x>> \in Seq(S) /\ Len(<<x>>) = 1 /\ <<x>>[1] = x /\ Len(s) \in Nat
  BY LenProperties
<1>2. v \in Seq(S) /\ Len(v) = Len(s) + 1
  BY <1>1, ConcatProperties
<1>3. \A n \in 1 .. Len(s) + 1 : v[n] = IF n <= Len(s) THEN s[n] ELSE <<x>>[n - Len(s)]
  BY <1>1, ConcatProperties
<1> HIDE DEF v
<1>4. ASSUME NEW n \in 1 .. Len(v)
      PROVE  v[n] = u[n]
  <2>1. CASE n <= Len(s)
    BY <1>1, <1>2, <1>3, <2>1
  <2>2. CASE n > Len(s)
    <3>1. n = Len(s) + 1 /\ n - Len(s) = 1
      BY <1>1, <1>2, <2>2
    <3> QED BY <1>1, <1>2, <1>3, <2>2, <3>1
  <2> QED BY <1>1, <1>2, <2>1, <2>2
<1>5. v = u
  BY <1>2, <1>4, SeqEqual
<1> QED BY <1>5 DEF v

\* Two of them.
LEMMA TwoJoin ==
  ASSUME NEW a, NEW b
  PROVE  <<a>> \o <<b>> = <<a, b>>
<1> DEFINE S == {a, b}
           s == <<a>>
           u == <<a, b>>
<1>1. a \in S /\ b \in S
  OBVIOUS
<1> HIDE DEF S
<1>2. s \in Seq(S) /\ u \in Seq(S) /\ Len(s) = 1 /\ Len(u) = 2 /\ u[2] = b
  BY <1>1
<1>3. u[1] = s[1]
  OBVIOUS
<1> HIDE DEF s, u
<1>4. \A n \in 1 .. Len(s) : u[n] = s[n]
  BY <1>2, <1>3
<1>5. Len(u) = Len(s) + 1 /\ u[Len(s) + 1] = b
  BY <1>2
<1>6. <<a>> \o <<b>> = <<a, b>>
  <2>1. s \o <<b>> = u
    BY <1>1, <1>2, <1>4, <1>5, OneMore
  <2> QED BY <2>1 DEF s, u
<1> QED BY <1>6

\* Three of them.
LEMMA ThreeJoin ==
  ASSUME NEW a, NEW b, NEW c
  PROVE  <<a, b>> \o <<c>> = <<a, b, c>> /\ <<a>> \o <<b, c>> = <<a, b, c>>
<1> DEFINE S == {a, b, c}
           s == <<a, b>>
           u == <<a, b, c>>
<1>1. a \in S /\ b \in S /\ c \in S
  OBVIOUS
<1> HIDE DEF S
<1>2. s \in Seq(S) /\ u \in Seq(S) /\ Len(s) = 2 /\ Len(u) = 3 /\ u[3] = c
  BY <1>1
<1>3. u[1] = s[1] /\ u[2] = s[2]
  OBVIOUS
<1> HIDE DEF s, u
<1>4. \A n \in 1 .. Len(s) : u[n] = s[n]
  BY <1>2, <1>3
<1>5. Len(u) = Len(s) + 1 /\ u[Len(s) + 1] = c
  BY <1>2
<1>6. <<a, b>> \o <<c>> = <<a, b, c>>
  <2>1. s \o <<c>> = u
    BY <1>1, <1>2, <1>4, <1>5, OneMore
  <2> QED BY <2>1 DEF s, u
<1>7. <<a>> \o <<b, c>> = <<a, b, c>>
  <2>1. (<<a>> \o <<b>>) \o <<c>> = <<a>> \o (<<b>> \o <<c>>)
    <3>1. <<a>> \in Seq(S) /\ <<b>> \in Seq(S) /\ <<c>> \in Seq(S)
      BY <1>1
    <3> QED BY <3>1, ConcatAssociative
  <2>2. <<a>> \o <<b>> = <<a, b>> /\ <<b>> \o <<c>> = <<b, c>>
    BY TwoJoin
  <2> QED BY <1>6, <2>1, <2>2
<1> QED BY <1>6, <1>7

\* Four of them.
LEMMA FourJoin ==
  ASSUME NEW a, NEW b, NEW c, NEW d
  PROVE  <<a, b, c>> \o <<d>> = <<a, b, c, d>> /\ <<a, b>> \o <<c, d>> = <<a, b, c, d>>
<1> DEFINE S == {a, b, c, d}
           s == <<a, b, c>>
           u == <<a, b, c, d>>
<1>1. a \in S /\ b \in S /\ c \in S /\ d \in S
  OBVIOUS
<1> HIDE DEF S
<1>2. s \in Seq(S) /\ u \in Seq(S) /\ Len(s) = 3 /\ Len(u) = 4 /\ u[4] = d
  BY <1>1
<1>3. u[1] = s[1] /\ u[2] = s[2] /\ u[3] = s[3]
  OBVIOUS
<1> HIDE DEF s, u
<1>4. \A n \in 1 .. Len(s) : u[n] = s[n]
  BY <1>2, <1>3
<1>5. Len(u) = Len(s) + 1 /\ u[Len(s) + 1] = d
  BY <1>2
<1>6. <<a, b, c>> \o <<d>> = <<a, b, c, d>>
  <2>1. s \o <<d>> = u
    BY <1>1, <1>2, <1>4, <1>5, OneMore
  <2> QED BY <2>1 DEF s, u
<1>7. <<a, b>> \o <<c, d>> = <<a, b, c, d>>
  <2>1. (<<a, b>> \o <<c>>) \o <<d>> = <<a, b>> \o (<<c>> \o <<d>>)
    <3>1. <<a, b>> \in Seq(S) /\ <<c>> \in Seq(S) /\ <<d>> \in Seq(S)
      BY <1>1
    <3> QED BY <3>1, ConcatAssociative
  <2>2. <<a, b>> \o <<c>> = <<a, b, c>> /\ <<c>> \o <<d>> = <<c, d>>
    BY TwoJoin, ThreeJoin
  <2> QED BY <1>6, <2>1, <2>2
<1> QED BY <1>6, <1>7

\* Five of them.
LEMMA FiveJoin ==
  ASSUME NEW a, NEW b, NEW c, NEW d, NEW e
  PROVE  <<a, b, c, d>> \o <<e>> = <<a, b, c, d, e>> /\ <<a, b, c>> \o <<d, e>> = <<a, b, c, d, e>>
<1> DEFINE S == {a, b, c, d, e}
           s == <<a, b, c, d>>
           u == <<a, b, c, d, e>>
<1>1. a \in S /\ b \in S /\ c \in S /\ d \in S /\ e \in S
  OBVIOUS
<1> HIDE DEF S
<1>2. s \in Seq(S) /\ u \in Seq(S) /\ Len(s) = 4 /\ Len(u) = 5 /\ u[5] = e
  BY <1>1
<1>3. u[1] = s[1] /\ u[2] = s[2] /\ u[3] = s[3] /\ u[4] = s[4]
  OBVIOUS
<1> HIDE DEF s, u
<1>4. \A n \in 1 .. Len(s) : u[n] = s[n]
  BY <1>2, <1>3
<1>5. Len(u) = Len(s) + 1 /\ u[Len(s) + 1] = e
  BY <1>2
<1>6. <<a, b, c, d>> \o <<e>> = <<a, b, c, d, e>>
  <2>1. s \o <<e>> = u
    BY <1>1, <1>2, <1>4, <1>5, OneMore
  <2> QED BY <2>1 DEF s, u
<1>7. <<a, b, c>> \o <<d, e>> = <<a, b, c, d, e>>
  <2>1. (<<a, b, c>> \o <<d>>) \o <<e>> = <<a, b, c>> \o (<<d>> \o <<e>>)
    <3>1. <<a, b, c>> \in Seq(S) /\ <<d>> \in Seq(S) /\ <<e>> \in Seq(S)
      BY <1>1
    <3> QED BY <3>1, ConcatAssociative
  <2>2. <<a, b, c>> \o <<d>> = <<a, b, c, d>> /\ <<d>> \o <<e>> = <<d, e>>
    BY TwoJoin, FourJoin
  <2> QED BY <1>6, <2>1, <2>2
<1> QED BY <1>6, <1>7

\* Six of them.
LEMMA SixJoin ==
  ASSUME NEW a, NEW b, NEW c, NEW d, NEW e, NEW f
  PROVE  <<a, b, c, d, e>> \o <<f>> = <<a, b, c, d, e, f>>
<1> DEFINE S == {a, b, c, d, e, f}
           s == <<a, b, c, d, e>>
           u == <<a, b, c, d, e, f>>
<1>1. a \in S /\ b \in S /\ c \in S /\ d \in S /\ e \in S /\ f \in S
  OBVIOUS
<1> HIDE DEF S
<1>2. s \in Seq(S) /\ u \in Seq(S) /\ Len(s) = 5 /\ Len(u) = 6 /\ u[6] = f
  BY <1>1
<1>3. u[1] = s[1] /\ u[2] = s[2] /\ u[3] = s[3] /\ u[4] = s[4] /\ u[5] = s[5]
  OBVIOUS
<1> HIDE DEF s, u
<1>4. \A n \in 1 .. Len(s) : u[n] = s[n]
  BY <1>2, <1>3
<1>5. Len(u) = Len(s) + 1 /\ u[Len(s) + 1] = f
  BY <1>2
<1>6. <<a, b, c, d, e>> \o <<f>> = <<a, b, c, d, e, f>>
  <2>1. s \o <<f>> = u
    BY <1>1, <1>2, <1>4, <1>5, OneMore
  <2> QED BY <2>1 DEF s, u
<1> QED BY <1>6

-----------------------------------------------------------------------------
\* Steps that do nothing but decide.
LEMMA NothingBrings ==
  ASSUME NEW S, NEW o, NEW t
  PROVE  /\ Brings(S, Anew, S, o, t)
         /\ \A c : Brings(S, Layout!SkipIf(c), S, o, t) /\ Brings(S, Layout!SkipUnless(c), S, o, t)
<1>1. \A l : Layout!Execute(l, Anew) = {l}
  BY ExecuteIs
<1>2. \A l, c : Layout!Execute(l, Layout!SkipIf(c)) = {l} /\ Layout!Execute(l, Layout!SkipUnless(c)) = {l}
  BY ExecuteIs
<1> QED BY <1>1, <1>2 DEF Brings

\* A step that is skipped leaves the layout as it is.
LEMMA Passes ==
  ASSUME Layout!Advance, Layout!Skips(Head(rest))
  PROVE  lay' = lay /\ verdict' = "running" /\ rest' = Tail(rest) /\ skipping'
<1> DEFINE step == Head(rest)
           results == IF Layout!Skips(step) THEN {lay} ELSE Layout!Execute(lay, step)
<1>1. /\ verdict = "running" /\ skipping' = Layout!Skips(step) /\ rest' = Tail(rest)
      /\ IF results = {} THEN verdict' = "failed" /\ UNCHANGED lay ELSE lay' \in results /\ UNCHANGED verdict
  BY DEF Layout!Advance
<1>2. results = {lay}
  OBVIOUS
<1> HIDE DEF results, step
<1>3. lay' = lay /\ verdict' = "running" /\ rest' = Tail(rest)
  BY <1>1, <1>2
<1>4. skipping'
  BY <1>1 DEF step
<1> QED BY <1>3, <1>4

\* One that is taken makes of it what the step makes, or fails, out of range.
LEMMA Takes ==
  ASSUME NEW S, NEW R, NEW o, NEW t, R \subseteq Aimed(t), Brings(S, Head(rest), R, o, t),
         Layout!Advance, ~Layout!Skips(Head(rest)), lay \in S, lay.target = t
  PROVE  /\ lay'.target = t /\ rest' = Tail(rest) /\ ~skipping'
         /\ verdict' = "failed" => ~MayFit(o, t)
         /\ verdict' # "failed" => lay' \in R
<1> DEFINE step == Head(rest)
           results == IF Layout!Skips(step) THEN {lay} ELSE Layout!Execute(lay, step)
<1>1. /\ verdict = "running" /\ skipping' = Layout!Skips(step) /\ rest' = Tail(rest)
      /\ IF results = {} THEN verdict' = "failed" /\ UNCHANGED lay ELSE lay' \in results /\ UNCHANGED verdict
  BY DEF Layout!Advance
<1>2. results = Layout!Execute(lay, step)
  OBVIOUS
<1>3. results \subseteq R /\ (MayFit(o, t) => results # {})
  BY <1>2 DEF Brings
<1>4. ~skipping'
  <2> HIDE DEF results
  <2> QED BY <1>1
<1> HIDE DEF results, step
<1>5. verdict' = "failed" => results = {}
  BY <1>1
<1>6. verdict' # "failed" => lay' \in R
  BY <1>1, <1>3
<1>7. lay'.target = t
  BY <1>1, <1>3 DEF Aimed
<1> QED BY <1>1, <1>3, <1>4, <1>5, <1>6, <1>7

-----------------------------------------------------------------------------
\* The steps go on along the stages of a scale and a mode that has no other: both,
\* up, and down but for cropping.
LEMMA PlainGoesOn ==
  ASSUME Layout!SizingAssumption, NEW scale \in {"both", "up", "down"}, NEW mode \in ModeNames, NEW o \in Layout!Sizes,
         NEW t \in Layout!Sizes, Layout!Advance, PlainStage(Here, scale, mode, o, t), lay.target = t, lay \in Layouts, skipping \in BOOLEAN
  PROVE  /\ lay'.target = t
         /\ verdict' = "failed" => ~MayFit(o, t)
         /\ verdict' # "failed" => PlainStage(Here', scale, mode, o, t)
<1> DEFINE skips == Skipped(scale, o, t)
           after == IF mode \in {"pad", "crop"} THEN <<Layout!Step(mode)>> ELSE <<>>
           end == IF skips THEN Whole(o, t) ELSE Ended(o, t, mode)
           mid == IF skips THEN Whole(o, t) ELSE FitTo(o, t, mode)
<1>1. \/ scale # "both" /\ At(Here, <<SkipStep(scale), FitStep(mode)>> \o after, FALSE, Whole(o, t))
      \/ At(Here, <<FitStep(mode)>> \o after, skips, Whole(o, t))
      \/ mode \in {"pad", "crop"} /\ At(Here, after, skips, mid)
      \/ At(Here, <<>>, skips, end)
  BY DEF PlainStage
<1>2. ASSUME verdict' # "failed",
             \/ At(Here', <<FitStep(mode)>> \o after, skips, Whole(o, t))
             \/ mode \in {"pad", "crop"} /\ At(Here', after, skips, mid)
             \/ At(Here', <<>>, skips, end)
      PROVE  PlainStage(Here', scale, mode, o, t)
  BY <1>2 DEF PlainStage
<1>3. after = IF mode \in {"pad", "crop"} THEN <<Layout!Step(mode)>> ELSE <<>>
  OBVIOUS
<1> HIDE DEF after, skips
<1>4. Whole(o, t) \subseteq Aimed(t) /\ FitTo(o, t, mode) \subseteq Aimed(t) /\ Ended(o, t, mode) \subseteq Aimed(t)
  BY AllAimed
<1>5. CASE scale # "both" /\ At(Here, <<SkipStep(scale), FitStep(mode)>> \o after, FALSE, Whole(o, t))
  <2>1. rest = <<SkipStep(scale), FitStep(mode)>> \o after /\ ~skipping /\ lay \in Whole(o, t)
    BY <1>5 DEF At, Here
  <2>2. Head(rest) = SkipStep(scale) /\ Tail(rest) = <<FitStep(mode)>> \o after
    BY <1>3, <2>1
  <2>3. lay.canvas = o
    BY <2>1 DEF Whole
  <2>4. Layout!Skips(SkipStep(scale)) <=> skips
    BY <1>5, <2>1, <2>3, SkipsAre DEF SkipStep, skips, Skipped
  <2>5. CASE skips
    <3>1. lay' = lay /\ verdict' = "running" /\ rest' = <<FitStep(mode)>> \o after /\ skipping'
      BY <2>2, <2>4, <2>5, Passes
    <3>2. At(Here', <<FitStep(mode)>> \o after, skips, Whole(o, t))
      BY <2>1, <2>5, <3>1 DEF At, Here
    <3> QED BY <1>2, <3>1, <3>2
  <2>6. CASE ~skips
    <3>1. Brings(Whole(o, t), Head(rest), Whole(o, t), o, t)
      BY <2>2, NothingBrings DEF SkipStep
    <3>2. ~Layout!Skips(Head(rest)) /\ lay \in Whole(o, t) /\ lay.target = t
      BY <2>1, <2>2, <2>4, <2>6
    <3>3. /\ lay'.target = t /\ rest' = Tail(rest) /\ ~skipping'
          /\ verdict' = "failed" => ~MayFit(o, t)
          /\ verdict' # "failed" => lay' \in Whole(o, t)
      BY <1>4, <3>1, <3>2, Takes
    <3>4. verdict' # "failed" => At(Here', <<FitStep(mode)>> \o after, skips, Whole(o, t))
      BY <2>2, <2>6, <3>3 DEF At, Here
    <3> QED BY <1>2, <3>3, <3>4
  <2> QED BY <2>5, <2>6
<1>6. CASE At(Here, <<FitStep(mode)>> \o after, skips, Whole(o, t))
  <2>1. rest = <<FitStep(mode)>> \o after /\ (skipping <=> skips) /\ lay \in Whole(o, t)
    BY <1>6 DEF At, Here
  <2>2. Head(rest) = FitStep(mode) /\ Tail(rest) = after
    <3>1. CASE mode \in {"pad", "crop"}
      <4>1. rest = <<FitStep(mode), Layout!Step(mode)>> /\ after = <<Layout!Step(mode)>>
        <5>1. after = <<Layout!Step(mode)>>
          BY <1>3, <3>1
        <5>2. <<FitStep(mode)>> \o <<Layout!Step(mode)>> = <<FitStep(mode), Layout!Step(mode)>>
          BY TwoJoin
        <5> QED BY <2>1, <5>1, <5>2
      <4> QED BY <4>1
    <3>2. CASE mode \notin {"pad", "crop"}
      <4>1. rest = <<FitStep(mode)>> /\ after = <<>>
        BY <1>3, <2>1, <3>2
      <4> QED BY <4>1
    <3> QED BY <3>1, <3>2
  <2>3. Layout!Skips(FitStep(mode)) <=> skips
    BY <2>1, SkipsAre DEF FitStep, ModeNames
  <2>4. ASSUME verdict' # "failed", rest' = after, skipping' <=> skips, lay' \in mid
        PROVE  PlainStage(Here', scale, mode, o, t)
    <3>1. At(Here', after, skips, mid)
      BY <2>4 DEF At, Here
    <3>2. CASE mode \in {"pad", "crop"}
      BY <1>2, <2>4, <3>1, <3>2
    <3>3. CASE mode \notin {"pad", "crop"}
      <4>1. after = <<>> /\ mid = end
        BY <1>3, <3>3 DEF Ended
      <4> QED BY <1>2, <2>4, <3>1, <4>1
    <3> QED BY <3>2, <3>3
  <2>5. CASE skips
    <3>1. lay' = lay /\ verdict' = "running" /\ rest' = after /\ skipping'
      BY <2>2, <2>3, <2>5, Passes
    <3> QED BY <2>1, <2>4, <2>5, <3>1
  <2>6. CASE ~skips
    <3>1. Brings(Whole(o, t), Head(rest), FitTo(o, t, mode), o, t)
      BY <2>2, FitBrings
    <3>2. /\ lay'.target = t /\ rest' = after /\ ~skipping'
          /\ verdict' = "failed" => ~MayFit(o, t)
          /\ verdict' # "failed" => lay' \in FitTo(o, t, mode)
      BY <1>4, <2>1, <2>2, <2>3, <2>6, <3>1, Takes
    <3> QED BY <2>4, <2>6, <3>2
  <2> QED BY <2>5, <2>6
<1>7. CASE mode \in {"pad", "crop"} /\ At(Here, after, skips, mid)
  <2>1. rest = <<Layout!Step(mode)>> /\ (skipping <=> skips) /\ lay \in mid
    BY <1>3, <1>7 DEF At, Here
  <2>2. Head(rest) = Layout!Step(mode) /\ Tail(rest) = <<>>
    BY <2>1
  <2>3. Layout!Skips(Layout!Step(mode)) <=> skips
    BY <1>7, <2>1, SkipsAre
  <2>4. ASSUME verdict' # "failed", rest' = <<>>, skipping' <=> skips, lay' \in end
        PROVE  PlainStage(Here', scale, mode, o, t)
    <3>1. At(Here', <<>>, skips, end)
      BY <2>4 DEF At, Here
    <3> QED BY <1>2, <2>4, <3>1
  <2>5. CASE skips
    <3>1. lay' = lay /\ verdict' = "running" /\ rest' = <<>> /\ skipping'
      BY <2>2, <2>3, <2>5, Passes
    <3> QED BY <2>1, <2>4, <2>5, <3>1
  <2>6. CASE ~skips
    <3>1. Brings(FitTo(o, t, mode), Head(rest), Ended(o, t, mode), o, t)
      BY <1>7, <2>2, PadBrings, CropBrings
    <3>2. /\ lay'.target = t /\ rest' = <<>> /\ ~skipping'
          /\ verdict' = "failed" => ~MayFit(o, t)
          /\ verdict' # "failed" => lay' \in Ended(o, t, mode)
      BY <1>4, <2>1, <2>2, <2>3, <2>6, <3>1, Takes
    <3> QED BY <2>4, <2>6, <3>2
  <2> QED BY <2>5, <2>6
<1>8. CASE At(Here, <<>>, skips, end)
  <2>1. rest = <<>>
    BY <1>8 DEF At, Here
  <2> QED BY <2>1 DEF Layout!Advance
<1> QED BY <1>1, <1>5, <1>6, <1>7, <1>8

\* They go on along the stages of a canvas.
LEMMA CanvasGoesOn ==
  ASSUME Layout!SizingAssumption, NEW mode \in ModeNames \ {"crop"}, NEW o \in Layout!Sizes, NEW t \in Layout!Sizes,
         Layout!Advance, CanvasStage(Here, mode, o, t), lay.target = t, lay \in Layouts, skipping \in BOOLEAN
  PROVE  /\ lay'.target = t
         /\ verdict' = "failed" => ~MayFit(o, t)
         /\ verdict' # "failed" => CanvasStage(Here', mode, o, t)
<1> DEFINE skips == ~Larger(o, t)
           then == IF skips THEN Whole(o, t) ELSE FitTo(o, t, mode)
           last == IF mode = "max" THEN Layout!StepTo("virtual_canvas", Layout!InnerOfTarget) ELSE Layout!Step("pad")
           end == CanvasEnd(mode, o, t)
<1>1. \/ At(Here, <<SkipStep("canvas"), FitStep(mode), Anew, last>>, FALSE, Whole(o, t))
      \/ At(Here, <<FitStep(mode), Anew, last>>, skips, Whole(o, t))
      \/ At(Here, <<Anew, last>>, skips, then)
      \/ At(Here, <<last>>, FALSE, then)
      \/ At(Here, <<>>, FALSE, end)
  BY DEF CanvasStage
<1>2. ASSUME \/ At(Here', <<FitStep(mode), Anew, last>>, skips, Whole(o, t))
             \/ At(Here', <<Anew, last>>, skips, then)
             \/ At(Here', <<last>>, FALSE, then)
             \/ At(Here', <<>>, FALSE, end)
      PROVE  CanvasStage(Here', mode, o, t)
  BY <1>2 DEF CanvasStage
<1>3. mode \in ModeNames
  OBVIOUS
<1>4. Whole(o, t) \subseteq Aimed(t) /\ FitTo(o, t, mode) \subseteq Aimed(t) /\ then \subseteq Aimed(t) /\ end \subseteq Aimed(t)
  BY AllAimed DEF CanvasEnd
<1>5. Brings(then, last, end, o, t)
  <2>1. CASE skips
    <3>1. mode = "max" => Brings(Whole(o, t), last, Placed(o, t, FitSizes(o, t, "max")), o, t)
      BY <2>1, ShowBrings
    <3>2. mode # "max" => Brings(Whole(o, t), last, Placed(o, t, {t}), o, t)
      BY <2>1, PadBrings
    <3> QED BY <2>1, <3>1, <3>2 DEF CanvasEnd
  <2>2. CASE ~skips
    <3>1. mode = "max" => Brings(FitTo(o, t, mode), last, Shown(o, t), o, t)
      BY <2>2, ShowBrings
    <3>2. mode # "max" => Brings(FitTo(o, t, mode), last, Ended(o, t, mode), o, t)
      BY PadBrings DEF ModeNames
    <3> QED BY <2>2, <3>1, <3>2 DEF CanvasEnd
  <2> QED BY <2>1, <2>2
<1>6. Layout!Skips(last) <=> skipping
  BY SkipsAre
<1> HIDE DEF last, end
<1>7. CASE At(Here, <<SkipStep("canvas"), FitStep(mode), Anew, last>>, FALSE, Whole(o, t))
  <2>1. rest = <<SkipStep("canvas"), FitStep(mode), Anew, last>> /\ ~skipping /\ lay \in Whole(o, t)
    BY <1>7 DEF At, Here
  <2>2. Head(rest) = SkipStep("canvas") /\ Tail(rest) = <<FitStep(mode), Anew, last>>
    BY <2>1
  <2>3. lay.canvas = o
    BY <2>1 DEF Whole
  <2>4. Layout!Skips(SkipStep("canvas")) <=> skips
    BY <2>1, <2>3, SkipsAre DEF SkipStep
  <2> HIDE DEF skips
  <2>5. ASSUME lay' \in Whole(o, t), rest' = Tail(rest), skipping' <=> skips
        PROVE  CanvasStage(Here', mode, o, t)
    <3>1. At(Here', <<FitStep(mode), Anew, last>>, skips, Whole(o, t))
      BY <2>2, <2>5 DEF At, Here
    <3> QED BY <1>2, <3>1
  <2>6. CASE skips
    <3>1. lay' = lay /\ verdict' = "running" /\ rest' = Tail(rest) /\ skipping'
      BY <2>2, <2>4, <2>6, Passes
    <3> QED BY <2>1, <2>5, <2>6, <3>1
  <2>7. CASE ~skips
    <3>1. Brings(Whole(o, t), Head(rest), Whole(o, t), o, t)
      BY <2>2, NothingBrings DEF SkipStep
    <3>2. ~Layout!Skips(Head(rest))
      BY <2>2, <2>4, <2>7
    <3>3. /\ lay'.target = t /\ rest' = Tail(rest) /\ ~skipping'
          /\ verdict' = "failed" => ~MayFit(o, t)
          /\ verdict' # "failed" => lay' \in Whole(o, t)
      BY <1>4, <2>1, <3>1, <3>2, Takes
    <3> QED BY <2>5, <2>7, <3>3
  <2> QED BY <2>6, <2>7
<1>8. CASE At(Here, <<FitStep(mode), Anew, last>>, skips, Whole(o, t))
  <2>1. rest = <<FitStep(mode), Anew, last>> /\ (skipping <=> skips) /\ lay \in Whole(o, t)
    BY <1>8 DEF At, Here
  <2>2. Head(rest) = FitStep(mode) /\ Tail(rest) = <<Anew, last>>
    BY <2>1
  <2>3. Layout!Skips(FitStep(mode)) <=> skips
    BY <2>1, SkipsAre DEF FitStep, ModeNames
  <2> HIDE DEF skips
  <2>4. ASSUME lay' \in then, rest' = Tail(rest), skipping' <=> skips
        PROVE  CanvasStage(Here', mode, o, t)
    <3>1. At(Here', <<Anew, last>>, skips, then)
      BY <2>2, <2>4 DEF At, Here
    <3> QED BY <1>2, <3>1
  <2>5. CASE skips
    <3>1. lay' = lay /\ verdict' = "running" /\ rest' = Tail(rest) /\ skipping'
      BY <2>2, <2>3, <2>5, Passes
    <3> QED BY <2>1, <2>4, <2>5, <3>1
  <2>6. CASE ~skips
    <3>1. Brings(Whole(o, t), Head(rest), FitTo(o, t, mode), o, t)
      BY <1>3, <2>2, FitBrings
    <3>2. ~Layout!Skips(Head(rest))
      BY <2>2, <2>3, <2>6
    <3>3. /\ lay'.target = t /\ rest' = Tail(rest) /\ ~skipping'
          /\ verdict' = "failed" => ~MayFit(o, t)
          /\ verdict' # "failed" => lay' \in FitTo(o, t, mode)
      BY <1>4, <2>1, <3>1, <3>2, Takes
    <3> QED BY <2>4, <2>6, <3>3
  <2> QED BY <2>5, <2>6
<1> HIDE DEF then, skips
<1>9. CASE At(Here, <<Anew, last>>, skips, then)
  <2>1. rest = <<Anew, last>> /\ lay \in then
    BY <1>9 DEF At, Here
  <2>2. Head(rest) = Anew /\ Tail(rest) = <<last>>
    BY <2>1
  <2>3. ~Layout!Skips(Head(rest))
    BY <2>2, SkipsAre
  <2>4. Brings(then, Head(rest), then, o, t)
    BY <2>2, NothingBrings
  <2>5. /\ lay'.target = t /\ rest' = Tail(rest) /\ ~skipping'
        /\ verdict' = "failed" => ~MayFit(o, t)
        /\ verdict' # "failed" => lay' \in then
    BY <1>4, <2>1, <2>3, <2>4, Takes
  <2>6. verdict' # "failed" => At(Here', <<last>>, FALSE, then)
    BY <2>2, <2>5 DEF At, Here
  <2> QED BY <1>2, <2>5, <2>6
<1>10. CASE At(Here, <<last>>, FALSE, then)
  <2>1. rest = <<last>> /\ ~skipping /\ lay \in then
    BY <1>10 DEF At, Here
  <2>2. Head(rest) = last /\ Tail(rest) = <<>>
    BY <2>1
  <2>3. ~Layout!Skips(Head(rest))
    BY <1>6, <2>1, <2>2
  <2>4. Brings(then, Head(rest), end, o, t)
    BY <1>5, <2>2
  <2>5. /\ lay'.target = t /\ rest' = Tail(rest) /\ ~skipping'
        /\ verdict' = "failed" => ~MayFit(o, t)
        /\ verdict' # "failed" => lay' \in end
    BY <1>4, <2>1, <2>3, <2>4, Takes
  <2>6. verdict' # "failed" => At(Here', <<>>, FALSE, end)
    BY <2>2, <2>5 DEF At, Here
  <2> QED BY <1>2, <2>5, <2>6
<1>11. CASE At(Here, <<>>, FALSE, end)
  <2>1. rest = <<>>
    BY <1>11 DEF At, Here
  <2> QED BY <2>1 DEF Layout!Advance
<1> QED BY <1>1, <1>7, <1>8, <1>9, <1>10, <1>11

\* And along those of cropping what is larger.
LEMMA CropGoesOn ==
  ASSUME Layout!SizingAssumption, NEW scale \in {"down", "canvas"}, NEW o \in Layout!Sizes, NEW t \in Layout!Sizes,
         Layout!Advance, CropStage(Here, scale, o, t), lay.target = t, lay \in Layouts, skipping \in BOOLEAN
  PROVE  /\ lay'.target = t
         /\ verdict' = "failed" => ~MayFit(o, t)
         /\ verdict' # "failed" => CropStage(Here', scale, o, t)
<1> DEFINE less == Smaller(o, t)
           mixed == less /\ Larger(o, t)
           last == LastStep(scale)
           unless == Layout!SkipUnless("larger_1d_smaller_1d")
           crop == Layout!Step("crop")
           fit == FitStep("crop")
           mid == IF less THEN Whole(o, t) ELSE FitTo(o, t, "crop")
           then == IF less THEN Whole(o, t) ELSE Ended(o, t, "crop")
           shared == Shared(o, t, LastCanvases(scale, o, t))
           end == IF mixed THEN shared ELSE then
<1>1. \/ At(Here, <<Layout!SkipIf("either_less"), fit, crop, Anew, unless, last>>, FALSE, Whole(o, t))
      \/ At(Here, <<fit, crop, Anew, unless, last>>, less, Whole(o, t))
      \/ At(Here, <<crop, Anew, unless, last>>, less, mid)
      \/ At(Here, <<Anew, unless, last>>, less, then)
      \/ At(Here, <<unless, last>>, FALSE, then)
      \/ At(Here, <<last>>, ~mixed, then)
      \/ At(Here, <<>>, ~mixed, end)
  BY DEF CropStage
<1>2. ASSUME \/ At(Here', <<fit, crop, Anew, unless, last>>, less, Whole(o, t))
             \/ At(Here', <<crop, Anew, unless, last>>, less, mid)
             \/ At(Here', <<Anew, unless, last>>, less, then)
             \/ At(Here', <<unless, last>>, FALSE, then)
             \/ At(Here', <<last>>, ~mixed, then)
             \/ At(Here', <<>>, ~mixed, end)
      PROVE  CropStage(Here', scale, o, t)
  BY <1>2 DEF CropStage
<1>3. /\ Whole(o, t) \subseteq Aimed(t) /\ FitTo(o, t, "crop") \subseteq Aimed(t) /\ mid \subseteq Aimed(t)
      /\ then \subseteq Aimed(t) /\ end \subseteq Aimed(t) /\ shared \subseteq Aimed(t) /\ Ended(o, t, "crop") \subseteq Aimed(t)
  BY AllAimed
<1>4. Layout!Skips(last) <=> skipping
  BY SkipsAre DEF LastStep
<1>5. (Layout!Skips(crop) <=> skipping) /\ (Layout!Skips(fit) <=> skipping)
  BY SkipsAre DEF FitStep
<1>6. Brings(Whole(o, t), last, shared, o, t)
  BY ShareBrings
<1>7. Brings(FitTo(o, t, "crop"), crop, Ended(o, t, "crop"), o, t)
  BY CropBrings
<1>8. Brings(Whole(o, t), fit, FitTo(o, t, "crop"), o, t)
  BY FitBrings DEF ModeNames
<1> HIDE DEF last, crop, fit, shared
<1>9. CASE At(Here, <<Layout!SkipIf("either_less"), fit, crop, Anew, unless, last>>, FALSE, Whole(o, t))
  <2>1. rest = <<Layout!SkipIf("either_less"), fit, crop, Anew, unless, last>> /\ ~skipping /\ lay \in Whole(o, t)
    BY <1>9 DEF At, Here
  <2>2. Head(rest) = Layout!SkipIf("either_less") /\ Tail(rest) = <<fit, crop, Anew, unless, last>>
    BY <2>1
  <2>3. lay.canvas = o
    BY <2>1 DEF Whole
  <2>4. Layout!Skips(Head(rest)) <=> less
    BY <2>1, <2>2, <2>3, SkipsAre
  <2> HIDE DEF less
  <2>5. ASSUME lay' \in Whole(o, t), rest' = Tail(rest), skipping' <=> less
        PROVE  CropStage(Here', scale, o, t)
    <3>1. At(Here', <<fit, crop, Anew, unless, last>>, less, Whole(o, t))
      BY <2>2, <2>5 DEF At, Here
    <3> QED BY <1>2, <3>1
  <2>6. CASE less
    <3>1. lay' = lay /\ verdict' = "running" /\ rest' = Tail(rest) /\ skipping'
      BY <2>4, <2>6, Passes
    <3> QED BY <2>1, <2>5, <2>6, <3>1
  <2>7. CASE ~less
    <3>1. Brings(Whole(o, t), Head(rest), Whole(o, t), o, t)
      BY <2>2, NothingBrings
    <3>2. ~Layout!Skips(Head(rest))
      BY <2>4, <2>7
    <3>3. /\ lay'.target = t /\ rest' = Tail(rest) /\ ~skipping'
          /\ verdict' = "failed" => ~MayFit(o, t)
          /\ verdict' # "failed" => lay' \in Whole(o, t)
      BY <1>3, <2>1, <3>1, <3>2, Takes
    <3> QED BY <2>5, <2>7, <3>3
  <2> QED BY <2>6, <2>7
<1>10. CASE At(Here, <<fit, crop, Anew, unless, last>>, less, Whole(o, t))
  <2>1. rest = <<fit, crop, Anew, unless, last>> /\ (skipping <=> less) /\ lay \in Whole(o, t)
    BY <1>10 DEF At, Here
  <2>2. Head(rest) = fit /\ Tail(rest) = <<crop, Anew, unless, last>>
    BY <2>1
  <2>3. Layout!Skips(Head(rest)) <=> less
    BY <1>5, <2>1, <2>2
  <2> HIDE DEF less
  <2>4. ASSUME lay' \in mid, rest' = Tail(rest), skipping' <=> less
        PROVE  CropStage(Here', scale, o, t)
    <3>1. At(Here', <<crop, Anew, unless, last>>, less, mid)
      BY <2>2, <2>4 DEF At, Here
    <3> QED BY <1>2, <3>1
  <2>5. CASE less
    <3>1. lay' = lay /\ verdict' = "running" /\ rest' = Tail(rest) /\ skipping'
      BY <2>3, <2>5, Passes
    <3> QED BY <2>1, <2>4, <2>5, <3>1
  <2>6. CASE ~less
    <3>1. Brings(Whole(o, t), Head(rest), FitTo(o, t, "crop"), o, t)
      BY <1>8, <2>2
    <3>2. ~Layout!Skips(Head(rest))
      BY <2>3, <2>6
    <3>3. /\ lay'.target = t /\ rest' = Tail(rest) /\ ~skipping'
          /\ verdict' = "failed" => ~MayFit(o, t)
          /\ verdict' # "failed" => lay' \in FitTo(o, t, "crop")
      BY <1>3, <2>1, <3>1, <3>2, Takes
    <3> QED BY <2>4, <2>6, <3>3
  <2> QED BY <2>5, <2>6
<1>11. CASE At(Here, <<crop, Anew, unless, last>>, less, mid)
  <2>1. rest = <<crop, Anew, unless, last>> /\ (skipping <=> less) /\ lay \in mid
    BY <1>11 DEF At, Here
  <2>2. Head(rest) = crop /\ Tail(rest) = <<Anew, unless, last>>
    BY <2>1
  <2>3. Layout!Skips(Head(rest)) <=> less
    BY <1>5, <2>1, <2>2
  <2> HIDE DEF less
  <2>4. ASSUME lay' \in then, rest' = Tail(rest), skipping' <=> less
        PROVE  CropStage(Here', scale, o, t)
    <3>1. At(Here', <<Anew, unless, last>>, less, then)
      BY <2>2, <2>4 DEF At, Here
    <3> QED BY <1>2, <3>1
  <2>5. CASE less
    <3>1. lay' = lay /\ verdict' = "running" /\ rest' = Tail(rest) /\ skipping'
      BY <2>3, <2>5, Passes
    <3> QED BY <2>1, <2>4, <2>5, <3>1
  <2>6. CASE ~less
    <3>1. Brings(FitTo(o, t, "crop"), Head(rest), Ended(o, t, "crop"), o, t)
      BY <1>7, <2>2
    <3>2. ~Layout!Skips(Head(rest)) /\ lay \in FitTo(o, t, "crop")
      BY <2>1, <2>3, <2>6
    <3>3. /\ lay'.target = t /\ rest' = Tail(rest) /\ ~skipping'
          /\ verdict' = "failed" => ~MayFit(o, t)
          /\ verdict' # "failed" => lay' \in Ended(o, t, "crop")
      BY <1>3, <3>1, <3>2, Takes
    <3> QED BY <2>4, <2>6, <3>3
  <2> QED BY <2>5, <2>6
<1>12. CASE At(Here, <<Anew, unless, last>>, less, then)
  <2>1. rest = <<Anew, unless, last>> /\ lay \in then
    BY <1>12 DEF At, Here
  <2>2. Head(rest) = Anew /\ Tail(rest) = <<unless, last>>
    BY <2>1
  <2> HIDE DEF then
  <2>3. ~Layout!Skips(Head(rest)) /\ Brings(then, Head(rest), then, o, t)
    BY <2>2, SkipsAre, NothingBrings
  <2>4. /\ lay'.target = t /\ rest' = Tail(rest) /\ ~skipping'
        /\ verdict' = "failed" => ~MayFit(o, t)
        /\ verdict' # "failed" => lay' \in then
    BY <1>3, <2>1, <2>3, Takes
  <2>5. verdict' # "failed" => At(Here', <<unless, last>>, FALSE, then)
    BY <2>2, <2>4 DEF At, Here
  <2> QED BY <1>2, <2>4, <2>5
<1>13. CASE At(Here, <<unless, last>>, FALSE, then)
  <2>1. rest = <<unless, last>> /\ ~skipping /\ lay \in then
    BY <1>13 DEF At, Here
  <2>2. Head(rest) = unless /\ Tail(rest) = <<last>>
    BY <2>1
  <2>3. lay.canvas = IF less THEN o ELSE t
    BY <2>1 DEF Whole, Ended
  <2>4. Layout!Skips(Head(rest)) <=> ~mixed
    <3>1. Layout!Skips(Head(rest)) <=> ~(Larger(lay.canvas, t) /\ Smaller(lay.canvas, t))
      BY <2>1, <2>2, SkipsAre
    <3>2. ~Larger(t, t)
      BY FitsFits DEF Larger
    <3> QED BY <2>3, <3>1, <3>2
  <2> HIDE DEF then, mixed, unless
  <2>5. ASSUME lay' \in then, rest' = Tail(rest), skipping' <=> ~mixed
        PROVE  CropStage(Here', scale, o, t)
    <3>1. At(Here', <<last>>, ~mixed, then)
      BY <2>2, <2>5 DEF At, Here
    <3> QED BY <1>2, <3>1
  <2>6. CASE ~mixed
    <3>1. lay' = lay /\ verdict' = "running" /\ rest' = Tail(rest) /\ skipping'
      BY <2>4, <2>6, Passes
    <3> QED BY <1>3, <2>1, <2>5, <2>6, <3>1
  <2>7. CASE mixed
    <3>1. Brings(then, Head(rest), then, o, t)
      BY <2>2, NothingBrings DEF unless
    <3>2. ~Layout!Skips(Head(rest))
      BY <2>4, <2>7
    <3>3. /\ lay'.target = t /\ rest' = Tail(rest) /\ ~skipping'
          /\ verdict' = "failed" => ~MayFit(o, t)
          /\ verdict' # "failed" => lay' \in then
      BY <1>3, <2>1, <3>1, <3>2, Takes
    <3> QED BY <2>5, <2>7, <3>3
  <2> QED BY <2>6, <2>7
<1>14. CASE At(Here, <<last>>, ~mixed, then)
  <2>1. rest = <<last>> /\ (skipping <=> ~mixed) /\ lay \in then
    BY <1>14 DEF At, Here
  <2>2. Head(rest) = last /\ Tail(rest) = <<>>
    BY <2>1
  <2>3. Layout!Skips(Head(rest)) <=> ~mixed
    BY <1>4, <2>1, <2>2
  <2>4. mixed => then = Whole(o, t)
    OBVIOUS
  <2> HIDE DEF then, mixed
  <2>5. ASSUME lay' \in end, rest' = Tail(rest), skipping' <=> ~mixed
        PROVE  CropStage(Here', scale, o, t)
    <3>1. At(Here', <<>>, ~mixed, end)
      BY <2>2, <2>5 DEF At, Here
    <3> QED BY <1>2, <3>1
  <2>6. CASE ~mixed
    <3>1. lay' = lay /\ verdict' = "running" /\ rest' = Tail(rest) /\ skipping'
      BY <2>3, <2>6, Passes
    <3> QED BY <2>1, <2>5, <2>6, <3>1
  <2>7. CASE mixed
    <3>1. Brings(Whole(o, t), Head(rest), shared, o, t)
      BY <1>6, <2>2
    <3>2. ~Layout!Skips(Head(rest)) /\ lay \in Whole(o, t)
      BY <2>1, <2>3, <2>4, <2>7
    <3>3. /\ lay'.target = t /\ rest' = Tail(rest) /\ ~skipping'
          /\ verdict' = "failed" => ~MayFit(o, t)
          /\ verdict' # "failed" => lay' \in shared
      BY <1>3, <3>1, <3>2, Takes
    <3> QED BY <2>5, <2>7, <3>3
  <2> QED BY <2>6, <2>7
<1>15. CASE At(Here, <<>>, ~mixed, end)
  <2>1. rest = <<>>
    BY <1>15 DEF At, Here
  <2> QED BY <2>1 DEF Layout!Advance
<1> QED BY <1>1, <1>9, <1>10, <1>11, <1>12, <1>13, <1>14, <1>15

-----------------------------------------------------------------------------
\* What the steps end with.
Final(scale, mode, o, t) ==
  CASE scale \in {"down", "canvas"} /\ mode = "crop" ->
         IF Smaller(o, t) /\ Larger(o, t) THEN Shared(o, t, LastCanvases(scale, o, t))
         ELSE IF Smaller(o, t) THEN Whole(o, t) ELSE Ended(o, t, "crop")
    [] scale = "canvas" /\ mode # "crop" -> CanvasEnd(mode, o, t)
    [] OTHER -> IF Skipped(scale, o, t) THEN Whole(o, t) ELSE Ended(o, t, mode)
ScaleNames == {"both", "up", "down", "canvas"}

\* When no step is left, they ended.
LEMMA StagesEnd ==
  ASSUME NEW scale \in ScaleNames, NEW mode \in ModeNames, NEW o, NEW t, Stage(Here, scale, mode, o, t), rest = <<>>
  PROVE  lay \in Final(scale, mode, o, t)
<1>1. \A steps, skips, layouts : At(Here, steps, skips, layouts) => steps = <<>> /\ lay \in layouts
  BY DEF At, Here
<1>2. CASE scale \in {"down", "canvas"} /\ mode = "crop"
  <2>1. CropStage(Here, scale, o, t)
    BY <1>2 DEF Stage
  <2>2. \A a, b, c, d, e, f : /\ <<a>> # <<>> /\ <<a, b>> # <<>> /\ <<a, b, c>> # <<>> /\ <<a, b, c, d>> # <<>>
                              /\ <<a, b, c, d, e>> # <<>> /\ <<a, b, c, d, e, f>> # <<>>
    OBVIOUS
  <2> DEFINE less == Smaller(o, t)
             mixed == less /\ Larger(o, t)
             last == LastStep(scale)
             unless == Layout!SkipUnless("larger_1d_smaller_1d")
             either == Layout!SkipIf("either_less")
             fit == FitStep("crop")
             crop == Layout!Step("crop")
             then == IF less THEN Whole(o, t) ELSE Ended(o, t, "crop")
             fitted == IF less THEN Whole(o, t) ELSE FitTo(o, t, "crop")
             end == IF mixed THEN Shared(o, t, LastCanvases(scale, o, t)) ELSE then
             whole == Whole(o, t)
  <2>3. \/ At(Here, <<either, fit, crop, Anew, unless, last>>, FALSE, whole)
        \/ At(Here, <<fit, crop, Anew, unless, last>>, less, whole)
        \/ At(Here, <<crop, Anew, unless, last>>, less, fitted)
        \/ At(Here, <<Anew, unless, last>>, less, then)
        \/ At(Here, <<unless, last>>, FALSE, then)
        \/ At(Here, <<last>>, ~mixed, then)
        \/ At(Here, <<>>, ~mixed, end)
    BY <2>1 DEF CropStage
  <2>4. lay \in end
    <3> HIDE DEF mixed, less, last, unless, either, fit, crop, then, fitted, end, whole
    <3>1. /\ ~At(Here, <<either, fit, crop, Anew, unless, last>>, FALSE, whole)
          /\ ~At(Here, <<fit, crop, Anew, unless, last>>, less, whole)
          /\ ~At(Here, <<crop, Anew, unless, last>>, less, fitted)
          /\ ~At(Here, <<Anew, unless, last>>, less, then)
          /\ ~At(Here, <<unless, last>>, FALSE, then)
          /\ ~At(Here, <<last>>, ~mixed, then)
      BY <2>2 DEF At, Here
    <3>2. At(Here, <<>>, ~mixed, end)
      BY <2>3, <3>1, Zenon
    <3> QED BY <3>2 DEF At, Here
  <2> QED BY <1>2, <2>4 DEF Final
<1>3. CASE scale = "canvas" /\ mode # "crop"
  <2>1. CanvasStage(Here, mode, o, t)
    BY <1>3 DEF Stage
  <2>2. \A a, b, c, d : <<a>> # <<>> /\ <<a, b>> # <<>> /\ <<a, b, c>> # <<>> /\ <<a, b, c, d>> # <<>>
    OBVIOUS
  <2> DEFINE skips == ~Larger(o, t)
             then == IF skips THEN Whole(o, t) ELSE FitTo(o, t, mode)
             last == IF mode = "max" THEN Layout!StepTo("virtual_canvas", Layout!InnerOfTarget) ELSE Layout!Step("pad")
             skip == SkipStep("canvas")
             fit == FitStep(mode)
             end == CanvasEnd(mode, o, t)
             whole == Whole(o, t)
  <2>3. \/ At(Here, <<skip, fit, Anew, last>>, FALSE, whole)
        \/ At(Here, <<fit, Anew, last>>, skips, whole)
        \/ At(Here, <<Anew, last>>, skips, then)
        \/ At(Here, <<last>>, FALSE, then)
        \/ At(Here, <<>>, FALSE, end)
    BY <2>1 DEF CanvasStage
  <2>4. lay \in end
    <3> HIDE DEF skips, then, last, skip, fit, end, whole
    <3>1. /\ ~At(Here, <<skip, fit, Anew, last>>, FALSE, whole)
          /\ ~At(Here, <<fit, Anew, last>>, skips, whole)
          /\ ~At(Here, <<Anew, last>>, skips, then)
          /\ ~At(Here, <<last>>, FALSE, then)
      BY <2>2 DEF At, Here
    <3>2. At(Here, <<>>, FALSE, end)
      BY <2>3, <3>1, Zenon
    <3> QED BY <3>2 DEF At, Here
  <2> QED BY <1>3, <2>4 DEF Final
<1>4. CASE scale \in {"both", "up", "down"} /\ ~(scale = "down" /\ mode = "crop")
  <2>1. PlainStage(Here, scale, mode, o, t)
    BY <1>4 DEF Stage
  <2> DEFINE after == IF mode \in {"pad", "crop"} THEN <<Layout!Step(mode)>> ELSE <<>>
             skips == Skipped(scale, o, t)
  <2>2. <<SkipStep(scale), FitStep(mode)>> \o after # <<>> /\ <<FitStep(mode)>> \o after # <<>>
    <3>1. CASE mode \in {"pad", "crop"}
      <4>1. after = <<Layout!Step(mode)>>
        BY <3>1
      <4>2. /\ <<SkipStep(scale), FitStep(mode)>> \o <<Layout!Step(mode)>> = <<SkipStep(scale), FitStep(mode), Layout!Step(mode)>>
            /\ <<FitStep(mode)>> \o <<Layout!Step(mode)>> = <<FitStep(mode), Layout!Step(mode)>>
        BY TwoJoin, ThreeJoin
      <4> QED BY <4>1, <4>2
    <3>2. CASE mode \notin {"pad", "crop"}
      <4>1. after = <<>>
        BY <3>2
      <4> QED BY <4>1
    <3> QED BY <3>1, <3>2
  <2>3. mode \in {"pad", "crop"} => after # <<>>
    OBVIOUS
  <2>4. \/ scale # "both" /\ At(Here, <<SkipStep(scale), FitStep(mode)>> \o after, FALSE, Whole(o, t))
        \/ At(Here, <<FitStep(mode)>> \o after, skips, Whole(o, t))
        \/ mode \in {"pad", "crop"} /\ At(Here, after, skips, IF skips THEN Whole(o, t) ELSE FitTo(o, t, mode))
        \/ At(Here, <<>>, skips, IF skips THEN Whole(o, t) ELSE Ended(o, t, mode))
    BY <2>1 DEF PlainStage
  <2>5. lay \in IF skips THEN Whole(o, t) ELSE Ended(o, t, mode)
    <3> HIDE DEF after, skips
    <3> QED BY <1>1, <2>2, <2>3, <2>4
  <2> QED BY <1>4, <2>5 DEF Final
<1> QED BY <1>2, <1>3, <1>4 DEF ScaleNames

\* Nothing more.
LEMMA NoneMore ==
  ASSUME NEW a, NEW b
  PROVE  <<a>> \o <<>> = <<a>> /\ <<a, b>> \o <<>> = <<a, b>>
<1> DEFINE S == {a, b}
           s == <<a>>
           u == <<a, b>>
<1>1. s \in Seq(S) /\ u \in Seq(S)
  OBVIOUS
<1>2. s \o <<>> = s /\ u \o <<>> = u
  BY <1>1, ConcatEmptySeq
<1> QED BY <1>2

\* The steps of a mode.
LEMMA FittedIs ==
  ASSUME NEW mode \in ModeNames
  PROVE  Layout!Fitted(mode) = IF mode \in {"pad", "crop"} THEN <<FitStep(mode), Layout!Step(mode)>> ELSE <<FitStep(mode)>>
<1>1. CASE mode = "max" \/ mode = "stretch"
  BY <1>1 DEF Layout!Fitted, FitStep
<1>2. CASE mode = "pad"
  BY <1>2 DEF Layout!Fitted, FitStep
<1>3. CASE mode = "crop"
  BY <1>3 DEF Layout!Fitted, FitStep
<1> QED BY <1>1, <1>2, <1>3 DEF ModeNames

\* They begin with the steps of the mode and the scale.
LEMMA StagesBegin ==
  ASSUME NEW j \in Layout!Instructions, NEW o \in Layout!Sizes, NEW t \in Layout!Sizes,
         Layout!Start(o, t, Layout!BuildConstraints(j))
  PROVE  Stage(Here, Layout!ScaleOf(j), Layout!ModeOf(j), o, t)
<1> DEFINE mode == Layout!ModeOf(j)
           scale == Layout!ScaleOf(j)
<1>1. mode \in ModeNames
  BY DEF Layout!ModeOf, Layout!Or, Layout!Instructions, ModeNames
<1>2. scale \in ScaleNames
  BY DEF Layout!ScaleOf, Layout!Or, Layout!Instructions, ScaleNames
<1>3. lay \in Whole(o, t) /\ ~skipping /\ rest = Layout!BuildConstraints(j)
  BY DEF Layout!Start, Layout!LayoutOf, Whole, Layouts
<1>4. \A steps : rest = steps => At(Here, steps, FALSE, Whole(o, t))
  BY <1>3 DEF At, Here
<1> DEFINE list == Layout!BuildConstraints(j)
           pad == Layout!Step("pad")
           crop == Layout!Step("crop")
           after == IF mode \in {"pad", "crop"} THEN <<Layout!Step(mode)>> ELSE <<>>
           skip == SkipStep(scale)
           fit == FitStep(mode)
           fitted == Layout!Fitted(mode)
           more == Layout!WhenGreater(mode)
<1>5. /\ fitted = <<fit>> \o after
      /\ <<skip>> \o fitted = <<skip, fit>> \o after
  <2>1. CASE mode \in {"pad", "crop"}
    <3>1. after = <<Layout!Step(mode)>> /\ fitted = <<fit, Layout!Step(mode)>>
      BY <1>1, <2>1, FittedIs
    <3> QED BY <3>1, TwoJoin, ThreeJoin
  <2>2. CASE mode \notin {"pad", "crop"}
    <3>1. after = <<>> /\ fitted = <<fit>>
      BY <1>1, <2>2, FittedIs
    <3> QED BY <3>1, TwoJoin, NoneMore
  <2> QED BY <2>1, <2>2
<1>6. CASE scale = "both"
  <2>1. list = <<fit>> \o after
    BY <1>5, <1>6 DEF Layout!BuildConstraints
  <2>2. ~Skipped(scale, o, t)
    BY <1>6 DEF Skipped
  <2>3. PlainStage(Here, scale, mode, o, t)
    <3>1. At(Here, <<fit>> \o after, Skipped(scale, o, t), Whole(o, t))
      BY <1>3, <2>1, <2>2 DEF At, Here
    <3> QED BY <3>1, Zenon DEF PlainStage
  <2> QED BY <1>6, <2>3 DEF Stage
<1>7. CASE scale = "up"
  <2>1. list = <<skip, fit>> \o after
    BY <1>5, <1>7 DEF Layout!BuildConstraints, Layout!WhenNeitherGreater, SkipStep
  <2>2. PlainStage(Here, scale, mode, o, t)
    <3>1. scale # "both"
      BY <1>7
    <3>2. At(Here, <<skip, fit>> \o after, FALSE, Whole(o, t))
      BY <1>3, <1>4, <2>1
    <3> QED BY <3>1, <3>2, Zenon DEF PlainStage
  <2> QED BY <1>7, <2>2 DEF Stage
<1>8. CASE scale \in {"down", "canvas"} /\ mode # "crop"
  <2>1. skip = Layout!SkipUnless("either_greater")
    BY <1>8 DEF SkipStep
  <2>2. more = <<skip, fit>>
    <3>1. CASE mode = "pad"
      <4>1. Layout!Fitted("max") = <<fit>>
        BY <3>1 DEF Layout!Fitted, FitStep
      <4>2. more = <<skip>> \o <<fit>>
        BY <2>1, <3>1, <4>1 DEF Layout!WhenGreater
      <4> QED BY <4>2, TwoJoin
    <3>2. CASE mode # "pad"
      <4>1. fitted = <<fit>>
        BY <1>1, <1>8, <3>2, FittedIs
      <4>2. more = <<skip>> \o fitted
        BY <2>1, <1>8, <3>2 DEF Layout!WhenGreater
      <4> QED BY <4>1, <4>2, TwoJoin
    <3> QED BY <3>1, <3>2
  <2>3. CASE scale = "down"
    <3>1. list = <<skip, fit>> \o after
      <4>1. list = more \o (IF mode = "pad" THEN <<pad>> ELSE <<>>)
        BY <1>8, <2>3 DEF Layout!BuildConstraints
      <4>2. after = IF mode = "pad" THEN <<pad>> ELSE <<>>
        BY <1>8
      <4> QED BY <2>2, <4>1, <4>2
    <3>2. PlainStage(Here, scale, mode, o, t)
      <4>1. scale # "both"
        BY <2>3
      <4>2. At(Here, <<skip, fit>> \o after, FALSE, Whole(o, t))
        BY <1>3, <1>4, <3>1
      <4> QED BY <4>1, <4>2, Zenon DEF PlainStage
    <3> QED BY <1>8, <2>3, <3>2 DEF Stage
  <2>4. CASE scale = "canvas"
    <3> DEFINE last == IF mode = "max" THEN Layout!StepTo("virtual_canvas", Layout!InnerOfTarget) ELSE Layout!Step("pad")
    <3>1. list = <<skip, fit, Anew, last>>
      <4>1. list = more \o <<Anew, last>>
        BY <1>8, <2>4 DEF Layout!BuildConstraints, Layout!OnCanvas, Anew
      <4>2. <<skip, fit>> \o <<Anew, last>> = <<skip, fit, Anew, last>>
        BY FourJoin
      <4> QED BY <2>2, <4>1, <4>2, Zenon
    <3>2. CanvasStage(Here, mode, o, t)
      <4>1. skip = SkipStep("canvas")
        BY <2>4
      <4> QED BY <1>3, <1>4, <3>1, <4>1, Zenon DEF CanvasStage
    <3> QED BY <1>8, <2>4, <3>2 DEF Stage
  <2> QED BY <1>8, <2>3, <2>4
<1>9. CASE scale \in {"down", "canvas"} /\ mode = "crop"
  <2> DEFINE either == Layout!SkipIf("either_less")
             unless == Layout!SkipUnless("larger_1d_smaller_1d")
             last == LastStep(scale)
  <2>1. fitted = <<fit, crop>>
    BY <1>1, <1>9, FittedIs
  <2>2. more = <<either, fit, crop, Anew, unless>>
    <3>1. more = (<<either>> \o <<fit, crop>>) \o <<Anew, unless>>
      BY <1>9, <2>1 DEF Layout!WhenGreater, Anew
    <3>2. <<either>> \o <<fit, crop>> = <<either, fit, crop>>
      BY ThreeJoin
    <3>3. <<either, fit, crop>> \o <<Anew, unless>> = <<either, fit, crop, Anew, unless>>
      BY FiveJoin
    <3> QED BY <3>1, <3>2, <3>3
  <2>3. list = more \o <<last>>
    <3>1. CASE scale = "down"
      BY <1>9, <3>1 DEF Layout!BuildConstraints, LastStep
    <3>2. CASE scale = "canvas"
      BY <1>9, <3>2 DEF Layout!BuildConstraints, Layout!OnCanvas, LastStep
    <3> QED BY <1>9, <3>1, <3>2
  <2>4. list = <<either, fit, crop, Anew, unless, last>>
    BY <2>2, <2>3, SixJoin
  <2>5. fit = FitStep("crop")
    BY <1>9
  <2>6. CropStage(Here, scale, o, t)
    BY <1>3, <1>4, <2>4, <2>5, Zenon DEF CropStage
  <2> QED BY <1>9, <2>6 DEF Stage
<1> QED BY <1>2, <1>6, <1>7, <1>8, <1>9 DEF ScaleNames

-----------------------------------------------------------------------------
\* The image looks like the source, for less than a pixel.
Alike(l) == Layout!Narrower(l.image, l.source) /\ Layout!Narrower(l.source, l.image)

\* A size looks like itself.
LEMMA SameIsAlike ==
  ASSUME Layout!SizingAssumption, NEW s \in Layout!Sizes
  PROVE  Layout!Narrower(s, s)
<1> DEFINE w == s.w
           h == s.h
           p == w * h
<1>1. w \in Nat \ {0} /\ h \in Nat \ {0}
  BY SidesOf
<1> HIDE DEF w, h
<1>2. (w - 1) * (h - 1) = p - w - h + 1 /\ (w + 1) * (h + 1) = p + w + h + 1
  BY <1>1
<1>3. p \in Int
  BY <1>1
<1> HIDE DEF p
<1>4. p - w - h + 1 < p + w + h + 1
  BY <1>1, <1>3
<1>5. (w - 1) * (h - 1) < (w + 1) * (h + 1)
  BY <1>2, <1>4
<1> QED BY <1>5 DEF Layout!Narrower, w, h

\* All layouts the steps come to look like what they show, unless they are stretched.
LEMMA FinalsAreAlike ==
  ASSUME Layout!SizingAssumption, NEW o \in Layout!Sizes, NEW t \in Layout!Sizes, NEW mode \in ModeNames, mode # "stretch",
         NEW scale \in ScaleNames, NEW l \in Final(scale, mode, o, t)
  PROVE  Alike(l)
<1>1. ASSUME NEW canvases, l \in Whole(o, t) \/ l \in Placed(o, t, canvases)
      PROVE  Alike(l)
  BY <1>1, SameIsAlike DEF Whole, Placed, Alike
<1>2. ASSUME l \in Layouts, l.source = o, NEW kind, l.image \in Layout!BoxOf(o, t, kind)
      PROVE  Alike(l)
  BY <1>2, BoxHasShape DEF Alike
<1>3. ASSUME l \in Layouts, l.source \in Layout!BoxOf(l.image, o, "inner")
      PROVE  Alike(l)
  <2>1. l.image \in Layout!Sizes
    BY <1>3 DEF Layouts
  <2> QED BY <1>3, <2>1, BoxHasShape DEF Alike
<1>4. ASSUME l \in Ended(o, t, mode)
      PROVE  Alike(l)
  <2>1. CASE mode = "crop"
    BY <1>3, <1>4, <2>1 DEF Ended
  <2>2. CASE mode = "pad"
    <3>1. l \in Layouts /\ l.source = o /\ l.image \in Layout!BoxOf(o, t, "inner")
      BY <1>4, <2>2 DEF Ended, FitSizes
    <3> QED BY <1>2, <3>1
  <2>3. CASE mode = "max"
    <3>1. l \in Layouts /\ l.source = o /\ l.image \in Layout!BoxOf(o, t, "inner")
      BY <1>4, <2>3 DEF Ended, FitTo, FitSizes
    <3> QED BY <1>2, <3>1
  <2> QED BY <2>1, <2>2, <2>3 DEF ModeNames
<1>5. ASSUME NEW canvases, l \in Shown(o, t) \/ l \in Shared(o, t, canvases)
      PROVE  Alike(l)
  BY <1>3, <1>5 DEF Shown, Shared
<1>6. CASE scale \in {"down", "canvas"} /\ mode = "crop"
  BY <1>1, <1>4, <1>5, <1>6 DEF Final
<1>7. CASE scale = "canvas" /\ mode # "crop"
  <2>1. l \in CanvasEnd(mode, o, t)
    BY <1>7 DEF Final
  <2> QED BY <1>1, <1>4, <1>5, <2>1 DEF CanvasEnd
<1>8. CASE ~(scale \in {"down", "canvas"} /\ mode = "crop") /\ scale # "canvas"
  <2>1. l \in IF Skipped(scale, o, t) THEN Whole(o, t) ELSE Ended(o, t, mode)
    BY <1>8 DEF Final
  <2> QED BY <1>1, <1>4, <2>1
<1> QED BY <1>6, <1>7, <1>8

\* None of them is larger than the target, but those that are not to be made smaller.
LEMMA FinalsFit ==
  ASSUME Layout!SizingAssumption, NEW o \in Layout!Sizes, NEW t \in Layout!Sizes, NEW mode \in ModeNames,
         NEW scale \in ScaleNames, NEW l \in Final(scale, mode, o, t), scale # "up"
  PROVE  Fits(l.canvas, t)
<1>1. Fits(t, t) /\ (~Larger(o, t) => Fits(o, t))
  BY FitsFits DEF Larger
<1>2. ASSUME NEW m \in {"max", "pad", "stretch"}, NEW c \in FitSizes(o, t, m)
      PROVE  Fits(c, t)
  BY FitSizesAre DEF ModeNames
<1>3. ASSUME l \in Ended(o, t, mode)
      PROVE  Fits(l.canvas, t)
  <2>1. CASE mode \in {"pad", "crop"}
    BY <1>1, <1>3, <2>1 DEF Ended
  <2>2. CASE mode \in {"max", "stretch"}
    <3>1. l.canvas \in FitSizes(o, t, mode)
      BY <1>3, <2>2 DEF Ended, FitTo
    <3> QED BY <1>2, <2>2, <3>1
  <2> QED BY <2>1, <2>2 DEF ModeNames
<1>4. ~Larger(o, t) /\ l \in Whole(o, t) => Fits(l.canvas, t)
  BY <1>1 DEF Whole
<1>5. CASE scale \in {"down", "canvas"} /\ mode = "crop"
  <2>1. CASE Smaller(o, t) /\ Larger(o, t)
    <3>1. l.canvas \in LastCanvases(scale, o, t)
      BY <1>5, <2>1 DEF Final, Shared
    <3> QED BY <1>1, <3>1, IntersectionFits DEF LastCanvases
  <2>2. CASE Smaller(o, t) /\ ~Larger(o, t)
    <3>1. l \in Whole(o, t)
      BY <1>5, <2>2 DEF Final
    <3> QED BY <1>4, <2>2, <3>1
  <2>3. CASE ~Smaller(o, t)
    <3>1. l \in Ended(o, t, mode)
      BY <1>5, <2>3 DEF Final
    <3> QED BY <1>3, <3>1
  <2> QED BY <2>1, <2>2, <2>3
<1>6. CASE scale = "canvas" /\ mode # "crop"
  <2>1. l \in CanvasEnd(mode, o, t)
    BY <1>6 DEF Final
  <2>2. CASE ~Larger(o, t)
    <3>1. l.canvas \in IF mode = "max" THEN FitSizes(o, t, "max") ELSE {t}
      BY <2>1, <2>2 DEF CanvasEnd, Placed
    <3> QED BY <1>1, <1>2, <3>1
  <2>3. CASE Larger(o, t) /\ mode = "max"
    <3>1. l.canvas \in FitSizes(o, t, "max")
      BY <2>1, <2>3 DEF CanvasEnd, Shown
    <3> QED BY <1>2, <3>1
  <2>4. CASE Larger(o, t) /\ mode # "max"
    <3>1. l \in Ended(o, t, mode)
      BY <2>1, <2>4 DEF CanvasEnd
    <3> QED BY <1>3, <3>1
  <2> QED BY <2>2, <2>3, <2>4
<1>7. CASE ~(scale \in {"down", "canvas"} /\ mode = "crop") /\ scale # "canvas"
  <2>1. l \in IF Skipped(scale, o, t) THEN Whole(o, t) ELSE Ended(o, t, mode)
    BY <1>7 DEF Final
  <2>2. Skipped(scale, o, t) => ~Larger(o, t)
    BY DEF Skipped
  <2> QED BY <1>3, <1>4, <2>1, <2>2
<1> QED BY <1>5, <1>6, <1>7

\* Sizes that are exact are met, and maximums on a side.
LEMMA FinalsAreExact ==
  ASSUME Layout!SizingAssumption, NEW o \in Layout!Sizes, NEW t \in Layout!Sizes, NEW mode \in ModeNames,
         NEW l \in Final("both", mode, o, t)
  PROVE  IF mode = "max" THEN l.canvas.w = t.w \/ l.canvas.h = t.h ELSE l.canvas = t
<1>1. l \in Ended(o, t, mode)
  BY DEF Final, Skipped
<1>2. CASE mode = "max"
  <2>1. l.canvas \in Layout!BoxOf(o, t, "inner")
    BY <1>1, <1>2 DEF Ended, FitTo, FitSizes
  <2> QED BY <1>2, <2>1, BoxIs
<1>3. CASE mode \in {"pad", "crop"}
  BY <1>1, <1>3 DEF Ended
<1>4. CASE mode = "stretch"
  BY <1>1, <1>4 DEF Ended, FitTo, FitSizes
<1> QED BY <1>2, <1>3, <1>4 DEF ModeNames

\* An image of which all is kept is not scaled against the scale.
LEMMA FinalsAreScaled ==
  ASSUME Layout!SizingAssumption, NEW o \in Layout!Sizes, NEW t \in Layout!Sizes, NEW mode \in {"max", "pad"},
         NEW scale \in ScaleNames, NEW l \in Final(scale, mode, o, t)
  PROVE  /\ scale \in {"down", "canvas"} => Fits(l.image, l.source)
         /\ scale = "up" => Fits(l.source, l.image)
<1>1. ASSUME NEW canvases, l \in Whole(o, t) \/ l \in Placed(o, t, canvases)
      PROVE  Fits(l.image, l.source) /\ Fits(l.source, l.image)
  BY <1>1, FitsFits DEF Whole, Placed
<1>2. ASSUME l \in Ended(o, t, mode)
      PROVE  /\ Larger(o, t) => Fits(l.image, l.source)
             /\ ~Larger(o, t) => Fits(l.source, l.image)
  <2>1. l.source = o /\ l.image \in Layout!BoxOf(o, t, "inner")
    <3>1. CASE mode = "max"
      BY <1>2, <3>1 DEF Ended, FitTo, FitSizes
    <3>2. CASE mode = "pad"
      BY <1>2, <3>2 DEF Ended, FitSizes
    <3> QED BY <3>1, <3>2
  <2>2. Larger(o, t) => Fits(l.image, l.source)
    BY <2>1, InnerBoxIsSmaller DEF Larger
  <2>3. ~Larger(o, t) => Fits(l.source, l.image)
    <3>1. ~Larger(o, t) => Fits(o, t)
      BY FitsFits DEF Larger
    <3> QED BY <2>1, <3>1, BoxIsLarger
  <2> QED BY <2>2, <2>3
<1>3. CASE scale = "canvas"
  <2>1. l \in CanvasEnd(mode, o, t)
    BY <1>3 DEF Final
  <2>2. CASE Larger(o, t) /\ mode = "max"
    <3>1. l.image \in Layout!BoxOf(o, t, "inner") /\ l.source \in Layout!BoxOf(l.image, o, "inner")
      BY <2>1, <2>2 DEF CanvasEnd, Shown, FitSizes
    <3>2. Fits(l.image, o) /\ l.image \in Layout!Sizes
      BY <2>2, <3>1, InnerBoxIsSmaller, InnerBoxFits DEF Larger
    <3>3. Fits(l.image, l.source)
      BY <3>1, <3>2, BoxIsLarger
    <3> QED BY <1>3, <3>3
  <2>3. CASE Larger(o, t) /\ mode # "max"
    BY <1>2, <1>3, <2>1, <2>3 DEF CanvasEnd
  <2>4. CASE ~Larger(o, t)
    BY <1>1, <1>3, <2>1, <2>4 DEF CanvasEnd
  <2> QED BY <2>2, <2>3, <2>4
<1>4. CASE scale # "canvas"
  <2>1. l \in IF Skipped(scale, o, t) THEN Whole(o, t) ELSE Ended(o, t, mode)
    BY <1>4 DEF Final
  <2>2. scale = "down" => (~Skipped(scale, o, t) <=> Larger(o, t))
    BY DEF Skipped
  <2>3. scale = "up" => (~Skipped(scale, o, t) <=> ~Larger(o, t))
    BY DEF Skipped
  <2> QED BY <1>1, <1>2, <1>4, <2>1, <2>2, <2>3
<1> QED BY <1>3, <1>4

-----------------------------------------------------------------------------
\* What is asked of a layout holds when it begins.
LEMMA AskedBegins ==
  ASSUME RiapiAssumption, RiapiInit
  PROVE  AskedInv
<1>0. Layout!SizingAssumption /\ LayoutInv
  BY LayoutsBegin DEF RiapiAssumption
<1> SUFFICES ASSUME part = "layout"
             PROVE  /\ verdict = "running"
                    /\ Stage(Here, Layout!ScaleOf(instructions), Layout!ModeOf(instructions), original, lay.target)
  BY DEF AskedInv
<1>1. Layout!Init
  BY DEF RiapiInit, LayoutInit
<1> DEFINE o == Layout!Size(window[3] - window[1], window[4] - window[2])
<1>2. PICK t \in Layout!IdealTargets(instructions, o) : Layout!Start(o, t, Layout!BuildConstraints(instructions))
  BY <1>1 DEF Layout!Init
<1> HIDE DEF o
<1>3. verdict = "running" /\ original = o /\ lay.target = t
  BY <1>2 DEF Layout!Start, Layout!LayoutOf
<1>4. instructions \in Layout!Instructions /\ original \in Layout!Sizes /\ lay.target \in Layout!Sizes
  BY <1>0 DEF LayoutInv, LayoutAsked, StepsInv, Sound, Layouts
<1>5. Layout!Start(original, lay.target, Layout!BuildConstraints(instructions))
  BY <1>2, <1>3
<1> QED BY <1>3, <1>4, <1>5, StagesBegin

\* A step keeps to the stages.
LEMMA StagesGoOn ==
  ASSUME Layout!SizingAssumption, NEW scale \in ScaleNames, NEW mode \in ModeNames, NEW o \in Layout!Sizes, NEW t \in Layout!Sizes,
         Layout!Advance, Stage(Here, scale, mode, o, t), lay.target = t, lay \in Layouts, skipping \in BOOLEAN
  PROVE  /\ lay'.target = t
         /\ verdict' = "failed" => ~MayFit(o, t)
         /\ verdict' # "failed" => Stage(Here', scale, mode, o, t)
<1>1. CASE scale \in {"down", "canvas"} /\ mode = "crop"
  <2>1. \A here : Stage(here, scale, mode, o, t) <=> CropStage(here, scale, o, t)
    BY <1>1 DEF Stage
  <2> QED BY <1>1, <2>1, CropGoesOn
<1>2. CASE scale = "canvas" /\ mode # "crop"
  <2>1. \A here : Stage(here, scale, mode, o, t) <=> CanvasStage(here, mode, o, t)
    BY <1>2 DEF Stage
  <2> QED BY <1>2, <2>1, CanvasGoesOn
<1>3. CASE scale \in {"both", "up", "down"} /\ ~(scale = "down" /\ mode = "crop")
  <2>1. \A here : Stage(here, scale, mode, o, t) <=> PlainStage(here, scale, mode, o, t)
    BY <1>3 DEF Stage
  <2> QED BY <1>3, <2>1, PlainGoesOn
<1> QED BY <1>1, <1>2, <1>3 DEF ScaleNames

\* It stays.
LEMMA AskedGoesOn ==
  ASSUME RiapiAssumption, LayoutInv, AskedInv, [RiapiNext]_riapiVars
  PROVE  AskedInv'
<1>0. Layout!SizingAssumption
  BY DEF RiapiAssumption
<1> PICK scale, mode, o, t : /\ scale = Layout!ScaleOf(instructions) /\ mode = Layout!ModeOf(instructions)
                             /\ o = original /\ t = lay.target
  OBVIOUS
<1>1. ASSUME part = "layout"
      PROVE  /\ scale \in ScaleNames /\ mode \in ModeNames /\ o \in Layout!Sizes /\ t \in Layout!Sizes
             /\ lay \in Layouts /\ skipping \in BOOLEAN
             /\ verdict \in {"done", "panic"} => rest = <<>>
             /\ verdict = "failed" => ~MayFit(o, t)
             /\ verdict # "failed" => Stage(Here, scale, mode, o, t)
  <2>1. instructions \in Layout!Instructions /\ o \in Layout!Sizes /\ t \in Layout!Sizes /\ lay \in Layouts /\ skipping \in BOOLEAN
    BY <1>1 DEF LayoutInv, LayoutAsked, StepsInv, Sound, Layouts
  <2>2. mode \in ModeNames
    BY <2>1 DEF Layout!ModeOf, Layout!Or, Layout!Instructions, ModeNames
  <2>3. scale \in ScaleNames
    BY <2>1 DEF Layout!ScaleOf, Layout!Or, Layout!Instructions, ScaleNames
  <2> QED BY <1>1, <2>1, <2>2, <2>3 DEF AskedInv
<1>2. ASSUME part' = part, instructions' = instructions, original' = original, part = "layout" => lay'.target = t,
             part = "layout" => /\ verdict' \in {"done", "panic"} => rest' = <<>>
                                /\ verdict' = "failed" => ~MayFit(o, t)
                                /\ verdict' # "failed" => Stage(Here', scale, mode, o, t)
      PROVE  AskedInv'
  <2>1. scale = Layout!ScaleOf(instructions') /\ mode = Layout!ModeOf(instructions') /\ o = original'
    BY <1>2
  <2> QED BY <1>2, <2>1 DEF AskedInv
<1>3. ASSUME UNCHANGED <<part, stepsVars, nodesVars>>
      PROVE  AskedInv'
  <2>1. UNCHANGED <<part, original, lay, rest, skipping, verdict, instructions>>
    BY <1>3 DEF stepsVars, nodesVars
  <2>2. Here' = Here
    BY <2>1 DEF Here
  <2> QED BY <1>1, <1>2, <2>1, <2>2
<1>4. CASE LayoutStep
  <2>1. part = "layout" /\ part' = part /\ Layout!Next
    BY <1>4 DEF LayoutStep
  <2>2. CASE Layout!AddSteps
    <3>1. /\ UNCHANGED <<original, lay, rest, skipping, instructions>> /\ verdict = "running" /\ rest = <<>>
          /\ verdict' \in {"panic", "done"}
      BY <2>2 DEF Layout!AddSteps, Layout!Done
    <3>2. Here' = Here
      BY <3>1 DEF Here
    <3> QED BY <1>1, <1>2, <2>1, <3>1, <3>2
  <2>3. CASE Layout!Advance /\ UNCHANGED <<instructions, source, window, nodes>>
    <3>1. verdict = "running" /\ verdict' \in {"running", "failed"} /\ original' = original
      <4>1. StepsInv' /\ verdict = "running" /\ verdict' \in {"running", "failed"}
        BY <1>0, <2>3, StepsAdvance DEF LayoutInv
      <4> QED BY <2>3, <4>1 DEF Layout!Advance
    <3>2. Stage(Here, scale, mode, o, t)
      BY <1>1, <2>1, <3>1
    <3>3. /\ lay'.target = t
          /\ verdict' = "failed" => ~MayFit(o, t)
          /\ verdict' # "failed" => Stage(Here', scale, mode, o, t)
      BY <1>0, <1>1, <2>1, <2>3, <3>2, StagesGoOn
    <3> QED BY <1>2, <2>1, <2>3, <3>1, <3>3
  <2> QED BY <2>1, <2>2, <2>3 DEF Layout!Next
<1>5. CASE StepsStep
  BY <1>5 DEF StepsStep, AskedInv
<1>6. CASE ParserStep
  BY <1>3, <1>6 DEF ParserStep
<1>7. CASE ColorStep
  BY <1>3, <1>7 DEF ColorStep
<1>8. CASE UNCHANGED riapiVars
  BY <1>3, <1>8 DEF riapiVars
<1> QED BY <1>4, <1>5, <1>6, <1>7, <1>8 DEF RiapiNext

\* What follows from it.
LEMMA LayoutsAreAsAsked ==
  ASSUME RiapiAssumption, LayoutInv, AskedInv
  PROVE  LayoutsSucceedAsAsked
<1>0. Layout!SizingAssumption
  BY DEF RiapiAssumption
<1> SUFFICES ASSUME part = "layout"
             PROVE  /\ Layout!LayoutsSucceed /\ Layout!NeverLargerThanTarget /\ Layout!ExactSizes
                    /\ Layout!ScaleIsRespected
  BY DEF LayoutsSucceedAsAsked
<1> DEFINE scale == Layout!ScaleOf(instructions)
           mode == Layout!ModeOf(instructions)
           t == lay.target
<1>1. instructions \in Layout!Instructions /\ original \in Layout!Sizes /\ t \in Layout!Sizes /\ lay \in Layouts
  BY DEF LayoutInv, LayoutAsked, StepsInv, Sound, Layouts
<1>2. mode \in ModeNames
  BY <1>1 DEF Layout!ModeOf, Layout!Or, Layout!Instructions, ModeNames
<1>3. scale \in ScaleNames
  BY <1>1 DEF Layout!ScaleOf, Layout!Or, Layout!Instructions, ScaleNames
<1>4. Layout!LayoutsSucceed
  BY DEF AskedInv, Layout!LayoutsSucceed, Layout!InRange, MayFit
<1>5. ASSUME verdict = "done"
      PROVE  lay \in Final(scale, mode, original, t)
  BY <1>1, <1>2, <1>3, <1>5, StagesEnd DEF AskedInv
<1> HIDE DEF scale, mode, t
<1>6. /\ verdict = "done" /\ scale # "up" => Fits(lay.canvas, t)
      /\ verdict = "done" /\ scale = "both" => IF mode = "max" THEN lay.canvas.w = t.w \/ lay.canvas.h = t.h ELSE lay.canvas = t
      /\ verdict = "done" /\ mode \in {"max", "pad"} =>
           /\ scale \in {"down", "canvas"} => Fits(lay.image, lay.source)
           /\ scale = "up" => Fits(lay.source, lay.image)
  BY <1>0, <1>1, <1>2, <1>3, <1>5, FinalsFit, FinalsAreExact, FinalsAreScaled
<1>7. /\ lay.canvas \in Layout!Sizes /\ lay.image \in Layout!Sizes /\ lay.source \in Layout!Sizes
  BY <1>1 DEF Layouts
<1>8. Layout!NeverLargerThanTarget
  BY <1>0, <1>1, <1>6, <1>7, FitsFits DEF Layout!NeverLargerThanTarget, Layout!Finished, Layout!Grows, scale, t
<1>9. Layout!ExactSizes
  BY <1>6 DEF Layout!ExactSizes, Layout!Finished, scale, mode, t
<1>10. Layout!ScaleIsRespected
  BY <1>0, <1>6, <1>7, FitsFits DEF Layout!ScaleIsRespected, Layout!Finished, scale, mode
<1> QED BY <1>4, <1>8, <1>9, <1>10

\* Nor are they distorted.
LEMMA LayoutsAreAlike ==
  ASSUME RiapiAssumption, LayoutInv, AskedInv, part = "layout"
  PROVE  Layout!StretchedOnlyWhenAsked
<1>0. Layout!SizingAssumption
  BY DEF RiapiAssumption
<1> DEFINE scale == Layout!ScaleOf(instructions)
           mode == Layout!ModeOf(instructions)
           t == lay.target
<1>1. instructions \in Layout!Instructions /\ original \in Layout!Sizes /\ t \in Layout!Sizes
  BY DEF LayoutInv, LayoutAsked, StepsInv, Sound, Layouts
<1>2. mode \in ModeNames
  BY <1>1 DEF Layout!ModeOf, Layout!Or, Layout!Instructions, ModeNames
<1>3. scale \in ScaleNames
  BY <1>1 DEF Layout!ScaleOf, Layout!Or, Layout!Instructions, ScaleNames
<1>4. ASSUME verdict = "done"
      PROVE  lay \in Final(scale, mode, original, t)
  BY <1>1, <1>2, <1>3, <1>4, StagesEnd DEF AskedInv
<1> HIDE DEF scale, mode, t
<1>5. verdict = "done" /\ mode # "stretch" => Alike(lay)
  BY <1>0, <1>1, <1>2, <1>3, <1>4, FinalsAreAlike
<1> QED BY <1>5 DEF Layout!StretchedOnlyWhenAsked, Layout!Finished, Alike, mode

\* Of the sizes in range no layout fails, in whatever mode and scale; what comes out is
\* not larger than the target unless it may only grow, has the size that is exact, and
\* is not scaled against the scale; for images and targets of any sizes, whatever is
\* rounded on the way (sizing.rs:264-277, layout.rs:62-160, parsing.rs:679-751).
THEOREM LayoutsAlwaysSucceedAsAsked == RiapiSpec => []LayoutsSucceedAsAsked
<1>1. RiapiInit => LayoutInv /\ AskedInv
  BY RiapiAssumption, LayoutsBegin, AskedBegins
<1>2. LayoutInv /\ AskedInv /\ [RiapiNext]_riapiVars => LayoutInv' /\ AskedInv'
  BY RiapiAssumption, LayoutsGoOn, AskedGoesOn
<1>3. LayoutInv /\ AskedInv => LayoutsSucceedAsAsked
  BY RiapiAssumption, LayoutsAreAsAsked
<1> QED BY <1>1, <1>2, <1>3, PTL DEF RiapiSpec

-----------------------------------------------------------------------------
\* What is more stays more in products.
LEMMA ProductsGrow ==
  ASSUME NEW a \in Int, NEW b \in Int, NEW d \in Nat \ {0}, a < b
  PROVE  a * d < b * d
<1>1. a + 1 <= b /\ a + 1 \in Int
  OBVIOUS
<1>2. (a + 1) * d <= b * d
  BY <1>1, ProductsOrder
<1>3. (a + 1) * d = a * d + d
  OBVIOUS
<1> QED BY <1>2, <1>3

\* Factors change places.
LEMMA Factors ==
  ASSUME NEW x \in Int, NEW y \in Int, NEW z \in Int
  PROVE  (x * y) * z = (x * z) * y /\ (x * y) * z = (y * z) * x /\ x * y = y * x /\ x * y \in Int /\ (x * y) * z \in Int
  OBVIOUS

\* What is no wider for its height than a source, and made into a box of its shape, is
\* no wider than the source either.
LEMMA BoxedIsNarrower ==
  ASSUME NEW aw \in Nat \ {0}, NEW ah \in Nat \ {0}, NEW cw \in Nat \ {0}, NEW ch \in Nat \ {0}, NEW sw \in Nat \ {0},
         NEW sh \in Nat \ {0}, aw * (sh - 1) <= (sw + 1) * ah, cw * ah - ch * aw < aw \/ cw * ah - ch * aw < ah
  PROVE  (cw - 1) * (sh - 1) < (sw + 1) * (ch + 1)
<1> DEFINE s == sh - 1
           u == sw + 1
           c == cw - 1
<1>1. s \in Nat /\ u \in Nat \ {0} /\ c \in Nat /\ cw = c + 1 /\ aw * s <= u * ah
  OBVIOUS
<1> HIDE DEF s, u, c
<1>2. (aw * s) * cw <= (u * ah) * cw /\ ((aw * s) * c <= (u * ah) * c)
  <2>1. aw * s \in Int /\ u * ah \in Int
    BY <1>1
  <2>2. (aw * s) * cw <= (u * ah) * cw
    BY <1>1, <2>1, ProductsOrder
  <2>3. CASE c = 0
    BY <2>1, <2>2, <2>3
  <2>4. CASE c # 0
    <3>1. c \in Nat \ {0}
      BY <1>1, <2>4
    <3> QED BY <1>1, <2>1, <2>2, <3>1, ProductsOrder
  <2> QED BY <2>3, <2>4
<1>3. CASE cw * ah - ch * aw < aw
  <2>1. cw * ah < (ch + 1) * aw
    <3>1. (ch + 1) * aw = ch * aw + aw /\ cw * ah \in Int /\ ch * aw \in Int
      OBVIOUS
    <3> QED BY <1>3, <3>1
  <2>2. (cw * ah) * u < ((ch + 1) * aw) * u
    BY <1>1, <2>1, ProductsGrow, Factors
  <2>3. (cw * s) * aw < (u * (ch + 1)) * aw
    <3>1. (cw * s) * aw = (aw * s) * cw
      BY <1>1, Factors
    <3>2. (u * ah) * cw = (cw * ah) * u
      BY <1>1, Factors
    <3>3. ((ch + 1) * aw) * u = (u * (ch + 1)) * aw
      BY <1>1, Factors
    <3>4. (cw * s) * aw \in Int /\ (u * ah) * cw \in Int /\ (u * (ch + 1)) * aw \in Int
      BY <1>1, Factors
    <3> QED BY <1>2, <2>2, <3>1, <3>2, <3>3, <3>4
  <2>4. cw * s < u * (ch + 1)
    <3>1. cw * s \in Int /\ u * (ch + 1) \in Int
      BY <1>1, Factors
    <3> QED BY <2>3, <3>1, ProductsOrder
  <2>5. c * s <= cw * s
    <3>1. cw * s = c * s + s /\ c * s \in Int
      BY <1>1
    <3> QED BY <1>1, <3>1
  <2>6. c * s \in Int /\ cw * s \in Int /\ u * (ch + 1) \in Int
    BY <1>1, Factors
  <2>7. c * s < u * (ch + 1)
    BY <2>4, <2>5, <2>6
  <2> QED BY <2>7 DEF c, s, u
<1>4. CASE cw * ah - ch * aw < ah
  <2>1. c * ah < ch * aw
    <3>1. cw * ah = c * ah + ah /\ c * ah \in Int /\ ch * aw \in Int
      BY <1>1
    <3> QED BY <1>4, <3>1
  <2>2. (c * ah) * u < (ch * aw) * u
    BY <1>1, <2>1, ProductsGrow, Factors
  <2>3. (c * s) * aw < (u * ch) * aw
    <3>1. (c * s) * aw = (aw * s) * c /\ (u * ah) * c = (c * ah) * u /\ (ch * aw) * u = (u * ch) * aw
      BY <1>1, Factors
    <3>2. (c * s) * aw \in Int /\ (u * ah) * c \in Int /\ (u * ch) * aw \in Int
      BY <1>1, Factors
    <3> QED BY <1>2, <2>2, <3>1, <3>2
  <2>4. c * s < u * ch
    BY <1>1, <2>3, ProductsOrder, Factors
  <2>5. u * (ch + 1) = u * ch + u /\ u * ch \in Int /\ c * s \in Int
    BY <1>1
  <2>6. c * s < u * (ch + 1)
    BY <1>1, <2>4, <2>5
  <2> QED BY <2>6 DEF c, s, u
<1> QED BY <1>3, <1>4

\* An image on a canvas that is made larger, rounded down, is no wider for its height
\* than it was.
LEMMA GrownIsNarrower ==
  ASSUME NEW aw \in Nat \ {0}, NEW ah \in Nat \ {0}, NEW kw \in Nat \ {0}, NEW kh \in Nat \ {0}, NEW cw \in Nat \ {0},
         NEW ch \in Nat \ {0}, NEW bw \in Nat \ {0}, NEW bh \in Nat \ {0},
         aw <= kw, ah <= kh, aw <= bw, bw * kw <= aw * cw, ah * ch < (bh + 1) * kh,
         cw * kh - ch * kw < kw \/ cw * kh - ch * kw < kh
  PROVE  (bw - 1) * (ah - 1) < (aw + 1) * (bh + 1)
<1>1. CASE cw * kh - ch * kw < kh
  <2> DEFINE c == bw - 1
             d == cw - 1
  <2>1. c \in Nat /\ bw = c + 1
    OBVIOUS
  <2> HIDE DEF c
  <2>2. cw * kh < ch * kw + kh
    <3>1. cw * kh \in Int /\ ch * kw \in Int
      OBVIOUS
    <3> QED BY <1>1, <3>1
  <2>3. (cw * kh) * aw < (ch * kw) * aw + kh * aw
    <3>1. (cw * kh) * aw < (ch * kw + kh) * aw
      BY <2>2, ProductsGrow, Factors
    <3>2. ch * kw \in Int
      OBVIOUS
    <3>3. \A x \in Int : (x + kh) * aw = x * aw + kh * aw
      OBVIOUS
    <3> QED BY <3>1, <3>2, <3>3
  <2>4. (bw * kw) * kh <= (aw * cw) * kh
    BY ProductsOrder, Factors
  <2>5. (c * kw) * kh + kw * kh = (bw * kw) * kh
    <3>1. bw * kw = c * kw + kw
      BY <2>1
    <3>2. c * kw \in Int
      BY <2>1
    <3>3. \A x \in Int : (x + kw) * kh = x * kh + kw * kh
      OBVIOUS
    <3> QED BY <3>1, <3>2, <3>3
  <2>6. aw * kh <= kw * kh
    BY ProductsOrder
  <2>7. (c * kh) * kw < (ch * aw) * kw
    <3>1. (c * kh) * kw = (c * kw) * kh /\ (cw * kh) * aw = (aw * cw) * kh /\ (ch * kw) * aw = (ch * aw) * kw /\ kh * aw = aw * kh
      BY <2>1, Factors
    <3>2. (c * kw) * kh \in Int /\ (aw * cw) * kh \in Int /\ (ch * aw) * kw \in Int /\ aw * kh \in Int /\ kw * kh \in Int
      BY <2>1, Factors
    <3> QED BY <2>3, <2>4, <2>5, <2>6, <3>1, <3>2
  <2>8. c * kh < ch * aw
    BY <2>1, <2>7, ProductsOrder, Factors
  <2>9. (c * ah) * kh < (aw * (bh + 1)) * kh
    <3>1. (c * kh) * ah < (ch * aw) * ah
      BY <2>1, <2>8, ProductsGrow, Factors
    <3>2. (ah * ch) * aw < ((bh + 1) * kh) * aw
      BY ProductsGrow, Factors
    <3>3. (c * kh) * ah = (c * ah) * kh /\ (ch * aw) * ah = (ah * ch) * aw /\ ((bh + 1) * kh) * aw = (aw * (bh + 1)) * kh
      BY <2>1, Factors
    <3>4. (c * ah) * kh \in Int /\ (ah * ch) * aw \in Int /\ (aw * (bh + 1)) * kh \in Int
      BY <2>1, Factors
    <3> QED BY <3>1, <3>2, <3>3, <3>4
  <2>10. c * ah < aw * (bh + 1)
    BY <2>1, <2>9, ProductsOrder, Factors
  <2>11. c * (ah - 1) = c * ah - c /\ (aw + 1) * (bh + 1) = aw * (bh + 1) + bh + 1
    BY <2>1
  <2>12. c * ah \in Int /\ aw * (bh + 1) \in Int
    BY <2>1
  <2>13. c * (ah - 1) < (aw + 1) * (bh + 1)
    BY <2>1, <2>10, <2>11, <2>12
  <2> QED BY <2>13 DEF c
<1>2. CASE cw * kh - ch * kw < kw
  <2>1. cw * kh < ch * kw + kw
    <3>1. cw * kh \in Int /\ ch * kw \in Int
      OBVIOUS
    <3> QED BY <1>2, <3>1
  <2>2. (cw * kh) * ah < (ch * kw) * ah + kw * ah
    <3>1. (cw * kh) * ah < (ch * kw + kw) * ah
      BY <2>1, ProductsGrow, Factors
    <3>2. ch * kw \in Int
      OBVIOUS
    <3>3. \A x \in Int : (x + kw) * ah = x * ah + kw * ah
      OBVIOUS
    <3> QED BY <3>1, <3>2, <3>3
  <2>3. (ah * ch) * kw < ((bh + 1) * kh) * kw
    BY ProductsGrow, Factors
  <2>4. kw * ah <= kh * kw
    BY ProductsOrder
  <2>5. (ah * cw) * kh < ((bh + 2) * kw) * kh
    <3>1. (cw * kh) * ah = (ah * cw) * kh /\ (ch * kw) * ah = (ah * ch) * kw
      BY Factors
    <3>2. ((bh + 2) * kw) * kh = ((bh + 1) * kh) * kw + kh * kw
      <4>1. ((bh + 2) * kw) * kh = (bh + 2) * (kh * kw) /\ ((bh + 1) * kh) * kw = (bh + 1) * (kh * kw)
        OBVIOUS
      <4>2. \A x \in Int : (bh + 2) * x = (bh + 1) * x + x
        OBVIOUS
      <4> QED BY <4>1, <4>2
    <3>3. (ah * cw) * kh \in Int /\ (ah * ch) * kw \in Int /\ ((bh + 1) * kh) * kw \in Int /\ kw * ah \in Int /\ kh * kw \in Int
      BY Factors
    <3> QED BY <2>2, <2>3, <2>4, <3>1, <3>2, <3>3
  <2>6. ah * cw < (bh + 2) * kw
    BY <2>5, ProductsOrder, Factors
  <2>7. (bw * ah) * kw < (aw * (bh + 2)) * kw
    <3>1. (ah * cw) * aw < ((bh + 2) * kw) * aw
      BY <2>6, ProductsGrow, Factors
    <3>2. (bw * kw) * ah <= (aw * cw) * ah
      BY ProductsOrder, Factors
    <3>3. (bw * kw) * ah = (bw * ah) * kw /\ (aw * cw) * ah = (ah * cw) * aw /\ ((bh + 2) * kw) * aw = (aw * (bh + 2)) * kw
      BY Factors
    <3>4. (bw * ah) * kw \in Int /\ (ah * cw) * aw \in Int /\ (aw * (bh + 2)) * kw \in Int
      BY Factors
    <3> QED BY <3>1, <3>2, <3>3, <3>4
  <2>8. bw * ah < aw * (bh + 2)
    BY <2>7, ProductsOrder, Factors
  <2> DEFINE p == bw * ah
             q == aw * bh
  <2>9. p \in Int /\ q \in Int /\ aw * (bh + 2) = q + 2 * aw
    OBVIOUS
  <2>10. (bw - 1) * (ah - 1) = p - bw - ah + 1 /\ (aw + 1) * (bh + 1) = q + aw + bh + 1
    OBVIOUS
  <2>11. p < q + 2 * aw
    BY <2>8, <2>9
  <2> HIDE DEF p, q
  <2> QED BY <2>9, <2>10, <2>11
<1> QED BY <1>1, <1>2

\* A fraction of a length is rounded down, and nothing overflows.
LEMMA FractionIs ==
  ASSUME Layout!SizingAssumption, NEW v \in Nat, NEW num \in 1 .. MaxSize, NEW den \in Nat \ {0}, v <= den
  PROVE  LET x == Layout!MultFraction(v, num, den) IN x \in Nat /\ x * den <= v * num /\ v * num < (x + 1) * den
<1> DEFINE p == v * num
           q == p \div den
<1>1. num \in Nat \ {0} /\ MaxSize \in Nat /\ num <= MaxSize
  BY DEF Layout!SizingAssumption
<1>2. p \in Nat /\ p <= num * den
  <2>1. v * num <= den * num
    BY <1>1, ProductsOrder
  <2> QED BY <1>1, <2>1
<1>3. q \in Nat /\ den * q <= p /\ p < den * (q + 1)
  <2> HIDE DEF p
  <2> QED BY <1>2, Quotient, NextQuotient
<1>4. Layout!MultFraction(v, num, den) = Layout!Wrap(q)
  BY DEF Layout!MultFraction
<1> HIDE DEF q
<1>5. q * den <= p /\ p < (q + 1) * den
  BY <1>3
<1>6. q <= num
  BY <1>1, <1>2, <1>3, <1>5, ProductsOrder
<1>7. (q + MaxSize + 1) % (2 * MaxSize + 2) = q + MaxSize + 1
  BY <1>1, <1>3, <1>6
<1>8. Layout!Wrap(q) = q
  BY <1>1, <1>3, <1>7 DEF Layout!Wrap
<1> QED BY <1>3, <1>4, <1>5, <1>8

\* An image and a source of its shape, for less than a pixel of the source at each side.
Shaped(a, s) == a.w * (s.h - 1) <= (s.w + 1) * a.h /\ a.h * (s.w - 1) <= (s.h + 1) * a.w

\* A size has its own shape, and a box has the shape of what it is made from.
LEMMA BoxIsShaped ==
  ASSUME Layout!SizingAssumption, NEW a \in Layout!Sizes
  PROVE  /\ Shaped(a, a)
         /\ \A t \in Layout!Sizes : \A kind : \A s \in Layout!BoxOf(a, t, kind) : Shaped(a, s)
<1>1. a.w \in Nat \ {0} /\ a.h \in Nat \ {0}
  BY SidesOf
<1>2. ASSUME NEW s \in Layout!Sizes, NEW d \in Nat \ {0}, d <= a.w + a.h,
             s.h * a.w - s.w * a.h <= d, s.w * a.h - s.h * a.w <= d
      PROVE  Shaped(a, s)
  <2>1. s.w \in Nat \ {0} /\ s.h \in Nat \ {0}
    BY SidesOf
  <2> DEFINE p == s.h * a.w
             q == s.w * a.h
  <2>2. p \in Int /\ q \in Int
    BY <1>1, <2>1
  <2>3. /\ a.w * (s.h - 1) = p - a.w /\ (s.w + 1) * a.h = q + a.h
        /\ a.h * (s.w - 1) = q - a.h /\ (s.h + 1) * a.w = p + a.w
    BY <1>1, <2>1
  <2>4. p - q <= d /\ q - p <= d
    BY <1>2
  <2> HIDE DEF p, q
  <2> QED BY <1>1, <1>2, <2>2, <2>3, <2>4 DEF Shaped
<1>3. Shaped(a, a)
  <2>1. a.h * a.w = a.w * a.h /\ a.w * a.h \in Int
    BY <1>1
  <2>2. a.h * a.w - a.w * a.h <= a.w /\ a.w * a.h - a.h * a.w <= a.w /\ a.w <= a.w + a.h
    BY <1>1, <2>1
  <2> QED BY <1>1, <1>2, <2>2
<1>4. ASSUME NEW t \in Layout!Sizes, NEW kind, NEW s \in Layout!BoxOf(a, t, kind)
      PROVE  Shaped(a, s)
  <2>1. s \in Layout!Sizes /\ s.w \in Nat \ {0} /\ s.h \in Nat \ {0}
    BY BoxIs, SidesOf
  <2>2. CASE s.w = t.w /\ Close(s.h, t.w * a.h, a.w)
    <3>1. s.h * a.w - s.w * a.h < a.w /\ s.w * a.h - s.h * a.w < a.w /\ s.h * a.w \in Int /\ s.w * a.h \in Int
      BY <1>1, <2>1, <2>2 DEF Close
    <3>2. s.h * a.w - s.w * a.h <= a.w /\ s.w * a.h - s.h * a.w <= a.w /\ a.w <= a.w + a.h
      BY <1>1, <3>1
    <3> QED BY <1>1, <1>2, <2>1, <3>2
  <2>3. CASE s.h = t.h /\ Close(s.w, t.h * a.w, a.h)
    <3>1. s.h * a.w - s.w * a.h < a.h /\ s.w * a.h - s.h * a.w < a.h /\ s.h * a.w \in Int /\ s.w * a.h \in Int
      BY <1>1, <2>1, <2>3 DEF Close
    <3>2. s.h * a.w - s.w * a.h <= a.h /\ s.w * a.h - s.h * a.w <= a.h /\ a.h <= a.w + a.h
      BY <1>1, <3>1
    <3> QED BY <1>1, <1>2, <2>1, <3>2
  <2> QED BY <2>2, <2>3, BoxIs
<1> QED BY <1>3, <1>4

\* Of the shape of a source is no wider than it.
LEMMA ShapedIsNarrower ==
  ASSUME NEW aw \in Nat \ {0}, NEW ah \in Nat \ {0}, NEW sw \in Nat \ {0}, NEW sh \in Nat \ {0}, aw * (sh - 1) <= (sw + 1) * ah
  PROVE  (aw - 1) * (sh - 1) < (sw + 1) * (ah + 1)
<1>1. (aw - 1) * (sh - 1) = aw * (sh - 1) - (sh - 1) /\ (sw + 1) * (ah + 1) = (sw + 1) * ah + sw + 1
  OBVIOUS
<1>2. aw * (sh - 1) \in Int /\ (sw + 1) * ah \in Int
  OBVIOUS
<1> QED BY <1>1, <1>2

\* What is shaped alike looks alike.
LEMMA ShapedIsAlike ==
  ASSUME Layout!SizingAssumption, NEW a \in Layout!Sizes, NEW s \in Layout!Sizes, Shaped(a, s)
  PROVE  Layout!Narrower(a, s) /\ Layout!Narrower(s, a)
<1>1. a.w \in Nat \ {0} /\ a.h \in Nat \ {0} /\ s.w \in Nat \ {0} /\ s.h \in Nat \ {0}
  BY SidesOf
<1>2. (a.w - 1) * (s.h - 1) < (s.w + 1) * (a.h + 1) /\ (a.h - 1) * (s.w - 1) < (s.h + 1) * (a.w + 1)
  BY <1>1, ShapedIsNarrower DEF Shaped
<1>3. (s.w - 1) * (a.h - 1) = (a.h - 1) * (s.w - 1) /\ (a.w + 1) * (s.h + 1) = (s.h + 1) * (a.w + 1)
  BY <1>1
<1> QED BY <1>2, <1>3 DEF Layout!Narrower

\* A box is nearly of the ratio of what it is made from.
LEMMA BoxIsNear ==
  ASSUME Layout!SizingAssumption, NEW k \in Layout!Sizes, NEW t \in Layout!Sizes, NEW kind, NEW c \in Layout!BoxOf(k, t, kind)
  PROVE  /\ c.w * k.h - c.h * k.w < k.w \/ c.w * k.h - c.h * k.w < k.h
         /\ c.h * k.w - c.w * k.h < k.h \/ c.h * k.w - c.w * k.h < k.w
  BY BoxIs DEF Close

\* A box made from an image still looks like the source that is shaped as the image.
LEMMA BoxedIsAlike ==
  ASSUME Layout!SizingAssumption, NEW a \in Layout!Sizes, NEW s \in Layout!Sizes, Shaped(a, s), NEW t \in Layout!Sizes, NEW kind,
         NEW c \in Layout!BoxOf(a, t, kind)
  PROVE  Layout!Narrower(c, s) /\ Layout!Narrower(s, c)
<1>1. /\ a.w \in Nat \ {0} /\ a.h \in Nat \ {0} /\ s.w \in Nat \ {0} /\ s.h \in Nat \ {0}
      /\ c.w \in Nat \ {0} /\ c.h \in Nat \ {0}
  BY BoxIs, SidesOf
<1>2. (c.w - 1) * (s.h - 1) < (s.w + 1) * (c.h + 1)
  BY <1>1, BoxIsNear, BoxedIsNarrower DEF Shaped
<1>3. (c.h - 1) * (s.w - 1) < (s.h + 1) * (c.w + 1)
  BY <1>1, BoxIsNear, BoxedIsNarrower DEF Shaped
<1>4. (s.w - 1) * (c.h - 1) = (c.h - 1) * (s.w - 1) /\ (c.w + 1) * (s.h + 1) = (s.h + 1) * (c.w + 1)
  BY <1>1
<1> QED BY <1>2, <1>3, <1>4 DEF Layout!Narrower

\* So does an image whose canvas is made larger.
LEMMA GrownIsAlike ==
  ASSUME Layout!SizingAssumption, NEW a \in Layout!Sizes, NEW k \in Layout!Sizes, NEW t \in Layout!Sizes, NEW kind,
         NEW c \in Layout!BoxOf(k, t, kind), Fits(a, k), Fits(k, c), NEW b \in Layout!DistortWith(a, k, c)
  PROVE  Layout!Narrower(b, a) /\ Layout!Narrower(a, b)
<1>1. /\ c \in Layout!Sizes /\ a.w \in Nat \ {0} /\ a.h \in Nat \ {0} /\ k.w \in Nat \ {0} /\ k.h \in Nat \ {0}
      /\ c.w \in Nat \ {0} /\ c.h \in Nat \ {0} /\ c.w \in 1 .. MaxSize /\ c.h \in 1 .. MaxSize
      /\ a.w <= k.w /\ a.h <= k.h /\ k.w <= c.w /\ k.h <= c.h
  BY BoxIs, SidesOf DEF Fits
<1>2. b \in Layout!Sizes
  BY <1>1, DistortedFits
<1>3. b.w \in Nat \ {0} /\ b.h \in Nat \ {0}
  BY <1>2, SidesOf
<1>4. b.w = Layout!MultFraction(a.w, c.w, k.w) /\ b.h = Layout!MultFraction(a.h, c.h, k.h)
  BY DEF Layout!DistortWith, Layout!Create, Layout!Size
<1>5. b.w * k.w <= a.w * c.w /\ a.w * c.w < (b.w + 1) * k.w
  BY <1>1, <1>4, FractionIs
<1>6. b.h * k.h <= a.h * c.h /\ a.h * c.h < (b.h + 1) * k.h
  BY <1>1, <1>4, FractionIs
<1>7. ASSUME NEW x \in Nat \ {0}, NEW y \in Nat \ {0}, NEW m \in Nat \ {0}, NEW n \in Nat \ {0},
             m <= n, x * n < (y + 1) * m
      PROVE  x <= y
  <2>1. m * x <= n * x
    BY <1>7, ProductsOrder
  <2>2. x * m < (y + 1) * m
    <3>1. m * x = x * m /\ n * x = x * n /\ x * m \in Int /\ x * n \in Int /\ (y + 1) * m \in Int
      BY <1>7
    <3> QED BY <1>7, <2>1, <3>1
  <2>3. x < y + 1
    BY <1>7, <2>2, ProductsOrder
  <2> QED BY <1>7, <2>3
<1>8. a.w <= b.w /\ a.h <= b.h
  BY <1>1, <1>3, <1>5, <1>6, <1>7
<1>9. (b.w - 1) * (a.h - 1) < (a.w + 1) * (b.h + 1)
  BY <1>1, <1>3, <1>5, <1>6, <1>8, BoxIsNear, GrownIsNarrower
<1>10. (b.h - 1) * (a.w - 1) < (a.h + 1) * (b.w + 1)
  BY <1>1, <1>3, <1>5, <1>6, <1>8, BoxIsNear, GrownIsNarrower
<1>11. (a.w - 1) * (b.h - 1) = (b.h - 1) * (a.w - 1) /\ (b.w + 1) * (a.h + 1) = (a.h + 1) * (b.w + 1)
  BY <1>1, <1>3
<1> QED BY <1>9, <1>10, <1>11 DEF Layout!Narrower

-----------------------------------------------------------------------------
\* The steps that scale, those that skip, those that need not keep proportions, and lists with neither.
ScaleSteps == {"scale_to_inner", "scale_to_outer"}
SkipSteps == {"skip_if", "skip_unless"}
Stretches == {"distort", "x", "y"}
Calm(steps) == \A n \in DOMAIN steps : steps[n].do \notin ScaleSteps \cup Stretches
ScalesFirst(steps) == steps # <<>> /\ steps[1].do \in ScaleSteps /\ Calm(Tail(steps))
SkipsFirst(steps) == steps # <<>> /\ steps[1].do \in SkipSteps

\* All of an image on its canvas, and one that may be scaled: it is all of its canvas, or
\* is all of the source on a canvas that only grows.
IsWhole(l) == l.image = l.canvas /\ l.source = l.image
Scalable(l) ==
  \/ l.image = l.canvas /\ Shaped(l.image, l.source)
  \/ l.image = l.source /\ Fits(l.canvas, l.target)

\* What is left to do of the lists there are, and to what.
VirtualStep == Layout!StepTo("virtual_canvas", [kind |-> "inner", target |-> "target", ratio |-> "canvas"])
LateScale == <<Do("partial_crop_aspect"), VirtualStep, Do("scale_to_outer")>>
InProportion(steps, l, skips) ==
  \/ Calm(steps) /\ Alike(l)
  \/ ScalesFirst(steps) /\ Scalable(l)
  \/ SkipsFirst(steps) /\ ScalesFirst(Tail(steps)) /\ IsWhole(l)
  \/ steps = LateScale /\ IsWhole(l) /\ ~skips
  \/ steps = Tail(LateScale) /\ IsWhole(l) /\ ~skips

\* In all of them the image looks like the source.
LEMMA ScalableIsAlike ==
  ASSUME Layout!SizingAssumption, NEW l \in Layouts
  PROVE  (Scalable(l) => Alike(l)) /\ (IsWhole(l) => Scalable(l) /\ Alike(l))
<1>1. l.image \in Layout!Sizes /\ l.source \in Layout!Sizes
  BY DEF Layouts
<1>2. Scalable(l) => Alike(l)
  <2>1. CASE Shaped(l.image, l.source)
    BY <1>1, <2>1, ShapedIsAlike DEF Alike
  <2>2. CASE l.image = l.source
    BY <1>1, <2>2, SameIsAlike DEF Alike
  <2> QED BY <2>1, <2>2 DEF Scalable
<1>3. IsWhole(l) => Scalable(l)
  BY <1>1, BoxIsShaped DEF IsWhole, Scalable
<1> QED BY <1>2, <1>3

\* A scale of what may be scaled.
LEMMA ScaleIsAlike ==
  ASSUME Layout!SizingAssumption, NEW l, Sound(l), Scalable(l), NEW kind, NEW r \in Layout!ScaleCanvas(l, kind)
  PROVE  Alike(r)
<1>1. /\ l \in Layouts /\ l.canvas \in Layout!Sizes /\ l.image \in Layout!Sizes /\ l.source \in Layout!Sizes
      /\ l.target \in Layout!Sizes /\ Fits(l.image, l.canvas)
  BY DEF Sound, Layouts
<1>2. PICK c \in Layout!BoxOf(l.canvas, l.target, kind) : r \in Layout!DistortCanvas(l, c)
  BY DEF Layout!ScaleCanvas
<1>3. c \in Layout!Sizes
  BY <1>1, BoxIs
<1>4. CASE l.image = l.canvas /\ Shaped(l.image, l.source)
  <2>1. r.image = c /\ r.source = l.source
    BY <1>1, <1>2, <1>3, <1>4, WholeIsDistorted
  <2>2. Layout!Narrower(c, l.source) /\ Layout!Narrower(l.source, c)
    BY <1>1, <1>2, <1>4, BoxedIsAlike
  <2> QED BY <2>1, <2>2 DEF Alike
<1>5. CASE l.image = l.source /\ Fits(l.canvas, l.target)
  <2>1. PICK b \in Layout!DistortWith(l.image, l.canvas, c) : r = [l EXCEPT !.image = b, !.canvas = c]
    BY <1>2 DEF Layout!DistortCanvas
  <2>2. r.image = b /\ r.source = l.image
    BY <1>1, <1>5, <2>1 DEF Layouts
  <2>3. Fits(l.canvas, c)
    BY <1>1, <1>2, <1>5, BoxIsLarger
  <2>4. Layout!Narrower(b, l.image) /\ Layout!Narrower(l.image, b)
    BY <1>1, <1>2, <2>1, <2>3, GrownIsAlike
  <2> QED BY <2>2, <2>4 DEF Alike
<1> QED BY <1>4, <1>5 DEF Scalable

\* What else a step can do takes the part of the source that has the shape of the image,
\* or leaves both as they are.
LEMMA CalmIsAlike ==
  ASSUME Layout!SizingAssumption, NEW l, Sound(l), Alike(l), NEW step \in Steps, step.do \notin ScaleSteps \cup Stretches,
         NEW r \in Layout!Execute(l, step)
  PROVE  Alike(r)
<1>1. /\ l \in Layouts /\ l.canvas \in Layout!Sizes /\ l.image \in Layout!Sizes /\ l.source \in Layout!Sizes
      /\ l.target \in Layout!Sizes /\ step.box \in Boxes
  BY DEF Sound, Layouts, Steps
<1>2. ASSUME NEW t \in Layout!Sizes, NEW x \in Layout!VirtualCanvas(l, t)
      PROVE  Alike(x)
  <2>1. x \in Layouts /\ x.source \in Layout!BoxOf(x.image, l.source, "inner")
    BY <1>1, VirtualIs
  <2>2. x.image \in Layout!Sizes
    BY <2>1 DEF Layouts
  <2> QED BY <1>1, <2>1, <2>2, BoxHasShape DEF Alike
<1>3. ASSUME NEW t \in Layout!Sizes, NEW x \in Layout!Crop(l, t)
      PROVE  Alike(x)
  <2>1. x \in Layout!VirtualCanvas(l, t)
    BY <1>3 DEF Layout!Crop
  <2> QED BY <1>2, <2>1
<1>4. ASSUME NEW x, NEW t, x \in Layout!PadCanvas(l, t)
      PROVE  Alike(x)
  <2>1. x = [l EXCEPT !.canvas = t]
    BY <1>4 DEF Layout!PadCanvas
  <2>2. x.image = l.image /\ x.source = l.source
    BY <1>1, <2>1 DEF Layouts
  <2> QED BY <2>2 DEF Alike
<1>5. CASE r \in Layout!FillCrop(l)
  <2>1. PICK s \in Layout!BoxOf(l.target, l.source, "inner") :
          r = [l EXCEPT !.source = s, !.image = l.target, !.canvas = l.target]
    BY <1>5 DEF Layout!FillCrop
  <2>2. r.image = l.target /\ r.source = s
    BY <1>1, <2>1 DEF Layouts
  <2> QED BY <1>1, <2>1, <2>2, BoxHasShape DEF Alike
<1>6. CASE r \in UNION {Layout!VirtualCanvas(l, b) : b \in Layout!ResolveBoxParam(l, step.box)}
  <2>1. PICK b \in Layout!ResolveBoxParam(l, step.box) : r \in Layout!VirtualCanvas(l, b)
    BY <1>6
  <2>2. b \in Layout!Sizes
    BY <1>1, ResolvedAre
  <2> QED BY <1>2, <2>1, <2>2
<1>7. CASE r \in UNION {Layout!PadCanvas(l, b) : b \in Layout!BoxOf(l.target, l.canvas, "outer")}
  <2>1. PICK b \in Layout!BoxOf(l.target, l.canvas, "outer") : r \in Layout!PadCanvas(l, b)
    BY <1>7
  <2> QED BY <1>4, <2>1
<1>8. CASE r \in UNION {Layout!Crop(l, b) : b \in Layout!BoxOf(l.target, l.canvas, "inner")}
  <2>1. PICK b \in Layout!BoxOf(l.target, l.canvas, "inner") : r \in Layout!Crop(l, b)
    BY <1>8
  <2>2. b \in Layout!Sizes
    BY <1>1, BoxesAre
  <2> QED BY <1>3, <2>1, <2>2
<1>9. CASE r \in UNION {Layout!Crop(l, b) : b \in Layout!Intersection(l.image, l.target)}
  <2>1. PICK b \in Layout!Intersection(l.image, l.target) : r \in Layout!Crop(l, b)
    BY <1>9
  <2>2. b \in Layout!Sizes
    BY <1>1, IntersectionFits
  <2> QED BY <1>3, <2>1, <2>2
<1>10. Layout!Execute(l, step) = Layout!Execute2D(l, step)
  BY Zenon DEF Layout!Execute, Stretches
<1>11. \/ r \in Layout!FillCrop(l) \/ r \in Layout!PadCanvas(l, l.target) \/ r \in Layout!Crop(l, l.target)
       \/ r \in UNION {Layout!VirtualCanvas(l, b) : b \in Layout!ResolveBoxParam(l, step.box)}
       \/ r \in UNION {Layout!PadCanvas(l, b) : b \in Layout!BoxOf(l.target, l.canvas, "outer")}
       \/ r \in UNION {Layout!Crop(l, b) : b \in Layout!BoxOf(l.target, l.canvas, "inner")}
       \/ r \in UNION {Layout!Crop(l, b) : b \in Layout!Intersection(l.image, l.target)}
       \/ r = l
  <2>1. step.do # "scale_to_inner" /\ step.do # "scale_to_outer" /\ step.do # "distort"
    BY DEF ScaleSteps, Stretches
  <2>2. r \in Layout!Execute2D(l, step)
    BY <1>10
  <2> QED BY <2>1, <2>2, Zenon DEF Layout!Execute2D
<1> QED BY <1>1, <1>3, <1>4, <1>5, <1>6, <1>7, <1>8, <1>9, <1>11

\* What is cropped to the shape of the target is all of the image and the canvas again.
LEMMA CroppedIsWhole ==
  ASSUME Layout!SizingAssumption, NEW l \in Layouts, IsWhole(l), NEW r \in Layout!Execute(l, Do("partial_crop_aspect"))
  PROVE  IsWhole(r)
<1>1. l.canvas \in Layout!Sizes /\ l.target \in Layout!Sizes /\ l.image = l.canvas /\ l.source = l.canvas
  BY DEF Layouts, IsWhole
<1>2. Layout!Execute(l, Do("partial_crop_aspect")) = UNION {Layout!Crop(l, b) : b \in Layout!BoxOf(l.target, l.canvas, "inner")}
  BY DEF Layout!Execute, Layout!Execute2D, Do, Layout!Step
<1>3. PICK b \in Layout!BoxOf(l.target, l.canvas, "inner") : r \in Layout!Crop(l, b)
  BY <1>2
<1>4. b \in Layout!Sizes /\ Fits(b, l.canvas) /\ (b.w = l.canvas.w \/ b.h = l.canvas.h)
  BY <1>1, BoxIs, InnerBoxFits
<1>5. r \in Layout!VirtualCanvas(l, b)
  BY <1>3 DEF Layout!Crop
<1>6. r.canvas = b /\ r.image \in Layout!Intersection(l.canvas, b) /\ r.source \in Layout!BoxOf(r.image, l.canvas, "inner")
  BY <1>1, <1>4, <1>5, VirtualIs
<1>7. r.image = b
  BY <1>1, <1>4, <1>6, SharedIs
<1>8. r.source = b
  BY <1>1, <1>4, <1>6, <1>7, OwnBox
<1> QED BY <1>6, <1>7, <1>8 DEF IsWhole

\* Put on a canvas of its shape that fits the target, it may be scaled.
LEMMA VirtualIsScalable ==
  ASSUME Layout!SizingAssumption, NEW l \in Layouts, IsWhole(l), NEW r \in Layout!Execute(l, VirtualStep)
  PROVE  Scalable(r)
<1>1. l.canvas \in Layout!Sizes /\ l.target \in Layout!Sizes /\ l.image = l.canvas /\ l.source = l.canvas
  BY DEF Layouts, IsWhole
<1>2. Layout!Execute(l, VirtualStep) = UNION {Layout!VirtualCanvas(l, b) : b \in Layout!BoxOf(l.canvas, l.target, "inner")}
  BY DEF Layout!Execute, Layout!Execute2D, VirtualStep, Layout!StepTo, Layout!Step, Layout!ResolveBoxParam
<1>3. PICK b \in Layout!BoxOf(l.canvas, l.target, "inner") : r \in Layout!VirtualCanvas(l, b)
  BY <1>2
<1>4. b \in Layout!Sizes /\ Fits(b, l.target)
  BY <1>1, InnerBoxFits
<1>5. /\ r.canvas = b /\ r.target = l.target /\ r.image \in Layout!Intersection(l.canvas, b)
      /\ r.source \in Layout!BoxOf(r.image, l.canvas, "inner")
  BY <1>1, <1>3, <1>4, VirtualIs
<1>6. CASE Fits(l.canvas, l.target)
  <2>1. Fits(l.canvas, b)
    BY <1>1, <1>3, <1>6, BoxIsLarger
  <2>2. r.image = l.canvas
    BY <1>1, <1>4, <1>5, <2>1, SharedIs
  <2>3. r.source = l.canvas
    BY <1>1, <1>5, <2>2, OwnBox, FitsFits
  <2> QED BY <1>4, <1>5, <2>2, <2>3 DEF Scalable
<1>7. CASE ~Fits(l.canvas, l.target)
  <2>1. Layout!ExceedsAny(l.canvas, l.target)
    BY <1>1, <1>7, FitsFits
  <2>2. Fits(b, l.canvas)
    BY <1>1, <1>3, <2>1, InnerBoxIsSmaller
  <2>3. r.image = b
    BY <1>1, <1>4, <1>5, <2>2, SharedIs
  <2> QED BY <1>1, <1>4, <1>5, <2>3, BoxIsShaped DEF Scalable
<1> QED BY <1>6, <1>7

\* Whatever is left to do, the image looks like the source.
LEMMA InProportionIsAlike ==
  ASSUME Layout!SizingAssumption, NEW steps, NEW l \in Layouts, NEW skips, InProportion(steps, l, skips)
  PROVE  Alike(l)
  BY ScalableIsAlike DEF InProportion

\* A step leaves it so.
LEMMA StepIsInProportion ==
  ASSUME Layout!SizingAssumption, NEW steps \in Seq(Steps), steps # <<>>, NEW l, Sound(l), NEW skips, NEW skipped \in BOOLEAN,
         skipped => skips \/ steps[1].do \in {"skip_if", "skip_unless"}, InProportion(steps, l, skips),
         NEW r \in IF skipped THEN {l} ELSE Layout!Execute(l, steps[1])
  PROVE  InProportion(Tail(steps), r, skipped)
<1>1. l \in Layouts /\ steps[1] \in Steps
  BY DEF Sound
<1>2. r = l \/ r \in Layout!Execute(l, steps[1])
  OBVIOUS
<1>3. CASE Calm(steps) /\ Alike(l)
  <2>1. Calm(Tail(steps))
    <3> SUFFICES ASSUME NEW n \in DOMAIN Tail(steps)
                 PROVE  Tail(steps)[n].do \notin ScaleSteps \cup Stretches
      BY DEF Calm
    <3>1. n + 1 \in DOMAIN steps /\ Tail(steps)[n] = steps[n + 1]
      OBVIOUS
    <3> QED BY <1>3, <3>1 DEF Calm
  <2>2. 1 \in DOMAIN steps
    OBVIOUS
  <2>3. steps[1].do \notin ScaleSteps \cup Stretches
    BY <1>3, <2>2 DEF Calm
  <2>4. Alike(r)
    BY <1>1, <1>2, <1>3, <2>3, CalmIsAlike
  <2> QED BY <2>1, <2>4 DEF InProportion
<1>4. CASE ScalesFirst(steps) /\ Scalable(l)
  <2>1. ASSUME r \in Layout!Execute(l, steps[1])
        PROVE  Alike(r)
    <3>1. steps[1].do \in {"scale_to_inner", "scale_to_outer"}
      BY <1>4 DEF ScalesFirst, ScaleSteps
    <3>2. r \in Layout!ScaleCanvas(l, "inner") \/ r \in Layout!ScaleCanvas(l, "outer")
      BY <2>1, <3>1 DEF Layout!Execute, Layout!Execute2D
    <3> QED BY <1>4, <3>2, ScaleIsAlike
  <2>2. Alike(r)
    BY <1>1, <1>2, <1>4, <2>1, ScalableIsAlike
  <2> QED BY <1>4, <2>2 DEF ScalesFirst, InProportion
<1>5. CASE SkipsFirst(steps) /\ ScalesFirst(Tail(steps)) /\ IsWhole(l)
  <2>1. steps[1].do \in {"skip_if", "skip_unless"}
    BY <1>5 DEF SkipsFirst, SkipSteps
  <2>2. r = l
    BY <1>2, <2>1 DEF Layout!Execute, Layout!Execute2D
  <2> QED BY <1>1, <1>5, <2>2, ScalableIsAlike DEF InProportion
<1>6. CASE steps = LateScale /\ IsWhole(l) /\ ~skips
  <2>1. steps[1] = Do("partial_crop_aspect") /\ Tail(steps) = Tail(LateScale)
    BY <1>6 DEF LateScale
  <2>2. ~skipped
    BY <1>6, <2>1 DEF Do, Layout!Step
  <2>3. IsWhole(r)
    BY <1>1, <1>6, <2>1, <2>2, CroppedIsWhole
  <2> QED BY <2>1, <2>2, <2>3 DEF InProportion
<1>7. CASE steps = Tail(LateScale) /\ IsWhole(l) /\ ~skips
  <2>1. steps = <<VirtualStep, Do("scale_to_outer")>>
    BY <1>7 DEF LateScale
  <2>2. steps[1] = VirtualStep /\ Tail(steps) = <<Do("scale_to_outer")>>
    BY <2>1
  <2>3. ~skipped
    BY <1>7, <2>2 DEF VirtualStep, Layout!StepTo, Layout!Step
  <2>4. Scalable(r)
    BY <1>1, <1>7, <2>2, <2>3, VirtualIsScalable
  <2>5. ScalesFirst(Tail(steps))
    <3>1. Do("scale_to_outer").do \in ScaleSteps
      BY DEF ScaleSteps, Do, Layout!Step
    <3> DEFINE last == Do("scale_to_outer")
    <3> HIDE DEF last
    <3>2. <<last>> # <<>> /\ <<last>>[1] = last /\ Tail(<<last>>) = <<>> /\ DOMAIN <<>> = {}
      OBVIOUS
    <3>3. Calm(Tail(<<last>>))
      BY <3>2 DEF Calm
    <3> QED BY <2>2, <3>1, <3>2, <3>3 DEF ScalesFirst, last
  <2> QED BY <2>4, <2>5 DEF InProportion
<1> QED BY <1>3, <1>4, <1>5, <1>6, <1>7 DEF InProportion

\* The lists of steps that keep proportions begin with all of the image.
LEMMA PlansAreInProportion ==
  ASSUME Layout!SizingAssumption, NEW steps \in Strategies \cup OddPlans, NEW l \in Layouts, IsWhole(l)
  PROVE  (\E n \in DOMAIN steps : steps[n].do \in Stretches) \/ InProportion(steps, l, FALSE)
<1>1. ASSUME NEW name
      PROVE  /\ Do(name).do = name /\ Layout!SkipIf(name).do = "skip_if" /\ Layout!SkipUnless(name).do = "skip_unless"
             /\ \A one : Layout!Along(name, one).do = name
             /\ \A box : Layout!StepTo(name, box).do = name
  BY DEF Do, Layout!Step, Layout!SkipIf, Layout!SkipUnless, Layout!Along, Layout!StepTo
<1>2. ASSUME NEW a, NEW b, a.do \in SkipSteps, b.do \in ScaleSteps
      PROVE  InProportion(<<a, b>>, l, FALSE)
  <2>1. SkipsFirst(<<a, b>>) /\ ScalesFirst(Tail(<<a, b>>))
    BY <1>2 DEF SkipsFirst, ScalesFirst, Calm
  <2> QED BY <2>1 DEF InProportion
<1>3. ASSUME NEW a, NEW b, NEW c, NEW d, NEW e, a.do \in SkipSteps, b.do \in ScaleSteps,
             \A x \in {c, d, e} : x.do \notin ScaleSteps \cup Stretches
      PROVE  InProportion(<<a, b, c, d, e>>, l, FALSE)
  <2>1. /\ <<a, b, c, d, e>>[1] = a /\ Tail(<<a, b, c, d, e>>) = <<b, c, d, e>>
        /\ <<b, c, d, e>>[1] = b /\ Tail(<<b, c, d, e>>) = <<c, d, e>>
    OBVIOUS
  <2>2. Calm(<<c, d, e>>)
    BY <1>3 DEF Calm
  <2>3. SkipsFirst(<<a, b, c, d, e>>) /\ ScalesFirst(Tail(<<a, b, c, d, e>>))
    BY <1>3, <2>1, <2>2 DEF SkipsFirst, ScalesFirst
  <2> QED BY <2>3 DEF InProportion
<1>4. Alike(l)
  BY ScalableIsAlike
<1>5. ASSUME NEW a, NEW b, NEW c, NEW d, NEW e, \A x \in {a, b, c, d, e} : x.do \notin ScaleSteps \cup Stretches
      PROVE  InProportion(<<a, b, c, d, e>>, l, FALSE)
  <2>1. Calm(<<a, b, c, d, e>>)
    BY <1>5 DEF Calm
  <2> QED BY <1>4, <2>1 DEF InProportion
<1>6. CASE steps \in Strategies
  <2>1. \/ steps = <<Layout!SkipUnless("either_greater"), Do("scale_to_inner")>>
        \/ steps = <<Layout!SkipUnless("both_greater"), Do("scale_to_outer")>>
        \/ steps = <<Layout!SkipUnless("both_less"), Do("scale_to_inner")>>
        \/ steps = <<Layout!SkipUnless("either_less"), Do("scale_to_outer")>>
        \/ steps = <<Layout!SkipIf("both_less"), Do("scale_to_inner"), Do("pad"), Do("begin"), Do("pad_aspect")>>
        \/ steps = <<Layout!SkipIf("either_less"), Do("fill_crop"), Do("begin"), Layout!SkipUnless("either_less"), Do("crop_aspect")>>
        \/ steps = <<Layout!SkipIf("either_less"), Do("fill_crop"), Do("begin"), Layout!SkipUnless("larger_1d_smaller_1d"),
                     Do("crop_intersection")>>
    BY <1>6 DEF Strategies
  <2>2. Do("scale_to_inner").do \in ScaleSteps /\ Do("scale_to_outer").do \in ScaleSteps
    BY <1>1 DEF ScaleSteps
  <2>3. /\ \A c : Layout!SkipUnless(c).do \in SkipSteps /\ Layout!SkipIf(c).do \in SkipSteps
        /\ \A c : Layout!SkipUnless(c).do \notin ScaleSteps \cup Stretches /\ Layout!SkipIf(c).do \notin ScaleSteps \cup Stretches
    BY <1>1 DEF SkipSteps, ScaleSteps, Stretches
  <2>4. \A name \in {"pad", "begin", "pad_aspect", "fill_crop", "crop_aspect", "crop_intersection"} :
          Do(name).do \notin ScaleSteps \cup Stretches
    BY <1>1 DEF ScaleSteps, Stretches
  <2>5. \A c : InProportion(<<Layout!SkipUnless(c), Do("scale_to_inner")>>, l, FALSE)
                /\ InProportion(<<Layout!SkipUnless(c), Do("scale_to_outer")>>, l, FALSE)
    <3> TAKE c
    <3>1. Layout!SkipUnless(c).do \in SkipSteps
      BY <2>3
    <3> QED BY <1>2, <2>2, <3>1
  <2>6. InProportion(<<Layout!SkipIf("both_less"), Do("scale_to_inner"), Do("pad"), Do("begin"), Do("pad_aspect")>>, l, FALSE)
    <3>1. \A x \in {Do("pad"), Do("begin"), Do("pad_aspect")} : x.do \notin ScaleSteps \cup Stretches
      BY <2>4
    <3>2. Layout!SkipIf("both_less").do \in SkipSteps
      BY <2>3
    <3> QED BY <1>3, <2>2, <3>1, <3>2
  <2>7. InProportion(<<Layout!SkipIf("either_less"), Do("fill_crop"), Do("begin"), Layout!SkipUnless("either_less"),
                       Do("crop_aspect")>>, l, FALSE)
    BY <1>5, <2>3, <2>4
  <2>8. InProportion(<<Layout!SkipIf("either_less"), Do("fill_crop"), Do("begin"), Layout!SkipUnless("larger_1d_smaller_1d"),
                       Do("crop_intersection")>>, l, FALSE)
    BY <1>5, <2>3, <2>4
  <2> QED BY <2>1, <2>5, <2>6, <2>7, <2>8, Zenon
<1>7. CASE steps \in OddPlans
  <2>1. \/ steps = <<Layout!Along("x", "scale_proportional"), Layout!Along("y", "crop"), Do("begin"), Layout!Along("y", "pad")>>
        \/ steps = <<Layout!Along("x", "distort"), Layout!Along("y", "virtual_canvas")>>
        \/ steps = <<Do("pad_aspect"), Do("scale_to_inner"), Layout!StepTo("distort", Layout!Exact("image"))>>
        \/ steps = LateScale
    BY <1>7 DEF OddPlans, LateScale, VirtualStep
  <2>2. ASSUME steps = <<Layout!Along("x", "scale_proportional"), Layout!Along("y", "crop"), Do("begin"), Layout!Along("y", "pad")>>
               \/ steps = <<Layout!Along("x", "distort"), Layout!Along("y", "virtual_canvas")>>
        PROVE  \E n \in DOMAIN steps : steps[n].do \in Stretches
    <3>1. 1 \in DOMAIN steps
      BY <2>2
    <3>2. steps[1].do = "x"
      <4>1. Layout!Along("x", "scale_proportional").do = "x" /\ Layout!Along("x", "distort").do = "x"
        BY <1>1
      <4>2. steps[1] = Layout!Along("x", "scale_proportional") \/ steps[1] = Layout!Along("x", "distort")
        BY <2>2
      <4> QED BY <4>1, <4>2
    <3> QED BY <3>1, <3>2 DEF Stretches
  <2>3. ASSUME steps = <<Do("pad_aspect"), Do("scale_to_inner"), Layout!StepTo("distort", Layout!Exact("image"))>>
        PROVE  \E n \in DOMAIN steps : steps[n].do \in Stretches
    <3>1. 3 \in DOMAIN steps
      BY <2>3
    <3>2. steps[3].do = "distort"
      BY <1>1, <2>3
    <3> QED BY <3>1, <3>2 DEF Stretches
  <2>4. ASSUME steps = LateScale
        PROVE  InProportion(steps, l, FALSE)
    BY <2>4 DEF InProportion
  <2> QED BY <2>1, <2>2, <2>3, <2>4
<1> QED BY <1>6, <1>7

-----------------------------------------------------------------------------
\* Of lists of steps that keep proportions: what is done, and what is left to do.
ProportionInv ==
  part = "steps" /\ (\A n \in DOMAIN plan : plan[n].do \notin Stretches) =>
    Alike(lay) /\ (verdict = "running" => InProportion(rest, lay, skipping))

\* It holds of every list at first.
LEMMA ProportionsBegin ==
  ASSUME RiapiAssumption, RiapiInit
  PROVE  ProportionInv
<1> SUFFICES ASSUME part = "steps", \A n \in DOMAIN plan : plan[n].do \notin Stretches
             PROVE  Alike(lay) /\ InProportion(rest, lay, skipping)
  BY DEF ProportionInv
<1>0. Layout!SizingAssumption
  BY DEF RiapiAssumption
<1>1. PICK o, t \in Square(Side), p \in Strategies \cup OddPlans : Layout!Start(o, t, p)
  BY DEF RiapiInit, LayoutInit
<1>2. lay = [canvas |-> o, image |-> o, source |-> o, target |-> t] /\ plan = p /\ rest = p /\ skipping = FALSE
  BY <1>1 DEF Layout!Start, Layout!LayoutOf
<1>3. lay \in Layouts
  BY LayoutsBegin DEF LayoutInv, StepsInv, Sound
<1>4. IsWhole(lay)
  BY <1>2 DEF IsWhole
<1>5. InProportion(p, lay, FALSE)
  BY <1>0, <1>2, <1>3, <1>4, PlansAreInProportion
<1> QED BY <1>0, <1>2, <1>3, <1>5, InProportionIsAlike

\* It stays so, step by step.
LEMMA ProportionsGoOn ==
  ASSUME RiapiAssumption, LayoutInv, ProportionInv, [RiapiNext]_riapiVars
  PROVE  ProportionInv'
<1>0. Layout!SizingAssumption
  BY DEF RiapiAssumption
<1>1. CASE UNCHANGED <<part, stepsVars>>
  <2>1. UNCHANGED <<part, plan, lay, rest, skipping, verdict>>
    BY <1>1 DEF stepsVars
  <2> QED BY <2>1 DEF ProportionInv, Alike, InProportion, IsWhole, Scalable
<1>2. CASE LayoutStep
  <2>1. part' = "layout"
    BY <1>2 DEF LayoutStep
  <2> QED BY <2>1 DEF ProportionInv
<1>3. CASE StepsStep
  <2> SUFFICES ASSUME \A n \in DOMAIN plan' : plan'[n].do \notin Stretches
               PROVE  Alike(lay') /\ (verdict' = "running" => InProportion(rest', lay', skipping'))
    BY DEF ProportionInv
  <2> DEFINE step == Head(rest)
             results == IF Layout!Skips(step) THEN {lay} ELSE Layout!Execute(lay, step)
  <2>1. part = "steps" /\ Layout!Advance
    BY <1>3 DEF StepsStep
  <2>2. /\ verdict = "running" /\ rest # <<>> /\ skipping' = Layout!Skips(step) /\ rest' = Tail(rest) /\ plan' = plan
        /\ IF results = {} THEN verdict' = "failed" /\ UNCHANGED lay ELSE lay' \in results /\ UNCHANGED verdict
    BY <2>1 DEF Layout!Advance
  <2>3. Sound(lay) /\ lay \in Layouts /\ rest \in Seq(Steps) /\ skipping \in BOOLEAN
    BY DEF LayoutInv, StepsInv, Sound
  <2>4. InProportion(rest, lay, skipping) /\ Alike(lay)
    BY <2>1, <2>2 DEF ProportionInv
  <2>5. step = rest[1]
    BY <2>2, <2>3
  <2>6. Layout!Skips(step) \in BOOLEAN /\ (Layout!Skips(step) => skipping \/ step.do \in {"skip_if", "skip_unless"})
    BY <2>3 DEF Layout!Skips, Layout!BeginsSkip
  <2> HIDE DEF step
  <2>7. PICK skipped \in BOOLEAN : skipped = Layout!Skips(step)
    BY <2>6
  <2>8. CASE results = {}
    <3>1. verdict' = "failed" /\ lay' = lay
      BY <2>2, <2>8
    <3> QED BY <2>4, <3>1 DEF Alike
  <2>9. CASE results # {}
    <3>1. PICK r \in results : lay' = r
      BY <2>2, <2>9
    <3>2. r \in IF skipped THEN {lay} ELSE Layout!Execute(lay, rest[1])
      BY <2>5, <2>7, <3>1
    <3>3. InProportion(Tail(rest), r, skipped)
      BY <1>0, <2>2, <2>3, <2>4, <2>5, <2>6, <2>7, <3>2, StepIsInProportion
    <3>4. r \in Layouts
      <4>1. StepsInv'
        BY <1>0, <2>1, StepsAdvance DEF LayoutInv
      <4> QED BY <3>1, <4>1 DEF StepsInv, Sound
    <3>5. Alike(r)
      BY <1>0, <3>3, <3>4, InProportionIsAlike
    <3>6. rest' = Tail(rest) /\ skipping' = skipped
      BY <2>2, <2>7
    <3> QED BY <3>1, <3>3, <3>5, <3>6 DEF Alike, InProportion, IsWhole, Scalable
  <2> QED BY <2>8, <2>9
<1>4. CASE ParserStep \/ ColorStep \/ UNCHANGED riapiVars
  BY <1>1, <1>4 DEF ParserStep, ColorStep, riapiVars
<1> QED BY <1>2, <1>3, <1>4 DEF RiapiNext

\* Neither a layout that is not to be stretched nor a list of steps that keep proportions
\* leaves the image wider or higher for its size than the part of the source it shows,
\* but for less than a pixel at each side; for images and targets of any sizes, whatever
\* is scaled, cropped, padded and rounded in what order (sizing.rs:12, sizing_tests.rs).
THEOREM NothingIsEverDistorted == RiapiSpec => []NothingIsDistorted
<1>1. RiapiInit => LayoutInv /\ AskedInv /\ ProportionInv
  BY RiapiAssumption, LayoutsBegin, AskedBegins, ProportionsBegin
<1>2. LayoutInv /\ AskedInv /\ ProportionInv /\ [RiapiNext]_riapiVars => LayoutInv' /\ AskedInv' /\ ProportionInv'
  BY RiapiAssumption, LayoutsGoOn, AskedGoesOn, ProportionsGoOn
<1>3. LayoutInv /\ AskedInv /\ ProportionInv => NothingIsDistorted
  <2> SUFFICES ASSUME LayoutInv, AskedInv, ProportionInv
               PROVE  NothingIsDistorted
    OBVIOUS
  <2>1. part = "layout" => Layout!StretchedOnlyWhenAsked
    BY RiapiAssumption, LayoutsAreAlike
  <2>2. part = "steps" => Layout!ProportionsAreKept
    BY DEF ProportionInv, Layout!ProportionsAreKept, Alike, Stretches
  <2> QED BY <2>1, <2>2 DEF NothingIsDistorted
<1> QED BY <1>1, <1>2, <1>3, PTL DEF RiapiSpec

-----------------------------------------------------------------------------
\* The ways to try the fields, one by one.
LEMMA TriesAre ==
  /\ DOMAIN Tries = 1 .. 39 /\ Len(Tries) = 39
  /\ ToSet(Tries) = {Tries[n] : n \in 1 .. 39}
  /\ \A n \in 1 .. 39 : Tries[n].field \in Fields /\ Tries[n].key \in Ir4Keys
  /\ \A f \in Fields : \E n \in 1 .. 39 : Tries[n].field = f
<1>1. DOMAIN Tries = 1 .. 39 /\ Len(Tries) = 39
  BY DEF Tries
<1>2. ToSet(Tries) = {Tries[n] : n \in 1 .. 39}
  BY <1>1 DEF ToSet
<1>4. \A n \in 1 .. 39 : Tries[n].field \in Fields /\ Tries[n].key \in Ir4Keys
  BY <1>1 DEF Fields, Ir4Keys
<1>5. \A f \in Fields : \E n \in 1 .. 39 : Tries[n].field = f
  BY <1>1 DEF Fields
<1> QED BY <1>1, <1>2, <1>4, <1>5

\* The fields that are true or false, and the parsers whose values are words.
BoolFields == {"autorotate", "ignoreicc", "s_sepia", "jpeg_progressive"}
PlainParsers == {"i32", "f64", "mode", "fill", "auto", "scale", "format", "crop_strict", "crop", "grayscale", "balance",
                 "colorspace", "subsampling"}

\* What the fields of each kind are parsed by.
LEMMA ParsersAre ==
  \A n \in 1 .. 39 :
    LET t == Tries[n] IN
    /\ t.field \in {"flip", "sflip"} <=> t.parser = "flip"
    /\ t.field = "anchor" <=> t.parser = "anchor"
    /\ t.field = "bgcolor_srgb" <=> t.parser = "color"
    /\ t.field \in {"rotate", "srotate"} <=> t.parser = "rotate"
    /\ t.field \in BoolFields <=> t.parser = "bool"
    /\ t.parser \in PlainParsers \cup {"flip", "anchor", "color", "rotate", "bool"}
    /\ t.field = "a_balance_white" <=> t.parser = "balance"
    /\ t.field = "mode" <=> t.parser \in {"mode", "fill", "auto"}
    /\ t.field = "crop" <=> t.parser \in {"crop_strict", "crop"}
    /\ t.field = "format" <=> t.parser = "format"
  BY DEF Tries, Try, Else, BoolFields, PlainParsers

\* The others have one parser.
LEMMA OneParser ==
  \A n, m \in 1 .. 39 :
    Tries[n].field = Tries[m].field /\ Tries[n].field \notin {"mode", "crop"} => Tries[n].parser = Tries[m].parser
  BY DEF Tries, Try, Else

\* Keys are for one field, but for "crop".
LEMMA KeysAreFor ==
  \A n, m \in 1 .. 39 :
    /\ Tries[n].key = Tries[m].key /\ Tries[n].field # Tries[m].field => Tries[n].key = "crop"
    /\ Tries[n].key = "crop" => Tries[n].field = "crop" \/ (Tries[n].field = "mode" /\ Tries[n].parser = "auto")
    /\ Tries[n].key = "mode" => Tries[n].parser = "mode"
    /\ Tries[n].key = "a.balancewhite" <=> Tries[n].field = "a_balance_white"
  BY DEF Tries, Try, Else

\* A field is written under one of the keys it is read from, and under no other's.
LEMMA KeysAreOf ==
  /\ \A f \in Fields : \E n \in 1 .. 39 : Tries[n].field = f /\ Tries[n].key = KeyOf(f)
  /\ KeyOf("mode") = "mode"
  /\ \A f, g \in Fields : KeyOf(f) = KeyOf(g) => f = g
  /\ \A f \in Fields : KeyOf(f) \in Ir4Keys
<1>1. DOMAIN FieldKeys = {"w", "h", "format", "mode"} /\ FieldKeys["w"] = "w" /\ FieldKeys["h"] = "h"
      /\ FieldKeys["format"] = "format" /\ FieldKeys["mode"] = "mode"
  BY DEF FieldKeys
<1>2. KeyOf("w") = "w" /\ KeyOf("h") = "h" /\ KeyOf("format") = "format" /\ KeyOf("mode") = "mode"
  BY <1>1 DEF KeyOf
<1>3. Tries[3] = Try("w", "w", "i32") /\ Tries[5] = Try("h", "h", "i32") /\ Tries[14] = Try("format", "format", "format")
      /\ Tries[10] = Try("mode", "mode", "mode")
  BY DEF Tries
<1>4. ASSUME NEW f \in Fields
      PROVE  \E n \in 1 .. 39 : Tries[n].field = f /\ Tries[n].key = KeyOf(f)
  <2>1. CASE f \in DOMAIN FieldKeys
    <3>1. /\ Tries[3].field = "w" /\ Tries[3].key = "w" /\ Tries[5].field = "h" /\ Tries[5].key = "h"
          /\ Tries[14].field = "format" /\ Tries[14].key = "format" /\ Tries[10].field = "mode" /\ Tries[10].key = "mode"
      BY <1>3 DEF Try
    <3>2. f = "w" \/ f = "h" \/ f = "format" \/ f = "mode"
      BY <1>1, <2>1
    <3>3. 3 \in 1 .. 39 /\ 5 \in 1 .. 39 /\ 14 \in 1 .. 39 /\ 10 \in 1 .. 39
      OBVIOUS
    <3> QED BY <1>2, <3>1, <3>2, <3>3
  <2>2. CASE f \notin DOMAIN FieldKeys
    <3> DEFINE t == CHOOSE u \in ToSet(Tries) : u.field = f
    <3>1. t \in ToSet(Tries) /\ t.field = f
      <4>1. \E u \in ToSet(Tries) : u.field = f
        BY TriesAre
      <4> QED BY <4>1
    <3>2. KeyOf(f) = t.key
      BY <2>2 DEF KeyOf
    <3> HIDE DEF t
    <3>3. PICK n \in 1 .. 39 : t = Tries[n]
      BY <3>1, TriesAre
    <3> QED BY <3>1, <3>2, <3>3
  <2> QED BY <2>1, <2>2
<1>5. ASSUME NEW f \in Fields, NEW g \in Fields, KeyOf(f) = KeyOf(g)
      PROVE  f = g
  <2>1. PICK n \in 1 .. 39 : Tries[n].field = f /\ Tries[n].key = KeyOf(f)
    BY <1>4
  <2>2. PICK m \in 1 .. 39 : Tries[m].field = g /\ Tries[m].key = KeyOf(g)
    BY <1>4
  <2>3. CASE f # "mode" /\ g # "mode"
    <3>1. ASSUME f # g
          PROVE  FALSE
      <4>1. Tries[n].key = "crop" /\ Tries[m].key = "crop"
        BY <1>5, <2>1, <2>2, <3>1, KeysAreFor
      <4>2. Tries[n].field = "crop" /\ Tries[m].field = "crop"
        BY <2>1, <2>2, <2>3, <4>1, KeysAreFor
      <4> QED BY <2>1, <2>2, <3>1, <4>2
    <3> QED BY <3>1
  <2>4. CASE f = "mode" \/ g = "mode"
    <3>1. Tries[n].key = "mode" /\ Tries[m].key = "mode"
      BY <1>2, <1>5, <2>1, <2>2, <2>4
    <3>2. Tries[n].parser = "mode" /\ Tries[m].parser = "mode"
      BY <3>1, KeysAreFor
    <3>3. Tries[n].field = "mode" /\ Tries[m].field = "mode"
      BY <3>2, ParsersAre
    <3> QED BY <2>1, <2>2, <3>3
  <2> QED BY <2>3, <2>4
<1> QED BY <1>2, <1>4, <1>5, TriesAre

-----------------------------------------------------------------------------
\* What is read of a field, of what: no mode is none.
Reads(parser, x, v) ==
  x \in DOMAIN Accepted(parser) /\ ~(parser = "mode" /\ x = "none") /\ v = Accepted(parser)[x]
IsValue(f, v) == \E n \in 1 .. 39 : Tries[n].field = f /\ \E x : Reads(Tries[n].parser, x, v)

\* The words that are short for others are written as the others.
LEMMA PlainIsKept ==
  ASSUME NEW p \in PlainParsers, NEW x, NEW v, Reads(p, x, v)
  PROVE  /\ p \notin {"fill", "auto", "crop"} => Reads(p, v, v)
         /\ p \in {"fill", "auto"} => Reads("mode", v, v)
         /\ p \in {"crop_strict", "crop"} => Reads("crop_strict", v, v) /\ Reads("crop", v, v) /\ v \notin DOMAIN Accepted("auto")
         /\ v # ""
         /\ p # "balance" => v # "carve" /\ (p \in {"mode", "fill", "auto"} => v \notin {"carve", "none"})
         /\ p = "format" => v \in {"jpeg", "png", "gif"}
<1>1. ASSUME NEW S, Accepted(p) = Same(S), p \in {"i32", "f64", "grayscale", "colorspace", "subsampling"}, "" \notin S, "carve" \notin S
      PROVE  Reads(p, v, v) /\ v # "" /\ v # "carve"
  BY <1>1 DEF Reads, Same
<1>2. CASE p \in {"i32", "f64", "grayscale", "colorspace", "subsampling"}
  <2>1. /\ Accepted("i32") = Same(Ints) /\ Accepted("f64") = Same(Doubles) /\ Accepted("grayscale") = Grays
        /\ Accepted("colorspace") = Colorspaces /\ Accepted("subsampling") = Subsamplings
    BY DEF Accepted
  <2>2. \E S : Accepted(p) = Same(S) /\ "" \notin S /\ "carve" \notin S
    <3>1. CASE p = "i32"
      BY <2>1, <3>1 DEF Ints
    <3>2. CASE p = "f64"
      BY <2>1, <3>2 DEF Doubles, Ints
    <3>3. CASE p = "grayscale"
      BY <2>1, <3>3 DEF Grays
    <3>4. CASE p = "colorspace"
      BY <2>1, <3>4 DEF Colorspaces
    <3>5. CASE p = "subsampling"
      BY <2>1, <3>5 DEF Subsamplings
    <3> QED BY <1>2, <3>1, <3>2, <3>3, <3>4, <3>5
  <2> QED BY <1>1, <1>2, <2>2
<1>3. CASE p \in {"mode", "fill", "auto"}
  <2>1. /\ Accepted("mode") = Modes /\ Accepted("fill") = [fill |-> "stretch"] /\ Accepted("auto") = [auto |-> "crop"]
    BY DEF Accepted
  <2>2. /\ DOMAIN Modes = {"carve", "none", "max", "pad", "crop", "stretch"}
        /\ Modes["carve"] = "stretch" /\ \A y \in {"none", "max", "pad", "crop", "stretch"} : Modes[y] = y
    BY DEF Modes
  <2>3. v \in {"max", "pad", "crop", "stretch"}
    BY <1>3, <2>1, <2>2 DEF Reads
  <2>4. Reads("mode", v, v) /\ v # "" /\ v \notin {"carve", "none"}
    BY <2>1, <2>2, <2>3 DEF Reads
  <2> QED BY <1>3, <2>4
<1>4. CASE p = "scale"
  <2>1. Accepted("scale") = Scales
    BY DEF Accepted
  <2>2. DOMAIN Scales = {"down", "up", "canvas", "downscaleonly", "upscaleonly", "upscalecanvas", "both"}
        /\ \A y \in {"downscaleonly", "upscaleonly", "upscalecanvas", "both"} : Scales[y] = y
        /\ Scales["down"] = "downscaleonly" /\ Scales["up"] = "upscaleonly" /\ Scales["canvas"] = "upscalecanvas"
    BY DEF Scales
  <2>3. v \in {"downscaleonly", "upscaleonly", "upscalecanvas", "both"}
    BY <1>4, <2>1, <2>2 DEF Reads
  <2>4. Reads("scale", v, v) /\ v # "" /\ v # "carve"
    BY <2>1, <2>2, <2>3 DEF Reads
  <2> QED BY <1>4, <2>4
<1>5. CASE p = "format"
  <2>1. Accepted("format") = Formats
    BY DEF Accepted
  <2>2. DOMAIN Formats = Jpegs \cup {"png", "gif"} /\ \A y \in Jpegs \cup {"png", "gif"} : Formats[y] = IF y \in Jpegs THEN "jpeg" ELSE y
    BY DEF Formats
  <2>3. "jpeg" \in Jpegs /\ "png" \notin Jpegs /\ "gif" \notin Jpegs
    BY DEF Jpegs
  <2>4. v \in {"jpeg", "png", "gif"}
    BY <1>5, <2>1, <2>2 DEF Reads
  <2>5. Reads("format", v, v)
    BY <2>1, <2>2, <2>3, <2>4 DEF Reads
  <2>6. v # "" /\ v # "carve"
    BY <2>4
  <2> QED BY <1>5, <2>4, <2>5, <2>6
<1>6. CASE p \in {"crop_strict", "crop"}
  <2>1. Accepted("crop_strict") = Same(StrictCrops) /\ Accepted("crop") = Crops /\ Accepted("auto") = [auto |-> "crop"]
    BY DEF Accepted
  <2>2. DOMAIN Accepted("auto") = {"auto"}
    BY <2>1
  <2>3. v \in StrictCrops
    BY <1>6, <2>1 DEF Reads, Same, StrictCrops, Crops
  <2>4. Same(StrictCrops)[v] = v /\ Crops[v] = v /\ v \in DOMAIN Same(StrictCrops) /\ v \in DOMAIN Crops
    BY <2>3 DEF Same, Crops
  <2>5. v # "" /\ v # "carve" /\ v # "auto"
    BY <2>3 DEF StrictCrops
  <2>6. Reads("crop_strict", v, v) /\ Reads("crop", v, v)
    BY <2>1, <2>4 DEF Reads
  <2> QED BY <1>6, <2>2, <2>5, <2>6
<1>7. CASE p = "balance"
  <2>1. Accepted("balance") = Balances
    BY DEF Accepted
  <2>2. DOMAIN Balances = {"true", "area", "simple", "gimp"} /\ Balances["true"] = "area"
        /\ \A y \in {"area", "simple", "gimp"} : Balances[y] = y
    BY DEF Balances
  <2>3. v \in {"area", "simple", "gimp"}
    BY <1>7, <2>1, <2>2 DEF Reads
  <2>4. Reads("balance", v, v) /\ v # ""
    BY <2>1, <2>2, <2>3 DEF Reads
  <2> QED BY <1>7, <2>4
<1> QED BY <1>2, <1>3, <1>4, <1>5, <1>6, <1>7 DEF PlainParsers

\* Turns are quarter turns.
LEMMA TurnsAre ==
  ASSUME NEW x, NEW v, Reads("rotate", x, v)
  PROVE  v \in {0, 90, 180, 270}
<1>1. Accepted("rotate") = [y \in DOMAIN Rotations |-> Quarter(Rotations[y])]
  BY DEF Accepted
<1>2. x \in DOMAIN Rotations /\ v = Quarter(Rotations[x])
  BY <1>1 DEF Reads
<1>3. Rotations[x] \in {0, 90, 180, 270, -90, 360, 100, -46}
  BY <1>2 DEF Rotations
<1>4. \A d \in Int : Quarter(d) \in {0, 90, 180, 270}
  <2> SUFFICES ASSUME NEW d \in Int
               PROVE  Quarter(d) \in {0, 90, 180, 270}
    OBVIOUS
  <2> DEFINE q == IF d >= 0 THEN (2 * d + 90) \div 180 ELSE -((90 - 2 * d) \div 180)
  <2>1. q \in Int
    OBVIOUS
  <2>2. Quarter(d) = 90 * (q % 4)
    BY DEF Quarter
  <2> HIDE DEF q
  <2>3. q % 4 \in 0 .. 3
    BY <2>1
  <2> QED BY <2>2, <2>3
<1> QED BY <1>2, <1>3, <1>4

-----------------------------------------------------------------------------
\* The fields whose values are not words.
OtherFields == BoolFields \cup {"flip", "sflip", "anchor", "bgcolor_srgb", "rotate", "srotate"}

\* What each kind of setting is written as.
LEMMA StringsAre ==
  ASSUME NEW f, NEW v
  PROVE  /\ f \in {"flip", "sflip"} => Strings(f, v) = FlipString(v)
         /\ f = "anchor" => Strings(f, v) = {AnchorString(v)}
         /\ f = "bgcolor_srgb" => Strings(f, v) = {"ff0000ff"}
         /\ f \in {"rotate", "srotate"} => Strings(f, v) = {Digits[v]}
         /\ f \in BoolFields => Strings(f, v) = {IF v THEN "true" ELSE "false"}
         /\ f \notin OtherFields => Strings(f, v) = {v}
<1>1. CASE f \in {"flip", "sflip"}
  BY <1>1 DEF Strings, BoolFields, OtherFields
<1>2. CASE f = "anchor"
  BY <1>2 DEF Strings, BoolFields, OtherFields
<1>3. CASE f = "bgcolor_srgb"
  BY <1>3 DEF Strings, BoolFields, OtherFields
<1>4. CASE f \in {"rotate", "srotate"}
  BY <1>4 DEF Strings, BoolFields, OtherFields
<1>5. CASE f \in BoolFields
  BY <1>5 DEF Strings, BoolFields, OtherFields
<1>6. CASE f \notin OtherFields
  BY <1>6 DEF Strings, BoolFields, OtherFields
<1> QED BY <1>1, <1>2, <1>3, <1>4, <1>5, <1>6 DEF OtherFields

\* It is one text, or none for no flip.
LEMMA OneString ==
  ASSUME NEW f, NEW v
  PROVE  /\ \A s, u \in Strings(f, v) : s = u
         /\ Strings(f, v) = {} => f \in {"flip", "sflip"}
<1>1. \A s, u \in FlipString(v) : s = u
  <2>1. CASE v = <<TRUE, TRUE>>
    BY <2>1 DEF FlipString
  <2>2. CASE v = <<TRUE, FALSE>>
    BY <2>2 DEF FlipString
  <2>3. CASE v = <<FALSE, TRUE>>
    BY <2>3 DEF FlipString
  <2>4. CASE v # <<TRUE, TRUE>> /\ v # <<TRUE, FALSE>> /\ v # <<FALSE, TRUE>>
    BY <2>4 DEF FlipString
  <2> QED BY <2>1, <2>2, <2>3, <2>4
<1> QED BY <1>1, StringsAre DEF OtherFields

\* A flip is written as the parser reads it.
LEMMA FlipIsRead ==
  ASSUME NEW x, NEW v, Reads("flip", x, v)
  PROVE  /\ FlipString(v) = {} <=> v = <<FALSE, FALSE>>
         /\ \A s \in FlipString(v) : Reads("flip", s, v) /\ s # ""
<1>1. Accepted("flip") = Flips
  BY DEF Accepted
<1>2. /\ DOMAIN Flips = {"none", "h", "x", "v", "y", "xy", "both"}
      /\ Flips["none"] = <<FALSE, FALSE>> /\ Flips["h"] = <<TRUE, FALSE>> /\ Flips["x"] = <<TRUE, FALSE>>
      /\ Flips["v"] = <<FALSE, TRUE>> /\ Flips["y"] = <<FALSE, TRUE>> /\ Flips["xy"] = <<TRUE, TRUE>>
      /\ Flips["both"] = <<TRUE, TRUE>>
  BY DEF Flips
<1>3. v = Flips[x] /\ x \in DOMAIN Flips
  BY <1>1 DEF Reads
<1>4. v = <<TRUE, TRUE>> \/ v = <<TRUE, FALSE>> \/ v = <<FALSE, TRUE>> \/ v = <<FALSE, FALSE>>
  BY <1>2, <1>3
<1>6. /\ FlipString(<<TRUE, TRUE>>) = {"xy"} /\ FlipString(<<TRUE, FALSE>>) = {"x"}
      /\ FlipString(<<FALSE, TRUE>>) = {"y"} /\ FlipString(<<FALSE, FALSE>>) = {}
  BY DEF FlipString
<1>8. \A s \in {"x", "y", "xy"} : Reads("flip", s, Flips[s])
  BY <1>1, <1>2 DEF Reads
<1> QED BY <1>2, <1>4, <1>6, <1>8

\* So is an anchor, though as another one.
LEMMA AnchorIsRead ==
  ASSUME NEW x, NEW v, Reads("anchor", x, v)
  PROVE  AnchorString(v) \in DOMAIN Accepted("anchor") /\ AnchorString(v) # ""
<1>1. Accepted("anchor") = Anchors
  BY DEF Accepted
<1>2. DOMAIN Anchors = {"topleft", "topcenter", "topright", "middleleft", "middlecenter", "middleright", "bottomleft",
                        "bottomcenter", "bottomright"}
  BY DEF Anchors
<1>3. x \in DOMAIN Anchors /\ v = Anchors[x]
  BY <1>1 DEF Reads
<1>4. v[1] \in {"near", "center", "far"} /\ v[2] \in {"near", "center", "far"}
  BY <1>2, <1>3 DEF Anchors
<1>5. \A a, b \in {"near", "center", "far"} : AnchorNames[a][b] \in DOMAIN Anchors
  BY <1>2 DEF AnchorNames
<1> QED BY <1>1, <1>2, <1>4, <1>5 DEF AnchorString

\* So are colors, turns, and what is true or false.
LEMMA OthersAreRead ==
  /\ \A x, v : Reads("color", x, v) => Reads("color", "ff0000ff", v)
  /\ \A x, v : Reads("rotate", x, v) => Reads("rotate", Digits[v], v) /\ ~Inexact("rotate", Digits[v]) /\ Digits[v] # ""
  /\ \A x, v : Reads("bool", x, v) => v \in BOOLEAN /\ Reads("bool", IF v THEN "true" ELSE "false", v)
<1>1. ASSUME NEW x, NEW v, Reads("color", x, v)
      PROVE  Reads("color", "ff0000ff", v)
  <2>1. Accepted("color") = Colors
    BY DEF Accepted
  <2> QED BY <1>1, <2>1 DEF Reads, Colors
<1>2. ASSUME NEW x, NEW v, Reads("rotate", x, v)
      PROVE  Reads("rotate", Digits[v], v) /\ ~Inexact("rotate", Digits[v]) /\ Digits[v] # ""
  <2>1. v \in {0, 90, 180, 270}
    BY <1>2, TurnsAre
  <2>2. Digits[0] = "0" /\ Digits[90] = "90" /\ Digits[180] = "180" /\ Digits[270] = "270"
    BY DEF Digits
  <2>3. /\ {"0", "90", "180", "270"} \subseteq DOMAIN Rotations
        /\ Rotations["0"] = 0 /\ Rotations["90"] = 90 /\ Rotations["180"] = 180 /\ Rotations["270"] = 270
    BY DEF Rotations
  <2>4. Accepted("rotate") = [y \in DOMAIN Rotations |-> Quarter(Rotations[y])]
    BY DEF Accepted
  <2>5. Quarter(0) = 0 /\ Quarter(90) = 90 /\ Quarter(180) = 180 /\ Quarter(270) = 270
    BY DEF Quarter
  <2>6. \A s \in {"0", "90", "180", "270"} : s \in DOMAIN Accepted("rotate") /\ Accepted("rotate")[s] = Quarter(Rotations[s])
    BY <2>3, <2>4
  <2>7. Reads("rotate", Digits[v], v)
    BY <2>1, <2>2, <2>3, <2>5, <2>6 DEF Reads
  <2>8. ~Inexact("rotate", Digits[v])
    BY <2>1, <2>2, <2>3 DEF Inexact
  <2> QED BY <2>1, <2>2, <2>7, <2>8
<1>3. ASSUME NEW x, NEW v, Reads("bool", x, v)
      PROVE  v \in BOOLEAN /\ Reads("bool", IF v THEN "true" ELSE "false", v)
  <2>1. Accepted("bool") = Bools
    BY DEF Accepted
  <2>2. /\ {"true", "false"} \subseteq DOMAIN Bools /\ Bools["true"] = TRUE /\ Bools["false"] = FALSE
        /\ \A y \in DOMAIN Bools : Bools[y] \in BOOLEAN
    <3> DEFINE S == Yes \cup {"false", "0", "no", "off"}
    <3>1. "true" \in S /\ "true" \in Yes /\ "false" \in S /\ ~("false" \in Yes)
      BY DEF Yes
    <3>2. Bools = [y \in S |-> y \in Yes]
      BY DEF Bools
    <3> HIDE DEF S
    <3>3. DOMAIN Bools = S /\ \A y \in S : Bools[y] = (y \in Yes)
      BY <3>2, Zenon
    <3>4. Bools["true"] = TRUE
      BY <3>1, <3>2, Zenon
    <3>5. Bools["false"] = FALSE
      <4>1. ("false" \in Yes) = FALSE
        BY <3>1, SMT
      <4>2. Bools["false"] = ("false" \in Yes)
        BY <3>1, <3>3, Zenon
      <4> QED BY <4>1, <4>2, Zenon
    <3>7. \A y \in S : (y \in Yes) \in BOOLEAN
      OBVIOUS
    <3>8. \A y \in S : Bools[y] \in BOOLEAN
      BY <3>3, <3>7, Zenon
    <3> QED BY <3>1, <3>3, <3>4, <3>5, <3>8
  <2>3. v \in BOOLEAN
    BY <1>3, <2>1, <2>2 DEF Reads
  <2>4. CASE v = TRUE
    BY <2>1, <2>2, <2>4 DEF Reads
  <2>5. CASE v = FALSE
    BY <2>1, <2>2, <2>5 DEF Reads
  <2> QED BY <2>3, <2>4, <2>5
<1> QED BY <1>1, <1>2, <1>3

\* Whatever was read of a field is written as what is read as it, under its key, and
\* is warned of for a second time only if it is discouraged.
LEMMA WrittenAgain ==
  ASSUME NEW n \in 1 .. 39, Tries[n].key = KeyOf(Tries[n].field), NEW v, IsValue(Tries[n].field, v),
         NEW s \in Strings(Tries[n].field, v)
  PROVE  /\ s \in DOMAIN Accepted(Tries[n].parser) /\ s # ""
         /\ ~Inexact(Tries[n].parser, s)
         /\ Tries[n].field # "anchor" => Reads(Tries[n].parser, s, v)
         /\ Discouraged(Tries[n].parser, s) => Tries[n].parser = "balance" /\ s = v
         /\ Tries[n].field = "crop" => s \notin DOMAIN Accepted("auto")
         /\ Tries[n].field = "format" => v \in {"jpeg", "png", "gif"}
<1> DEFINE f == Tries[n].field
           p == Tries[n].parser
<1>1. PICK m \in 1 .. 39 : Tries[m].field = f /\ \E x : Reads(Tries[m].parser, x, v)
  BY DEF IsValue
<1> DEFINE u == Tries[m].parser
<1>2. PICK x : Reads(u, x, v)
  BY <1>1
<1>3. f \notin {"mode", "crop"} => u = p
  BY <1>1, OneParser
<1>4. f = "mode" => p = "mode"
  BY KeysAreOf, KeysAreFor
<1>5. /\ f \in {"flip", "sflip"} <=> p = "flip"
      /\ f = "anchor" <=> p = "anchor"
      /\ f = "bgcolor_srgb" <=> p = "color"
      /\ f \in {"rotate", "srotate"} <=> p = "rotate"
      /\ f \in BoolFields <=> p = "bool"
      /\ p \in PlainParsers \cup {"flip", "anchor", "color", "rotate", "bool"}
      /\ f = "a_balance_white" <=> p = "balance"
      /\ f = "mode" <=> p \in {"mode", "fill", "auto"}
      /\ f = "crop" <=> p \in {"crop_strict", "crop"}
      /\ f = "format" <=> p = "format"
  BY ParsersAre
<1>6. /\ f = "mode" <=> u \in {"mode", "fill", "auto"}
      /\ f = "crop" <=> u \in {"crop_strict", "crop"}
      /\ u \in PlainParsers \cup {"flip", "anchor", "color", "rotate", "bool"}
  BY <1>1, ParsersAre
<1> HIDE DEF f, p, u
<1>7. p # "rotate" => ~Inexact(p, s)
  BY DEF Inexact
<1>8. p \notin {"mode", "balance"} => ~Discouraged(p, s)
  BY DEF Discouraged
<1>9. s \in Strings(f, v)
  BY DEF f
<1>10. CASE p = "flip"
  <2>1. u = "flip" /\ f \in {"flip", "sflip"}
    BY <1>3, <1>5, <1>10
  <2>2. s \in FlipString(v)
    BY <1>9, <2>1, StringsAre
  <2>3. Reads("flip", s, v) /\ s # ""
    BY <1>2, <2>1, <2>2, FlipIsRead
  <2> QED BY <1>7, <1>8, <1>10, <2>1, <2>3 DEF Reads, f, p
<1>11. CASE p = "anchor"
  <2>1. u = "anchor" /\ f = "anchor"
    BY <1>3, <1>5, <1>11
  <2>2. s = AnchorString(v)
    BY <1>9, <2>1, StringsAre
  <2>3. s \in DOMAIN Accepted("anchor") /\ s # ""
    BY <1>2, <2>1, <2>2, AnchorIsRead
  <2> QED BY <1>7, <1>8, <1>11, <2>1, <2>3 DEF f, p
<1>12. CASE p = "color"
  <2>1. u = "color" /\ f = "bgcolor_srgb"
    BY <1>3, <1>5, <1>12
  <2>2. s = "ff0000ff"
    BY <1>9, <2>1, StringsAre
  <2>3. Reads("color", s, v)
    BY <1>2, <2>1, <2>2, OthersAreRead
  <2> QED BY <1>7, <1>8, <1>12, <2>1, <2>2, <2>3 DEF Reads, f, p
<1>13. CASE p = "rotate"
  <2>1. u = "rotate" /\ f \in {"rotate", "srotate"}
    BY <1>3, <1>5, <1>13
  <2>2. s = Digits[v]
    BY <1>9, <2>1, StringsAre
  <2>3. Reads("rotate", s, v) /\ ~Inexact("rotate", s) /\ s # ""
    BY <1>2, <2>1, <2>2, OthersAreRead
  <2> QED BY <1>8, <1>13, <2>1, <2>3 DEF Reads, f, p
<1>14. CASE p = "bool"
  <2>1. u = "bool" /\ f \in BoolFields /\ f \notin {"anchor", "mode", "crop", "format"}
    BY <1>3, <1>5, <1>14
  <2>2. s = IF v THEN "true" ELSE "false"
    BY <1>9, <2>1, StringsAre
  <2>3. Reads("bool", s, v)
    BY <1>2, <2>1, <2>2, OthersAreRead
  <2>4. s # ""
    BY <2>2
  <2> QED BY <1>7, <1>8, <1>14, <2>1, <2>3, <2>4 DEF Reads, f, p
<1>15. CASE p \in PlainParsers
  <2>1. f \notin OtherFields /\ u \in PlainParsers
    BY <1>3, <1>5, <1>6, <1>15 DEF OtherFields, PlainParsers
  <2>2. s = v
    BY <1>9, <2>1, StringsAre
  <2>3. /\ u \notin {"fill", "auto", "crop"} => Reads(u, v, v)
        /\ u \in {"fill", "auto"} => Reads("mode", v, v)
        /\ u \in {"crop_strict", "crop"} => Reads("crop_strict", v, v) /\ Reads("crop", v, v) /\ v \notin DOMAIN Accepted("auto")
        /\ v # ""
        /\ u # "balance" => v # "carve" /\ (u \in {"mode", "fill", "auto"} => v \notin {"carve", "none"})
        /\ u = "format" => v \in {"jpeg", "png", "gif"}
    BY <1>2, <2>1, PlainIsKept
  <2>4. Reads(p, v, v)
    <3>1. CASE f = "mode"
      BY <1>4, <1>6, <2>3, <3>1
    <3>2. CASE f = "crop"
      BY <1>5, <1>6, <2>3, <3>2
    <3>3. CASE f \notin {"mode", "crop"}
      BY <1>3, <1>6, <2>3, <3>3
    <3> QED BY <3>1, <3>2, <3>3
  <2>5. Discouraged(p, s) => p = "balance"
    <3>1. p = "mode" => v # "carve"
      BY <1>5, <1>6, <2>3
    <3> QED BY <1>8, <2>2, <3>1 DEF Discouraged
  <2>6. f = "crop" => v \notin DOMAIN Accepted("auto")
    BY <1>6, <2>3
  <2>7. f = "format" => v \in {"jpeg", "png", "gif"}
    BY <1>3, <1>5, <2>3
  <2>8. ~Inexact(p, s)
    BY <1>7, <1>15 DEF PlainParsers
  <2> QED BY <2>2, <2>3, <2>4, <2>5, <2>6, <2>7, <2>8 DEF Reads, f, p
<1> QED BY <1>5, <1>10, <1>11, <1>12, <1>13, <1>14, <1>15

-----------------------------------------------------------------------------
\* What one try does with what it finds.
LEMMA ParseIs ==
  ASSUME NEW t, NEW v
  PROVE  LET r == Parse(t, v) IN
         /\ \A u \in r.value : r.value = {u} /\ Reads(t.parser, v, u)
         /\ \A u : Reads(t.parser, v, u) => r.value = {u}
         /\ r.supported /\ r.value = {} => v \in Silent
         /\ r.value # {} /\ Discouraged(t.parser, v) => r.warns
         /\ v \in DOMAIN Accepted(t.parser) /\ ~Inexact(t.parser, v) =>
              r.supported /\ (r.warns => Discouraged(t.parser, v))
         /\ v \notin DOMAIN Accepted(t.parser) => r.value = {}
         /\ v \notin DOMAIN Accepted(t.parser) /\ v # "" => ~r.supported
         /\ v \notin DOMAIN Accepted(t.parser) /\ t.parser \in {"fill", "auto"} => ~r.warns
<1> DEFINE r == Parse(t, v)
           understood == v \in DOMAIN Accepted(t.parser)
           none == t.parser = "mode" /\ v = "none"
           warns == IF understood THEN Inexact(t.parser, v) \/ Discouraged(t.parser, v)
                    ELSE v # "" /\ t.parser \notin {"fill", "auto"}
           supported == v = "" \/ (understood /\ ~Inexact(t.parser, v))
           value == IF ~understood \/ none THEN {} ELSE {Accepted(t.parser)[v]}
<1>1. r = [value |-> value, warns |-> warns, supported |-> supported]
  BY DEF Parse
<1>2. \A u : Reads(t.parser, v, u) <=> understood /\ ~none /\ u = Accepted(t.parser)[v]
  BY DEF Reads
<1> HIDE DEF understood, none, r
<1>3. r.value = value /\ (r.warns <=> warns) /\ (r.supported <=> supported)
  <2> HIDE DEF value, warns, supported
  <2>1. r.value = value /\ r.warns = warns /\ r.supported = supported
    BY <1>1
  <2> QED BY <2>1
<1>4. understood <=> v \in DOMAIN Accepted(t.parser)
  BY DEF understood
<1>5. none => v = "none"
  BY DEF none
<1>6. \A u \in r.value : r.value = {u} /\ Reads(t.parser, v, u)
  BY <1>2, <1>3
<1>7. \A u : Reads(t.parser, v, u) => r.value = {u}
  BY <1>2, <1>3
<1>8. r.supported /\ r.value = {} => v \in Silent
  BY <1>3, <1>5 DEF Silent
<1>9. r.value # {} /\ Discouraged(t.parser, v) => r.warns
  BY <1>3
<1>10. understood /\ ~Inexact(t.parser, v) => r.supported /\ (r.warns => Discouraged(t.parser, v))
  BY <1>3
<1>11. ~understood => r.value = {} /\ (v # "" => ~r.supported) /\ (t.parser \in {"fill", "auto"} => ~r.warns)
  BY <1>3
<1> QED BY <1>4, <1>6, <1>7, <1>8, <1>9, <1>10, <1>11 DEF r

-----------------------------------------------------------------------------
\* The first with a key; where a setting comes from; what is said of a pair; what is
\* still to be dealt with.
Texted == [key : STRING, value : STRING]
IsFirst(q, n, k) == n \in DOMAIN q /\ q[n].key = k /\ \A m \in DOMAIN q : q[m].key = k => n <= m
ComesFrom(q, f, v, w, n, m) ==
  /\ Tries[n].field = f /\ IsFirst(q, m, Tries[n].key) /\ Reads(Tries[n].parser, q[m].value, v)
  /\ Discouraged(Tries[n].parser, q[m].value) => Warning("invalid", q[m]) \in w
Comes(q, f, v, w) == \E n \in 1 .. 39 : \E m \in DOMAIN q : ComesFrom(q, f, v, w, n, m)
Meant(q, j, w) ==
  \A f \in Fields : (\A u, v \in j[f] : u = v) /\ \A v \in j[f] : Comes(q, f, v, w)
Named(p, j, w) ==
  \/ p.value \in Silent
  \/ \E f \in Fields : Feeds(p, f) /\ j[f] # {}
  \/ \E x \in w : x.key = p.key /\ x.value = p.value
Holds(m, p) == p.key \in DOMAIN m /\ m[p.key] = p.value

\* What was meant or named before still is when there is more to see.
LEMMA MoreIsMeant ==
  ASSUME NEW q, NEW j, NEW w, NEW x, w \subseteq x, Meant(q, j, w)
  PROVE  Meant(q, j, x)
<1>1. ASSUME NEW f \in Fields, NEW v \in j[f]
      PROVE  Comes(q, f, v, x)
  <2>1. Comes(q, f, v, w)
    BY <1>1 DEF Meant
  <2>2. PICK n \in 1 .. 39, m \in DOMAIN q : ComesFrom(q, f, v, w, n, m)
    BY <2>1 DEF Comes
  <2>3. ComesFrom(q, f, v, x, n, m)
    BY <2>2 DEF ComesFrom
  <2> QED BY <2>3 DEF Comes
<1> QED BY <1>1 DEF Meant

\* So is what was named.
LEMMA MoreIsNamed ==
  ASSUME NEW p, NEW j, NEW w, NEW k, NEW x, w \subseteq x, \A f \in Fields : j[f] # {} => k[f] # {}, Named(p, j, w)
  PROVE  Named(p, k, x)
  BY DEF Named

\* What is warned of is named.
LEMMA WarningsName ==
  ASSUME NEW p, NEW j, NEW w, NEW kind, NEW o, o.key = p.key, o.value = p.value, Warning(kind, o) \in w
  PROVE  Named(p, j, w)
<1>1. Warning(kind, o).key = p.key /\ Warning(kind, o).value = p.value
  BY DEF Warning
<1> QED BY <1>1 DEF Named

-----------------------------------------------------------------------------
\* While the query of the caller is parsed.
Taken == Len(asked) - Len(pairs)
MapIsAsked == \A k \in DOMAIN map : k \in Ir4Keys /\ \E n \in 1 .. Taken : IsFirst(asked, n, k) /\ asked[n].value = map[k]
AllAreKnown == turn = 0 => \A n \in 1 .. Taken : asked[n].key \in Ir4Keys => asked[n].key \in DOMAIN map
AllAreNamed == \A n \in 1 .. Taken : Named(asked[n], i, warnings) \/ Holds(map, asked[n])
Parsing ==
  /\ asked \in Seq(Texted) /\ pairs \in Seq(Texted) /\ Len(pairs) <= Len(asked)
  /\ \A n \in 1 .. Len(pairs) : pairs[n] = asked[Taken + n]
  /\ turn \in 0 .. 40 /\ (turn > 0 => pairs = <<>>) /\ (turn = 0 => i = NoInstructions)
  /\ i = [f \in Fields |-> i[f]] /\ first = {} /\ encode = {}
FirstInv == Parsing /\ MapIsAsked /\ AllAreKnown /\ AllAreNamed /\ Meant(asked, i, warnings)

\* To begin with, nothing is dealt with.
LEMMA FirstBegins == ASSUME QueriesAssumption, Init PROVE FirstInv
<1>1. asked \in Seq(Texted) /\ pairs = asked /\ map = <<>> /\ turn = 0 /\ i = NoInstructions /\ warnings = {} /\ first = {}
      /\ encode = {}
  BY DEF QueriesAssumption, Init, Begin, Texted
<1>2. Len(asked) \in Nat /\ Len(pairs) = Len(asked) /\ Taken = 0
  BY <1>1 DEF Taken
<1>3. \A n \in 1 .. Len(pairs) : pairs[n] = asked[Taken + n]
  BY <1>1, <1>2
<1>4. DOMAIN i = Fields /\ \A f \in Fields : i[f] = {}
  BY <1>1 DEF NoInstructions
<1>5. Parsing
  BY <1>1, <1>2, <1>3, <1>4 DEF Parsing, NoInstructions
<1>6. MapIsAsked /\ AllAreKnown /\ AllAreNamed
  BY <1>1, <1>2 DEF MapIsAsked, AllAreKnown, AllAreNamed
<1>7. Meant(asked, i, warnings)
  BY <1>4 DEF Meant
<1> QED BY <1>5, <1>6, <1>7 DEF FirstInv

\* One more pair.
LEMMA FirstTakes == ASSUME FirstInv, TakePair PROVE FirstInv'
<1> DEFINE p == Head(pairs)
           n == Taken + 1
<1>1. /\ asked \in Seq(Texted) /\ pairs \in Seq(Texted) /\ Len(pairs) <= Len(asked)
      /\ \A k \in 1 .. Len(pairs) : pairs[k] = asked[Taken + k]
      /\ turn = 0 /\ pairs # <<>> /\ i = NoInstructions /\ first = {} /\ encode = {} /\ i = [f \in Fields |-> i[f]]
  BY DEF FirstInv, Parsing, TakePair
<1>2. /\ pairs' = Tail(pairs) /\ asked' = asked /\ turn' = turn /\ i' = i /\ first' = first /\ encode' = encode
      /\ \/ p.key \in DOMAIN map /\ warnings' = warnings \cup {Warning("duplicate", p)} /\ map' = map
         \/ p.key \notin DOMAIN map /\ p.key \notin Ir4Keys /\ warnings' = warnings \cup {Warning("not_recognized", p)} /\ map' = map
         \/ /\ p.key \notin DOMAIN map /\ p.key \in Ir4Keys /\ warnings' = warnings
            /\ map' = [k \in DOMAIN map \cup {p.key} |-> IF k = p.key THEN p.value ELSE map[k]]
  BY DEF TakePair
<1>3. Len(asked) \in Nat /\ Len(pairs) \in Nat \ {0} /\ DOMAIN asked = 1 .. Len(asked)
  BY <1>1, EmptySeq, LenProperties
<1>4. Tail(pairs) \in Seq(Texted) /\ Len(Tail(pairs)) = Len(pairs) - 1 /\ \A k \in 1 .. Len(Tail(pairs)) : Tail(pairs)[k] = pairs[k + 1]
  BY <1>1, HeadTailProperties
<1>5. Taken \in Nat /\ n \in 1 .. Len(asked) /\ Taken' = n
  BY <1>1, <1>2, <1>3, <1>4 DEF Taken
<1>6. p = asked[n]
  BY <1>1, <1>3, <1>5
<1> HIDE DEF p, n
<1>7. n = Taken + 1
  BY DEF n
<1>8. Parsing'
  <2>1. \A k \in 1 .. Len(pairs') : pairs'[k] = asked'[Taken' + k]
    <3> SUFFICES ASSUME NEW k \in 1 .. Len(Tail(pairs))
                 PROVE  Tail(pairs)[k] = asked[n + k]
      BY <1>2, <1>5
    <3>1. k + 1 \in 1 .. Len(pairs) /\ Taken + (k + 1) = n + k
      BY <1>3, <1>4, <1>5, <1>7
    <3> QED BY <1>1, <1>4, <3>1
  <2> QED BY <1>1, <1>2, <1>3, <1>4, <2>1 DEF Parsing
<1>9. MapIsAsked'
  <2>1. ASSUME NEW k \in DOMAIN map
        PROVE  k \in Ir4Keys /\ \E m \in 1 .. n : IsFirst(asked, m, k) /\ asked[m].value = map[k]
    <3>1. k \in Ir4Keys /\ \E m \in 1 .. Taken : IsFirst(asked, m, k) /\ asked[m].value = map[k]
      BY <2>1 DEF FirstInv, MapIsAsked
    <3> QED BY <1>5, <1>7, <3>1
  <2>2. CASE map' = map
    BY <1>2, <1>5, <2>1, <2>2 DEF MapIsAsked
  <2>3. CASE p.key \notin DOMAIN map /\ p.key \in Ir4Keys
             /\ map' = [k \in DOMAIN map \cup {p.key} |-> IF k = p.key THEN p.value ELSE map[k]]
    <3>1. IsFirst(asked, n, p.key)
      <4>1. ASSUME NEW m \in DOMAIN asked, asked[m].key = p.key, m < n
            PROVE  FALSE
        <5>1. m \in 1 .. Taken
          BY <1>3, <1>5, <1>7, <4>1
        <5>2. asked[m].key \in DOMAIN map
          BY <1>1, <2>3, <4>1, <5>1 DEF FirstInv, AllAreKnown
        <5> QED BY <2>3, <4>1, <5>2
      <4> QED BY <1>3, <1>5, <1>6, <4>1 DEF IsFirst
    <3>2. n \in 1 .. n
      BY <1>5, <1>7
    <3>3. ASSUME NEW k \in DOMAIN map'
          PROVE  k \in Ir4Keys /\ \E m \in 1 .. n : IsFirst(asked, m, k) /\ asked[m].value = map'[k]
      <4>1. CASE k = p.key
        BY <1>6, <2>3, <3>1, <3>2, <3>3, <4>1
      <4>2. CASE k # p.key
        <5>1. k \in DOMAIN map /\ map'[k] = map[k]
          BY <2>3, <3>3, <4>2
        <5> QED BY <2>1, <5>1
      <4> QED BY <4>1, <4>2
    <3> QED BY <1>2, <1>5, <3>3 DEF MapIsAsked
  <2> QED BY <1>2, <2>2, <2>3
<1>10. DOMAIN map \subseteq DOMAIN map' /\ (p.key \in Ir4Keys => p.key \in DOMAIN map') /\ \A k \in DOMAIN map : map'[k] = map[k]
  BY <1>2
<1>11. AllAreKnown'
  <2>1. ASSUME NEW m \in 1 .. n, asked[m].key \in Ir4Keys
        PROVE  asked[m].key \in DOMAIN map'
    <3>1. CASE m = n
      BY <1>6, <1>10, <2>1, <3>1
    <3>2. CASE m # n
      <4>1. m \in 1 .. Taken
        BY <1>5, <1>7, <3>2
      <4> QED BY <1>1, <1>10, <2>1, <4>1 DEF FirstInv, AllAreKnown
    <3> QED BY <3>1, <3>2
  <2> QED BY <1>2, <1>5, <2>1 DEF AllAreKnown
<1>12. warnings \subseteq warnings'
  BY <1>2
<1>13. AllAreNamed'
  <2>1. ASSUME NEW m \in 1 .. n
        PROVE  Named(asked[m], i, warnings') \/ Holds(map', asked[m])
    <3>1. CASE m = n
      <4>1. CASE Warning("duplicate", p) \in warnings'
        BY <1>6, <3>1, <4>1, WarningsName
      <4>2. CASE Warning("not_recognized", p) \in warnings'
        BY <1>6, <3>1, <4>2, WarningsName
      <4>3. CASE map' = [k \in DOMAIN map \cup {p.key} |-> IF k = p.key THEN p.value ELSE map[k]]
        BY <1>6, <3>1, <4>3 DEF Holds
      <4> QED BY <1>2, <4>1, <4>2, <4>3
    <3>2. CASE m # n
      <4>1. m \in 1 .. Taken
        BY <1>5, <1>7, <3>2
      <4>2. Named(asked[m], i, warnings) \/ Holds(map, asked[m])
        BY <4>1 DEF FirstInv, AllAreNamed
      <4>3. CASE Named(asked[m], i, warnings)
        BY <1>12, <4>3, MoreIsNamed
      <4>4. CASE Holds(map, asked[m])
        BY <1>10, <4>4 DEF Holds
      <4> QED BY <4>2, <4>3, <4>4
    <3> QED BY <3>1, <3>2
  <2> QED BY <1>2, <1>5, <2>1 DEF AllAreNamed
<1>14. Meant(asked, i, warnings)'
  BY <1>2, <1>12, MoreIsMeant DEF FirstInv
<1> QED BY <1>8, <1>9, <1>11, <1>13, <1>14 DEF FirstInv

\* There are no more pairs.
LEMMA FirstEnds == ASSUME FirstInv, EndPairs PROVE FirstInv'
<1>1. /\ turn = 0 /\ turn' = 1 /\ pairs = <<>> /\ asked' = asked /\ pairs' = pairs /\ map' = map /\ i' = i /\ warnings' = warnings
      /\ first' = first /\ encode' = encode
  BY DEF EndPairs
<1>2. Taken' = Taken
  BY <1>1 DEF Taken
<1>3. Parsing'
  BY <1>1, <1>2 DEF FirstInv, Parsing
<1>4. MapIsAsked' /\ AllAreNamed'
  BY <1>1, <1>2 DEF FirstInv, MapIsAsked, AllAreNamed
<1>5. AllAreKnown'
  BY <1>1 DEF AllAreKnown
<1>6. Meant(asked, i, warnings)'
  BY <1>1 DEF FirstInv
<1> QED BY <1>3, <1>4, <1>5, <1>6 DEF FirstInv

-----------------------------------------------------------------------------
\* One more field.
LEMMA FirstParses == ASSUME FirstInv, ParseField PROVE FirstInv'
<1> DEFINE t == Tries[turn]
           x == map[t.key]
           r == Parse(t, x)
<1>1. turn \in 1 .. 39 /\ turn' = turn + 1 /\ asked' = asked /\ pairs' = pairs /\ first' = first /\ encode' = encode
  BY TriesAre DEF ParseField
<1>2. \/ map' = map /\ i' = i /\ warnings' = warnings
      \/ /\ t.key \in DOMAIN map
         /\ i' = IF i[t.field] = {} THEN [i EXCEPT ![t.field] = r.value] ELSE i
         /\ map' = IF r.supported THEN Without(map, t.key) ELSE map
         /\ warnings' = IF r.warns THEN warnings \cup {Warning("invalid", [key |-> t.key, value |-> map[t.key]])} ELSE warnings
  BY DEF ParseField
<1>3. Taken' = Taken
  BY <1>1 DEF Taken
<1>4. asked \in Seq(Texted) /\ pairs = <<>> /\ first = {} /\ encode = {} /\ i = [f \in Fields |-> i[f]]
  <2>1. turn \in Int /\ turn > 0
    BY <1>1
  <2> QED BY <2>1 DEF FirstInv, Parsing
<1>5. t.field \in Fields /\ DOMAIN i = Fields
  BY <1>1, <1>4, TriesAre
<1>6. /\ \A u \in r.value : r.value = {u} /\ Reads(t.parser, x, u)
      /\ r.supported /\ r.value = {} => x \in Silent
      /\ r.value # {} /\ Discouraged(t.parser, x) => r.warns
  BY ParseIs
<1>7. Len(asked) \in Nat /\ DOMAIN asked = 1 .. Len(asked) /\ Len(pairs) = 0 /\ Taken = Len(asked)
  BY <1>4, LenProperties, EmptySeq DEF Taken
<1> HIDE DEF r
<1>8. Parsing'
  <2>1. i' = [f \in Fields |-> i'[f]]
    BY <1>2, <1>4, <1>5
  <2>2. \A n \in 1 .. Len(pairs) : pairs[n] = asked[Taken + n]
    BY <1>7
  <2>3. turn + 1 \in 0 .. 40 /\ turn + 1 > 0 /\ turn + 1 # 0
    BY <1>1
  <2> QED BY <1>1, <1>3, <1>4, <1>7, <2>1, <2>2, <2>3, EmptySeq DEF Parsing
<1>9. DOMAIN map' \subseteq DOMAIN map /\ \A k \in DOMAIN map' : map'[k] = map[k]
  BY <1>2 DEF Without
<1>10. MapIsAsked'
  BY <1>1, <1>3, <1>9 DEF FirstInv, MapIsAsked
<1>11. AllAreKnown'
  BY <1>1 DEF AllAreKnown
<1>12. /\ warnings \subseteq warnings'
       /\ \A f \in Fields : i[f] # {} => i'[f] = i[f]
  BY <1>2, <1>5
<1>13. \A f \in Fields : i[f] # {} => i'[f] # {}
  BY <1>12
<1>14. AllAreNamed'
  <2>1. ASSUME NEW n \in 1 .. Taken
        PROVE  Named(asked[n], i', warnings') \/ Holds(map', asked[n])
    <3>1. Named(asked[n], i, warnings) \/ Holds(map, asked[n])
      BY DEF FirstInv, AllAreNamed
    <3>2. CASE Named(asked[n], i, warnings)
      BY <1>12, <1>13, <3>2, MoreIsNamed
    <3>3. CASE Holds(map, asked[n]) /\ asked[n].key \in DOMAIN map'
      BY <1>9, <3>3 DEF Holds
    <3>4. CASE Holds(map, asked[n]) /\ asked[n].key \notin DOMAIN map'
      <4>1. r.supported /\ asked[n].key = t.key /\ asked[n].value = x
            /\ i' = IF i[t.field] = {} THEN [i EXCEPT ![t.field] = r.value] ELSE i
        BY <1>2, <3>4 DEF Holds, Without
      <4>2. Feeds(asked[n], t.field)
        BY <1>1, <4>1, TriesAre DEF Feeds
      <4>3. i'[t.field] # {} \/ r.value = {}
        BY <1>5, <4>1
      <4> QED BY <1>5, <1>6, <4>1, <4>2, <4>3 DEF Named
    <3> QED BY <3>1, <3>2, <3>3, <3>4
  <2> QED BY <1>1, <1>3, <2>1 DEF AllAreNamed
<1>15. Meant(asked, i', warnings')
  <2>1. Meant(asked, i, warnings')
    BY <1>12, MoreIsMeant DEF FirstInv
  <2>2. CASE i' = i
    BY <2>1, <2>2
  <2>3. CASE i' # i
    <3>1. /\ t.key \in DOMAIN map /\ i[t.field] = {} /\ i' = [i EXCEPT ![t.field] = r.value]
          /\ warnings' = IF r.warns THEN warnings \cup {Warning("invalid", [key |-> t.key, value |-> map[t.key]])} ELSE warnings
      BY <1>2, <2>3
    <3>2. PICK m \in 1 .. Taken : IsFirst(asked, m, t.key) /\ asked[m].value = x
      BY <3>1 DEF FirstInv, MapIsAsked
    <3>3. m \in DOMAIN asked /\ asked[m].key = t.key /\ asked[m].value = x
      BY <3>2 DEF IsFirst
    <3>4. ASSUME NEW f \in Fields
          PROVE  (\A u, v \in i'[f] : u = v) /\ \A v \in i'[f] : Comes(asked, f, v, warnings')
      <4>1. CASE f = t.field
        <5>1. i'[f] = r.value
          BY <1>5, <3>1, <4>1
        <5>2. \A u, v \in r.value : u = v
          BY <1>6
        <5>3. ASSUME NEW v \in r.value
              PROVE  Comes(asked, f, v, warnings')
          <6>1. Reads(t.parser, x, v)
            BY <1>6, <5>3
          <6>2. Discouraged(t.parser, x) => Warning("invalid", asked[m]) \in warnings'
            <7>1. Warning("invalid", asked[m]) = Warning("invalid", [key |-> t.key, value |-> map[t.key]])
              BY <3>3 DEF Warning
            <7> QED BY <1>6, <3>1, <5>3, <7>1
          <6>3. ComesFrom(asked, f, v, warnings', turn, m)
            BY <3>2, <3>3, <4>1, <6>1, <6>2 DEF ComesFrom
          <6> QED BY <1>1, <3>3, <6>3 DEF Comes
        <5> QED BY <5>1, <5>2, <5>3
      <4>2. CASE f # t.field
        <5>1. i'[f] = i[f]
          BY <1>5, <3>1, <4>2
        <5> QED BY <2>1, <5>1 DEF Meant
      <4> QED BY <4>1, <4>2
    <3> QED BY <3>4 DEF Meant
  <2> QED BY <2>2, <2>3
<1>16. Meant(asked, i, warnings)'
  BY <1>1, <1>15
<1> QED BY <1>8, <1>10, <1>11, <1>14, <1>16 DEF FirstInv

\* What is left is named.
LEMMA FirstDrains == ASSUME FirstInv, Drain PROVE FirstInv'
<1>1. /\ turn = 40 /\ turn' = turn /\ asked' = asked /\ pairs' = pairs /\ map' = <<>> /\ i' = i /\ first' = first /\ encode' = encode
      /\ warnings' = warnings \cup {Warning("not_supported", [key |-> k, value |-> map[k]]) : k \in DOMAIN map}
  BY TriesAre DEF Drain
<1>2. Taken' = Taken
  BY <1>1 DEF Taken
<1>3. Parsing'
  BY <1>1, <1>2 DEF FirstInv, Parsing
<1>4. MapIsAsked' /\ AllAreKnown'
  BY <1>1 DEF MapIsAsked, AllAreKnown
<1>5. ASSUME NEW n \in 1 .. Taken
      PROVE  Named(asked[n], i, warnings')
  <2>1. CASE Named(asked[n], i, warnings)
    BY <1>1, <2>1, MoreIsNamed
  <2>2. CASE Holds(map, asked[n])
    <3> DEFINE o == [key |-> asked[n].key, value |-> map[asked[n].key]]
    <3>1. Warning("not_supported", o) \in warnings'
      BY <1>1, <2>2 DEF Holds
    <3>2. o.key = asked[n].key /\ o.value = asked[n].value
      BY <2>2 DEF Holds
    <3> HIDE DEF o
    <3> QED BY <3>1, <3>2, WarningsName
  <2> QED BY <2>1, <2>2 DEF FirstInv, AllAreNamed
<1>6. AllAreNamed'
  BY <1>1, <1>2, <1>5 DEF AllAreNamed
<1>7. Meant(asked, i, warnings)'
  BY <1>1, MoreIsMeant DEF FirstInv
<1> QED BY <1>3, <1>4, <1>6, <1>7 DEF FirstInv

-----------------------------------------------------------------------------
\* What a parse has come to.
Outcome(j, w) ==
  /\ asked \in Seq(Texted)
  /\ j = [f \in Fields |-> j[f]] /\ Meant(asked, j, w)
  /\ \A n \in DOMAIN asked : Named(asked[n], j, w)

\* What the first parse has come to, all of the query being dealt with.
LEMMA FirstComesTo == ASSUME FirstInv, Parsed PROVE Outcome(i, warnings)
<1>1. pairs = <<>> /\ map = <<>> /\ asked \in Seq(Texted) /\ i = [f \in Fields |-> i[f]] /\ turn = 40
  BY TriesAre DEF FirstInv, Parsing, Parsed
<1>2. Len(asked) \in Nat /\ DOMAIN asked = 1 .. Len(asked) /\ Len(pairs) = 0 /\ Taken = Len(asked)
  BY <1>1, LenProperties, EmptySeq DEF Taken
<1>3. \A n \in DOMAIN asked : Named(asked[n], i, warnings)
  BY <1>1, <1>2 DEF FirstInv, AllAreNamed, Holds
<1> QED BY <1>1, <1>3 DEF Outcome, FirstInv

\* It is one value of a field at most, one that can be read.
LEMMA OutcomesAre ==
  ASSUME NEW j, NEW w, Outcome(j, w), NEW f \in Fields
  PROVE  /\ DOMAIN j = Fields
         /\ \A u, v \in j[f] : u = v
         /\ \A v \in j[f] : IsValue(f, v) /\ Comes(asked, f, v, w)
<1>1. DOMAIN j = Fields
  BY DEF Outcome
<1>2. ASSUME NEW v \in j[f]
      PROVE  IsValue(f, v) /\ Comes(asked, f, v, w)
  <2>1. Comes(asked, f, v, w)
    BY <1>2 DEF Outcome, Meant
  <2>2. PICK n \in 1 .. 39, m \in DOMAIN asked : ComesFrom(asked, f, v, w, n, m)
    BY <2>1 DEF Comes
  <2> QED BY <2>1, <2>2 DEF IsValue, ComesFrom
<1> QED BY <1>1, <1>2 DEF Outcome, Meant

-----------------------------------------------------------------------------
\* What is written of the settings.
Writes(j, f, s) == \E v \in j[f] : s \in Strings(f, v)
Line(f, s) == [key |-> KeyOf(f), value |-> s]
Written(j) == UNION {UNION {{[key |-> KeyOf(f), value |-> s] : s \in Strings(f, v)} : v \in j[f]} : f \in Fields}

\* The lines are those of the settings, and all of them.
LEMMA WrittenAre ==
  ASSUME NEW j
  PROVE  /\ \A p \in Written(j) : \E f \in Fields : \E s : Writes(j, f, s) /\ p = Line(f, s)
         /\ \A f \in Fields : \A s : Writes(j, f, s) => Line(f, s) \in Written(j)
  BY DEF Written, Writes, Line

\* One text of a field at most.
LEMMA WritesOne ==
  ASSUME NEW j, NEW w, Outcome(j, w), NEW f \in Fields, NEW s, NEW u, Writes(j, f, s), Writes(j, f, u)
  PROVE  s = u
<1>1. PICK v \in j[f] : s \in Strings(f, v)
  BY DEF Writes
<1>2. PICK x \in j[f] : u \in Strings(f, x)
  BY DEF Writes
<1>3. x = v
  BY OutcomesAre
<1> QED BY <1>1, <1>2, <1>3, OneString

\* There are as many fields as there are ways to try them at most, and as many lines as
\* there are fields at most.
LEMMA LinesAreFinite ==
  ASSUME NEW j, NEW w, Outcome(j, w)
  PROVE  IsFiniteSet(Written(j))
<1>1. IsFiniteSet(Fields)
  <2> DEFINE g == [n \in 1 .. 39 |-> Tries[n].field]
  <2>1. g \in Surjection(1 .. 39, Fields)
    BY TriesAre DEF Surjection
  <2>2. IsFiniteSet(1 .. 39)
    <3>1. 1 \in Int /\ 39 \in Int
      OBVIOUS
    <3>2. \A a, b \in Int : IsFiniteSet(a .. b)
      BY FS_Interval
    <3> QED BY <3>1, <3>2
  <2> HIDE DEF g
  <2> QED BY <2>1, <2>2, FS_Surjection
<1> DEFINE FieldOf(p) == CHOOSE f \in Fields : KeyOf(f) = p.key
           h == [p \in Written(j) |-> FieldOf(p)]
<1>2. ASSUME NEW p \in Written(j)
      PROVE  FieldOf(p) \in Fields /\ \E s : Writes(j, FieldOf(p), s) /\ p = Line(FieldOf(p), s)
  <2>1. PICK f \in Fields : \E s : Writes(j, f, s) /\ p = Line(f, s)
    BY WrittenAre
  <2>2. PICK s : Writes(j, f, s) /\ p = Line(f, s)
    BY <2>1
  <2>3. p.key = KeyOf(f)
    BY <2>2 DEF Line
  <2>4. FieldOf(p) \in Fields /\ KeyOf(FieldOf(p)) = KeyOf(f)
    BY <2>3
  <2>5. FieldOf(p) = f
    BY <2>4, KeysAreOf
  <2> QED BY <2>2, <2>5
<1>3. ASSUME NEW p \in Written(j), NEW q \in Written(j), FieldOf(p) = FieldOf(q)
      PROVE  p = q
  <2>1. PICK s : Writes(j, FieldOf(p), s) /\ p = Line(FieldOf(p), s)
    BY <1>2
  <2>2. PICK u : Writes(j, FieldOf(q), u) /\ q = Line(FieldOf(q), u)
    BY <1>2
  <2>3. FieldOf(p) \in Fields
    BY <1>2
  <2> HIDE DEF FieldOf
  <2>4. s = u
    BY <1>3, <2>1, <2>2, <2>3, WritesOne
  <2> QED BY <1>3, <2>1, <2>2, <2>4
<1> HIDE DEF FieldOf
<1>4. h \in Injection(Written(j), Fields)
  <2>1. h \in [Written(j) -> Fields]
    BY <1>2
  <2>2. \A p, q \in Written(j) : h[p] = h[q] => p = q
    BY <1>3
  <2> HIDE DEF h
  <2>3. \A p, q \in DOMAIN h : h[p] = h[q] => p = q
    BY <2>1, <2>2
  <2> QED BY <2>1, <2>3 DEF Injection, IsInjective
<1> HIDE DEF h
<1> QED BY <1>1, <1>4, FS_Injection

\* The lines of a finite set, one after the other.
LEMMA SetToSeqIs ==
  ASSUME NEW S, IsFiniteSet(S)
  PROVE  LET s == SetToSeq(S) IN
         /\ s \in Seq(S) /\ Len(s) \in Nat /\ DOMAIN s = 1 .. Len(s)
         /\ \A a, b \in 1 .. Len(s) : s[a] = s[b] => a = b
         /\ \A x \in S : \E a \in 1 .. Len(s) : s[a] = x
<1> DEFINE n == Cardinality(S)
           s == SetToSeq(S)
<1>1. n \in Nat /\ ExistsBijection(1 .. n, S)
  BY FS_CardinalityType
<1>2. PICK g : g \in Bijection(1 .. n, S)
  BY <1>1 DEF ExistsBijection
<1>3. g \in [1 .. n -> S] /\ IsInjective(g)
  BY <1>2 DEF Bijection, Injection
<1>4. s \in [1 .. n -> S] /\ IsInjective(s)
  BY <1>3 DEF SetToSeq
<1> HIDE DEF n, s
<1>5. s \in Seq(S) /\ Len(s) = n
  BY <1>1, <1>4
<1>6. s \in Injection(1 .. n, S)
  BY <1>4 DEF Injection
<1>7. IsFiniteSet(1 .. n) /\ Cardinality(1 .. n) = n
  BY <1>1, FS_Interval
<1>8. s \in Surjection(1 .. n, S)
  BY <1>6, <1>7, FS_Injection DEF n
<1>9. \A x \in S : \E a \in 1 .. n : s[a] = x
  BY <1>8 DEF Surjection
<1>10. \A a, b \in 1 .. n : s[a] = s[b] => a = b
  BY <1>4 DEF IsInjective
<1>11. DOMAIN s = 1 .. n
  BY <1>4
<1> QED BY <1>1, <1>5, <1>9, <1>10, <1>11 DEF s

-----------------------------------------------------------------------------
\* While the query of the command node is parsed: what is not dealt with yet is in the
\* pairs or in the map, and is what was written, once.
Done(n, f) == \E k \in 1 .. 39 : k < n /\ Tries[k].field = f /\ Tries[k].key = KeyOf(f)
Again(j, f) == IF f \in {"flip", "sflip"} THEN FlipsOf(j[f]) ELSE j[f]
Reading(r) ==
  /\ first = {r} /\ Outcome(r.i, r.warnings)
  /\ pairs \in Seq(Written(r.i)) /\ turn \in 0 .. 40 /\ (turn > 0 => pairs = <<>>)
  /\ i = [f \in Fields |-> i[f]]
Distinct ==
  /\ \A a, b \in 1 .. Len(pairs) : pairs[a].key = pairs[b].key => a = b
  /\ \A a \in 1 .. Len(pairs) : pairs[a].key \notin DOMAIN map
MapIsWritten(r) == \A k \in DOMAIN map : \E f \in Fields : ~Done(turn, f) /\ k = KeyOf(f) /\ Writes(r.i, f, map[k])
NoneIsLost(r) ==
  \A f \in Fields : \A s : ~Done(turn, f) /\ Writes(r.i, f, s) =>
    \/ \E a \in 1 .. Len(pairs) : pairs[a] = Line(f, s)
    \/ KeyOf(f) \in DOMAIN map /\ map[KeyOf(f)] = s
FieldsAreRead(r) ==
  \A f \in Fields : IF Done(turn, f) THEN f # "anchor" => i[f] = Again(r.i, f) ELSE i[f] = {}
FewWarnings(r) == warnings \subseteq {w \in r.warnings : w.key = "a.balancewhite"}
Chosen ==
  \A e \in encode :
    /\ turn = 40
    /\ \E opaque \in BOOLEAN : \E format \in FormatOf(i, opaque) :
         e = [opaque |-> opaque, hints |-> Hints(EncoderPreset(i, format))]
SecondInv(r) ==
  Reading(r) /\ Distinct /\ MapIsWritten(r) /\ NoneIsLost(r) /\ FieldsAreRead(r) /\ FewWarnings(r) /\ Chosen

\* What is not done is done by and by.
LEMMA DoneGoesOn ==
  /\ \A f : ~Done(0, f) /\ ~Done(1, f)
  /\ \A n \in 1 .. 39 : \A f : Done(n + 1, f) <=> Done(n, f) \/ (Tries[n].field = f /\ Tries[n].key = KeyOf(f))
  /\ \A f \in Fields : Done(40, f)
<1>1. \A f : ~Done(0, f) /\ ~Done(1, f)
  BY DEF Done
<1>2. ASSUME NEW n \in 1 .. 39, NEW f
      PROVE  Done(n + 1, f) <=> Done(n, f) \/ (Tries[n].field = f /\ Tries[n].key = KeyOf(f))
  <2>1. \A k \in 1 .. 39 : k < n + 1 <=> k < n \/ k = n
    OBVIOUS
  <2> QED BY <2>1 DEF Done
<1>3. \A f \in Fields : Done(40, f)
  <2>1. \A k \in 1 .. 39 : k < 40
    OBVIOUS
  <2> QED BY <2>1, KeysAreOf DEF Done
<1> QED BY <1>1, <1>2, <1>3

\* The second parse begins where the first has ended.
LEMMA SecondBegins ==
  ASSUME FirstInv, Translate
  PROVE  \E r : SecondInv(r)'
<1>0. PICK r : r = [i |-> i, warnings |-> warnings]
  OBVIOUS
<1>1. /\ Parsed /\ first' = {r} /\ pairs' = ToPairs(i) /\ map' = <<>> /\ turn' = 0 /\ i' = NoInstructions /\ warnings' = {}
      /\ asked' = asked /\ encode' = encode
  BY <1>0 DEF Translate
<1>2. Outcome(r.i, r.warnings) /\ r.i = i
  BY <1>0, <1>1, FirstComesTo
<1>3. encode = {}
  BY DEF FirstInv, Parsing
<1>4. ToPairs(i) = SetToSeq(Written(i))
  BY DEF ToPairs, Written
<1> DEFINE s == ToPairs(i)
           W == Written(i)
<1>5. IsFiniteSet(W)
  BY <1>2, LinesAreFinite
<1>6. /\ s \in Seq(W) /\ Len(s) \in Nat /\ DOMAIN s = 1 .. Len(s)
      /\ \A a, b \in 1 .. Len(s) : s[a] = s[b] => a = b
      /\ \A x \in W : \E a \in 1 .. Len(s) : s[a] = x
  <2> HIDE DEF W
  <2> QED BY <1>4, <1>5, SetToSeqIs DEF W
<1>7. \A a \in 1 .. Len(s) : s[a] \in W
  <2> HIDE DEF s, W
  <2> QED BY <1>6, ElementOfSeq
<1> HIDE DEF s
<1>8. DOMAIN NoInstructions = Fields /\ \A f \in Fields : NoInstructions[f] = {}
  BY DEF NoInstructions
<1>9. Reading(r)'
  <2>1. Outcome(r.i, r.warnings)'
    BY <1>1, <1>2 DEF Outcome
  <2>2. NoInstructions = [f \in Fields |-> NoInstructions[f]]
    BY DEF NoInstructions
  <2>3. pairs' \in Seq(Written(r.i)) /\ turn' \in 0 .. 40 /\ ~(turn' > 0)
    BY <1>1, <1>2, <1>6 DEF s
  <2> QED BY <1>1, <2>1, <2>2, <2>3 DEF Reading
<1>10. \A a, b \in 1 .. Len(s) : s[a].key = s[b].key => a = b
  <2> SUFFICES ASSUME NEW a \in 1 .. Len(s), NEW b \in 1 .. Len(s), s[a].key = s[b].key
               PROVE  a = b
    OBVIOUS
  <2>1. PICK f \in Fields : \E x : Writes(i, f, x) /\ s[a] = Line(f, x)
    BY <1>7, WrittenAre
  <2>2. PICK x : Writes(i, f, x) /\ s[a] = Line(f, x)
    BY <2>1
  <2>3. PICK g \in Fields : \E y : Writes(i, g, y) /\ s[b] = Line(g, y)
    BY <1>7, WrittenAre
  <2>4. PICK y : Writes(i, g, y) /\ s[b] = Line(g, y)
    BY <2>3
  <2>5. KeyOf(f) = KeyOf(g)
    BY <2>2, <2>4 DEF Line
  <2>6. f = g
    BY <2>5, KeysAreOf
  <2>7. x = y
    BY <1>2, <2>2, <2>4, <2>6, WritesOne
  <2> QED BY <1>6, <2>2, <2>4, <2>6, <2>7
<1>11. Distinct'
  <2>1. DOMAIN map' = {}
    BY <1>1
  <2> QED BY <1>1, <1>10, <2>1 DEF Distinct, s
<1>12. MapIsWritten(r)' /\ FewWarnings(r)' /\ Chosen'
  BY <1>1, <1>3 DEF MapIsWritten, FewWarnings, Chosen
<1>13. NoneIsLost(r)'
  <2>1. ASSUME NEW f \in Fields, NEW x, Writes(i, f, x)
        PROVE  \E a \in 1 .. Len(s) : s[a] = Line(f, x)
    BY <1>6, <2>1, WrittenAre
  <2>2. pairs' = s
    BY <1>1 DEF s
  <2>3. ASSUME NEW f \in Fields, NEW x, Writes(r.i, f, x)
        PROVE  \E a \in 1 .. Len(pairs') : pairs'[a] = Line(f, x)
    BY <1>2, <2>1, <2>2, <2>3
  <2> QED BY <2>3 DEF NoneIsLost
<1>14. FieldsAreRead(r)'
  BY <1>1, <1>8, DoneGoesOn DEF FieldsAreRead
<1> QED BY <1>9, <1>11, <1>12, <1>13, <1>14 DEF SecondInv

\* One more pair of those written: no key was there before.
LEMMA SecondTakes == ASSUME NEW r, SecondInv(r), TakePair PROVE SecondInv(r)'
<1> DEFINE p == Head(pairs)
<1>1. /\ first = {r} /\ Outcome(r.i, r.warnings) /\ pairs \in Seq(Written(r.i)) /\ turn = 0 /\ pairs # <<>>
      /\ i = [f \in Fields |-> i[f]]
      /\ \A a, b \in 1 .. Len(pairs) : pairs[a].key = pairs[b].key => a = b
      /\ \A a \in 1 .. Len(pairs) : pairs[a].key \notin DOMAIN map
  BY DEF SecondInv, Reading, Distinct, TakePair
<1>2. /\ p \in Written(r.i) /\ Len(pairs) \in Nat \ {0} /\ p = pairs[1]
      /\ Tail(pairs) \in Seq(Written(r.i)) /\ Len(Tail(pairs)) = Len(pairs) - 1
      /\ \A k \in 1 .. Len(Tail(pairs)) : Tail(pairs)[k] = pairs[k + 1]
  BY <1>1, EmptySeq, LenProperties, HeadTailProperties
<1>3. PICK f \in Fields : \E s : Writes(r.i, f, s) /\ p = Line(f, s)
  BY <1>2, WrittenAre
<1>4. PICK s : Writes(r.i, f, s) /\ p = Line(f, s)
  BY <1>3
<1>5. p.key = KeyOf(f) /\ p.value = s /\ KeyOf(f) \in Ir4Keys
  BY <1>4, KeysAreOf DEF Line
<1>6. p.key \notin DOMAIN map
  BY <1>1, <1>2
<1>7. /\ map' = [k \in DOMAIN map \cup {p.key} |-> IF k = p.key THEN p.value ELSE map[k]]
      /\ pairs' = Tail(pairs) /\ asked' = asked /\ turn' = turn /\ i' = i /\ first' = first /\ encode' = encode /\ warnings' = warnings
  BY <1>5, <1>6 DEF TakePair
<1> HIDE DEF p
<1>8. Reading(r)'
  <2>1. Outcome(r.i, r.warnings)'
    BY <1>1, <1>7 DEF Outcome
  <2> QED BY <1>1, <1>2, <1>7, <2>1 DEF Reading
<1>9. /\ DOMAIN map' = DOMAIN map \cup {KeyOf(f)} /\ map'[KeyOf(f)] = s
      /\ \A k \in DOMAIN map : map'[k] = map[k]
  BY <1>5, <1>6, <1>7
<1>10. \A k \in 1 .. Len(Tail(pairs)) : k + 1 \in 1 .. Len(pairs)
  BY <1>2
<1>11. Distinct'
  <2>1. \A a, b \in 1 .. Len(Tail(pairs)) : Tail(pairs)[a].key = Tail(pairs)[b].key => a = b
    <3> SUFFICES ASSUME NEW a \in 1 .. Len(Tail(pairs)), NEW b \in 1 .. Len(Tail(pairs)), Tail(pairs)[a].key = Tail(pairs)[b].key
                 PROVE  a = b
      OBVIOUS
    <3>1. pairs[a + 1].key = pairs[b + 1].key
      BY <1>2
    <3>2. a + 1 = b + 1
      BY <1>1, <1>10, <3>1
    <3> QED BY <1>2, <3>2
  <2>2. ASSUME NEW a \in 1 .. Len(Tail(pairs)), Tail(pairs)[a].key \in DOMAIN map'
        PROVE  FALSE
    <3>1. Tail(pairs)[a] = pairs[a + 1] /\ a + 1 \in 1 .. Len(pairs) /\ a + 1 # 1 /\ 1 \in 1 .. Len(pairs)
      BY <1>2, <1>10
    <3>2. pairs[a + 1].key # pairs[1].key
      BY <1>1, <3>1
    <3> QED BY <1>1, <1>2, <1>5, <1>9, <2>2, <3>1, <3>2
  <2> QED BY <1>7, <2>1, <2>2 DEF Distinct
<1>12. MapIsWritten(r)'
  <2>1. ASSUME NEW k \in DOMAIN map'
        PROVE  \E g \in Fields : ~Done(turn, g) /\ k = KeyOf(g) /\ Writes(r.i, g, map'[k])
    <3>1. CASE k = KeyOf(f)
      BY <1>1, <1>4, <1>9, <3>1, DoneGoesOn
    <3>2. CASE k # KeyOf(f)
      <4>1. k \in DOMAIN map /\ map'[k] = map[k]
        BY <1>9, <2>1, <3>2
      <4> QED BY <4>1 DEF SecondInv, MapIsWritten
    <3> QED BY <3>1, <3>2
  <2> QED BY <1>7, <2>1 DEF MapIsWritten
<1>13. NoneIsLost(r)'
  <2>1. ASSUME NEW g \in Fields, NEW u, ~Done(turn, g), Writes(r.i, g, u)
        PROVE  \/ \E a \in 1 .. Len(Tail(pairs)) : Tail(pairs)[a] = Line(g, u)
               \/ KeyOf(g) \in DOMAIN map' /\ map'[KeyOf(g)] = u
    <3>1. CASE KeyOf(g) \in DOMAIN map /\ map[KeyOf(g)] = u
      BY <1>9, <3>1
    <3>2. ASSUME NEW a \in 1 .. Len(pairs), pairs[a] = Line(g, u)
          PROVE  \/ \E b \in 1 .. Len(Tail(pairs)) : Tail(pairs)[b] = Line(g, u)
                 \/ KeyOf(g) \in DOMAIN map' /\ map'[KeyOf(g)] = u
      <4>1. CASE a = 1
        <5>1. KeyOf(g) = KeyOf(f) /\ u = s
          BY <1>2, <1>5, <3>2, <4>1 DEF Line
        <5> QED BY <1>9, <5>1
      <4>2. CASE a # 1
        <5>1. a - 1 \in 1 .. Len(Tail(pairs)) /\ Tail(pairs)[a - 1] = pairs[a]
          BY <1>2, <4>2
        <5> QED BY <3>2, <5>1
      <4> QED BY <4>1, <4>2
    <3> QED BY <2>1, <3>1, <3>2 DEF SecondInv, NoneIsLost
  <2> QED BY <1>7, <2>1 DEF NoneIsLost
<1>14. FieldsAreRead(r)' /\ FewWarnings(r)' /\ Chosen'
  BY <1>7 DEF SecondInv, FieldsAreRead, FewWarnings, Chosen
<1> QED BY <1>8, <1>11, <1>12, <1>13, <1>14 DEF SecondInv

\* There are no more of them.
LEMMA SecondEnds == ASSUME NEW r, SecondInv(r), EndPairs PROVE SecondInv(r)'
<1>1. /\ turn = 0 /\ turn' = 1 /\ pairs = <<>> /\ asked' = asked /\ pairs' = pairs /\ map' = map /\ i' = i /\ warnings' = warnings
      /\ first' = first /\ encode' = encode
  BY DEF EndPairs
<1>2. \A f : ~Done(turn, f) /\ ~Done(turn', f)
  BY <1>1, DoneGoesOn
<1>3. Reading(r)'
  <2>1. Outcome(r.i, r.warnings)'
    BY <1>1 DEF SecondInv, Reading, Outcome
  <2> QED BY <1>1, <2>1 DEF SecondInv, Reading
<1>4. Distinct' /\ FewWarnings(r)'
  BY <1>1 DEF SecondInv, Distinct, FewWarnings
<1>5. MapIsWritten(r)' /\ FieldsAreRead(r)'
  BY <1>1, <1>2 DEF SecondInv, MapIsWritten, FieldsAreRead
<1>6. NoneIsLost(r)'
  BY <1>1, <1>2 DEF SecondInv, NoneIsLost
<1>7. Chosen'
  BY <1>1 DEF SecondInv, Chosen
<1> QED BY <1>3, <1>4, <1>5, <1>6, <1>7 DEF SecondInv

\* Nothing is left in the end.
LEMMA SecondDrains == ASSUME NEW r, SecondInv(r), Drain PROVE SecondInv(r)'
<1>1. /\ turn = 40 /\ turn' = turn /\ asked' = asked /\ pairs' = pairs /\ map' = <<>> /\ i' = i /\ first' = first /\ encode' = encode
      /\ warnings' = warnings \cup {Warning("not_supported", [key |-> k, value |-> map[k]]) : k \in DOMAIN map}
  BY TriesAre DEF Drain
<1>2. \A f \in Fields : Done(turn, f)
  BY <1>1, DoneGoesOn
<1>3. DOMAIN map = {}
  BY <1>2 DEF SecondInv, MapIsWritten
<1>4. warnings' = warnings /\ DOMAIN map' = {}
  BY <1>1, <1>3
<1>5. Reading(r)'
  <2>1. Outcome(r.i, r.warnings)'
    BY <1>1 DEF SecondInv, Reading, Outcome
  <2> QED BY <1>1, <2>1 DEF SecondInv, Reading
<1>6. Distinct'
  BY <1>1, <1>4 DEF SecondInv, Distinct
<1>7. MapIsWritten(r)' /\ NoneIsLost(r)'
  BY <1>1, <1>2, <1>4 DEF MapIsWritten, NoneIsLost
<1>8. FieldsAreRead(r)' /\ FewWarnings(r)' /\ Chosen'
  BY <1>1, <1>4 DEF SecondInv, FieldsAreRead, FewWarnings, Chosen
<1> QED BY <1>5, <1>6, <1>7, <1>8 DEF SecondInv

\* The encoder is chosen of what was read.
LEMMA SecondChooses == ASSUME NEW r, SecondInv(r), ChooseEncoder PROVE SecondInv(r)'
<1>1. /\ turn = 40 /\ turn' = turn /\ asked' = asked /\ pairs' = pairs /\ map' = map /\ i' = i /\ first' = first /\ warnings' = warnings
      /\ \E opaque \in BOOLEAN : \E format \in FormatOf(i, opaque) :
           encode' = {[opaque |-> opaque, hints |-> Hints(EncoderPreset(i, format))]}
  BY TriesAre DEF ChooseEncoder, Parsed
<1>2. Reading(r)'
  <2>1. Outcome(r.i, r.warnings)'
    BY <1>1 DEF SecondInv, Reading, Outcome
  <2> QED BY <1>1, <2>1 DEF SecondInv, Reading
<1>3. Distinct' /\ MapIsWritten(r)' /\ NoneIsLost(r)' /\ FieldsAreRead(r)' /\ FewWarnings(r)'
  BY <1>1 DEF SecondInv, Distinct, MapIsWritten, NoneIsLost, FieldsAreRead, FewWarnings
<1>4. Chosen'
  BY <1>1 DEF Chosen
<1> QED BY <1>2, <1>3, <1>4 DEF SecondInv

-----------------------------------------------------------------------------
\* What is written of a flip is nothing only if it does not turn anything on.
LEMMA NothingIsWritten ==
  ASSUME NEW j, NEW w, Outcome(j, w), NEW f \in Fields, \A s : ~Writes(j, f, s)
  PROVE  Again(j, f) = {}
<1>1. CASE j[f] = {}
  BY <1>1 DEF Again, FlipsOf
<1>2. CASE j[f] # {}
  <2>1. PICK v : v \in j[f]
    BY <1>2
  <2>2. j[f] = {v} /\ IsValue(f, v)
    BY <2>1, OutcomesAre
  <2>3. Strings(f, v) = {}
    BY <2>1 DEF Writes
  <2>4. f \in {"flip", "sflip"}
    BY <2>3, OneString
  <2>5. FlipString(v) = {}
    BY <2>3, <2>4, StringsAre
  <2>6. PICK n \in 1 .. 39 : Tries[n].field = f /\ \E x : Reads(Tries[n].parser, x, v)
    BY <2>2 DEF IsValue
  <2>7. \E x : Reads("flip", x, v)
    BY <2>4, <2>6, ParsersAre
  <2>8. v = <<FALSE, FALSE>>
    BY <2>5, <2>7, FlipIsRead
  <2> QED BY <2>2, <2>4, <2>8 DEF Again, FlipsOf
<1> QED BY <1>1, <1>2

\* What is written is what is read again, and if it is warned of then it was before.
LEMMA WhatIsReadAgain ==
  ASSUME NEW j, NEW w, Outcome(j, w), NEW n \in 1 .. 39, Tries[n].key = KeyOf(Tries[n].field), NEW s, Writes(j, Tries[n].field, s)
  PROVE  LET r == Parse(Tries[n], s) IN
         /\ r.supported
         /\ Tries[n].field # "anchor" => r.value = Again(j, Tries[n].field)
         /\ r.warns => Tries[n].key = "a.balancewhite" /\ Warning("invalid", [key |-> Tries[n].key, value |-> s]) \in w
<1> DEFINE t == Tries[n]
           f == t.field
           p == t.parser
           r == Parse(t, s)
<1>1. f \in Fields
  BY TriesAre
<1>2. PICK v \in j[f] : s \in Strings(f, v)
  BY DEF Writes
<1>3. j[f] = {v} /\ IsValue(f, v) /\ Comes(asked, f, v, w)
  BY <1>1, <1>2, OutcomesAre
<1>4. /\ s \in DOMAIN Accepted(p) /\ s # "" /\ ~Inexact(p, s)
      /\ f # "anchor" => Reads(p, s, v)
      /\ Discouraged(p, s) => p = "balance" /\ s = v
  BY <1>2, <1>3, WrittenAgain
<1>5. r.supported /\ (r.warns => Discouraged(p, s)) /\ \A u : Reads(p, s, u) => r.value = {u}
  BY <1>4, ParseIs
<1>6. f # "anchor" => r.value = Again(j, f)
  <2>1. CASE f \in {"flip", "sflip"}
    <3>1. p = "flip" /\ s \in FlipString(v)
      BY <1>2, <2>1, ParsersAre, StringsAre
    <3>2. Reads("flip", s, v)
      BY <1>4, <2>1, <3>1
    <3>3. v # <<FALSE, FALSE>>
      BY <3>1, <3>2, FlipIsRead
    <3>4. Again(j, f) = {v}
      BY <1>3, <2>1, <3>3 DEF Again, FlipsOf
    <3> QED BY <1>4, <1>5, <3>4
  <2>2. CASE f \notin {"flip", "sflip"}
    BY <1>3, <1>4, <1>5, <2>2 DEF Again
  <2> QED BY <2>1, <2>2
<1>7. r.warns => t.key = "a.balancewhite" /\ Warning("invalid", [key |-> t.key, value |-> s]) \in w
  <2> SUFFICES ASSUME r.warns
               PROVE  t.key = "a.balancewhite" /\ Warning("invalid", [key |-> t.key, value |-> s]) \in w
    OBVIOUS
  <2>1. Discouraged(p, s) /\ p = "balance" /\ s = v
    BY <1>4, <1>5
  <2>2. f = "a_balance_white" /\ t.key = "a.balancewhite"
    BY <2>1, ParsersAre, KeysAreFor
  <2>3. PICK k \in 1 .. 39, m \in DOMAIN asked : ComesFrom(asked, f, v, w, k, m)
    BY <1>3 DEF Comes
  <2>4. /\ Tries[k].field = f /\ asked[m].key = Tries[k].key /\ Reads(Tries[k].parser, asked[m].value, v)
        /\ Discouraged(Tries[k].parser, asked[m].value) => Warning("invalid", asked[m]) \in w
    BY <2>3 DEF ComesFrom, IsFirst
  <2>5. Tries[k].parser = "balance" /\ Tries[k].key = "a.balancewhite"
    BY <2>2, <2>4, ParsersAre, KeysAreFor
  <2>6. asked[m].value = v
    <3>1. v \in {"simple", "gimp"}
      BY <2>1 DEF Discouraged
    <3>2. Accepted("balance") = Balances
      BY DEF Accepted
    <3>3. DOMAIN Balances = {"true", "area", "simple", "gimp"} /\ Balances["true"] = "area" /\ Balances["area"] = "area"
          /\ Balances["simple"] = "simple" /\ Balances["gimp"] = "gimp"
      BY DEF Balances
    <3>4. asked[m].value \in DOMAIN Balances /\ v = Balances[asked[m].value]
      BY <2>4, <2>5, <3>2 DEF Reads
    <3> QED BY <3>1, <3>3, <3>4
  <2>7. Warning("invalid", asked[m]) \in w
    BY <2>1, <2>4, <2>5, <2>6
  <2>8. Warning("invalid", asked[m]) = Warning("invalid", [key |-> t.key, value |-> s])
    BY <2>1, <2>2, <2>4, <2>5, <2>6 DEF Warning
  <2> QED BY <2>2, <2>7, <2>8
<1> QED BY <1>5, <1>6, <1>7

\* One more field.
LEMMA SecondParses == ASSUME NEW r, SecondInv(r), ParseField PROVE SecondInv(r)'
<1> DEFINE t == Tries[turn]
           x == map[t.key]
           y == Parse(t, x)
<1>1. turn \in 1 .. 39 /\ turn' = turn + 1 /\ asked' = asked /\ pairs' = pairs /\ first' = first /\ encode' = encode
  BY TriesAre DEF ParseField
<1>2. \/ map' = map /\ i' = i /\ warnings' = warnings /\ (t.key \notin DOMAIN map \/ i[t.field] # {})
      \/ /\ t.key \in DOMAIN map
         /\ i' = IF i[t.field] = {} THEN [i EXCEPT ![t.field] = y.value] ELSE i
         /\ map' = IF y.supported THEN Without(map, t.key) ELSE map
         /\ warnings' = IF y.warns THEN warnings \cup {Warning("invalid", [key |-> t.key, value |-> map[t.key]])} ELSE warnings
  BY DEF ParseField
<1>3. first = {r} /\ Outcome(r.i, r.warnings) /\ pairs = <<>> /\ i = [f \in Fields |-> i[f]] /\ Len(pairs) = 0
  <2>1. turn \in Int /\ turn > 0
    BY <1>1
  <2> QED BY <2>1 DEF SecondInv, Reading
<1>4. t.field \in Fields /\ DOMAIN i = Fields
  BY <1>1, <1>3, TriesAre
<1>5. encode = {}
  <2>1. turn # 40
    BY <1>1
  <2> QED BY <2>1 DEF SecondInv, Chosen
<1>6. \A f : Done(turn', f) <=> Done(turn, f) \/ (t.field = f /\ t.key = KeyOf(f))
  BY <1>1, DoneGoesOn
<1>7. Reading(r)'
  <2>1. i' = [f \in Fields |-> i'[f]]
    BY <1>2, <1>3, <1>4
  <2>2. Outcome(r.i, r.warnings)'
    BY <1>1, <1>3 DEF Outcome
  <2>3. turn + 1 \in 0 .. 40
    BY <1>1
  <2> QED BY <1>1, <1>3, <2>1, <2>2, <2>3 DEF SecondInv, Reading
<1>8. DOMAIN map' \subseteq DOMAIN map /\ \A k \in DOMAIN map' : map'[k] = map[k]
  BY <1>2 DEF Without
<1>9. Distinct'
  BY <1>1, <1>3, <1>8 DEF SecondInv, Distinct
<1>10. Chosen'
  BY <1>1, <1>5 DEF Chosen
\* Nothing is to be done under another key than the one that is written.
<1>11. CASE t.key # KeyOf(t.field) \/ Done(turn, t.field)
  <2>1. \A f \in Fields : Done(turn', f) <=> Done(turn, f)
    BY <1>6, <1>11
  <2>2. map' = map /\ i' = i /\ warnings' = warnings
    <3>1. CASE t.key \notin DOMAIN map
      BY <1>2, <3>1
    <3>2. CASE t.key \in DOMAIN map
      <4>1. PICK f \in Fields : ~Done(turn, f) /\ t.key = KeyOf(f) /\ Writes(r.i, f, x)
        BY <3>2 DEF SecondInv, MapIsWritten
      <4>2. f # t.field
        BY <1>11, <4>1
      <4>3. PICK n \in 1 .. 39 : Tries[n].field = f /\ Tries[n].key = KeyOf(f)
        BY KeysAreOf
      <4>4. t.key = "crop" /\ Tries[n].key = "crop"
        BY <1>1, <4>1, <4>2, <4>3, KeysAreFor
      <4>5. t.field # "crop" => t.field = "mode" /\ t.parser = "auto"
        BY <1>1, <4>4, KeysAreFor
      <4>6. f = "crop"
        <5>1. CASE f = "mode"
          BY <4>1, <4>4, <5>1, KeysAreOf
        <5>2. CASE f # "mode"
          BY <4>3, <4>4, <5>2, KeysAreFor
        <5> QED BY <5>1, <5>2
      <4>7. t.field = "mode" /\ t.parser = "auto"
        BY <4>2, <4>5, <4>6
      <4>8. PICK v \in r.i[f] : x \in Strings(f, v)
        BY <4>1 DEF Writes
      <4>9. IsValue(f, v)
        BY <1>3, <4>8, OutcomesAre
      <4>10. x \notin DOMAIN Accepted("auto") /\ x # ""
        <5>1. Tries[n].key = KeyOf(Tries[n].field) /\ IsValue(Tries[n].field, v) /\ x \in Strings(Tries[n].field, v)
              /\ Tries[n].field = "crop"
          BY <4>3, <4>6, <4>8, <4>9
        <5> HIDE DEF x
        <5> QED BY <5>1, WrittenAgain
      <4>11. y.value = {} /\ ~y.supported /\ ~y.warns
        BY <4>7, <4>10, ParseIs
      <4>12. i[t.field] = {} => [i EXCEPT ![t.field] = {}] = i
        BY <1>3, <1>4
      <4> QED BY <1>2, <4>11, <4>12
    <3> QED BY <3>1, <3>2
  <2>3. MapIsWritten(r)'
    BY <2>1, <2>2 DEF SecondInv, MapIsWritten
  <2>4. NoneIsLost(r)'
    BY <1>1, <2>1, <2>2 DEF SecondInv, NoneIsLost
  <2>5. FieldsAreRead(r)' /\ FewWarnings(r)'
    BY <2>1, <2>2 DEF SecondInv, FieldsAreRead, FewWarnings
  <2> QED BY <1>7, <1>9, <1>10, <2>3, <2>4, <2>5 DEF SecondInv
<1>12. CASE t.key = KeyOf(t.field) /\ ~Done(turn, t.field)
  <2>1. i[t.field] = {}
    BY <1>4, <1>12 DEF SecondInv, FieldsAreRead
  <2>2. \A f \in Fields : Done(turn', f) <=> Done(turn, f) \/ f = t.field
    BY <1>6, <1>12
  <2>3. CASE t.key \notin DOMAIN map
    <3>1. map' = map /\ i' = i /\ warnings' = warnings
      BY <1>2, <2>3
    <3>2. \A s : ~Writes(r.i, t.field, s)
      <4> SUFFICES ASSUME NEW s, Writes(r.i, t.field, s)
                   PROVE  FALSE
        OBVIOUS
      <4>1. \/ \E a \in 1 .. Len(pairs) : pairs[a] = Line(t.field, s)
            \/ KeyOf(t.field) \in DOMAIN map
        BY <1>4, <1>12 DEF SecondInv, NoneIsLost
      <4> QED BY <1>3, <1>12, <2>3, <4>1
    <3>3. Again(r.i, t.field) = {}
      BY <1>3, <1>4, <3>2, NothingIsWritten
    <3>4. FieldsAreRead(r)'
      BY <2>1, <2>2, <3>1, <3>3 DEF SecondInv, FieldsAreRead
    <3>5. MapIsWritten(r)'
      <4>1. ASSUME NEW k \in DOMAIN map
            PROVE  \E f \in Fields : ~Done(turn', f) /\ k = KeyOf(f) /\ Writes(r.i, f, map[k])
        <5>1. PICK f \in Fields : ~Done(turn, f) /\ k = KeyOf(f) /\ Writes(r.i, f, map[k])
          BY <4>1 DEF SecondInv, MapIsWritten
        <5>2. f # t.field
          BY <3>2, <5>1
        <5> QED BY <2>2, <5>1, <5>2
      <4> QED BY <3>1, <4>1 DEF MapIsWritten
    <3>6. NoneIsLost(r)'
      BY <1>1, <2>2, <3>1 DEF SecondInv, NoneIsLost
    <3>7. FewWarnings(r)'
      BY <3>1 DEF SecondInv, FewWarnings
    <3> QED BY <1>7, <1>9, <1>10, <3>4, <3>5, <3>6, <3>7 DEF SecondInv
  <2>4. CASE t.key \in DOMAIN map
    <3>1. /\ i' = [i EXCEPT ![t.field] = y.value]
          /\ map' = IF y.supported THEN Without(map, t.key) ELSE map
          /\ warnings' = IF y.warns THEN warnings \cup {Warning("invalid", [key |-> t.key, value |-> map[t.key]])} ELSE warnings
      BY <1>2, <2>1, <2>4
    <3>2. Writes(r.i, t.field, x)
      <4>1. PICK f \in Fields : ~Done(turn, f) /\ t.key = KeyOf(f) /\ Writes(r.i, f, x)
        BY <2>4 DEF SecondInv, MapIsWritten
      <4>2. f = t.field
        BY <1>4, <1>12, <4>1, KeysAreOf
      <4> QED BY <4>1, <4>2
    <3>3. /\ y.supported
          /\ t.field # "anchor" => y.value = Again(r.i, t.field)
          /\ y.warns => t.key = "a.balancewhite" /\ Warning("invalid", [key |-> t.key, value |-> x]) \in r.warnings
      BY <1>1, <1>3, <1>12, <3>2, WhatIsReadAgain
    <3> HIDE DEF y
    <3>4. DOMAIN map' = DOMAIN map \ {t.key} /\ \A k \in DOMAIN map' : map'[k] = map[k]
      BY <3>1, <3>3 DEF Without
    <3>5. FieldsAreRead(r)'
      <4>1. i'[t.field] = y.value /\ \A f \in Fields : f # t.field => i'[f] = i[f]
        BY <1>4, <3>1
      <4> QED BY <2>2, <3>3, <4>1 DEF SecondInv, FieldsAreRead
    <3>6. MapIsWritten(r)'
      <4>1. ASSUME NEW k \in DOMAIN map'
            PROVE  \E f \in Fields : ~Done(turn', f) /\ k = KeyOf(f) /\ Writes(r.i, f, map'[k])
        <5>1. k \in DOMAIN map /\ k # t.key /\ map'[k] = map[k]
          BY <3>4, <4>1
        <5>2. PICK f \in Fields : ~Done(turn, f) /\ k = KeyOf(f) /\ Writes(r.i, f, map[k])
          BY <5>1 DEF SecondInv, MapIsWritten
        <5>3. f # t.field
          BY <1>12, <5>1, <5>2
        <5> QED BY <2>2, <5>1, <5>2, <5>3
      <4> QED BY <4>1 DEF MapIsWritten
    <3>7. NoneIsLost(r)'
      <4>1. ASSUME NEW f \in Fields, NEW s, ~Done(turn', f), Writes(r.i, f, s)
            PROVE  KeyOf(f) \in DOMAIN map' /\ map'[KeyOf(f)] = s
        <5>1. ~Done(turn, f) /\ f # t.field
          BY <2>2, <4>1
        <5>2. \/ \E a \in 1 .. Len(pairs) : pairs[a] = Line(f, s)
              \/ KeyOf(f) \in DOMAIN map /\ map[KeyOf(f)] = s
          BY <4>1, <5>1 DEF SecondInv, NoneIsLost
        <5>3. KeyOf(f) \in DOMAIN map /\ map[KeyOf(f)] = s
          BY <1>3, <5>2
        <5>4. KeyOf(f) # t.key
          BY <1>4, <1>12, <5>1, KeysAreOf
        <5> QED BY <3>4, <5>3, <5>4
      <4> QED BY <4>1 DEF NoneIsLost
    <3>8. FewWarnings(r)'
      <4>1. y.warns => Warning("invalid", [key |-> t.key, value |-> x]) \in {w \in r.warnings : w.key = "a.balancewhite"}
        BY <3>3 DEF Warning
      <4> QED BY <3>1, <4>1 DEF SecondInv, FewWarnings
    <3> QED BY <1>7, <1>9, <1>10, <3>5, <3>6, <3>7, <3>8 DEF SecondInv
  <2> QED BY <2>3, <2>4
<1> QED BY <1>11, <1>12

-----------------------------------------------------------------------------
\* Both parses.
QueryInv == part = "parser" => FirstInv \/ \E r : SecondInv(r)

\* The first parse is the first.
LEMMA QueriesBegin == ASSUME RiapiAssumption, RiapiInit PROVE QueryInv
<1>1. QueriesAssumption
  BY DEF RiapiAssumption
<1>2. part = "parser" => Init
  BY DEF RiapiInit, ParserInit
<1> QED BY <1>1, <1>2, FirstBegins DEF QueryInv

\* A step is of one of them, or from the first to the second.
LEMMA QueriesGoOn == ASSUME QueryInv, [RiapiNext]_riapiVars PROVE QueryInv'
<1>1. CASE UNCHANGED <<part, vars>>
  <2>1. FirstInv => FirstInv'
    BY <1>1 DEF vars, FirstInv, Parsing, MapIsAsked, AllAreKnown, AllAreNamed, Taken
  <2>2. ASSUME NEW r, SecondInv(r)
        PROVE  SecondInv(r)'
    <3>1. asked' = asked /\ pairs' = pairs /\ map' = map /\ turn' = turn /\ i' = i /\ warnings' = warnings /\ first' = first
          /\ encode' = encode
      BY <1>1 DEF vars
    <3>2. Outcome(r.i, r.warnings)'
      BY <2>2, <3>1 DEF SecondInv, Reading, Outcome
    <3>3. Reading(r)' /\ Distinct'
      BY <2>2, <3>1, <3>2 DEF SecondInv, Reading, Distinct
    <3>4. MapIsWritten(r)' /\ NoneIsLost(r)' /\ FieldsAreRead(r)'
      BY <2>2, <3>1 DEF SecondInv, MapIsWritten, NoneIsLost, FieldsAreRead
    <3>5. FewWarnings(r)' /\ Chosen'
      BY <2>2, <3>1 DEF SecondInv, FewWarnings, Chosen
    <3> QED BY <3>3, <3>4, <3>5 DEF SecondInv
  <2> QED BY <1>1, <2>1, <2>2 DEF QueryInv
<1>2. CASE ParserStep
  <2>1. part = "parser" /\ part' = part /\ Next
    BY <1>2 DEF ParserStep
  <2>2. CASE FirstInv
    <3>1. first = {}
      BY <2>2 DEF FirstInv, Parsing
    <3>2. ~ChooseEncoder
      BY <3>1 DEF ChooseEncoder
    <3>3. FirstInv' \/ \E r : SecondInv(r)'
      BY <2>1, <2>2, <3>2, FirstTakes, FirstEnds, FirstParses, FirstDrains, SecondBegins DEF Next
    <3> QED BY <3>3 DEF QueryInv
  <2>3. ASSUME NEW r, SecondInv(r)
        PROVE  SecondInv(r)'
    <3>1. first # {}
      BY <2>3 DEF SecondInv, Reading
    <3>2. ~Translate
      BY <3>1 DEF Translate
    <3> QED BY <2>1, <2>3, <3>2, SecondTakes, SecondEnds, SecondParses, SecondDrains, SecondChooses DEF Next
  <2> QED BY <2>1, <2>2, <2>3 DEF QueryInv
<1>3. CASE UNCHANGED riapiVars
  BY <1>1, <1>3 DEF riapiVars
<1> QED BY <1>1, <1>2, <1>3 DEF RiapiNext, LayoutStep, StepsStep, ColorStep

-----------------------------------------------------------------------------
\* Nothing of a query that was parsed is lost, and settings are meant.
LEMMA OutcomesAreMeant ==
  ASSUME NEW r, Result = {r}, Outcome(r.i, r.warnings)
  PROVE  NothingIsLost /\ SettingsAreMeant
<1>1. \A p \in ToSet(asked) : Named(p, r.i, r.warnings)
  BY DEF Outcome, ToSet
<1>2. NothingIsLost
  BY <1>1 DEF NothingIsLost, Named
<1>3. ASSUME NEW f \in Fields, NEW v \in r.i[f]
      PROVE  \E t \in ToSet(Tries) : t.field = f /\ Means(t, v)
  <2>1. Comes(asked, f, v, r.warnings)
    BY <1>3, OutcomesAre
  <2>2. PICK n \in 1 .. 39, m \in DOMAIN asked : ComesFrom(asked, f, v, r.warnings, n, m)
    BY <2>1 DEF Comes
  <2> DEFINE t == Tries[n]
  <2>3. t \in ToSet(Tries) /\ t.field = f /\ IsFirst(asked, m, t.key) /\ Reads(t.parser, asked[m].value, v)
    BY <2>2, TriesAre DEF ComesFrom
  <2> HIDE DEF t
  <2>4. Means(t, v)
    <3>1. m \in Places(t)
      BY <2>3 DEF Places, IsFirst
    <3>2. ASSUME NEW k \in Places(t), \A x \in Places(t) : k <= x
          PROVE  asked[k].value \in DOMAIN Accepted(t.parser) /\ Accepted(t.parser)[asked[k].value] = v
      <4>1. k <= m /\ m <= k
        BY <2>3, <3>1, <3>2 DEF Places, IsFirst
      <4>2. k \in Nat /\ m \in Nat
        <5>1. DOMAIN asked = 1 .. Len(asked) /\ Len(asked) \in Nat
          BY LenProperties DEF Outcome
        <5> QED BY <3>1, <3>2, <5>1 DEF Places
      <4>3. k = m
        BY <4>1, <4>2
      <4> QED BY <2>3, <4>3 DEF Reads
    <3> QED BY <3>1, <3>2 DEF Means
  <2> QED BY <2>3, <2>4
<1> QED BY <1>2, <1>3 DEF SettingsAreMeant

\* The fields that turn are set to quarter turns.
LEMMA TurnsAreQuarters ==
  ASSUME NEW f \in {"rotate", "srotate"}, NEW v, IsValue(f, v)
  PROVE  v \in {0, 90, 180, 270}
<1>1. PICK n \in 1 .. 39 : Tries[n].field = f /\ \E x : Reads(Tries[n].parser, x, v)
  BY DEF IsValue
<1>2. Tries[n].parser = "rotate"
  BY <1>1, ParsersAre
<1> QED BY <1>1, <1>2, TurnsAre

\* Some fields there are.
LEMMA SomeFields == {"rotate", "srotate", "format", "quality", "bgcolor_srgb", "jpeg_progressive"} \subseteq Fields
<1>1. /\ Tries[16].field = "srotate" /\ Tries[17].field = "rotate" /\ Tries[14].field = "format" /\ Tries[24].field = "quality"
      /\ Tries[26].field = "bgcolor_srgb" /\ Tries[39].field = "jpeg_progressive"
  BY DEF Tries, Try, Else
<1>2. \A n \in {14, 16, 17, 24, 26, 39} : Tries[n].field \in Fields
  BY TriesAre
<1> QED BY <1>1, <1>2

\* What comes of the first parse.
LEMMA FirstIsMeant ==
  ASSUME FirstInv
  PROVE  TypeOK /\ NothingIsLost /\ SettingsAreMeant /\ InstructionsSurvive /\ EncodedAsAsked
<1>1. first = {} /\ encode = {} /\ asked \in Seq(Texted) /\ turn \in 0 .. 40
  BY DEF FirstInv, Parsing
<1>2. TypeOK
  <2>1. DOMAIN map \subseteq Ir4Keys
    BY DEF FirstInv, MapIsAsked
  <2>2. ASSUME NEW f \in {"rotate", "srotate"}, NEW v \in i[f]
        PROVE  v \in {0, 90, 180, 270}
    <3>1. Comes(asked, f, v, warnings)
      BY <2>2, SomeFields DEF FirstInv, Meant
    <3>2. IsValue(f, v)
      BY <3>1 DEF Comes, ComesFrom, IsValue
    <3> QED BY <2>2, <3>2, TurnsAreQuarters
  <2>3. turn \in 0 .. (Len(Tries) + 1)
    BY <1>1, TriesAre
  <2> QED BY <2>1, <2>2, <2>3 DEF TypeOK
<1>3. NothingIsLost /\ SettingsAreMeant
  <2>1. CASE Parsed
    <3>1. PICK r : r = [i |-> i, warnings |-> warnings]
      OBVIOUS
    <3>2. Result = {r}
      BY <1>1, <2>1, <3>1 DEF Result
    <3>3. Outcome(r.i, r.warnings)
      BY <2>1, <3>1, FirstComesTo
    <3> QED BY <1>1, <3>2, <3>3, OutcomesAreMeant
  <2>2. CASE ~Parsed
    BY <1>1, <2>2 DEF NothingIsLost, SettingsAreMeant, Result
  <2> QED BY <2>1, <2>2
<1>4. InstructionsSurvive /\ EncodedAsAsked
  BY <1>1 DEF InstructionsSurvive, Second, EncodedAsAsked
<1> QED BY <1>2, <1>3, <1>4

\* A format is one of three.
LEMMA FormatsAre ==
  ASSUME NEW v, IsValue("format", v)
  PROVE  v \in {"jpeg", "png", "gif"}
<1>1. PICK n \in 1 .. 39 : Tries[n].field = "format" /\ \E x : Reads(Tries[n].parser, x, v)
  BY DEF IsValue
<1>2. Tries[n].parser = "format"
  BY <1>1, ParsersAre
<1>3. PICK x : Reads("format", x, v)
  BY <1>1, <1>2
<1> QED BY <1>3, PlainIsKept DEF PlainParsers

\* The encoder of each format.
LEMMA EncodersAre ==
  ASSUME NEW j, NEW format \in {"jpeg", "png", "gif"}
  PROVE  LET h == Hints(EncoderPreset(j, format)) IN
         /\ h.codec = format
         /\ format = "jpeg" => h.quality = Or(j.quality, "90")
         /\ format = "png" => h.alpha = {j.bgcolor_srgb = {}}
<1>1. CASE format = "jpeg"
  <2> DEFINE p == [codec |-> "jpeg", quality |-> Or(j.quality, "90"), progressive |-> j.jpeg_progressive,
                   optimize |-> j.jpeg_progressive]
  <2>1. EncoderPreset(j, format) = p
    BY <1>1 DEF EncoderPreset
  <2>2. p.codec = "jpeg" /\ p.quality = Or(j.quality, "90")
    OBVIOUS
  <2> HIDE DEF p
  <2>3. Or(p.quality, "90") = Or(j.quality, "90")
    BY <2>2 DEF Or
  <2>4. Hints(p).codec = "jpeg" /\ Hints(p).quality = Or(p.quality, "90")
    BY <2>2 DEF Hints
  <2> QED BY <1>1, <2>1, <2>3, <2>4
<1>2. CASE format = "gif"
  <2>1. EncoderPreset(j, format) = [codec |-> "gif"]
    BY <1>2 DEF EncoderPreset
  <2>2. Hints([codec |-> "gif"]).codec = "gif"
    BY DEF Hints
  <2> QED BY <1>2, <2>1, <2>2
<1>3. CASE format = "png"
  <2> DEFINE p == [codec |-> "png", depth |-> {OpaquePng(j)}, matte |-> j.bgcolor_srgb]
  <2>1. EncoderPreset(j, format) = p
    BY <1>3 DEF EncoderPreset
  <2>2. p.codec = "png" /\ p.depth = {OpaquePng(j)}
    OBVIOUS
  <2> HIDE DEF p
  <2>3. Hints(p).codec = "png" /\ Hints(p).alpha = {p.depth # {"png24"}}
    BY <2>2 DEF Hints
  <2>4. {OpaquePng(j)} # {"png24"} <=> j.bgcolor_srgb = {}
    BY DEF OpaquePng
  <2>5. (p.depth # {"png24"}) = (j.bgcolor_srgb = {})
    BY <2>2, <2>4
  <2> QED BY <1>3, <2>1, <2>3, <2>5
<1> QED BY <1>1, <1>2, <1>3

\* What comes of the second.
LEMMA SecondIsMeant ==
  ASSUME NEW r, SecondInv(r)
  PROVE  TypeOK /\ NothingIsLost /\ SettingsAreMeant /\ InstructionsSurvive /\ EncodedAsAsked
<1>1. first = {r} /\ Outcome(r.i, r.warnings) /\ turn \in 0 .. 40
  BY DEF SecondInv, Reading
<1>2. TypeOK
  <2>1. DOMAIN map \subseteq Ir4Keys
    BY KeysAreOf DEF SecondInv, MapIsWritten
  <2>2. ASSUME NEW f \in {"rotate", "srotate"}, NEW v \in i[f]
        PROVE  v \in {0, 90, 180, 270}
    <3>1. f \in Fields /\ f # "anchor" /\ f \notin {"flip", "sflip"}
      BY SomeFields
    <3>2. v \in r.i[f]
      BY <2>2, <3>1 DEF SecondInv, FieldsAreRead, Again
    <3>3. IsValue(f, v)
      BY <1>1, <3>1, <3>2, OutcomesAre
    <3> QED BY <2>2, <3>3, TurnsAreQuarters
  <2>3. turn \in 0 .. (Len(Tries) + 1)
    BY <1>1, TriesAre
  <2> QED BY <2>1, <2>2, <2>3 DEF TypeOK
<1>3. NothingIsLost /\ SettingsAreMeant
  <2>1. Result = {r}
    BY <1>1 DEF Result
  <2> QED BY <1>1, <2>1, OutcomesAreMeant
<1>4. InstructionsSurvive
  <2>1. ASSUME Second, NEW f \in Fields \ {"anchor"}
        PROVE  IF f \in {"flip", "sflip"} THEN i[f] = FlipsOf(r.i[f]) ELSE i[f] = r.i[f]
    <3>1. Done(turn, f)
      BY <2>1, TriesAre, DoneGoesOn DEF Second, Parsed
    <3> QED BY <3>1 DEF SecondInv, FieldsAreRead, Again
  <2>2. warnings \subseteq {w \in r.warnings : w.key = "a.balancewhite"}
    BY DEF SecondInv, FewWarnings
  <2> QED BY <1>1, <2>1, <2>2 DEF InstructionsSurvive
<1>5. EncodedAsAsked
  <2> SUFFICES ASSUME NEW e \in encode
               PROVE  /\ r.i.format \subseteq {e.hints.codec}
                      /\ e.hints.codec = "jpeg" => e.hints.quality = Or(r.i.quality, "90")
                      /\ r.i.format = {} /\ ~e.opaque => e.hints.codec = "png"
                      /\ e.hints.codec = "png" => e.hints.alpha = {r.i.bgcolor_srgb = {}}
    BY <1>1 DEF EncodedAsAsked
  <2>1. turn = 40
    BY DEF SecondInv, Chosen
  <2>2. PICK opaque \in BOOLEAN : \E format \in FormatOf(i, opaque) :
               e = [opaque |-> opaque, hints |-> Hints(EncoderPreset(i, format))]
    BY DEF SecondInv, Chosen
  <2>3. PICK format \in FormatOf(i, opaque) : e = [opaque |-> opaque, hints |-> Hints(EncoderPreset(i, format))]
    BY <2>2
  <2>4. i.format = r.i.format /\ i.quality = r.i.quality /\ i.bgcolor_srgb = r.i.bgcolor_srgb
    <3>1. \A f \in {"format", "quality", "bgcolor_srgb"} : f \in Fields /\ f # "anchor" /\ f \notin {"flip", "sflip"}
      BY SomeFields
    <3>2. \A f \in {"format", "quality", "bgcolor_srgb"} : i[f] = r.i[f]
      BY <2>1, <3>1, DoneGoesOn DEF SecondInv, FieldsAreRead, Again
    <3> QED BY <3>2
  <2>5. \A v \in r.i.format : v \in {"jpeg", "png", "gif"} /\ r.i.format = {v}
    <3>1. "format" \in Fields
      BY SomeFields
    <3>2. \A v \in r.i["format"] : IsValue("format", v)
      BY <1>1, <3>1, OutcomesAre
    <3>3. \A u, v \in r.i["format"] : u = v
      BY <1>1, <3>1, OutcomesAre
    <3> QED BY <3>2, <3>3, FormatsAre
  <2>6. /\ r.i.format # {} => r.i.format = {format} /\ format \in {"jpeg", "png", "gif"}
        /\ r.i.format = {} => format = IF opaque THEN "jpeg" ELSE "png"
    BY <2>3, <2>4, <2>5 DEF FormatOf, Or
  <2>7. format \in {"jpeg", "png", "gif"}
    BY <2>6
  <2>8. e.hints = Hints(EncoderPreset(i, format)) /\ (e.opaque <=> opaque)
    BY <2>3
  <2>9. /\ e.hints.codec = format
        /\ format = "jpeg" => e.hints.quality = Or(r.i.quality, "90")
        /\ format = "png" => e.hints.alpha = {r.i.bgcolor_srgb = {}}
    BY <2>4, <2>7, <2>8, EncodersAre
  <2> QED BY <2>6, <2>8, <2>9
<1> QED BY <1>2, <1>3, <1>4, <1>5

\* Whatever is asked.
LEMMA QueriesAreMeant == ASSUME QueryInv PROVE InstructionsAreMeant
  BY FirstIsMeant, SecondIsMeant DEF QueryInv, InstructionsAreMeant

\* Of whatever query, with any keys and values, in any order and however often, no pair
\* is lost without a word, no setting gets the value of another pair, what is written
\* for the command node is read as it was, and the encoder is set to what the caller
\* wrote (parsing.rs:183-386, mod.rs:60-222).
THEOREM InstructionsAreAlwaysMeant == RiapiSpec => []InstructionsAreMeant
<1>1. RiapiInit => QueryInv
  BY RiapiAssumption, QueriesBegin
<1>2. QueryInv /\ [RiapiNext]_riapiVars => QueryInv'
  BY QueriesGoOn
<1>3. QueryInv => InstructionsAreMeant
  BY QueriesAreMeant
<1> QED BY <1>1, <1>2, <1>3, PTL DEF RiapiSpec
==============================================================================
