-------------------------- MODULE MCExecutionEngine --------------------------
(***************************************************************************)
(* Jobs for model checking the engine.  Every family is a set of small     *)
(* jobs that meets one kind of difficulty; a configuration picks one, or   *)
(* all of them.                                                            *)
(***************************************************************************)
EXTENDS ExecutionEngineProperties

MCIoId == 1 .. 4

\* A source of the given kind; outputs are sources nobody reads.
Image(kind, w, h, exif, frames) ==
  [kind |-> kind, w |-> w, h |-> h, exif |-> exif, frames |-> frames]
NotRead == Image("output", 1, 1, 0, 0)
OnlyInput(image) == [i \in MCIoId |-> IF i = 1 THEN image ELSE NotRead]
TwoInputs(a, b) == [i \in MCIoId |-> CASE i = 1 -> a [] i = 2 -> b [] OTHER -> NotRead]

Decoder(io) == Node("decoder", P("decode", <<io>>))
Encoder(io) == Node("primitive_encoder", P("encode", <<io>>))
Op(d) == Node(d, P(d, <<>>))
With(d, a) == Node(d, P(d, a))

In(m, n) == [src |-> m, dst |-> n, kind |-> "input"]
On(m, n) == [src |-> m, dst |-> n, kind |-> "canvas"]

\* The index orders tried: all of them, or the rotations of the client's
\* order and of its reverse.
Orders(n) == {o \in [1 .. n -> 1 .. n] : \A i, j \in 1 .. n : i # j => o[i] # o[j]}
Turned(n, k) == [i \in 1 .. n |-> ((i + k) % n) + 1]
Reversed(n, k) == [i \in 1 .. n |-> n - ((i + k) % n)]
Turns(n) == {Turned(n, k) : k \in 0 .. n - 1} \cup {Reversed(n, k) : k \in 0 .. n - 1}
InOrder(n) == [i \in 1 .. n |-> i]
Backwards(n) == [i \in 1 .. n |-> n + 1 - i]

Job(ns, es, order, io) == [nodes |-> ns, edges |-> es, order |-> order, io |-> io]

Chain(ns, order, io) ==
  Job(ns, {In(i, i + 1) : i \in 1 .. Len(ns) - 1}, order, io)

-----------------------------------------------------------------------------
(* Chains of up to two operations on a 4 x 3 picture: every operation a    *)
(* client can ask for, in every combination, and every orientation.        *)

Operations ==
  {Op(d) : d \in {"flip_v", "flip_h", "transpose", "rotate_90", "rotate_180", "rotate_270",
                  "color_matrix_srgb", "color_filter_srgb"}}
  \cup {With("apply_orientation", <<7>>), With("crop", <<1, 0, 3, 2>>),
        With("fill_rect", <<0, 0, 2, 1>>), With("expand_canvas", <<1, 0, 2, 1>>),
        With("scale", <<5, 3>>), With("constrain", <<3, 0>>), With("constrain", <<9, 9>>)}

\* A crop of a crop would not fit.
Compatible(a, b) == ~(a.def = "crop" /\ b.def = "crop")

Picture(exif) == OnlyInput(Image("png", 4, 3, exif, 1))
Photo(exif) == OnlyInput(Image("jpeg", 4, 3, exif, 1))

ChainJobs ==
  {Chain(<<Decoder(1), ab[1], ab[2], Encoder(2)>>, o, Picture(0)) :
     ab \in {x \in Operations \X Operations : Compatible(x[1], x[2])}, o \in {InOrder(4), Backwards(4)}}
  \cup {Chain(<<Decoder(1), a, Encoder(2)>>, o, Picture(0)) : a \in Operations, o \in Orders(3)}
  \cup {Chain(<<Decoder(1), a, Encoder(2)>>, o, Photo(exif)) :
     a \in {Op("flip_h"), With("crop", <<1, 0, 3, 2>>), With("scale", <<5, 3>>)},
     exif \in 1 .. 8, o \in {InOrder(3), Backwards(3)}}

-----------------------------------------------------------------------------
(* Branches that only read the image they share, and canvases drawn on by  *)
(* one image after another.                                                *)

\* One image in two sizes and turned, each to its own output.
Fork(a, b, o) ==
  Job(<<Decoder(1), a, b, Encoder(2), Encoder(3)>>,
      {In(1, 2), In(1, 3), In(2, 4), In(3, 5)}, o, OnlyInput(Image("jpeg", 2, 1, 6, 1)))

\* Two images on one canvas; the second one is also written out as it is.
Collage(o) ==
  Job(<<With("create_canvas", <<3, 3>>), Decoder(1), Decoder(2),
        With("copy_rect", <<0, 0, 2, 1, 1, 0>>), With("draw_image_exact", <<0, 1, 2, 2>>),
        Encoder(3), Encoder(4)>>,
      {On(1, 4), In(2, 4), On(4, 5), In(3, 5), In(5, 6), In(3, 7)}, o,
      TwoInputs(Image("jpeg", 2, 1, 0, 1), Image("gif", 1, 1, 0, 1)))

\* The same image twice on one canvas.
Twice(o) ==
  Job(<<With("create_canvas", <<3, 2>>), Decoder(1),
        With("copy_rect", <<0, 0, 1, 1, 2, 1>>), With("copy_rect", <<0, 0, 2, 1, 0, 0>>),
        Encoder(3)>>,
      {On(1, 3), In(2, 3), On(3, 4), In(2, 4), In(4, 5)}, o, OnlyInput(Image("png", 2, 1, 0, 1)))

\* The sizes of the export_4_sizes example, one of them larger than the source.
Sizes(o) ==
  Job(<<Decoder(1), With("constrain", <<9, 9>>), With("constrain", <<2, 0>>),
        With("constrain", <<1, 0>>), Encoder(2), Encoder(3), Encoder(4)>>,
      {In(1, 2), In(2, 3), In(3, 4), In(2, 5), In(3, 6), In(4, 7)}, o,
      OnlyInput(Image("jpeg", 4, 2, 0, 1)))

CompositingJobs ==
  {Fork(With("scale", <<1, 1>>), b, o) : b \in {Op("rotate_90"), With("expand_canvas", <<0, 1, 1, 0>>)},
     o \in Turns(5)}
  \cup {Twice(o) : o \in Orders(5)}
  \cup {Collage(o) : o \in Turns(7)} \cup {Sizes(o) : o \in Turns(7)}

-----------------------------------------------------------------------------
(* Command strings and decoder hints over an 8 x 8 photo.  The targets are *)
(* such that shrinking while decoding and then resampling is the same as   *)
(* resampling: their sides divide those of the shrunk image.               *)

Targets == {<<1, 1>>, <<1, 2>>, <<2, 1>>, <<2, 4>>, <<3, 2>>, <<6, 1>>, <<8, 8>>}
Command(t, decode, encode) ==
  With("command_string", <<t[1], t[2], decode, encode>>)

Square(exif) == OnlyInput(Image("jpeg", 8, 8, exif, 1))

Hinted(w, h, a, o, exif) ==
  Chain(<<Node("decoder", P("decode", <<1, w, h>>)), a, With("scale", <<2, 2>>), Encoder(2)>>, o,
        Square(exif))

HintJobs ==
  {Chain(<<Command(t, 1, 2)>>, <<1>>, Square(exif)) : t \in Targets, exif \in {0, 3, 6}}
  \cup {Chain(<<Decoder(1), a, Command(t, 0, 0), Encoder(2)>>, o, Square(exif)) :
           a \in {Op("flip_h"), Op("transpose")}, t \in Targets, exif \in {0, 7}, o \in {InOrder(4), Backwards(4)}}
  \cup {Hinted(4, 4, a, o, exif) : a \in {Op("rotate_90"), Op("flip_v")},
           o \in Turns(4), exif \in {0, 6}}

-----------------------------------------------------------------------------
(* Animations: every frame runs the whole graph again.                     *)

Animation(frames) == Image("gif", 2, 1, 0, frames)

AnimationJobs ==
  {Chain(<<Decoder(1), a, Encoder(2)>>, o, OnlyInput(Animation(f))) :
     a \in {Op("rotate_90"), With("expand_canvas", <<0, 1, 0, 0>>), With("crop", <<1, 0, 2, 1>>)},
     o \in Orders(3), f \in {1, 3}}
  \cup {Chain(<<Command(<<4, 1>>, 1, 2)>>, <<1>>, OnlyInput(Animation(2)))}
  \cup {Job(<<Decoder(1), Decoder(2), With("copy_rect", <<0, 0, 1, 1, 1, 0>>), Encoder(3)>>,
             {On(1, 3), In(2, 3), In(3, 4)}, o, TwoInputs(Animation(2), Animation(2))) :
           o \in Orders(4)}

-----------------------------------------------------------------------------
(* Jobs the engine has to turn down, next to their sound neighbours, and   *)
(* chains longer than the pass limit.                                      *)

Rows(a) == Job(<<With("create_canvas", <<2, 2>>), Decoder(1), a, Encoder(2)>>,
               {On(1, 3), In(2, 3), In(3, 4)}, Backwards(4), OnlyInput(Image("png", 2, 2, 0, 1)))

DoubtfulJobs ==
  {Chain(<<Decoder(1), a, With("crop", <<0, 0, x, y>>), Encoder(2)>>, o, Photo(exif)) :
     a \in {Op("transpose"), With("scale", <<4, 2>>), With("expand_canvas", <<1, 0, 0, 0>>)},
     x \in {0, 4, 5}, y \in {2, 3, 5}, o \in {InOrder(4), Backwards(4)}, exif \in {0, 3}}
  \cup {Chain(<<Decoder(1), With("fill_rect", <<x, 0, 4, y>>), Encoder(2)>>, InOrder(3), Picture(0)) :
           x \in {3, 4}, y \in {3, 4}}
  \cup {Rows(With("copy_rect", <<fx, 0, w, 1, x, 0>>)) : fx \in 0 .. 2, w \in 1 .. 2, x \in 0 .. 2}
  \cup {Rows(With("draw_image_exact", <<0, y, 1, h>>)) : y \in 0 .. 1, h \in 1 .. 2}
  \cup {Chain(<<Decoder(1), With("scale", <<w, 1>>), Encoder(2)>>, InOrder(3), Picture(0)) : w \in 0 .. 1}
  \cup {Chain(<<Decoder(1), Op("rotate_90"), a, Op("rotate_180"), b, Encoder(2)>>, Backwards(6), Picture(0)) :
           a \in {Op("flip_v"), Op("rotate_270")}, b \in {Op("flip_v"), With("apply_orientation", <<5>>)}}
  \cup {Job(<<With("flip_v", <<>>), Encoder(2)>>, {In(1, 2)}, InOrder(2), Picture(0)),
        Job(<<With("create_canvas", <<1, 1>>), With("copy_rect", <<0, 0, 1, 1, 0, 0>>)>>, {On(1, 2)},
            InOrder(2), Picture(0)),
        Chain(<<Decoder(1), Encoder(2), Op("flip_v")>>, InOrder(3), Picture(0)),
        Chain(<<Decoder(1), Command(<<1, 1>>, 1, 2)>>, InOrder(2), Picture(0)),
        Chain(<<Command(<<1, 1>>, 0, 2)>>, InOrder(1), Picture(0))}

AllJobs == ChainJobs \cup CompositingJobs \cup HintJobs \cup AnimationJobs \cup DoubtfulJobs

-----------------------------------------------------------------------------
(* Jobs that break what the source's comments say.                         *)

\* A flip and a resample of one image: the flip takes the image over.
SharedJobs ==
  {Job(<<Decoder(1), Op("flip_v"), With("scale", <<1, 1>>), Encoder(2), Encoder(3)>>,
       {In(1, 2), In(1, 3), In(2, 4), In(3, 5)}, o, Picture(0)) : o \in Orders(5)}

\* A flip that nothing feeds.
UnfedJobs ==
  {Job(<<Decoder(1), Op("flip_v"), Encoder(2)>>, {In(2, 3)}, o, Picture(0)) : o \in Orders(3)}

\* A short animation next to a long one.
UnevenJobs ==
  {Job(<<Decoder(1), Decoder(2), With("copy_rect", <<0, 0, 1, 1, 1, 0>>), Encoder(3)>>,
       {On(1, 3), In(2, 3), In(3, 4)}, o, TwoInputs(Animation(2), Animation(3))) : o \in Orders(4)}

\* A crop of a photo that is stored on its side; it fits the upright image.
SidewaysJobs ==
  {Chain(<<Decoder(1), With("crop", <<0, 0, 3, 4>>), Encoder(2)>>, o, Photo(6)) : o \in Orders(3)}
=============================================================================
