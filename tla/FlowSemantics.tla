---------------------------- MODULE FlowSemantics ----------------------------
(***************************************************************************)
(* What a job's operation graph means, without estimating, expanding,      *)
(* ordering or sharing anything: every node denotes an image, computed     *)
(* from the images of the nodes that feed it.  The engine's outputs are    *)
(* compared with this.  It says nothing of how the engine works; the       *)
(* orientation of an image is the EXIF table of where each stored row and  *)
(* column goes, not the engine's chains of flips and transpositions.       *)
(*                                                                         *)
(* A job is [nodes, edges, order, io] as in ExecutionEngine; its nodes are *)
(* numbered so that an edge goes from a smaller number to a larger one.    *)
(***************************************************************************)
EXTENDS NodeDefs

\* The pixel of the stored image that the viewer sees at column x, row y.
Oriented(b, flag) ==
  CASE flag = 2 -> Make(b.w, b.h, LAMBDA x, y : b.px[<<b.w - 1 - x, y>>])
    [] flag = 3 -> Make(b.w, b.h, LAMBDA x, y : b.px[<<b.w - 1 - x, b.h - 1 - y>>])
    [] flag = 4 -> Make(b.w, b.h, LAMBDA x, y : b.px[<<x, b.h - 1 - y>>])
    [] flag = 5 -> Make(b.h, b.w, LAMBDA x, y : b.px[<<y, x>>])
    [] flag = 6 -> Make(b.h, b.w, LAMBDA x, y : b.px[<<y, b.h - 1 - x>>])
    [] flag = 7 -> Make(b.h, b.w, LAMBDA x, y : b.px[<<b.w - 1 - y, b.h - 1 - x>>])
    [] flag = 8 -> Make(b.h, b.w, LAMBDA x, y : b.px[<<b.w - 1 - y, x>>])
    [] OTHER    -> b

\* The orientation that each rotating node asks for; rotate_90 turns the
\* image counter-clockwise.
Orientation == [flip_h |-> 2, rotate_180 |-> 3, flip_v |-> 4, transpose |-> 5,
                rotate_270 |-> 6, rotate_90 |-> 8]

Decoded(j, io, k) == Oriented(Source(io, k, j.io[io].w, j.io[io].h), j.io[io].exif)

\* What a node makes of the image that feeds it and of its canvas.
Meaning(d, p, in, canvas) ==
  CASE d \in DOMAIN Orientation -> Oriented(in, Orientation[d])
    [] d = "apply_orientation"  -> Oriented(in, p.a[1])
    [] d = "crop"               -> Cropped(in, p.a[1], p.a[2], p.a[3], p.a[4])
    [] d = "fill_rect"          -> Filled(in, p.a[1], p.a[2], p.a[3], p.a[4])
    [] d \in {"color_matrix_srgb", "color_filter_srgb"} -> Tinted(in)
    [] d = "expand_canvas" ->
         Pasted(Canvas(in.w + p.a[1] + p.a[3], in.h + p.a[2] + p.a[4]), in,
                0, 0, in.w, in.h, p.a[1], p.a[2])
    [] d \in {"scale", "command_string"} -> Resampled(in, p.a[1], p.a[2])
    [] d = "constrain" -> LET s == Constrained(in.w, in.h, p.a[1], p.a[2])
                          IN  Resampled(in, s[1], s[2])
    [] d \in {"copy_rect", "draw_image_exact"} -> Render(d, p, canvas, in)
    [] OTHER -> in

\* The image of every node of job j at frame k (0 for the first).
Images(j, k) ==
  LET image[n \in 0 .. Len(j.nodes)] ==
        LET d == j.nodes[n].def
            p == j.nodes[n].p
            from(kind) == {e.src : e \in {f \in j.edges : f.dst = n /\ f.kind = kind}}
            fed(kind) == IF from(kind) = {} THEN image[0] ELSE image[CHOOSE m \in from(kind) : TRUE]
        IN  CASE n = 0 -> NoBitmap
              [] n > 0 /\ d = "decoder" -> Decoded(j, p.a[1], k)
              [] n > 0 /\ d = "create_canvas" -> Canvas(p.a[1], p.a[2])
              [] n > 0 /\ d = "command_string" /\ p.a[3] > 0 ->
                   Meaning(d, p, Decoded(j, p.a[3], k), NoBitmap)
              [] OTHER -> Meaning(d, p, fed("input"), fed("canvas"))
  IN  image

\* A job is sound if every node has the parents its definition calls for and
\* its rectangles lie inside the images they are about.
Inside(r, b) == r[1] < r[3] /\ r[2] < r[4] /\ r[3] <= b.w /\ r[4] <= b.h

Corners(x, y, w, h) == <<x, y, x + w, y + h>>

FedBy(j, n, kind) == {e \in j.edges : e.dst = n /\ e.kind = kind}

Connected(j, n) ==
  LET d == j.nodes[n].def
      source == d \in NoInput \/ (d = "command_string" /\ j.nodes[n].p.a[3] > 0)
  IN  /\ Cardinality(FedBy(j, n, "input")) = IF source THEN 0 ELSE 1
      /\ Cardinality(FedBy(j, n, "canvas")) = IF d \in OneInputOneCanvas THEN 1 ELSE 0
      /\ d = "primitive_encoder" => {e \in j.edges : e.src = n} = {}

Fits(j, n) ==
  LET d == j.nodes[n].def
      p == j.nodes[n].p
      image == Images(j, 0)
      parent(kind) == image[(CHOOSE e \in FedBy(j, n, kind) : TRUE).src]
  IN  CASE d \in {"crop", "fill_rect"} -> Inside(p.a, parent("input"))
        [] d = "copy_rect" -> Inside(Corners(p.a[1], p.a[2], p.a[3], p.a[4]), parent("input"))
                           /\ Inside(Corners(p.a[5], p.a[6], p.a[3], p.a[4]), parent("canvas"))
        [] d = "draw_image_exact" -> Inside(Corners(p.a[1], p.a[2], p.a[3], p.a[4]), parent("canvas"))
        [] d \in {"create_canvas", "scale"} -> p.a[1] > 0 /\ p.a[2] > 0
        [] OTHER -> TRUE

Sound(j) == /\ \A n \in DOMAIN j.nodes : Connected(j, n)
            /\ \A n \in DOMAIN j.nodes : Fits(j, n)

\* The nodes that write to io, and the decoders of a job.
Writers(j, io) ==
  {n \in DOMAIN j.nodes :
     \/ j.nodes[n].def = "primitive_encoder" /\ j.nodes[n].p.a[1] = io
     \/ j.nodes[n].def = "command_string" /\ j.nodes[n].p.a[4] = io}

Sources(j) == {j.nodes[n].p.a[1] : n \in {m \in DOMAIN j.nodes : j.nodes[m].def = "decoder"}}
              \cup {j.nodes[n].p.a[3] : n \in {m \in DOMAIN j.nodes :
                       j.nodes[m].def = "command_string" /\ j.nodes[m].p.a[3] > 0}}

FrameCount(j) == IF Sources(j) = {} THEN 1
                 ELSE LET io == CHOOSE i \in Sources(j) : TRUE IN j.io[io].frames

\* The frames that io must have received when the job is done.
Written(j, io) ==
  IF Writers(j, io) = {} THEN <<>>
  ELSE LET n == CHOOSE m \in Writers(j, io) : TRUE
       IN  [f \in 1 .. FrameCount(j) |-> Images(j, f - 1)[n]]
=============================================================================
