------------------------ MODULE ExecutionEngineLemmas ------------------------
(***************************************************************************)
(* Lemmas about the operators ExecutionEngine is built from: what surgery  *)
(* on the graph, expansions, estimates and codec updates return.           *)
(***************************************************************************)
EXTENDS ExecutionEngineProperties, TLAPS

-----------------------------------------------------------------------------
(* Sequences over a set that need not be known.                            *)

\* Short sequences, and their concatenations, have the type of their elements.
LEMMA ShortSequences ==
  ASSUME NEW S, NEW a \in S, NEW b \in S
  PROVE  <<>> \in Seq(S) /\ <<a>> \in Seq(S) /\ <<a, b>> \in Seq(S)
OBVIOUS

\* Concatenation stays within the sequences of a set.
LEMMA ConcatenationType ==
  ASSUME NEW S, NEW s \in Seq(S), NEW t \in Seq(S)
  PROVE  s \o t \in Seq(S)
OBVIOUS

\* A sequence is a function on the numbers up to its length.
LEMMA SequenceElements ==
  ASSUME NEW S, NEW s \in Seq(S)
  PROVE  Len(s) \in Nat /\ DOMAIN s = 1 .. Len(s) /\ \A i \in 1 .. Len(s) : s[i] \in S
OBVIOUS

\* ... and such a function is a sequence.
LEMMA SequenceFromFunction ==
  ASSUME NEW S, NEW k \in Nat, NEW f, f = [i \in 1 .. k |-> f[i]],
         \A i \in 1 .. k : f[i] \in S
  PROVE  f \in Seq(S)
<1>1. f \in [1 .. k -> S]
  OBVIOUS
<1> QED
  BY <1>1

\* Removing an element by moving the last one into its place (remove_node)
\* leaves a sequence over the same set.
LEMMA SwapRemoveType ==
  ASSUME NEW S, NEW s \in Seq(S), NEW i
  PROVE  SwapRemove(s, i) \in Seq(S)
<1>1. Len(s) \in Nat /\ \A j \in 1 .. Len(s) : s[j] \in S
  BY SequenceElements
<1>2. CASE Len(s) = 0
  BY <1>1, <1>2 DEF SwapRemove
<1>3. CASE Len(s) # 0
  <2>1. \A j \in 1 .. Len(s) - 1 : (IF j = i THEN s[Len(s)] ELSE s[j]) \in S
    BY <1>1, <1>3
  <2>2. SwapRemove(s, i) \in [1 .. Len(s) - 1 -> S]
    BY <2>1 DEF SwapRemove
  <2>3. Len(s) - 1 \in Nat
    BY <1>1, <1>3
  <2> QED
    BY <2>2, <2>3
<1> QED
  BY <1>2, <1>3

-----------------------------------------------------------------------------
(* Parameters and nodes.                                                   *)

\* The numbers of parameters with fields are as many as the fields.
LEMMA FieldsType ==
  ASSUME NEW p \in Params, p.t \in DOMAIN Fields
  PROVE  /\ p.a \in Seq(Nat) /\ Len(p.a) \in Fields[p.t]
         /\ \A i \in 1 .. Len(p.a) : p.a[i] \in Nat
BY DEF Params

\* The fields of the variants that have four.
LEMMA FourFields ==
  ASSUME NEW p \in Params,
         p.t \in {"crop", "fill_rect", "draw_image_exact", "expand_canvas", "command_string"}
  PROVE  p.a[1] \in Nat /\ p.a[2] \in Nat /\ p.a[3] \in Nat /\ p.a[4] \in Nat
<1>1. p.t \in DOMAIN Fields /\ Fields[p.t] = {4}
  BY DEF Fields
<1> QED
  BY <1>1, FieldsType

\* The fields of the variants that have two.
LEMMA TwoFields ==
  ASSUME NEW p \in Params, p.t \in {"scale", "constrain", "create_canvas"}
  PROVE  p.a[1] \in Nat /\ p.a[2] \in Nat
<1>1. p.t \in DOMAIN Fields /\ Fields[p.t] = {2}
  BY DEF Fields
<1> QED
  BY <1>1, FieldsType

\* Parameters that expansions make up.
LEMMA MadeParams ==
  ASSUME NEW t \in DOMAIN Fields \cup Fieldless, NEW s \in Seq(Nat),
         t \in DOMAIN Fields => Len(s) \in Fields[t]
  PROVE  P(t, s) \in Params
BY DEF P, Params

\* Parameters with two fields.
LEMMA PairParams ==
  ASSUME NEW t \in {"scale", "create_canvas"}, NEW x \in Nat, NEW y \in Nat
  PROVE  P(t, <<x, y>>) \in Params
<1>1. <<x, y>> \in Seq(Nat) /\ Len(<<x, y>>) = 2
  OBVIOUS
<1>2. "scale" \in DOMAIN Fields /\ Fields["scale"] = {2} /\ "create_canvas" \in DOMAIN Fields /\ Fields["create_canvas"] = {2}
  BY DEF Fields
<1>3. P("scale", <<x, y>>) \in Params
  BY <1>1, <1>2, MadeParams
<1>4. P("create_canvas", <<x, y>>) \in Params
  BY <1>1, <1>2, MadeParams
<1> QED
  BY <1>3, <1>4

\* Parameters with one field.
LEMMA SingleParams ==
  ASSUME NEW t \in {"apply_orientation", "encode", "decode"}, NEW x \in Nat
  PROVE  P(t, <<x>>) \in Params
<1>1. <<x>> \in Seq(Nat) /\ Len(<<x>>) = 1
  OBVIOUS
<1>2. /\ "apply_orientation" \in DOMAIN Fields /\ 1 \in Fields["apply_orientation"]
      /\ "encode" \in DOMAIN Fields /\ 1 \in Fields["encode"]
      /\ "decode" \in DOMAIN Fields /\ 1 \in Fields["decode"]
  BY DEF Fields
<1>3. P("apply_orientation", <<x>>) \in Params
  BY <1>1, <1>2, MadeParams
<1>4. P("encode", <<x>>) \in Params
  BY <1>1, <1>2, MadeParams
<1>5. P("decode", <<x>>) \in Params
  BY <1>1, <1>2, MadeParams
<1> QED
  BY <1>3, <1>4, <1>5

\* Parameters with no field.
LEMMA EmptyParams ==
  NoParams \in Params /\ P("color_matrix_srgb", <<>>) \in Params
<1>1. /\ "none" \in Fieldless \ DOMAIN Fields
      /\ "color_matrix_srgb" \in Fieldless \ DOMAIN Fields
  BY DEF Fields, Fieldless
<1>2. <<>> \in Seq(Nat)
  OBVIOUS
<1>3. NoParams = P("none", <<>>)
  BY DEF NoParams, P
<1>4. P("none", <<>>) \in Params
  BY <1>1, <1>2, MadeParams
<1>5. P("color_matrix_srgb", <<>>) \in Params
  BY <1>1, <1>2, MadeParams
<1> QED
  BY <1>3, <1>4, <1>5

\* The copy_rect parameters that expand_canvas makes up.
LEMMA RectangleParams ==
  ASSUME NEW x \in Nat, NEW y \in Nat, NEW w \in Nat, NEW h \in Nat
  PROVE  P("copy_rect", <<0, 0, w, h, x, y>>) \in Params
<1>1. <<0, 0, w, h, x, y>> \in Seq(Nat) /\ Len(<<0, 0, w, h, x, y>>) = 6
  OBVIOUS
<1>2. "copy_rect" \in DOMAIN Fields /\ 6 \in Fields["copy_rect"]
  BY DEF Fields
<1> QED
  BY <1>1, <1>2, MadeParams

\* Nodes that are not codecs, command strings or their parameters are well
\* formed whatever their parameters are.
LEMMA PlainNode ==
  ASSUME NEW d \in Defs \ (Decoders \cup {"primitive_encoder"}), NEW p \in Params,
         p.t \notin {"decode", "encode", "command_string"}
  PROVE  Node(d, p) \in Weights
BY DEF Node, Weights

\* Every node of an initial graph is well formed.
LEMMA InitialWeightType ==
  ASSUME NEW j \in Jobs
  PROVE  InitialWeight(j) \in [NodeId -> Weights]
<1>1. Node("create_canvas", NoParams) \in Weights
  <2>1. "create_canvas" \in Defs \ (Decoders \cup {"primitive_encoder"})
    BY DEF Defs, CanExecute, Decoders
  <2>2. NoParams.t \notin {"decode", "encode", "command_string"}
    BY DEF NoParams
  <2> QED
    BY <2>1, <2>2, EmptyParams, PlainNode
<1>2. j.nodes \in Seq(Weights)
  BY JobsAssumption
<1>3. \A n \in DOMAIN j.nodes : j.nodes[n] \in Weights
  BY <1>2, SequenceElements
<1> QED
  BY <1>1, <1>3 DEF InitialWeight

\* Parameters that are right for one node are right for any node that is not a
\* codec (MutProtect and command strings pass theirs on).
LEMMA SameParams ==
  ASSUME NEW d, NEW p, Node(d, p) \in Weights,
         NEW e \in Defs \ (Decoders \cup {"primitive_encoder"})
  PROVE  Node(e, p) \in Weights
BY DEF Node, Weights

\* A codec node for a known io id.
LEMMA CodecNode ==
  ASSUME NEW io \in IoId
  PROVE  /\ Node("decoder", P("decode", <<io>>)) \in Weights
         /\ Node("primitive_encoder", P("encode", <<io>>)) \in Weights
<1>1. io \in Nat
  BY BoundsAssumption
<1>2. P("decode", <<io>>) \in Params /\ P("encode", <<io>>) \in Params
  BY <1>1, SingleParams
<1>3. "decoder" \in Defs /\ "primitive_encoder" \in Defs
  BY DEF Defs, CanExpand, CanExecute
<1>4. /\ P("decode", <<io>>).t = "decode" /\ P("decode", <<io>>).a[1] = io
      /\ P("encode", <<io>>).t = "encode" /\ P("encode", <<io>>).a[1] = io
  BY DEF P
<1>5. "primitive_encoder" \notin Decoders
  BY DEF Decoders
<1> HIDE DEF P
<1> QED
  BY <1>2, <1>3, <1>4, <1>5 DEF Node, Weights

\* A new node whose parameters are neither a codec's nor a command string's.
LEMMA ResampleNode ==
  ASSUME NEW x \in Nat, NEW y \in Nat
  PROVE  Node("scale", P("scale", <<x, y>>)) \in Weights
<1>1. P("scale", <<x, y>>) \in Params /\ P("scale", <<x, y>>).t = "scale"
  BY PairParams DEF P
<1>2. "scale" \in Defs \ (Decoders \cup {"primitive_encoder"})
  BY DEF Defs, CanExpand, OneInputExpand, Decoders
<1> QED
  BY <1>1, <1>2, PlainNode

-----------------------------------------------------------------------------
(* Expansions are sequences of well-formed nodes.                          *)

\* Products of naturals, for the nonlinear terms below.
LEMMA ProductType ==
  ASSUME NEW x \in Nat, NEW y \in Nat
  PROVE  x * y \in Nat
OBVIOUS

\* constrain() yields a size.
LEMMA ScaleToType ==
  ASSUME NEW from \in Nat \ {0}, NEW to \in Nat, NEW other \in Nat
  PROVE  ScaleTo(from, to, other) \in Nat
<1>1. 2 * other * to + from \in Nat
  BY ProductType
<1>2. 2 * from \in Nat \ {0}
  OBVIOUS
<1>3. \A x \in Nat, y \in Nat \ {0} : x \div y \in Nat
  OBVIOUS
<1> QED
  BY <1>1, <1>2, <1>3 DEF ScaleTo

\* constrain() answers with a pair of naturals.
LEMMA ConstrainedType ==
  ASSUME NEW ow \in Nat, NEW oh \in Nat, NEW w \in Nat, NEW h \in Nat
  PROVE  /\ Constrained(ow, oh, w, h)[1] \in Nat /\ Constrained(ow, oh, w, h)[2] \in Nat
         /\ Constrained(ow, oh, w, h) = <<Constrained(ow, oh, w, h)[1], Constrained(ow, oh, w, h)[2]>>
<1>1. CASE w > 0 /\ h = 0 /\ w < ow
  <2>1. ow \in Nat \ {0}
    BY <1>1
  <2>2. Constrained(ow, oh, w, h) = <<w, ScaleTo(ow, w, oh)>>
    BY <1>1 DEF Constrained
  <2> QED
    BY <2>1, <2>2, ScaleToType
<1>2. CASE w = 0 /\ h > 0 /\ h < oh
  <2>1. oh \in Nat \ {0}
    BY <1>2
  <2>2. Constrained(ow, oh, w, h) = <<ScaleTo(oh, h, ow), h>>
    BY <1>2 DEF Constrained
  <2> QED
    BY <2>1, <2>2, ScaleToType
<1>3. CASE w > 0 /\ h > 0 /\ (w < ow \/ h < oh) /\ w * oh > ow * h
  <2>1. oh \in Nat \ {0}
    <3>1. oh = 0 => w * oh = 0
      OBVIOUS
    <3>2. ow * h \in Nat
      BY ProductType
    <3> QED
      BY <1>3, <3>1, <3>2
  <2>2. Constrained(ow, oh, w, h) = <<ScaleTo(oh, h, ow), h>>
    BY <1>3 DEF Constrained
  <2> QED
    BY <2>1, <2>2, ScaleToType
<1>4. CASE w > 0 /\ h > 0 /\ (w < ow \/ h < oh) /\ ~(w * oh > ow * h)
  <2>1. ow \in Nat \ {0}
    <3>1. SUFFICES ASSUME ow = 0 PROVE FALSE
      OBVIOUS
    <3>2. ow * h = 0
      BY <3>1
    <3>3. oh > 0 => w * oh > 0
      BY <1>4
    <3> QED
      BY <1>4, <3>1, <3>2, <3>3
  <2>2. Constrained(ow, oh, w, h) = <<w, ScaleTo(ow, w, oh)>>
    BY <1>4 DEF Constrained
  <2> QED
    BY <2>1, <2>2, ScaleToType
<1>5. CASE /\ ~(w > 0 /\ h = 0 /\ w < ow) /\ ~(w = 0 /\ h > 0 /\ h < oh)
           /\ ~(w > 0 /\ h > 0 /\ (w < ow \/ h < oh))
  BY <1>5 DEF Constrained
<1> QED
  BY <1>1, <1>2, <1>3, <1>4, <1>5

\* Definitions that expansions introduce without parameters.
Turning == {"transpose", "flip_v", "flip_h", "rotate_90", "rotate_180", "rotate_270"}

\* Such a node is well formed.
LEMMA TurningNode ==
  ASSUME NEW d \in Turning
  PROVE  Node(d, NoParams) \in Weights
<1>1. d \in Defs \ (Decoders \cup {"primitive_encoder"})
  BY DEF Turning, Defs, CanExpand, OneInputExpand, Protected, Inner, Decoders
<1>2. NoParams.t \notin {"decode", "encode", "command_string"}
  BY DEF NoParams
<1> QED
  BY <1>1, <1>2, EmptyParams, PlainNode

\* So is a sequence of them.
LEMMA BareType ==
  ASSUME NEW ds \in Seq(Turning)
  PROVE  Bare(ds) \in Seq(Weights)
<1>1. Len(ds) \in Nat /\ DOMAIN ds = 1 .. Len(ds) /\ \A i \in 1 .. Len(ds) : ds[i] \in Turning
  BY SequenceElements
<1>2. Bare(ds) = [i \in 1 .. Len(ds) |-> Node(ds[i], NoParams)]
  BY <1>1 DEF Bare
<1>3. \A i \in 1 .. Len(ds) : Bare(ds)[i] \in Weights
  BY <1>1, <1>2, TurningNode
<1>4. Bare(ds) = [i \in 1 .. Len(ds) |-> Bare(ds)[i]]
  BY <1>2
<1> QED
  BY <1>1, <1>3, <1>4, SequenceFromFunction

\* The definitions that orientation and rotation expand to.
LEMMA TurnsType ==
  /\ \A flag : OrientationSteps(flag) \in Seq(Turning)
  /\ <<"transpose", "flip_v">> \in Seq(Turning)
  /\ <<"flip_v", "flip_h">> \in Seq(Turning)
  /\ <<"flip_v", "transpose">> \in Seq(Turning)
<1>1. /\ "transpose" \in Turning /\ "flip_v" \in Turning /\ "flip_h" \in Turning
      /\ "rotate_90" \in Turning /\ "rotate_180" \in Turning /\ "rotate_270" \in Turning
  BY DEF Turning
<1>2. /\ <<"transpose", "flip_v">> \in Seq(Turning)
      /\ <<"flip_v", "flip_h">> \in Seq(Turning)
      /\ <<"flip_v", "transpose">> \in Seq(Turning)
      /\ <<"rotate_180", "transpose">> \in Seq(Turning)
  BY <1>1, ShortSequences
<1>3. /\ \A d \in Turning : <<d>> \in Seq(Turning)
      /\ <<>> \in Seq(Turning)
  BY <1>1, ShortSequences
<1>4. ASSUME NEW flag PROVE OrientationSteps(flag) \in Seq(Turning)
  <2>1. \/ OrientationSteps(flag) = <<"rotate_180", "transpose">>
        \/ \E d \in Turning : OrientationSteps(flag) = <<d>>
        \/ OrientationSteps(flag) = <<>>
    BY <1>1 DEF OrientationSteps
  <2> QED
    BY <1>2, <1>3, <2>1
<1> QED
  BY <1>2, <1>4

\* A command string expands to at most a resample and an encoder.
LEMMA CommandStepsType ==
  ASSUME NEW d, NEW p \in Params, p.t = "command_string", Node(d, p) \in Weights, NEW w, NEW h
  PROVE  CommandSteps(p, w, h) \in Seq(Weights)
<1> DEFINE scale == Node("scale", P("scale", <<p.a[1], p.a[2]>>))
           encode == Node("primitive_encoder", P("encode", <<p.a[4]>>))
           resampling == IF <<p.a[1], p.a[2]>> = <<w, h>> THEN <<>> ELSE <<scale>>
           encoding == IF p.a[4] = 0 THEN <<>> ELSE <<encode>>
<1>1. scale \in Weights
  BY FourFields, ResampleNode
<1>2. p.a[4] # 0 => encode \in Weights
  <2>1. p.a[4] \in IoId \cup {0}
    BY DEF Node, Weights
  <2> QED
    BY <2>1, CodecNode
<1>3. CommandSteps(p, w, h) = resampling \o encoding
  BY DEF CommandSteps
<1> HIDE DEF scale, encode
<1>4. resampling \in Seq(Weights)
  BY <1>1, ShortSequences
<1>5. encoding \in Seq(Weights)
  BY <1>2, ShortSequences
<1> HIDE DEF resampling, encoding
<1> QED
  BY <1>3, <1>4, <1>5, ConcatenationType

\* A client's command string becomes its expanding form, behind a decoder if it
\* names one.
LEMMA CommandChainType ==
  ASSUME NEW d, NEW p \in Params, p.t = "command_string", Node(d, p) \in Weights
  PROVE  CommandChain(p) \in Seq(Weights) /\ CommandChain(p) # <<>>
<1> DEFINE decode == Node("decoder", P("decode", <<p.a[3]>>))
           expand == Node("expanding_command_string", p)
           decoding == IF p.a[3] > 0 THEN <<decode>> ELSE <<>>
<1>1. p.a[3] > 0 => decode \in Weights
  <2>1. p.a[3] \in IoId \cup {0}
    BY DEF Node, Weights
  <2> QED
    BY <2>1, CodecNode
<1>2. expand \in Weights
  <2>1. "expanding_command_string" \in Defs \ (Decoders \cup {"primitive_encoder"})
    BY DEF Defs, CanExpand, Decoders
  <2> QED
    BY <2>1, SameParams
<1>3. CommandChain(p) = decoding \o <<expand>>
  BY DEF CommandChain
<1> HIDE DEF decode, expand
<1>4. decoding \in Seq(Weights)
  BY <1>1, ShortSequences
<1>5. <<expand>> \in Seq(Weights)
  BY <1>2, ShortSequences
<1> HIDE DEF decoding
<1>6. Len(decoding \o <<expand>>) = Len(decoding) + 1 /\ Len(decoding) \in Nat
  BY <1>4, <1>5
<1> QED
  BY <1>3, <1>4, <1>5, <1>6, ConcatenationType

\* Every definition that is replaced by a chain is replaced by a sequence of
\* well-formed nodes.
LEMMA ChainType ==
  ASSUME NEW d \in CanExpand \ ({"decoder", "command_string"} \cup ToCanvas),
         NEW p \in Params, Node(d, p) \in Weights, ParamsMatch(d, p),
         NEW w \in Nat, NEW h \in Nat, NEW shared
  PROVE  ChainOf(d, p, w, h, shared) \in Seq(Weights)
<1>1. CASE d \in Protected
  <2>1. Inner[d] \in Defs \ (Decoders \cup {"primitive_encoder"})
    BY <1>1 DEF Defs, CanExecute, MutateBitmap, Protected, Inner, Decoders
  <2>2. Node(Inner[d], p) \in Weights
    BY <2>1, SameParams
  <2>3. NoParams.t \notin {"decode", "encode", "command_string"}
    BY DEF NoParams
  <2>4. Node(Inner[d], NoParams) \in Weights
    BY <2>1, <2>3, EmptyParams, PlainNode
  <2>5. \/ ChainOf(d, p, w, h, shared) = <<Node(Inner[d], NoParams), Node(Inner[d], p)>>
        \/ ChainOf(d, p, w, h, shared) = <<Node(Inner[d], p)>>
    BY <1>1 DEF ChainOf, ProtectedChain, Protected, Inner
  <2> QED
    BY <2>2, <2>4, <2>5, ShortSequences
<1>2. CASE d = "apply_orientation"
  <2>1. ChainOf(d, p, w, h, shared) = Bare(OrientationSteps(p.a[1]))
    BY <1>2 DEF ChainOf, Protected, Inner
  <2> QED
    BY <2>1, TurnsType, BareType
<1>3. CASE d \in {"rotate_90", "rotate_180", "rotate_270"}
  <2>1. \/ ChainOf(d, p, w, h, shared) = Bare(<<"transpose", "flip_v">>)
        \/ ChainOf(d, p, w, h, shared) = Bare(<<"flip_v", "flip_h">>)
        \/ ChainOf(d, p, w, h, shared) = Bare(<<"flip_v", "transpose">>)
    BY <1>3 DEF ChainOf, Protected, Inner
  <2> QED
    BY <2>1, TurnsType, BareType
<1>4. CASE d = "color_filter_srgb"
  <2> DEFINE matrix == P("color_matrix_srgb", <<>>)
  <2>1. ChainOf(d, p, w, h, shared) = <<Node("color_matrix_srgb_mutate", matrix)>>
    BY <1>4 DEF ChainOf, FilterChain, Protected, Inner
  <2>2. /\ "color_matrix_srgb_mutate" \in Defs \ (Decoders \cup {"primitive_encoder"})
        /\ matrix.t = "color_matrix_srgb"
    BY DEF P, Defs, CanExecute, MutateBitmap, Decoders
  <2>3. Node("color_matrix_srgb_mutate", matrix) \in Weights
    BY <2>2, EmptyParams, PlainNode
  <2> QED
    BY <2>1, <2>3, ShortSequences
<1>5. CASE d = "constrain"
  <2>1. p.t = "constrain"
    BY <1>5 DEF ParamsMatch, TagOf
  <2> DEFINE size == Constrained(w, h, p.a[1], p.a[2])
  <2>2. p.a[1] \in Nat /\ p.a[2] \in Nat
    BY <2>1, TwoFields
  <2>3. size[1] \in Nat /\ size[2] \in Nat /\ size = <<size[1], size[2]>>
    BY <2>2, ConstrainedType
  <2>4. \/ ChainOf(d, p, w, h, shared) = <<>>
        \/ ChainOf(d, p, w, h, shared) = <<Node("scale", P("scale", size))>>
    BY <1>5 DEF ChainOf, ConstrainChain, Protected, Inner
  <2> HIDE DEF size
  <2>5. Node("scale", P("scale", size)) \in Weights
    BY <2>3, ResampleNode
  <2> QED
    BY <2>4, <2>5, ShortSequences
<1>6. CASE d = "expanding_command_string"
  <2>1. ChainOf(d, p, w, h, shared) = CommandSteps(p, w, h)
    BY <1>6 DEF ChainOf, Protected, Inner
  <2>2. p.t = "command_string"
    BY <1>6 DEF ParamsMatch, TagOf
  <2> QED
    BY <2>1, <2>2, CommandStepsType
<1> QED
  BY <1>1, <1>2, <1>3, <1>4, <1>5, <1>6 DEF CanExpand, OneInputExpand, ToCanvas

\* Likewise the canvas and the rendering node of the others.
LEMMA CanvasType ==
  ASSUME NEW d \in ToCanvas, NEW p \in Params, Node(d, p) \in Weights, ParamsMatch(d, p),
         NEW w \in Nat, NEW h \in Nat
  PROVE  CanvasFor(d, p, w, h) \in Weights /\ RenderFor(d, p, w, h) \in Weights
<1>1. \A x, y \in Nat : Node("create_canvas", P("create_canvas", <<x, y>>)) \in Weights
  <2> TAKE x, y \in Nat
  <2>1. P("create_canvas", <<x, y>>) \in Params /\ P("create_canvas", <<x, y>>).t = "create_canvas"
    BY PairParams DEF P
  <2>2. "create_canvas" \in Defs \ (Decoders \cup {"primitive_encoder"})
    BY DEF Defs, CanExecute, Decoders
  <2> QED
    BY <2>1, <2>2, PlainNode
<1>2. {"transpose_mut", "copy_rect", "scale_2d_to_canvas"}
         \subseteq Defs \ (Decoders \cup {"primitive_encoder"})
  BY DEF Defs, CanExecute, OneInputOneCanvas, Decoders
<1>3. CASE d = "transpose"
  <2>1. /\ CanvasFor(d, p, w, h) = Node("create_canvas", P("create_canvas", <<h, w>>))
        /\ RenderFor(d, p, w, h) = Node("transpose_mut", NoParams)
    BY <1>3 DEF CanvasFor, RenderFor
  <2>2. NoParams.t \notin {"decode", "encode", "command_string"}
    BY DEF NoParams
  <2> QED
    BY <1>1, <1>2, <2>1, <2>2, EmptyParams, PlainNode
<1>4. CASE d = "expand_canvas"
  <2> DEFINE rectangle == P("copy_rect", <<0, 0, w, h, p.a[1], p.a[2]>>)
  <2>1. p.t = "expand_canvas"
    BY <1>4 DEF ParamsMatch, TagOf
  <2>2. p.a[1] \in Nat /\ p.a[2] \in Nat /\ p.a[3] \in Nat /\ p.a[4] \in Nat
    BY <2>1, FourFields
  <2>3. rectangle \in Params /\ rectangle.t = "copy_rect"
    BY <2>2, RectangleParams DEF P
  <2>4. /\ CanvasFor(d, p, w, h) =
              Node("create_canvas", P("create_canvas", <<w + p.a[1] + p.a[3], h + p.a[2] + p.a[4]>>))
        /\ RenderFor(d, p, w, h) = Node("copy_rect", rectangle)
    BY <1>4 DEF CanvasFor, RenderFor
  <2> HIDE DEF rectangle
  <2>5. CanvasFor(d, p, w, h) \in Weights
    BY <1>1, <2>2, <2>4
  <2> QED
    BY <1>2, <2>3, <2>4, <2>5, PlainNode
<1>5. CASE d = "scale"
  <2>1. p.t = "scale"
    BY <1>5 DEF ParamsMatch, TagOf
  <2>2. p.a[1] \in Nat /\ p.a[2] \in Nat
    BY <2>1, TwoFields
  <2>3. /\ CanvasFor(d, p, w, h) = Node("create_canvas", P("create_canvas", <<p.a[1], p.a[2]>>))
        /\ RenderFor(d, p, w, h) = Node("scale_2d_to_canvas", p)
    BY <1>5 DEF CanvasFor, RenderFor
  <2> QED
    BY <1>1, <1>2, <2>2, <2>3, SameParams
<1> QED
  BY <1>3, <1>4, <1>5 DEF ToCanvas

-----------------------------------------------------------------------------
(* Surgery on the graph.                                                   *)

\* The definition and parameters of a node.
LEMMA WeightType ==
  ASSUME GraphTyped, NEW n \in NodeId
  PROVE  /\ weight[n].def \in Defs /\ weight[n].p \in Params
         /\ weight[n] = Node(weight[n].def, weight[n].p)
         /\ weight[n] \in Weights
BY DEF GraphTyped, Weights, Node

\* Nodes joined by an edge are nodes.
LEMMA ParentType ==
  ASSUME GraphTyped, NEW n
  PROVE  /\ \A p \in Parents(n) : p \in NodeId
         /\ \A kind : HasParent(n, kind) => /\ Parent(n, kind) \in NodeId
                                            /\ Parent(n, kind) \in Parents(n)
<1>1. \A e \in Into(n) : e.src \in NodeId
  BY DEF GraphTyped, Into, Edge
<1>2. \A kind : ParentsOf(n, kind) \subseteq Parents(n)
  BY DEF ParentsOf, Parents
<1>3. \A kind : HasParent(n, kind) => Parent(n, kind) \in ParentsOf(n, kind)
  BY DEF HasParent, Parent
<1> QED
  BY <1>1, <1>2, <1>3 DEF Parents

\* Live nodes are node identities.
LEMMA LiveType ==
  ASSUME GraphTyped
  PROVE  Live \subseteq NodeId
<1>1. nodes \in Seq(NodeId)
  BY DEF GraphTyped
<1> QED
  BY <1>1, SequenceElements DEF Live

\* Edges moved to other nodes are edges.
LEMMA EdgesType ==
  ASSUME GraphTyped, NEW n, NEW first \in NodeId, NEW last \in NodeId
  PROVE  Detached(n) \cup InTo(n, first) \cup OutFrom(n, last) \subseteq Edge
<1>1. Detached(n) \subseteq Edge /\ Into(n) \subseteq Edge /\ OutOf(n) \subseteq Edge
  BY DEF GraphTyped, Detached, Into, OutOf
<1>2. \A e \in Edge : [e EXCEPT !.dst = first] \in Edge /\ [e EXCEPT !.src = last] \in Edge
  BY DEF Edge
<1>3. InTo(n, first) \subseteq Edge /\ OutFrom(n, last) \subseteq Edge
  BY <1>1, <1>2 DEF InTo, OutFrom
<1> QED
  BY <1>1, <1>3

\* Allocation hands out unused node identities for well-formed nodes.
LEMMA AllocateTyped ==
  ASSUME GraphTyped, NEW ns \in Seq(Weights), Allocate(ns)
  PROVE  /\ weight' \in [NodeId -> Weights] /\ nextNode' \in 1 .. MaxNodes + 1
         /\ NewIds(Len(ns)) \in Seq(NodeId)
         /\ \A m \in nextNode .. nextNode + Len(ns) - 1 : m \in NodeId
<1>1. Len(ns) \in Nat /\ \A i \in 1 .. Len(ns) : ns[i] \in Weights
  BY SequenceElements
<1>2. nextNode \in Nat \ {0} /\ MaxNodes \in Nat /\ nextNode + Len(ns) - 1 <= MaxNodes
  BY BoundsAssumption DEF GraphTyped, Allocate
<1>3. \A m \in nextNode .. nextNode + Len(ns) - 1 : m \in NodeId /\ m - nextNode + 1 \in 1 .. Len(ns)
  BY <1>1, <1>2 DEF NodeId
<1>4. weight' \in [NodeId -> Weights]
  <2>1. \A m \in NodeId : weight[m] \in Weights
    BY DEF GraphTyped
  <2>2. weight' = [m \in NodeId |-> IF m \in Fresh(Len(ns)) THEN ns[m - nextNode + 1] ELSE weight[m]]
    BY DEF Allocate, NewWeights
  <2>3. \A m \in Fresh(Len(ns)) : ns[m - nextNode + 1] \in Weights
    BY <1>1, <1>3 DEF Fresh
  <2> QED
    BY <2>1, <2>2, <2>3
<1>5. nextNode' \in 1 .. MaxNodes + 1
  BY <1>1, <1>2 DEF Allocate
<1>6. NewIds(Len(ns)) \in Seq(NodeId)
  <2>1. \A i \in 1 .. Len(ns) : nextNode + i - 1 \in NodeId
    BY <1>1, <1>2 DEF NodeId
  <2>2. NewIds(Len(ns)) \in [1 .. Len(ns) -> NodeId]
    BY <2>1 DEF NewIds
  <2> QED
    BY <1>1, <2>2
<1> QED
  BY <1>3, <1>4, <1>5, <1>6

\* Forgetting a node resets its estimate and its result only.
LEMMA ForgetTyped ==
  ASSUME est \in [NodeId -> Estimates], result \in [NodeId -> Results], NEW n, Forget(n)
  PROVE  /\ est' \in [NodeId -> Estimates]
         /\ result' \in [NodeId -> Results]
         /\ \A m \in NodeId : result'[m] = result[m] \/ result'[m] = NoResult
<1>1. Unknown \in Estimates /\ NoResult \in Results
  BY DEF Unknown, Est, Estimates, Results
<1> QED
  BY <1>1 DEF Forget

\* delete_node_and_snap_together keeps the graph well formed.
LEMMA SnapTogetherTyped ==
  ASSUME GraphTyped, NEW n, SnapTogether(n)
  PROVE  GraphTyped' /\ Forget(n)
<1>1. PICK p \in Parents(n) : /\ edges' = Detached(n) \cup OutFrom(n, p)
                              /\ nodes' = SwapRemove(nodes, IndexOf(n))
                              /\ UNCHANGED <<weight, nextNode>>
                              /\ Forget(n)
  BY DEF SnapTogether
<1>2. p \in NodeId
  BY ParentType
<1>3. edges' \subseteq Edge
  BY <1>1, <1>2, EdgesType
<1>4. nodes' \in Seq(NodeId)
  BY <1>1, SwapRemoveType DEF GraphTyped
<1> QED
  BY <1>1, <1>3, <1>4 DEF GraphTyped

\* replace_node with a chain keeps the graph well formed.
LEMMA ReplaceWithChainTyped ==
  ASSUME GraphTyped, NEW n, NEW chain \in Seq(Weights), chain # <<>>, ReplaceWithChain(n, chain)
  PROVE  GraphTyped' /\ Forget(n)
<1> DEFINE k == Len(chain)
           last == nextNode + k - 1
           links == {[src |-> m, dst |-> m + 1, kind |-> "input"] : m \in nextNode .. last - 1}
<1>1. /\ Allocate(chain) /\ Forget(n)
      /\ nodes' = SwapRemove(nodes \o NewIds(k), IndexOf(n))
      /\ edges' = Detached(n) \cup InTo(n, nextNode) \cup OutFrom(n, last) \cup links
  BY DEF ReplaceWithChain
<1>2. k \in Nat \ {0} /\ nextNode \in Nat
  BY DEF GraphTyped
<1>3. /\ weight' \in [NodeId -> Weights] /\ nextNode' \in 1 .. MaxNodes + 1
      /\ NewIds(k) \in Seq(NodeId)
      /\ \A m \in nextNode .. last : m \in NodeId
  BY <1>1, AllocateTyped
<1>4. nodes' \in Seq(NodeId)
  <2>1. nodes \o NewIds(k) \in Seq(NodeId)
    BY <1>3, ConcatenationType DEF GraphTyped
  <2> QED
    BY <1>1, <2>1, SwapRemoveType
<1>5. links \subseteq Edge
  <2>1. \A m \in nextNode .. last - 1 : m \in NodeId /\ m + 1 \in NodeId
    BY <1>2, <1>3
  <2> QED
    BY <2>1 DEF Edge, Kinds
<1>6. nextNode \in NodeId /\ last \in NodeId
  BY <1>2, <1>3
<1>7. edges' \subseteq Edge
  BY <1>1, <1>5, <1>6, EdgesType
<1> QED
  BY <1>1, <1>3, <1>4, <1>7 DEF GraphTyped

\* replace_node keeps the graph well formed.
LEMMA ReplaceNodeTyped ==
  ASSUME GraphTyped, NEW n, NEW chain \in Seq(Weights), ReplaceNode(n, chain)
  PROVE  GraphTyped' /\ Forget(n)
BY SnapTogetherTyped, ReplaceWithChainTyped DEF ReplaceNode

\* replace_node_with_existing keeps the graph well formed.
LEMMA ReplaceWithCanvasTyped ==
  ASSUME GraphTyped, NEW n, NEW canvas \in Weights, NEW render \in Weights,
         ReplaceWithCanvas(n, canvas, render)
  PROVE  GraphTyped' /\ Forget(n)
<1> DEFINE link == [src |-> nextNode, dst |-> nextNode + 1, kind |-> "canvas"]
<1>1. /\ Allocate(<<canvas, render>>) /\ Forget(n)
      /\ nodes' = SwapRemove(nodes \o NewIds(2), IndexOf(n))
      /\ edges' = Detached(n) \cup InTo(n, nextNode + 1) \cup OutFrom(n, nextNode + 1) \cup {link}
  BY DEF ReplaceWithCanvas
<1>2. <<canvas, render>> \in Seq(Weights) /\ Len(<<canvas, render>>) = 2
  OBVIOUS
<1>3. /\ weight' \in [NodeId -> Weights] /\ nextNode' \in 1 .. MaxNodes + 1
      /\ NewIds(2) \in Seq(NodeId)
      /\ \A m \in nextNode .. nextNode + 2 - 1 : m \in NodeId
  BY <1>1, <1>2, AllocateTyped
<1>4. nodes' \in Seq(NodeId)
  <2>1. nodes \o NewIds(2) \in Seq(NodeId)
    BY <1>3, ConcatenationType DEF GraphTyped
  <2> QED
    BY <1>1, <2>1, SwapRemoveType
<1>5. nextNode \in NodeId /\ nextNode + 1 \in NodeId
  BY <1>3 DEF GraphTyped
<1>6. link \in Edge
  BY <1>5 DEF Edge, Kinds
<1>7. edges' \subseteq Edge
  BY <1>1, <1>5, <1>6, EdgesType
<1> QED
  BY <1>1, <1>3, <1>4, <1>7 DEF GraphTyped

\* The orientation parsed so far is an EXIF orientation.
LEMMA ExifFlagType ==
  ASSUME job \in Jobs, NEW io \in IoId
  PROVE  ExifFlag(io) \in 0 .. 8
<1>1. job.io[io].exif \in 0 .. 8
  BY JobsAssumption DEF Media
<1> QED
  BY <1>1 DEF ExifFlag

\* A decoder works for a known io id.
LEMMA DecoderIo ==
  ASSUME GraphTyped, NEW n \in NodeId,
         weight[n].def \in Decoders \/ weight[n].def = "primitive_encoder"
  PROVE  IoOf(n) \in IoId
BY WeightType DEF Weights, IoOf

\* DecoderDef::expand keeps the graph well formed.
LEMMA ExpandDecoderTyped ==
  ASSUME GraphTyped, job \in Jobs, NEW n \in NodeId, weight[n].def = "decoder", ExpandDecoder(n)
  PROVE  GraphTyped' /\ UNCHANGED <<est, result>>
<1> DEFINE turn == Node("apply_orientation", P("apply_orientation", <<ExifFlag(IoOf(n))>>))
<1>1. BecomesPrimitive(weight, n) \in [NodeId -> Weights]
  <2>1. "primitive_decoder" \in Defs /\ "primitive_decoder" \in Decoders
    BY DEF Defs, CanExecute, Decoders
  <2>2. [weight[n] EXCEPT !.def = "primitive_decoder"] \in Weights
    BY <2>1, WeightType DEF Weights, Decoders
  <2> QED
    BY <2>2 DEF BecomesPrimitive, GraphTyped
<1>2. CASE ExifFlag(IoOf(n)) > 0
  <2>1. /\ nextNode <= MaxNodes /\ nextNode' = nextNode + 1
        /\ nodes' = Append(nodes, nextNode)
        /\ edges' = (edges \ OutOf(n)) \cup OutFrom(n, nextNode)
                      \cup {[src |-> n, dst |-> nextNode, kind |-> "input"]}
        /\ weight' = [BecomesPrimitive(weight, n) EXCEPT ![nextNode] = turn]
    BY <1>2 DEF ExpandDecoder
  <2>2. nextNode \in NodeId /\ nextNode' \in 1 .. MaxNodes + 1
    BY <2>1, BoundsAssumption DEF GraphTyped, NodeId
  <2>3. turn \in Weights
    <3>1. IoOf(n) \in IoId
      BY DecoderIo DEF Decoders
    <3>2. ExifFlag(IoOf(n)) \in Nat
      BY <3>1, ExifFlagType
    <3>3. P("apply_orientation", <<ExifFlag(IoOf(n))>>) \in Params
      BY <3>2, SingleParams
    <3>4. P("apply_orientation", <<ExifFlag(IoOf(n))>>).t = "apply_orientation"
      BY DEF P
    <3>5. "apply_orientation" \in Defs \ (Decoders \cup {"primitive_encoder"})
      BY DEF Defs, CanExpand, OneInputExpand, Decoders
    <3> QED
      BY <3>3, <3>4, <3>5, PlainNode
  <2> HIDE DEF turn
  <2>4. weight' \in [NodeId -> Weights]
    BY <1>1, <2>1, <2>3
  <2>5. nodes' \in Seq(NodeId)
    BY <2>1, <2>2 DEF GraphTyped
  <2>6. edges' \subseteq Edge
    <3>1. OutFrom(n, nextNode) \subseteq Edge
      BY <2>2, EdgesType
    <3>2. [src |-> n, dst |-> nextNode, kind |-> "input"] \in Edge
      BY <2>2 DEF Edge, Kinds
    <3> QED
      BY <2>1, <3>1, <3>2 DEF GraphTyped
  <2>7. UNCHANGED <<est, result>>
    BY DEF ExpandDecoder
  <2> QED
    BY <2>2, <2>4, <2>5, <2>6, <2>7 DEF GraphTyped
<1>3. CASE ~(ExifFlag(IoOf(n)) > 0)
  <2>1. weight' = BecomesPrimitive(weight, n) /\ UNCHANGED <<nodes, edges, nextNode, est, result>>
    BY <1>3 DEF ExpandDecoder
  <2> QED
    BY <1>1, <2>1 DEF GraphTyped
<1> QED
  BY <1>2, <1>3

\* Whatever a node expands to, the graph stays a graph of well-formed nodes,
\* and no other node loses its estimate or its result.
LEMMA ExpandTyped ==
  ASSUME GraphTyped, FramesTyped, job \in Jobs, NEW n \in NodeId, weight[n].def \in CanExpand,
         ~ExpandFails(n), Expand(n)
  PROVE  /\ GraphTyped'
         /\ est' \in [NodeId -> Estimates] /\ result' \in [NodeId -> Results]
         /\ \A m \in NodeId : result'[m] = result[m] \/ result'[m] = NoResult
<1> DEFINE d == weight[n].def
           p == weight[n].p
           w == est[Input(n)].w
           h == est[Input(n)].h
<1>1. d \in CanExpand /\ p \in Params /\ Node(d, p) \in Weights /\ ParamsMatch(d, p)
  <2>1. p \in Params /\ Node(d, p) \in Weights
    BY WeightType
  <2> QED
    BY <2>1 DEF ExpandFails
<1>2. d \in OneInputExpand \cup {"expanding_command_string"} => w \in Nat /\ h \in Nat
  <2>1. d \in OneInputExpand \cup {"expanding_command_string"} => Input(n) \in NodeId
    BY ParentType DEF ExpandFails, Input
  <2> QED
    BY <2>1 DEF FramesTyped, Estimates
<1>3. est \in [NodeId -> Estimates] /\ result \in [NodeId -> Results]
  BY DEF FramesTyped
<1>4. CASE d = "decoder"
  <2>1. ExpandDecoder(n)
    BY <1>4 DEF Expand, ToCanvas
  <2> QED
    BY <1>3, <1>4, <2>1, ExpandDecoderTyped
<1>5. CASE d = "command_string"
  <2>1. ReplaceNode(n, CommandChain(p))
    BY <1>5 DEF Expand, ToCanvas
  <2>2. p.t = "command_string"
    BY <1>1, <1>5 DEF ParamsMatch, TagOf
  <2>3. CommandChain(p) \in Seq(Weights)
    BY <1>1, <2>2, CommandChainType
  <2>4. GraphTyped' /\ Forget(n)
    BY <2>1, <2>3, ReplaceNodeTyped
  <2> QED
    BY <1>3, <2>4, ForgetTyped
<1>6. CASE d \in ToCanvas
  <2>1. ReplaceWithCanvas(n, CanvasFor(d, p, w, h), RenderFor(d, p, w, h))
    BY <1>6 DEF Expand, ToCanvas
  <2>2. w \in Nat /\ h \in Nat
    BY <1>2, <1>6 DEF ToCanvas, OneInputExpand
  <2>3. CanvasFor(d, p, w, h) \in Weights /\ RenderFor(d, p, w, h) \in Weights
    BY <1>1, <1>6, <2>2, CanvasType
  <2>4. GraphTyped' /\ Forget(n)
    BY <2>1, <2>3, ReplaceWithCanvasTyped
  <2> QED
    BY <1>3, <2>4, ForgetTyped
<1>7. CASE d \notin {"decoder", "command_string"} \cup ToCanvas
  <2> DEFINE chain == ChainOf(d, p, w, h, HasOtherChildren(Input(n), n))
  <2>1. ReplaceNode(n, chain)
    BY <1>7 DEF Expand
  <2>2. w \in Nat /\ h \in Nat
    BY <1>1, <1>2, <1>7 DEF CanExpand
  <2>3. chain \in Seq(Weights)
    BY <1>1, <1>7, <2>2, ChainType
  <2>4. GraphTyped' /\ Forget(n)
    BY <2>1, <2>3, ReplaceNodeTyped
  <2> QED
    BY <1>3, <2>4, ForgetTyped
<1> QED
  BY <1>4, <1>5, <1>6, <1>7

-----------------------------------------------------------------------------
(* Codecs and estimates.                                                   *)

\* A scaled JPEG is never empty.
LEMMA EighthsType ==
  ASSUME NEW v \in Nat \ {0}, NEW i \in Scales
  PROVE  Eighths(v, i) \in Nat \ {0}
<1>1. i \in 1 .. 8
  BY DEF Scales
<1>2. v * i \in Nat /\ v * i >= 1
  BY <1>1
<1>3. \A x \in Nat : x >= 8 => x \div 8 \in Nat \ {0}
  OBVIOUS
<1> QED
  BY <1>2, <1>3 DEF Eighths

\* Asking a decoder for its size leaves a decoder with a size.
LEMMA InformedType ==
  ASSUME NEW d \in Media, NEW c \in CodecStates
  PROVE  Informed(d, c) \in CodecStates
<1> DEFINE begun == [c EXCEPT !.begun = TRUE]
<1>1. begun \in CodecStates
  BY DEF CodecStates
<1>2. ASSUME NEW b \in CodecStates
      PROVE  Downscaled(d, b) \in CodecStates
  <2> DEFINE covers == {i \in Scales : Eighths(d.w, i) >= b.hint[1] /\ Eighths(d.h, i) >= b.hint[2]}
             least == CHOOSE i \in covers : \A j \in covers : i <= j
  <2>1. ASSUME covers # {}
        PROVE  least \in Scales
    <3>1. \E i \in covers : \A j \in covers : i <= j
      <4>1. covers \subseteq {1, 2, 3, 4, 5, 6, 8}
        BY DEF Scales
      <4> HIDE DEF covers
      <4>2. SUFFICES ASSUME \A i \in covers : \E j \in covers : j < i PROVE FALSE
        BY <4>1
      <4>3. 1 \notin covers
        BY <4>1, <4>2
      <4>4. 2 \notin covers
        BY <4>1, <4>2, <4>3
      <4>5. 3 \notin covers
        BY <4>1, <4>2, <4>3, <4>4
      <4>6. 4 \notin covers
        BY <4>1, <4>2, <4>3, <4>4, <4>5
      <4>7. 5 \notin covers
        BY <4>1, <4>2, <4>3, <4>4, <4>5, <4>6
      <4>8. 6 \notin covers /\ 8 \notin covers
        BY <4>1, <4>2, <4>3, <4>4, <4>5, <4>6, <4>7
      <4> QED
        BY <2>1, <4>1, <4>3, <4>4, <4>5, <4>6, <4>7, <4>8
    <3>2. least \in covers
      BY <3>1
    <3> QED
      BY <3>2
  <2>2. ASSUME NEW i \in Scales
        PROVE  [b EXCEPT !.w = Eighths(d.w, i), !.h = Eighths(d.h, i)] \in CodecStates
    <3>1. Eighths(d.w, i) \in Nat \ {0} /\ Eighths(d.h, i) \in Nat \ {0}
      BY EighthsType DEF Media
    <3> QED
      BY <3>1 DEF CodecStates
  <2>3. \/ Downscaled(d, b) = b
        \/ covers # {} /\ Downscaled(d, b) = [b EXCEPT !.w = Eighths(d.w, least), !.h = Eighths(d.h, least)]
    BY DEF Downscaled
  <2> HIDE DEF least
  <2> QED
    BY <2>1, <2>2, <2>3
<1> HIDE DEF begun
<1>3. Informed(d, c) = Downscaled(d, begun) \/ Informed(d, c) = begun
  BY DEF Informed, begun
<1> QED
  BY <1>1, <1>2, <1>3

\* A decoder that was told something is still a decoder.
LEMMA ToldType ==
  ASSUME NEW d, NEW c \in CodecStates, NEW hint \in Seq(Nat)
  PROVE  Told(d, c, hint) \in CodecStates
BY DEF Told, CodecStates

\* Quotients of naturals.
LEMMA PositiveQuotient ==
  ASSUME NEW x \in Nat, NEW y \in Nat \ {0}
  PROVE  x \div y \in Nat
OBVIOUS

\* The hint a command string sends is a pair of naturals, or none.
LEMMA DecodeHintType ==
  ASSUME NEW sw \in Nat, NEW sh \in Nat, NEW tw \in Nat
  PROVE  DecodeHint(sw, sh, tw) \in Seq(Nat)
<1> DEFINE least == IF sw < sh THEN sw ELSE sh
           x == (sw * 21 * tw) \div (10 * least)
           y == (sh * 21 * tw) \div (10 * least)
<1>1. CASE 21 * tw < 10 * least
  <2>1. 10 * least \in Nat \ {0}
    BY <1>1
  <2>2. sw * 21 * tw \in Nat /\ sh * 21 * tw \in Nat
    <3>1. sw * 21 \in Nat /\ sh * 21 \in Nat
      OBVIOUS
    <3> QED
      BY <3>1, ProductType
  <2>3. x \in Nat /\ y \in Nat
    BY <2>1, <2>2, PositiveQuotient
  <2>4. DecodeHint(sw, sh, tw) = <<x, y>>
    BY <1>1 DEF DecodeHint
  <2> HIDE DEF x, y
  <2> QED
    BY <2>3, <2>4
<1>2. CASE ~(21 * tw < 10 * least)
  <2>1. DecodeHint(sw, sh, tw) = <<>>
    BY <1>2 DEF DecodeHint
  <2> QED
    BY <2>1
<1> QED
  BY <1>1, <1>2

\* A size is an estimate.
LEMMA KnownType ==
  ASSUME NEW w \in Nat, NEW h \in Nat
  PROVE  Known(w, h) \in Estimates
BY DEF Known, Est, Estimates

\* What an expanding definition estimates from its parent's estimate.
LEMMA MapFrameType ==
  ASSUME NEW d \in OneInputExpand \ Protected, NEW p \in Params,
         d # "color_filter_srgb" => ParamsMatch(d, p),
         NEW e \in Estimates
  PROVE  MapFrame(d, p, e) \in Estimates
<1>1. e.w \in Nat /\ e.h \in Nat
  BY DEF Estimates
<1>2. CASE d \in {"apply_orientation", "transpose", "rotate_90", "rotate_270"}
  <2>1. MapFrame(d, p, e) = e \/ MapFrame(d, p, e) = Known(e.h, e.w)
    BY <1>2 DEF MapFrame, OrientedEst
  <2> QED
    BY <1>1, <2>1, KnownType
<1>3. CASE d = "expand_canvas"
  <2>1. p.a[1] \in Nat /\ p.a[2] \in Nat /\ p.a[3] \in Nat /\ p.a[4] \in Nat
    BY <1>3, FourFields DEF ParamsMatch, TagOf
  <2>2. \/ MapFrame(d, p, e) = e
        \/ MapFrame(d, p, e) = Known(e.w + p.a[1] + p.a[3], e.h + p.a[2] + p.a[4])
    BY <1>3 DEF MapFrame, ExpandedEst
  <2> QED
    BY <1>1, <2>1, <2>2, KnownType
<1>4. CASE d = "scale"
  <2>1. p.a[1] \in Nat /\ p.a[2] \in Nat
    BY <1>4, TwoFields DEF ParamsMatch, TagOf
  <2>2. MapFrame(d, p, e) = e \/ MapFrame(d, p, e) = Known(p.a[1], p.a[2])
    BY <1>4 DEF MapFrame, ScaledEst
  <2> QED
    BY <2>1, <2>2, KnownType
<1>5. CASE d = "constrain"
  <2> DEFINE size == Constrained(e.w, e.h, p.a[1], p.a[2])
  <2>1. p.a[1] \in Nat /\ p.a[2] \in Nat
    BY <1>5, TwoFields DEF ParamsMatch, TagOf
  <2>2. size[1] \in Nat /\ size[2] \in Nat
    BY <1>1, <2>1, ConstrainedType
  <2>3. MapFrame(d, p, e) = e \/ MapFrame(d, p, e) = Known(size[1], size[2])
    BY <1>5 DEF MapFrame, ConstrainedEst
  <2> HIDE DEF size
  <2> QED
    BY <2>2, <2>3, KnownType
<1>6. CASE d \in {"rotate_180", "color_filter_srgb"}
  BY <1>6 DEF MapFrame
<1> QED
  BY <1>2, <1>3, <1>4, <1>5, <1>6 DEF OneInputExpand

\* The parent's estimate is one, wherever estimating reads it.
LEMMA ParentEstType ==
  ASSUME GraphTyped, FramesTyped, NEW n \in NodeId, ~EstimateFails(n), ~SecondThoughts(n),
         EstimatesFrom(weight[n].def) # {}
  PROVE  ParentEst(n) \in Estimates
<1> DEFINE kind == CHOOSE k \in EstimatesFrom(weight[n].def) : TRUE
<1>1. kind \in EstimatesFrom(weight[n].def)
  OBVIOUS
<1> HIDE DEF kind
<1>2. HasParent(n, kind)
  BY <1>1 DEF EstimateFails
<1>3. Parent(n, kind) \in NodeId
  BY <1>2, ParentType
<1>4. ParentEst(n) = est[Parent(n, kind)]
  BY DEF ParentEst, kind
<1> QED
  BY <1>3, <1>4 DEF FramesTyped

\* Estimating yields an estimate ...
LEMMA EstimatedType ==
  ASSUME GraphTyped, FramesTyped, job \in Jobs, NEW n \in NodeId, ~EstimateFails(n)
  PROVE  Estimated(n) \in Estimates
<1> DEFINE d == weight[n].def
           p == weight[n].p
<1>1. d \in Defs /\ p \in Params
  BY WeightType
<1>2. Impossible \in Estimates /\ Invalidate \in Estimates /\ Unknown \in Estimates
  BY DEF Impossible, Invalidate, Unknown, Est, Estimates
<1>3. CASE d \in Decoders
  <2>1. IoOf(n) \in IoId
    BY <1>3, DecoderIo
  <2>2. job.io[IoOf(n)] \in Media /\ codec[IoOf(n)] \in CodecStates
    BY <2>1, JobsAssumption DEF FramesTyped
  <2>3. Informed(job.io[IoOf(n)], codec[IoOf(n)]) \in CodecStates
    BY <2>2, InformedType
  <2>4. Estimated(n) = Known(Informed(job.io[IoOf(n)], codec[IoOf(n)]).w,
                             Informed(job.io[IoOf(n)], codec[IoOf(n)]).h)
    BY <1>3 DEF Estimated, Decoders, OneInputExpand
  <2> QED
    BY <2>3, <2>4, KnownType DEF CodecStates
<1>4. CASE d = "create_canvas"
  <2>1. p.t = "create_canvas"
    BY <1>4 DEF EstimateFails, SecondThoughts, NoInput, ParamsValid, Decoders
  <2>2. Estimated(n) = Known(p.a[1], p.a[2])
    BY <1>4 DEF Estimated, Decoders, OneInputExpand
  <2> QED
    BY <1>1, <2>1, <2>2, TwoFields, KnownType
<1>5. CASE d \in {"command_string", "expanding_command_string"}
  <2>1. Estimated(n) = Impossible \/ Estimated(n) = Invalidate
    BY <1>5 DEF Estimated, Decoders, OneInputExpand
  <2> QED
    BY <1>2, <2>1
<1>6. CASE d \notin Decoders \cup {"create_canvas", "command_string", "expanding_command_string"}
  <2>1. ParentEst(n) \in Estimates
    <3>1. EstimatesFrom(d) # {} /\ ~SecondThoughts(n)
      BY <1>6 DEF EstimatesFrom, NoInput, SecondThoughts
    <3> QED
      BY <3>1, ParentEstType
  <2>2. CASE d \in {"crop", "crop_mutate"}
    <3>1. CropValid(p)
      BY <2>2 DEF EstimateFails, SecondThoughts
    <3>2. p.a[1] \in Nat /\ p.a[2] \in Nat /\ p.a[3] \in Nat /\ p.a[4] \in Nat
      BY <1>1, <3>1, FourFields DEF CropValid
    <3>3. Estimated(n) = CropEstimate(p, ParentEst(n))
      BY <1>6, <2>2 DEF Estimated, Decoders, OneInputExpand, Protected, Inner
    <3>4. p.a[3] - p.a[1] \in Nat /\ p.a[4] - p.a[2] \in Nat
      BY <3>1, <3>2 DEF CropValid
    <3> QED
      BY <1>2, <3>3, <3>4, KnownType DEF CropEstimate
  <2>3. CASE d \in OneInputExpand \ Protected
    <3>1. d # "color_filter_srgb" => ParamsMatch(d, p)
      BY <2>3 DEF EstimateFails, SecondThoughts, ParamsMatch, TagOf, OneInputExpand, Protected, Inner
    <3>2. Estimated(n) = MapFrame(d, p, ParentEst(n))
      BY <1>6, <2>3 DEF Estimated, Decoders, OneInputExpand, Protected, Inner
    <3> QED
      BY <1>1, <2>1, <2>3, <3>1, <3>2, MapFrameType
  <2>4. CASE d \notin {"crop", "crop_mutate"} \cup (OneInputExpand \ Protected)
    <3>1. Estimated(n) = ParentEst(n)
      BY <1>6, <2>4 DEF Estimated
    <3> QED
      BY <2>1, <3>1
  <2> QED
    BY <2>2, <2>3, <2>4
<1> QED
  BY <1>3, <1>4, <1>5, <1>6

\* ... and leaves the codecs in a codec's state.
LEMMA CodecsAfterEstimateType ==
  ASSUME GraphTyped, FramesTyped, job \in Jobs, NEW n \in NodeId, ~EstimateFails(n)
  PROVE  CodecsAfterEstimate(n) \in [IoId -> CodecStates]
<1> DEFINE d == weight[n].def
           p == weight[n].p
           hint == DecodeHint(ParentEst(n).w, ParentEst(n).h, p.a[1])
<1>1. codec \in [IoId -> CodecStates] /\ \A io \in IoId : job.io[io] \in Media
  BY JobsAssumption DEF FramesTyped
<1>2. CASE d \in Decoders
  <2>1. CodecsAfterEstimate(n) = [codec EXCEPT ![IoOf(n)] = Informed(job.io[IoOf(n)], codec[IoOf(n)])]
    BY <1>2 DEF CodecsAfterEstimate
  <2>2. IoOf(n) \in IoId
    BY <1>2, DecoderIo
  <2>3. Informed(job.io[IoOf(n)], codec[IoOf(n)]) \in CodecStates
    BY <1>1, <2>2, InformedType
  <2> QED
    BY <1>1, <2>1, <2>3
<1>3. CASE d = "expanding_command_string" /\ ~SecondThoughts(n)
  <2>1. EstimatesFrom(d) # {}
    BY <1>3 DEF EstimatesFrom, OneInputOneCanvas, NoInput, Decoders
  <2>2. ParentEst(n) \in Estimates
    BY <1>3, <2>1, ParentEstType
  <2>3. p \in Params /\ p.t = "command_string"
    BY <1>3, WeightType DEF EstimateFails, ParamsMatch, TagOf
  <2>4. hint \in Seq(Nat)
    <3>1. p.a[1] \in Nat
      BY <2>3, FourFields
    <3>2. ParentEst(n).w \in Nat /\ ParentEst(n).h \in Nat
      BY <2>2 DEF Estimates
    <3> QED
      BY <3>1, <3>2, DecodeHintType
  <2>5. \/ CodecsAfterEstimate(n) = codec
        \/ CodecsAfterEstimate(n) =
             [io \in IoId |-> IF io \in DecoderIos(n) THEN Told(job.io[io], codec[io], hint) ELSE codec[io]]
    BY <1>3 DEF CodecsAfterEstimate, Decoders
  <2> HIDE DEF hint
  <2>6. \A io \in IoId : Told(job.io[io], codec[io], hint) \in CodecStates
    BY <1>1, <2>4, ToldType
  <2> QED
    BY <1>1, <2>5, <2>6
<1>4. CASE d \notin Decoders /\ ~(d = "expanding_command_string" /\ ~SecondThoughts(n))
  BY <1>1, <1>4 DEF CodecsAfterEstimate
<1> QED
  BY <1>2, <1>3, <1>4

\* Decoder commands are numbers.
LEMMA CommandsType ==
  ASSUME GraphTyped, NEW n \in NodeId
  PROVE  Commands(n) \in Seq(Nat)
<1>1. weight[n].p.a \in Seq(Nat)
  BY WeightType DEF Params
<1>2. CASE Len(weight[n].p.a) = 3
  <2>1. weight[n].p.a[2] \in Nat /\ weight[n].p.a[3] \in Nat
    BY <1>1, <1>2
  <2> QED
    BY <1>2, <2>1, ShortSequences DEF Commands
<1>3. CASE Len(weight[n].p.a) # 3
  BY <1>3, ShortSequences DEF Commands
<1> QED
  BY <1>2, <1>3

-----------------------------------------------------------------------------
(* Bitmaps and results.                                                    *)

\* A frame among the results is Frame of its bitmap.
LEMMA FrameResult ==
  ASSUME NEW r \in Results, r.k = "Frame"
  PROVE  r.b \in BitmapId /\ r = Frame(r.b)
BY DEF Results, NoResult, Consumed, Encoded, Frame

\* The bitmap a node was given.
LEMMA HeldType ==
  ASSUME GraphTyped, FramesTyped, NEW n, NEW kind, Holds(n, kind)
  PROVE  /\ Parent(n, kind) \in NodeId /\ Held(n, kind) \in BitmapId
         /\ result[Parent(n, kind)] = Frame(Held(n, kind))
         /\ bitmap[Held(n, kind)].w \in Nat /\ bitmap[Held(n, kind)].h \in Nat
<1>1. Parent(n, kind) \in NodeId
  BY ParentType DEF Holds
<1>2. result[Parent(n, kind)] \in Results
  BY <1>1 DEF FramesTyped
<1>3. Held(n, kind) \in BitmapId /\ result[Parent(n, kind)] = Frame(Held(n, kind))
  BY <1>2, FrameResult DEF Holds, Held
<1> QED
  BY <1>1, <1>3 DEF FramesTyped

\* Drawing on a canvas keeps a size.
LEMMA RenderSize ==
  ASSUME NEW d \in OneInputOneCanvas, NEW p, NEW canvas, NEW input,
         canvas.w \in Nat, canvas.h \in Nat, input.w \in Nat, input.h \in Nat
  PROVE  Render(d, p, canvas, input).w \in Nat /\ Render(d, p, canvas, input).h \in Nat
<1>1. CASE d = "copy_rect"
  BY <1>1 DEF Render, Pasted, Make
<1>2. CASE d = "transpose_mut"
  BY <1>2 DEF Render, Transposed, Make
<1>3. CASE d = "scale_2d_to_canvas"
  BY <1>3 DEF Render, Resampled, Make
<1>4. CASE d = "draw_image_exact"
  BY <1>4 DEF Render, Drawn, Pasted, Make
<1> QED
  BY <1>1, <1>2, <1>3, <1>4 DEF OneInputOneCanvas

\* A bitmap that was drawn on in place has a size.
LEMMA MutateSize ==
  ASSUME NEW d \in Mutating, NEW p \in Params, NEW b, b.w \in Nat, b.h \in Nat,
         MutateFits(d, p, b)
  PROVE  Mutate(d, p, b).w \in Nat /\ Mutate(d, p, b).h \in Nat
<1>1. CASE d = "crop_mutate"
  <2>1. CropValid(p)
    BY <1>1 DEF MutateFits, CropFits
  <2>2. p.a[1] \in Nat /\ p.a[2] \in Nat /\ p.a[3] \in Nat /\ p.a[4] \in Nat
    BY <2>1, FourFields DEF CropValid
  <2>3. p.a[3] - p.a[1] \in Nat /\ p.a[4] - p.a[2] \in Nat
    BY <2>1, <2>2 DEF CropValid
  <2> QED
    BY <1>1, <2>3 DEF Mutate, Cropped, Make
<1>2. CASE d = "fill_rect"
  BY <1>2 DEF Mutate, Filled, Make
<1>3. CASE d = "flip_v_primitive"
  BY <1>3 DEF Mutate, FlippedV, Make
<1>4. CASE d = "flip_h_primitive"
  BY <1>4 DEF Mutate, FlippedH, Make
<1>5. CASE d = "color_matrix_srgb_mutate"
  BY <1>5 DEF Mutate, Tinted, Make
<1> QED
  BY <1>1, <1>2, <1>3, <1>4, <1>5 DEF Mutating, MutateBitmap

-----------------------------------------------------------------------------
(* The activations of estimate_node_recursive.                             *)

\* Returning from an activation.
LEMMA PopType ==
  ASSUME NEW S, NEW s \in Seq(S), s # <<>>
  PROVE  SubSeq(s, 1, Len(s) - 1) \in Seq(S) /\ s[Len(s)] \in S
OBVIOUS

\* An activation that moves on to its next phase.
LEMMA ReplaceTopType ==
  ASSUME NEW S, NEW s \in Seq(S), s # <<>>, NEW x \in S
  PROVE  [s EXCEPT ![Len(s)] = x] \in Seq(S)
<1>1. Len(s) \in Nat \ {0} /\ DOMAIN s = 1 .. Len(s) /\ \A i \in 1 .. Len(s) : s[i] \in S
  BY SequenceElements
<1>2. [s EXCEPT ![Len(s)] = x] \in [1 .. Len(s) -> S]
  BY <1>1
<1> QED
  BY <1>1, <1>2

\* A call is an activation unless it goes below the limit.
LEMMA CallType ==
  ASSUME NEW n \in NodeId, NEW limit \in -1 .. RecursionLimit
  PROVE  Call(n, limit) \in Activations
BY DEF Call, Activations
=============================================================================
