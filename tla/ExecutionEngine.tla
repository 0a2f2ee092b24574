-------------------------- MODULE ExecutionEngine ---------------------------
(***************************************************************************)
(* flow::execution_engine::Engine: how one job's operation graph is        *)
(* estimated, flattened and executed, frame after frame.                   *)
(*                                                                         *)
(* The engine is one thread; what varies is the job: its graph, the order  *)
(* of its nodes (translate_graph numbers them in the order of a HashMap,   *)
(* so any order is possible) and the codecs behind it.  The actions follow *)
(* the loops of the source: a loop over node indices is one action per     *)
(* iteration, and estimate_node_recursive runs on an explicit stack of     *)
(* activations (calls).                                                    *)
(*                                                                         *)
(* A job is [nodes, edges, order, io]: the client's nodes, numbered so     *)
(* that parents come first; its edges; the index order of the nodes; and   *)
(* what stands behind each io id.                                          *)
(*                                                                         *)
(* Bounds: MaxNodes and MaxBitmaps are the node and bitmap identities the  *)
(* model can hand out; a job that needed more would deadlock, which TLC    *)
(* reports.  MaxPasses and RecursionLimit are the program's own limits.    *)
(***************************************************************************)
EXTENDS NodeDefs

CONSTANTS
  Jobs,            \* the jobs a client may submit
  IoId,            \* ids of the inputs and outputs of a job, all positive
  MaxNodes,
  MaxBitmaps,
  MaxPasses,       \* Context::max_calc_flatten_execute_passes, 40
  RecursionLimit   \* of estimate_node_recursive, 100

ASSUME BoundsAssumption ==
  /\ MaxNodes \in Nat /\ MaxBitmaps \in Nat /\ MaxPasses \in Nat /\ RecursionLimit \in Nat
  /\ IoId \subseteq Nat \ {0}

NodeId == 1 .. MaxNodes
BitmapId == 1 .. MaxBitmaps

Kinds == {"input", "canvas"}
Edge == [src: NodeId, dst: NodeId, kind: Kinds]

(* From<s::Node> gives codec nodes their codec's parameters, and parsing   *)
(* checks that an io id exists.                                            *)
Weights ==
  {n \in [def: Defs, p: Params] :
     /\ n.def \in Decoders => n.p.t = "decode"
     /\ n.def = "primitive_encoder" => n.p.t = "encode"
     /\ n.p.t \in {"decode", "encode"} => n.p.a[1] \in IoId
     /\ n.p.t = "command_string" => {n.p.a[3], n.p.a[4]} \subseteq IoId \cup {0}}

(* What stands behind an io id: its kind, size, EXIF orientation (0 for    *)
(* none) and number of frames.                                             *)
MediaKinds == {"jpeg", "gif", "png", "output"}
Media == [kind: MediaKinds, w: Nat \ {0}, h: Nat \ {0}, exif: 0 .. 8, frames: Nat]

(* translate_graph panics at an edge to a node that is not there and       *)
(* refuses one that closes a cycle.                                        *)
ASSUME JobsAssumption ==
  \A j \in Jobs : /\ j.nodes \in Seq(Weights) /\ Len(j.nodes) <= MaxNodes
                  /\ j.order \in Seq(NodeId) /\ j.edges \subseteq Edge
                  /\ {j.order[i] : i \in DOMAIN j.order} = 1 .. Len(j.nodes)
                  /\ \A i, k \in DOMAIN j.order : j.order[i] = j.order[k] => i = k
                  /\ \A e \in j.edges : e.src < e.dst /\ e.dst <= Len(j.nodes)
                  /\ j.io \in [IoId -> Media]

VARIABLES
  job,         \* the submitted job; also execute_many's graph_copy
  nodes,       \* node identities in index order
  edges,       \* the edges between them
  weight,      \* definition and parameters of every node
  est,         \* Node::frame_est
  result,      \* Node::result
  nextNode,    \* the next unused node identity
  bitmap,      \* bitmap memory
  nextBitmap,  \* the next unallocated bitmap
  codec,       \* decoder state behind each io id
  output,      \* the frames each encoder has written
  step,        \* position in Program
  cursor,      \* next index populate_dimensions_where_certain will visit
  chosen,      \* node picked by the current flatten or execute iteration, or 0
  calls,       \* activations of estimate_node_recursive, innermost last
  passes,      \* passes completed on this frame
  moreFrames,  \* Engine::more_frames
  status       \* "running", "finished", or what stopped the job

graphVars == <<nodes, edges, weight, nextNode>>
dataVars == <<bitmap, nextBitmap, output>>
loopVars == <<step, cursor, passes, moreFrames>>
vars == <<job, graphVars, est, result, dataVars, codec, loopVars, chosen, calls, status>>

NoResult == [k |-> "None", b |-> 0]
Consumed == [k |-> "Consumed", b |-> 0]
Frame(b) == [k |-> "Frame", b |-> b]
Encoded  == [k |-> "Encoded", b |-> 0]
Results == {NoResult, Consumed, Encoded} \cup {Frame(b) : b \in BitmapId}

(* The body of execute(): prologue, then one round of the loop per pass.   *)
Program == << "validate", "link",
              "loop", "link", "populate", "flatten", "link", "flatten", "link",
              "populate", "populate", "populate", "validate", "execute" >>
LoopHead == 3

At(op) == status = "running" /\ Program[step] = op /\ calls = <<>>

Advance == step' = IF step = Len(Program) THEN LoopHead ELSE step + 1

Fail(kind) == status' = kind

-----------------------------------------------------------------------------
(* The graph.                                                              *)

Live == {nodes[i] : i \in DOMAIN nodes}
Into(n) == {e \in edges : e.dst = n}
OutOf(n) == {e \in edges : e.src = n}
ParentsOf(n, kind) == {e.src : e \in {f \in Into(n) : f.kind = kind}}
Parents(n) == {e.src : e \in Into(n)}

(* first_parent_of_kind.  Jobs whose edges are well formed have at most    *)
(* one parent of each kind; the order of several is not modelled.          *)
Parent(n, kind) == CHOOSE p \in ParentsOf(n, kind) : TRUE
HasParent(n, kind) == ParentsOf(n, kind) # {}

HasOtherChildren(p, n) == \E e \in OutOf(p) : e.dst # n

IndexOf(n) == CHOOSE i \in DOMAIN nodes : nodes[i] = n

(* Graph::remove_node: the last node takes the index of the removed one.   *)
SwapRemove(s, i) ==
  [j \in 1 .. Len(s) - 1 |-> IF j = i THEN s[Len(s)] ELSE s[j]]

(* Edges once n is gone, its incoming edges moved to first (copy_edges_to, *)
(* Incoming) and its outgoing edges moved to last (Outgoing).              *)
DetachedAbove(n) == {e \in edges : e.dst # n}   \* variant: outgoing edges stay
Detached(n) == {e \in edges : e.src # n /\ e.dst # n}
InTo(n, first) == {[e EXCEPT !.dst = first] : e \in Into(n)}
OutFrom(n, last) == {[e EXCEPT !.src = last] : e \in OutOf(n)}

Fresh(k) == nextNode .. nextNode + k - 1

NewWeights(ns) ==
  weight' = [m \in NodeId |-> IF m \in Fresh(Len(ns)) THEN ns[m - nextNode + 1]
                                                      ELSE weight[m]]

Allocate(ns) ==
  /\ nextNode + Len(ns) - 1 <= MaxNodes
  /\ nextNode' = nextNode + Len(ns)
  /\ NewWeights(ns)

NewIds(k) == [i \in 1 .. k |-> nextNode + i - 1]

Forget(n) ==
  /\ est' = [est EXCEPT ![n] = Unknown]
  /\ result' = [result EXCEPT ![n] = NoResult]

(* delete_node_and_snap_together: children are moved to some parent, of    *)
(* any kind.                                                               *)
SnapTogether(n) ==
  \E p \in Parents(n) :
    /\ edges' = Detached(n) \cup OutFrom(n, p)
    /\ nodes' = SwapRemove(nodes, IndexOf(n))
    /\ UNCHANGED <<weight, nextNode>>
    /\ Forget(n)

(* replace_node with a chain of one or more nodes linked by Input edges.   *)
ReplaceWithChain(n, chain) ==
  LET k == Len(chain)
      last == nextNode + k - 1
  IN /\ Allocate(chain)
     /\ nodes' = SwapRemove(nodes \o NewIds(k), IndexOf(n))
     /\ edges' = Detached(n) \cup InTo(n, nextNode) \cup OutFrom(n, last)
                 \cup {[src |-> m, dst |-> m + 1, kind |-> "input"] : m \in nextNode .. last - 1}
     /\ Forget(n)

ReplaceNode(n, chain) ==
  IF chain = <<>> THEN SnapTogether(n) ELSE ReplaceWithChain(n, chain)

(* A new canvas feeding a new rendering node, which replaces n.            *)
ReplaceWithCanvas(n, canvas, render) ==
  /\ Allocate(<<canvas, render>>)
  /\ nodes' = SwapRemove(nodes \o NewIds(2), IndexOf(n))
  /\ edges' = Detached(n) \cup InTo(n, nextNode + 1) \cup OutFrom(n, nextNode + 1)
              \cup {[src |-> nextNode, dst |-> nextNode + 1, kind |-> "canvas"]}
  /\ Forget(n)

-----------------------------------------------------------------------------
(* Codecs.  job.io[i] is what stands behind io id i: its kind, its size,   *)
(* its EXIF orientation (0 for none) and its number of frames.             *)

FreshCodec(d) == [begun |-> FALSE, read |-> 0, w |-> d.w, h |-> d.h, hint |-> <<>>]

(* jpeg_apply_downscaling: the first n/8 scale (7/8 is skipped) that still *)
(* covers the hint; if the image is within the hint, or no scale covers    *)
(* it, the size computed earlier stays.                                    *)
Scales == {1, 2, 3, 4, 5, 6, 8}
Eighths(v, i) == (v * i + 7) \div 8

Downscaled(d, c) ==
  LET covers == {i \in Scales : Eighths(d.w, i) >= c.hint[1] /\ Eighths(d.h, i) >= c.hint[2]}
  IN  IF c.hint = <<>> \/ c.hint[2] = 1 \/ covers = {}
         \/ (d.w <= c.hint[1] /\ d.h <= c.hint[2])
      THEN c
      ELSE LET i == CHOOSE i \in covers : \A j \in covers : i <= j
           IN  [c EXCEPT !.w = Eighths(d.w, i), !.h = Eighths(d.h, i)]

(* get_info and get_frame_info: begin reading if need be and, until the    *)
(* image has been read, settle the output size.                            *)
Informed(d, c) ==
  LET begun == [c EXCEPT !.begun = TRUE]
  IN  IF d.kind = "jpeg" /\ c.read = 0 THEN Downscaled(d, begun) ELSE begun

(* tell_decoder with JpegDownscaleHints; the GIF decoder ignores it.       *)
Told(d, c, hint) == IF d.kind = "jpeg" THEN [c EXCEPT !.hint = hint] ELSE c

(* The orientation is parsed when reading begins; before that it is zero.  *)
ExifFlag(io) == IF codec[io].begun THEN job.io[io].exif ELSE 0

CanReadFrame(d, c) == IF d.kind = "gif" THEN c.read < d.frames ELSE c.read = 0
\* Variant: off by one.
HasMoreFramesLate(d, c) == d.kind = "gif" /\ c.read <= d.frames
HasMoreFrames(d, c) == d.kind = "gif" /\ c.read < d.frames

IoOf(n) == weight[n].p.a[1]

(* DecoderCommands stored in a decode node: <<io, min width, min height>>. *)
Commands(n) == LET a == weight[n].p.a IN IF Len(a) = 3 THEN <<a[2], a[3]>> ELSE <<>>

(* get_decoder_io_ids_and_indexes: decode nodes among the ancestors.       *)
Ancestors(n) ==
  LET up[k \in 0 .. Len(nodes)] ==
        IF k = 0 THEN Parents(n) ELSE up[k - 1] \cup UNION {Parents(m) : m \in up[k - 1]}
  IN  up[Len(nodes)]

DecoderIos(n) == {IoOf(m) : m \in {a \in Ancestors(n) : weight[a].p.t = "decode"}}

-----------------------------------------------------------------------------
InitialWeight(j) ==
  [n \in NodeId |-> IF n \in DOMAIN j.nodes THEN j.nodes[n]
                                            ELSE Node("create_canvas", NoParams)]

Init ==
  /\ job \in Jobs
  /\ nodes = job.order /\ edges = job.edges
  /\ weight = InitialWeight(job) /\ nextNode = Len(job.nodes) + 1
  /\ est = [n \in NodeId |-> Unknown]
  /\ result = [n \in NodeId |-> NoResult]
  /\ bitmap = [b \in BitmapId |-> NoBitmap] /\ nextBitmap = 1
  /\ codec = [i \in IoId |-> FreshCodec(job.io[i])]
  /\ output = [i \in IoId |-> <<>>]
  /\ step = 1 /\ cursor = 1 /\ chosen = 0 /\ calls = <<>>
  /\ passes = 0 /\ moreFrames = FALSE /\ status = "running"

-----------------------------------------------------------------------------
(* validate_graph and link_codecs.                                         *)

Count(n, kind) == Cardinality({e \in Into(n) : e.kind = kind})

Accepted(n) ==
  LET d == weight[n].def
  IN  /\ ParamsValid(d, weight[n].p)
      /\ ~InputsFailed(d, Count(n, "input"), Count(n, "canvas"))
      /\ d \in NoChildren => OutOf(n) = {}

ValidateGraph ==
  /\ At("validate")
  /\ IF \A n \in Live : Accepted(n)
     THEN Advance /\ UNCHANGED status
     ELSE Fail("failed") /\ UNCHANGED step
  /\ UNCHANGED <<job, graphVars, est, result, dataVars, codec, cursor, passes,
                 moreFrames, chosen, calls>>

(* Only primitive decoders have anything to tell.                          *)
Tellers(io) == {n \in Live : /\ weight[n].def = "primitive_decoder"
                             /\ IoOf(n) = io /\ Commands(n) # <<>>}

LinkCodecs ==
  /\ At("link")
  /\ codec' = [io \in IoId |->
                 IF Tellers(io) = {} THEN codec[io]
                 ELSE Told(job.io[io], codec[io], Commands(CHOOSE n \in Tellers(io) : TRUE))]
  /\ Advance
  /\ UNCHANGED <<job, graphVars, est, result, dataVars, cursor, passes, moreFrames,
                 chosen, calls, status>>

-----------------------------------------------------------------------------
(* estimate_node_recursive.  An activation is in phase "enter", "parents"  *)
(* (todo: the parents still to be estimated) or "run".                     *)

Call(n, limit) == [node |-> n, phase |-> "enter", todo |-> {}, limit |-> limit]
Top == calls[Len(calls)]
Return == calls' = SubSeq(calls, 1, Len(calls) - 1)
Become(frame) == calls' = [calls EXCEPT ![Len(calls)] = frame]

Estimating == status = "running" /\ calls # <<>>
InputsEstimated(n) == \A p \in Parents(n) : est[p].k = "Some"
GiveUp(n) == \E p \in Parents(n) : est[p].k = "Impossible"

SetImpossible(n) == est' = [est EXCEPT ![n] = Impossible]

estimateFrame == <<job, graphVars, result, dataVars, loopVars, chosen>>

EstimateEnter ==
  /\ Estimating /\ Top.phase = "enter"
  /\ LET n == Top.node IN
     CASE Top.limit < 0 ->
            Fail("panicked") /\ UNCHANGED <<est, calls>>
       [] Top.limit >= 0 /\ est[n].k = "Some" ->
            Return /\ UNCHANGED <<est, status>>
       [] Top.limit >= 0 /\ est[n].k # "Some" /\ InputsEstimated(n) ->
            Become([Top EXCEPT !.phase = "run"]) /\ UNCHANGED <<est, status>>
       [] Top.limit >= 0 /\ est[n].k # "Some" /\ GiveUp(n) ->
            SetImpossible(n) /\ Return /\ UNCHANGED status
       [] OTHER ->
            Become([Top EXCEPT !.phase = "parents", !.todo = Parents(n)])
            /\ UNCHANGED <<est, status>>
  /\ UNCHANGED <<estimateFrame, codec>>

EstimateParent ==
  /\ Estimating /\ Top.phase = "parents" /\ Top.todo # {}
  /\ \E p \in Top.todo :
       calls' = Append([calls EXCEPT ![Len(calls)].todo = @ \ {p}], Call(p, Top.limit - 1))
  /\ UNCHANGED <<estimateFrame, codec, est, status>>

EstimateResume ==
  /\ Estimating /\ Top.phase = "parents" /\ Top.todo = {}
  /\ IF InputsEstimated(Top.node)
     THEN Become([Top EXCEPT !.phase = "run"]) /\ UNCHANGED est
     ELSE SetImpossible(Top.node) /\ Return
  /\ UNCHANGED <<estimateFrame, codec, status>>

(* NodeDef::estimate: the parent whose estimate a definition reads, when   *)
(* it fails, and what it answers.                                          *)
EstimatesFrom(d) == IF d \in OneInputOneCanvas THEN {"canvas"}
                    ELSE IF d \in NoInput \cup {"command_string"} THEN {}
                    ELSE {"input"}

ParentEst(n) == LET kind == CHOOSE k \in EstimatesFrom(weight[n].def) : TRUE
                IN  est[Parent(n, kind)]

SecondThoughts(n) == weight[n].def = "expanding_command_string" /\ est[n] = Invalidate

EstimateFails(n) ==
  LET d == weight[n].def
      p == weight[n].p
  IN /\ ~SecondThoughts(n)
     /\ \/ \E kind \in EstimatesFrom(d) : ~HasParent(n, kind) \/ ParentEst(n) = Unknown
        \/ d \in {"crop", "crop_mutate"} /\
             (~CropValid(p) \/ (ParentEst(n).k = "Some" /\ ~CropFits(p, ParentEst(n).w, ParentEst(n).h)))
        \/ d \in {"apply_orientation", "expand_canvas", "scale", "constrain"} /\ ~ParamsMatch(d, p)
        \/ d \in NoInput /\ ~ParamsValid(d, p)
        \/ d = "expanding_command_string" /\ (ParentEst(n).k # "Some" \/ ~ParamsMatch(d, p))

Estimated(n) ==
  LET d == weight[n].def
      p == weight[n].p
      io == IoOf(n)
  IN CASE d \in Decoders -> LET c == Informed(job.io[io], codec[io]) IN Known(c.w, c.h)
       [] d = "create_canvas" -> Known(p.a[1], p.a[2])
       [] d = "command_string" -> Impossible
       [] d = "expanding_command_string" -> IF SecondThoughts(n) THEN Impossible ELSE Invalidate
       [] d \in {"crop", "crop_mutate"} -> CropEstimate(p, ParentEst(n))
       [] d \in OneInputExpand \ Protected -> MapFrame(d, p, ParentEst(n))
       [] OTHER -> ParentEst(n)

(* What estimating does to the codecs: asking a decoder for its size makes *)
(* it begin reading; a command string tells every decoder above it.        *)
CodecsAfterEstimate(n) ==
  LET d == weight[n].def
      hint == DecodeHint(ParentEst(n).w, ParentEst(n).h, weight[n].p.a[1])
  IN IF d \in Decoders
     THEN [codec EXCEPT ![IoOf(n)] = Informed(job.io[IoOf(n)], @)]
     ELSE IF d = "expanding_command_string" /\ ~SecondThoughts(n) /\ hint # <<>>
     THEN [io \in IoId |-> IF io \in DecoderIos(n) THEN Told(job.io[io], codec[io], hint)
                                                   ELSE codec[io]]
     ELSE codec

EstimateRun ==
  /\ Estimating /\ Top.phase = "run"
  /\ LET n == Top.node IN
     IF EstimateFails(n)
     THEN Fail("failed") /\ UNCHANGED <<est, calls, codec>>
     ELSE /\ codec' = CodecsAfterEstimate(n)
          /\ CASE Estimated(n) = Unknown ->
                    Fail("panicked") /\ UNCHANGED <<est, calls>>
               [] Estimated(n) = Invalidate ->
                    /\ est' = [m \in NodeId |-> IF m = n THEN Invalidate ELSE Unknown]
                    /\ Become(Call(n, Top.limit - 1))
                    /\ UNCHANGED status
               [] OTHER ->
                    /\ est' = [est EXCEPT ![n] = Estimated(n)]
                    /\ Return
                    /\ UNCHANGED status
  /\ UNCHANGED estimateFrame

EstimateNodeRecursive ==
  EstimateEnter \/ EstimateParent \/ EstimateResume \/ EstimateRun

(* populate_dimensions_where_certain, one index per step.                  *)
PopulateNext ==
  /\ At("populate") /\ cursor <= Len(nodes)
  /\ calls' = <<Call(nodes[cursor], RecursionLimit)>>
  /\ cursor' = cursor + 1
  /\ UNCHANGED <<job, graphVars, est, result, dataVars, codec, step, passes, moreFrames,
                 chosen, status>>

PopulateDone ==
  /\ At("populate") /\ cursor > Len(nodes)
  /\ cursor' = 1 /\ Advance
  /\ UNCHANGED <<job, graphVars, est, result, dataVars, codec, passes, moreFrames,
                 chosen, calls, status>>

-----------------------------------------------------------------------------
(* graph_pre_optimize_flatten: expand the first expandable node whose      *)
(* parents have results, until there is none.                              *)

Complete(n) == \A p \in Parents(n) : result[p] # NoResult

\* In the variant an expandable node also waits for its estimate.
ExpandableIfEstimated(n) == weight[n].def \in CanExpand /\ Complete(n) /\ est[n].k = "Some"
Expandable(n) == weight[n].def \in CanExpand /\ Complete(n)

FirstIs(n, Test(_)) ==
  \E i \in DOMAIN nodes : /\ nodes[i] = n /\ Test(n)
                          /\ \A j \in 1 .. i - 1 : ~Test(nodes[j])

pickFrame == <<job, graphVars, est, result, dataVars, codec, cursor, moreFrames, status>>

FlattenChoose ==
  /\ At("flatten") /\ chosen = 0
  /\ \E n \in Live :
       /\ FirstIs(n, Expandable)
       /\ chosen' = n
       /\ calls' = IF est[n].k = "Some" THEN <<>> ELSE <<Call(n, RecursionLimit)>>
  /\ UNCHANGED <<pickFrame, step, passes>>

FlattenDone ==
  /\ At("flatten") /\ chosen = 0
  /\ \A n \in Live : ~Expandable(n)
  /\ Advance
  /\ UNCHANGED <<pickFrame, passes, chosen, calls>>

Input(n) == Parent(n, "input")

ExpandFails(n) ==
  LET d == weight[n].def
      p == weight[n].p
      fed == HasParent(n, "input")
  IN \/ ~ParamsMatch(d, p)
     \/ d \in OneInputExpand \cup {"expanding_command_string"} /\ (~fed \/ est[Input(n)].k # "Some")
     \/ d = "command_string" /\ (fed <=> p.a[3] > 0)

(* DecoderDef::expand: the node stays, becomes a primitive decoder, and an *)
(* oriented source gets an apply_orientation node between it and its       *)
(* children.                                                               *)
StaysDecoder(w, n) == w   \* variant: the definition is not replaced
BecomesPrimitive(w, n) == [w EXCEPT ![n].def = "primitive_decoder"]

ExpandDecoder(n) ==
  /\ IF ExifFlag(IoOf(n)) > 0
     THEN /\ nextNode <= MaxNodes
          /\ nextNode' = nextNode + 1
          /\ nodes' = Append(nodes, nextNode)
          /\ edges' = (edges \ OutOf(n)) \cup OutFrom(n, nextNode)
                      \cup {[src |-> n, dst |-> nextNode, kind |-> "input"]}
          /\ weight' = [BecomesPrimitive(weight, n) EXCEPT ![nextNode] =
                          Node("apply_orientation", P("apply_orientation", <<ExifFlag(IoOf(n))>>))]
     ELSE weight' = BecomesPrimitive(weight, n) /\ UNCHANGED <<nodes, edges, nextNode>>
  /\ UNCHANGED <<est, result>>

(* CommandStringDef::expand.                                               *)
CommandChain(p) ==
  (IF p.a[3] > 0 THEN <<Node("decoder", P("decode", <<p.a[3]>>))>> ELSE <<>>)
  \o <<Node("expanding_command_string", p)>>

Expand(n) ==
  LET d == weight[n].def
      p == weight[n].p
      w == est[Input(n)].w
      h == est[Input(n)].h
  IN CASE d = "decoder"        -> ExpandDecoder(n)
       [] d = "command_string" -> ReplaceNode(n, CommandChain(p))
       [] d \in ToCanvas       -> ReplaceWithCanvas(n, CanvasFor(d, p, w, h), RenderFor(d, p, w, h))
       [] OTHER -> ReplaceNode(n, ChainOf(d, p, w, h, HasOtherChildren(Input(n), n)))

FlattenExpand ==
  /\ At("flatten") /\ chosen # 0
  /\ IF ExpandFails(chosen)
     THEN Fail("failed") /\ UNCHANGED <<graphVars, est, result>>
     ELSE Expand(chosen) /\ UNCHANGED status
  /\ chosen' = 0
  /\ UNCHANGED <<job, dataVars, codec, loopVars, calls>>

Flatten == FlattenChoose \/ FlattenDone \/ FlattenExpand

-----------------------------------------------------------------------------
(* graph_execute: execute the first executable node that has no result and *)
(* whose parents have theirs, until there is none.                         *)

Executable(n) == weight[n].def \in CanExecute /\ result[n] = NoResult /\ Complete(n)

ExecuteChoose ==
  /\ At("execute") /\ chosen = 0
  /\ \E n \in Live :
       /\ FirstIs(n, Executable)
       /\ chosen' = n
       /\ calls' = IF est[n] = Unknown THEN <<Call(n, RecursionLimit)>> ELSE <<>>
  /\ UNCHANGED <<pickFrame, step, passes>>

ExecuteDone ==
  /\ At("execute") /\ chosen = 0
  /\ \A n \in Live : ~Executable(n)
  /\ passes' = passes + 1
  /\ Advance
  /\ UNCHANGED <<pickFrame, chosen, calls>>

Holds(n, kind) == HasParent(n, kind) /\ result[Parent(n, kind)].k = "Frame"
Held(n, kind) == result[Parent(n, kind)].b

(* execute of NodeDefMutateBitmap and of crop; it takes the input over.    *)
Mutating == MutateBitmap \cup {"crop_mutate"}

Accepts(n) ==
  LET d == weight[n].def
      p == weight[n].p
      canvas == bitmap[Held(n, "canvas")]
      input == bitmap[Held(n, "input")]
  IN CASE d = "create_canvas"     -> ParamsValid(d, p)
       [] d = "primitive_decoder" -> CanReadFrame(job.io[IoOf(n)], codec[IoOf(n)])
       [] d = "primitive_encoder" -> Holds(n, "input")
       [] d \in OneInputOneCanvas ->
            /\ Holds(n, "input") /\ Holds(n, "canvas") /\ ParamsMatch(d, p)
            /\ RenderFits(d, p, canvas, input)
            /\ d = "copy_rect" => Held(n, "input") # Held(n, "canvas")
       [] d \in Mutating ->
            Holds(n, "input") /\ ParamsMatch(d, p) /\ MutateFits(d, p, input)

ReadyTo(ds) == At("execute") /\ chosen # 0 /\ weight[chosen].def \in ds
CanDo(ds) == ReadyTo(ds) /\ Accepts(chosen)

(* The estimate of a node that produced a frame is forced to its size.     *)
EstimateKept(content) == est[chosen]   \* variant: the old estimate stays
EstimateOf(content) == Known(content.w, content.h)

(* The chosen node's result is bitmap b, now showing content.              *)
Produce(b, content) ==
  /\ bitmap' = [bitmap EXCEPT ![b] = content]
  /\ est' = [est EXCEPT ![chosen] = EstimateOf(content)]
  /\ chosen' = 0

ProduceNew(content) ==
  /\ nextBitmap <= MaxBitmaps
  /\ nextBitmap' = nextBitmap + 1
  /\ Produce(nextBitmap, content)
  /\ result' = [result EXCEPT ![chosen] = Frame(nextBitmap)]

(* consume_parent_result, then the same bitmap as this node's own result;  *)
(* the variants leave the parent its result, or consume the wrong parent.  *)
TakeOverShared(n, kind) == result' = [result EXCEPT ![n] = Frame(Held(n, kind))]
TakeOverFromInput(n, kind) ==
  result' = [result EXCEPT ![Parent(n, "input")] = Consumed, ![n] = Frame(Held(n, kind))]
TakeOver(n, kind) ==
  result' = [result EXCEPT ![Parent(n, kind)] = Consumed, ![n] = Frame(Held(n, kind))]

executeFrame == <<job, graphVars, step, cursor, passes, calls, status>>

CreateCanvas ==
  /\ CanDo({"create_canvas"})
  /\ LET a == weight[chosen].p.a IN ProduceNew(Canvas(a[1], a[2]))
  /\ UNCHANGED <<executeFrame, output, codec, moreFrames>>

Decode ==
  /\ CanDo({"primitive_decoder"})
  /\ LET io == IoOf(chosen)
         c  == Informed(job.io[io], codec[io])
     IN /\ codec' = [codec EXCEPT ![io] = [c EXCEPT !.read = @ + 1]]
        /\ ProduceNew(Resampled(Source(io, c.read, job.io[io].w, job.io[io].h), c.w, c.h))
        /\ moreFrames' = (moreFrames \/ HasMoreFrames(job.io[io], codec'[io]))
  /\ UNCHANGED <<executeFrame, output>>

Encode ==
  /\ CanDo({"primitive_encoder"})
  /\ output' = [output EXCEPT ![IoOf(chosen)] = Append(@, bitmap[Held(chosen, "input")])]
  /\ result' = [result EXCEPT ![chosen] = Encoded]
  /\ chosen' = 0
  /\ UNCHANGED <<executeFrame, est, bitmap, nextBitmap, codec, moreFrames>>

RenderToCanvas ==
  /\ CanDo(OneInputOneCanvas)
  /\ LET b == Held(chosen, "canvas")
     IN Produce(b, Render(weight[chosen].def, weight[chosen].p, bitmap[b],
                          bitmap[Held(chosen, "input")]))
  /\ TakeOver(chosen, "canvas")
  /\ UNCHANGED <<executeFrame, nextBitmap, output, codec, moreFrames>>

MutateInput ==
  /\ CanDo(Mutating)
  /\ LET b == Held(chosen, "input")
     IN Produce(b, Mutate(weight[chosen].def, weight[chosen].p, bitmap[b]))
  /\ TakeOver(chosen, "input")
  /\ UNCHANGED <<executeFrame, nextBitmap, output, codec, moreFrames>>

ExecuteFailure ==
  /\ ReadyTo(CanExecute) /\ ~Accepts(chosen)
  /\ Fail("failed") /\ chosen' = 0
  /\ UNCHANGED <<job, graphVars, est, result, dataVars, codec, loopVars, calls>>

Execute ==
  \/ ExecuteChoose \/ ExecuteDone \/ ExecuteFailure
  \/ CreateCanvas \/ Decode \/ Encode \/ RenderToCanvas \/ MutateInput

-----------------------------------------------------------------------------
(* The loop of execute() and the loop of execute_many().                   *)

FullyExecuted == \A n \in Live : result[n] # NoResult

NextPass ==
  /\ At("loop") /\ ~FullyExecuted /\ passes < MaxPasses
  /\ Advance
  /\ UNCHANGED <<job, graphVars, est, result, dataVars, codec, cursor, passes, moreFrames,
                 chosen, calls, status>>

PassLimit ==
  /\ At("loop") /\ ~FullyExecuted /\ passes >= MaxPasses
  /\ Fail("panicked")
  /\ UNCHANGED <<job, graphVars, est, result, dataVars, codec, loopVars, chosen, calls>>

(* One more frame: execute() again on a fresh copy of the graph.  Bitmaps  *)
(* of the old one are not freed; codecs keep their positions.              *)
NextFrame ==
  /\ At("loop") /\ FullyExecuted /\ moreFrames
  /\ nodes' = job.order /\ edges' = job.edges
  /\ weight' = InitialWeight(job) /\ nextNode' = Len(job.nodes) + 1
  /\ est' = [n \in NodeId |-> Unknown]
  /\ result' = [n \in NodeId |-> NoResult]
  /\ step' = 1 /\ passes' = 0 /\ moreFrames' = FALSE
  /\ UNCHANGED <<job, dataVars, codec, cursor, chosen, calls, status>>

Finish ==
  /\ At("loop") /\ FullyExecuted /\ ~moreFrames
  /\ status' = "finished"
  /\ UNCHANGED <<job, graphVars, est, result, dataVars, codec, loopVars, chosen, calls>>

Loop == NextPass \/ PassLimit \/ NextFrame \/ Finish

Stopped == status # "running" /\ UNCHANGED vars

Next == \/ ValidateGraph \/ LinkCodecs
        \/ EstimateNodeRecursive \/ PopulateNext \/ PopulateDone
        \/ Flatten \/ Execute \/ Loop \/ Stopped

Spec == Init /\ [][Next]_vars

\* The engine is a plain function call: while it runs, it takes steps.
FairSpec == Spec /\ WF_vars(Next)
=============================================================================
