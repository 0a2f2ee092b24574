---------------------- MODULE ExecutionEngineProperties ----------------------
(***************************************************************************)
(* What the engine of ExecutionEngine must do with a job.                  *)
(***************************************************************************)
EXTENDS ExecutionEngine

Meant == INSTANCE FlowSemantics

\* Activations of estimate_node_recursive; one that is past its entry has not
\* exceeded the recursion limit.
Activations == {c \in [node: NodeId, phase: {"enter", "parents", "run"}, todo: SUBSET NodeId,
                       limit: -1 .. RecursionLimit] : c.phase = "enter" \/ c.limit >= 0}

CodecStates == [begun: BOOLEAN, read: Nat, w: Nat \ {0}, h: Nat \ {0}, hint: Seq(Nat)]

GraphTyped == /\ nodes \in Seq(NodeId) /\ edges \subseteq Edge
              /\ weight \in [NodeId -> Weights]
              /\ nextNode \in 1 .. MaxNodes + 1

FramesTyped == /\ est \in [NodeId -> Estimates] /\ result \in [NodeId -> Results]
               /\ DOMAIN bitmap = BitmapId
               /\ \A b \in BitmapId : bitmap[b].w \in Nat /\ bitmap[b].h \in Nat
               /\ nextBitmap \in 1 .. MaxBitmaps + 1
               /\ codec \in [IoId -> CodecStates]

LoopTyped == /\ step \in DOMAIN Program /\ cursor \in 1 .. Len(nodes) + 1
             /\ chosen \in {0} \cup NodeId /\ calls \in Seq(Activations)
             /\ passes \in 0 .. MaxPasses /\ moreFrames \in BOOLEAN
             /\ status \in {"running", "finished", "failed", "panicked"}

\* Every variable of the engine has its type: the graph is made of node
\* identities whose weights are well-formed nodes, estimates are sizes,
\* results refer to bitmaps, and activations of estimate_node_recursive count
\* down from its limit.
TypeOK == GraphTyped /\ FramesTyped /\ LoopTyped

\* The numbering keeps the live nodes distinct, and edges join live nodes.
\* Index-order surgery (append, swap-remove) and edge surgery are separate
\* statements of replace_node, delete_node_and_snap_together and the
\* decoder's expand; a slip in either leaves a dangling edge or a lost node.
GraphIntact ==
  /\ \A i, j \in DOMAIN nodes : i # j => nodes[i] # nodes[j]
  /\ \A e \in edges : {e.src, e.dst} \subseteq Live

\* A bitmap is the result of at most one node: whoever draws on a bitmap it
\* was given has taken it from the node that made it (consume_parent_result).
ExclusiveOwnership ==
  \A m, n \in NodeId :
    m # n /\ result[m].k = "Frame" /\ result[n].k = "Frame" => result[m].b # result[n].b

\* The pixels of a frame do not change while a node holds it: a step that
\* draws on a bitmap takes it away from its holder in the same step.
HeldFramesAreStable ==
  [][\A n \in NodeId :
       result[n].k = "Frame" /\ result'[n] = result[n]
         => bitmap'[result[n].b] = bitmap[result[n].b]]_vars

\* When a job finishes, every output has received the frames that the job's
\* graph means, in order, whatever the numbering of its nodes, however its
\* nodes were expanded and in whatever order they ran.
EncodesDenote ==
  status = "finished" => \A io \in IoId : output[io] = Meant!Written(job, io)

\* A node that expands after its parent ran sees the true size of the frame
\* it will be given: estimates (made before decoding, invalidated by command
\* strings, forced by execution) have converged by then.
ExpandSeesTruth ==
  At("flatten") /\ chosen # 0 =>
    \A p \in Parents(chosen) :
      result[p].k = "Frame" => est[p] = Known(bitmap[result[p].b].w, bitmap[result[p].b].h)

\* The engine's verdict on a job is right: it finishes only jobs whose nodes
\* are connected and fit, and rejects no other.  The checks it makes are spread
\* over validation, estimation, expansion and execution.
JobVerdict ==
  /\ status = "finished" => Meant!Sound(job)
  /\ status = "failed" => ~Meant!Sound(job)

\* The passes a node adds to a chain: each step of its expansion that has to
\* wait for the step before it to run before it can be expanded itself.  Nodes
\* that are executed as they are run in the pass of their parents.
TurnPasses(flag) == CASE flag = 7 -> 3
                      [] flag \in {3, 6, 8} -> 2
                      [] OTHER -> 1
DecoderPasses(j, io) == IF j.io[io].exif = 0 THEN 1 ELSE 1 + TurnPasses(j.io[io].exif)

Passes(j, n) ==
  LET d == j.nodes[n].def
      p == j.nodes[n].p
  IN  CASE d \in {"rotate_90", "rotate_180", "rotate_270"} -> 2
        [] d = "apply_orientation" -> TurnPasses(p.a[1])
        [] d = "decoder" -> DecoderPasses(j, p.a[1])
        [] d = "command_string" -> IF p.a[3] > 0 THEN 1 + DecoderPasses(j, p.a[3]) ELSE 1
        [] d \in OneInputOneCanvas \cup MutateBitmap \cup NoChildren -> 0
        [] OTHER -> 1

\* The longest chain of a job, in passes.
Depth(j) ==
  LET depth[n \in 1 .. Len(j.nodes)] ==
        LET above == {depth[e.src] : e \in {f \in j.edges : f.dst = n}}
        IN  Passes(j, n) + (IF above = {} THEN 0
              ELSE CHOOSE m \in above : \A k \in above : k <= m)
  IN  CHOOSE m \in {depth[n] : n \in 1 .. Len(j.nodes)} :
        \A n \in 1 .. Len(j.nodes) : depth[n] <= m

\* The pass limit (max_calc_flatten_execute_passes) is only ever reached by a
\* job whose longest chain exceeds it: no node is ever left waiting for a pass
\* that does nothing for it.
PassesWithinDepth ==
  (At("loop") /\ FullyExecuted) \/ status = "panicked" => passes <= Depth(job)

-----------------------------------------------------------------------------
(* What the source says of itself and the engine does not keep.            *)

\* "Don't consume without verifying no other nodes want access"
\* (definitions.rs, NodeResult::Frame).
ConsumedOnlyWhenUnwanted ==
  [][\A n \in NodeId :
       result[n].k = "Frame" /\ result'[n] = Consumed
         => \A e \in OutOf(n) : e.dst = chosen \/ result[e.dst] # NoResult]_vars

\* "Edges will be validated before calling estimation or execution or
\* flattening" (definitions.rs, NodeDef::edges_required).
EdgesAsRequired(n) ==
  LET d == weight[n].def
  IN  /\ Count(n, "input") = IF EdgesInOf(d) = "NoInput" THEN 0 ELSE 1
      /\ Count(n, "canvas") = IF EdgesInOf(d) = "OneInputOneCanvas" THEN 1 ELSE 0
EdgesValidatedFirst ==
  At("populate") \/ At("flatten") \/ At("execute") => \A n \in Live : EdgesAsRequired(n)

\* "Ensure next_frame is present (only called for first frame)" (gif/mod.rs,
\* read_frame): after the first frame the decoder always has the next one.
NextFrameIsPresent ==
  ReadyTo({"primitive_decoder"}) =>
    LET d == job.io[IoOf(chosen)]
        c == codec[IoOf(chosen)]
    IN  d.kind = "gif" /\ c.read > 0 => c.read < d.frames

\* "Add the necessary rotation step afterwards" (codecs_and_pointer.rs,
\* DecoderDef::expand): what follows a decoder works on the upright image, so
\* a job whose rectangles fit the upright image is not turned down.
UprightJobsAccepted == status = "failed" => ~Meant!Sound(job)

-----------------------------------------------------------------------------
\* The engine stops on every job.
Termination == <>(status # "running")
=============================================================================
