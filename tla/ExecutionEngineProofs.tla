------------------------ MODULE ExecutionEngineProofs ------------------------
(***************************************************************************)
(* Theorems about the engine of ExecutionEngine, for every set of jobs and *)
(* every value of the bounds: its type invariant, that a bitmap has one    *)
(* owner and does not change under it, that the graph stays a graph        *)
(* without dangling edges or cycles, and that nodes are expanded by the    *)
(* true sizes of their inputs.                                             *)
(***************************************************************************)
EXTENDS ExecutionEngineLemmas

(***************************************************************************)
(* Where the engine is in its loops, which its types depend on: the cursor *)
(* is at the start outside of populate_dimensions_where_certain, the pass  *)
(* limit has been checked inside the loop, and a node is chosen only while *)
(* it is being expanded or executed.                                       *)
(***************************************************************************)
ControlInv ==
  /\ job \in Jobs
  /\ cursor # 1 => Program[step] = "populate"
  /\ step > LoopHead => passes < MaxPasses
  /\ chosen # 0 => \/ Program[step] = "flatten" /\ weight[chosen].def \in CanExpand
                   \/ Program[step] = "execute"

EngineInv == TypeOK /\ ControlInv

\* The places of the loop's head and end in the program of execute().
LEMMA ProgramShape ==
  /\ Len(Program) = 14 /\ DOMAIN Program = 1 .. 14
  /\ \A s \in 1 .. 14 : /\ Program[s] = "loop" <=> s = 3
                        /\ Program[s] = "execute" <=> s = 14
<1>1. Len(Program) = 14 /\ DOMAIN Program = 1 .. 14
  BY DEF Program
<1>2. ASSUME NEW s \in 1 .. 14
      PROVE  (Program[s] = "loop" <=> s = 3) /\ (Program[s] = "execute" <=> s = 14)
  <2>1. s \in {1, 2, 3, 4, 5, 6, 7, 8, 9, 10, 11, 12, 13, 14}
    OBVIOUS
  <2> QED
    BY <2>1 DEF Program
<1> QED
  BY <1>1, <1>2

\* A step of the program stays in it, and enters the loop's body only from its
\* head.
LEMMA AdvanceType ==
  ASSUME step \in DOMAIN Program, Advance
  PROVE  /\ step' \in DOMAIN Program
         /\ step' > LoopHead => step >= LoopHead /\ step # 14
<1>1. step \in 1 .. 14
  BY ProgramShape
<1>2. step' = IF step = 14 THEN 3 ELSE step + 1
  BY ProgramShape DEF Advance, LoopHead
<1> QED
  BY <1>1, <1>2, ProgramShape DEF LoopHead

\* Every submitted job is well typed.
LEMMA InitTyped == Init => EngineInv
<1> SUFFICES ASSUME Init PROVE EngineInv
  OBVIOUS
<1> USE DEF Init
<1>1. GraphTyped
  <2>1. /\ job.nodes \in Seq(Weights) /\ Len(job.nodes) <= MaxNodes
        /\ job.order \in Seq(NodeId) /\ job.edges \subseteq Edge
    BY JobsAssumption
  <2>2. Len(job.nodes) \in Nat
    BY <2>1, SequenceElements
  <2>3. weight \in [NodeId -> Weights]
    BY InitialWeightType
  <2>4. nextNode \in 1 .. MaxNodes + 1
    BY <2>1, <2>2, BoundsAssumption
  <2> QED
    BY <2>1, <2>3, <2>4 DEF GraphTyped
<1>2. FramesTyped
  <2>1. Unknown \in Estimates /\ NoResult \in Results
    BY DEF Unknown, Est, Estimates, Results
  <2>2. DOMAIN bitmap = BitmapId /\ \A b \in BitmapId : bitmap[b].w \in Nat /\ bitmap[b].h \in Nat
    BY DEF NoBitmap
  <2>3. nextBitmap \in 1 .. MaxBitmaps + 1
    BY BoundsAssumption
  <2>4. \A i \in IoId : FreshCodec(job.io[i]) \in CodecStates
    <3>1. \A i \in IoId : job.io[i] \in Media
      BY JobsAssumption
    <3>2. <<>> \in Seq(Nat)
      OBVIOUS
    <3> QED
      BY <3>1, <3>2 DEF FreshCodec, CodecStates, Media
  <2> QED
    BY <2>1, <2>2, <2>3, <2>4 DEF FramesTyped
<1>3. LoopTyped
  <2>1. Len(nodes) \in Nat
    BY <1>1, SequenceElements DEF GraphTyped
  <2>2. calls \in Seq(Activations)
    BY ShortSequences
  <2>3. step \in DOMAIN Program /\ passes \in 0 .. MaxPasses
    BY ProgramShape, BoundsAssumption
  <2>4. cursor \in 1 .. Len(nodes) + 1
    BY <2>1
  <2>5. moreFrames \in BOOLEAN
    OBVIOUS
  <2> QED
    BY <2>2, <2>3, <2>4, <2>5 DEF LoopTyped
<1>4. ControlInv
  BY DEF ControlInv, LoopHead
<1> QED
  BY <1>1, <1>2, <1>3, <1>4 DEF EngineInv, TypeOK

-----------------------------------------------------------------------------
(* Steps that leave the graph and the frames alone.                        *)

frameVars == <<job, graphVars, est, result, bitmap, nextBitmap>>

\* Such a step keeps the invariant if it keeps its part about the loop.
LEMMA FrameKept ==
  ASSUME EngineInv, UNCHANGED frameVars, codec' \in [IoId -> CodecStates]
  PROVE  job' \in Jobs /\ GraphTyped' /\ FramesTyped'
BY DEF EngineInv, TypeOK, ControlInv, GraphTyped, FramesTyped, frameVars, graphVars

\* A step of the program's own: between two of its operations no node is
\* chosen and no estimate is under way.
LEMMA AdvanceTyped ==
  ASSUME EngineInv, UNCHANGED frameVars, codec' \in [IoId -> CodecStates],
         step' \in DOMAIN Program, step' > LoopHead => passes' < MaxPasses,
         passes' \in 0 .. MaxPasses, cursor' = 1, chosen' = 0, calls' = <<>>,
         moreFrames' = moreFrames, status' \in {"running", "finished", "failed", "panicked"}
  PROVE  EngineInv'
<1>1. job' \in Jobs /\ GraphTyped' /\ FramesTyped'
  BY FrameKept
<1>2. LoopTyped'
  <2>1. Len(nodes)' \in Nat
    BY <1>1, SequenceElements DEF GraphTyped
  <2>2. cursor' \in 1 .. Len(nodes)' + 1
    BY <2>1
  <2>3. calls' \in Seq(Activations)
    BY ShortSequences
  <2>4. moreFrames' \in BOOLEAN
    BY DEF EngineInv, TypeOK, LoopTyped
  <2> QED
    BY <2>2, <2>3, <2>4 DEF LoopTyped
<1>3. ControlInv'
  BY <1>1 DEF ControlInv
<1> QED
  BY <1>1, <1>2, <1>3 DEF EngineInv, TypeOK

\* What holds at an operation of the program.
LEMMA AtOperation ==
  ASSUME EngineInv, NEW op, At(op)
  PROVE  /\ step \in 1 .. 14 /\ step \in DOMAIN Program /\ Program[step] = op /\ calls = <<>>
         /\ passes \in 0 .. MaxPasses /\ MaxPasses \in Nat /\ codec \in [IoId -> CodecStates]
         /\ op # "populate" => cursor = 1
         /\ op \notin {"flatten", "execute"} => chosen = 0
         /\ op = "loop" <=> step = 3
         /\ op = "execute" <=> step = 14
BY ProgramShape, BoundsAssumption
   DEF EngineInv, TypeOK, FramesTyped, LoopTyped, ControlInv, At

\* Advancing from an operation other than the loop's head or execution.
LEMMA AdvanceFrom ==
  ASSUME EngineInv, NEW op, At(op), op \notin {"loop", "execute"}, Advance
  PROVE  step' \in DOMAIN Program /\ (step' > LoopHead => passes < MaxPasses)
<1>1. step # 3 /\ step \in DOMAIN Program
  BY AtOperation
<1> QED
  BY <1>1, AdvanceType, AtOperation DEF EngineInv, ControlInv, LoopHead

\* Validation changes no more than the place in the program.
LEMMA ValidateGraphTyped == EngineInv /\ ValidateGraph => EngineInv'
<1> SUFFICES ASSUME EngineInv, ValidateGraph PROVE EngineInv'
  OBVIOUS
<1>1. /\ At("validate") /\ UNCHANGED frameVars /\ UNCHANGED <<codec, cursor, passes, moreFrames, chosen, calls>>
      /\ \/ Advance /\ status' = "running"
         \/ status' = "failed" /\ UNCHANGED step
  BY DEF ValidateGraph, frameVars, graphVars, dataVars, Fail, At
<1>2. step' \in DOMAIN Program /\ (step' > LoopHead => passes < MaxPasses)
  <2>1. CASE Advance
    BY <1>1, <2>1, AdvanceFrom
  <2>2. CASE UNCHANGED step
    BY <1>1, <2>2, AtOperation DEF EngineInv, ControlInv
  <2> QED
    BY <1>1, <2>1, <2>2
<1>3. cursor' = 1 /\ chosen' = 0 /\ calls' = <<>> /\ codec' \in [IoId -> CodecStates]
      /\ passes' \in 0 .. MaxPasses
  BY <1>1, AtOperation
<1> QED
  BY <1>1, <1>2, <1>3, AdvanceTyped

\* Telling a decoder keeps its state well typed.
LEMMA LinkCodecsTyped == EngineInv /\ LinkCodecs => EngineInv'
<1> SUFFICES ASSUME EngineInv, LinkCodecs PROVE EngineInv'
  OBVIOUS
<1>1. /\ At("link") /\ Advance /\ UNCHANGED frameVars
      /\ UNCHANGED <<cursor, passes, moreFrames, chosen, calls, status>>
  BY DEF LinkCodecs, frameVars, graphVars, dataVars
<1>2. step' \in DOMAIN Program /\ (step' > LoopHead => passes < MaxPasses)
  BY <1>1, AdvanceFrom
<1>3. cursor' = 1 /\ chosen' = 0 /\ calls' = <<>> /\ codec \in [IoId -> CodecStates]
      /\ passes' \in 0 .. MaxPasses
  BY <1>1, AtOperation
<1>4. codec' \in [IoId -> CodecStates]
  <2>1. ASSUME NEW io \in IoId, Tellers(io) # {}
        PROVE  Told(job.io[io], codec[io], Commands(CHOOSE n \in Tellers(io) : TRUE)) \in CodecStates
    <3> DEFINE teller == CHOOSE n \in Tellers(io) : TRUE
    <3>1. teller \in Tellers(io)
      BY <2>1
    <3>2. GraphTyped
      BY DEF EngineInv, TypeOK
    <3>3. teller \in NodeId
      BY <3>1, <3>2, LiveType DEF Tellers
    <3>4. Commands(teller) \in Seq(Nat)
      BY <3>2, <3>3, CommandsType
    <3> QED
      BY <1>3, <3>4, ToldType
  <2>2. codec' = [io \in IoId |->
                    IF Tellers(io) = {} THEN codec[io]
                    ELSE Told(job.io[io], codec[io], Commands(CHOOSE n \in Tellers(io) : TRUE))]
    BY DEF LinkCodecs
  <2> QED
    BY <1>3, <2>1, <2>2
<1>5. status' \in {"running", "finished", "failed", "panicked"}
  BY <1>1 DEF EngineInv, TypeOK, LoopTyped
<1> QED
  BY <1>1, <1>2, <1>3, <1>4, <1>5, AdvanceTyped

\* The end of populate_dimensions_where_certain.
LEMMA PopulateDoneTyped == EngineInv /\ PopulateDone => EngineInv'
<1> SUFFICES ASSUME EngineInv, PopulateDone PROVE EngineInv'
  OBVIOUS
<1>1. /\ At("populate") /\ Advance /\ UNCHANGED frameVars /\ cursor' = 1
      /\ UNCHANGED <<codec, passes, moreFrames, chosen, calls, status>>
  BY DEF PopulateDone, frameVars, graphVars, dataVars
<1>2. step' \in DOMAIN Program /\ (step' > LoopHead => passes < MaxPasses)
  BY <1>1, AdvanceFrom
<1>3. /\ chosen' = 0 /\ calls' = <<>> /\ codec' \in [IoId -> CodecStates] /\ passes' \in 0 .. MaxPasses
      /\ status' \in {"running", "finished", "failed", "panicked"}
  BY <1>1, AtOperation DEF EngineInv, TypeOK, LoopTyped
<1> QED
  BY <1>1, <1>2, <1>3, AdvanceTyped

\* The end of graph_pre_optimize_flatten.
LEMMA FlattenDoneTyped == EngineInv /\ FlattenDone => EngineInv'
<1> SUFFICES ASSUME EngineInv, FlattenDone PROVE EngineInv'
  OBVIOUS
<1>1. /\ At("flatten") /\ chosen = 0 /\ Advance /\ UNCHANGED frameVars
      /\ UNCHANGED <<codec, cursor, passes, moreFrames, chosen, calls, status>>
  BY DEF FlattenDone, pickFrame, frameVars, graphVars, dataVars
<1>2. step' \in DOMAIN Program /\ (step' > LoopHead => passes < MaxPasses)
  BY <1>1, AdvanceFrom
<1>3. /\ cursor' = 1 /\ chosen' = 0 /\ calls' = <<>> /\ codec' \in [IoId -> CodecStates]
      /\ passes' \in 0 .. MaxPasses /\ status' \in {"running", "finished", "failed", "panicked"}
  BY <1>1, AtOperation DEF EngineInv, TypeOK, LoopTyped
<1> QED
  BY <1>1, <1>2, <1>3, AdvanceTyped

\* Execution ends the loop's body; the pass it completes was within the limit.
LEMMA ExecuteDoneTyped == EngineInv /\ ExecuteDone => EngineInv'
<1> SUFFICES ASSUME EngineInv, ExecuteDone PROVE EngineInv'
  OBVIOUS
<1>1. /\ At("execute") /\ chosen = 0 /\ Advance /\ passes' = passes + 1 /\ UNCHANGED frameVars
      /\ UNCHANGED <<codec, cursor, moreFrames, chosen, calls, status>>
  BY DEF ExecuteDone, pickFrame, frameVars, graphVars, dataVars
<1>2. step = 14
  BY <1>1, AtOperation
<1>3. step' = 3 /\ step' \in DOMAIN Program
  BY <1>1, <1>2, ProgramShape DEF Advance, LoopHead
<1>4. passes' \in 0 .. MaxPasses
  BY <1>1, <1>2, AtOperation DEF EngineInv, ControlInv, LoopHead
<1>5. /\ cursor' = 1 /\ chosen' = 0 /\ calls' = <<>> /\ codec' \in [IoId -> CodecStates]
      /\ status' \in {"running", "finished", "failed", "panicked"}
  BY <1>1, AtOperation DEF EngineInv, TypeOK, LoopTyped
<1> QED
  BY <1>1, <1>3, <1>4, <1>5, AdvanceTyped DEF LoopHead

\* Another pass is only begun below the limit.
LEMMA NextPassTyped == EngineInv /\ NextPass => EngineInv'
<1> SUFFICES ASSUME EngineInv, NextPass PROVE EngineInv'
  OBVIOUS
<1>1. /\ At("loop") /\ passes < MaxPasses /\ Advance /\ UNCHANGED frameVars
      /\ UNCHANGED <<codec, cursor, passes, moreFrames, chosen, calls, status>>
  BY DEF NextPass, frameVars, graphVars, dataVars
<1>2. step' \in DOMAIN Program
  BY <1>1, AtOperation, AdvanceType
<1>3. /\ cursor' = 1 /\ chosen' = 0 /\ calls' = <<>> /\ codec' \in [IoId -> CodecStates]
      /\ passes' \in 0 .. MaxPasses /\ status' \in {"running", "finished", "failed", "panicked"}
  BY <1>1, AtOperation DEF EngineInv, TypeOK, LoopTyped
<1> QED
  BY <1>1, <1>2, <1>3, AdvanceTyped

\* The job stops at the loop's head.
LEMMA StopTyped == EngineInv /\ (PassLimit \/ Finish) => EngineInv'
<1> SUFFICES ASSUME EngineInv, PassLimit \/ Finish PROVE EngineInv'
  OBVIOUS
<1>1. /\ At("loop") /\ UNCHANGED frameVars
      /\ UNCHANGED <<codec, step, cursor, passes, moreFrames, chosen, calls>>
      /\ status' \in {"running", "finished", "failed", "panicked"}
  BY DEF PassLimit, Finish, Fail, frameVars, graphVars, dataVars, loopVars
<1>2. /\ step' \in DOMAIN Program /\ (step' > LoopHead => passes' < MaxPasses)
      /\ cursor' = 1 /\ chosen' = 0 /\ calls' = <<>> /\ codec' \in [IoId -> CodecStates]
      /\ passes' \in 0 .. MaxPasses
  BY <1>1, AtOperation DEF EngineInv, ControlInv
<1> QED
  BY <1>1, <1>2, AdvanceTyped

\* One more frame starts from the client's graph.
LEMMA NextFrameTyped == EngineInv /\ NextFrame => EngineInv'
<1> SUFFICES ASSUME EngineInv, NextFrame PROVE EngineInv'
  OBVIOUS
<1> USE DEF NextFrame
<1>1. job' \in Jobs /\ job' = job
  BY DEF EngineInv, ControlInv
<1>2. GraphTyped'
  <2>1. /\ job.nodes \in Seq(Weights) /\ Len(job.nodes) <= MaxNodes
        /\ job.order \in Seq(NodeId) /\ job.edges \subseteq Edge
    BY <1>1, JobsAssumption
  <2>2. Len(job.nodes) \in Nat
    BY <2>1, SequenceElements
  <2>3. weight' \in [NodeId -> Weights]
    BY <1>1, InitialWeightType
  <2>4. nextNode' \in 1 .. MaxNodes + 1
    BY <2>1, <2>2, BoundsAssumption
  <2> QED
    BY <2>1, <2>3, <2>4 DEF GraphTyped
<1>3. FramesTyped'
  <2>1. Unknown \in Estimates /\ NoResult \in Results
    BY DEF Unknown, Est, Estimates, Results
  <2>2. est' \in [NodeId -> Estimates] /\ result' \in [NodeId -> Results]
    BY <2>1
  <2> QED
    BY <2>2 DEF EngineInv, TypeOK, FramesTyped, dataVars
<1>4. /\ cursor' = 1 /\ chosen' = 0 /\ calls' = <<>> /\ status' = status /\ step' = 1
      /\ passes' = 0 /\ MaxPasses \in Nat /\ moreFrames' = FALSE
  BY AtOperation
<1>5. LoopTyped'
  <2>1. Len(nodes)' \in Nat
    BY <1>2, SequenceElements DEF GraphTyped
  <2>2. cursor' \in 1 .. Len(nodes)' + 1
    BY <1>4, <2>1
  <2>3. calls' \in Seq(Activations)
    BY <1>4, ShortSequences
  <2>4. step' \in DOMAIN Program /\ passes' \in 0 .. MaxPasses
    BY <1>4, ProgramShape
  <2>5. status' \in {"running", "finished", "failed", "panicked"}
    BY <1>4 DEF EngineInv, TypeOK, LoopTyped
  <2>6. moreFrames' \in BOOLEAN /\ chosen' \in {0} \cup NodeId
    BY <1>4
  <2> QED
    BY <2>2, <2>3, <2>4, <2>5, <2>6 DEF LoopTyped
<1>6. ControlInv'
  BY <1>1, <1>4 DEF ControlInv, LoopHead
<1> QED
  BY <1>2, <1>3, <1>5, <1>6 DEF EngineInv, TypeOK

-----------------------------------------------------------------------------
(* Estimating, and choosing a node.                                        *)

\* A step within an operation of the program that leaves the graph alone.
LEMMA WithinTyped ==
  ASSUME EngineInv, UNCHANGED <<job, graphVars, step, passes>>, FramesTyped',
         moreFrames' \in BOOLEAN,
         cursor' \in 1 .. Len(nodes) + 1, cursor' # 1 => Program[step] = "populate",
         chosen' \in {0} \cup NodeId,
         chosen' # 0 => \/ Program[step] = "flatten" /\ weight[chosen'].def \in CanExpand
                        \/ Program[step] = "execute",
         calls' \in Seq(Activations), status' \in {"running", "finished", "failed", "panicked"}
  PROVE  EngineInv'
<1>1. GraphTyped'
  BY DEF EngineInv, TypeOK, GraphTyped, graphVars
<1>2. LoopTyped'
  BY DEF EngineInv, TypeOK, LoopTyped, graphVars
<1>3. ControlInv'
  BY DEF EngineInv, ControlInv, graphVars
<1> QED
  BY <1>1, <1>2, <1>3 DEF EngineInv, TypeOK

\* A step of estimate_node_recursive changes estimates, codecs, activations and
\* perhaps the status.
LEMMA EstimateTyped ==
  ASSUME EngineInv, UNCHANGED estimateFrame,
         est' \in [NodeId -> Estimates], codec' \in [IoId -> CodecStates],
         calls' \in Seq(Activations), status' \in {"running", "finished", "failed", "panicked"}
  PROVE  EngineInv'
<1>1. FramesTyped'
  BY DEF EngineInv, TypeOK, FramesTyped, estimateFrame, dataVars
<1>2. UNCHANGED <<job, graphVars, step, passes, chosen, cursor, moreFrames>>
  BY DEF estimateFrame, loopVars
<1>3. /\ moreFrames \in BOOLEAN /\ cursor \in 1 .. Len(nodes) + 1 /\ chosen \in {0} \cup NodeId
      /\ cursor # 1 => Program[step] = "populate"
      /\ chosen # 0 => \/ Program[step] = "flatten" /\ weight[chosen].def \in CanExpand
                       \/ Program[step] = "execute"
  BY DEF EngineInv, TypeOK, LoopTyped, ControlInv
<1> QED
  BY <1>1, <1>2, <1>3, WithinTyped

\* The innermost activation and what may become of it.
LEMMA TopTyped ==
  ASSUME EngineInv, Estimating
  PROVE  /\ Top \in Activations /\ Top.node \in NodeId
         /\ SubSeq(calls, 1, Len(calls) - 1) \in Seq(Activations)
         /\ \A a \in Activations : [calls EXCEPT ![Len(calls)] = a] \in Seq(Activations)
         /\ Top.phase # "enter" => Call(Top.node, Top.limit - 1) \in Activations
         /\ est \in [NodeId -> Estimates] /\ codec \in [IoId -> CodecStates] /\ job \in Jobs
<1>1. calls \in Seq(Activations) /\ calls # <<>>
  BY DEF EngineInv, TypeOK, LoopTyped, Estimating
<1>2. Top \in Activations /\ SubSeq(calls, 1, Len(calls) - 1) \in Seq(Activations)
  BY <1>1, PopType DEF Top
<1>3. \A a \in Activations : [calls EXCEPT ![Len(calls)] = a] \in Seq(Activations)
  BY <1>1, ReplaceTopType
<1>4. Top.node \in NodeId /\ (Top.phase # "enter" => Top.limit - 1 \in -1 .. RecursionLimit)
  BY <1>2, BoundsAssumption DEF Activations
<1>5. Top.phase # "enter" => Call(Top.node, Top.limit - 1) \in Activations
  BY <1>4, CallType
<1> QED
  BY <1>2, <1>3, <1>4, <1>5 DEF EngineInv, TypeOK, FramesTyped, ControlInv

\* Giving up on an estimate.
LEMMA SetImpossibleTyped ==
  ASSUME est \in [NodeId -> Estimates], NEW n, SetImpossible(n)
  PROVE  est' \in [NodeId -> Estimates]
<1>1. Impossible \in Estimates
  BY DEF Impossible, Est, Estimates
<1> QED
  BY <1>1 DEF SetImpossible

\* Entering estimate_node_recursive.
LEMMA EstimateEnterTyped == EngineInv /\ EstimateEnter => EngineInv'
<1> SUFFICES ASSUME EngineInv, EstimateEnter PROVE EngineInv'
  OBVIOUS
<1>1. Estimating /\ UNCHANGED estimateFrame /\ UNCHANGED codec
  BY DEF EstimateEnter
<1>2. status \in {"running", "finished", "failed", "panicked"}
  BY DEF EngineInv, TypeOK, LoopTyped
<1>3. \/ status' = "panicked" /\ UNCHANGED <<est, calls>>
      \/ Return /\ UNCHANGED <<est, status>>
      \/ Top.limit >= 0 /\ Become([Top EXCEPT !.phase = "run"]) /\ UNCHANGED <<est, status>>
      \/ SetImpossible(Top.node) /\ Return /\ UNCHANGED status
      \/ /\ Top.limit >= 0 /\ UNCHANGED <<est, status>>
         /\ Become([Top EXCEPT !.phase = "parents", !.todo = Parents(Top.node)])
  <2>1. Top.limit \in Int
    BY <1>1, TopTyped, BoundsAssumption DEF Activations
  <2>2. CASE Top.limit < 0
    BY <2>1, <2>2 DEF EstimateEnter, Fail
  <2>3. CASE Top.limit >= 0 /\ est[Top.node].k = "Some"
    BY <2>1, <2>3 DEF EstimateEnter
  <2>4. CASE Top.limit >= 0 /\ est[Top.node].k # "Some"
    BY <2>1, <2>4 DEF EstimateEnter, InputsEstimated, GiveUp
  <2> QED
    BY <2>1, <2>2, <2>3, <2>4
<1>4. calls' \in Seq(Activations)
  <2>1. Top.limit >= 0 => [Top EXCEPT !.phase = "run"] \in Activations
    BY <1>1, TopTyped DEF Activations
  <2>2. Parents(Top.node) \subseteq NodeId
    BY ParentType DEF EngineInv, TypeOK
  <2>3. Top.limit >= 0 => [Top EXCEPT !.phase = "parents", !.todo = Parents(Top.node)] \in Activations
    BY <1>1, <2>2, TopTyped DEF Activations
  <2> QED
    BY <1>1, <1>3, <2>1, <2>3, TopTyped DEF Become, Return, EngineInv, TypeOK, LoopTyped
<1>5. est' \in [NodeId -> Estimates]
  BY <1>1, <1>3, TopTyped, SetImpossibleTyped
<1>6. codec' \in [IoId -> CodecStates] /\ status' \in {"running", "finished", "failed", "panicked"}
  BY <1>1, <1>2, <1>3, TopTyped
<1> QED
  BY <1>1, <1>4, <1>5, <1>6, EstimateTyped

\* Recursing into a parent: the limit goes down by one.
LEMMA EstimateParentTyped == EngineInv /\ EstimateParent => EngineInv'
<1> SUFFICES ASSUME EngineInv, EstimateParent PROVE EngineInv'
  OBVIOUS
<1>1. Estimating /\ UNCHANGED estimateFrame /\ UNCHANGED <<codec, est, status>> /\ Top.phase = "parents"
  BY DEF EstimateParent
<1>2. PICK p \in Top.todo :
        calls' = Append([calls EXCEPT ![Len(calls)].todo = @ \ {p}], Call(p, Top.limit - 1))
  BY DEF EstimateParent
<1>3. p \in NodeId /\ Top.limit - 1 \in -1 .. RecursionLimit
  BY <1>1, TopTyped, BoundsAssumption DEF Activations
<1>4. [Top EXCEPT !.todo = @ \ {p}] \in Activations
  BY <1>1, TopTyped DEF Activations
<1>5. [calls EXCEPT ![Len(calls)].todo = @ \ {p}] \in Seq(Activations)
  <2>1. [calls EXCEPT ![Len(calls)].todo = @ \ {p}] =
           [calls EXCEPT ![Len(calls)] = [Top EXCEPT !.todo = @ \ {p}]]
    BY DEF Top
  <2> QED
    BY <1>1, <1>4, <2>1, TopTyped
<1>6. calls' \in Seq(Activations)
  <2>1. Call(p, Top.limit - 1) \in Activations
    BY <1>3, CallType
  <2> QED
    BY <1>2, <1>5, <2>1
<1>7. status' \in {"running", "finished", "failed", "panicked"}
  BY <1>1 DEF EngineInv, TypeOK, LoopTyped
<1> QED
  BY <1>1, <1>6, <1>7, TopTyped, EstimateTyped

\* Coming back from the parents.
LEMMA EstimateResumeTyped == EngineInv /\ EstimateResume => EngineInv'
<1> SUFFICES ASSUME EngineInv, EstimateResume PROVE EngineInv'
  OBVIOUS
<1>1. Estimating /\ UNCHANGED estimateFrame /\ UNCHANGED <<codec, status>> /\ Top.phase = "parents"
  BY DEF EstimateResume
<1>2. \/ Become([Top EXCEPT !.phase = "run"]) /\ UNCHANGED est
      \/ SetImpossible(Top.node) /\ Return
  BY DEF EstimateResume
<1>3. [Top EXCEPT !.phase = "run"] \in Activations
  BY <1>1, TopTyped DEF Activations
<1>4. calls' \in Seq(Activations)
  BY <1>1, <1>2, <1>3, TopTyped DEF Become, Return
<1>5. est' \in [NodeId -> Estimates]
  BY <1>1, <1>2, TopTyped, SetImpossibleTyped
<1>6. status' \in {"running", "finished", "failed", "panicked"}
  BY <1>1 DEF EngineInv, TypeOK, LoopTyped
<1> QED
  BY <1>1, <1>4, <1>5, <1>6, TopTyped, EstimateTyped

\* Asking the definition for its estimate, and starting over if it invalidates.
LEMMA EstimateRunTyped == EngineInv /\ EstimateRun => EngineInv'
<1> SUFFICES ASSUME EngineInv, EstimateRun PROVE EngineInv'
  OBVIOUS
<1> DEFINE n == Top.node
<1>1. Estimating /\ Top.phase = "run" /\ UNCHANGED estimateFrame
  BY DEF EstimateRun
<1>2. CASE EstimateFails(n)
  <2>1. status' = "failed" /\ UNCHANGED <<est, calls, codec>>
    BY <1>2 DEF EstimateRun, Fail
  <2> QED
    BY <1>1, <2>1, TopTyped, EstimateTyped DEF EngineInv, TypeOK, LoopTyped
<1>3. CASE ~EstimateFails(n)
  <2>1. codec' \in [IoId -> CodecStates] /\ Estimated(n) \in Estimates
    <3>1. codec' = CodecsAfterEstimate(n)
      BY <1>3 DEF EstimateRun
    <3>2. GraphTyped /\ FramesTyped
      BY DEF EngineInv, TypeOK
    <3> QED
      BY <1>1, <1>3, <3>1, <3>2, TopTyped, CodecsAfterEstimateType, EstimatedType
  <2>2. \/ status' = "panicked" /\ UNCHANGED <<est, calls>>
        \/ /\ est' = [m \in NodeId |-> IF m = n THEN Invalidate ELSE Unknown]
           /\ Become(Call(n, Top.limit - 1)) /\ UNCHANGED status
        \/ est' = [est EXCEPT ![n] = Estimated(n)] /\ Return /\ UNCHANGED status
    <3>1. CASE Estimated(n) = Unknown
      BY <1>3, <3>1 DEF EstimateRun, Fail, Unknown, Invalidate, Est
    <3>2. CASE Estimated(n) = Invalidate
      BY <1>3, <3>2 DEF EstimateRun, Unknown, Invalidate, Est
    <3>3. CASE Estimated(n) # Unknown /\ Estimated(n) # Invalidate
      BY <1>3, <3>3 DEF EstimateRun
    <3> QED
      BY <3>1, <3>2, <3>3
  <2>3. est' \in [NodeId -> Estimates]
    <3>1. Invalidate \in Estimates /\ Unknown \in Estimates
      BY DEF Invalidate, Unknown, Est, Estimates
    <3> QED
      BY <1>1, <2>1, <2>2, <3>1, TopTyped
  <2>4. calls' \in Seq(Activations)
    BY <1>1, <2>2, TopTyped DEF Become, Return, EngineInv, TypeOK, LoopTyped
  <2>5. status' \in {"running", "finished", "failed", "panicked"}
    BY <2>2 DEF EngineInv, TypeOK, LoopTyped
  <2> QED
    BY <1>1, <2>1, <2>3, <2>4, <2>5, EstimateTyped
<1> QED
  BY <1>2, <1>3

\* One activation, of any node, starts an estimate.
LEMMA FirstCallTyped ==
  ASSUME NEW n \in NodeId
  PROVE  <<Call(n, RecursionLimit)>> \in Seq(Activations) /\ <<>> \in Seq(Activations)
<1>1. Call(n, RecursionLimit) \in Activations
  BY BoundsAssumption, CallType
<1> QED
  BY <1>1, ShortSequences

\* The next index of populate_dimensions_where_certain.
LEMMA PopulateNextTyped == EngineInv /\ PopulateNext => EngineInv'
<1> SUFFICES ASSUME EngineInv, PopulateNext PROVE EngineInv'
  OBVIOUS
<1>1. /\ At("populate") /\ cursor <= Len(nodes) /\ calls' = <<Call(nodes[cursor], RecursionLimit)>>
      /\ cursor' = cursor + 1
      /\ UNCHANGED <<job, graphVars, step, passes, chosen, moreFrames, status, est, result, codec,
                     bitmap, nextBitmap>>
  BY DEF PopulateNext, dataVars
<1>2. nodes \in Seq(NodeId) /\ cursor \in 1 .. Len(nodes) + 1
  BY DEF EngineInv, TypeOK, GraphTyped, LoopTyped
<1>3. Len(nodes) \in Nat /\ \A i \in 1 .. Len(nodes) : nodes[i] \in NodeId
  BY <1>2, SequenceElements
<1>4. nodes[cursor] \in NodeId /\ cursor' \in 1 .. Len(nodes) + 1
  BY <1>1, <1>2, <1>3
<1>5. calls' \in Seq(Activations)
  BY <1>1, <1>4, FirstCallTyped
<1>6. FramesTyped'
  BY <1>1 DEF EngineInv, TypeOK, FramesTyped
<1>7. /\ moreFrames \in BOOLEAN /\ chosen = 0 /\ Program[step] = "populate"
      /\ status \in {"running", "finished", "failed", "panicked"}
  BY <1>1, AtOperation DEF EngineInv, TypeOK, LoopTyped
<1> QED
  BY <1>1, <1>4, <1>5, <1>6, <1>7, WithinTyped

\* A chosen node is a live one; its estimate may have to be made first.
LEMMA ChooseTyped ==
  ASSUME EngineInv, NEW op \in {"flatten", "execute"}, At(op), NEW n \in Live, chosen' = n,
         op = "flatten" => weight[n].def \in CanExpand,
         calls' = <<>> \/ calls' = <<Call(n, RecursionLimit)>>,
         UNCHANGED pickFrame, UNCHANGED <<step, passes>>
  PROVE  EngineInv'
<1>1. n \in NodeId
  BY LiveType DEF EngineInv, TypeOK
<1>2. UNCHANGED <<job, graphVars, step, passes, cursor, moreFrames, status>> /\ FramesTyped'
  BY DEF EngineInv, TypeOK, FramesTyped, pickFrame, dataVars
<1>3. calls' \in Seq(Activations)
  BY <1>1, FirstCallTyped
<1>4. cursor = 1 /\ Program[step] = op
  BY AtOperation
<1>5. /\ moreFrames \in BOOLEAN /\ cursor \in 1 .. Len(nodes) + 1
      /\ status \in {"running", "finished", "failed", "panicked"}
  BY DEF EngineInv, TypeOK, LoopTyped
<1> QED
  BY <1>1, <1>2, <1>3, <1>4, <1>5, WithinTyped

\* Picking a node to expand.
LEMMA FlattenChooseTyped == EngineInv /\ FlattenChoose => EngineInv'
<1> SUFFICES ASSUME EngineInv, FlattenChoose PROVE EngineInv'
  OBVIOUS
<1>1. PICK n \in Live :
        /\ FirstIs(n, Expandable) /\ chosen' = n
        /\ calls' = IF est[n].k = "Some" THEN <<>> ELSE <<Call(n, RecursionLimit)>>
  BY DEF FlattenChoose
<1>2. weight[n].def \in CanExpand
  BY <1>1 DEF FirstIs, Expandable
<1> QED
  BY <1>1, <1>2, ChooseTyped DEF FlattenChoose

\* Picking a node to execute.
LEMMA ExecuteChooseTyped == EngineInv /\ ExecuteChoose => EngineInv'
<1> SUFFICES ASSUME EngineInv, ExecuteChoose PROVE EngineInv'
  OBVIOUS
<1>1. PICK n \in Live :
        /\ FirstIs(n, Executable) /\ chosen' = n
        /\ calls' = IF est[n] = Unknown THEN <<Call(n, RecursionLimit)>> ELSE <<>>
  BY DEF ExecuteChoose
<1> QED
  BY <1>1, ChooseTyped DEF ExecuteChoose

-----------------------------------------------------------------------------
(* Expanding and executing the chosen node.                                *)

\* Expanding any definition keeps the graph well formed.
LEMMA FlattenExpandTyped == EngineInv /\ FlattenExpand => EngineInv'
<1> SUFFICES ASSUME EngineInv, FlattenExpand PROVE EngineInv'
  OBVIOUS
<1>1. /\ At("flatten") /\ chosen # 0 /\ chosen' = 0
      /\ UNCHANGED <<job, bitmap, nextBitmap, codec, step, cursor, passes, moreFrames, calls>>
  BY DEF FlattenExpand, dataVars, loopVars
<1>2. chosen \in NodeId /\ weight[chosen].def \in CanExpand /\ GraphTyped /\ FramesTyped /\ job \in Jobs
  BY <1>1, AtOperation DEF EngineInv, TypeOK, LoopTyped, ControlInv
<1>3. /\ GraphTyped' /\ est' \in [NodeId -> Estimates] /\ result' \in [NodeId -> Results]
      /\ status' \in {"running", "finished", "failed", "panicked"}
  <2>1. CASE ExpandFails(chosen)
    BY <1>2, <2>1 DEF FlattenExpand, Fail, graphVars, GraphTyped, FramesTyped
  <2>2. CASE ~ExpandFails(chosen)
    <3>1. Expand(chosen) /\ UNCHANGED status
      BY <2>2 DEF FlattenExpand
    <3> QED
      BY <1>2, <2>2, <3>1, ExpandTyped DEF EngineInv, TypeOK, LoopTyped
  <2> QED
    BY <2>1, <2>2
<1>4. FramesTyped'
  BY <1>1, <1>3 DEF EngineInv, TypeOK, FramesTyped
<1>5. /\ cursor' = 1 /\ calls' = <<>> /\ step' \in DOMAIN Program /\ passes' \in 0 .. MaxPasses
      /\ step' > LoopHead => passes' < MaxPasses
  BY <1>1, AtOperation DEF EngineInv, ControlInv
<1>6. LoopTyped'
  <2>1. Len(nodes)' \in Nat
    BY <1>3, SequenceElements DEF GraphTyped
  <2>2. cursor' \in 1 .. Len(nodes)' + 1
    BY <1>5, <2>1
  <2>3. calls' \in Seq(Activations)
    BY <1>5, ShortSequences
  <2>4. moreFrames' \in BOOLEAN
    BY <1>1 DEF EngineInv, TypeOK, LoopTyped
  <2> QED
    BY <1>1, <1>3, <1>5, <2>2, <2>3, <2>4 DEF LoopTyped
<1>7. ControlInv'
  BY <1>1, <1>2, <1>5 DEF ControlInv
<1> QED
  BY <1>3, <1>4, <1>6, <1>7 DEF EngineInv, TypeOK

\* What holds when the chosen node executes.
LEMMA ChosenTyped ==
  ASSUME EngineInv, NEW ds, ReadyTo(ds)
  PROVE  /\ chosen \in NodeId /\ weight[chosen].def \in ds /\ weight[chosen].p \in Params
         /\ GraphTyped /\ FramesTyped /\ job \in Jobs
         /\ cursor = 1 /\ calls = <<>>
<1>1. At("execute") /\ chosen # 0 /\ weight[chosen].def \in ds
  BY DEF ReadyTo
<1>2. chosen \in NodeId /\ GraphTyped /\ FramesTyped /\ job \in Jobs
  BY <1>1 DEF EngineInv, TypeOK, LoopTyped, ControlInv
<1> QED
  BY <1>1, <1>2, AtOperation, WeightType

\* Executing a node changes frames and codecs, and nothing is chosen after it.
LEMMA ExecuteTyped ==
  ASSUME EngineInv, NEW ds, ReadyTo(ds), FramesTyped', moreFrames' \in BOOLEAN, chosen' = 0,
         UNCHANGED <<job, graphVars, step, cursor, passes, calls>>,
         status' \in {"running", "finished", "failed", "panicked"}
  PROVE  EngineInv'
<1>1. cursor \in 1 .. Len(nodes) + 1 /\ calls \in Seq(Activations) /\ cursor = 1
  BY ChosenTyped DEF EngineInv, TypeOK, LoopTyped
<1> QED
  BY <1>1, WithinTyped

\* A bitmap with a size, as the result of the chosen node.
LEMMA ProduceTyped ==
  ASSUME EngineInv, NEW b, NEW content, content.w \in Nat, content.h \in Nat, Produce(b, content)
  PROVE  /\ est' \in [NodeId -> Estimates] /\ chosen' = 0
         /\ DOMAIN bitmap' = BitmapId
         /\ \A c \in BitmapId : bitmap'[c].w \in Nat /\ bitmap'[c].h \in Nat
<1>1. EstimateOf(content) \in Estimates
  BY KnownType DEF EstimateOf
<1> QED
  BY <1>1 DEF EngineInv, TypeOK, FramesTyped, Produce

\* A newly allocated bitmap as the result of the chosen node.
LEMMA ProduceNewTyped ==
  ASSUME EngineInv, NEW ds, ReadyTo(ds), NEW content, content.w \in Nat, content.h \in Nat,
         ProduceNew(content), codec' \in [IoId -> CodecStates]
  PROVE  FramesTyped' /\ chosen' = 0
<1>1. nextBitmap \in 1 .. MaxBitmaps + 1 /\ result \in [NodeId -> Results] /\ chosen \in NodeId
  BY ChosenTyped DEF FramesTyped
<1>2. nextBitmap \in BitmapId /\ nextBitmap' \in 1 .. MaxBitmaps + 1
  BY <1>1, BoundsAssumption DEF ProduceNew, BitmapId
<1>3. Frame(nextBitmap) \in Results
  BY <1>2 DEF Results
<1>4. result' \in [NodeId -> Results]
  BY <1>1, <1>3 DEF ProduceNew
<1>5. /\ est' \in [NodeId -> Estimates] /\ chosen' = 0 /\ DOMAIN bitmap' = BitmapId
      /\ \A c \in BitmapId : bitmap'[c].w \in Nat /\ bitmap'[c].h \in Nat
  BY ProduceTyped DEF ProduceNew
<1> QED
  BY <1>2, <1>4, <1>5 DEF FramesTyped

\* Taking a parent's bitmap over.
LEMMA TakeOverTyped ==
  ASSUME EngineInv, NEW n \in NodeId, NEW kind, Holds(n, kind), TakeOver(n, kind)
  PROVE  result' \in [NodeId -> Results]
<1>1. Held(n, kind) \in BitmapId /\ result \in [NodeId -> Results]
  BY HeldType DEF EngineInv, TypeOK, FramesTyped
<1>2. Frame(Held(n, kind)) \in Results /\ Consumed \in Results
  BY <1>1 DEF Results
<1> QED
  BY <1>1, <1>2 DEF TakeOver

\* Executing create_canvas.
LEMMA CreateCanvasTyped == EngineInv /\ CreateCanvas => EngineInv'
<1> SUFFICES ASSUME EngineInv, CreateCanvas PROVE EngineInv'
  OBVIOUS
<1> DEFINE p == weight[chosen].p
<1>1. /\ ReadyTo({"create_canvas"}) /\ Accepts(chosen) /\ ProduceNew(Canvas(p.a[1], p.a[2]))
      /\ UNCHANGED executeFrame /\ UNCHANGED <<codec, moreFrames>>
  BY DEF CreateCanvas, CanDo
<1>2. p.t = "create_canvas" /\ p \in Params
  BY <1>1, ChosenTyped DEF Accepts, ParamsValid, Decoders, OneInputOneCanvas, Mutating, MutateBitmap
<1>3. p.a[1] \in Nat /\ p.a[2] \in Nat
  BY <1>2, TwoFields
<1>4. Canvas(p.a[1], p.a[2]).w \in Nat /\ Canvas(p.a[1], p.a[2]).h \in Nat
  BY <1>3 DEF Canvas, Make
<1>5. FramesTyped' /\ chosen' = 0
  BY <1>1, <1>4, ProduceNewTyped, ChosenTyped DEF FramesTyped
<1> QED
  BY <1>1, <1>5, ExecuteTyped DEF executeFrame, EngineInv, TypeOK, LoopTyped

\* Reading a frame.
LEMMA DecodeTyped == EngineInv /\ Decode => EngineInv'
<1> SUFFICES ASSUME EngineInv, Decode PROVE EngineInv'
  OBVIOUS
<1> DEFINE io == IoOf(chosen)
           c == Informed(job.io[io], codec[io])
           content == Resampled(Source(io, c.read, job.io[io].w, job.io[io].h), c.w, c.h)
<1>1. /\ ReadyTo({"primitive_decoder"}) /\ UNCHANGED executeFrame
      /\ codec' = [codec EXCEPT ![io] = [c EXCEPT !.read = @ + 1]] /\ ProduceNew(content)
      /\ moreFrames' = (moreFrames \/ HasMoreFrames(job.io[io], codec'[io]))
  BY DEF Decode, CanDo
<1>2. io \in IoId
  BY <1>1, ChosenTyped, DecoderIo DEF Decoders
<1>3. c \in CodecStates
  <2>1. job.io[io] \in Media /\ codec[io] \in CodecStates
    BY <1>1, <1>2, JobsAssumption, ChosenTyped DEF FramesTyped
  <2> QED
    BY <2>1, InformedType
<1> HIDE DEF c
<1>4. codec' \in [IoId -> CodecStates]
  <2>1. [c EXCEPT !.read = @ + 1] \in CodecStates
    BY <1>3 DEF CodecStates
  <2> QED
    BY <1>1, <2>1, ChosenTyped DEF FramesTyped
<1>5. content.w \in Nat /\ content.h \in Nat
  BY <1>3 DEF CodecStates, Resampled, Make
<1>6. FramesTyped' /\ chosen' = 0
  BY <1>1, <1>4, <1>5, ProduceNewTyped
<1>7. moreFrames' \in BOOLEAN
  <2>1. HasMoreFrames(job.io[io], codec'[io]) \in BOOLEAN
    BY DEF HasMoreFrames
  <2> QED
    BY <1>1, <2>1 DEF EngineInv, TypeOK, LoopTyped
<1>8. status' \in {"running", "finished", "failed", "panicked"}
  BY <1>1 DEF executeFrame, EngineInv, TypeOK, LoopTyped
<1> QED
  BY <1>1, <1>6, <1>7, <1>8, ExecuteTyped DEF executeFrame

\* Writing a frame.
LEMMA EncodeTyped == EngineInv /\ Encode => EngineInv'
<1> SUFFICES ASSUME EngineInv, Encode PROVE EngineInv'
  OBVIOUS
<1>1. /\ ReadyTo({"primitive_encoder"}) /\ UNCHANGED executeFrame
      /\ result' = [result EXCEPT ![chosen] = Encoded] /\ chosen' = 0
      /\ UNCHANGED <<est, bitmap, nextBitmap, codec, moreFrames>>
  BY DEF Encode, CanDo
<1>2. result' \in [NodeId -> Results]
  BY <1>1, ChosenTyped DEF FramesTyped, Results
<1>3. FramesTyped'
  BY <1>1, <1>2, ChosenTyped DEF FramesTyped
<1> QED
  BY <1>1, <1>3, ExecuteTyped DEF executeFrame, EngineInv, TypeOK, LoopTyped

\* Drawing one image on another.
LEMMA RenderToCanvasTyped == EngineInv /\ RenderToCanvas => EngineInv'
<1> SUFFICES ASSUME EngineInv, RenderToCanvas PROVE EngineInv'
  OBVIOUS
<1> DEFINE b == Held(chosen, "canvas")
           content == Render(weight[chosen].def, weight[chosen].p, bitmap[b], bitmap[Held(chosen, "input")])
<1>1. /\ ReadyTo(OneInputOneCanvas) /\ Accepts(chosen) /\ UNCHANGED executeFrame
      /\ Produce(b, content) /\ TakeOver(chosen, "canvas")
      /\ UNCHANGED <<nextBitmap, codec, moreFrames>>
  BY DEF RenderToCanvas, CanDo
<1>2. weight[chosen].def \in OneInputOneCanvas /\ GraphTyped /\ FramesTyped /\ chosen \in NodeId
  BY <1>1, ChosenTyped
<1>3. Holds(chosen, "input") /\ Holds(chosen, "canvas")
  BY <1>1, <1>2 DEF Accepts, OneInputOneCanvas, Mutating, MutateBitmap
<1>4. content.w \in Nat /\ content.h \in Nat
  BY <1>2, <1>3, HeldType, RenderSize
<1> HIDE DEF content
<1>5. FramesTyped' /\ chosen' = 0
  BY <1>1, <1>2, <1>3, <1>4, ProduceTyped, TakeOverTyped DEF FramesTyped
<1> QED
  BY <1>1, <1>5, ExecuteTyped DEF executeFrame, EngineInv, TypeOK, LoopTyped

\* Changing an image in place.
LEMMA MutateInputTyped == EngineInv /\ MutateInput => EngineInv'
<1> SUFFICES ASSUME EngineInv, MutateInput PROVE EngineInv'
  OBVIOUS
<1> DEFINE b == Held(chosen, "input")
           content == Mutate(weight[chosen].def, weight[chosen].p, bitmap[b])
<1>1. /\ ReadyTo(Mutating) /\ Accepts(chosen) /\ UNCHANGED executeFrame
      /\ Produce(b, content) /\ TakeOver(chosen, "input")
      /\ UNCHANGED <<nextBitmap, codec, moreFrames>>
  BY DEF MutateInput, CanDo
<1>2. /\ weight[chosen].def \in Mutating /\ weight[chosen].p \in Params
      /\ GraphTyped /\ FramesTyped /\ chosen \in NodeId
  BY <1>1, ChosenTyped
<1>3. Holds(chosen, "input") /\ MutateFits(weight[chosen].def, weight[chosen].p, bitmap[b])
  BY <1>1, <1>2 DEF Accepts, OneInputOneCanvas, Mutating, MutateBitmap
<1>4. content.w \in Nat /\ content.h \in Nat
  BY <1>2, <1>3, HeldType, MutateSize
<1> HIDE DEF content
<1>5. FramesTyped' /\ chosen' = 0
  BY <1>1, <1>2, <1>3, <1>4, ProduceTyped, TakeOverTyped DEF FramesTyped
<1> QED
  BY <1>1, <1>5, ExecuteTyped DEF executeFrame, EngineInv, TypeOK, LoopTyped

\* A node that turns its inputs down.
LEMMA ExecuteFailureTyped == EngineInv /\ ExecuteFailure => EngineInv'
<1> SUFFICES ASSUME EngineInv, ExecuteFailure PROVE EngineInv'
  OBVIOUS
<1>1. /\ ReadyTo(CanExecute) /\ chosen' = 0 /\ status' = "failed"
      /\ UNCHANGED <<job, graphVars, est, result, bitmap, nextBitmap, codec, step, cursor, passes, calls,
                     moreFrames>>
  BY DEF ExecuteFailure, Fail, dataVars, loopVars
<1>2. FramesTyped'
  BY <1>1, ChosenTyped DEF FramesTyped
<1> QED
  BY <1>1, <1>2, ExecuteTyped DEF EngineInv, TypeOK, LoopTyped

\* Nothing changes.
LEMMA StutterTyped == EngineInv /\ UNCHANGED vars => EngineInv'
BY DEF EngineInv, TypeOK, GraphTyped, FramesTyped, LoopTyped, ControlInv, vars, graphVars, dataVars, loopVars

\* Every step keeps the invariant: one case per action.
LEMMA StepTyped == EngineInv /\ [Next]_vars => EngineInv'
<1> SUFFICES ASSUME EngineInv, [Next]_vars PROVE EngineInv'
  OBVIOUS
<1>1. CASE ValidateGraph
  BY <1>1, ValidateGraphTyped
<1>2. CASE LinkCodecs
  BY <1>2, LinkCodecsTyped
<1>3. CASE EstimateNodeRecursive
  BY <1>3, EstimateEnterTyped, EstimateParentTyped, EstimateResumeTyped, EstimateRunTyped
     DEF EstimateNodeRecursive
<1>4. CASE PopulateNext
  BY <1>4, PopulateNextTyped
<1>5. CASE PopulateDone
  BY <1>5, PopulateDoneTyped
<1>6. CASE Flatten
  BY <1>6, FlattenChooseTyped, FlattenDoneTyped, FlattenExpandTyped DEF Flatten
<1>7. CASE Execute
  BY <1>7, ExecuteChooseTyped, ExecuteDoneTyped, ExecuteFailureTyped, CreateCanvasTyped, DecodeTyped,
     EncodeTyped, RenderToCanvasTyped, MutateInputTyped DEF Execute
<1>8. CASE Loop
  BY <1>8, NextPassTyped, StopTyped, NextFrameTyped DEF Loop
<1>9. CASE Stopped
  BY <1>9, StutterTyped DEF Stopped
<1>10. CASE UNCHANGED vars
  BY <1>10, StutterTyped
<1> QED
  BY <1>1, <1>2, <1>3, <1>4, <1>5, <1>6, <1>7, <1>8, <1>9, <1>10 DEF Next

\* The engine's types, with the control facts they depend on, are an invariant.
THEOREM EngineInvariant == Spec => []EngineInv
<1>1. Init => EngineInv
  BY InitTyped
<1>2. EngineInv /\ [Next]_vars => EngineInv'
  BY StepTyped
<1> QED
  BY <1>1, <1>2, PTL DEF Spec

\* Every variable always has its type: in particular no expansion of any
\* definition ever builds a malformed node, no estimate or crop ever has a
\* negative size, and the recursion limit and the pass limit are kept.
THEOREM TypeCorrect == Spec => []TypeOK
<1>1. EngineInv => TypeOK
  BY DEF EngineInv
<1> QED
  BY <1>1, EngineInvariant, PTL

-----------------------------------------------------------------------------
(***************************************************************************)
(* Ownership.  ExclusiveOwnership is inductive together with two facts:    *)
(* every bitmap a result mentions has been allocated, so that a new bitmap *)
(* is nobody's; and the node being executed has no result yet, so that it  *)
(* is never its own parent.                                                *)
(***************************************************************************)
Allocated == \A n \in NodeId : result[n].k = "Frame" => result[n].b < nextBitmap

ChosenUnexecuted == chosen # 0 /\ Program[step] = "execute" => result[chosen] = NoResult

OwnershipInv == EngineInv /\ Allocated /\ ChosenUnexecuted /\ ExclusiveOwnership

\* At first nobody holds a bitmap.
LEMMA InitOwned == Init => OwnershipInv
<1> SUFFICES ASSUME Init PROVE OwnershipInv
  OBVIOUS
<1>1. \A n \in NodeId : result[n].k = "None"
  BY DEF Init, NoResult
<1> QED
  BY <1>1, InitTyped DEF Init, OwnershipInv, Allocated, ChosenUnexecuted, ExclusiveOwnership

\* Frames only disappear: whoever has one now had it before.
LEMMA FewerFrames ==
  ASSUME OwnershipInv, EngineInv', nextBitmap' = nextBitmap,
         \A n \in NodeId : result'[n] = result[n] \/ result'[n].k # "Frame",
         ChosenUnexecuted'
  PROVE  OwnershipInv'
<1>1. Allocated'
  BY DEF OwnershipInv, Allocated
<1>2. ExclusiveOwnership'
  BY DEF OwnershipInv, ExclusiveOwnership
<1> QED
  BY <1>1, <1>2 DEF OwnershipInv

\* Steps that touch neither results nor bitmaps.
Quiet == \/ ValidateGraph \/ LinkCodecs \/ EstimateNodeRecursive \/ PopulateNext \/ PopulateDone
         \/ FlattenChoose \/ FlattenDone \/ ExecuteChoose \/ ExecuteDone \/ ExecuteFailure
         \/ NextPass \/ PassLimit \/ Finish \/ UNCHANGED vars

\* Quiet steps leave results and bitmaps alone.
LEMMA QuietFrame ==
  ASSUME Quiet
  PROVE  UNCHANGED <<result, bitmap, nextBitmap>>
BY DEF Quiet, ValidateGraph, LinkCodecs, EstimateNodeRecursive, EstimateEnter, EstimateParent,
       EstimateResume, EstimateRun, PopulateNext, PopulateDone, FlattenChoose, FlattenDone,
       ExecuteChoose, ExecuteDone, ExecuteFailure, NextPass, PassLimit, Finish, vars, estimateFrame,
       pickFrame, dataVars

\* A quiet step chooses a node only among those without a result.
LEMMA QuietChoice ==
  ASSUME OwnershipInv, Quiet
  PROVE  ChosenUnexecuted'
<1>1. UNCHANGED result
  BY QuietFrame
<1>2. CASE ExecuteChoose
  <2>1. PICK n \in Live : FirstIs(n, Executable) /\ chosen' = n
    BY <1>2 DEF ExecuteChoose
  <2>2. result[n] = NoResult
    BY <2>1 DEF FirstIs, Executable
  <2> QED
    BY <1>1, <2>1, <2>2 DEF ChosenUnexecuted
<1>3. CASE FlattenChoose
  <2>1. Program[step'] = "flatten"
    BY <1>3 DEF FlattenChoose, At
  <2> QED
    BY <2>1 DEF ChosenUnexecuted
<1>4. CASE chosen' = 0
  BY <1>4 DEF ChosenUnexecuted
<1>5. CASE UNCHANGED <<chosen, step>>
  BY <1>1, <1>5 DEF OwnershipInv, ChosenUnexecuted
<1>6. ValidateGraph \/ LinkCodecs \/ PopulateDone \/ NextPass => chosen' = 0
  <2>1. ASSUME NEW op \in {"validate", "link", "populate", "loop"}, At(op)
        PROVE  chosen = 0
    BY <2>1, AtOperation DEF OwnershipInv
  <2> QED
    BY <2>1 DEF ValidateGraph, LinkCodecs, PopulateDone, NextPass
<1>7. FlattenDone \/ ExecuteDone \/ ExecuteFailure => chosen' = 0
  BY DEF FlattenDone, ExecuteDone, ExecuteFailure
<1>8. EstimateNodeRecursive \/ PopulateNext \/ PassLimit \/ Finish \/ UNCHANGED vars
        => UNCHANGED <<chosen, step>>
  BY DEF EstimateNodeRecursive, EstimateEnter, EstimateParent, EstimateResume, EstimateRun,
         estimateFrame, PopulateNext, PassLimit, Finish, vars, loopVars
<1> QED
  BY <1>2, <1>3, <1>4, <1>5, <1>6, <1>7, <1>8 DEF Quiet

\* Every other step expands or executes the chosen node, or starts a frame.
LEMMA StepKinds ==
  ASSUME [Next]_vars
  PROVE  \/ Quiet \/ FlattenExpand \/ NextFrame \/ CreateCanvas \/ Decode \/ Encode
         \/ RenderToCanvas \/ MutateInput
BY DEF Next, Quiet, EstimateNodeRecursive, Flatten, Execute, Loop, Stopped

\* Expanding a node takes no frame from another.
LEMMA FlattenExpandFrames ==
  ASSUME OwnershipInv, FlattenExpand
  PROVE  /\ \A n \in NodeId : result'[n] = result[n] \/ result'[n] = NoResult
         /\ UNCHANGED <<bitmap, nextBitmap>> /\ chosen' = 0
<1>1. At("flatten") /\ chosen # 0 /\ chosen' = 0 /\ UNCHANGED <<bitmap, nextBitmap>>
  BY DEF FlattenExpand, dataVars
<1>2. chosen \in NodeId /\ weight[chosen].def \in CanExpand /\ GraphTyped /\ FramesTyped /\ job \in Jobs
  BY <1>1, AtOperation DEF OwnershipInv, EngineInv, TypeOK, LoopTyped, ControlInv
<1>3. CASE ExpandFails(chosen)
  BY <1>1, <1>3 DEF FlattenExpand
<1>4. CASE ~ExpandFails(chosen)
  BY <1>1, <1>2, <1>4, ExpandTyped DEF FlattenExpand
<1> QED
  BY <1>1, <1>3, <1>4

\* The two ways of producing a frame: on a new bitmap ...
NewFrame ==
  /\ chosen \in NodeId /\ chosen' = 0 /\ nextBitmap' = nextBitmap + 1
  /\ result' = [result EXCEPT ![chosen] = Frame(nextBitmap)]
  /\ \E content : bitmap' = [bitmap EXCEPT ![nextBitmap] = content]

\* ... and on the bitmap of a parent, which loses it.
TakenFrame(p) ==
  /\ chosen \in NodeId /\ chosen' = 0 /\ nextBitmap' = nextBitmap /\ p \in NodeId /\ p # chosen
  /\ result[p] = Frame(result[p].b)
  /\ result' = [result EXCEPT ![p] = Consumed, ![chosen] = Frame(result[p].b)]
  /\ \E content : bitmap' = [bitmap EXCEPT ![result[p].b] = content]

\* Canvases and decoders allocate their results.
LEMMA NewFrames ==
  ASSUME OwnershipInv, CreateCanvas \/ Decode
  PROVE  NewFrame
<1>1. chosen \in NodeId
  BY ChosenTyped DEF CreateCanvas, Decode, CanDo, OwnershipInv
<1> QED
  BY <1>1 DEF CreateCanvas, Decode, ProduceNew, Produce, NewFrame

\* Drawing and mutating nodes take the bitmap of the parent they draw on.
LEMMA TakenFrames ==
  ASSUME OwnershipInv, RenderToCanvas \/ MutateInput
  PROVE  \E p : TakenFrame(p)
<1>1. ASSUME NEW kind, Holds(chosen, kind), TakeOver(chosen, kind), chosen \in NodeId, chosen # 0,
             Program[step] = "execute", GraphTyped, FramesTyped, nextBitmap' = nextBitmap,
             NEW content, Produce(Held(chosen, kind), content)
      PROVE  \E p : TakenFrame(p)
  <2> DEFINE p == Parent(chosen, kind)
  <2>1. p \in NodeId /\ result[p] = Frame(Held(chosen, kind)) /\ Held(chosen, kind) = result[p].b
    BY <1>1, HeldType DEF Held
  <2>2. result[chosen] = NoResult
    BY <1>1 DEF OwnershipInv, ChosenUnexecuted
  <2>3. p # chosen
    BY <2>1, <2>2 DEF Frame, NoResult
  <2> QED
    BY <1>1, <2>1, <2>3 DEF TakeOver, Produce, TakenFrame
<1>2. CASE RenderToCanvas
  <2>1. ReadyTo(OneInputOneCanvas) /\ Accepts(chosen) /\ nextBitmap' = nextBitmap
    BY <1>2 DEF RenderToCanvas, CanDo
  <2>2. weight[chosen].def \in OneInputOneCanvas /\ chosen \in NodeId /\ GraphTyped /\ FramesTyped
    BY <2>1, ChosenTyped DEF OwnershipInv
  <2>3. Holds(chosen, "canvas") /\ chosen # 0 /\ Program[step] = "execute"
    BY <2>1, <2>2 DEF Accepts, OneInputOneCanvas, Mutating, MutateBitmap, ReadyTo, At
  <2> QED
    BY <1>1, <1>2, <2>1, <2>2, <2>3 DEF RenderToCanvas
<1>3. CASE MutateInput
  <2>1. ReadyTo(Mutating) /\ Accepts(chosen) /\ nextBitmap' = nextBitmap
    BY <1>3 DEF MutateInput, CanDo
  <2>2. weight[chosen].def \in Mutating /\ chosen \in NodeId /\ GraphTyped /\ FramesTyped
    BY <2>1, ChosenTyped DEF OwnershipInv
  <2>3. Holds(chosen, "input") /\ chosen # 0 /\ Program[step] = "execute"
    BY <2>1, <2>2 DEF Accepts, OneInputOneCanvas, Mutating, MutateBitmap, ReadyTo, At
  <2> QED
    BY <1>1, <1>3, <2>1, <2>2, <2>3 DEF MutateInput
<1> QED
  BY <1>2, <1>3

\* A bitmap that was just allocated is nobody else's.
LEMMA NewFrameOwned ==
  ASSUME OwnershipInv, EngineInv', NewFrame
  PROVE  OwnershipInv'
<1>1. result \in [NodeId -> Results] /\ nextBitmap \in Nat
  BY BoundsAssumption DEF OwnershipInv, EngineInv, TypeOK, FramesTyped
<1>2. \A n \in NodeId : result'[n] = IF n = chosen THEN Frame(nextBitmap) ELSE result[n]
  BY <1>1 DEF NewFrame
<1>3. \A n \in NodeId : result[n].k = "Frame" => result[n].b \in Nat /\ result[n].b < nextBitmap
  BY <1>1, FrameResult DEF OwnershipInv, Allocated, BitmapId
<1>4. Frame(nextBitmap).b = nextBitmap
  BY DEF Frame
<1>5. Allocated'
  BY <1>1, <1>2, <1>3, <1>4 DEF Allocated, NewFrame
<1>6. ExclusiveOwnership'
  BY <1>1, <1>2, <1>3, <1>4 DEF OwnershipInv, ExclusiveOwnership
<1>7. ChosenUnexecuted'
  BY DEF ChosenUnexecuted, NewFrame
<1> QED
  BY <1>5, <1>6, <1>7 DEF OwnershipInv

\* A bitmap that was taken over has left its former owner.
LEMMA TakenFrameOwned ==
  ASSUME OwnershipInv, EngineInv', NEW p, TakenFrame(p)
  PROVE  OwnershipInv'
<1>1. result \in [NodeId -> Results]
  BY DEF OwnershipInv, EngineInv, TypeOK, FramesTyped
<1>2. \A n \in NodeId : result'[n] = IF n = chosen THEN result[p]
                                     ELSE IF n = p THEN Consumed ELSE result[n]
  BY <1>1 DEF TakenFrame
<1>3. result[p].k = "Frame" /\ p \in NodeId /\ Consumed.k # "Frame"
  BY DEF TakenFrame, Frame, Consumed
<1>4. Allocated'
  BY <1>2, <1>3 DEF OwnershipInv, Allocated, TakenFrame
<1>5. ExclusiveOwnership'
  BY <1>2, <1>3 DEF OwnershipInv, ExclusiveOwnership
<1>6. ChosenUnexecuted'
  BY DEF ChosenUnexecuted, TakenFrame
<1> QED
  BY <1>4, <1>5, <1>6 DEF OwnershipInv

\* Every step keeps ownership exclusive.
LEMMA StepOwned == OwnershipInv /\ [Next]_vars => OwnershipInv'
<1> SUFFICES ASSUME OwnershipInv, [Next]_vars PROVE OwnershipInv'
  OBVIOUS
<1>1. EngineInv'
  BY StepTyped DEF OwnershipInv
<1>2. CASE Quiet
  BY <1>1, <1>2, QuietFrame, QuietChoice, FewerFrames
<1>3. CASE FlattenExpand
  <2>1. ChosenUnexecuted'
    BY <1>3, FlattenExpandFrames DEF ChosenUnexecuted
  <2>2. NoResult.k # "Frame"
    BY DEF NoResult
  <2> QED
    BY <1>1, <1>3, <2>1, <2>2, FlattenExpandFrames, FewerFrames
<1>4. CASE NextFrame
  <2>1. chosen' = 0
    BY <1>4, AtOperation DEF NextFrame, OwnershipInv
  <2>2. \A n \in NodeId : result'[n].k # "Frame"
    BY <1>4 DEF NextFrame, NoResult
  <2> QED
    BY <1>1, <1>4, <2>1, <2>2, FewerFrames DEF NextFrame, dataVars, ChosenUnexecuted
<1>5. CASE CreateCanvas \/ Decode
  BY <1>1, <1>5, NewFrames, NewFrameOwned
<1>6. CASE Encode
  <2>1. \A n \in NodeId : result'[n] = result[n] \/ result'[n].k # "Frame"
    BY <1>6 DEF Encode, Encoded, OwnershipInv, EngineInv, TypeOK, FramesTyped
  <2> QED
    BY <1>1, <1>6, <2>1, FewerFrames DEF Encode, ChosenUnexecuted
<1>7. CASE RenderToCanvas \/ MutateInput
  BY <1>1, <1>7, TakenFrames, TakenFrameOwned
<1> QED
  BY <1>2, <1>3, <1>4, <1>5, <1>6, <1>7, StepKinds

\* Ownership, with the two facts it depends on, is an invariant: every bitmap a
\* node holds has been allocated, and the node being executed holds none yet.
THEOREM OwnershipInvariant == Spec => []OwnershipInv
<1>1. Init => OwnershipInv
  BY InitOwned
<1>2. OwnershipInv /\ [Next]_vars => OwnershipInv'
  BY StepOwned
<1> QED
  BY <1>1, <1>2, PTL DEF Spec

\* No two nodes ever hold the same bitmap, whatever the job, the numbering of
\* its nodes and the definitions it uses: consume_parent_result and the
\* "same bitmap as this node's result" of every mutating node go together.
THEOREM BitmapsHaveOneOwner == Spec => []ExclusiveOwnership
<1>1. OwnershipInv => ExclusiveOwnership
  BY DEF OwnershipInv
<1> QED
  BY <1>1, OwnershipInvariant, PTL

\* What a step does to the bitmaps of frames that stay where they are.
StableStep ==
  \A n \in NodeId :
    result[n].k = "Frame" /\ result'[n] = result[n] => bitmap'[result[n].b] = bitmap[result[n].b]

\* No step draws on a bitmap that keeps its holder.
LEMMA StepStable == OwnershipInv /\ [Next]_vars => StableStep
<1> SUFFICES ASSUME OwnershipInv, [Next]_vars,
                    NEW n \in NodeId, result[n].k = "Frame", result'[n] = result[n]
             PROVE  bitmap'[result[n].b] = bitmap[result[n].b]
  BY DEF StableStep
<1>1. result \in [NodeId -> Results] /\ result[n].b \in BitmapId /\ DOMAIN bitmap = BitmapId
  BY FrameResult DEF OwnershipInv, EngineInv, TypeOK, FramesTyped
<1>2. CASE UNCHANGED bitmap
  BY <1>2
<1>3. CASE NewFrame
  <2>1. result[n].b # nextBitmap
    BY <1>1 DEF OwnershipInv, Allocated, BitmapId
  <2> QED
    BY <1>1, <1>3, <2>1 DEF NewFrame
<1>4. ASSUME NEW p, TakenFrame(p)
      PROVE  bitmap'[result[n].b] = bitmap[result[n].b]
  <2>1. p \in NodeId /\ result[p].k = "Frame"
    BY <1>4 DEF TakenFrame, Frame
  <2>2. n # p
    BY <1>1, <1>4 DEF TakenFrame, Consumed
  <2>3. result[n].b # result[p].b
    BY <2>1, <2>2 DEF OwnershipInv, ExclusiveOwnership
  <2> QED
    BY <1>1, <1>4, <2>3 DEF TakenFrame
<1>5. Quiet \/ FlattenExpand \/ NextFrame \/ Encode => UNCHANGED bitmap
  BY QuietFrame, FlattenExpandFrames DEF NextFrame, dataVars, Encode
<1> QED
  BY <1>2, <1>3, <1>4, <1>5, StepKinds, NewFrames, TakenFrames

\* The pixels of a frame never change while a node holds it: every node that
\* draws on a bitmap takes it away from its parent in the same step.
THEOREM FramesAreStable == Spec => HeldFramesAreStable
<1>1. OwnershipInv /\ [Next]_vars => [StableStep]_vars
  BY StepStable
<1>2. HeldFramesAreStable <=> [][StableStep]_vars
  BY DEF HeldFramesAreStable, StableStep
<1> QED
  BY <1>1, <1>2, OwnershipInvariant, PTL DEF Spec

-----------------------------------------------------------------------------
(***************************************************************************)
(* The graph.  GraphIntact is inductive together with three facts: the     *)
(* identities of nodes have been handed out, no edge closes a cycle (a     *)
(* node that is deleted must not be the child of its own child), and the   *)
(* node that was chosen is still there.                                    *)
(***************************************************************************)
Ordered(r, es) == \A e \in es : r[e.src] < r[e.dst]
Acyclic == \E r \in [NodeId -> Nat] : Ordered(r, edges)
HandedOut == \A n \in Live : n < nextNode
ChosenIsLive == chosen # 0 => chosen \in Live

GraphInv == GraphIntact /\ HandedOut /\ Acyclic /\ ChosenIsLive

\* The live nodes are those in the index order.
LEMMA LiveMembers ==
  ASSUME GraphTyped
  PROVE  /\ \A i \in DOMAIN nodes : nodes[i] \in Live
         /\ \A n \in Live : \E i \in DOMAIN nodes : nodes[i] = n
         /\ Live \subseteq NodeId /\ \A e \in edges : e \in Edge
BY LiveType DEF Live, GraphTyped

\* Removing a node from the order removes just that node.
LEMMA SwapRemoveTakesOne ==
  ASSUME NEW S, NEW s \in Seq(S), NEW i \in DOMAIN s,
         \A j, k \in DOMAIN s : s[j] = s[k] => j = k
  PROVE  LET t == SwapRemove(s, i)
         IN  /\ {t[j] : j \in DOMAIN t} = {s[j] : j \in DOMAIN s} \ {s[i]}
             /\ \A j, k \in DOMAIN t : t[j] = t[k] => j = k
<1> DEFINE t == SwapRemove(s, i)
           n == Len(s)
<1>1. n \in Nat /\ DOMAIN s = 1 .. n /\ n >= 1
  BY SequenceElements
<1>2. DOMAIN t = 1 .. n - 1 /\ \A j \in 1 .. n - 1 : t[j] = IF j = i THEN s[n] ELSE s[j]
  BY DEF SwapRemove
<1> HIDE DEF t, n
<1>3. ASSUME NEW j \in DOMAIN t
      PROVE  t[j] \in {s[k] : k \in DOMAIN s} \ {s[i]}
  <2>1. j \in 1 .. n /\ n \in DOMAIN s /\ j # n
    BY <1>1, <1>2, <1>3
  <2>2. t[j] = IF j = i THEN s[n] ELSE s[j]
    BY <1>2, <1>3
  <2> QED BY <1>1, <2>1, <2>2
<1>4. ASSUME NEW k \in DOMAIN s, s[k] # s[i]
      PROVE  \E j \in DOMAIN t : t[j] = s[k]
  <2>1. CASE k = n
    <3>1. i # n /\ i \in 1 .. n - 1
      BY <1>1, <1>4, <2>1
    <3> QED BY <1>2, <2>1, <3>1
  <2>2. CASE k # n
    <3>1. k \in 1 .. n - 1 /\ k # i
      BY <1>1, <1>4, <2>2
    <3> QED BY <1>2, <3>1
  <2> QED BY <2>1, <2>2
<1>5. ASSUME NEW j \in DOMAIN t, NEW k \in DOMAIN t, t[j] = t[k]
      PROVE  j = k
  <2>1. j \in 1 .. n /\ k \in 1 .. n /\ j # n /\ k # n /\ n \in 1 .. n
    BY <1>1, <1>2
  <2>2. (t[j] = IF j = i THEN s[n] ELSE s[j]) /\ (t[k] = IF k = i THEN s[n] ELSE s[k])
    BY <1>2
  <2> QED BY <1>1, <1>5, <2>1, <2>2
<1>6. {t[j] : j \in DOMAIN t} = {s[j] : j \in DOMAIN s} \ {s[i]}
  BY <1>3, <1>4
<1> QED BY <1>5, <1>6 DEF t

\* Nodes with identities of their own are put at the end of the order.
LEMMA Appended ==
  ASSUME NEW S, NEW s \in Seq(S), NEW t \in Seq(S),
         \A j, k \in DOMAIN s : s[j] = s[k] => j = k,
         \A j, k \in DOMAIN t : t[j] = t[k] => j = k,
         \A j \in DOMAIN s, k \in DOMAIN t : s[j] # t[k]
  PROVE  /\ {(s \o t)[j] : j \in DOMAIN (s \o t)} = {s[j] : j \in DOMAIN s} \cup {t[j] : j \in DOMAIN t}
         /\ \A j, k \in DOMAIN (s \o t) : (s \o t)[j] = (s \o t)[k] => j = k
<1> DEFINE u == s \o t
           n == Len(s)
           m == Len(t)
<1>1. n \in Nat /\ m \in Nat /\ DOMAIN s = 1 .. n /\ DOMAIN t = 1 .. m
  BY SequenceElements
<1>2. DOMAIN u = 1 .. n + m /\ \A j \in 1 .. n + m : u[j] = IF j <= n THEN s[j] ELSE t[j - n]
  <2>1. u \in Seq(S) /\ Len(u) = n + m
    OBVIOUS
  <2> QED BY <2>1
<1> HIDE DEF u, n, m
<1>3. \A j \in DOMAIN u : u[j] \in {s[k] : k \in DOMAIN s} \cup {t[k] : k \in DOMAIN t}
  <2> SUFFICES ASSUME NEW j \in DOMAIN u
               PROVE  u[j] \in {s[k] : k \in DOMAIN s} \cup {t[k] : k \in DOMAIN t}
    OBVIOUS
  <2>1. CASE j <= n
    BY <1>1, <1>2, <2>1
  <2>2. CASE ~(j <= n)
    <3>1. j - n \in 1 .. m
      BY <1>1, <1>2, <2>2
    <3> QED BY <1>1, <1>2, <2>2, <3>1
  <2> QED BY <2>1, <2>2
<1>4. \A k \in DOMAIN s : \E j \in DOMAIN u : u[j] = s[k]
  BY <1>1, <1>2
<1>5. ASSUME NEW k \in DOMAIN t
      PROVE  \E j \in DOMAIN u : u[j] = t[k]
  <2>1. n + k \in 1 .. n + m /\ ~(n + k <= n) /\ (n + k) - n = k
    BY <1>1
  <2> QED BY <1>2, <2>1
<1>6. ASSUME NEW j \in DOMAIN u, NEW k \in DOMAIN u, u[j] = u[k]
      PROVE  j = k
  <2>1. (j <= n => j \in 1 .. n) /\ (~(j <= n) => j - n \in 1 .. m)
        /\ (k <= n => k \in 1 .. n) /\ (~(k <= n) => k - n \in 1 .. m)
    BY <1>1, <1>2
  <2>2. (u[j] = IF j <= n THEN s[j] ELSE t[j - n]) /\ (u[k] = IF k <= n THEN s[k] ELSE t[k - n])
    BY <1>2
  <2>3. j \in Int /\ k \in Int
    BY <1>1, <1>2
  <2>4. CASE j <= n
    BY <1>1, <1>6, <2>1, <2>2, <2>3, <2>4
  <2>5. CASE ~(j <= n)
    <3>1. ~(k <= n)
      BY <1>1, <1>6, <2>1, <2>2, <2>5
    <3>2. j - n = k - n
      BY <1>1, <1>6, <2>1, <2>2, <2>5, <3>1
    <3> QED BY <1>1, <2>3, <3>2
  <2> QED BY <2>4, <2>5
<1>7. \A x \in {u[j] : j \in DOMAIN u} : x \in {s[k] : k \in DOMAIN s} \cup {t[k] : k \in DOMAIN t}
  BY <1>3
<1>8. \A x \in {s[k] : k \in DOMAIN s} \cup {t[k] : k \in DOMAIN t} : x \in {u[j] : j \in DOMAIN u}
  <2>1. \A x \in {s[k] : k \in DOMAIN s} : x \in {u[j] : j \in DOMAIN u}
    BY <1>4
  <2>2. \A x \in {t[k] : k \in DOMAIN t} : x \in {u[j] : j \in DOMAIN u}
    BY <1>5
  <2> QED BY <2>1, <2>2
<1>9. {u[j] : j \in DOMAIN u} = {s[k] : k \in DOMAIN s} \cup {t[k] : k \in DOMAIN t}
  BY <1>7, <1>8, Zenon
<1>10. \A j, k \in DOMAIN u : u[j] = u[k] => j = k
  BY <1>6
<1> QED BY <1>9, <1>10, Zenon DEF u

\* Identities that Allocate hands out.
LEMMA NewIdsAreFresh ==
  ASSUME GraphTyped, NEW k \in Nat, nextNode + k - 1 <= MaxNodes
  PROVE  /\ NewIds(k) \in Seq(NodeId)
         /\ \A i, j \in DOMAIN NewIds(k) : NewIds(k)[i] = NewIds(k)[j] => i = j
         /\ {NewIds(k)[i] : i \in DOMAIN NewIds(k)} = nextNode .. nextNode + k - 1
<1>0. nextNode \in 1 .. MaxNodes + 1 /\ MaxNodes \in Nat
  BY BoundsAssumption DEF GraphTyped
<1>1. DOMAIN NewIds(k) = 1 .. k /\ \A i \in 1 .. k : NewIds(k)[i] = nextNode + i - 1
  BY DEF NewIds
<1>2. \A i \in 1 .. k : nextNode + i - 1 \in NodeId
  BY <1>0 DEF NodeId
<1>3. NewIds(k) \in Seq(NodeId)
  <2>1. NewIds(k) \in [1 .. k -> NodeId]
    BY <1>2 DEF NewIds
  <2> QED BY <2>1
<1>4. \A m \in nextNode .. nextNode + k - 1 : \E i \in 1 .. k : nextNode + i - 1 = m
  <2> TAKE m \in nextNode .. nextNode + k - 1
  <2>1. m - nextNode + 1 \in 1 .. k /\ nextNode + (m - nextNode + 1) - 1 = m
    BY <1>0
  <2> QED BY <2>1
<1>5. \A i \in 1 .. k : nextNode + i - 1 \in nextNode .. nextNode + k - 1
  BY <1>0
<1>6. \A i, j \in 1 .. k : nextNode + i - 1 = nextNode + j - 1 => i = j
  BY <1>0
<1>7. \A i, j \in DOMAIN NewIds(k) : NewIds(k)[i] = NewIds(k)[j] => i = j
  BY <1>1, <1>6
<1>8. {NewIds(k)[i] : i \in DOMAIN NewIds(k)} = {nextNode + i - 1 : i \in 1 .. k}
  BY <1>1
<1>9. {nextNode + i - 1 : i \in 1 .. k} = nextNode .. nextNode + k - 1
  BY <1>4, <1>5
<1> QED BY <1>3, <1>7, <1>8, <1>9

\* Surgery on the order of the nodes: n is replaced by new ones.
LEMMA OrderSurgery ==
  ASSUME GraphTyped, GraphInv, NEW n \in Live, NEW k \in Nat, nextNode + k - 1 <= MaxNodes,
         nodes' = SwapRemove(nodes \o NewIds(k), IndexOf(n))
  PROVE  /\ Live' = (Live \ {n}) \cup (nextNode .. nextNode + k - 1)
         /\ \A i, j \in DOMAIN nodes' : nodes'[i] = nodes'[j] => i = j
<1> DEFINE s == nodes \o NewIds(k)
           i == IndexOf(n)
<1>0. nodes \in Seq(NodeId) /\ nextNode \in 1 .. MaxNodes + 1 /\ MaxNodes \in Nat
  BY BoundsAssumption DEF GraphTyped
<1>1. /\ NewIds(k) \in Seq(NodeId)
      /\ \A a, b \in DOMAIN NewIds(k) : NewIds(k)[a] = NewIds(k)[b] => a = b
      /\ {NewIds(k)[a] : a \in DOMAIN NewIds(k)} = nextNode .. nextNode + k - 1
  BY NewIdsAreFresh
<1>2. \A a \in DOMAIN nodes, b \in DOMAIN NewIds(k) : nodes[a] # NewIds(k)[b]
  <2> SUFFICES ASSUME NEW a \in DOMAIN nodes, NEW b \in DOMAIN NewIds(k), nodes[a] = NewIds(k)[b]
               PROVE  FALSE
    OBVIOUS
  <2>1. nodes[a] \in Live /\ nodes[a] < nextNode /\ nodes[a] \in NodeId
    BY LiveMembers DEF GraphInv, HandedOut
  <2>2. NewIds(k)[b] \in nextNode .. nextNode + k - 1
    BY <1>1
  <2> QED BY <1>0, <2>1, <2>2 DEF NodeId
<1>3. /\ {s[j] : j \in DOMAIN s} = Live \cup (nextNode .. nextNode + k - 1)
      /\ \A a, b \in DOMAIN s : s[a] = s[b] => a = b
  <2>1. \A a, b \in DOMAIN nodes : nodes[a] = nodes[b] => a = b
    BY DEF GraphInv, GraphIntact
  <2>2. /\ {s[j] : j \in DOMAIN s} = {nodes[j] : j \in DOMAIN nodes} \cup {NewIds(k)[j] : j \in DOMAIN NewIds(k)}
        /\ \A a, b \in DOMAIN s : s[a] = s[b] => a = b
    <3> DEFINE t == NewIds(k)
    <3>1. t \in Seq(NodeId) /\ (\A a, b \in DOMAIN t : t[a] = t[b] => a = b)
          /\ \A a \in DOMAIN nodes, b \in DOMAIN t : nodes[a] # t[b]
      BY <1>1, <1>2
    <3> HIDE DEF t
    <3>2. /\ {(nodes \o t)[j] : j \in DOMAIN (nodes \o t)} = {nodes[j] : j \in DOMAIN nodes} \cup {t[j] : j \in DOMAIN t}
          /\ \A a, b \in DOMAIN (nodes \o t) : (nodes \o t)[a] = (nodes \o t)[b] => a = b
      BY <1>0, <2>1, <3>1, Appended
    <3> QED BY <3>2 DEF t
  <2> QED BY <1>1, <2>2 DEF Live
<1>4. i \in DOMAIN nodes /\ nodes[i] = n
  BY LiveMembers DEF IndexOf
<1>5. s \in Seq(NodeId) /\ i \in DOMAIN s /\ s[i] = n
  <2>1. s \in Seq(NodeId)
    BY <1>0, <1>1
  <2>2. Len(nodes) \in Nat /\ DOMAIN nodes = 1 .. Len(nodes) /\ Len(NewIds(k)) \in Nat
    BY <1>0, <1>1
  <2>3. DOMAIN s = 1 .. Len(nodes) + Len(NewIds(k)) /\ \A j \in 1 .. Len(nodes) : s[j] = nodes[j]
    BY <1>0, <1>1, <2>2
  <2>4. i \in 1 .. Len(nodes) + Len(NewIds(k)) /\ i \in 1 .. Len(nodes)
    BY <1>4, <2>2
  <2> HIDE DEF s, i
  <2> QED BY <1>4, <2>1, <2>3, <2>4
<1> HIDE DEF s, i
<1>6. /\ {SwapRemove(s, i)[j] : j \in DOMAIN SwapRemove(s, i)} = {s[j] : j \in DOMAIN s} \ {s[i]}
      /\ \A a, b \in DOMAIN SwapRemove(s, i) : SwapRemove(s, i)[a] = SwapRemove(s, i)[b] => a = b
  BY <1>3, <1>5, SwapRemoveTakesOne
<1>7. n \notin nextNode .. nextNode + k - 1
  BY <1>0, LiveMembers DEF GraphInv, HandedOut, NodeId
<1>8. nodes' = SwapRemove(s, i)
  BY DEF s, i
<1> QED BY <1>3, <1>5, <1>6, <1>7, <1>8 DEF Live

-----------------------------------------------------------------------------
\* Edges that stay among the nodes of L and do not go down in rank.
SoundEdges(es, L, q) == \A e \in es : e.src \in L /\ e.dst \in L /\ q[e.src] < q[e.dst]

\* A graph that is intact has ranks for its nodes.
LEMMA GraphIsSound ==
  ASSUME GraphTyped, GraphInv
  PROVE  \E r \in [NodeId -> Nat] : SoundEdges(edges, Live, r)
<1>1. PICK r \in [NodeId -> Nat] : Ordered(r, edges)
  BY DEF GraphInv, Acyclic
<1>2. \A e \in edges : e.src \in Live /\ e.dst \in Live
  BY DEF GraphInv, GraphIntact
<1> QED BY <1>1, <1>2 DEF SoundEdges, Ordered

\* A graph whose edges go up in rank is intact.
LEMMA SoundGraph ==
  ASSUME NEW r \in [NodeId -> Nat], SoundEdges(edges', Live', r)
  PROVE  Acyclic' /\ \A e \in edges' : {e.src, e.dst} \subseteq Live'
BY DEF SoundEdges, Acyclic, Ordered

\* Ranks after k new nodes have come after n (d = 1) or in its place (d = 0).
Shifted(r, n, k, d) ==
  [m \in NodeId |-> IF m \in Fresh(k) THEN r[n] + d + (m - nextNode)
                    ELSE IF r[m] > r[n] THEN r[m] + k ELSE r[m]]

\* The shifted ranks go up along every edge the surgery keeps or makes.
LEMMA ShiftedRanks ==
  ASSUME GraphTyped, HandedOut, NEW r \in [NodeId -> Nat], SoundEdges(edges, Live, r),
         NEW n \in Live, NEW k \in Nat, NEW d \in {0, 1}, nextNode + k - 1 <= MaxNodes
  PROVE  LET q == Shifted(r, n, k, d)
         IN  /\ q \in [NodeId -> Nat]
             /\ \A e \in edges : q[e.src] < q[e.dst]
             /\ \A e \in Into(n), m \in Fresh(k) : q[e.src] < q[m]
             /\ \A e \in OutOf(n), m \in Fresh(k) : q[m] < q[e.dst]
             /\ \A m \in Fresh(k) : m + 1 \in Fresh(k) => q[m] < q[m + 1]
             /\ d = 1 => \A m \in Fresh(k) : q[n] < q[m]
<1> DEFINE q == Shifted(r, n, k, d)
<1>0. nextNode \in 1 .. MaxNodes + 1 /\ MaxNodes \in Nat /\ Live \subseteq NodeId
  BY BoundsAssumption, LiveType DEF GraphTyped
<1>1. \A m \in Fresh(k) : m \in NodeId /\ m \in Nat /\ m - nextNode \in 0 .. k - 1
  BY <1>0 DEF Fresh, NodeId
<1>2. \A m \in Live : m \notin Fresh(k) /\ m \in NodeId
  BY <1>0 DEF HandedOut, Fresh, NodeId
<1>3. \A m \in NodeId : r[m] \in Nat
  OBVIOUS
<1>4. \A m \in Fresh(k) : q[m] = r[n] + d + (m - nextNode)
  BY <1>1 DEF Shifted
<1>5. \A m \in Live : q[m] = IF r[m] > r[n] THEN r[m] + k ELSE r[m]
  BY <1>2 DEF Shifted
<1>6. q \in [NodeId -> Nat]
  <2>1. ASSUME NEW m \in NodeId
        PROVE  (IF m \in Fresh(k) THEN r[n] + d + (m - nextNode)
                ELSE IF r[m] > r[n] THEN r[m] + k ELSE r[m]) \in Nat
    BY <1>1, <1>2, <1>3
  <2> QED BY <2>1 DEF Shifted
<1> HIDE DEF q
<1>7. \A e \in edges : e.src \in Live /\ e.dst \in Live /\ r[e.src] < r[e.dst]
                       /\ r[e.src] \in Nat /\ r[e.dst] \in Nat
  BY <1>2, <1>3 DEF SoundEdges
<1>8. r[n] \in Nat
  BY <1>2, <1>3
<1>9. \A e \in edges : q[e.src] < q[e.dst]
  BY <1>5, <1>7, <1>8
<1>10. ASSUME NEW e \in Into(n), NEW m \in Fresh(k)
       PROVE  q[e.src] < q[m]
  <2>1. e \in edges /\ e.dst = n
    BY DEF Into
  <2>2. q[e.src] = r[e.src] /\ r[e.src] < r[n] /\ r[e.src] \in Nat
    BY <1>5, <1>7, <1>8, <2>1
  <2> QED BY <1>1, <1>4, <1>8, <2>2
<1>11. ASSUME NEW e \in OutOf(n), NEW m \in Fresh(k)
       PROVE  q[m] < q[e.dst]
  <2>1. e \in edges /\ e.src = n
    BY DEF OutOf
  <2>2. q[e.dst] = r[e.dst] + k /\ r[n] < r[e.dst] /\ r[e.dst] \in Nat
    BY <1>5, <1>7, <1>8, <2>1
  <2> QED BY <1>1, <1>4, <1>8, <2>2
<1>12. ASSUME NEW m \in Fresh(k), m + 1 \in Fresh(k)
       PROVE  q[m] < q[m + 1]
  <2>1. m \in Nat /\ nextNode \in Nat /\ d \in Nat
    BY <1>0, <1>1
  <2> QED BY <1>4, <1>8, <1>12, <2>1
<1>13. ASSUME d = 1, NEW m \in Fresh(k)
       PROVE  q[n] < q[m]
  BY <1>1, <1>4, <1>5, <1>8, <1>13
<1> QED BY <1>6, <1>9, <1>10, <1>11, <1>12, <1>13 DEF q

\* The edges of a node that is replaced by new ones.
LEMMA EdgeSurgery ==
  ASSUME GraphTyped, HandedOut, NEW r \in [NodeId -> Nat], SoundEdges(edges, Live, r),
         NEW n \in Live, NEW k \in Nat, nextNode + k - 1 <= MaxNodes,
         NEW first \in Fresh(k), NEW last \in Fresh(k)
  PROVE  SoundEdges(Detached(n) \cup InTo(n, first) \cup OutFrom(n, last),
                    (Live \ {n}) \cup Fresh(k), Shifted(r, n, k, 0))
<1> DEFINE q == Shifted(r, n, k, 0)
           L == (Live \ {n}) \cup Fresh(k)
<1>1. /\ \A e \in edges : q[e.src] < q[e.dst]
      /\ \A e \in Into(n), m \in Fresh(k) : q[e.src] < q[m]
      /\ \A e \in OutOf(n), m \in Fresh(k) : q[m] < q[e.dst]
  BY ShiftedRanks
<1> HIDE DEF q
<1>2. \A e \in edges : e.src \in Live /\ e.dst \in Live /\ e.src # e.dst
  <2>1. \A m \in Live : r[m] \in Nat
    BY LiveType
  <2> QED BY <2>1 DEF SoundEdges
<1>3. SoundEdges(Detached(n), L, q)
  BY <1>1, <1>2 DEF SoundEdges, Detached
<1>4. ASSUME NEW e \in InTo(n, first)
      PROVE  e.src \in L /\ e.dst \in L /\ q[e.src] < q[e.dst]
  <2>1. PICK f \in Into(n) : e = [f EXCEPT !.dst = first]
    BY DEF InTo
  <2>2. f \in edges /\ f.dst = n /\ f \in Edge
    BY DEF Into, GraphTyped
  <2>3. e.src = f.src /\ e.dst = first
    BY <2>1, <2>2 DEF Edge
  <2> QED BY <1>1, <1>2, <2>2, <2>3
<1>5. ASSUME NEW e \in OutFrom(n, last)
      PROVE  e.src \in L /\ e.dst \in L /\ q[e.src] < q[e.dst]
  <2>1. PICK f \in OutOf(n) : e = [f EXCEPT !.src = last]
    BY DEF OutFrom
  <2>2. f \in edges /\ f.src = n /\ f \in Edge
    BY DEF OutOf, GraphTyped
  <2>3. e.dst = f.dst /\ e.src = last
    BY <2>1, <2>2 DEF Edge
  <2> QED BY <1>1, <1>2, <2>2, <2>3
<1> HIDE DEF L
<1>6. SoundEdges(Detached(n) \cup InTo(n, first) \cup OutFrom(n, last), L, q)
  BY <1>3, <1>4, <1>5 DEF SoundEdges
<1> QED BY <1>6 DEF q, L

\* What the surgery leaves is a graph again.
LEMMA SurgeryKeepsGraph ==
  ASSUME GraphTyped, GraphInv, NEW n \in Live, NEW k \in Nat, nextNode + k - 1 <= MaxNodes,
         nextNode' = nextNode + k,
         nodes' = SwapRemove(nodes \o NewIds(k), IndexOf(n)),
         NEW q \in [NodeId -> Nat], SoundEdges(edges', (Live \ {n}) \cup Fresh(k), q)
  PROVE  GraphIntact' /\ HandedOut' /\ Acyclic'
<1>1. /\ Live' = (Live \ {n}) \cup Fresh(k)
      /\ \A i, j \in DOMAIN nodes' : nodes'[i] = nodes'[j] => i = j
  BY OrderSurgery DEF Fresh
<1>2. HandedOut'
  <2>1. nextNode \in 1 .. MaxNodes + 1 /\ MaxNodes \in Nat /\ Live \subseteq NodeId
    BY BoundsAssumption, LiveType DEF GraphTyped
  <2>2. \A m \in Live : m < nextNode /\ m \in Nat
    BY <2>1 DEF GraphInv, HandedOut, NodeId
  <2>3. \A m \in Fresh(k) : m < nextNode + k
    BY <2>1 DEF Fresh
  <2>4. \A m \in Live : m < nextNode + k
    BY <2>1, <2>2
  <2> QED BY <1>1, <2>3, <2>4 DEF HandedOut
<1>3. SoundEdges(edges', Live', q)
  BY <1>1
<1>4. Acyclic' /\ \A e \in edges' : {e.src, e.dst} \subseteq Live'
  BY <1>3, SoundGraph
<1> QED BY <1>1, <1>2, <1>4 DEF GraphIntact

\* replace_node with a chain keeps the graph intact.
LEMMA ChainKeepsGraph ==
  ASSUME GraphTyped, GraphInv, NEW n \in Live, NEW chain \in Seq(Weights), chain # <<>>,
         ReplaceWithChain(n, chain)
  PROVE  GraphIntact' /\ HandedOut' /\ Acyclic'
<1> DEFINE k == Len(chain)
           last == nextNode + k - 1
           links == {[src |-> m, dst |-> m + 1, kind |-> "input"] : m \in nextNode .. last - 1}
<1>1. /\ Allocate(chain)
      /\ nodes' = SwapRemove(nodes \o NewIds(k), IndexOf(n))
      /\ edges' = Detached(n) \cup InTo(n, nextNode) \cup OutFrom(n, last) \cup links
  BY DEF ReplaceWithChain
<1>2. k \in Nat \ {0} /\ nextNode \in Nat /\ nextNode + k - 1 <= MaxNodes /\ nextNode' = nextNode + k
  BY <1>1 DEF GraphTyped, Allocate
<1> HIDE DEF k
<1>3. nextNode \in Fresh(k) /\ last \in Fresh(k)
      /\ \A m \in nextNode .. last - 1 : m \in Fresh(k) /\ m + 1 \in Fresh(k)
  BY <1>2 DEF Fresh
<1>4. PICK r \in [NodeId -> Nat] : SoundEdges(edges, Live, r)
  BY GraphIsSound
<1> DEFINE q == Shifted(r, n, k, 0)
           L == (Live \ {n}) \cup Fresh(k)
<1> HIDE DEF last
<1>5. SoundEdges(Detached(n) \cup InTo(n, nextNode) \cup OutFrom(n, last), L, q)
  BY <1>2, <1>3, <1>4, EdgeSurgery DEF GraphInv
<1>6. q \in [NodeId -> Nat] /\ \A m \in Fresh(k) : m + 1 \in Fresh(k) => q[m] < q[m + 1]
  BY <1>2, <1>4, ShiftedRanks DEF GraphInv
<1> HIDE DEF q
<1>7. SoundEdges(links, L, q)
  <2>1. ASSUME NEW m \in nextNode .. last - 1
        PROVE  m \in L /\ m + 1 \in L /\ q[m] < q[m + 1]
    BY <1>3, <1>6
  <2> HIDE DEF L
  <2>2. \A e \in links : e.src \in L /\ e.dst \in L /\ q[e.src] < q[e.dst]
    BY <2>1
  <2> QED BY <2>2 DEF SoundEdges
<1>8. SoundEdges(edges', L, q)
  BY <1>1, <1>5, <1>7 DEF SoundEdges
<1> QED BY <1>1, <1>2, <1>6, <1>8, SurgeryKeepsGraph

\* replace_node_with_existing keeps the graph intact.
LEMMA CanvasKeepsGraph ==
  ASSUME GraphTyped, GraphInv, NEW n \in Live, NEW canvas, NEW render,
         ReplaceWithCanvas(n, canvas, render)
  PROVE  GraphIntact' /\ HandedOut' /\ Acyclic'
<1> DEFINE link == [src |-> nextNode, dst |-> nextNode + 1, kind |-> "canvas"]
<1>1. /\ Allocate(<<canvas, render>>)
      /\ nodes' = SwapRemove(nodes \o NewIds(2), IndexOf(n))
      /\ edges' = Detached(n) \cup InTo(n, nextNode + 1) \cup OutFrom(n, nextNode + 1) \cup {link}
  BY DEF ReplaceWithCanvas
<1>2. nextNode \in Nat /\ nextNode + 2 - 1 <= MaxNodes /\ nextNode' = nextNode + 2
  <2>1. Len(<<canvas, render>>) = 2
    OBVIOUS
  <2> QED BY <1>1, <2>1 DEF GraphTyped, Allocate
<1>3. nextNode \in Fresh(2) /\ nextNode + 1 \in Fresh(2)
  BY <1>2 DEF Fresh
<1>4. PICK r \in [NodeId -> Nat] : SoundEdges(edges, Live, r)
  BY GraphIsSound
<1> DEFINE q == Shifted(r, n, 2, 0)
           L == (Live \ {n}) \cup Fresh(2)
<1>5. SoundEdges(Detached(n) \cup InTo(n, nextNode + 1) \cup OutFrom(n, nextNode + 1), L, q)
  BY <1>2, <1>3, <1>4, EdgeSurgery DEF GraphInv
<1>6. q \in [NodeId -> Nat] /\ \A m \in Fresh(2) : m + 1 \in Fresh(2) => q[m] < q[m + 1]
  BY <1>2, <1>4, ShiftedRanks DEF GraphInv
<1> HIDE DEF q
<1>7. SoundEdges({link}, L, q)
  BY <1>3, <1>6 DEF SoundEdges
<1>8. SoundEdges(edges', L, q)
  BY <1>1, <1>5, <1>7 DEF SoundEdges
<1> QED BY <1>1, <1>2, <1>6, <1>8, SurgeryKeepsGraph

\* delete_node_and_snap_together keeps the graph intact.
LEMMA SnapKeepsGraph ==
  ASSUME GraphTyped, GraphInv, NEW n \in Live, SnapTogether(n)
  PROVE  GraphIntact' /\ HandedOut' /\ Acyclic'
<1>1. PICK p \in Parents(n) : /\ edges' = Detached(n) \cup OutFrom(n, p)
                              /\ nodes' = SwapRemove(nodes, IndexOf(n))
                              /\ UNCHANGED <<weight, nextNode>>
  BY DEF SnapTogether
<1>2. PICK e \in edges : e.dst = n /\ e.src = p
  BY DEF Parents, Into
<1>3. PICK r \in [NodeId -> Nat] : SoundEdges(edges, Live, r)
  BY GraphIsSound
<1>4. /\ \A m \in Live : r[m] \in Nat
      /\ p \in Live /\ p # n /\ r[p] < r[n]
  BY <1>2, <1>3, LiveType DEF SoundEdges
<1>5. IndexOf(n) \in DOMAIN nodes /\ nodes[IndexOf(n)] = n
  BY LiveMembers DEF IndexOf
<1>6. /\ Live' = Live \ {n}
      /\ \A i, j \in DOMAIN nodes' : nodes'[i] = nodes'[j] => i = j
  <2> DEFINE i == IndexOf(n)
             t == SwapRemove(nodes, i)
  <2>1. i \in DOMAIN nodes /\ nodes[i] = n
    BY <1>5
  <2> HIDE DEF i
  <2>2. nodes \in Seq(NodeId) /\ \A a, b \in DOMAIN nodes : nodes[a] = nodes[b] => a = b
    BY DEF GraphTyped, GraphInv, GraphIntact
  <2>3. /\ {t[j] : j \in DOMAIN t} = {nodes[j] : j \in DOMAIN nodes} \ {nodes[i]}
        /\ \A a, b \in DOMAIN t : t[a] = t[b] => a = b
    BY <2>1, <2>2, SwapRemoveTakesOne
  <2>4. nodes' = t
    BY <1>1 DEF i
  <2> HIDE DEF t
  <2> QED BY <2>1, <2>3, <2>4 DEF Live
<1>7. HandedOut'
  BY <1>1, <1>6 DEF GraphInv, HandedOut
<1>8. SoundEdges(Detached(n), Live \ {n}, r)
  BY <1>3 DEF SoundEdges, Detached
<1>9. ASSUME NEW f \in OutFrom(n, p)
      PROVE  f.src \in Live \ {n} /\ f.dst \in Live \ {n} /\ r[f.src] < r[f.dst]
  <2>1. PICK g \in OutOf(n) : f = [g EXCEPT !.src = p]
    BY DEF OutFrom
  <2>2. g \in edges /\ g.src = n /\ g \in Edge
    BY DEF OutOf, GraphTyped
  <2>3. f.dst = g.dst /\ f.src = p
    BY <2>1, <2>2 DEF Edge
  <2>4. g.dst \in Live /\ r[n] < r[g.dst] /\ r[n] \in Nat /\ r[g.dst] \in Nat /\ r[p] \in Nat
    BY <1>3, <1>4, <2>2 DEF SoundEdges
  <2> QED BY <1>4, <2>3, <2>4
<1>10. SoundEdges(edges', Live', r)
  BY <1>1, <1>6, <1>8, <1>9 DEF SoundEdges
<1>11. Acyclic' /\ \A f \in edges' : {f.src, f.dst} \subseteq Live'
  BY <1>10, SoundGraph
<1> QED BY <1>6, <1>7, <1>11 DEF GraphIntact

\* A decoder that expands stays, and its turning comes after it.
LEMMA DecoderKeepsGraph ==
  ASSUME GraphTyped, GraphInv, NEW n \in Live, ExpandDecoder(n)
  PROVE  GraphIntact' /\ HandedOut' /\ Acyclic'
<1> DEFINE link == [src |-> n, dst |-> nextNode, kind |-> "input"]
<1>1. CASE ExifFlag(IoOf(n)) > 0
  <2>1. /\ nextNode <= MaxNodes /\ nextNode' = nextNode + 1
        /\ nodes' = Append(nodes, nextNode)
        /\ edges' = (edges \ OutOf(n)) \cup OutFrom(n, nextNode) \cup {link}
    BY <1>1 DEF ExpandDecoder
  <2>2. nextNode \in 1 .. MaxNodes + 1 /\ MaxNodes \in Nat /\ Live \subseteq NodeId
        /\ nodes \in Seq(NodeId) /\ nextNode \in NodeId
    BY <2>1, BoundsAssumption, LiveType DEF GraphTyped, NodeId
  <2>3. nextNode + 1 - 1 <= MaxNodes /\ Fresh(1) = {nextNode}
    BY <2>1, <2>2 DEF Fresh
  <2>4. \A m \in Live : m < nextNode /\ m \in Nat
    BY <2>2 DEF GraphInv, HandedOut, NodeId
  <2>5. /\ Live' = Live \cup {nextNode}
        /\ \A i, j \in DOMAIN nodes' : nodes'[i] = nodes'[j] => i = j
    <3> DEFINE l == Len(nodes)
    <3>1. l \in Nat /\ DOMAIN nodes = 1 .. l /\ DOMAIN nodes' = 1 .. l + 1
          /\ \A j \in 1 .. l + 1 : nodes'[j] = IF j = l + 1 THEN nextNode ELSE nodes[j]
      BY <2>1, <2>2
    <3> HIDE DEF l
    <3>2. \A j \in DOMAIN nodes : nodes[j] \in Live /\ nodes[j] # nextNode
      BY <2>2, <2>4 DEF Live
    <3>3. \A i, j \in DOMAIN nodes : nodes[i] = nodes[j] => i = j
      BY DEF GraphInv, GraphIntact
    <3>4. \A i, j \in DOMAIN nodes' : nodes'[i] = nodes'[j] => i = j
      BY <3>1, <3>2, <3>3
    <3>5. \A x \in {nodes'[i] : i \in DOMAIN nodes'} : x \in {nodes[i] : i \in DOMAIN nodes} \cup {nextNode}
      BY <3>1
    <3>6. \A x \in {nodes[i] : i \in DOMAIN nodes} \cup {nextNode} : x \in {nodes'[i] : i \in DOMAIN nodes'}
      <4>1. l + 1 \in DOMAIN nodes' /\ nodes'[l + 1] = nextNode
        BY <3>1
      <4>2. \A i \in DOMAIN nodes : i \in DOMAIN nodes' /\ nodes'[i] = nodes[i]
        BY <3>1
      <4> QED BY <4>1, <4>2
    <3>7. Live' = {nodes[i] : i \in DOMAIN nodes} \cup {nextNode}
      BY <3>5, <3>6 DEF Live
    <3> QED BY <3>4, <3>7 DEF Live
  <2>6. HandedOut'
    BY <2>1, <2>2, <2>4, <2>5 DEF HandedOut
  <2>7. PICK r \in [NodeId -> Nat] : SoundEdges(edges, Live, r)
    BY GraphIsSound
  <2> DEFINE q == Shifted(r, n, 1, 1)
  <2>8. /\ q \in [NodeId -> Nat]
        /\ \A e \in edges : q[e.src] < q[e.dst]
        /\ \A e \in OutOf(n), m \in Fresh(1) : q[m] < q[e.dst]
        /\ \A m \in Fresh(1) : q[n] < q[m]
    BY <2>3, <2>7, ShiftedRanks DEF GraphInv
  <2> HIDE DEF q
  <2>9. ASSUME NEW f \in OutFrom(n, nextNode)
        PROVE  f.src \in Live' /\ f.dst \in Live' /\ q[f.src] < q[f.dst]
    <3>1. PICK g \in OutOf(n) : f = [g EXCEPT !.src = nextNode]
      BY DEF OutFrom
    <3>2. g \in edges /\ g.src = n /\ g \in Edge
      BY DEF OutOf, GraphTyped
    <3>3. f.dst = g.dst /\ f.src = nextNode
      BY <3>1, <3>2 DEF Edge
    <3> QED BY <2>3, <2>5, <2>7, <2>8, <3>1, <3>2, <3>3 DEF SoundEdges
  <2>10. \A e \in edges : e.src \in Live' /\ e.dst \in Live' /\ q[e.src] < q[e.dst]
    BY <2>5, <2>7, <2>8 DEF SoundEdges
  <2>11. link.src \in Live' /\ link.dst \in Live' /\ q[link.src] < q[link.dst]
    BY <2>3, <2>5, <2>8
  <2>12. SoundEdges(edges', Live', q)
    BY <2>1, <2>9, <2>10, <2>11 DEF SoundEdges
  <2>13. Acyclic' /\ \A f \in edges' : {f.src, f.dst} \subseteq Live'
    BY <2>8, <2>12, SoundGraph
  <2> QED BY <2>5, <2>6, <2>13 DEF GraphIntact
<1>2. CASE ~(ExifFlag(IoOf(n)) > 0)
  <2>1. UNCHANGED <<nodes, edges, nextNode>>
    BY <1>2 DEF ExpandDecoder
  <2> QED BY <2>1 DEF GraphInv, GraphIntact, HandedOut, Acyclic, Ordered, Live
<1> QED BY <1>1, <1>2

-----------------------------------------------------------------------------
\* Whatever a node expands to, the graph stays intact.
LEMMA ExpandKeepsGraph ==
  ASSUME GraphTyped, FramesTyped, job \in Jobs, GraphInv, NEW n \in Live,
         weight[n].def \in CanExpand, ~ExpandFails(n), Expand(n)
  PROVE  GraphIntact' /\ HandedOut' /\ Acyclic'
<1> DEFINE d == weight[n].def
           p == weight[n].p
           w == est[Input(n)].w
           h == est[Input(n)].h
<1>0. n \in NodeId
  BY LiveType
<1>1. d \in CanExpand /\ p \in Params /\ Node(d, p) \in Weights /\ ParamsMatch(d, p)
  <2>1. p \in Params /\ Node(d, p) \in Weights
    BY <1>0, WeightType
  <2> QED BY <2>1 DEF ExpandFails
<1>2. d \in OneInputExpand \cup {"expanding_command_string"} => w \in Nat /\ h \in Nat
  <2>1. d \in OneInputExpand \cup {"expanding_command_string"} => Input(n) \in NodeId
    BY ParentType DEF ExpandFails, Input
  <2> QED BY <2>1 DEF FramesTyped, Estimates
<1>3. ASSUME NEW chain \in Seq(Weights), ReplaceNode(n, chain)
      PROVE  GraphIntact' /\ HandedOut' /\ Acyclic'
  BY <1>3, ChainKeepsGraph, SnapKeepsGraph DEF ReplaceNode
<1>4. CASE d = "decoder"
  <2>1. ExpandDecoder(n)
    BY <1>4 DEF Expand, ToCanvas
  <2> QED BY <2>1, DecoderKeepsGraph
<1>5. CASE d = "command_string"
  <2>1. ReplaceNode(n, CommandChain(p))
    BY <1>5 DEF Expand, ToCanvas
  <2>2. p.t = "command_string"
    BY <1>1, <1>5 DEF ParamsMatch, TagOf
  <2>3. CommandChain(p) \in Seq(Weights)
    BY <1>1, <2>2, CommandChainType
  <2> QED BY <1>3, <2>1, <2>3
<1>6. CASE d \in ToCanvas
  <2>1. ReplaceWithCanvas(n, CanvasFor(d, p, w, h), RenderFor(d, p, w, h))
    BY <1>6 DEF Expand, ToCanvas
  <2> QED BY <2>1, CanvasKeepsGraph
<1>7. CASE d \notin {"decoder", "command_string"} \cup ToCanvas
  <2> DEFINE chain == ChainOf(d, p, w, h, HasOtherChildren(Input(n), n))
  <2>1. ReplaceNode(n, chain)
    BY <1>7 DEF Expand
  <2>2. w \in Nat /\ h \in Nat
    BY <1>1, <1>2, <1>7 DEF CanExpand
  <2>3. chain \in Seq(Weights)
    BY <1>1, <1>7, <2>2, ChainType
  <2> QED BY <1>3, <2>1, <2>3
<1> QED BY <1>4, <1>5, <1>6, <1>7

\* A submitted graph is intact.
LEMMA JobGraph ==
  ASSUME NEW j \in Jobs
  PROVE  /\ \A a, b \in DOMAIN j.order : a # b => j.order[a] # j.order[b]
         /\ {j.order[a] : a \in DOMAIN j.order} = 1 .. Len(j.nodes)
         /\ \A e \in j.edges : {e.src, e.dst} \subseteq 1 .. Len(j.nodes) /\ e.src < e.dst
         /\ Len(j.nodes) \in Nat
<1>1. \A e \in j.edges : e.src \in NodeId /\ e.dst \in NodeId /\ e.src < e.dst /\ e.dst <= Len(j.nodes)
  BY JobsAssumption DEF Edge
<1>2. Len(j.nodes) \in Nat
  BY JobsAssumption, SequenceElements
<1> QED BY <1>1, <1>2, JobsAssumption DEF NodeId

\* So is the graph the engine starts a frame with.
LEMMA ClientGraph ==
  ASSUME job \in Jobs, nodes = job.order, edges = job.edges, nextNode = Len(job.nodes) + 1, chosen = 0
  PROVE  GraphInv
<1>1. Live = 1 .. Len(job.nodes)
  BY JobGraph DEF Live
<1>2. GraphIntact
  BY <1>1, JobGraph DEF GraphIntact
<1>3. HandedOut
  BY <1>1, JobGraph DEF HandedOut
<1>4. Acyclic
  <2> DEFINE r == [n \in NodeId |-> n]
  <2>1. r \in [NodeId -> Nat]
    BY DEF NodeId
  <2>2. \A e \in edges : e.src \in NodeId /\ e.dst \in NodeId /\ e.src < e.dst
    BY JobsAssumption, JobGraph DEF Edge
  <2>3. Ordered(r, edges)
    BY <2>2 DEF Ordered
  <2> QED BY <2>1, <2>3 DEF Acyclic
<1> QED BY <1>2, <1>3, <1>4 DEF GraphInv, ChosenIsLive

\* Steps that leave the graph alone choose only live nodes.
LEMMA GraphKept ==
  ASSUME GraphInv, UNCHANGED graphVars, chosen' = chosen \/ chosen' = 0 \/ chosen' \in Live
  PROVE  GraphInv'
<1>1. UNCHANGED <<nodes, edges, nextNode>> /\ Live' = Live
  BY DEF graphVars, Live
<1> QED BY <1>1 DEF GraphInv, GraphIntact, HandedOut, Acyclic, Ordered, ChosenIsLive

\* Quiet steps are among them.
LEMMA QuietGraph ==
  ASSUME Quiet
  PROVE  UNCHANGED graphVars /\ (chosen' = chosen \/ chosen' = 0 \/ chosen' \in Live)
<1>1. CASE ExecuteChoose \/ FlattenChoose
  BY <1>1 DEF ExecuteChoose, FlattenChoose, pickFrame
<1>2. CASE ~(ExecuteChoose \/ FlattenChoose)
  BY <1>2 DEF Quiet, ValidateGraph, LinkCodecs, EstimateNodeRecursive, EstimateEnter, EstimateParent,
       EstimateResume, EstimateRun, PopulateNext, PopulateDone, FlattenDone,
       ExecuteDone, ExecuteFailure, NextPass, PassLimit, Finish, vars, estimateFrame, pickFrame
<1> QED BY <1>1, <1>2

\* Every step keeps the graph intact.
LEMMA StepIntact == EngineInv /\ GraphInv /\ [Next]_vars => GraphInv'
<1> SUFFICES ASSUME EngineInv, GraphInv, [Next]_vars PROVE GraphInv'
  OBVIOUS
<1>1. CASE Quiet
  BY <1>1, QuietGraph, GraphKept
<1>2. CASE CreateCanvas \/ Decode \/ Encode \/ RenderToCanvas \/ MutateInput
  <2>1. UNCHANGED graphVars /\ chosen' = 0
    BY <1>2 DEF CreateCanvas, Decode, Encode, RenderToCanvas, MutateInput, executeFrame, ProduceNew, Produce
  <2> QED BY <2>1, GraphKept
<1>3. CASE NextFrame
  <2>1. EngineInv'
    BY <1>3, NextFrameTyped
  <2>2. job' \in Jobs /\ nodes' = job'.order /\ edges' = job'.edges /\ nextNode' = Len(job'.nodes) + 1
    BY <1>3, <2>1 DEF NextFrame, EngineInv, ControlInv
  <2>3. chosen' = 0
    BY <1>3, AtOperation DEF NextFrame
  <2>4. Live' = 1 .. Len(job'.nodes)
    BY <2>2, JobGraph DEF Live
  <2>5. GraphIntact'
    <3>1. \A a, b \in DOMAIN nodes' : a # b => nodes'[a] # nodes'[b]
      BY <2>2, JobGraph
    <3>2. \A e \in edges' : {e.src, e.dst} \subseteq Live'
      BY <2>2, <2>4, JobGraph
    <3> QED BY <3>1, <3>2 DEF GraphIntact
  <2>6. HandedOut'
    BY <2>2, <2>4, JobGraph DEF HandedOut
  <2>7. Acyclic'
    <3> DEFINE r == [n \in NodeId |-> n]
    <3>1. r \in [NodeId -> Nat]
      BY DEF NodeId
    <3>2. \A e \in edges' : e.src \in NodeId /\ e.dst \in NodeId /\ e.src < e.dst
      BY <2>2, JobsAssumption, JobGraph DEF Edge
    <3>3. Ordered(r, edges')
      BY <3>2 DEF Ordered
    <3> QED BY <3>1, <3>3 DEF Acyclic
  <2> QED BY <2>3, <2>5, <2>6, <2>7 DEF GraphInv, ChosenIsLive
<1>4. CASE FlattenExpand
  <2>1. At("flatten") /\ chosen # 0 /\ chosen' = 0
    BY <1>4 DEF FlattenExpand
  <2>2. chosen \in Live /\ weight[chosen].def \in CanExpand /\ GraphTyped /\ FramesTyped /\ job \in Jobs
    BY <2>1, AtOperation DEF EngineInv, TypeOK, LoopTyped, ControlInv, GraphInv, ChosenIsLive
  <2>3. CASE ExpandFails(chosen)
    <3>1. UNCHANGED graphVars
      BY <1>4, <2>3 DEF FlattenExpand
    <3> QED BY <2>1, <3>1, GraphKept
  <2>4. CASE ~ExpandFails(chosen)
    <3>1. Expand(chosen)
      BY <1>4, <2>4 DEF FlattenExpand
    <3>2. GraphIntact' /\ HandedOut' /\ Acyclic'
      BY <2>2, <2>4, <3>1, ExpandKeepsGraph
    <3> QED BY <2>1, <3>2 DEF GraphInv, ChosenIsLive
  <2> QED BY <2>3, <2>4
<1> QED BY <1>1, <1>2, <1>3, <1>4, StepKinds

\* The graph invariant, with the ranks that show it free of cycles, holds in
\* every state: through validation, every expansion and every new frame.
THEOREM GraphInvariant == Spec => []GraphInv
<1>1. Init => GraphInv
  BY ClientGraph DEF Init
<1>2. EngineInv /\ GraphInv /\ [Next]_vars => GraphInv'
  BY StepIntact
<1> QED BY <1>1, <1>2, EngineInvariant, PTL DEF Spec

\* The nodes keep distinct places and every edge joins live nodes, whatever the
\* job and however often its nodes are replaced (replace_node), deleted
\* (delete_node_and_snap_together) or joined by new ones (DecoderDef::expand).
THEOREM GraphStaysIntact == Spec => []GraphIntact
<1>1. GraphInv => GraphIntact
  BY DEF GraphInv
<1> QED BY <1>1, GraphInvariant, PTL

-----------------------------------------------------------------------------
(***************************************************************************)
(* The sizes of frames.  A node that has run has a true size: the one its  *)
(* definition and its parents determine, which is its bitmap's as long as  *)
(* it holds one and does not change once its frame has been consumed.  Its *)
(* estimate is that size, or has been dropped (a command string            *)
(* invalidates all estimates), and is never anything else.  For that to be *)
(* inductive, nodes must run after their parents, a node must not be       *)
(* estimated before the parents that have run, and the activations of      *)
(* estimate_node_recursive must keep to the order in which they wait for   *)
(* each other.                                                             *)
(***************************************************************************)
\* Node n has produced a frame.
Sized(n) == result[n].k \in {"Frame", "Consumed"}

\* What determines the size truth[n] of a node that has run.
Determined(truth, n) ==
  LET d == weight[n].def
      p == weight[n].p
      c == codec[IoOf(n)]
  IN  /\ d # "primitive_encoder"
      /\ d = "create_canvas" => truth[n] = Known(p.a[1], p.a[2])
      /\ d = "primitive_decoder" => c.read > 0 /\ truth[n] = Known(c.w, c.h)
      /\ d = "crop_mutate" => truth[n] = Known(p.a[3] - p.a[1], p.a[4] - p.a[2])
      /\ d \in OneInputOneCanvas => HasParent(n, "canvas") /\ truth[n] = truth[Parent(n, "canvas")]
      /\ d \in MutateBitmap => HasParent(n, "input") /\ truth[n] = truth[Parent(n, "input")]

SizeOf(b) == Known(bitmap[b].w, bitmap[b].h)

\* truth gives the size of every node that has run.
Truthful(truth) ==
  \A n \in NodeId : Sized(n) =>
    /\ truth[n].k = "Some" /\ est[n] \in {Unknown, truth[n]}
    /\ result[n].k = "Frame" => truth[n] = SizeOf(result[n].b)
    /\ Determined(truth, n)

\* Nodes run after their parents and stay as they are; encoders end a branch.
ResultsInv ==
  /\ \A n \in NodeId : n >= nextNode => result[n] = NoResult /\ est[n].k # "Some"
  /\ \A n \in NodeId : result[n] # NoResult => Complete(n) /\ weight[n].def \in CanExecute
  /\ \A n \in NodeId : result[n] = Encoded => OutOf(n) = {}
  /\ step = 14 => \A n \in Live : weight[n].def = "primitive_encoder" => OutOf(n) = {}

\* A node that still has to run was estimated after the parents that have run.
EstimatesInv ==
  \A n \in NodeId : result[n] = NoResult /\ est[n].k = "Some" =>
     \A p \in Parents(n) : Sized(p) => est[p].k = "Some"

\* The activations of estimate_node_recursive: each is a call for a parent of
\* the one below it, and a node that can run has the estimates of the parents
\* it no longer waits for.
Settled(cs, e, i) ==
  \A p \in Parents(cs[i].node) :
     \/ p \in cs[i].todo
     \/ e[p].k = "Some"
     \/ i < Len(cs) /\ cs[i + 1].node = p

\* By the estimates e, every parent of n has a size.
Fed(e, n) == \A p \in Parents(n) : e[p].k = "Some"

\* The activations cs under the estimates e.
StackOf(cs, e) ==
  /\ \A i \in DOMAIN cs : cs[i].node \in Live
  /\ \A i \in DOMAIN cs :
       i < Len(cs) => cs[i].phase = "parents" /\ cs[i + 1].node \in Parents(cs[i].node)
  /\ \A i \in DOMAIN cs : cs[i].phase = "run" => Fed(e, cs[i].node)
  /\ \A i \in DOMAIN cs : cs[i].phase = "parents" => cs[i].todo \subseteq Parents(cs[i].node)
  /\ \A i \in DOMAIN cs : cs[i].phase = "parents" /\ Complete(cs[i].node) => Settled(cs, e, i)
  /\ \A i, j \in DOMAIN cs : i < j /\ Complete(cs[i].node) => result[cs[j].node] # NoResult
  /\ cs # <<>> /\ chosen # 0 => cs[1].node = chosen

StackInv == StackOf(calls, est)

\* The chosen node has its inputs, and once nothing is left to estimate, before it
\* expands, also their sizes.
ChosenReady ==
  chosen # 0 =>
    /\ Complete(chosen)
    /\ Program[step] = "flatten" /\ calls = <<>> => InputsEstimated(chosen)

\* What the sizes of frames depend on, and that they are true.
SizesInv ==
  /\ ResultsInv /\ EstimatesInv /\ StackInv /\ ChosenReady
  /\ \E truth \in [NodeId -> Estimates] : Truthful(truth)

\* The inductive invariant.
TruthInv == OwnershipInv /\ GraphInv /\ SizesInv

\* What a result can be.
LEMMA ResultKinds ==
  ASSUME NEW r \in Results
  PROVE  /\ r.k \in {"None", "Consumed", "Encoded", "Frame"}
         /\ r = NoResult <=> r.k = "None"
         /\ r = Encoded <=> r.k = "Encoded"
         /\ r = Consumed <=> r.k = "Consumed"
BY DEF Results, NoResult, Consumed, Encoded, Frame

\* A node runs, or can run, only on the sized results of its parents.
LEMMA CompleteSized ==
  ASSUME GraphTyped, FramesTyped, ResultsInv, NEW n, Complete(n)
  PROVE  \A p \in Parents(n) : p \in NodeId /\ Sized(p) /\ result[p] # NoResult
<1> SUFFICES ASSUME NEW p \in Parents(n)
             PROVE  p \in NodeId /\ Sized(p) /\ result[p] # NoResult
  OBVIOUS
<1>1. p \in NodeId /\ result[p] # NoResult /\ result[p] \in Results
  BY ParentType DEF Complete, FramesTyped
<1>2. OutOf(p) # {}
  BY DEF Parents, Into, OutOf
<1>3. result[p] # Encoded
  BY <1>1, <1>2 DEF ResultsInv
<1> QED BY <1>1, <1>3, ResultKinds DEF Sized

\* A node with a size has run, after its parents.
LEMMA SizedExecuted ==
  ASSUME FramesTyped, ResultsInv, NEW n \in NodeId, Sized(n)
  PROVE  result[n] # NoResult /\ Complete(n) /\ weight[n].def \in CanExecute
<1>1. result[n] # NoResult
  BY DEF Sized, NoResult
<1> QED BY <1>1 DEF ResultsInv

\* Once it has decoded, a decoder's size stands.
LEMMA CodecSettles ==
  ASSUME NEW d, NEW c \in CodecStates, NEW hint
  PROVE  /\ c.read > 0 => /\ Informed(d, c).read = c.read
                          /\ Informed(d, c).w = c.w /\ Informed(d, c).h = c.h
         /\ Told(d, c, hint).read = c.read /\ Told(d, c, hint).w = c.w /\ Told(d, c, hint).h = c.h
BY DEF Informed, Told, CodecStates

\* An estimate that is a size.
LEMMA KnownIsSome ==
  /\ \A w, h : Known(w, h).k = "Some" /\ Known(w, h).w = w /\ Known(w, h).h = h
  /\ Unknown.k = "None" /\ Impossible.k = "Impossible" /\ Invalidate.k = "InvalidateGraph"
BY DEF Known, Unknown, Impossible, Invalidate, Est

\* Estimating a node that has run yields its true size.
LEMMA EstimateIsTrue ==
  ASSUME GraphTyped, FramesTyped, ResultsInv, NEW truth \in [NodeId -> Estimates], Truthful(truth),
         NEW n \in NodeId, Sized(n), InputsEstimated(n), ~EstimateFails(n)
  PROVE  Estimated(n) = truth[n]
<1> DEFINE d == weight[n].def
           p == weight[n].p
<1>1. d \in CanExecute /\ Complete(n) /\ Determined(truth, n)
  BY SizedExecuted DEF Truthful
<1>2. \A q \in Parents(n) : q \in NodeId /\ est[q] = truth[q] /\ est[q].k = "Some"
  BY <1>1, CompleteSized, KnownIsSome DEF InputsEstimated, Truthful
<1>3. CASE d = "primitive_decoder"
  <2> DEFINE io == IoOf(n)
  <2>1. codec[io] \in CodecStates
    BY <1>3, DecoderIo DEF Decoders, FramesTyped
  <2>2. codec[io].read > 0 /\ truth[n] = Known(codec[io].w, codec[io].h)
    BY <1>1, <1>3 DEF Determined
  <2>3. Estimated(n) = Known(Informed(job.io[io], codec[io]).w, Informed(job.io[io], codec[io]).h)
    BY <1>3 DEF Estimated, Decoders, OneInputExpand
  <2> QED BY <2>1, <2>2, <2>3, CodecSettles
<1>4. CASE d = "create_canvas"
  <2>1. Estimated(n) = Known(p.a[1], p.a[2])
    BY <1>4 DEF Estimated, Decoders, OneInputExpand
  <2> QED BY <1>1, <1>4, <2>1 DEF Determined
<1>5. CASE d = "crop_mutate"
  <2>1. Estimated(n) = CropEstimate(p, ParentEst(n))
    BY <1>5 DEF Estimated, Decoders, OneInputExpand, Protected, Inner
  <2>2. EstimatesFrom(d) = {"input"} /\ ~SecondThoughts(n)
    BY <1>5 DEF EstimatesFrom, OneInputOneCanvas, NoInput, Decoders, SecondThoughts
  <2>3. HasParent(n, "input") /\ ParentEst(n) = est[Parent(n, "input")]
    BY <2>2 DEF EstimateFails, ParentEst
  <2>4. ParentEst(n).k = "Some"
    BY <1>2, <2>3, ParentType
  <2> QED BY <1>1, <1>5, <2>1, <2>4 DEF Determined, CropEstimate
<1>6. CASE d \in OneInputOneCanvas
  <2>1. Estimated(n) = ParentEst(n)
    BY <1>6 DEF Estimated, Decoders, OneInputExpand, Protected, Inner, OneInputOneCanvas
  <2>2. EstimatesFrom(d) = {"canvas"}
    BY <1>6 DEF EstimatesFrom
  <2>3. ParentEst(n) = est[Parent(n, "canvas")]
    BY <2>2 DEF ParentEst
  <2>4. HasParent(n, "canvas") /\ truth[n] = truth[Parent(n, "canvas")]
    BY <1>1, <1>6 DEF Determined
  <2> QED BY <1>2, <2>1, <2>3, <2>4, ParentType
<1>7. CASE d \in MutateBitmap
  <2>1. Estimated(n) = ParentEst(n)
    BY <1>7 DEF Estimated, Decoders, OneInputExpand, Protected, Inner, MutateBitmap
  <2>2. EstimatesFrom(d) = {"input"}
    BY <1>7 DEF EstimatesFrom, OneInputOneCanvas, NoInput, Decoders, MutateBitmap
  <2>3. ParentEst(n) = est[Parent(n, "input")]
    BY <2>2 DEF ParentEst
  <2>4. HasParent(n, "input") /\ truth[n] = truth[Parent(n, "input")]
    BY <1>1, <1>7 DEF Determined
  <2> QED BY <1>2, <2>1, <2>3, <2>4, ParentType
<1> QED BY <1>1, <1>3, <1>4, <1>5, <1>6, <1>7 DEF CanExecute, Determined

\* Only a command string, which never runs itself, invalidates estimates.
LEMMA WhoInvalidates ==
  ASSUME GraphTyped, FramesTyped, NEW n \in NodeId, InputsEstimated(n), ~EstimateFails(n),
         Estimated(n) = Invalidate
  PROVE  weight[n].def = "expanding_command_string"
<1> DEFINE d == weight[n].def
           p == weight[n].p
<1> SUFFICES ASSUME d # "expanding_command_string" PROVE FALSE
  OBVIOUS
<1>1. Estimated(n).k # "Some"
  BY KnownIsSome
<1>2. d \notin Decoders \cup {"create_canvas", "command_string"}
  BY <1>1, KnownIsSome DEF Estimated, Decoders, OneInputExpand, Invalidate, Impossible, Est
<1>3. ParentEst(n).k = "Some"
  <2>1. EstimatesFrom(d) # {} /\ ~SecondThoughts(n)
    BY <1>2 DEF EstimatesFrom, NoInput, SecondThoughts
  <2> DEFINE kind == CHOOSE k \in EstimatesFrom(weight[n].def) : TRUE
  <2>2. kind \in EstimatesFrom(d)
    BY <2>1
  <2>3. ParentEst(n) = est[Parent(n, kind)]
    BY DEF ParentEst
  <2> HIDE DEF kind
  <2>4. HasParent(n, kind)
    BY <2>1, <2>2 DEF EstimateFails
  <2> QED BY <2>3, <2>4, ParentType DEF InputsEstimated
<1>4. CASE d \in {"crop", "crop_mutate"}
  BY <1>1, <1>3, <1>4, KnownIsSome DEF Estimated, Decoders, OneInputExpand, Protected, Inner, CropEstimate
<1>5. CASE d \in OneInputExpand \ Protected
  <2>1. Estimated(n) = MapFrame(d, p, ParentEst(n))
    BY <1>5 DEF Estimated, Decoders, OneInputExpand, Protected, Inner
  <2>2. MapFrame(d, p, ParentEst(n)).k = "Some"
    BY <1>3, KnownIsSome DEF MapFrame, OrientedEst, ExpandedEst, ScaledEst, ConstrainedEst
  <2> QED BY <1>1, <2>1, <2>2
<1>6. CASE d \notin {"crop", "crop_mutate"} \cup (OneInputExpand \ Protected)
  <2>1. Estimated(n) = ParentEst(n)
    BY <1>2, <1>6 DEF Estimated
  <2> QED BY <1>1, <1>3, <2>1
<1> QED BY <1>4, <1>5, <1>6

-----------------------------------------------------------------------------
(* Estimating: activations, codecs and estimates.                          *)

\* The innermost activation replaced by another.
LEMMA TopReplaced ==
  ASSUME NEW S, NEW s \in Seq(S), s # <<>>, NEW x \in S, NEW t, t = [s EXCEPT ![Len(s)] = x]
  PROVE  /\ t \in Seq(S) /\ t # <<>> /\ Len(t) = Len(s) /\ DOMAIN t = 1 .. Len(s) /\ t[Len(s)] = x
         /\ \A i \in 1 .. Len(s) : i # Len(s) => t[i] = s[i]
<1>1. Len(s) \in Nat \ {0} /\ DOMAIN s = 1 .. Len(s) /\ \A i \in 1 .. Len(s) : s[i] \in S
  BY SequenceElements
<1>2. t \in Seq(S)
  BY ReplaceTopType
<1>3. DOMAIN t = 1 .. Len(s)
  BY <1>1
<1>4. Len(t) \in Nat /\ DOMAIN t = 1 .. Len(t)
  BY <1>2
<1>5. Len(t) = Len(s)
  BY <1>1, <1>3, <1>4
<1>6. t[Len(s)] = x
  BY <1>1
<1>7. \A i \in 1 .. Len(s) : i # Len(s) => t[i] = s[i]
  BY <1>1
<1>8. t # <<>>
  BY <1>1, <1>5
<1> QED BY <1>2, <1>3, <1>5, <1>6, <1>7, <1>8

\* One more activation.
LEMMA OneAppended ==
  ASSUME NEW S, NEW s \in Seq(S), NEW x \in S, NEW t, t = Append(s, x)
  PROVE  /\ t \in Seq(S) /\ t # <<>> /\ Len(t) = Len(s) + 1 /\ DOMAIN t = 1 .. Len(s) + 1 /\ t[Len(s) + 1] = x
         /\ \A i \in 1 .. Len(s) : t[i] = s[i]
OBVIOUS

\* What decoders that have decoded keep.
CodecsKept ==
  \A io \in IoId : codec[io].read > 0 =>
    codec'[io].read > 0 /\ codec'[io].w = codec[io].w /\ codec'[io].h = codec[io].h

\* Graph and results are left alone.
SameGraph == UNCHANGED <<nodes, edges, weight, nextNode, result>>

\* What is read off an unchanged graph is unchanged.
LEMMA GraphFrame ==
  ASSUME SameGraph
  PROVE  /\ Live' = Live
         /\ \A n : /\ Parents(n)' = Parents(n) /\ OutOf(n)' = OutOf(n) /\ IoOf(n)' = IoOf(n)
                   /\ Complete(n)' = Complete(n) /\ Sized(n)' = Sized(n)
         /\ \A n, kind : HasParent(n, kind)' = HasParent(n, kind) /\ Parent(n, kind)' = Parent(n, kind)
<1>1. Live' = Live
  BY DEF SameGraph, Live
<1>2. \A n : Parents(n)' = Parents(n) /\ OutOf(n)' = OutOf(n) /\ Into(n)' = Into(n) /\ IoOf(n)' = IoOf(n) /\ Sized(n)' = Sized(n)
  BY DEF SameGraph, Parents, OutOf, Into, Sized, IoOf
<1>3. \A n : Complete(n)' = Complete(n)
  BY <1>2 DEF SameGraph, Complete
<1>4. \A n, kind : ParentsOf(n, kind)' = ParentsOf(n, kind)
  BY <1>2 DEF ParentsOf
<1>5. \A n, kind : HasParent(n, kind)' = HasParent(n, kind) /\ Parent(n, kind)' = Parent(n, kind)
  BY <1>4 DEF HasParent, Parent
<1> QED BY <1>1, <1>2, <1>3, <1>5

\* Sizes stay true when decoders keep theirs and no estimate is made up.
LEMMA TruthKept ==
  ASSUME GraphTyped, FramesTyped, ResultsInv, NEW truth, Truthful(truth), SameGraph, UNCHANGED bitmap,
         CodecsKept, \A n \in NodeId : Sized(n) => est'[n] \in {Unknown, truth[n]}
  PROVE  Truthful(truth)'
<1> SUFFICES ASSUME NEW n \in NodeId, Sized(n)'
             PROVE  /\ truth[n].k = "Some" /\ est'[n] \in {Unknown, truth[n]}
                    /\ result'[n].k = "Frame" => truth[n] = SizeOf(result[n].b)'
                    /\ Determined(truth, n)'
  BY DEF Truthful, SameGraph
<1>1. Sized(n) /\ weight' = weight /\ result' = result
  BY GraphFrame DEF SameGraph
<1>2. /\ truth[n].k = "Some" /\ est'[n] \in {Unknown, truth[n]} /\ Determined(truth, n)
      /\ result[n].k = "Frame" => truth[n] = SizeOf(result[n].b)
  BY <1>1 DEF Truthful
<1>3. SizeOf(result[n].b)' = SizeOf(result[n].b)
  BY <1>1 DEF SizeOf
<1>4. IoOf(n)' = IoOf(n) /\ HasParent(n, "canvas")' = HasParent(n, "canvas") /\ HasParent(n, "input")' = HasParent(n, "input")
      /\ Parent(n, "canvas")' = Parent(n, "canvas") /\ Parent(n, "input")' = Parent(n, "input")
  BY GraphFrame
<1>5. weight[n].def = "primitive_decoder" => IoOf(n) \in IoId
  BY DecoderIo DEF Decoders
<1>6. Determined(truth, n)'
  <2>1. weight'[n].def = "primitive_decoder" => codec'[IoOf(n)'].read > 0 /\ truth[n] = Known(codec'[IoOf(n)'].w, codec'[IoOf(n)'].h)
    BY <1>1, <1>2, <1>4, <1>5 DEF Determined, CodecsKept
  <2> QED BY <1>1, <1>2, <1>4, <2>1 DEF Determined
<1> QED BY <1>1, <1>2, <1>3, <1>6

\* Results are in order after a step that gives none and does not begin execution.
LEMMA ResultsKept ==
  ASSUME ResultsInv, SameGraph, \A n \in NodeId : n >= nextNode => est'[n].k # "Some",
         step' # 14 \/ step = 14
  PROVE  ResultsInv'
<1>1. \A n \in NodeId : n >= nextNode' => result'[n] = NoResult /\ est'[n].k # "Some"
  BY DEF ResultsInv, SameGraph
<1>2. \A n \in NodeId : result'[n] # NoResult => Complete(n)' /\ weight'[n].def \in CanExecute
  BY GraphFrame DEF ResultsInv, SameGraph
<1>3. \A n \in NodeId : result'[n] = Encoded => OutOf(n)' = {}
  BY GraphFrame DEF ResultsInv, SameGraph
<1>4. step' = 14 => \A n \in Live' : weight'[n].def = "primitive_encoder" => OutOf(n)' = {}
  BY GraphFrame DEF ResultsInv, SameGraph
<1> QED BY <1>1, <1>2, <1>3, <1>4 DEF ResultsInv

\* An unchanged graph judges activations as before.
LEMMA SameStack ==
  ASSUME SameGraph, chosen' = chosen, StackOf(calls', est')
  PROVE  StackInv'
<1>1. /\ \A n : Parents(n)' = Parents(n) /\ Complete(n)' = Complete(n)
      /\ Live' = Live /\ result' = result
  BY GraphFrame DEF SameGraph
<1>2. \A n : Fed(est', n) => Fed(est, n)'
  BY <1>1 DEF Fed, SameGraph, Parents, Into
<1>3. \A i : Settled(calls', est', i) => Settled(calls, est, i)'
  BY DEF Settled, SameGraph, Parents, Into
<1>4. (\A i \in DOMAIN calls : calls[i].node \in Live)'
  BY <1>1 DEF StackOf
<1>5. (\A i \in DOMAIN calls :
         i < Len(calls) => calls[i].phase = "parents" /\ calls[i + 1].node \in Parents(calls[i].node))'
  BY DEF StackOf, SameGraph, Parents, Into
<1>6. (\A i \in DOMAIN calls : calls[i].phase = "run" => Fed(est, calls[i].node))'
  BY DEF StackOf, SameGraph, Parents, Into, Fed
<1>7. (\A i \in DOMAIN calls : calls[i].phase = "parents" => calls[i].todo \subseteq Parents(calls[i].node))'
  BY DEF StackOf, SameGraph, Parents, Into
<1>8. (\A i \in DOMAIN calls : calls[i].phase = "parents" /\ Complete(calls[i].node) => Settled(calls, est, i))'
  BY <1>3 DEF StackOf, SameGraph, Parents, Into, Complete
<1>9. (\A i, j \in DOMAIN calls : i < j /\ Complete(calls[i].node) => result[calls[j].node] # NoResult)'
  BY DEF StackOf, SameGraph, Parents, Into, Complete
<1>10. (calls # <<>> /\ chosen # 0 => calls[1].node = chosen)'
  BY DEF StackOf
<1> QED BY <1>4, <1>5, <1>6, <1>7, <1>8, <1>9, <1>10 DEF StackInv, StackOf

\* Activations: the places of a stack with an innermost one.
LEMMA StackShape ==
  ASSUME calls \in Seq(Activations), calls # <<>>
  PROVE  /\ Len(calls) \in Nat \ {0} /\ DOMAIN calls = 1 .. Len(calls) /\ Len(calls) \in DOMAIN calls
         /\ Top = calls[Len(calls)]
BY DEF Top

\* A node whose activation is below another's can only run after that one has.
LEMMA Above ==
  ASSUME GraphTyped, FramesTyped, ResultsInv, StackInv, calls \in Seq(Activations), calls # <<>>,
         NEW i \in 1 .. Len(calls) - 1, Complete(calls[i].node)
  PROVE  Sized(Top.node) /\ Top.node \in NodeId
<1>1. Len(calls) \in Nat /\ DOMAIN calls = 1 .. Len(calls) /\ Top = calls[Len(calls)] /\ Len(calls) \in DOMAIN calls
  BY StackShape
<1> DEFINE k == Len(calls)
<1>2. i \in DOMAIN calls /\ i < k /\ k - 1 \in DOMAIN calls /\ k - 1 < k /\ (k - 1) + 1 = k
  BY <1>1
<1> HIDE DEF k
<1>3. calls[k].node \in Parents(calls[k - 1].node)
  BY <1>2 DEF StackInv, StackOf, k
<1>4. i = k - 1 \/ i < k - 1
  BY <1>1, <1>2 DEF k
<1>5. Complete(calls[k - 1].node)
  <2>1. CASE i = k - 1
    BY <2>1
  <2>2. CASE i < k - 1
    <3>1. result[calls[k - 1].node] # NoResult
      BY <1>2, <2>2 DEF StackInv, StackOf
    <3>2. calls[k - 1].node \in NodeId
      BY <1>2, LiveType DEF StackInv, StackOf
    <3> QED BY <3>1, <3>2 DEF ResultsInv
  <2> QED BY <1>4, <2>1, <2>2
<1> QED BY <1>1, <1>3, <1>5, CompleteSized DEF k

\* Returning: the activation below had been waiting for the one that ends.
LEMMA Returned ==
  ASSUME GraphTyped, FramesTyped, ResultsInv, StackInv, calls \in Seq(Activations), calls # <<>>,
         NEW cs, cs = SubSeq(calls, 1, Len(calls) - 1), NEW e,
         \A n \in NodeId : n # Top.node /\ est[n].k = "Some" => e[n].k = "Some",
         Sized(Top.node) => e[Top.node].k = "Some"
  PROVE  StackOf(cs, e)
<1> DEFINE k == Len(calls)
           m == Top.node
<1>1. k \in Nat \ {0} /\ DOMAIN calls = 1 .. k /\ Top = calls[k]
  BY StackShape
<1>2. Len(cs) = k - 1 /\ DOMAIN cs = 1 .. k - 1 /\ (\A i \in 1 .. k - 1 : cs[i] = calls[i]) /\ cs \in Seq(Activations)
  BY <1>1
<1> HIDE DEF k
<1>3. \A i \in DOMAIN cs : /\ i \in DOMAIN calls /\ i < k /\ i \in 1 .. k - 1 /\ cs[i] = calls[i]
                           /\ calls[i].phase = "parents" /\ calls[i].node \in Live
                           /\ i < Len(cs) => i + 1 \in DOMAIN cs /\ cs[i + 1] = calls[i + 1]
  BY <1>1, <1>2 DEF StackInv, StackOf, k
<1>4. \A i \in DOMAIN cs : cs[i].phase = "parents" /\ cs[i].phase # "run"
  BY <1>3
<1>5. ASSUME NEW i \in DOMAIN cs, Complete(cs[i].node)
      PROVE  Settled(cs, e, i)
  <2>0. cs[i] = calls[i] /\ Complete(calls[i].node) /\ calls[i].phase = "parents"
    BY <1>3, <1>5
  <2>1. Settled(calls, est, i)
    BY <1>3, <2>0 DEF StackInv, StackOf
  <2>2. Sized(m) /\ e[m].k = "Some"
    BY <1>3, <2>0, Above DEF k
  <2>3. \A p \in Parents(calls[i].node) : p \in NodeId
    BY ParentType
  <2>4. ASSUME NEW p \in Parents(calls[i].node), i < k, calls[i + 1].node = p
        PROVE  e[p].k = "Some" \/ (i < Len(cs) /\ cs[i + 1].node = p)
    <3>1. CASE i = k - 1
      <4>1. i + 1 = k
        BY <1>1, <3>1
      <4> QED BY <1>1, <2>2, <2>4, <4>1
    <3>2. CASE i < k - 1
      BY <1>2, <1>3, <2>4, <3>2
    <3> QED BY <1>1, <1>3, <3>1, <3>2
  <2>5. \A p \in Parents(calls[i].node) : est[p].k = "Some" => e[p].k = "Some"
    BY <2>2, <2>3
  <2>6. \A p \in Parents(calls[i].node) : p \in calls[i].todo \/ est[p].k = "Some" \/ (i < k /\ calls[i + 1].node = p)
    BY <2>1 DEF Settled, k
  <2> QED BY <2>0, <2>4, <2>5, <2>6 DEF Settled
<1>6. \A i \in DOMAIN cs : cs[i].node \in Live
  BY <1>3
<1>7. \A i \in DOMAIN cs : i < Len(cs) => cs[i].phase = "parents" /\ cs[i + 1].node \in Parents(cs[i].node)
  BY <1>3 DEF StackInv, StackOf, k
<1>8. \A i \in DOMAIN cs : cs[i].phase = "parents" => cs[i].todo \subseteq Parents(cs[i].node)
  BY <1>3 DEF StackInv, StackOf
<1>9. \A i, j \in DOMAIN cs : i < j /\ Complete(cs[i].node) => result[cs[j].node] # NoResult
  BY <1>3 DEF StackInv, StackOf
<1>10. cs # <<>> /\ chosen # 0 => cs[1].node = chosen
  <2> SUFFICES ASSUME cs # <<>>, chosen # 0 PROVE cs[1].node = chosen
    OBVIOUS
  <2>1. 1 \in DOMAIN cs
    BY <1>1, <1>2
  <2> QED BY <1>3, <2>1 DEF StackInv, StackOf
<1> QED BY <1>4, <1>5, <1>6, <1>7, <1>8, <1>9, <1>10 DEF StackOf

\* The innermost activation moves on; if estimates are dropped with that, no
\* node with an activation below it can run.
LEMMA MovedOn ==
  ASSUME GraphTyped, FramesTyped, ResultsInv, StackInv, calls \in Seq(Activations), calls # <<>>,
         NEW f \in Activations, f.node = Top.node, NEW e, NEW cs, cs = [calls EXCEPT ![Len(calls)] = f],
         e = est \/ result[Top.node] = NoResult,
         f.phase = "run" => Fed(e, f.node),
         f.phase = "parents" => f.todo = Parents(f.node)
  PROVE  StackOf(cs, e)
<1> DEFINE k == Len(calls)
<1>1. k \in Nat \ {0} /\ DOMAIN calls = 1 .. k /\ Top = calls[k]
  BY StackShape
<1>2. /\ Len(cs) = k /\ DOMAIN cs = 1 .. k /\ cs[k] = f /\ cs # <<>>
      /\ \A i \in 1 .. k : i # k => cs[i] = calls[i]
  <2>1. /\ Len(cs) = Len(calls) /\ DOMAIN cs = 1 .. Len(calls) /\ cs[Len(calls)] = f /\ cs # <<>>
        /\ \A i \in 1 .. Len(calls) : i # Len(calls) => cs[i] = calls[i]
    BY TopReplaced
  <2> QED BY <2>1
<1> HIDE DEF k
<1>3. \A i \in 1 .. k : cs[i].node = calls[i].node
  BY <1>1, <1>2
<1>4. \A i \in 1 .. k : i < k => cs[i] = calls[i] /\ calls[i].phase = "parents" /\ i + 1 \in 1 .. k
                                 /\ cs[i + 1].node = calls[i + 1].node
  BY <1>1, <1>2, <1>3 DEF StackInv, StackOf, k
<1>5. \A i \in 1 .. k : i = k \/ i < k
  BY <1>1
<1>6. ASSUME NEW i \in 1 .. k, cs[i].phase = "parents", Complete(cs[i].node)
      PROVE  Settled(cs, e, i)
  <2>1. CASE i = k
    BY <1>2, <1>6, <2>1 DEF Settled
  <2>2. CASE i < k
    <3>1. cs[i] = calls[i] /\ calls[i].phase = "parents" /\ cs[i + 1].node = calls[i + 1].node
      BY <1>4, <2>2
    <3>2. i \in 1 .. k - 1
      BY <1>1, <2>2
    <3>3. Sized(Top.node)
      BY <1>6, <3>1, <3>2, Above DEF k
    <3>4. e = est
      BY <3>3 DEF Sized, NoResult
    <3>5. Settled(calls, est, i)
      BY <1>1, <1>6, <3>1 DEF StackInv, StackOf
    <3> QED BY <1>2, <2>2, <3>1, <3>4, <3>5 DEF Settled, k
  <2> QED BY <1>5, <2>1, <2>2
<1>7. \A i \in DOMAIN cs : cs[i].node \in Live
  BY <1>1, <1>2, <1>3 DEF StackInv, StackOf
<1>8. \A i \in DOMAIN cs : i < Len(cs) => cs[i].phase = "parents" /\ cs[i + 1].node \in Parents(cs[i].node)
  BY <1>1, <1>2, <1>4 DEF StackInv, StackOf, k
<1>9. \A i \in DOMAIN cs : cs[i].phase = "run" => Fed(e, cs[i].node)
  BY <1>2, <1>4, <1>5
<1>10. \A i \in DOMAIN cs : cs[i].phase = "parents" => cs[i].todo \subseteq Parents(cs[i].node)
  BY <1>1, <1>2, <1>4, <1>5 DEF StackInv, StackOf
<1>11. \A i, j \in DOMAIN cs : i < j /\ Complete(cs[i].node) => result[cs[j].node] # NoResult
  BY <1>1, <1>2, <1>3 DEF StackInv, StackOf
<1>12. cs # <<>> /\ chosen # 0 => cs[1].node = chosen
  BY <1>1, <1>2, <1>3 DEF StackInv, StackOf, k
<1> QED BY <1>2, <1>6, <1>7, <1>8, <1>9, <1>10, <1>11, <1>12 DEF StackOf

\* Recursing into a parent.
LEMMA Recursed ==
  ASSUME GraphTyped, FramesTyped, ResultsInv, StackInv, calls \in Seq(Activations), calls # <<>>,
         GraphIntact, Top.phase = "parents", NEW p \in Top.todo, NEW f \in Activations, f.node = p, f.phase = "enter",
         NEW cs, cs = Append([calls EXCEPT ![Len(calls)].todo = @ \ {p}], f)
  PROVE  StackOf(cs, est)
<1> DEFINE k == Len(calls)
           top == [Top EXCEPT !.todo = @ \ {p}]
           mid == [calls EXCEPT ![Len(calls)] = top]
<1>1. k \in Nat \ {0} /\ DOMAIN calls = 1 .. k /\ Top = calls[k] /\ Top \in Activations
  BY StackShape, PopType
<1>2. /\ top \in Activations /\ top.node = Top.node /\ top.phase = "parents" /\ top.todo = Top.todo \ {p}
  BY <1>1 DEF Activations
<1>3. cs = Append(mid, f)
  BY DEF Top
<1> HIDE DEF top
<1>4. /\ mid \in Seq(Activations) /\ Len(mid) = k /\ mid[k] = top
      /\ \A i \in 1 .. k : i # k => mid[i] = calls[i]
  BY <1>2, TopReplaced
<1> HIDE DEF mid, k
<1>5. /\ Len(cs) = k + 1 /\ DOMAIN cs = 1 .. k + 1 /\ cs[k] = top /\ cs[k + 1] = f /\ cs # <<>>
      /\ \A i \in 1 .. k : i # k => cs[i] = calls[i]
  <2>1. /\ DOMAIN cs = 1 .. Len(mid) + 1 /\ Len(cs) = Len(mid) + 1 /\ cs[Len(mid) + 1] = f /\ cs # <<>>
        /\ \A i \in 1 .. Len(mid) : cs[i] = mid[i]
    BY <1>3, <1>4, OneAppended
  <2>2. k \in 1 .. k
    BY <1>1
  <2> QED BY <1>4, <2>1, <2>2
<1>6. \A i \in 1 .. k : /\ cs[i].node = calls[i].node /\ cs[i].phase = "parents" /\ calls[i].phase = "parents"
                       /\ calls[i].node \in Live /\ calls[i].todo \subseteq Parents(calls[i].node)
                       /\ i \in DOMAIN calls
  <2> SUFFICES ASSUME NEW i \in 1 .. k
               PROVE  /\ cs[i].node = calls[i].node /\ cs[i].phase = "parents" /\ calls[i].phase = "parents"
                      /\ calls[i].node \in Live /\ calls[i].todo \subseteq Parents(calls[i].node)
                      /\ i \in DOMAIN calls
    OBVIOUS
  <2>1. CASE i = k
    BY <1>1, <1>2, <1>5, <2>1 DEF StackInv, StackOf
  <2>2. CASE i # k
    <3>1. i < k /\ cs[i] = calls[i] /\ i \in DOMAIN calls
      BY <1>1, <1>5, <2>2
    <3> QED BY <3>1 DEF StackInv, StackOf, k
  <2> QED BY <2>1, <2>2
<1>7. p \in Parents(calls[k].node) /\ k \in 1 .. k /\ p \in Live
  <2>1. p \in Parents(calls[k].node) /\ k \in 1 .. k
    BY <1>1, <1>6
  <2>2. p \in Live
    BY <2>1 DEF Parents, Into, GraphIntact
  <2> QED BY <2>1, <2>2
<1>8. ASSUME NEW i \in 1 .. k, i < k
      PROVE  i + 1 \in 1 .. k /\ cs[i + 1].node = calls[i + 1].node /\ calls[i + 1].node \in Parents(calls[i].node)
  <2>1. i + 1 \in 1 .. k
    BY <1>1, <1>8
  <2>2. calls[i + 1].node \in Parents(calls[i].node)
    BY <1>6, <1>8 DEF StackInv, StackOf, k
  <2> QED BY <1>6, <2>1, <2>2
<1>9. \A i \in 1 .. k + 1 : i = k + 1 \/ i \in 1 .. k
  BY <1>1
<1>10. \A i \in 1 .. k : i = k \/ i < k
  BY <1>1
<1>11. \A i \in DOMAIN cs : cs[i].node \in Live
  BY <1>5, <1>6, <1>7, <1>9
<1>12. ASSUME NEW i \in DOMAIN cs, i < Len(cs)
       PROVE  cs[i].phase = "parents" /\ cs[i + 1].node \in Parents(cs[i].node)
  <2>1. i \in 1 .. k
    BY <1>1, <1>5, <1>12
  <2>2. CASE i = k
    <3>1. i + 1 = k + 1
      BY <2>2
    <3> QED BY <1>5, <1>6, <1>7, <2>1, <2>2, <3>1
  <2>3. CASE i < k
    BY <1>6, <1>8, <2>1, <2>3
  <2> QED BY <1>10, <2>1, <2>2, <2>3
<1>13. \A i \in DOMAIN cs : cs[i].phase = "run" => Fed(est, cs[i].node)
  BY <1>5, <1>6, <1>9
<1>14. \A i \in DOMAIN cs : cs[i].phase = "parents" => cs[i].todo \subseteq Parents(cs[i].node)
  BY <1>1, <1>2, <1>5, <1>6, <1>9
<1>15. ASSUME NEW i \in DOMAIN cs, cs[i].phase = "parents", Complete(cs[i].node)
       PROVE  Settled(cs, est, i)
  <2>1. i \in 1 .. k
    BY <1>5, <1>9, <1>15
  <2>2. Settled(calls, est, i)
    BY <1>6, <1>15, <2>1 DEF StackInv, StackOf
  <2>3. CASE i = k
    <3>1. i < Len(cs) /\ cs[i + 1].node = p /\ cs[i].todo = calls[i].todo \ {p} /\ cs[i].node = calls[i].node
      <4>1. i + 1 = k + 1 /\ k < k + 1
        BY <1>1, <2>3
      <4> QED BY <1>1, <1>2, <1>5, <2>3, <4>1
    <3>2. ~(i < Len(calls))
      BY <1>1, <2>3 DEF k
    <3> QED BY <2>2, <3>1, <3>2 DEF Settled
  <2>4. CASE i < k
    <3>1. cs[i] = calls[i]
      BY <1>5, <2>1, <2>4, <1>1
    <3>2. i < Len(cs) /\ cs[i + 1].node = calls[i + 1].node
      BY <1>1, <1>5, <1>8, <2>1, <2>4
    <3> QED BY <2>2, <3>1, <3>2 DEF Settled
  <2> QED BY <1>10, <2>1, <2>3, <2>4
<1>16. ASSUME NEW i \in DOMAIN cs, NEW j \in DOMAIN cs, i < j, Complete(cs[i].node)
       PROVE  result[cs[j].node] # NoResult
  <2>1. i \in 1 .. k /\ Complete(calls[i].node)
    BY <1>1, <1>5, <1>6, <1>9, <1>16
  <2>2. CASE j \in 1 .. k
    BY <1>6, <1>16, <2>1, <2>2 DEF StackInv, StackOf
  <2>3. CASE j = k + 1
    <3>1. Complete(calls[k].node)
      <4>1. CASE i = k
        BY <2>1, <4>1
      <4>2. CASE i < k
        <5>1. result[calls[k].node] # NoResult
          BY <1>6, <1>7, <2>1, <4>2 DEF StackInv, StackOf
        <5>2. calls[k].node \in NodeId
          BY <1>6, <1>7, LiveType
        <5> QED BY <5>1, <5>2 DEF ResultsInv
      <4> QED BY <1>10, <2>1, <4>1, <4>2
    <3> QED BY <1>5, <1>7, <2>3, <3>1 DEF Complete
  <2> QED BY <1>5, <1>9, <2>2, <2>3
<1>17. cs # <<>> /\ chosen # 0 => cs[1].node = chosen
  <2>1. 1 \in 1 .. k /\ calls # <<>>
    BY <1>1
  <2> QED BY <1>6, <2>1 DEF StackInv, StackOf
<1> QED BY <1>11, <1>12, <1>13, <1>14, <1>15, <1>16, <1>17 DEF StackOf

\* The parts of the invariant that every step of the estimation relies on.
LEMMA TruthParts ==
  ASSUME TruthInv
  PROVE  /\ GraphTyped /\ FramesTyped /\ GraphIntact /\ HandedOut /\ ResultsInv /\ EstimatesInv /\ StackInv /\ ChosenReady
         /\ EngineInv /\ calls \in Seq(Activations) /\ job \in Jobs /\ chosen \in {0} \cup NodeId
         /\ step \in 1 .. 14 /\ (step = 14 <=> Program[step] = "execute")
         /\ chosen # 0 => result[chosen] = NoResult
<1>1. EngineInv /\ GraphInv /\ SizesInv /\ OwnershipInv
  BY DEF TruthInv, OwnershipInv
<1>2. /\ GraphTyped /\ FramesTyped /\ calls \in Seq(Activations) /\ job \in Jobs /\ chosen \in {0} \cup NodeId
      /\ step \in DOMAIN Program
  BY <1>1 DEF EngineInv, TypeOK, LoopTyped, ControlInv
<1>3. step \in 1 .. 14 /\ (step = 14 <=> Program[step] = "execute")
  BY <1>2, ProgramShape
<1>4. chosen # 0 => result[chosen] = NoResult
  <2> SUFFICES ASSUME chosen # 0 PROVE result[chosen] = NoResult
    OBVIOUS
  <2>1. CASE Program[step] = "execute"
    BY <1>1, <2>1 DEF OwnershipInv, ChosenUnexecuted
  <2>2. CASE Program[step] = "flatten" /\ weight[chosen].def \in CanExpand
    <3>1. weight[chosen].def \notin CanExecute
      BY <2>2 DEF CanExpand, CanExecute, OneInputExpand, Protected, Inner, OneInputOneCanvas, MutateBitmap
    <3> QED BY <1>1, <1>2, <3>1 DEF SizesInv, ResultsInv
  <2> QED BY <1>1, <2>1, <2>2 DEF EngineInv, ControlInv
<1> QED BY <1>1, <1>2, <1>3, <1>4 DEF GraphInv, SizesInv

\* What a step of the estimation has to leave as it is.
LEMMA EstimateKeeps ==
  ASSUME TruthInv, SameGraph, UNCHANGED <<bitmap, chosen, step>>, CodecsKept, StackOf(calls', est'),
         \A n \in NodeId : n >= nextNode => est'[n].k # "Some",
         NEW truth \in [NodeId -> Estimates], Truthful(truth),
         \A n \in NodeId : Sized(n) => est'[n] \in {Unknown, truth[n]},
         \A n \in NodeId : result[n] = NoResult /\ est'[n].k = "Some" =>
            \A p \in Parents(n) : Sized(p) => est'[p].k = "Some",
         chosen # 0 /\ Program[step] = "flatten" /\ calls' = <<>> => Fed(est', chosen)
  PROVE  SizesInv'
<1>0. GraphTyped /\ FramesTyped /\ ResultsInv /\ ChosenReady
  BY TruthParts
<1>1. ResultsInv'
  BY <1>0, ResultsKept
<1>2. EstimatesInv'
  <2>1. \A n : Parents(n)' = Parents(n) /\ Sized(n)' = Sized(n)
    BY GraphFrame
  <2>2. result' = result
    BY DEF SameGraph
  <2> SUFFICES ASSUME NEW n \in NodeId, result[n] = NoResult, est'[n].k = "Some", NEW p \in Parents(n), Sized(p)
               PROVE  est'[p].k = "Some"
    BY <2>1, <2>2 DEF EstimatesInv
  <2> QED OBVIOUS
<1>3. StackInv'
  BY SameStack
<1>4. ChosenReady'
  <2>1. Parents(chosen)' = Parents(chosen) /\ Complete(chosen)' = Complete(chosen)
    BY DEF SameGraph, Parents, Into, Complete
  <2>2. InputsEstimated(chosen)' <=> Fed(est', chosen)
    BY <2>1 DEF InputsEstimated, Fed
  <2> QED BY <1>0, <2>1, <2>2 DEF ChosenReady
<1>5. Truthful(truth)'
  BY <1>0, TruthKept
<1> QED BY <1>1, <1>2, <1>3, <1>4, <1>5 DEF SizesInv

\* A node that has run never is found impossible; it had all estimates of its parents.
LEMMA RunIsNotImpossible ==
  ASSUME TruthInv, calls # <<>>, Sized(Top.node) \/ Complete(Top.node)
  PROVE  /\ Top.node \in Live /\ Complete(Top.node)
         /\ ~GiveUp(Top.node)
         /\ Top.phase = "parents" /\ Top.todo = {} => InputsEstimated(Top.node)
<1>0. GraphTyped /\ FramesTyped /\ ResultsInv /\ StackInv /\ calls \in Seq(Activations)
  BY TruthParts
<1> DEFINE n == Top.node
           k == Len(calls)
<1>1. k \in DOMAIN calls /\ Top = calls[k] /\ ~(k < Len(calls))
  BY <1>0, StackShape
<1>2. n \in Live /\ n \in NodeId
  BY <1>0, <1>1, LiveType DEF StackInv, StackOf
<1>3. Complete(n)
  BY <1>0, <1>2, SizedExecuted
<1>4. PICK truth \in [NodeId -> Estimates] : Truthful(truth)
  BY DEF TruthInv, SizesInv
<1>5. ~GiveUp(n)
  <2> SUFFICES ASSUME NEW p \in Parents(n), est[p].k = "Impossible" PROVE FALSE
    BY DEF GiveUp
  <2>1. p \in NodeId /\ Sized(p)
    BY <1>0, <1>3, CompleteSized
  <2> QED BY <1>4, <2>1, KnownIsSome DEF Truthful
<1>6. Top.phase = "parents" /\ Top.todo = {} => InputsEstimated(n)
  BY <1>0, <1>1, <1>3 DEF StackInv, StackOf, Settled, InputsEstimated
<1> QED BY <1>2, <1>3, <1>5, <1>6

\* A step of the estimation that changes no estimate, or finds a node impossible that
\* waits for results.
LEMMA EstimateStays ==
  ASSUME TruthInv, calls # <<>>, SameGraph, UNCHANGED <<bitmap, chosen, step, codec>>, StackOf(calls', est'),
         est' = est \/ (SetImpossible(Top.node) /\ ~Complete(Top.node)),
         chosen # 0 /\ Program[step] = "flatten" /\ calls' = <<>> => Fed(est', chosen)
  PROVE  SizesInv'
<1>0. /\ GraphTyped /\ FramesTyped /\ ResultsInv /\ EstimatesInv /\ StackInv /\ HandedOut
      /\ calls \in Seq(Activations) /\ est \in [NodeId -> Estimates]
  BY TruthParts DEF FramesTyped
<1>1. PICK truth \in [NodeId -> Estimates] : Truthful(truth)
  BY DEF TruthInv, SizesInv
<1>2. CodecsKept
  BY DEF CodecsKept
<1>3. CASE est' = est
  <2>1. \A n \in NodeId : n >= nextNode => est'[n].k # "Some"
    BY <1>0, <1>3 DEF ResultsInv
  <2>2. \A n \in NodeId : Sized(n) => est'[n] \in {Unknown, truth[n]}
    BY <1>1, <1>3 DEF Truthful
  <2>3. \A n \in NodeId : result[n] = NoResult /\ est'[n].k = "Some" =>
           \A p \in Parents(n) : Sized(p) => est'[p].k = "Some"
    BY <1>0, <1>3 DEF EstimatesInv
  <2> QED BY <1>1, <1>2, <2>1, <2>2, <2>3, EstimateKeeps
<1>4. CASE SetImpossible(Top.node) /\ ~Complete(Top.node)
  <2> DEFINE m == Top.node
  <2>1. m \in NodeId
    BY <1>0, StackShape DEF Activations
  <2>2. est'[m] = Impossible /\ (\A n \in NodeId : n # m => est'[n] = est[n])
    BY <1>0, <1>4, <2>1 DEF SetImpossible
  <2>3. Impossible.k # "Some"
    BY KnownIsSome
  <2>4. ~Sized(m)
    BY <1>0, <1>4, <2>1, SizedExecuted
  <2>5. \A n \in NodeId : n >= nextNode => est'[n].k # "Some"
    BY <1>0, <2>2, <2>3 DEF ResultsInv
  <2>6. \A n \in NodeId : Sized(n) => est'[n] \in {Unknown, truth[n]}
    BY <1>1, <2>2, <2>4 DEF Truthful
  <2>7. ASSUME NEW n \in NodeId, result[n] = NoResult, est'[n].k = "Some", NEW p \in Parents(n), Sized(p)
        PROVE  est'[p].k = "Some"
    <3>1. n # m /\ est[n].k = "Some" /\ p # m /\ p \in NodeId
      BY <1>0, <2>2, <2>3, <2>4, <2>7, ParentType
    <3> QED BY <1>0, <2>2, <2>7, <3>1 DEF EstimatesInv
  <2> QED BY <1>1, <1>2, <2>5, <2>6, <2>7, EstimateKeeps
<1> QED BY <1>3, <1>4

\* A sequence without its last element.
LEMMA OneLess ==
  ASSUME NEW S, NEW s \in Seq(S), s # <<>>, NEW t, t = SubSeq(s, 1, Len(s) - 1)
  PROVE  Len(t) = Len(s) - 1 /\ DOMAIN t = 1 .. Len(s) - 1 /\ \A i \in 1 .. Len(s) - 1 : t[i] = s[i]
<1>1. Len(s) \in Nat \ {0} /\ DOMAIN s = 1 .. Len(s)
  BY SequenceElements
<1>2. Len(t) = Len(s) - 1
  BY <1>1
<1>3. DOMAIN t = 1 .. Len(s) - 1
  BY <1>1
<1>4. \A i \in 1 .. Len(s) - 1 : t[i] = s[i]
  BY <1>1
<1> QED BY <1>2, <1>3, <1>4

\* When the estimation returns to the engine, it was for the chosen node.
LEMMA LastReturn ==
  ASSUME TruthInv, calls # <<>>, chosen # 0, Return, calls' = <<>>
  PROVE  Top.node = chosen /\ Complete(chosen)
<1>0. calls \in Seq(Activations) /\ StackInv /\ ChosenReady
  BY TruthParts
<1>1. Len(calls) = 1
  <2>1. Len(calls) \in Nat \ {0}
    BY <1>0, StackShape
  <2>2. PICK cs : cs = SubSeq(calls, 1, Len(calls) - 1)
    OBVIOUS
  <2>3. Len(cs) = Len(calls) - 1
    BY <1>0, <2>2, OneLess
  <2>4. cs = <<>>
    BY <2>2 DEF Return
  <2>5. Len(cs) = 0
    BY <2>4
  <2> QED BY <2>1, <2>3, <2>5
<1> QED BY <1>0, <1>1 DEF Top, StackInv, StackOf, ChosenReady

\* Entering, and returning if there is an estimate or none is to be had.
LEMMA EnterKeeps ==
  ASSUME TruthInv, EstimateEnter
  PROVE  SizesInv'
<1> DEFINE m == Top.node
<1>0. /\ GraphTyped /\ FramesTyped /\ ResultsInv /\ EstimatesInv /\ StackInv /\ EngineInv
      /\ calls \in Seq(Activations) /\ est \in [NodeId -> Estimates]
      /\ chosen # 0 => result[chosen] = NoResult
  BY TruthParts DEF FramesTyped
<1>1. Estimating /\ calls # <<>> /\ SameGraph /\ UNCHANGED <<bitmap, chosen, step, codec>>
  BY DEF EstimateEnter, Estimating, estimateFrame, graphVars, dataVars, loopVars, SameGraph
<1>2. Top \in Activations /\ Top.limit \in Int /\ m \in NodeId
  BY <1>0, <1>1, TopTyped, BoundsAssumption DEF Activations
<1>3. CASE Top.limit < 0
  <2>1. est' = est /\ calls' = calls
    BY <1>2, <1>3 DEF EstimateEnter
  <2>2. StackOf(calls', est')
    BY <1>0, <2>1 DEF StackInv
  <2> QED BY <1>1, <2>1, <2>2, EstimateStays
<1>4. CASE Top.limit >= 0 /\ est[m].k = "Some"
  <2>1. Return /\ est' = est
    BY <1>2, <1>4 DEF EstimateEnter
  <2>2. StackOf(calls', est')
    <3>1. calls' = SubSeq(calls, 1, Len(calls) - 1)
      BY <2>1 DEF Return
    <3> QED BY <1>0, <1>1, <1>4, <2>1, <3>1, Returned
  <2>3. ASSUME chosen # 0, calls' = <<>>
        PROVE  Fed(est', chosen)
    <3>1. chosen = m /\ Complete(chosen)
      BY <1>1, <2>1, <2>3, LastReturn
    <3> QED BY <1>0, <1>2, <1>4, <2>1, <2>3, <3>1, CompleteSized DEF Fed, EstimatesInv
  <2> QED BY <1>1, <2>1, <2>2, <2>3, EstimateStays
<1>5. CASE Top.limit >= 0 /\ est[m].k # "Some" /\ InputsEstimated(m)
  <2> DEFINE f == [Top EXCEPT !.phase = "run"]
  <2>1. Become(f) /\ est' = est
    BY <1>2, <1>5 DEF EstimateEnter, InputsEstimated, GiveUp
  <2>2. f \in Activations /\ f.node = m /\ f.phase = "run"
    BY <1>2, <1>5 DEF Activations
  <2>3. Fed(est, m)
    BY <1>5 DEF Fed, InputsEstimated
  <2>4. calls' = [calls EXCEPT ![Len(calls)] = f]
    BY <2>1 DEF Become
  <2> HIDE DEF f
  <2>5. StackOf(calls', est')
    BY <1>0, <1>1, <2>1, <2>2, <2>3, <2>4, MovedOn
  <2>6. calls' # <<>>
    BY <1>0, <1>1, <2>2, <2>4, TopReplaced
  <2> QED BY <1>1, <2>1, <2>5, <2>6, EstimateStays
<1>6. CASE Top.limit >= 0 /\ est[m].k # "Some" /\ ~InputsEstimated(m) /\ GiveUp(m)
  <2>1. Return /\ SetImpossible(m)
    BY <1>2, <1>6 DEF EstimateEnter
  <2>2. ~Sized(m) /\ ~Complete(m)
    BY <1>1, <1>6, RunIsNotImpossible
  <2>3. StackOf(calls', est')
    <3>1. calls' = SubSeq(calls, 1, Len(calls) - 1)
      BY <2>1 DEF Return
    <3>2. \A n \in NodeId : n # m /\ est[n].k = "Some" => est'[n].k = "Some"
      BY <1>0, <2>1 DEF SetImpossible
    <3> QED BY <1>0, <1>1, <2>2, <3>1, <3>2, Returned
  <2>4. ~(chosen # 0 /\ calls' = <<>>)
    BY <1>1, <2>1, <2>2, LastReturn
  <2> QED BY <1>1, <2>1, <2>2, <2>3, <2>4, EstimateStays
<1>7. CASE Top.limit >= 0 /\ est[m].k # "Some" /\ ~InputsEstimated(m) /\ ~GiveUp(m)
  <2> DEFINE f == [Top EXCEPT !.phase = "parents", !.todo = Parents(m)]
  <2>1. Become(f) /\ est' = est
    BY <1>2, <1>7 DEF EstimateEnter
  <2>2. f \in Activations /\ f.node = m /\ f.phase = "parents" /\ f.todo = Parents(m)
    <3>1. Parents(m) \subseteq NodeId
      BY <1>0, ParentType
    <3> QED BY <1>2, <1>7, <3>1 DEF Activations
  <2>4. calls' = [calls EXCEPT ![Len(calls)] = f]
    BY <2>1 DEF Become
  <2> HIDE DEF f
  <2>5. StackOf(calls', est')
    BY <1>0, <1>1, <2>1, <2>2, <2>4, MovedOn
  <2>6. calls' # <<>>
    BY <1>0, <1>1, <2>2, <2>4, TopReplaced
  <2> QED BY <1>1, <2>1, <2>5, <2>6, EstimateStays
<1> QED BY <1>2, <1>3, <1>4, <1>5, <1>6, <1>7

\* Recursing into a parent.
LEMMA ParentKeeps ==
  ASSUME TruthInv, EstimateParent
  PROVE  SizesInv'
<1>0. /\ GraphTyped /\ FramesTyped /\ ResultsInv /\ StackInv /\ EngineInv /\ GraphIntact
      /\ calls \in Seq(Activations)
  BY TruthParts
<1>1. /\ Estimating /\ calls # <<>> /\ SameGraph /\ UNCHANGED <<bitmap, chosen, step, codec, est>>
      /\ Top.phase = "parents"
  BY DEF EstimateParent, Estimating, estimateFrame, graphVars, dataVars, loopVars, SameGraph
<1>2. PICK p \in Top.todo : calls' = Append([calls EXCEPT ![Len(calls)].todo = @ \ {p}], Call(p, Top.limit - 1))
  BY DEF EstimateParent
<1>3. Call(p, Top.limit - 1) \in Activations
  <2>1. Top \in Activations /\ Top.limit \in 0 .. RecursionLimit /\ p \in NodeId
    BY <1>0, <1>1, TopTyped, BoundsAssumption DEF Activations
  <2>2. Top.limit - 1 \in -1 .. RecursionLimit
    BY <2>1, BoundsAssumption
  <2> QED BY <2>1, <2>2, CallType
<1>4. Call(p, Top.limit - 1).node = p /\ Call(p, Top.limit - 1).phase = "enter"
  BY DEF Call
<1>5. StackOf(calls', est')
  BY <1>0, <1>1, <1>2, <1>3, <1>4, Recursed
<1>6. calls' # <<>>
  <2>1. [calls EXCEPT ![Len(calls)].todo = @ \ {p}] \in Seq(Activations)
    <3>1. [Top EXCEPT !.todo = @ \ {p}] \in Activations
      BY <1>0, <1>1, TopTyped DEF Activations
    <3>2. [calls EXCEPT ![Len(calls)].todo = @ \ {p}] = [calls EXCEPT ![Len(calls)] = [Top EXCEPT !.todo = @ \ {p}]]
      BY DEF Top
    <3> QED BY <1>0, <1>1, <3>1, <3>2, ReplaceTopType
  <2> QED BY <1>2, <1>3, <2>1, OneAppended
<1> QED BY <1>1, <1>5, <1>6, EstimateStays

\* Going on when all parents have been asked.
LEMMA ResumeKeeps ==
  ASSUME TruthInv, EstimateResume
  PROVE  SizesInv'
<1> DEFINE m == Top.node
<1>0. /\ GraphTyped /\ FramesTyped /\ ResultsInv /\ StackInv /\ EngineInv
      /\ calls \in Seq(Activations) /\ est \in [NodeId -> Estimates]
  BY TruthParts DEF FramesTyped
<1>1. /\ Estimating /\ calls # <<>> /\ SameGraph /\ UNCHANGED <<bitmap, chosen, step, codec>>
      /\ Top.phase = "parents" /\ Top.todo = {}
  BY DEF EstimateResume, Estimating, estimateFrame, graphVars, dataVars, loopVars, SameGraph
<1>2. CASE InputsEstimated(m)
  <2> DEFINE f == [Top EXCEPT !.phase = "run"]
  <2>1. Become(f) /\ est' = est
    BY <1>2 DEF EstimateResume
  <2>2. f \in Activations /\ f.node = m /\ f.phase = "run"
    BY <1>0, <1>1, TopTyped DEF Activations
  <2>3. Fed(est, m)
    BY <1>2 DEF Fed, InputsEstimated
  <2>4. calls' = [calls EXCEPT ![Len(calls)] = f]
    BY <2>1 DEF Become
  <2> HIDE DEF f
  <2>5. StackOf(calls', est')
    BY <1>0, <1>1, <2>1, <2>2, <2>3, <2>4, MovedOn
  <2>6. calls' # <<>>
    BY <1>0, <1>1, <2>2, <2>4, TopReplaced
  <2> QED BY <1>1, <2>1, <2>5, <2>6, EstimateStays
<1>3. CASE ~InputsEstimated(m)
  <2>1. Return /\ SetImpossible(m)
    BY <1>3 DEF EstimateResume
  <2>2. ~Sized(m) /\ ~Complete(m)
    BY <1>1, <1>3, RunIsNotImpossible
  <2>3. StackOf(calls', est')
    <3>1. calls' = SubSeq(calls, 1, Len(calls) - 1)
      BY <2>1 DEF Return
    <3>2. \A n \in NodeId : n # m /\ est[n].k = "Some" => est'[n].k = "Some"
      BY <1>0, <2>1 DEF SetImpossible
    <3> QED BY <1>0, <1>1, <2>2, <3>1, <3>2, Returned
  <2>4. ~(chosen # 0 /\ calls' = <<>>)
    BY <1>1, <2>1, <2>2, LastReturn
  <2> QED BY <1>1, <2>1, <2>2, <2>3, <2>4, EstimateStays
<1> QED BY <1>2, <1>3

\* Decoders that have decoded keep their size, whatever is estimated.
LEMMA EstimateKeepsCodecs ==
  ASSUME codec \in [IoId -> CodecStates], NEW n, codec' = CodecsAfterEstimate(n)
  PROVE  CodecsKept
<1> DEFINE d == weight[n].def
           io == IoOf(n)
           hint == DecodeHint(ParentEst(n).w, ParentEst(n).h, weight[n].p.a[1])
<1>1. CASE d \in Decoders
  <2>1. codec' = [codec EXCEPT ![io] = Informed(job.io[io], @)]
    BY <1>1 DEF CodecsAfterEstimate
  <2>2. ASSUME NEW i \in IoId, codec[i].read > 0
        PROVE  codec'[i].read > 0 /\ codec'[i].w = codec[i].w /\ codec'[i].h = codec[i].h
    <3>1. codec[i] \in CodecStates
      OBVIOUS
    <3>2. codec'[i] = codec[i] \/ codec'[i] = Informed(job.io[i], codec[i])
      BY <2>1
    <3> QED BY <2>2, <3>1, <3>2, CodecSettles
  <2> QED BY <2>2 DEF CodecsKept
<1>2. CASE d \notin Decoders /\ d = "expanding_command_string" /\ ~SecondThoughts(n) /\ hint # <<>>
  <2>1. codec' = [i \in IoId |-> IF i \in DecoderIos(n) THEN Told(job.io[i], codec[i], hint) ELSE codec[i]]
    BY <1>2 DEF CodecsAfterEstimate
  <2> HIDE DEF hint
  <2>2. ASSUME NEW i \in IoId, codec[i].read > 0
        PROVE  codec'[i].read > 0 /\ codec'[i].w = codec[i].w /\ codec'[i].h = codec[i].h
    <3>1. codec[i] \in CodecStates
      OBVIOUS
    <3>2. codec'[i] = codec[i] \/ codec'[i] = Told(job.io[i], codec[i], hint)
      BY <2>1
    <3> QED BY <2>2, <3>1, <3>2, CodecSettles
  <2> QED BY <2>2 DEF CodecsKept
<1>3. CASE d \notin Decoders /\ ~(d = "expanding_command_string" /\ ~SecondThoughts(n) /\ hint # <<>>)
  <2>1. codec' = codec
    BY <1>3 DEF CodecsAfterEstimate
  <2> QED BY <2>1 DEF CodecsKept
<1> QED BY <1>1, <1>2, <1>3

\* The innermost node is estimated from its parents' estimates.
LEMMA RunsFed ==
  ASSUME TruthInv, EstimateRun
  PROVE  /\ Estimating /\ calls # <<>> /\ SameGraph /\ UNCHANGED <<bitmap, chosen, step>> /\ Top.phase = "run"
         /\ Top.node \in NodeId /\ Top.node < nextNode /\ InputsEstimated(Top.node)
<1>0. /\ GraphTyped /\ FramesTyped /\ ResultsInv /\ StackInv /\ EngineInv /\ HandedOut
      /\ calls \in Seq(Activations)
  BY TruthParts
<1>1. Estimating /\ calls # <<>> /\ SameGraph /\ UNCHANGED <<bitmap, chosen, step>> /\ Top.phase = "run"
  BY DEF EstimateRun, Estimating, estimateFrame, graphVars, dataVars, loopVars, SameGraph
<1>2. Len(calls) \in DOMAIN calls /\ Top = calls[Len(calls)]
  BY <1>0, <1>1, StackShape
<1>3. Top.node \in Live /\ Fed(est, Top.node)
  BY <1>0, <1>1, <1>2 DEF StackInv, StackOf
<1> QED BY <1>0, <1>1, <1>3, LiveType DEF HandedOut, Fed, InputsEstimated

\* Estimating a node.
LEMMA RunKeeps ==
  ASSUME TruthInv, EstimateRun
  PROVE  SizesInv'
<1> DEFINE n == Top.node
<1>0. /\ GraphTyped /\ FramesTyped /\ ResultsInv /\ EstimatesInv /\ StackInv /\ EngineInv
      /\ calls \in Seq(Activations) /\ est \in [NodeId -> Estimates] /\ codec \in [IoId -> CodecStates]
      /\ chosen # 0 => result[chosen] = NoResult
  BY TruthParts DEF FramesTyped
<1>1. /\ Estimating /\ calls # <<>> /\ SameGraph /\ UNCHANGED <<bitmap, chosen, step>> /\ Top.phase = "run"
      /\ n \in NodeId /\ n < nextNode /\ InputsEstimated(n)
  BY RunsFed
<1>2. PICK truth \in [NodeId -> Estimates] : Truthful(truth)
  BY DEF TruthInv, SizesInv
<1>3. CASE EstimateFails(n)
  <2>1. UNCHANGED <<est, calls, codec>>
    BY <1>3 DEF EstimateRun
  <2>2. StackOf(calls', est')
    BY <1>0, <2>1 DEF StackInv
  <2> QED BY <1>1, <2>1, <2>2, EstimateStays
<1>4. CASE ~EstimateFails(n)
  <2>1. CodecsKept
    <3>1. codec' = CodecsAfterEstimate(n)
      BY <1>4 DEF EstimateRun
    <3> QED BY <1>0, <3>1, EstimateKeepsCodecs
  <2>2. CASE UNCHANGED <<est, calls>>
    <3>1. StackOf(calls', est')
      BY <1>0, <2>2 DEF StackInv
    <3>2. \A m \in NodeId : m >= nextNode => est'[m].k # "Some"
      BY <1>0, <2>2 DEF ResultsInv
    <3>3. \A m \in NodeId : Sized(m) => est'[m] \in {Unknown, truth[m]}
      BY <1>2, <2>2 DEF Truthful
    <3>4. \A m \in NodeId : result[m] = NoResult /\ est'[m].k = "Some" =>
             \A p \in Parents(m) : Sized(p) => est'[p].k = "Some"
      BY <1>0, <2>2 DEF EstimatesInv
    <3> QED BY <1>1, <1>2, <2>1, <2>2, <3>1, <3>2, <3>3, <3>4, EstimateKeeps
  <2>3. CASE /\ Estimated(n) = Invalidate /\ est' = [m \in NodeId |-> IF m = n THEN Invalidate ELSE Unknown]
             /\ Become(Call(n, Top.limit - 1))
    <3> DEFINE f == Call(n, Top.limit - 1)
    <3>1. weight[n].def = "expanding_command_string"
      BY <1>0, <1>1, <1>4, <2>3, WhoInvalidates
    <3>2. result[n] = NoResult
      <4>1. weight[n].def \notin CanExecute
        BY <3>1 DEF CanExecute, OneInputOneCanvas, MutateBitmap
      <4> QED BY <1>0, <1>1, <4>1 DEF ResultsInv
    <3>3. f \in Activations /\ f.node = n /\ f.phase = "enter"
      BY <1>0, <1>1, TopTyped DEF Call
    <3>4. calls' = [calls EXCEPT ![Len(calls)] = f]
      BY <2>3 DEF Become
    <3> HIDE DEF f
    <3>5. StackOf(calls', est')
      BY <1>0, <1>1, <3>2, <3>3, <3>4, MovedOn
    <3>6. calls' # <<>>
      BY <1>0, <1>1, <3>3, <3>4, TopReplaced
    <3>7. \A m \in NodeId : est'[m].k # "Some" /\ (m # n => est'[m] = Unknown)
      BY <2>3, KnownIsSome
    <3>8. ~Sized(n)
      BY <3>2 DEF Sized, NoResult
    <3>9. \A m \in NodeId : Sized(m) => est'[m] \in {Unknown, truth[m]}
      BY <3>7, <3>8
    <3> QED BY <1>1, <1>2, <2>1, <3>5, <3>6, <3>7, <3>9, EstimateKeeps
  <2>4. CASE est' = [est EXCEPT ![n] = Estimated(n)] /\ Return
    <3>0. est'[n] = Estimated(n) /\ \A m \in NodeId : m # n => est'[m] = est[m]
      BY <1>0, <1>1, <2>4
    <3>1. Sized(n) => est'[n] = truth[n] /\ est'[n].k = "Some"
      <4> SUFFICES ASSUME Sized(n) PROVE est'[n] = truth[n] /\ est'[n].k = "Some"
        OBVIOUS
      <4>1. Estimated(n) = truth[n]
        BY <1>0, <1>1, <1>2, <1>4, EstimateIsTrue
      <4> QED BY <1>1, <1>2, <3>0, <4>1 DEF Truthful
    <3>2. StackOf(calls', est')
      <4>1. calls' = SubSeq(calls, 1, Len(calls) - 1)
        BY <2>4 DEF Return
      <4>2. \A m \in NodeId : m # n /\ est[m].k = "Some" => est'[m].k = "Some"
        BY <3>0
      <4> QED BY <1>0, <1>1, <3>1, <4>1, <4>2, Returned
    <3>3. \A m \in NodeId : m >= nextNode => est'[m].k # "Some"
      <4>1. \A m \in NodeId : m >= nextNode => m # n
        BY <1>0, <1>1 DEF NodeId, GraphTyped
      <4> QED BY <1>0, <3>0, <4>1 DEF ResultsInv
    <3>4. \A m \in NodeId : Sized(m) => est'[m] \in {Unknown, truth[m]}
      BY <1>2, <3>0, <3>1 DEF Truthful
    <3>5. ASSUME NEW m \in NodeId, result[m] = NoResult, est'[m].k = "Some", NEW p \in Parents(m), Sized(p)
          PROVE  est'[p].k = "Some"
      <4>1. p \in NodeId
        BY <1>0, ParentType
      <4>2. CASE m = n
        BY <1>1, <3>0, <3>5, <4>1, <4>2 DEF InputsEstimated
      <4>3. CASE m # n
        BY <1>0, <3>0, <3>1, <3>5, <4>1, <4>3 DEF EstimatesInv
      <4> QED BY <4>2, <4>3
    <3>6. ASSUME chosen # 0, calls' = <<>>
          PROVE  Fed(est', chosen)
      <4>1. chosen = n /\ Complete(chosen)
        BY <1>1, <2>4, <3>6, LastReturn
      <4> SUFFICES ASSUME NEW p \in Parents(chosen) PROVE est'[p].k = "Some"
        BY DEF Fed
      <4>2. p \in NodeId /\ result[p] # NoResult
        BY <1>0, <4>1, CompleteSized
      <4>3. p # n
        BY <1>0, <3>6, <4>1, <4>2
      <4> QED BY <1>1, <3>0, <4>1, <4>2, <4>3 DEF InputsEstimated
    <3> QED BY <1>1, <1>2, <2>1, <3>2, <3>3, <3>4, <3>5, <3>6, EstimateKeeps
  <2>5. \/ UNCHANGED <<est, calls>>
        \/ /\ Estimated(n) = Invalidate /\ est' = [m \in NodeId |-> IF m = n THEN Invalidate ELSE Unknown]
           /\ Become(Call(n, Top.limit - 1))
        \/ est' = [est EXCEPT ![n] = Estimated(n)] /\ Return
    <3>1. CASE Estimated(n) = Unknown
      BY <1>4, <3>1 DEF EstimateRun
    <3>2. CASE Estimated(n) = Invalidate /\ Estimated(n) # Unknown
      BY <1>4, <3>2 DEF EstimateRun
    <3>3. CASE Estimated(n) # Invalidate /\ Estimated(n) # Unknown
      BY <1>4, <3>3 DEF EstimateRun
    <3> QED BY <3>1, <3>2, <3>3
  <2> QED BY <2>2, <2>3, <2>4, <2>5
<1> QED BY <1>3, <1>4

-----------------------------------------------------------------------------
(* Steps that neither expand nor execute a node.                           *)

\* Steps that leave graph, estimates and bitmaps alone keep all sizes, whatever
\* they choose or call next.
LEMMA SizesStay ==
  ASSUME TruthInv, SameGraph, UNCHANGED <<bitmap, est>>, CodecsKept, StackInv', ChosenReady',
         step' = 14 => \A n \in Live : weight[n].def = "primitive_encoder" => OutOf(n) = {}
  PROVE  SizesInv'
<1>0. GraphTyped /\ FramesTyped /\ ResultsInv /\ EstimatesInv
  BY TruthParts
<1>1. PICK truth \in [NodeId -> Estimates] : Truthful(truth)
  BY DEF TruthInv, SizesInv
<1>2. ResultsInv'
  <2>1. \A n \in NodeId : n >= nextNode' => result'[n] = NoResult /\ est'[n].k # "Some"
    BY <1>0 DEF ResultsInv, SameGraph
  <2>2. \A n \in NodeId : result'[n] # NoResult => Complete(n)' /\ weight'[n].def \in CanExecute
    BY <1>0, GraphFrame DEF ResultsInv, SameGraph
  <2>3. \A n \in NodeId : result'[n] = Encoded => OutOf(n)' = {}
    BY <1>0, GraphFrame DEF ResultsInv, SameGraph
  <2>4. step' = 14 => \A n \in Live' : weight'[n].def = "primitive_encoder" => OutOf(n)' = {}
    BY GraphFrame DEF SameGraph
  <2> QED BY <2>1, <2>2, <2>3, <2>4 DEF ResultsInv
<1>3. EstimatesInv'
  <2>1. \A n : Parents(n)' = Parents(n) /\ Sized(n)' = Sized(n)
    BY GraphFrame
  <2>2. result' = result /\ est' = est
    BY DEF SameGraph
  <2> SUFFICES ASSUME NEW n \in NodeId, result[n] = NoResult, est[n].k = "Some", NEW p \in Parents(n), Sized(p)
               PROVE  est[p].k = "Some"
    BY <2>1, <2>2 DEF EstimatesInv
  <2> QED BY <1>0 DEF EstimatesInv
<1>4. \A n \in NodeId : Sized(n) => est'[n] \in {Unknown, truth[n]}
  BY <1>1 DEF Truthful
<1>5. Truthful(truth)'
  BY <1>0, <1>1, <1>4, TruthKept
<1> QED BY <1>2, <1>3, <1>5 DEF SizesInv

\* Nothing is being estimated, and no node is chosen.
LEMMA NothingBegun ==
  ASSUME calls' = <<>>, chosen' = 0
  PROVE  StackInv' /\ ChosenReady'
<1>1. DOMAIN calls' = {}
  OBVIOUS
<1>2. StackInv'
  BY <1>1 DEF StackInv, StackOf
<1> QED BY <1>2 DEF ChosenReady

\* An estimation begins with one activation.
LEMMA OneBegun ==
  ASSUME SameGraph, NEW n \in Live, NEW limit, calls' = <<Call(n, limit)>>, chosen' \in {0, n}
  PROVE  StackInv'
<1>1. Len(calls') = 1 /\ DOMAIN calls' = {1} /\ calls'[1] = Call(n, limit)
  OBVIOUS
<1>2. Call(n, limit).node = n /\ Call(n, limit).phase = "enter"
  BY DEF Call
<1>3. Live' = Live
  BY GraphFrame
<1> QED BY <1>1, <1>2, <1>3 DEF StackInv, StackOf

\* link_codecs does not disturb decoders that have decoded.
LEMMA LinkKeepsCodecs ==
  ASSUME codec \in [IoId -> CodecStates], LinkCodecs
  PROVE  CodecsKept
<1> SUFFICES ASSUME NEW i \in IoId, codec[i].read > 0
             PROVE  codec'[i].read > 0 /\ codec'[i].w = codec[i].w /\ codec'[i].h = codec[i].h
  BY DEF CodecsKept
<1>1. codec[i] \in CodecStates
  OBVIOUS
<1>2. CASE Tellers(i) = {}
  BY <1>2 DEF LinkCodecs
<1>3. CASE Tellers(i) # {}
  <2> DEFINE hint == Commands(CHOOSE n \in Tellers(i) : TRUE)
  <2>1. codec'[i] = Told(job.io[i], codec[i], hint)
    BY <1>3 DEF LinkCodecs
  <2> HIDE DEF hint
  <2> QED BY <1>1, <2>1, CodecSettles
<1> QED BY <1>2, <1>3

\* Only validation leads to execution: encoders have no children there.
LEMMA ToExecution ==
  ASSUME EngineInv, NEW op, At(op), Advance, step' = 14
  PROVE  op = "validate"
<1>1. step \in 1 .. 14 /\ Program[step] = op
  BY AtOperation
<1>2. step' = IF step = 14 THEN 3 ELSE step + 1
  BY ProgramShape DEF Advance, LoopHead
<1>3. step = 13
  BY <1>1, <1>2
<1> QED BY <1>1, <1>3 DEF Program

\* Validation, linking, and the ends of the loops.
LEMMA PassiveKeeps ==
  ASSUME TruthInv, ValidateGraph \/ LinkCodecs \/ PopulateDone \/ FlattenDone \/ ExecuteDone \/ NextPass
  PROVE  SizesInv'
<1>0. GraphTyped /\ FramesTyped /\ EngineInv /\ ResultsInv /\ codec \in [IoId -> CodecStates]
  BY TruthParts DEF FramesTyped
<1>1. SameGraph /\ UNCHANGED <<bitmap, est>>
  BY DEF ValidateGraph, LinkCodecs, PopulateDone, FlattenDone, ExecuteDone, NextPass, graphVars, dataVars, pickFrame, SameGraph
<1>2. CodecsKept
  <2>1. CASE LinkCodecs
    BY <1>0, <2>1, LinkKeepsCodecs
  <2>2. CASE ~LinkCodecs
    <3>1. codec' = codec
      BY <2>2 DEF ValidateGraph, PopulateDone, FlattenDone, ExecuteDone, NextPass, pickFrame
    <3> QED BY <3>1 DEF CodecsKept
  <2> QED BY <2>1, <2>2
<1>3. calls' = <<>> /\ chosen' = 0
  <2>1. CASE FlattenDone \/ ExecuteDone
    BY <2>1 DEF FlattenDone, ExecuteDone, At
  <2>2. CASE ValidateGraph \/ LinkCodecs \/ PopulateDone \/ NextPass
    <3>1. \E op \in {"validate", "link", "populate", "loop"} : At(op)
      BY <2>2 DEF ValidateGraph, LinkCodecs, PopulateDone, NextPass
    <3>2. chosen = 0 /\ calls = <<>>
      BY <1>0, <3>1, AtOperation
    <3> QED BY <2>2, <3>2 DEF ValidateGraph, LinkCodecs, PopulateDone, NextPass
  <2> QED BY <2>1, <2>2
<1>4. step' = 14 => \A n \in Live : weight[n].def = "primitive_encoder" => OutOf(n) = {}
  <2> SUFFICES ASSUME step' = 14, step # 14, NEW n \in Live, weight[n].def = "primitive_encoder"
               PROVE  OutOf(n) = {}
    BY <1>0 DEF ResultsInv
  <2>1. CASE ValidateGraph
    <3>1. Accepted(n)
      BY <2>1 DEF ValidateGraph
    <3> QED BY <3>1 DEF Accepted, NoChildren
  <2>2. CASE LinkCodecs \/ PopulateDone \/ FlattenDone \/ ExecuteDone \/ NextPass
    <3>1. PICK op \in {"link", "populate", "flatten", "execute", "loop"} : At(op) /\ Advance
      BY <2>2 DEF LinkCodecs, PopulateDone, FlattenDone, ExecuteDone, NextPass
    <3> QED BY <1>0, <3>1, ToExecution
  <2> QED BY <2>1, <2>2
<1> QED BY <1>1, <1>2, <1>3, <1>4, NothingBegun, SizesStay

\* Stopping, and stuttering.
LEMMA StopKeeps ==
  ASSUME TruthInv, ExecuteFailure \/ PassLimit \/ Finish \/ UNCHANGED vars
  PROVE  SizesInv'
<1>0. GraphTyped /\ FramesTyped /\ EngineInv /\ ResultsInv /\ StackInv /\ ChosenReady
  BY TruthParts
<1>1. SameGraph /\ UNCHANGED <<bitmap, est, codec, step>>
  BY DEF ExecuteFailure, PassLimit, Finish, vars, loopVars, graphVars, dataVars, SameGraph
<1>2. CodecsKept
  BY <1>1 DEF CodecsKept
<1>3. StackInv' /\ ChosenReady'
  <2>1. CASE ExecuteFailure
    <3>1. calls' = <<>> /\ chosen' = 0
      BY <2>1 DEF ExecuteFailure, ReadyTo, At
    <3> QED BY <3>1, NothingBegun
  <2>2. CASE PassLimit \/ Finish \/ UNCHANGED vars
    <3>1. UNCHANGED <<chosen, calls>>
      BY <2>2 DEF PassLimit, Finish, vars
    <3>2. StackOf(calls', est')
      BY <1>0, <1>1, <3>1 DEF StackInv
    <3>3. StackInv'
      BY <1>1, <3>1, <3>2, SameStack
    <3>4. ChosenReady'
      <4>1. Parents(chosen)' = Parents(chosen) /\ Complete(chosen)' = Complete(chosen)
        BY <1>1, <3>1 DEF SameGraph, Parents, Into, Complete
      <4>2. InputsEstimated(chosen)' <=> InputsEstimated(chosen)
        BY <1>1, <4>1 DEF InputsEstimated
      <4> QED BY <1>0, <1>1, <3>1, <4>1, <4>2 DEF ChosenReady
    <3> QED BY <3>3, <3>4
  <2> QED BY <2>1, <2>2
<1> QED BY <1>0, <1>1, <1>2, <1>3, SizesStay DEF ResultsInv

\* The next index of populate_dimensions_where_certain.
LEMMA PopulateKeeps ==
  ASSUME TruthInv, PopulateNext
  PROVE  SizesInv'
<1>0. GraphTyped /\ FramesTyped /\ EngineInv /\ ResultsInv
  BY TruthParts
<1>1. SameGraph /\ UNCHANGED <<bitmap, est, codec, step, chosen>>
  BY DEF PopulateNext, graphVars, dataVars, SameGraph
<1>2. chosen = 0
  BY <1>0, AtOperation DEF PopulateNext
<1>3. nodes[cursor] \in Live
  <2>1. cursor \in 1 .. Len(nodes) /\ nodes \in Seq(NodeId)
    <3>1. nodes \in Seq(NodeId) /\ cursor \in 1 .. Len(nodes) + 1 /\ cursor <= Len(nodes)
      BY <1>0 DEF EngineInv, TypeOK, LoopTyped, GraphTyped, PopulateNext
    <3> QED BY <3>1
  <2> QED BY <2>1 DEF Live
<1>4. StackInv'
  BY <1>1, <1>2, <1>3, OneBegun DEF PopulateNext
<1>5. ChosenReady'
  BY <1>1, <1>2 DEF ChosenReady
<1>6. CodecsKept
  BY <1>1 DEF CodecsKept
<1> QED BY <1>0, <1>1, <1>4, <1>5, <1>6, SizesStay DEF ResultsInv

\* A node is chosen when its parents have run; it is expanded only once they
\* are estimated.
LEMMA ChooseKeeps ==
  ASSUME TruthInv, FlattenChoose \/ ExecuteChoose
  PROVE  SizesInv'
<1>0. GraphTyped /\ FramesTyped /\ EngineInv /\ ResultsInv /\ EstimatesInv
  BY TruthParts
<1>1. SameGraph /\ UNCHANGED <<bitmap, est, codec, step>>
  BY DEF FlattenChoose, ExecuteChoose, pickFrame, graphVars, dataVars, SameGraph
<1>2. PICK n \in Live :
        /\ chosen' = n /\ calls' \in {<<>>, <<Call(n, RecursionLimit)>>}
        /\ \/ ExecuteChoose /\ Executable(n)
           \/ FlattenChoose /\ Expandable(n) /\ (calls' = <<>> => est[n].k = "Some")
  <2>1. CASE ExecuteChoose
    BY <2>1 DEF ExecuteChoose, FirstIs
  <2>2. CASE FlattenChoose
    <3>1. PICK n \in Live : /\ FirstIs(n, Expandable) /\ chosen' = n
                            /\ calls' = IF est[n].k = "Some" THEN <<>> ELSE <<Call(n, RecursionLimit)>>
      BY <2>2 DEF FlattenChoose
    <3>2. Expandable(n)
      BY <3>1 DEF FirstIs
    <3>3. <<Call(n, RecursionLimit)>> # <<>>
      OBVIOUS
    <3> QED BY <2>2, <3>1, <3>2, <3>3
  <2> QED BY <2>1, <2>2
<1>3. n \in NodeId /\ Complete(n)
  BY <1>0, <1>2, LiveType DEF Executable, Expandable
<1>4. StackInv'
  <2>1. CASE calls' = <<>>
    <3>1. DOMAIN calls' = {}
      BY <2>1
    <3> QED BY <2>1, <3>1 DEF StackInv, StackOf
  <2>2. CASE calls' = <<Call(n, RecursionLimit)>>
    BY <1>1, <1>2, <2>2, OneBegun
  <2> QED BY <1>2, <2>1, <2>2
<1>5. ChosenReady'
  <2>1. Complete(n)' /\ Parents(n)' = Parents(n)
    BY <1>1, <1>3 DEF SameGraph, Complete, Parents, Into
  <2>2. Complete(chosen)'
    BY <1>2, <2>1 DEF SameGraph, Complete, Parents, Into
  <2>3. ASSUME Program[step'] = "flatten", calls' = <<>>
        PROVE  InputsEstimated(chosen)'
    <3>1. Expandable(n) /\ est[n].k = "Some"
      BY <1>1, <1>2, <2>3 DEF ExecuteChoose, At
    <3>2. result[n] = NoResult
      <4>1. weight[n].def \notin CanExecute
        BY <3>1 DEF Expandable, CanExpand, CanExecute, OneInputExpand, Protected, Inner, OneInputOneCanvas, MutateBitmap
      <4> QED BY <1>0, <1>3, <4>1 DEF ResultsInv
    <3>3. \A p \in Parents(n) : est[p].k = "Some"
      BY <1>0, <1>3, <3>1, <3>2, CompleteSized DEF EstimatesInv
    <3> QED BY <1>1, <1>2, <2>1, <3>3 DEF InputsEstimated, Parents, Into, SameGraph
  <2> QED BY <2>2, <2>3 DEF ChosenReady
<1>6. CodecsKept
  BY <1>1 DEF CodecsKept
<1> QED BY <1>0, <1>1, <1>4, <1>5, <1>6, SizesStay DEF ResultsInv

\* Quiet steps keep sizes true.
LEMMA QuietKeeps ==
  ASSUME TruthInv, Quiet
  PROVE  SizesInv'
BY EnterKeeps, ParentKeeps, ResumeKeeps, RunKeeps, PassiveKeeps, StopKeeps, PopulateKeeps, ChooseKeeps
   DEF Quiet, EstimateNodeRecursive

-----------------------------------------------------------------------------
(* Expanding a node.                                                       *)

\* What an expansion leaves as it is: results; all estimates but perhaps that of
\* the expanded node c; every other node; and what leads to nodes that c does
\* not lead to.  New edges begin at c, at its parents, or at new nodes.
Spliced(c) ==
  /\ result' = result
  /\ \A m \in NodeId : est'[m] = est[m] \/ (m = c /\ est'[m] = Unknown)
  /\ \A m \in NodeId : m # c /\ m < nextNode => weight'[m] = weight[m]
  /\ nextNode' \in Nat /\ nextNode <= nextNode'
  /\ \A e \in edges' : e \in edges \/ e.src >= nextNode \/ e.src = c \/ e.src \in Parents(c)
  /\ \A m \in NodeId : m # c /\ m < nextNode /\ c \notin Parents(m) => {e \in edges' : e.dst = m} = Into(m)

\* Splicing keeps the edges of everything it does not touch.
LEMMA SplicedEdges ==
  ASSUME GraphTyped, NEW c \in NodeId, NEW last, last \in Parents(c) \/ last >= nextNode,
         NEW kept, kept \subseteq edges, Detached(c) \subseteq kept,
         NEW more, \A e \in more : /\ e.dst \in Nat /\ e.dst >= nextNode
                                   /\ e.src >= nextNode \/ e.src = c \/ e.src \in Parents(c),
         edges' = kept \cup OutFrom(c, last) \cup more
  PROVE  /\ \A e \in edges' : e \in edges \/ e.src >= nextNode \/ e.src = c \/ e.src \in Parents(c)
         /\ \A m \in NodeId : m # c /\ m < nextNode /\ c \notin Parents(m) => {e \in edges' : e.dst = m} = Into(m)
<1>1. ASSUME NEW e \in OutFrom(c, last)
      PROVE  e.src = last /\ \A m : e.dst = m => c \in Parents(m)
  <2>1. PICK f \in OutOf(c) : e = [f EXCEPT !.src = last]
    BY DEF OutFrom
  <2>2. f \in edges /\ f.src = c /\ f \in Edge
    BY DEF OutOf, GraphTyped
  <2>3. e.src = last /\ e.dst = f.dst
    BY <2>1, <2>2 DEF Edge
  <2> QED BY <2>2, <2>3 DEF Parents, Into
<1>2. \A e \in edges' : e \in edges \/ e.src >= nextNode \/ e.src = c \/ e.src \in Parents(c)
  BY <1>1
<1>3. ASSUME NEW m \in NodeId, m # c, m < nextNode, c \notin Parents(m)
      PROVE  {e \in edges' : e.dst = m} = Into(m)
  <2>1. ASSUME NEW e \in edges', e.dst = m
        PROVE  e \in Into(m)
    <3>1. e \notin more
      BY <1>3, <2>1 DEF GraphTyped, NodeId
    <3>2. e \notin OutFrom(c, last)
      BY <1>1, <1>3, <2>1
    <3> QED BY <2>1, <3>1, <3>2 DEF Into
  <2>2. ASSUME NEW e \in Into(m)
        PROVE  e \in edges' /\ e.dst = m
    <3>1. e \in edges /\ e.dst = m /\ e.src # c
      BY <1>3 DEF Into, Parents
    <3> QED BY <1>3, <3>1 DEF Detached
  <2> QED BY <2>1, <2>2
<1> QED BY <1>2, <1>3

\* Edges that now lead to a new node.
LEMMA LedToNew ==
  ASSUME GraphTyped, NEW c, NEW first \in Nat, first >= nextNode
  PROVE  \A e \in InTo(c, first) : e.dst \in Nat /\ e.dst >= nextNode /\ e.src \in Parents(c)
<1> TAKE e \in InTo(c, first)
<1>1. PICK f \in Into(c) : e = [f EXCEPT !.dst = first]
  BY DEF InTo
<1>2. f \in Edge
  BY DEF Into, GraphTyped
<1>3. e.dst = first /\ e.src = f.src
  BY <1>1, <1>2 DEF Edge
<1> QED BY <1>3 DEF Parents

\* What an expansion that removes node c forgets.
LEMMA ForgetsItself ==
  ASSUME FramesTyped, NEW c \in NodeId, result[c] = NoResult, Forget(c)
  PROVE  result' = result /\ \A m \in NodeId : est'[m] = est[m] \/ (m = c /\ est'[m] = Unknown)
BY DEF Forget, FramesTyped

\* Allocation changes new nodes only.
LEMMA AllocatesNew ==
  ASSUME GraphTyped, NEW ns \in Seq(Weights), Allocate(ns)
  PROVE  /\ nextNode' = nextNode + Len(ns) /\ nextNode' \in Nat /\ nextNode <= nextNode' /\ nextNode \in Nat
         /\ \A m \in NodeId : m < nextNode => weight'[m] = weight[m]
<1>1. Len(ns) \in Nat /\ nextNode \in Nat
  BY DEF GraphTyped
<1>2. nextNode' = nextNode + Len(ns) /\ weight' = [m \in NodeId |-> IF m \in Fresh(Len(ns)) THEN ns[m - nextNode + 1] ELSE weight[m]]
  BY DEF Allocate, NewWeights
<1>3. \A m \in NodeId : m < nextNode => m \notin Fresh(Len(ns))
  BY <1>1 DEF Fresh, NodeId
<1> QED BY <1>1, <1>2, <1>3

\* replace_node with a chain.
LEMMA ChainSplices ==
  ASSUME GraphTyped, FramesTyped, NEW c \in NodeId, result[c] = NoResult,
         NEW chain \in Seq(Weights), chain # <<>>, ReplaceWithChain(c, chain)
  PROVE  Spliced(c)
<1> DEFINE k == Len(chain)
           last == nextNode + k - 1
           links == {[src |-> m, dst |-> m + 1, kind |-> "input"] : m \in nextNode .. last - 1}
           more == InTo(c, nextNode) \cup links
<1>1. /\ Allocate(chain) /\ Forget(c)
      /\ edges' = Detached(c) \cup InTo(c, nextNode) \cup OutFrom(c, last) \cup links
  BY DEF ReplaceWithChain
<1>2. k \in Nat \ {0} /\ nextNode \in Nat
  BY DEF GraphTyped
<1>3. last >= nextNode
  BY <1>2
<1>4. \A e \in links : e.dst \in Nat /\ e.dst >= nextNode /\ e.src >= nextNode
  BY <1>2
<1>5. \A e \in InTo(c, nextNode) : e.dst \in Nat /\ e.dst >= nextNode /\ e.src \in Parents(c)
  BY <1>2, LedToNew
<1> HIDE DEF last, links
<1>6. \A e \in more : e.dst \in Nat /\ e.dst >= nextNode /\ (e.src >= nextNode \/ e.src = c \/ e.src \in Parents(c))
  BY <1>4, <1>5
<1>7. edges' = Detached(c) \cup OutFrom(c, last) \cup more
  BY <1>1
<1> HIDE DEF more
<1>8. Detached(c) \subseteq edges
  BY DEF Detached
<1>9. /\ \A e \in edges' : e \in edges \/ e.src >= nextNode \/ e.src = c \/ e.src \in Parents(c)
      /\ \A m \in NodeId : m # c /\ m < nextNode /\ c \notin Parents(m) => {e \in edges' : e.dst = m} = Into(m)
  BY <1>3, <1>6, <1>7, <1>8, SplicedEdges
<1>10. /\ nextNode' \in Nat /\ nextNode <= nextNode'
       /\ \A m \in NodeId : m < nextNode => weight'[m] = weight[m]
  BY <1>1, AllocatesNew
<1> QED BY <1>1, <1>9, <1>10, ForgetsItself DEF Spliced

\* A canvas and a rendering node.
LEMMA CanvasSplices ==
  ASSUME GraphTyped, FramesTyped, NEW c \in NodeId, result[c] = NoResult,
         NEW canvas \in Weights, NEW render \in Weights, ReplaceWithCanvas(c, canvas, render)
  PROVE  Spliced(c)
<1> DEFINE link == [src |-> nextNode, dst |-> nextNode + 1, kind |-> "canvas"]
           last == nextNode + 1
           more == InTo(c, last) \cup {link}
<1>1. /\ Allocate(<<canvas, render>>) /\ Forget(c)
      /\ edges' = Detached(c) \cup InTo(c, last) \cup OutFrom(c, last) \cup {link}
  BY DEF ReplaceWithCanvas
<1>2. nextNode \in Nat /\ last \in Nat /\ last >= nextNode
  BY DEF GraphTyped
<1>4. link.dst \in Nat /\ link.dst >= nextNode /\ link.src >= nextNode
  BY <1>2
<1>5. \A e \in InTo(c, last) : e.dst \in Nat /\ e.dst >= nextNode /\ e.src \in Parents(c)
  BY <1>2, LedToNew
<1> HIDE DEF last, link
<1>6. \A e \in more : e.dst \in Nat /\ e.dst >= nextNode /\ (e.src >= nextNode \/ e.src = c \/ e.src \in Parents(c))
  BY <1>4, <1>5
<1>7. edges' = Detached(c) \cup OutFrom(c, last) \cup more
  BY <1>1
<1> HIDE DEF more
<1>8. Detached(c) \subseteq edges
  BY DEF Detached
<1>9. /\ \A e \in edges' : e \in edges \/ e.src >= nextNode \/ e.src = c \/ e.src \in Parents(c)
      /\ \A m \in NodeId : m # c /\ m < nextNode /\ c \notin Parents(m) => {e \in edges' : e.dst = m} = Into(m)
  BY <1>2, <1>6, <1>7, <1>8, SplicedEdges
<1>10. /\ nextNode' \in Nat /\ nextNode <= nextNode'
       /\ \A m \in NodeId : m < nextNode => weight'[m] = weight[m]
  <2>1. <<canvas, render>> \in Seq(Weights)
    OBVIOUS
  <2> QED BY <1>1, <2>1, AllocatesNew
<1> QED BY <1>1, <1>9, <1>10, ForgetsItself DEF Spliced

\* delete_node_and_snap_together.
LEMMA SnapSplices ==
  ASSUME GraphTyped, FramesTyped, NEW c \in NodeId, result[c] = NoResult, SnapTogether(c)
  PROVE  Spliced(c)
<1>1. PICK p \in Parents(c) : /\ edges' = Detached(c) \cup OutFrom(c, p)
                              /\ UNCHANGED <<weight, nextNode>> /\ Forget(c)
  BY DEF SnapTogether
<1> DEFINE more == {}
<1>2. edges' = Detached(c) \cup OutFrom(c, p) \cup more /\ Detached(c) \subseteq edges
  BY <1>1 DEF Detached
<1>3. /\ \A e \in edges' : e \in edges \/ e.src >= nextNode \/ e.src = c \/ e.src \in Parents(c)
      /\ \A m \in NodeId : m # c /\ m < nextNode /\ c \notin Parents(m) => {e \in edges' : e.dst = m} = Into(m)
  <2>1. \A e \in more : e.dst \in Nat /\ e.dst >= nextNode /\ (e.src >= nextNode \/ e.src = c \/ e.src \in Parents(c))
    OBVIOUS
  <2> HIDE DEF more
  <2> QED BY <1>1, <1>2, <2>1, SplicedEdges
<1>4. nextNode' \in Nat /\ nextNode <= nextNode'
  BY <1>1 DEF GraphTyped
<1> QED BY <1>1, <1>3, <1>4, ForgetsItself DEF Spliced

\* DecoderDef::expand.
LEMMA DecoderSplices ==
  ASSUME GraphTyped, FramesTyped, NEW c \in NodeId, ExpandDecoder(c)
  PROVE  Spliced(c)
<1> DEFINE link == [src |-> c, dst |-> nextNode, kind |-> "input"]
<1>0. UNCHANGED <<est, result>> /\ nextNode \in Nat
  BY DEF ExpandDecoder, GraphTyped
<1>1. CASE ExifFlag(IoOf(c)) > 0
  <2>1. /\ nextNode' = nextNode + 1
        /\ edges' = (edges \ OutOf(c)) \cup OutFrom(c, nextNode) \cup {link}
    BY <1>1 DEF ExpandDecoder
  <2>2. ASSUME NEW m \in NodeId, m # c, m < nextNode
        PROVE  weight'[m] = weight[m]
    <3> DEFINE turn == Node("apply_orientation", P("apply_orientation", <<ExifFlag(IoOf(c))>>))
    <3>1. weight' = [BecomesPrimitive(weight, c) EXCEPT ![nextNode] = turn]
      BY <1>1 DEF ExpandDecoder
    <3> HIDE DEF turn
    <3>2. m # nextNode
      BY <1>0, <2>2 DEF NodeId
    <3>3. DOMAIN weight = NodeId
      BY DEF GraphTyped
    <3> QED BY <2>2, <3>1, <3>2, <3>3 DEF BecomesPrimitive
  <2>3. Detached(c) \subseteq edges \ OutOf(c) /\ nextNode >= nextNode
    BY <1>0 DEF Detached, OutOf
  <2>4. /\ \A e \in edges' : e \in edges \/ e.src >= nextNode \/ e.src = c \/ e.src \in Parents(c)
        /\ \A m \in NodeId : m # c /\ m < nextNode /\ c \notin Parents(m) => {e \in edges' : e.dst = m} = Into(m)
    <3> DEFINE kept == edges \ OutOf(c)
               more == {link}
    <3>1. \A e \in more : e.dst \in Nat /\ e.dst >= nextNode /\ (e.src >= nextNode \/ e.src = c \/ e.src \in Parents(c))
      BY <1>0
    <3>2. edges' = kept \cup OutFrom(c, nextNode) \cup more /\ kept \subseteq edges /\ Detached(c) \subseteq kept
      BY <2>1, <2>3
    <3> HIDE DEF kept, more
    <3> QED BY <2>3, <3>1, <3>2, SplicedEdges
  <2> QED BY <1>0, <2>1, <2>2, <2>4 DEF Spliced
<1>2. CASE ~(ExifFlag(IoOf(c)) > 0)
  <2>1. UNCHANGED <<edges, nextNode>> /\ weight' = BecomesPrimitive(weight, c)
    BY <1>2 DEF ExpandDecoder
  <2>2. \A m \in NodeId : m # c => weight'[m] = weight[m]
    BY <2>1 DEF BecomesPrimitive, GraphTyped
  <2> QED BY <1>0, <2>1, <2>2 DEF Spliced, Into
<1> QED BY <1>1, <1>2

\* Every expansion splices.
LEMMA ExpandSplices ==
  ASSUME GraphTyped, FramesTyped, job \in Jobs, NEW c \in NodeId, result[c] = NoResult,
         weight[c].def \in CanExpand, ~ExpandFails(c), Expand(c)
  PROVE  Spliced(c)
<1> DEFINE d == weight[c].def
           p == weight[c].p
           w == est[Input(c)].w
           h == est[Input(c)].h
<1>1. d \in CanExpand /\ p \in Params /\ Node(d, p) \in Weights /\ ParamsMatch(d, p)
  <2>1. p \in Params /\ Node(d, p) \in Weights
    BY WeightType
  <2> QED BY <2>1 DEF ExpandFails
<1>2. d \in OneInputExpand \cup {"expanding_command_string"} => w \in Nat /\ h \in Nat
  <2>1. d \in OneInputExpand \cup {"expanding_command_string"} => Input(c) \in NodeId
    BY ParentType DEF ExpandFails, Input
  <2> QED BY <2>1 DEF FramesTyped, Estimates
<1>3. ASSUME NEW chain \in Seq(Weights), ReplaceNode(c, chain)
      PROVE  Spliced(c)
  BY <1>3, ChainSplices, SnapSplices DEF ReplaceNode
<1>4. CASE d = "decoder"
  <2>1. ExpandDecoder(c)
    BY <1>4 DEF Expand, ToCanvas
  <2> QED BY <2>1, DecoderSplices
<1>5. CASE d = "command_string"
  <2>1. ReplaceNode(c, CommandChain(p))
    BY <1>5 DEF Expand, ToCanvas
  <2>2. p.t = "command_string"
    BY <1>1, <1>5 DEF ParamsMatch, TagOf
  <2>3. CommandChain(p) \in Seq(Weights)
    BY <1>1, <2>2, CommandChainType
  <2> QED BY <1>3, <2>1, <2>3
<1>6. CASE d \in ToCanvas
  <2>1. ReplaceWithCanvas(c, CanvasFor(d, p, w, h), RenderFor(d, p, w, h))
    BY <1>6 DEF Expand, ToCanvas
  <2>2. w \in Nat /\ h \in Nat
    BY <1>2, <1>6 DEF ToCanvas, OneInputExpand
  <2>3. CanvasFor(d, p, w, h) \in Weights /\ RenderFor(d, p, w, h) \in Weights
    BY <1>1, <1>6, <2>2, CanvasType
  <2> QED BY <2>1, <2>3, CanvasSplices
<1>7. CASE d \notin {"decoder", "command_string"} \cup ToCanvas
  <2> DEFINE chain == ChainOf(d, p, w, h, HasOtherChildren(Input(c), c))
  <2>1. ReplaceNode(c, chain)
    BY <1>7 DEF Expand
  <2>2. w \in Nat /\ h \in Nat
    BY <1>1, <1>2, <1>7 DEF CanExpand
  <2>3. chain \in Seq(Weights)
    BY <1>1, <1>7, <2>2, ChainType
  <2> QED BY <1>3, <2>1, <2>3
<1> QED BY <1>4, <1>5, <1>6, <1>7

\* Nodes that have run do not notice a splice.
LEMMA UntouchedBySplice ==
  ASSUME GraphTyped, FramesTyped, ResultsInv, NEW c \in NodeId, result[c] = NoResult, Spliced(c),
         NEW n \in NodeId, result[n] # NoResult
  PROVE  /\ n # c /\ n < nextNode /\ weight'[n] = weight[n] /\ est'[n] = est[n]
         /\ Parents(n)' = Parents(n) /\ IoOf(n)' = IoOf(n) /\ Complete(n)'
         /\ \A kind : HasParent(n, kind)' = HasParent(n, kind) /\ Parent(n, kind)' = Parent(n, kind)
<1>1. n # c /\ n < nextNode
  BY DEF ResultsInv, GraphTyped, NodeId
<1>2. Complete(n)
  BY DEF ResultsInv
<1>3. c \notin Parents(n)
  BY <1>2 DEF Complete
<1>4. Into(n)' = Into(n)
  BY <1>1, <1>3 DEF Spliced, Into
<1>5. Parents(n)' = Parents(n) /\ \A kind : ParentsOf(n, kind)' = ParentsOf(n, kind)
  BY <1>4 DEF Parents, ParentsOf
<1>6. weight'[n] = weight[n] /\ est'[n] = est[n] /\ result' = result
  BY <1>1 DEF Spliced
<1>7. IoOf(n)' = IoOf(n)
  BY <1>6 DEF IoOf
<1>8. Complete(n)'
  BY <1>2, <1>5, <1>6 DEF Complete
<1>9. \A kind : HasParent(n, kind)' = HasParent(n, kind) /\ Parent(n, kind)' = Parent(n, kind)
  BY <1>5 DEF HasParent, Parent
<1> QED BY <1>1, <1>5, <1>6, <1>7, <1>8, <1>9

\* Splicing keeps all sizes.
LEMMA SpliceKeeps ==
  ASSUME TruthInv, GraphTyped', chosen # 0, Complete(chosen), InputsEstimated(chosen), Spliced(chosen),
         UNCHANGED <<bitmap, codec>>, step' # 14, calls' = <<>>, chosen' = 0
  PROVE  SizesInv'
<1> DEFINE c == chosen
<1>0. /\ GraphTyped /\ FramesTyped /\ ResultsInv /\ EstimatesInv
      /\ c \in NodeId /\ result[c] = NoResult /\ nextNode \in Nat
  BY TruthParts DEF GraphTyped
<1>1. PICK truth \in [NodeId -> Estimates] : Truthful(truth)
  BY DEF TruthInv, SizesInv
<1>2. result' = result /\ (\A n : Sized(n)' = Sized(n)) /\ \A n : Sized(n) => result[n] # NoResult
  BY DEF Spliced, Sized, NoResult
<1>3. ASSUME NEW n \in NodeId, result[n] # NoResult
      PROVE  /\ n # c /\ n < nextNode /\ weight'[n] = weight[n] /\ est'[n] = est[n]
             /\ Parents(n)' = Parents(n) /\ IoOf(n)' = IoOf(n) /\ Complete(n)'
             /\ \A kind : HasParent(n, kind)' = HasParent(n, kind) /\ Parent(n, kind)' = Parent(n, kind)
  BY <1>0, <1>3, UntouchedBySplice
<1>4. ResultsInv'
  <2>1. \A n \in NodeId : n >= nextNode' => result'[n] = NoResult /\ est'[n].k # "Some"
    <3> SUFFICES ASSUME NEW n \in NodeId, n >= nextNode' PROVE result'[n] = NoResult /\ est'[n].k # "Some"
      OBVIOUS
    <3>1. n >= nextNode
      BY <1>0 DEF Spliced, NodeId
    <3>2. result[n] = NoResult /\ est[n].k # "Some" /\ Unknown.k # "Some"
      BY <1>0, <3>1, KnownIsSome DEF ResultsInv
    <3> QED BY <1>2, <3>2 DEF Spliced
  <2>2. \A n \in NodeId : result'[n] # NoResult => Complete(n)' /\ weight'[n].def \in CanExecute
    BY <1>0, <1>2, <1>3 DEF ResultsInv
  <2>3. \A n \in NodeId : result'[n] = Encoded => OutOf(n)' = {}
    <3> SUFFICES ASSUME NEW n \in NodeId, result[n] = Encoded, NEW e \in OutOf(n)' PROVE FALSE
      BY <1>2
    <3>1. e \in edges' /\ e.src = n
      BY DEF OutOf
    <3>2. result[n] # NoResult /\ OutOf(n) = {}
      BY <1>0 DEF ResultsInv, Encoded, NoResult
    <3>3. n # c /\ n < nextNode /\ n \in Nat
      BY <1>3, <3>2 DEF NodeId
    <3>4. n \notin Parents(c) /\ e \notin edges
      BY <3>1, <3>2 DEF Parents, Into, OutOf
    <3>5. n >= nextNode
      BY <3>1, <3>3, <3>4 DEF Spliced
    <3> QED BY <1>0, <3>3, <3>5
  <2> QED BY <2>1, <2>2, <2>3 DEF ResultsInv
<1>5. EstimatesInv'
  <2> SUFFICES ASSUME NEW n \in NodeId, result'[n] = NoResult, est'[n].k = "Some", NEW p \in Parents(n)', Sized(p)'
               PROVE  est'[p].k = "Some"
    BY DEF EstimatesInv
  <2>1. PICK e \in edges' : e.dst = n /\ e.src = p
    BY DEF Parents, Into
  <2>2. p \in NodeId
    BY <2>1 DEF GraphTyped, Edge
  <2>3. Sized(p) /\ p # c /\ p < nextNode /\ est'[p] = est[p] /\ p \in Nat
    BY <1>2, <1>3, <2>2 DEF NodeId
  <2>4. est[n].k = "Some" /\ result[n] = NoResult
    BY <1>2, KnownIsSome DEF Spliced
  <2>5. e \in edges \/ p \in Parents(c)
    BY <1>0, <2>1, <2>3 DEF Spliced
  <2>6. CASE e \in edges
    <3>1. p \in Parents(n)
      BY <2>1, <2>6 DEF Parents, Into
    <3> QED BY <1>0, <2>3, <2>4, <3>1 DEF EstimatesInv
  <2>7. CASE p \in Parents(c)
    BY <2>3, <2>7 DEF InputsEstimated
  <2> QED BY <2>5, <2>6, <2>7
<1>6. Truthful(truth)'
  <2> SUFFICES ASSUME NEW n \in NodeId, Sized(n)'
               PROVE  /\ truth[n].k = "Some" /\ est'[n] \in {Unknown, truth[n]}
                      /\ result'[n].k = "Frame" => truth[n] = SizeOf(result[n].b)'
                      /\ Determined(truth, n)'
    BY <1>2 DEF Truthful
  <2>1. Sized(n) /\ result[n] # NoResult
    BY <1>2
  <2>2. /\ truth[n].k = "Some" /\ est[n] \in {Unknown, truth[n]} /\ Determined(truth, n)
        /\ result[n].k = "Frame" => truth[n] = SizeOf(result[n].b)
    BY <1>1, <2>1 DEF Truthful
  <2>3. SizeOf(result[n].b)' = SizeOf(result[n].b)
    BY <1>2 DEF SizeOf
  <2>4. /\ weight'[n] = weight[n] /\ est'[n] = est[n] /\ IoOf(n)' = IoOf(n)
        /\ HasParent(n, "canvas")' = HasParent(n, "canvas") /\ HasParent(n, "input")' = HasParent(n, "input")
        /\ Parent(n, "canvas")' = Parent(n, "canvas") /\ Parent(n, "input")' = Parent(n, "input")
    BY <1>3, <2>1
  <2>5. Determined(truth, n)'
    BY <2>2, <2>4 DEF Determined
  <2> QED BY <1>2, <2>2, <2>3, <2>4, <2>5
<1> QED BY <1>4, <1>5, <1>6, NothingBegun DEF SizesInv

\* Expanding the chosen node.
LEMMA ExpandKeeps ==
  ASSUME TruthInv, FlattenExpand
  PROVE  SizesInv'
<1>0. /\ GraphTyped /\ FramesTyped /\ ResultsInv /\ ChosenReady /\ EngineInv /\ job \in Jobs
      /\ chosen # 0 => result[chosen] = NoResult
  BY TruthParts
<1>1. /\ At("flatten") /\ chosen # 0 /\ chosen' = 0 /\ calls' = <<>>
      /\ UNCHANGED <<bitmap, codec, step>>
  BY DEF FlattenExpand, At, dataVars, loopVars
<1>2. /\ chosen \in NodeId /\ weight[chosen].def \in CanExpand
      /\ Complete(chosen) /\ InputsEstimated(chosen) /\ step # 14
  <2>1. Program[step] = "flatten" /\ calls = <<>> /\ step # 14
    BY <1>0, <1>1, AtOperation
  <2>2. chosen \in NodeId /\ weight[chosen].def \in CanExpand
    BY <1>0, <1>1, <2>1 DEF EngineInv, TypeOK, LoopTyped, ControlInv
  <2> QED BY <1>0, <1>1, <2>1, <2>2 DEF ChosenReady
<1>3. CASE ExpandFails(chosen)
  <2>1. SameGraph /\ UNCHANGED est
    BY <1>3 DEF FlattenExpand, graphVars, SameGraph
  <2>2. CodecsKept
    BY <1>1 DEF CodecsKept
  <2> QED BY <1>1, <1>2, <2>1, <2>2, NothingBegun, SizesStay
<1>4. CASE ~ExpandFails(chosen)
  <2>1. Expand(chosen)
    BY <1>4 DEF FlattenExpand
  <2>2. Spliced(chosen)
    BY <1>0, <1>1, <1>2, <1>4, <2>1, ExpandSplices
  <2>3. GraphTyped'
    BY <1>0, FlattenExpandTyped DEF EngineInv, TypeOK
  <2> QED BY <1>1, <1>2, <2>2, <2>3, SpliceKeeps
<1> QED BY <1>3, <1>4

-----------------------------------------------------------------------------
(* Executing a node.                                                       *)

\* A graph that stays, whatever results its nodes get.
LEMMA GraphOnly ==
  ASSUME UNCHANGED graphVars
  PROVE  /\ Live' = Live
         /\ \A n : Parents(n)' = Parents(n) /\ OutOf(n)' = OutOf(n) /\ IoOf(n)' = IoOf(n)
         /\ \A n, kind : HasParent(n, kind)' = HasParent(n, kind) /\ Parent(n, kind)' = Parent(n, kind)
<1>1. Live' = Live /\ UNCHANGED <<edges, weight>>
  BY DEF graphVars, Live
<1>2. \A n : Parents(n)' = Parents(n) /\ OutOf(n)' = OutOf(n) /\ Into(n)' = Into(n) /\ IoOf(n)' = IoOf(n)
  BY <1>1 DEF Parents, OutOf, Into, IoOf
<1>3. \A n, kind : ParentsOf(n, kind)' = ParentsOf(n, kind)
  BY <1>2 DEF ParentsOf
<1>4. \A n, kind : HasParent(n, kind)' = HasParent(n, kind) /\ Parent(n, kind)' = Parent(n, kind)
  BY <1>3 DEF HasParent, Parent
<1> QED BY <1>1, <1>2, <1>4

\* The chosen node has run: it alone gets a result, and frames are consumed.
Ran ==
  /\ UNCHANGED <<graphVars, step>> /\ step = 14
  /\ chosen \in NodeId /\ chosen < nextNode /\ weight[chosen].def \in CanExecute
  /\ Complete(chosen) /\ result[chosen] = NoResult
  /\ calls' = <<>> /\ chosen' = 0
  /\ result'[chosen] # NoResult
  /\ \A m \in NodeId : m # chosen => result'[m] = result[m] \/ (Sized(m) /\ result'[m] = Consumed)
  /\ \A m \in NodeId : m # chosen => est'[m] = est[m]
  /\ result'[chosen] = Encoded => weight[chosen].def = "primitive_encoder" /\ est'[chosen] = est[chosen]
  /\ result'[chosen].k \in {"Frame", "Consumed"} => est'[chosen].k = "Some"

\* What another node's run leaves to a node.
LEMMA RanOthers ==
  ASSUME GraphTyped, Ran
  PROVE  /\ \A m \in NodeId : m # chosen => Sized(m)' = Sized(m) /\ (result'[m] = NoResult <=> result[m] = NoResult)
         /\ \A n : Complete(n) => Complete(n)' /\ chosen \notin Parents(n)
<1>1. ASSUME NEW m \in NodeId, m # chosen
      PROVE  Sized(m)' = Sized(m) /\ (result'[m] = NoResult <=> result[m] = NoResult)
  <2>1. CASE result'[m] = result[m]
    BY <2>1 DEF Sized
  <2>2. CASE Sized(m) /\ result'[m] = Consumed
    BY <2>2 DEF Sized, Consumed, NoResult
  <2> QED BY <1>1, <2>1, <2>2 DEF Ran
<1>2. ASSUME NEW n, Complete(n)
      PROVE  Complete(n)' /\ chosen \notin Parents(n)
  <2>1. Parents(n)' = Parents(n)
    BY GraphOnly DEF Ran
  <2>2. chosen \notin Parents(n)
    BY <1>2 DEF Ran, Complete
  <2>3. ASSUME NEW p \in Parents(n)
        PROVE  result'[p] # NoResult
    <3>1. p \in NodeId /\ p # chosen /\ result[p] # NoResult
      BY <1>2, <2>2, ParentType DEF Complete
    <3> QED BY <1>1, <3>1
  <2> QED BY <2>1, <2>2, <2>3 DEF Complete
<1> QED BY <1>1, <1>2

\* Results and estimates after a run.
LEMMA RanKeeps ==
  ASSUME TruthInv, Ran
  PROVE  ResultsInv' /\ EstimatesInv'
<1> DEFINE c == chosen
<1>0. GraphTyped /\ FramesTyped /\ ResultsInv /\ EstimatesInv
  BY TruthParts
<1>1. /\ UNCHANGED <<nodes, edges, weight, nextNode, step>> /\ step = 14 /\ c \in NodeId /\ c < nextNode
      /\ weight[c].def \in CanExecute /\ Complete(c) /\ result[c] = NoResult /\ result'[c] # NoResult
  BY DEF Ran, graphVars
<1>2. /\ Live' = Live
      /\ \A n : Parents(n)' = Parents(n) /\ OutOf(n)' = OutOf(n)
  BY GraphOnly DEF Ran
<1>3. /\ \A m \in NodeId : m # c => Sized(m)' = Sized(m) /\ (result'[m] = NoResult <=> result[m] = NoResult)
      /\ \A n : Complete(n) => Complete(n)' /\ c \notin Parents(n)
  BY <1>0, RanOthers
<1>4. \A n \in NodeId : n >= nextNode => n # c
  BY <1>0, <1>1 DEF GraphTyped, NodeId
<1>5. \A n \in NodeId : n >= nextNode' => result'[n] = NoResult /\ est'[n].k # "Some"
  BY <1>0, <1>1, <1>3, <1>4 DEF ResultsInv, Ran
<1>6. \A n \in NodeId : result'[n] # NoResult => Complete(n)' /\ weight'[n].def \in CanExecute
  BY <1>0, <1>1, <1>3 DEF ResultsInv
<1>7. ASSUME NEW n \in NodeId, result'[n] = Encoded
      PROVE  OutOf(n)' = {}
  <2>1. CASE n = c
    <3>1. weight[c].def = "primitive_encoder"
      BY <1>7, <2>1 DEF Ran
    <3>2. c \in Live
      BY <1>1 DEF TruthInv, GraphInv, ChosenIsLive, NodeId
    <3> QED BY <1>0, <1>1, <1>2, <2>1, <3>1, <3>2 DEF ResultsInv
  <2>2. CASE n # c
    <3>1. result[n] = Encoded
      BY <1>7, <2>2 DEF Ran, Encoded, Consumed
    <3> QED BY <1>0, <1>2, <3>1 DEF ResultsInv
  <2> QED BY <2>1, <2>2
<1>8. step' = 14 => \A n \in Live' : weight'[n].def = "primitive_encoder" => OutOf(n)' = {}
  BY <1>0, <1>1, <1>2 DEF ResultsInv
<1>9. ResultsInv'
  BY <1>5, <1>6, <1>7, <1>8 DEF ResultsInv
<1>10. ASSUME NEW n \in NodeId, result'[n] = NoResult, est'[n].k = "Some", NEW p \in Parents(n), Sized(p)'
       PROVE  est'[p].k = "Some"
  <2>1. n # c /\ result[n] = NoResult /\ est'[n] = est[n] /\ p \in NodeId
    BY <1>0, <1>1, <1>3, <1>10, ParentType DEF Ran
  <2>2. CASE p = c
    <3>1. result'[p].k \in {"Frame", "Consumed"}
      BY <1>10 DEF Sized
    <3> QED BY <2>2, <3>1 DEF Ran
  <2>3. CASE p # c
    <3>1. Sized(p) /\ est'[p] = est[p]
      BY <1>3, <1>10, <2>1, <2>3 DEF Ran
    <3> QED BY <1>0, <1>10, <2>1, <3>1 DEF EstimatesInv
  <2> QED BY <2>2, <2>3
<1>11. EstimatesInv'
  BY <1>2, <1>10 DEF EstimatesInv
<1> QED BY <1>9, <1>11

\* The sizes of other nodes stay true when the chosen node has run.
LEMMA RanTruth ==
  ASSUME TruthInv, Ran, CodecsKept, StableStep, NEW truth, Truthful(truth),
         NEW t, t \in [NodeId -> Estimates], \A m \in NodeId : m # chosen => t[m] = truth[m],
         NEW n \in NodeId, n # chosen, Sized(n)'
  PROVE  /\ t[n].k = "Some" /\ est'[n] \in {Unknown, t[n]}
         /\ result'[n].k = "Frame" => t[n] = SizeOf(result[n].b)'
         /\ Determined(t, n)'
<1>0. GraphTyped /\ FramesTyped /\ ResultsInv
  BY TruthParts
<1>1. Sized(n) /\ est'[n] = est[n] /\ t[n] = truth[n] /\ weight' = weight
  BY <1>0, RanOthers DEF Ran, graphVars
<1>2. /\ truth[n].k = "Some" /\ est[n] \in {Unknown, truth[n]} /\ Determined(truth, n)
      /\ result[n].k = "Frame" => truth[n] = SizeOf(result[n].b)
  BY <1>1 DEF Truthful
<1>3. result'[n].k = "Frame" => t[n] = SizeOf(result[n].b)'
  <2> SUFFICES ASSUME result'[n].k = "Frame" PROVE t[n] = SizeOf(result[n].b)'
    OBVIOUS
  <2>1. result'[n] = result[n]
    BY DEF Ran, Consumed
  <2>2. bitmap'[result[n].b] = bitmap[result[n].b]
    BY <2>1 DEF StableStep
  <2> QED BY <1>1, <1>2, <2>1, <2>2 DEF SizeOf
<1>4. Complete(n) /\ chosen \notin Parents(n)
  BY <1>0, <1>1, SizedExecuted, RanOthers
<1>5. \A kind : HasParent(n, kind) => t[Parent(n, kind)] = truth[Parent(n, kind)]
  <2> SUFFICES ASSUME NEW kind, HasParent(n, kind) PROVE t[Parent(n, kind)] = truth[Parent(n, kind)]
    OBVIOUS
  <2>1. Parent(n, kind) \in NodeId /\ Parent(n, kind) # chosen
    BY <1>0, <1>4, ParentType
  <2> QED BY <2>1
<1>6. /\ IoOf(n)' = IoOf(n) /\ HasParent(n, "canvas")' = HasParent(n, "canvas") /\ HasParent(n, "input")' = HasParent(n, "input")
      /\ Parent(n, "canvas")' = Parent(n, "canvas") /\ Parent(n, "input")' = Parent(n, "input")
  BY GraphOnly DEF Ran
<1>7. weight[n].def = "primitive_decoder" => IoOf(n) \in IoId
  BY <1>0, DecoderIo DEF Decoders
<1>8. weight'[n].def = "primitive_decoder" => codec'[IoOf(n)'].read > 0 /\ t[n] = Known(codec'[IoOf(n)'].w, codec'[IoOf(n)'].h)
  BY <1>1, <1>2, <1>6, <1>7 DEF Determined, CodecsKept
<1>9. Determined(t, n)'
  BY <1>1, <1>2, <1>5, <1>6, <1>8 DEF Determined
<1> QED BY <1>1, <1>2, <1>3, <1>9

\* A node that has produced a frame has its size.
LEMMA ProductionKeeps ==
  ASSUME TruthInv, Ran, CodecsKept, StableStep, NEW truth \in [NodeId -> Estimates], Truthful(truth),
         NEW size \in Estimates, size.k = "Some", est'[chosen] = size,
         NEW b, result'[chosen] = Frame(b), SizeOf(b)' = size,
         LET d == weight[chosen].def
             p == weight[chosen].p
         IN  /\ d # "primitive_encoder"
             /\ d = "create_canvas" => size = Known(p.a[1], p.a[2])
             /\ d = "primitive_decoder" => /\ codec'[IoOf(chosen)].read > 0
                                            /\ size = Known(codec'[IoOf(chosen)].w, codec'[IoOf(chosen)].h)
             /\ d = "crop_mutate" => size = Known(p.a[3] - p.a[1], p.a[4] - p.a[2])
             /\ d \in OneInputOneCanvas => HasParent(chosen, "canvas") /\ size = truth[Parent(chosen, "canvas")]
             /\ d \in MutateBitmap => HasParent(chosen, "input") /\ size = truth[Parent(chosen, "input")]
  PROVE  SizesInv'
<1> DEFINE c == chosen
<1>0. GraphTyped /\ FramesTyped /\ ResultsInv /\ c \in NodeId /\ Complete(c) /\ UNCHANGED weight
  BY TruthParts DEF Ran, graphVars
<1>1. PICK t : t = [truth EXCEPT ![c] = size]
  OBVIOUS
<1>2. t \in [NodeId -> Estimates] /\ t[c] = size /\ \A m \in NodeId : m # c => t[m] = truth[m]
  BY <1>0, <1>1
<1>3. c \notin Parents(c)
  BY <1>0, RanOthers
<1>4. \A kind : HasParent(c, kind) => t[Parent(c, kind)] = truth[Parent(c, kind)]
  <2> SUFFICES ASSUME NEW kind, HasParent(c, kind) PROVE t[Parent(c, kind)] = truth[Parent(c, kind)]
    OBVIOUS
  <2>1. Parent(c, kind) \in NodeId /\ Parent(c, kind) # c
    BY <1>0, <1>3, ParentType
  <2> QED BY <1>2, <2>1
<1>6. ASSUME NEW n \in NodeId, n = chosen
      PROVE  Determined(t, n)'
  <2>1. /\ IoOf(n)' = IoOf(n) /\ HasParent(n, "canvas")' = HasParent(n, "canvas") /\ HasParent(n, "input")' = HasParent(n, "input")
        /\ Parent(n, "canvas")' = Parent(n, "canvas") /\ Parent(n, "input")' = Parent(n, "input")
    BY GraphOnly DEF Ran
  <2> QED BY <1>0, <1>2, <1>4, <1>6, <2>1 DEF Determined
<1>7. ASSUME NEW n \in NodeId, Sized(n)'
      PROVE  /\ t[n].k = "Some" /\ est'[n] \in {Unknown, t[n]}
             /\ result'[n].k = "Frame" => t[n] = SizeOf(result[n].b)'
             /\ Determined(t, n)'
  <2>1. CASE n = c
    <3>1. SizeOf(result[n].b)' = SizeOf(b)'
      BY <2>1 DEF SizeOf, Frame
    <3> QED BY <1>2, <1>6, <2>1, <3>1
  <2>2. CASE n # c
    BY <1>2, <1>7, <2>2, RanTruth
  <2> QED BY <2>1, <2>2
<1>8. Truthful(t)'
  BY <1>7 DEF Truthful
<1>9. StackInv' /\ ChosenReady'
  BY NothingBegun DEF Ran
<1> QED BY <1>2, <1>8, <1>9, RanKeeps DEF SizesInv

\* The chosen node when its turn to execute has come.
LEMMA Turn ==
  ASSUME TruthInv, NEW ds \in SUBSET CanExecute, ReadyTo(ds)
  PROVE  /\ chosen \in NodeId /\ chosen < nextNode /\ weight[chosen].def \in ds /\ weight[chosen].p \in Params
         /\ Complete(chosen) /\ result[chosen] = NoResult /\ step = 14 /\ calls = <<>>
<1>1. EngineInv /\ chosen \in NodeId /\ weight[chosen].def \in ds /\ weight[chosen].p \in Params /\ calls = <<>>
  BY TruthParts, ChosenTyped
<1>2. chosen # 0
  BY DEF ReadyTo
<1>3. step = 14
  BY <1>1, AtOperation DEF ReadyTo
<1>4. chosen < nextNode
  BY <1>2 DEF TruthInv, GraphInv, ChosenIsLive, HandedOut
<1> QED BY <1>1, <1>2, <1>3, <1>4, TruthParts DEF ChosenReady

\* A frame on a new bitmap.
LEMMA NewProduction ==
  ASSUME TruthInv, NEW ds \in SUBSET CanExecute, ReadyTo(ds), UNCHANGED executeFrame,
         NEW content, ProduceNew(content)
  PROVE  \E b : /\ Ran /\ est'[chosen] = Known(content.w, content.h)
                /\ result'[chosen] = Frame(b) /\ SizeOf(b)' = Known(content.w, content.h)
<1>1. PICK b : b = nextBitmap
  OBVIOUS
<1>2. /\ chosen \in NodeId /\ chosen < nextNode /\ weight[chosen].def \in ds /\ Complete(chosen)
      /\ result[chosen] = NoResult /\ step = 14 /\ calls = <<>>
  BY Turn
<1>3. /\ bitmap' = [bitmap EXCEPT ![b] = content] /\ est' = [est EXCEPT ![chosen] = EstimateOf(content)]
      /\ chosen' = 0 /\ result' = [result EXCEPT ![chosen] = Frame(b)] /\ nextBitmap <= MaxBitmaps
  BY <1>1 DEF ProduceNew, Produce
<1>4. /\ FramesTyped /\ est \in [NodeId -> Estimates] /\ result \in [NodeId -> Results] /\ DOMAIN bitmap = BitmapId
      /\ b \in BitmapId
  BY <1>1, <1>3, TruthParts, BoundsAssumption DEF FramesTyped, BitmapId
<1>5. /\ result'[chosen] = Frame(b) /\ est'[chosen] = Known(content.w, content.h) /\ bitmap'[b] = content
      /\ \A m \in NodeId : m # chosen => result'[m] = result[m] /\ est'[m] = est[m]
  BY <1>2, <1>3, <1>4 DEF EstimateOf
<1>6. Frame(b) # NoResult /\ Frame(b) # Encoded /\ Known(content.w, content.h).k = "Some"
  BY KnownIsSome DEF Frame, NoResult, Encoded
<1>7. SizeOf(b)' = Known(content.w, content.h)
  BY <1>5 DEF SizeOf
<1>8. calls' = <<>> /\ UNCHANGED <<graphVars, step>>
  BY <1>2 DEF executeFrame
<1>9. Ran
  BY <1>2, <1>3, <1>5, <1>6, <1>8 DEF Ran
<1> QED BY <1>5, <1>7, <1>9

\* A frame on the bitmap of a parent, whose own result is consumed.
LEMMA TakenProduction ==
  ASSUME TruthInv, NEW ds \in SUBSET CanExecute, ReadyTo(ds), UNCHANGED executeFrame, NEW kind,
         Holds(chosen, kind), TakeOver(chosen, kind), NEW content, Produce(Held(chosen, kind), content)
  PROVE  \E b : /\ Ran /\ est'[chosen] = Known(content.w, content.h)
                /\ result'[chosen] = Frame(b) /\ SizeOf(b)' = Known(content.w, content.h)
<1>1. PICK b : b = Held(chosen, kind)
  OBVIOUS
<1>2. PICK q : q = Parent(chosen, kind)
  OBVIOUS
<1>3. /\ chosen \in NodeId /\ chosen < nextNode /\ weight[chosen].def \in ds /\ Complete(chosen)
      /\ result[chosen] = NoResult /\ step = 14 /\ calls = <<>>
  BY Turn
<1>4. /\ bitmap' = [bitmap EXCEPT ![b] = content] /\ est' = [est EXCEPT ![chosen] = EstimateOf(content)]
      /\ chosen' = 0 /\ result' = [result EXCEPT ![q] = Consumed, ![chosen] = Frame(b)]
  BY <1>1, <1>2 DEF TakeOver, Produce
<1>5. /\ GraphTyped /\ FramesTyped /\ est \in [NodeId -> Estimates] /\ result \in [NodeId -> Results]
      /\ DOMAIN bitmap = BitmapId
  BY TruthParts DEF FramesTyped
<1>6. b \in BitmapId /\ q \in NodeId /\ result[q] = Frame(b)
  BY <1>1, <1>2, <1>5, HeldType
<1>7. q # chosen /\ Sized(q)
  BY <1>3, <1>6 DEF Frame, NoResult, Sized
<1>8. /\ result'[chosen] = Frame(b) /\ est'[chosen] = Known(content.w, content.h) /\ bitmap'[b] = content
      /\ \A m \in NodeId : m # chosen => est'[m] = est[m]
      /\ \A m \in NodeId : m # chosen /\ m # q => result'[m] = result[m]
      /\ result'[q] = Consumed
  BY <1>3, <1>4, <1>5, <1>6, <1>7 DEF EstimateOf
<1>9. Frame(b) # NoResult /\ Frame(b) # Encoded /\ Known(content.w, content.h).k = "Some"
  BY KnownIsSome DEF Frame, NoResult, Encoded
<1>10. SizeOf(b)' = Known(content.w, content.h)
  BY <1>8 DEF SizeOf
<1>11. calls' = <<>> /\ UNCHANGED <<graphVars, step>>
  BY <1>3 DEF executeFrame
<1>12. \A m \in NodeId : m # chosen => result'[m] = result[m] \/ (Sized(m) /\ result'[m] = Consumed)
  BY <1>7, <1>8
<1>13. Ran
  BY <1>3, <1>4, <1>8, <1>9, <1>11, <1>12 DEF Ran
<1> QED BY <1>8, <1>10, <1>13

\* The size of a result a node is given.
LEMMA GivenSize ==
  ASSUME TruthInv, NEW truth, Truthful(truth), NEW n, NEW kind, Holds(n, kind)
  PROVE  /\ HasParent(n, kind)
         /\ truth[Parent(n, kind)] = Known(bitmap[Held(n, kind)].w, bitmap[Held(n, kind)].h)
<1>1. GraphTyped /\ FramesTyped
  BY TruthParts
<1>2. Parent(n, kind) \in NodeId /\ result[Parent(n, kind)].k = "Frame" /\ HasParent(n, kind)
  BY <1>1, HeldType DEF Holds
<1> QED BY <1>2 DEF Truthful, Sized, SizeOf, Held

\* A new canvas has the size of its parameters.
LEMMA CanvasSized ==
  ASSUME TruthInv, [Next]_vars, CreateCanvas
  PROVE  SizesInv'
<1> DEFINE a == weight[chosen].p.a
           content == Canvas(a[1], a[2])
           size == Known(a[1], a[2])
<1>1. /\ ReadyTo({"create_canvas"}) /\ Accepts(chosen) /\ ProduceNew(content)
      /\ UNCHANGED executeFrame /\ UNCHANGED codec
  BY DEF CreateCanvas, CanDo
<1>2. {"create_canvas"} \in SUBSET CanExecute
  BY DEF CanExecute
<1>3. weight[chosen].def = "create_canvas" /\ weight[chosen].p \in Params
  BY <1>1, <1>2, Turn
<1>4. a[1] \in Nat /\ a[2] \in Nat
  BY <1>1, <1>3, TwoFields DEF Accepts, ParamsValid, Decoders, OneInputOneCanvas, Mutating, MutateBitmap
<1>5. content.w = a[1] /\ content.h = a[2]
  BY DEF Canvas, Make
<1>6. size \in Estimates /\ size.k = "Some"
  BY <1>4, KnownType, KnownIsSome
<1>7. PICK b : Ran /\ est'[chosen] = size /\ result'[chosen] = Frame(b) /\ SizeOf(b)' = size
  <2> HIDE DEF content
  <2> QED BY <1>1, <1>2, <1>5, NewProduction
<1>8. CodecsKept
  BY <1>1 DEF CodecsKept
<1>9. StableStep
  BY StepStable DEF TruthInv
<1>10. PICK truth \in [NodeId -> Estimates] : Truthful(truth)
  BY DEF TruthInv, SizesInv
<1>11. weight[chosen].def \notin OneInputOneCanvas \cup MutateBitmap \cup {"primitive_encoder", "primitive_decoder", "crop_mutate"}
  BY <1>3 DEF OneInputOneCanvas, MutateBitmap
<1> QED BY <1>6, <1>7, <1>8, <1>9, <1>10, <1>11, ProductionKeeps

\* A decoded frame has the size the decoder keeps from then on.
LEMMA DecodedSized ==
  ASSUME TruthInv, [Next]_vars, Decode
  PROVE  SizesInv'
<1>1. PICK io : io = IoOf(chosen)
  OBVIOUS
<1>2. PICK c : c = Informed(job.io[io], codec[io])
  OBVIOUS
<1> DEFINE content == Resampled(Source(io, c.read, job.io[io].w, job.io[io].h), c.w, c.h)
           size == Known(c.w, c.h)
<1>3. /\ ReadyTo({"primitive_decoder"}) /\ UNCHANGED executeFrame
      /\ codec' = [codec EXCEPT ![io] = [c EXCEPT !.read = @ + 1]] /\ ProduceNew(content)
  BY <1>1, <1>2 DEF Decode, CanDo
<1>4. {"primitive_decoder"} \in SUBSET CanExecute
  BY DEF CanExecute
<1>5. weight[chosen].def = "primitive_decoder" /\ chosen \in NodeId
  BY <1>3, <1>4, Turn
<1>6. GraphTyped /\ FramesTyped /\ codec \in [IoId -> CodecStates] /\ job \in Jobs
  BY TruthParts DEF FramesTyped
<1>7. io \in IoId
  BY <1>1, <1>5, <1>6, DecoderIo DEF Decoders
<1>8. c \in CodecStates
  BY <1>2, <1>6, <1>7, JobsAssumption, InformedType
<1>9. /\ codec'[io].read = c.read + 1 /\ codec'[io].w = c.w /\ codec'[io].h = c.h
      /\ \A i \in IoId : i # io => codec'[i] = codec[i]
  BY <1>3, <1>6, <1>7, <1>8 DEF CodecStates
<1>10. c.read \in Nat /\ c.w \in Nat /\ c.h \in Nat
  BY <1>8 DEF CodecStates
<1>11. CodecsKept
  <2> SUFFICES ASSUME NEW i \in IoId, codec[i].read > 0
               PROVE  codec'[i].read > 0 /\ codec'[i].w = codec[i].w /\ codec'[i].h = codec[i].h
    BY DEF CodecsKept
  <2>1. CASE i = io
    <3>1. c.w = codec[io].w /\ c.h = codec[io].h
      BY <1>2, <1>6, <1>7, <2>1, CodecSettles
    <3> QED BY <1>9, <1>10, <2>1, <3>1
  <2> QED BY <1>9, <2>1
<1>12. content.w = c.w /\ content.h = c.h
  BY DEF Resampled, Make
<1>13. size \in Estimates /\ size.k = "Some"
  BY <1>10, KnownType, KnownIsSome
<1>14. PICK b : Ran /\ est'[chosen] = size /\ result'[chosen] = Frame(b) /\ SizeOf(b)' = size
  <2> HIDE DEF content
  <2> QED BY <1>3, <1>4, <1>12, NewProduction
<1>15. StableStep
  BY StepStable DEF TruthInv
<1>16. PICK truth \in [NodeId -> Estimates] : Truthful(truth)
  BY DEF TruthInv, SizesInv
<1>17. weight[chosen].def \notin OneInputOneCanvas \cup MutateBitmap \cup {"primitive_encoder", "create_canvas", "crop_mutate"}
  BY <1>5 DEF OneInputOneCanvas, MutateBitmap
<1>18. codec'[IoOf(chosen)].read > 0 /\ size = Known(codec'[IoOf(chosen)].w, codec'[IoOf(chosen)].h)
  BY <1>1, <1>9, <1>10
<1> HIDE DEF size
<1> QED BY <1>11, <1>13, <1>14, <1>15, <1>16, <1>17, <1>18, ProductionKeeps

\* Drawing on a canvas keeps its size; a transposed image fits its canvas exactly.
LEMMA RenderKeepsSize ==
  ASSUME NEW d \in OneInputOneCanvas, NEW p, NEW canvas, NEW input, RenderFits(d, p, canvas, input)
  PROVE  Render(d, p, canvas, input).w = canvas.w /\ Render(d, p, canvas, input).h = canvas.h
<1>1. CASE d = "copy_rect"
  BY <1>1 DEF Render, Pasted, Make
<1>2. CASE d = "transpose_mut"
  BY <1>2 DEF Render, RenderFits, Transposed, Make
<1>3. CASE d = "scale_2d_to_canvas"
  BY <1>3 DEF Render, Resampled, Make
<1>4. CASE d = "draw_image_exact"
  BY <1>4 DEF Render, Drawn, Pasted, Make
<1> QED BY <1>1, <1>2, <1>3, <1>4 DEF OneInputOneCanvas

\* A rendered frame has the size of its canvas.
LEMMA RenderedSized ==
  ASSUME TruthInv, [Next]_vars, RenderToCanvas
  PROVE  SizesInv'
<1> DEFINE d == weight[chosen].def
           cv == bitmap[Held(chosen, "canvas")]
           content == Render(d, weight[chosen].p, cv, bitmap[Held(chosen, "input")])
           size == Known(cv.w, cv.h)
<1>1. /\ ReadyTo(OneInputOneCanvas) /\ Accepts(chosen) /\ UNCHANGED executeFrame
      /\ Produce(Held(chosen, "canvas"), content) /\ TakeOver(chosen, "canvas") /\ UNCHANGED codec
  BY DEF RenderToCanvas, CanDo
<1>2. OneInputOneCanvas \in SUBSET CanExecute
  BY DEF CanExecute
<1>3. d \in OneInputOneCanvas /\ chosen \in NodeId
  BY <1>1, <1>2, Turn
<1>4. Holds(chosen, "canvas") /\ RenderFits(d, weight[chosen].p, cv, bitmap[Held(chosen, "input")])
  BY <1>1, <1>3 DEF Accepts, OneInputOneCanvas, Mutating, MutateBitmap
<1>5. content.w = cv.w /\ content.h = cv.h
  BY <1>3, <1>4, RenderKeepsSize
<1>6. size \in Estimates /\ size.k = "Some"
  <2>1. cv.w \in Nat /\ cv.h \in Nat
    BY <1>4, TruthParts, HeldType
  <2> QED BY <2>1, KnownType, KnownIsSome
<1>7. PICK b : Ran /\ est'[chosen] = size /\ result'[chosen] = Frame(b) /\ SizeOf(b)' = size
  <2>1. size = Known(content.w, content.h)
    BY <1>5
  <2> HIDE DEF content, size
  <2> QED BY <1>1, <1>2, <1>4, <2>1, TakenProduction
<1>8. CodecsKept
  BY <1>1 DEF CodecsKept
<1>9. StableStep
  BY StepStable DEF TruthInv
<1>10. PICK truth \in [NodeId -> Estimates] : Truthful(truth)
  BY DEF TruthInv, SizesInv
<1>11. HasParent(chosen, "canvas") /\ size = truth[Parent(chosen, "canvas")]
  BY <1>4, <1>10, GivenSize
<1>12. d \notin MutateBitmap \cup {"primitive_encoder", "primitive_decoder", "create_canvas", "crop_mutate"}
  BY <1>3 DEF OneInputOneCanvas, MutateBitmap
<1> HIDE DEF size
<1> QED BY <1>6, <1>7, <1>8, <1>9, <1>10, <1>11, <1>12, ProductionKeeps

\* Changing an image in place keeps its size, except for a crop.
LEMMA MutateKeepsSize ==
  ASSUME NEW d \in Mutating, NEW p, NEW b
  PROVE  /\ d \in MutateBitmap => Mutate(d, p, b).w = b.w /\ Mutate(d, p, b).h = b.h
         /\ d = "crop_mutate" => Mutate(d, p, b).w = p.a[3] - p.a[1] /\ Mutate(d, p, b).h = p.a[4] - p.a[2]
<1>1. CASE d = "crop_mutate"
  BY <1>1 DEF Mutate, Cropped, Make, MutateBitmap
<1>2. CASE d = "fill_rect"
  BY <1>2 DEF Mutate, Filled, Make
<1>3. CASE d = "flip_v_primitive"
  BY <1>3 DEF Mutate, FlippedV, Make
<1>4. CASE d = "flip_h_primitive"
  BY <1>4 DEF Mutate, FlippedH, Make
<1>5. CASE d = "color_matrix_srgb_mutate"
  BY <1>5 DEF Mutate, Tinted, Make
<1> QED BY <1>1, <1>2, <1>3, <1>4, <1>5 DEF Mutating, MutateBitmap

\* A frame changed in place has the size of the input, or of the crop.
LEMMA MutatedSized ==
  ASSUME TruthInv, [Next]_vars, MutateInput
  PROVE  SizesInv'
<1> DEFINE d == weight[chosen].def
           p == weight[chosen].p
           image == bitmap[Held(chosen, "input")]
           content == Mutate(d, p, image)
           size == Known(content.w, content.h)
<1>1. /\ ReadyTo(Mutating) /\ Accepts(chosen) /\ UNCHANGED executeFrame
      /\ Produce(Held(chosen, "input"), content) /\ TakeOver(chosen, "input") /\ UNCHANGED codec
  BY DEF MutateInput, CanDo
<1>2. Mutating \in SUBSET CanExecute
  BY DEF CanExecute, Mutating
<1>3. d \in Mutating /\ p \in Params /\ chosen \in NodeId
  BY <1>1, <1>2, Turn
<1>4. Holds(chosen, "input") /\ MutateFits(d, p, image)
  BY <1>1, <1>3 DEF Accepts, OneInputOneCanvas, Mutating, MutateBitmap
<1>5. size \in Estimates /\ size.k = "Some"
  <2>1. image.w \in Nat /\ image.h \in Nat
    BY <1>4, TruthParts, HeldType
  <2>2. content.w \in Nat /\ content.h \in Nat
    BY <1>3, <1>4, <2>1, MutateSize
  <2> QED BY <2>2, KnownType, KnownIsSome
<1>6. PICK b : Ran /\ est'[chosen] = size /\ result'[chosen] = Frame(b) /\ SizeOf(b)' = size
  <2> HIDE DEF content
  <2> QED BY <1>1, <1>2, <1>4, TakenProduction
<1>7. CodecsKept
  BY <1>1 DEF CodecsKept
<1>8. StableStep
  BY StepStable DEF TruthInv
<1>9. PICK truth \in [NodeId -> Estimates] : Truthful(truth)
  BY DEF TruthInv, SizesInv
<1>10. d \in MutateBitmap => HasParent(chosen, "input") /\ size = truth[Parent(chosen, "input")]
  BY <1>3, <1>4, <1>9, GivenSize, MutateKeepsSize
<1>11. d = "crop_mutate" => size = Known(p.a[3] - p.a[1], p.a[4] - p.a[2])
  BY <1>3, MutateKeepsSize
<1>12. d \notin OneInputOneCanvas \cup {"primitive_encoder", "primitive_decoder", "create_canvas"}
  BY <1>3 DEF OneInputOneCanvas, Mutating, MutateBitmap
<1> HIDE DEF size
<1> QED BY <1>5, <1>6, <1>7, <1>8, <1>9, <1>10, <1>11, <1>12, ProductionKeeps

\* An encoder has no frame of its own: no size changes.
LEMMA EncodedSized ==
  ASSUME TruthInv, [Next]_vars, Encode
  PROVE  SizesInv'
<1>1. /\ ReadyTo({"primitive_encoder"}) /\ UNCHANGED executeFrame /\ UNCHANGED <<est, codec>>
      /\ result' = [result EXCEPT ![chosen] = Encoded] /\ chosen' = 0
  BY DEF Encode, CanDo
<1>2. {"primitive_encoder"} \in SUBSET CanExecute
  BY DEF CanExecute
<1>3. /\ chosen \in NodeId /\ chosen < nextNode /\ weight[chosen].def = "primitive_encoder"
      /\ Complete(chosen) /\ result[chosen] = NoResult /\ step = 14 /\ calls = <<>>
  BY <1>1, <1>2, Turn
<1>4. result \in [NodeId -> Results] /\ est \in [NodeId -> Estimates]
  BY TruthParts DEF FramesTyped
<1>5. result'[chosen] = Encoded /\ \A m \in NodeId : m # chosen => result'[m] = result[m]
  BY <1>1, <1>3, <1>4
<1>6. Encoded # NoResult /\ Encoded.k \notin {"Frame", "Consumed"}
  BY DEF Encoded, NoResult
<1>7. weight[chosen].def \in CanExecute
  BY <1>2, <1>3
<1>8. calls' = <<>> /\ UNCHANGED <<graphVars, step>>
  BY <1>1, <1>3 DEF executeFrame
<1>9. Ran
  BY <1>1, <1>3, <1>5, <1>6, <1>7, <1>8 DEF Ran
<1>10. PICK truth \in [NodeId -> Estimates] : Truthful(truth)
  BY DEF TruthInv, SizesInv
<1>11. CodecsKept /\ StableStep
  BY <1>1, StepStable DEF TruthInv, CodecsKept
<1>12. ASSUME NEW n \in NodeId, Sized(n)'
       PROVE  /\ truth[n].k = "Some" /\ est'[n] \in {Unknown, truth[n]}
              /\ result'[n].k = "Frame" => truth[n] = SizeOf(result[n].b)'
              /\ Determined(truth, n)'
  <2>1. n # chosen
    BY <1>5, <1>6, <1>12 DEF Sized
  <2> QED BY <1>9, <1>10, <1>11, <1>12, <2>1, RanTruth
<1>13. Truthful(truth)'
  BY <1>12 DEF Truthful
<1>14. StackInv' /\ ChosenReady'
  BY <1>1, <1>8, NothingBegun
<1> QED BY <1>9, <1>10, <1>13, <1>14, RanKeeps DEF SizesInv

-----------------------------------------------------------------------------
(* All steps.                                                              *)

\* A frame starts with nothing estimated and nothing run.
LEMMA InitSized == Init => SizesInv
<1> SUFFICES ASSUME Init PROVE SizesInv
  OBVIOUS
<1>1. \A n \in NodeId : result[n] = NoResult /\ est[n] = Unknown
  BY DEF Init
<1>2. \A n \in NodeId : ~Sized(n) /\ est[n].k # "Some" /\ result[n] # Encoded
  BY <1>1, KnownIsSome DEF Sized, NoResult, Encoded
<1>3. calls = <<>> /\ chosen = 0 /\ step = 1 /\ DOMAIN calls = {}
  BY DEF Init
<1>4. ResultsInv /\ EstimatesInv
  BY <1>1, <1>2, <1>3 DEF ResultsInv, EstimatesInv
<1>5. StackInv /\ ChosenReady
  BY <1>3 DEF StackInv, StackOf, ChosenReady
<1>6. Truthful([n \in NodeId |-> Unknown])
  BY <1>2 DEF Truthful
<1>7. [n \in NodeId |-> Unknown] \in [NodeId -> Estimates]
  BY DEF Estimates, Unknown, Est
<1> QED BY <1>4, <1>5, <1>6, <1>7 DEF SizesInv

\* The next frame starts the same way.
LEMMA NextFrameSized ==
  ASSUME TruthInv, NextFrame
  PROVE  SizesInv'
<1>1. \A n \in NodeId : result'[n] = NoResult /\ est'[n] = Unknown
  BY DEF NextFrame
<1>2. \A n \in NodeId : ~Sized(n)' /\ est'[n].k # "Some" /\ result'[n] # Encoded
  BY <1>1, KnownIsSome DEF Sized, NoResult, Encoded
<1>3. calls' = <<>> /\ chosen' = 0 /\ step' = 1
  BY TruthParts, AtOperation DEF NextFrame
<1>4. ResultsInv' /\ EstimatesInv'
  BY <1>1, <1>2, <1>3 DEF ResultsInv, EstimatesInv
<1>5. StackInv' /\ ChosenReady'
  BY <1>3, NothingBegun
<1>6. PICK truth \in [NodeId -> Estimates] : Truthful(truth)
  BY DEF TruthInv, SizesInv
<1>7. Truthful(truth)'
  BY <1>2 DEF Truthful
<1> QED BY <1>4, <1>5, <1>6, <1>7 DEF SizesInv

\* Every step keeps the sizes true.
LEMMA StepTrue == TruthInv /\ [Next]_vars => TruthInv'
<1> SUFFICES ASSUME TruthInv, [Next]_vars PROVE TruthInv'
  OBVIOUS
<1>1. OwnershipInv'
  BY StepOwned DEF TruthInv
<1>2. GraphInv'
  BY StepIntact DEF TruthInv, OwnershipInv
<1>3. Quiet \/ FlattenExpand \/ NextFrame => SizesInv'
  BY QuietKeeps, ExpandKeeps, NextFrameSized
<1>4. CreateCanvas \/ Decode \/ Encode \/ RenderToCanvas \/ MutateInput => SizesInv'
  BY CanvasSized, DecodedSized, EncodedSized, RenderedSized, MutatedSized
<1>5. SizesInv'
  BY <1>3, <1>4, StepKinds
<1> QED BY <1>1, <1>2, <1>5 DEF TruthInv

\* Sizes are true, whatever the job: a node that has run has a size that its
\* definition and its parents determine, and its estimate is that size or has
\* been dropped by a command string's invalidation, never anything else.
THEOREM TruthInvariant == Spec => []TruthInv
<1>1. Init => SizesInv
  BY InitSized
<1>2. TruthInv /\ [Next]_vars => TruthInv'
  BY StepTrue
<1>3. OwnershipInv /\ GraphInv /\ SizesInv => TruthInv
  BY DEF TruthInv
<1>4. Spec => OwnershipInv /\ GraphInv
  BY OwnershipInvariant, GraphInvariant, PTL
<1> QED
  BY <1>1, <1>2, <1>3, <1>4, PTL DEF Spec

\* A node about to be expanded after a parent has run finds in the parent's
\* estimate the true size of the frame it will be given, so what it expands
\* to (rectangles, canvases, scales) fits that frame.
THEOREM ExpansionSeesTruth == Spec => []ExpandSeesTruth
<1>1. TruthInv => ExpandSeesTruth
  <2> SUFFICES ASSUME TruthInv, At("flatten"), chosen # 0, NEW q \in Parents(chosen), result[q].k = "Frame"
               PROVE  est[q] = Known(bitmap[result[q].b].w, bitmap[result[q].b].h)
    BY DEF ExpandSeesTruth
  <2>1. GraphTyped /\ ChosenReady
    BY TruthParts
  <2>2. q \in NodeId /\ Sized(q)
    BY <2>1, ParentType DEF Sized
  <2>3. InputsEstimated(chosen)
    BY <2>1 DEF ChosenReady, At
  <2>4. est[q].k = "Some"
    BY <2>3 DEF InputsEstimated
  <2>5. PICK truth \in [NodeId -> Estimates] : Truthful(truth)
    BY DEF TruthInv, SizesInv
  <2>6. est[q] = truth[q] /\ truth[q] = SizeOf(result[q].b)
    BY <2>2, <2>4, <2>5, KnownIsSome DEF Truthful
  <2> QED BY <2>6 DEF SizeOf
<1> QED
  BY <1>1, TruthInvariant, PTL
=============================================================================
