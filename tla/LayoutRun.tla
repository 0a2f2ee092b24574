------------------------------- MODULE LayoutRun -------------------------------
(***************************************************************************)
(* A list of steps, carried out on a layout one after the other, with the  *)
(* sequences that are skipped (Layout::execute_all of                      *)
(* imageflow_riapi/src/sizing.rs).                                         *)
(***************************************************************************)
EXTENDS Sizing, Sequences

VARIABLES original, plan, lay, rest, skipping, verdict

layout == <<original, plan, lay, rest, skipping, verdict>>

Start(o, t, steps) ==
  /\ original = o /\ plan = steps /\ lay = LayoutOf(o, t)
  /\ rest = steps /\ skipping = FALSE /\ verdict = "running"

Execute(l, step) ==
  CASE step.do = "x" -> Execute1D(l, TRUE, step.one)
    [] step.do = "y" -> Execute1D(l, FALSE, step.one)
    [] OTHER -> Execute2D(l, step)

Skips(step) == step.do # "begin" /\ (skipping \/ BeginsSkip(lay, step))

Advance ==
  /\ verdict = "running" /\ rest # <<>>
  /\ LET step == Head(rest)
         results == IF Skips(step) THEN {lay} ELSE Execute(lay, step) IN
     /\ skipping' = Skips(step) /\ rest' = Tail(rest)
     /\ IF results = {} THEN verdict' = "failed" /\ UNCHANGED lay
                        ELSE lay' \in results /\ UNCHANGED verdict
  /\ UNCHANGED <<original, plan>>

Done == verdict = "running" /\ rest = <<>>

-----------------------------------------------------------------------------
TypeOK ==
  /\ lay \in [canvas : Sizes, image : Sizes, source : Sizes, target : Sizes]
  /\ original \in Sizes /\ verdict \in {"running", "failed"} /\ skipping \in BOOLEAN

(* Whatever is done in whatever order, the source stays within the         *)
(* original and the image within the canvas, on which it is to be placed   *)
(* (layout.rs:243 and :332 rely on both).                                  *)
StaysWithin == ~ExceedsAny(lay.source, original) /\ ~ExceedsAny(lay.image, lay.canvas)

(* Steps that keep proportions leave the image as wide for its height as   *)
(* the part of the source it shows, but for less than a pixel at each side *)
(* (sizing.rs:12).                                                         *)
Narrower(a, b) == (a.w - 1) * (b.h - 1) < (b.w + 1) * (a.h + 1)
ProportionsAreKept ==
  (\A n \in DOMAIN plan : plan[n].do \notin {"distort", "x", "y"}) => Narrower(lay.image, lay.source) /\ Narrower(lay.source, lay.image)
=============================================================================
