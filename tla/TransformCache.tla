---------------------------- MODULE TransformCache ----------------------------
(***************************************************************************)
(* The colour transforms that all jobs of a process share                  *)
(* (ColorTransformCache of imageflow_core/src/codecs/mod.rs), one map for  *)
(* ICC profiles and one for gamma values, each used by any number of       *)
(* threads without a lock around the check of its length, the look-up, the *)
(* insertion and the use of an entry.                                      *)
(***************************************************************************)
EXTENDS Integers, FiniteSets, FiniteSetsExt

CONSTANTS Threads,   \* jobs that decode at the same time
          Profiles,  \* colours a decoder may find, told apart behind the first 80 bytes
          OfPng,     \* those of them that are ICC profiles of a PNG, whose decoder leaves buf_length 0
          Formats,   \* pixel formats of 4 bytes
          Limit      \* transforms to cache: 4 for gamma values, 9 for ICC profiles

CacheAssumption == IsFiniteSet(Threads) /\ OfPng \subseteq Profiles /\ Limit \in Nat \ {0}

VARIABLES
  entries, \* the map: how often a key is in it, with insert_new not looking for a duplicate
  pc,      \* where each thread is
  frame,   \* the profile and format of the frame it transforms
  using    \* the profile and format its transform was made for, or None

vars == <<entries, pc, frame, using>>

Colors == [profile : Profiles, format : Formats]
None == [profile |-> "none", format |-> "none"]

Keys == DOMAIN entries
HashOfProfile(c) == c.profile   \* variant: the pixel format is not part of the hash
Hash(c) == c
(* len                                                                     *)
Length == MapThenSumSet(LAMBDA k : entries[k].times, Keys)

Init ==
  /\ entries = [k \in {} |-> None]
  /\ pc = [t \in Threads |-> "idle"]
  /\ frame = [t \in Threads |-> None] /\ using = [t \in Threads |-> None]

Goto(t, where) == pc' = [pc EXCEPT ![t] = where]

(* A frame is decoded, with a colour that is not sRGB already.  A panic    *)
(* ends the job, not the thread.                                           *)
Decode(t) ==
  /\ pc[t] \in {"idle", "panicked"}
  /\ \E c \in Colors : frame' = [frame EXCEPT ![t] = c]
  /\ using' = [using EXCEPT ![t] = None]
  /\ Goto(t, "measure") /\ UNCHANGED entries

IsFullNever == FALSE   \* variant: the length is not looked at
IsFull == Length > Limit - 1

(* A full cache is not looked into: the transform is the thread's own.     *)
(* Both creating a transform and hashing take an ICC profile to have bytes.*)
Measure(t) ==
  /\ pc[t] = "measure"
  /\ \/ frame[t].profile \in OfPng /\ Goto(t, "panicked") /\ UNCHANGED using
     \/ /\ frame[t].profile \notin OfPng /\ IsFull
        /\ \/ using' = [using EXCEPT ![t] = frame[t]] /\ Goto(t, "apply")
           \/ Goto(t, "idle") /\ UNCHANGED using   \* not a profile
     \/ frame[t].profile \notin OfPng /\ ~IsFull /\ Goto(t, "look") /\ UNCHANGED using
  /\ UNCHANGED <<entries, frame>>

Look(t) ==
  /\ pc[t] = "look"
  /\ Goto(t, IF Hash(frame[t]) \in Keys THEN "get" ELSE "insert")
  /\ UNCHANGED <<entries, frame, using>>

(* Creating a transform may fail, for a profile that is not one.           *)
FailToCreate(t) ==
  /\ pc[t] = "insert"
  /\ Goto(t, "idle") /\ UNCHANGED <<entries, frame, using>>

With(k, c) ==
  [key \in Keys \cup {k} |->
     IF key # k THEN entries[key]
     ELSE [color |-> IF k \in Keys THEN entries[k].color ELSE c,
           times |-> IF k \in Keys THEN entries[k].times + 1 ELSE 1]]

Insert(t) ==
  /\ pc[t] = "insert"
  /\ entries' = With(Hash(frame[t]), frame[t])
  /\ Goto(t, "get") /\ UNCHANGED <<frame, using>>

(* get(..).unwrap()                                                        *)
Get(t) ==
  /\ pc[t] = "get"
  /\ IF Hash(frame[t]) \in Keys
     THEN using' = [using EXCEPT ![t] = entries[Hash(frame[t])].color] /\ Goto(t, "apply")
     ELSE UNCHANGED using /\ Goto(t, "lost")
  /\ UNCHANGED <<entries, frame>>

Apply(t) ==
  /\ pc[t] = "apply"
  /\ Goto(t, "idle") /\ UNCHANGED <<entries, frame, using>>

Step(t) == Decode(t) \/ Measure(t) \/ Look(t) \/ FailToCreate(t) \/ Insert(t) \/ Get(t) \/ Apply(t)
Next == \E t \in Threads : Step(t)

Spec == Init /\ [][Next]_vars

-----------------------------------------------------------------------------
TypeOK ==
  /\ \A k \in Keys : entries[k] \in [color : Colors, times : Nat \ {0}]
  /\ pc \in [Threads -> {"idle", "measure", "look", "insert", "get", "apply", "panicked", "lost"}]
  /\ frame \in [Threads -> Colors \cup {None}] /\ using \in [Threads -> Colors \cup {None}]

(* Pixels are changed by the transform of their own profile and format,    *)
(* whoever made it (codecs/mod.rs:481-524).                                *)
OwnTransform == \A t \in Threads : pc[t] = "apply" => using[t] = frame[t]

(* What was seen in the map is still there when it is used: nothing is     *)
(* ever taken out (codecs/mod.rs:503).                                     *)
SeenIsThere == \A t \in Threads : pc[t] = "get" => Hash(frame[t]) \in Keys

(* The length may be passed, but only by the threads that were behind the  *)
(* check already.                                                          *)
OvershootIsBounded == Length <= Limit - 1 + Cardinality(Threads)
=============================================================================
