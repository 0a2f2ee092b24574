---------------------------- MODULE ObjectTracking ----------------------------
(***************************************************************************)
(* The C context's heap: c_components/lib/context_heap.c, with the parts   *)
(* of context.c that end a context, and its clients that are not plain     *)
(* allocations (the decoders of codecs_jpeg.c and codecs_png.c, scale2d.c, *)
(* the output buffer of io.c).                                             *)
(*                                                                         *)
(* Every object has a record in a table.  Destroying one walks the table   *)
(* and calls back into clients, so a destruction is a stack of calls, one  *)
(* step of one call at a time.  Sizes, statistics and call sites are left  *)
(* out.  An allocation that fails changes nothing here.  Slots are         *)
(* numbered from 1.                                                        *)
(***************************************************************************)
EXTENDS Integers, Sequences, FiniteSets

CONSTANTS Addr, Context, NULL,
          MinSlots, \* the least size of a table that is not empty (64 in the code)
          MaxSlots, \* bound of the model: a table as large as this grows no more
          Aborts,   \* clients may give up between adopting an object and allocating one
          Abandons  \* contexts may be ended with a decoder's scratch below its state

ASSUME HeapAssumption ==
  /\ Context # NULL /\ Context \notin Addr /\ NULL \notin Addr
  /\ MinSlots \in Nat \ {0} /\ MaxSlots \in Nat
  /\ Aborts \in BOOLEAN /\ Abandons \in BOOLEAN

VARIABLES
  slots,   \* tracking->allocs
  next,    \* tracking->next_free_slot
  heap,    \* the addresses the underlying heap has handed out
  scratch, \* scratch[d]: what the destructor of the decoder at d will free
  stack,   \* the calls a destruction is in the middle of, innermost last
  phase    \* of the context: "open", "terminating", "swept", "ended" or "exited"

vars == <<slots, next, heap, scratch, stack, phase>>

(* What add resets, is_owner and destructor_called, is reset here already. *)
Cleared == [ptr |-> NULL, owner |-> NULL, destructor |-> FALSE, called |-> FALSE, isOwner |-> FALSE]
Record == [ptr: Addr \cup {NULL}, owner: Addr \cup {Context, NULL},
           destructor: BOOLEAN, called: BOOLEAN, isOwner: BOOLEAN]

Used == {i \in DOMAIN slots : slots[i].ptr # NULL}
Tracked == {slots[i].ptr : i \in Used}
Scratch == {scratch[d] : d \in Addr} \ {NULL}

(* flow_objtracking_get_record_id_by_ptr searches from the end.            *)
IsSlotOf(i, a) == i \in DOMAIN slots /\ slots[i].ptr = a /\ \A j \in DOMAIN slots : j > i => slots[j].ptr # a
SlotOf(a) == CHOOSE i \in DOMAIN slots : IsSlotOf(i, a)

Frame(op, arg, at, stage) == [op |-> op, arg |-> arg, at |-> at, stage |-> stage]

Init ==
  /\ slots = <<>> /\ next = 1
  /\ heap = {}
  /\ scratch = [a \in Addr |-> NULL]
  /\ stack = <<>>
  /\ phase = "open"

-----------------------------------------------------------------------------
(* flow_objtracking_expand_record_array *)
NewSize == LET twice == 2 * Len(slots) + 1 IN IF twice < MinSlots THEN MinSlots ELSE twice
Expanded ==
  IF next = Len(slots) + 1
  THEN [i \in 1 .. NewSize |-> IF i \in DOMAIN slots THEN slots[i] ELSE Cleared]
  ELSE slots

FreeAfterAll(s, i, n) ==   \* variant: the first slot after the last one taken
  /\ n \in i + 1 .. Len(s) + 1
  /\ \A j \in n .. Len(s) : s[j].ptr = NULL
  /\ n > i + 1 => s[n - 1].ptr # NULL

(* n is the next free slot of s after slot i, or one past the end.         *)
FreeAfter(s, i, n) ==
  /\ n \in i + 1 .. Len(s) + 1
  /\ \A j \in i + 1 .. n - 1 : s[j].ptr # NULL
  /\ n <= Len(s) => s[n].ptr = NULL

(* flow_objtracking_add: the record of a, and the mark on that of its      *)
(* owner.  A slot that is taken already is an error.                       *)
Add(a, o, d) ==
  LET table  == Expanded
      marked == [i \in DOMAIN table |->
                   IF table[i].ptr = o THEN [table[i] EXCEPT !.isOwner = TRUE] ELSE table[i]]
      new    == [Cleared EXCEPT !.ptr = a, !.owner = o, !.destructor = d]
  IN  /\ table[next].ptr = NULL
      /\ slots' = [marked EXCEPT ![next] = new]
      /\ \E n \in 1 .. Len(table) + 1 : FreeAfter(table, next, n) /\ next' = n

Idle == phase = "open" /\ stack = <<>>

(* flow_context_malloc and flow_context_calloc.  The underlying heap gives *)
(* out any address that is not in use.                                     *)
Allocate(a, o, d) ==
  /\ Idle
  /\ a \in Addr \ heap
  /\ o \in (Tracked \ Scratch) \cup {Context}
  /\ next <= Len(slots) \/ NewSize <= MaxSlots
  /\ Add(a, o, d)
  /\ heap' = heap \cup {a}
  /\ UNCHANGED <<stack, phase>>

Malloc(a, o) == Allocate(a, o, FALSE) /\ UNCHANGED scratch

(* flow_codecs_initialize_decode_*: the state, and its destructor.         *)
CreateDecoder(a) == Allocate(a, Context, TRUE) /\ UNCHANGED scratch

(* flow_io_create_for_file: an io has a destructor, which frees nothing    *)
(* that is tracked, and any owner.                                         *)
CreateIo(a, o) == o # Context /\ Allocate(a, o, TRUE) /\ UNCHANGED scratch

(* BeginRead and FinishRead of a decoder: what it works with is owned by   *)
(* the context, and freed by the decoder.                                  *)
BeginRead(d, a) ==
  /\ d \in Tracked /\ slots[SlotOf(d)].destructor /\ slots[SlotOf(d)].owner = Context
  /\ scratch[d] = NULL
  /\ Allocate(a, Context, FALSE)
  /\ scratch' = [scratch EXCEPT ![d] = a]

(* flow_context_realloc: the record keeps its owner and destructor.  Only  *)
(* output buffers are reallocated, and they own nothing.                   *)
Realloc(a, b) ==
  /\ Idle
  /\ a \in Tracked /\ b \in Addr \ heap
  /\ ~slots[SlotOf(a)].isOwner /\ ~slots[SlotOf(a)].destructor
  /\ \A i \in Used : slots[i].owner # a
  /\ a \notin Scratch
  /\ slots' = [slots EXCEPT ![SlotOf(a)].ptr = b]
  /\ heap' = (heap \ {a}) \cup {b}
  /\ UNCHANGED <<next, scratch, stack, phase>>

IsAncestor(a, b) ==
  LET Under[n \in 0 .. Cardinality(Tracked)] ==
        IF n = 0 THEN {a} ELSE {a} \cup {c \in Tracked : slots[SlotOf(c)].owner \in Under[n - 1]}
  IN  b \in Under[Cardinality(Tracked)]

(* flow_set_owner: the record of the new owner is not marked.  Clients     *)
(* have plain allocations adopted, and none by what is below it.           *)
SetOwner(a, o) ==
  /\ Idle
  /\ a \in Tracked \ Scratch /\ ~slots[SlotOf(a)].destructor
  /\ o = NULL \/ (o \in Tracked \ Scratch /\ ~IsAncestor(a, o))
  /\ slots' = [slots EXCEPT ![SlotOf(a)].owner = o]
  /\ UNCHANGED <<next, heap, scratch, stack, phase>>

-----------------------------------------------------------------------------
(* Steps 3 to 5 of flow_objtracking_partial_destroy_by_record, and what    *)
(* each of its callers does next: lower next_free_slot.                    *)
Lower(i) == IF next > i THEN i ELSE next

Clear(s, i) == [s EXCEPT ![i] = Cleared]

(* flow_deprecated_free, of an object without children.  What the context  *)
(* has no record of makes it exit the process.                             *)
FreeScratch(d, s) ==
  IF scratch[d] \in Tracked
  THEN LET i == SlotOf(scratch[d])
       IN  /\ slots' = Clear(s, i)
           /\ heap' = heap \ {scratch[d]}
           /\ next' = Lower(i)
           /\ scratch' = [scratch EXCEPT ![d] = NULL]
           /\ UNCHANGED phase
  ELSE phase' = "exited" /\ UNCHANGED <<slots, next, heap, scratch>>

FinishRead(d) ==
  /\ Idle
  /\ d \in Tracked /\ scratch[d] # NULL
  /\ FreeScratch(d, slots)
  /\ UNCHANGED stack

(* flow_destroy.  scale2d.c adopts before it allocates what it needs; if   *)
(* an allocation fails in between, it destroys an owner that is not        *)
(* marked.                                                                 *)
Settled == \A i \in Used, j \in Used : slots[i].owner = slots[j].ptr => slots[j].isOwner

Destroy(a) ==
  /\ Idle
  /\ a \in Tracked \ Scratch
  /\ Aborts \/ Settled
  /\ stack' = <<Frame("destroy", a, 1, "enter")>>
  /\ UNCHANGED <<slots, next, heap, scratch, phase>>

(* flow_context_begin_terminate and flow_context_end_terminate *)
BeginTerminate ==
  /\ Idle
  /\ Aborts \/ Settled
  /\ Abandons \/ \A d \in Tracked : scratch[d] # NULL => SlotOf(scratch[d]) > SlotOf(d)
  /\ phase' = "terminating"
  /\ stack' = <<Frame("destroy", Context, 1, "enter")>>
  /\ UNCHANGED <<slots, next, heap, scratch>>

EndTerminate ==
  /\ phase = "swept"
  /\ phase' = "ended"
  /\ slots' = <<>> /\ next' = 1
  /\ UNCHANGED <<heap, scratch, stack>>

-----------------------------------------------------------------------------
Top == stack[Len(stack)]
Below == SubSeq(stack, 1, Len(stack) - 1)
Become(f) == stack' = Append(Below, f)
Call(f, g) == stack' = Append(Append(Below, f), g)
Running(op) == phase \in {"open", "terminating"} /\ stack # <<>> /\ Top.op = op

(* The next record at or after `from` that is owned by o.                  *)
IsNextOwned(o, from, j) ==
  /\ j \in Used /\ j >= from /\ slots[j].owner = o
  /\ \A i \in Used : i >= from /\ slots[i].owner = o => j <= i
NoneOwned(o, from) == \A i \in Used : i >= from => slots[i].owner # o

(* flow_destroy, or the body of flow_context_begin_terminate, around what  *)
(* it calls.                                                               *)
EnterDestroy ==
  /\ Running("destroy") /\ Top.stage = "enter"
  /\ Call([Top EXCEPT !.stage = "return"],
          IF Top.arg = Context THEN Frame("by_owner", Context, 1, "seek")
                               ELSE Frame("partial", Top.arg, SlotOf(Top.arg), "children"))
  /\ UNCHANGED <<slots, next, heap, scratch, phase>>

ReturnDestroy ==
  /\ Running("destroy") /\ Top.stage = "return"
  /\ stack' = Below
  /\ phase' = IF phase = "terminating" THEN "swept" ELSE phase
  /\ UNCHANGED <<slots, next, heap, scratch>>

(* flow_objtracking_call_destructor: at most once per record.  The         *)
(* destructors free what their decoder still holds.                        *)
CallDestructor(i) ==
  LET r      == slots[i]
      marked == [slots EXCEPT ![i].called = TRUE]
  IN  IF ~r.destructor \/ r.called
      THEN UNCHANGED <<slots, next, heap, scratch, phase>>
      ELSE IF scratch[r.ptr] = NULL
           THEN slots' = marked /\ UNCHANGED <<next, heap, scratch, phase>>
           ELSE FreeScratch(r.ptr, marked)

(* flow_call_destructors_recursive: of all that arg owns, children first.  *)
SeekChild ==
  /\ Running("destructors") /\ Top.stage = "seek"
  /\ \E j \in Used :
       /\ IsNextOwned(Top.arg, Top.at, j)
       /\ LET here == [Top EXCEPT !.at = j, !.stage = "call"]
          IN  IF slots[j].isOwner THEN Call(here, Frame("destructors", slots[j].ptr, 1, "seek"))
                                  ELSE Become(here)
  /\ UNCHANGED <<slots, next, heap, scratch, phase>>

DestructChildAgain ==   \* variant: the walk does not go on
  /\ Running("destructors") /\ Top.stage = "call"
  /\ CallDestructor(Top.at)
  /\ Become([Top EXCEPT !.stage = "seek"])

DestructChild ==
  /\ Running("destructors") /\ Top.stage = "call"
  /\ CallDestructor(Top.at)
  /\ Become([Top EXCEPT !.at = Top.at + 1, !.stage = "seek"])

DestructorsDone ==
  /\ Running("destructors") /\ Top.stage = "seek"
  /\ NoneOwned(Top.arg, Top.at)
  /\ stack' = Below
  /\ UNCHANGED <<slots, next, heap, scratch, phase>>

PartialOwnFirst ==   \* variant: the children's destructors are not called first
  /\ Running("partial") /\ Top.stage = "children"
  /\ Become([Top EXCEPT !.stage = "own"])
  /\ UNCHANGED <<slots, next, heap, scratch, phase>>

(* flow_objtracking_partial_destroy_by_record: destructors of the          *)
(* children, its own, then the children themselves, then its memory.       *)
PartialChildren ==
  /\ Running("partial") /\ Top.stage = "children"
  /\ LET here == [Top EXCEPT !.stage = "own"]
     IN  IF slots[Top.at].isOwner THEN Call(here, Frame("destructors", Top.arg, 1, "seek")) ELSE Become(here)
  /\ UNCHANGED <<slots, next, heap, scratch, phase>>

PartialOwnLeaf ==   \* variant: what the object owns is not destroyed
  /\ Running("partial") /\ Top.stage = "own"
  /\ CallDestructor(Top.at)
  /\ Become([Top EXCEPT !.stage = "free"])

PartialOwn ==
  /\ Running("partial") /\ Top.stage = "own"
  /\ CallDestructor(Top.at)
  /\ LET here == [Top EXCEPT !.stage = "free"]
     IN  IF slots[Top.at].isOwner THEN Call(here, Frame("by_owner", Top.arg, 1, "seek")) ELSE Become(here)

PartialFree ==
  /\ Running("partial") /\ Top.stage = "free"
  /\ slots' = Clear(slots, Top.at)
  /\ heap' = heap \ {Top.arg}
  /\ next' = Lower(Top.at)
  /\ scratch' = [scratch EXCEPT ![Top.arg] = NULL]
  /\ stack' = Below
  /\ UNCHANGED phase

DestroyEveryOther ==   \* variant: the walk skips a record
  /\ Running("by_owner")
  /\ \E j \in Used :
       /\ IsNextOwned(Top.arg, Top.at, j)
       /\ Call([Top EXCEPT !.at = j + 2], Frame("partial", slots[j].ptr, j, "children"))
  /\ UNCHANGED <<slots, next, heap, scratch, phase>>

(* flow_destroy_by_owner *)
DestroyNextOwned ==
  /\ Running("by_owner")
  /\ \E j \in Used :
       /\ IsNextOwned(Top.arg, Top.at, j)
       /\ Call([Top EXCEPT !.at = j + 1], Frame("partial", slots[j].ptr, j, "children"))
  /\ UNCHANGED <<slots, next, heap, scratch, phase>>

DestroyedOwned ==
  /\ Running("by_owner")
  /\ NoneOwned(Top.arg, Top.at)
  /\ stack' = Below
  /\ UNCHANGED <<slots, next, heap, scratch, phase>>

Destroying ==
  \/ EnterDestroy \/ ReturnDestroy
  \/ SeekChild \/ DestructChild \/ DestructorsDone
  \/ PartialChildren \/ PartialOwn \/ PartialFree
  \/ DestroyNextOwned \/ DestroyedOwned
  \/ EndTerminate

Client ==
  \/ \E a \in Addr, o \in Addr \cup {Context} : Malloc(a, o) \/ CreateIo(a, o)
  \/ \E a \in Addr : CreateDecoder(a) \/ FinishRead(a) \/ Destroy(a)
  \/ \E a, b \in Addr : BeginRead(a, b) \/ Realloc(a, b)
  \/ \E a \in Addr, o \in Addr \cup {NULL} : SetOwner(a, o)
  \/ BeginTerminate

(* An ended context is gone, and so is an exited process.                  *)
Over == phase \in {"ended", "exited"} /\ UNCHANGED vars

Next == Client \/ Destroying \/ Over
Spec == Init /\ [][Next]_vars

(* A destruction is a plain call on one thread.                            *)
FairSpec == Spec /\ WF_vars(Destroying)

-----------------------------------------------------------------------------
(* The type of the heap's state, and a destruction only in a context that  *)
(* is open or terminating.                                                 *)
TypeOK ==
  /\ slots \in Seq(Record)
  /\ next \in Nat \ {0}
  /\ heap \subseteq Addr
  /\ scratch \in [Addr -> Addr \cup {NULL}]
  /\ phase \in {"open", "terminating", "swept", "ended", "exited"}

(* However slots are reused, no two records are of one address, and until  *)
(* the context ends the records are of all that the underlying heap has    *)
(* handed out, and of nothing else (context_heap.c:62-109, 265-310).       *)
TableMatchesHeap ==
  /\ \A i, j \in Used : slots[i].ptr = slots[j].ptr => i = j
  /\ phase # "ended" => heap = Tracked

(* next_free_slot is the lowest free slot or the end of the table, also    *)
(* while destructors free what sits in lower slots: an allocation never    *)
(* meets a taken slot and never grows a table that has room                *)
(* (context_heap.c:66-79, 321-323, 383-385, 410-412).                      *)
NextIsLowestFree ==
  /\ next <= Len(slots) + 1
  /\ \A i \in DOMAIN slots : i < next => slots[i].ptr # NULL
  /\ next \in DOMAIN slots => slots[next].ptr = NULL

(* Destructors run bottom up, whatever order the records are in: when one  *)
(* is called those of all the object owns have been, and no memory goes    *)
(* before its destructor was called or while it owns anything              *)
(* (context_heap.c:240-310).                                               *)
DestructorsFirst ==
  [][\A i \in Used :
       LET r     == slots[i]
           owned == {j \in Used : slots[j].owner = r.ptr}
       IN  i \in DOMAIN slots' =>
             /\ ~r.called /\ slots'[i].ptr = r.ptr /\ slots'[i].called
                  => \A j \in owned : slots[j].destructor => slots[j].called
             /\ slots'[i].ptr = NULL
                  => owned = {} /\ (r.destructor => r.called)
    ]_vars

(* A context that has been swept holds only what was given up on purpose   *)
(* (owner NULL) and what that owns (imageflow_advanced.h:46-53).           *)
TeardownFreesAll ==
  phase = "swept" => \A i \in Used : slots[i].owner \in Tracked \cup {NULL}

(* Nothing is freed that the context has no record of, which would end the *)
(* process (context_heap.c:389-398).                                       *)
NothingFreedTwice == phase # "exited"

(* Each destruction returns, and a context that begins to terminate ends:  *)
(* the recursion over the table is never entered for ever                  *)
(* (context_heap.c:240-327).                                               *)
DestructionReturns ==
  /\ phase = "open" /\ stack # <<>> ~> phase = "open" /\ stack = <<>>
  /\ phase = "terminating" ~> phase = "ended"

(* The table, the flags and the walks over them implement a forest of      *)
(* ownership: objects go leaves first, and only those below what is        *)
(* destroyed, or a decoder's own scratch.                                  *)
Forest ==
  INSTANCE OwnershipForest WITH
    owner  <- [a \in Tracked |-> slots[SlotOf(a)].owner],
    doomed <- IF stack = <<>> THEN {} ELSE {stack[1].arg}
ImplementsForest == Forest!Spec
=============================================================================
