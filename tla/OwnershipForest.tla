--------------------------- MODULE OwnershipForest ----------------------------
(***************************************************************************)
(* What the context's heap (c_components/lib/context_heap.c) promises its  *)
(* clients, without the table it keeps: every object has an owner, an      *)
(* object is released after all that it owns, and destroying one returns   *)
(* when nothing below it is left.  ObjectTracking implements this.         *)
(***************************************************************************)
EXTENDS Functions

CONSTANTS Addr,    \* addresses of the underlying heap
          Context, \* owns what nobody else does
          NULL     \* the owner of what outlives the context

VARIABLES owner,   \* owner[a], for the objects a that exist
          doomed   \* what is being destroyed, if anything is

vars == <<owner, doomed>>

Objects == DOMAIN owner
OwnedBy(x) == {a \in Objects : owner[a] = x}

Init == owner = [a \in {} |-> NULL] /\ doomed = {}

(* An object below x.                                                      *)
IsBelow(a, x) ==
  LET Above[b \in Objects] == b = x \/ owner[b] = x \/ (owner[b] \in Objects /\ Above[owner[b]])
  IN  Above[a]

New(a, o) ==
  /\ doomed = {}
  /\ a \notin Objects
  /\ o \in Objects \cup {Context}
  /\ owner' = [b \in Objects \cup {a} |-> IF b = a THEN o ELSE owner[b]]
  /\ UNCHANGED doomed

Adopt(a, o) ==
  /\ doomed = {}
  /\ o = NULL \/ (o \in Objects /\ ~IsBelow(o, a))
  /\ owner' = [owner EXCEPT ![a] = o]
  /\ UNCHANGED doomed

(* A reallocated object may move; what it is owned by does not change.     *)
Move(a, b) ==
  /\ doomed = {}
  /\ OwnedBy(a) = {}
  /\ b \notin Objects
  /\ owner' = [c \in (Objects \ {a}) \cup {b} |-> IF c = b THEN owner[a] ELSE owner[c]]
  /\ UNCHANGED doomed

Destroy(x) ==
  /\ doomed = {}
  /\ x \in Objects \cup {Context}
  /\ doomed' = {x}
  /\ UNCHANGED owner

(* Objects go after all they own, and nothing goes that the destroyed      *)
(* object did not own, but for what a client frees itself, which it may    *)
(* also do while it is being destroyed.                                    *)
Release(a) ==
  /\ a \in Objects
  /\ OwnedBy(a) = {}
  /\ owner[a] = Context \/ \E x \in doomed : IsBelow(a, x)
  /\ owner' = Restrict(owner, Objects \ {a})
  /\ UNCHANGED doomed

Return ==
  /\ doomed # {}
  /\ \A x \in doomed : x \notin Objects /\ OwnedBy(x) = {}
  /\ doomed' = {}
  /\ UNCHANGED owner

(* The context ends: it has nothing left, and what it was told to give up  *)
(* outlives it.                                                            *)
End ==
  /\ doomed = {} /\ OwnedBy(Context) = {}
  /\ owner' = Restrict(owner, {})
  /\ UNCHANGED doomed

Next ==
  \/ \E a \in Addr : Release(a)
  \/ \E a \in Addr, o \in Addr \cup {Context} : New(a, o)
  \/ \E a \in Objects, o \in Addr \cup {NULL} : Adopt(a, o)
  \/ \E a \in Objects, b \in Addr : Move(a, b)
  \/ \E x \in Addr \cup {Context} : Destroy(x)
  \/ Return \/ End

Spec == Init /\ [][Next]_vars
=============================================================================
