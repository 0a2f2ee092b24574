----------------------------- MODULE AddRemoveSet -----------------------------
(***************************************************************************)
(* A set that only grows and lends its values out (AppendOnlySet and       *)
(* AddRemoveSet of imageflow_types/src/collections.rs): a context keeps    *)
(* its codecs in one.  Values are known by their address; a removed value  *)
(* leaves a hole that keeps its place and its address.                     *)
(***************************************************************************)
EXTENDS Integers, Sequences

CONSTANTS Address,   \* of the boxes the values are in
          MaxLoans   \* bound on the shared references to one value

SetAssumption == MaxLoans \in Nat \ {0}

VARIABLE slots   \* AppendOnlySet.slots, each a RefCell<Option<T>> in a box

Exclusively == -1

(* loans is what the RefCell counts: how often the value is lent, or that  *)
(* it is lent to be changed.                                               *)
Slot == [at : Address, present : BOOLEAN, loans : {Exclusively} \cup 0 .. MaxLoans]

Used == {slots[i].at : i \in DOMAIN slots}
Held == {slots[i].at : i \in {j \in DOMAIN slots : slots[j].present}}

(* try_borrow and try_borrow_mut                                           *)
Shareable  == {i \in DOMAIN slots : slots[i].loans >= 0}
Changeable == {i \in DOMAIN slots : slots[i].loans = 0}

Init == slots = <<>>

(* add and add_mut give a reference to the value they add.                 *)
AddLent(a, loans) ==
  /\ a \notin Used
  /\ slots' = Append(slots, [at |-> a, present |-> TRUE, loans |-> loans])

Add(a)    == AddLent(a, 1)
AddMut(a) == AddLent(a, Exclusively)

LookupHopeful(a, accessible) ==   \* variant: what could not be looked at is not remembered
  IF \E i \in accessible : slots[i].present /\ slots[i].at = a THEN "found" ELSE "none"
(* The search of try_get_reference and try_get_option_reference_mut, which *)
(* goes on behind a slot it cannot look at.                                *)
Lookup(a, accessible) ==
  IF \E i \in accessible : slots[i].present /\ slots[i].at = a THEN "found"
  ELSE IF accessible # DOMAIN slots THEN "error" ELSE "none"

(* try_get_reference                                                       *)
TryGet(a) ==
  \E i \in Shareable :
    /\ slots[i].at = a /\ slots[i].present
    /\ slots[i].loans < MaxLoans
    /\ slots' = [slots EXCEPT ![i].loans = @ + 1]

(* try_get_reference_mut                                                   *)
TryGetMut(a) ==
  \E i \in Changeable :
    /\ slots[i].at = a /\ slots[i].present
    /\ slots' = [slots EXCEPT ![i].loans = Exclusively]

TryRemove(a) ==
  \E i \in Changeable :
    /\ slots[i].at = a /\ slots[i].present
    /\ slots' = [slots EXCEPT ![i].present = FALSE]

(* A reference goes out of scope.                                          *)
Release(i) ==
  /\ slots[i].loans # 0
  /\ slots' = [slots EXCEPT ![i].loans = IF @ = Exclusively THEN 0 ELSE @ - 1]

(* clear empties the slots in order up to the first that is lent.          *)
Clear ==
  slots' = [i \in DOMAIN slots |->
              IF \A j \in 1 .. i : j \in Changeable THEN [slots[i] EXCEPT !.present = FALSE] ELSE slots[i]]

(* mut_clear: whoever may change the set itself has lent nothing.          *)
MutClear ==
  /\ Changeable = DOMAIN slots
  /\ slots' = <<>>

Next ==
  \/ \E a \in Address : Add(a) \/ AddMut(a) \/ TryGet(a) \/ TryGetMut(a) \/ TryRemove(a)
  \/ \E i \in DOMAIN slots : Release(i)
  \/ Clear \/ MutClear

Spec == Init /\ [][Next]_slots

-----------------------------------------------------------------------------
TypeOK == slots \in Seq(Slot)

(* An address stands for one value.                                        *)
Distinct == \A i, j \in DOMAIN slots : slots[i].at = slots[j].at => i = j

(* Whoever holds a reference holds a value: neither try_remove nor clear   *)
(* empties a slot that is lent (collections.rs:125-147).                   *)
LentExists == \A i \in DOMAIN slots : slots[i].loans # 0 => slots[i].present

(* "Ok(None) means it definitely doesn't exist in the set", and "Ok(false) *)
(* - certainly didn't exist" (collections.rs:110, 137).                    *)
AbsenceIsCertain ==
  \A a \in Address : \A free \in {Shareable, Changeable} : Lookup(a, free) = "none" => a \notin Held

(* What nobody changes can be shared, whatever else in the set is lent: a  *)
(* codec can be used while another is (collections.rs:152-170).            *)
SharedIsFound ==
  \A i \in Shareable : slots[i].present => Lookup(slots[i].at, Shareable) = "found"

(* A pointer to a removed value never comes to mean another value: its box *)
(* stays in the set, empty, until the whole set goes (collections.rs:86).  *)
RemovedStaysRemoved ==
  [][\A i \in DOMAIN slots :
       slots' # <<>> => /\ i \in DOMAIN slots' /\ slots'[i].at = slots[i].at
                        /\ slots'[i].present => slots[i].present]_slots
=============================================================================
