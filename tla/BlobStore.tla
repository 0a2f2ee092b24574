------------------------------- MODULE BlobStore -------------------------------
(***************************************************************************)
(* What a cache folder promises to those who use it: a store of whole      *)
(* blobs, each put in one step over whatever was there, from which entries *)
(* may get lost.                                                           *)
(***************************************************************************)
CONSTANTS Keys, Blobs, None

VARIABLE store

Init == store = [k \in Keys |-> None]
Put == \E k \in Keys, b \in Blobs : store' = [store EXCEPT ![k] = b]
Lose == \E ks \in SUBSET Keys : store' = [k \in Keys |-> IF k \in ks THEN None ELSE store[k]]
Spec == Init /\ [][Put \/ Lose]_store
=============================================================================
