------------------------------- MODULE DiskCache -------------------------------
(***************************************************************************)
(* A folder of blobs (CacheFolder and CacheEntry of                        *)
(* imageflow_server/src/disk_cache.rs): an entry is written to a file of   *)
(* its own in a staging folder and renamed to its place, by any number of  *)
(* threads, while directories are deleted under them, writes fail and the  *)
(* process ends.  Unlinking a file or a directory takes what is below it.  *)
(***************************************************************************)
EXTENDS Integers, FiniteSets

CONSTANTS
  Threads, Keys, Blobs, None,
  Cut,        \* a file that is not whole
  Leaf,       \* the directory of each key's entry
  MaxHarm     \* deletions, failures and ends of the process that are looked at

ASSUME DiskCacheAssumption ==
  None \notin Blobs \cup {"read_error", "cut"} /\ Cut \notin Blobs \cup {None} /\ MaxHarm \in Nat

VARIABLES
  dirs,       \* the directories that exist
  marked,     \* the file in meta that names the layout
  entries,    \* the blob at each entry's place, Cut for one that is not whole
  staged,     \* the staging file of each thread
  leftovers,  \* staging files that nobody will rename
  confirmed,  \* root_confirmed, meta_layout_confirmed
  pc, call,   \* where each thread is, and its key and blob
  outcome,    \* of its last call
  deleted,    \* whether anything was ever deleted
  harm

vars == <<dirs, marked, entries, staged, leftovers, confirmed, pc, call, outcome, deleted, harm>>

Contents == Blobs \cup {Cut, None}
Leaves == {Leaf[k] : k \in Keys}
AllDirs == {"root", "meta", "staging", "slot"} \cup Leaves
(* A directory and those above it.                                         *)
WithParents(d) == {d, "root"} \cup (IF d = "slot" THEN {"staging"} ELSE {})
Made(d) == WithParents(d)
NoCall == [key |-> None, blob |-> None]

Init ==
  /\ dirs = {} /\ marked = FALSE
  /\ entries = [k \in Keys |-> None] /\ staged = [t \in Threads |-> None] /\ leftovers = 0
  /\ confirmed = {}
  /\ pc = [t \in Threads |-> "idle"] /\ call = [t \in Threads |-> NoCall]
  /\ outcome = [t \in Threads |-> None]
  /\ deleted = FALSE /\ harm = 0

Files == <<marked, entries, staged, leftovers>>
Calls == <<call, outcome>>
Faults == <<deleted, harm>>

Goto(t, where) == pc' = [pc EXCEPT ![t] = where]
End(t, how) == Goto(t, "idle") /\ outcome' = [outcome EXCEPT ![t] = how] /\ call' = [call EXCEPT ![t] = NoCall]

(* A call gets and, if there is no entry, puts: exists, then read or write. *)
Start(t) ==
  /\ pc[t] = "idle"
  /\ \E k \in Keys, b \in Blobs :
       /\ call' = [call EXCEPT ![t] = [key |-> k, blob |-> b]]
       /\ Goto(t, IF entries[k] = None THEN "root" ELSE "read")
  /\ outcome' = [outcome EXCEPT ![t] = None]
  /\ UNCHANGED <<dirs, Files, confirmed, Faults>>

Read(t) ==
  /\ pc[t] = "read"
  /\ LET b == entries[call[t].key] IN
     outcome' = [outcome EXCEPT ![t] = IF b = None THEN "read_error" ELSE IF b = Cut THEN "cut" ELSE "read"]
  /\ Goto(t, "idle") /\ call' = [call EXCEPT ![t] = NoCall]
  /\ UNCHANGED <<dirs, Files, confirmed, Faults>>

-----------------------------------------------------------------------------
(* create_dir_all of d, unless there is no need to; confirmed only by the  *)
(* thread that made it.                                                    *)
Ensure(t, at, d, needed, flags, next) ==
  /\ pc[t] = at
  /\ IF needed THEN dirs' = dirs \cup Made(d) /\ confirmed' = confirmed \cup flags
               ELSE UNCHANGED <<dirs, confirmed>>
  /\ Goto(t, next) /\ UNCHANGED <<Files, Calls, Faults>>

EnsureRoot(t) == Ensure(t, "root", "root", "root" \notin confirmed /\ "root" \notin dirs, {"root"}, "meta")

LayoutIsKnown == "meta" \in confirmed \/ marked
EnsureMeta(t) ==
  /\ pc[t] = "meta"
  /\ IF LayoutIsKnown THEN Goto(t, "leaf") /\ UNCHANGED dirs
                      ELSE Goto(t, "mark") /\ dirs' = dirs \cup Made("meta")
  /\ UNCHANGED <<Files, confirmed, Calls, Faults>>

(* File::create of the marker; what fails here, prepare_for unwraps.       *)
Mark(t) ==
  /\ pc[t] = "mark"
  /\ IF "meta" \in dirs
     THEN marked' = TRUE /\ confirmed' = confirmed \cup {"meta"} /\ Goto(t, "leaf") /\ UNCHANGED Calls
     ELSE End(t, "panic") /\ UNCHANGED <<marked, confirmed>>
  /\ UNCHANGED <<dirs, entries, staged, leftovers, Faults>>

EnsureLeaf(t) == Ensure(t, "leaf", Leaf[call[t].key], Leaf[call[t].key] \notin dirs, {}, "staging")
EnsureStaging(t) == Ensure(t, "staging", "staging", "staging" \notin dirs, {}, "slot")
EnsureSlot(t) == Ensure(t, "slot", "slot", "slot" \notin dirs, {}, "open")

(* A name that nobody else has; then write_all.                            *)
Open(t) ==
  /\ pc[t] = "open"
  /\ IF "slot" \in dirs
     THEN staged' = [staged EXCEPT ![t] = Cut] /\ Goto(t, "fill") /\ UNCHANGED Calls
     ELSE End(t, "write_error") /\ UNCHANGED staged
  /\ UNCHANGED <<dirs, marked, entries, leftovers, confirmed, Faults>>

NotWritten(t) == staged[t]   \* variant: renamed before it is written
Written(t) == IF staged[t] = None THEN None ELSE call[t].blob

Fill(t) ==
  /\ pc[t] = "fill"
  /\ staged' = [staged EXCEPT ![t] = Written(t)]
  /\ Goto(t, "rename") /\ UNCHANGED <<dirs, marked, entries, leftovers, confirmed, Calls, Faults>>

(* A rename needs both the file and the directory it goes to.              *)
Moved(t) == [staged EXCEPT ![t] = None]
Succeeds(t) == staged[t] # None /\ Leaf[call[t].key] \in dirs

Rename(t) ==
  /\ pc[t] = "rename"
  /\ IF Succeeds(t)
     THEN /\ entries' = [entries EXCEPT ![call[t].key] = staged[t]] /\ staged' = Moved(t)
          /\ End(t, "written") /\ leftovers' = leftovers
     ELSE /\ leftovers' = leftovers + (IF staged[t] = None THEN 0 ELSE 1)
          /\ staged' = [staged EXCEPT ![t] = None]
          /\ End(t, "write_error") /\ UNCHANGED entries
  /\ UNCHANGED <<dirs, marked, confirmed, Faults>>

-----------------------------------------------------------------------------
Harm == harm < MaxHarm /\ harm' = harm + 1

(* A directory cannot be made, or the disk is full.                        *)
Fail(t) ==
  /\ Harm
  /\ pc[t] \in {"root", "meta", "mark", "leaf", "staging", "slot", "open", "fill", "rename"}
  /\ End(t, IF pc[t] \in {"root", "meta", "mark"} THEN "panic" ELSE "write_error")
  /\ leftovers' = leftovers + (IF staged[t] = None THEN 0 ELSE 1)
  /\ staged' = [staged EXCEPT ![t] = None]
  /\ UNCHANGED <<dirs, marked, entries, confirmed, deleted>>

(* Someone deletes an entry or a directory with all that is in it.         *)
Below(d) == {e \in AllDirs : d \in WithParents(e)}
Delete ==
  /\ Harm /\ deleted' = TRUE
  /\ \/ \E k \in Keys : entries[k] # None /\ entries' = [entries EXCEPT ![k] = None]
                        /\ UNCHANGED <<dirs, marked, staged, leftovers>>
     \/ \E d \in dirs :
          /\ dirs' = dirs \ Below(d)
          /\ marked' = (marked /\ "meta" \notin Below(d))
          /\ entries' = [k \in Keys |-> IF Leaf[k] \in Below(d) THEN None ELSE entries[k]]
          /\ IF "slot" \in Below(d)
             THEN staged' = [t \in Threads |-> None] /\ leftovers' = 0
             ELSE UNCHANGED <<staged, leftovers>>
  /\ UNCHANGED <<confirmed, pc, Calls>>

(* The process ends and is started again.                                  *)
Restart ==
  /\ Harm
  /\ confirmed' = {} /\ pc' = [t \in Threads |-> "idle"]
  /\ call' = [t \in Threads |-> NoCall] /\ outcome' = [t \in Threads |-> None]
  /\ leftovers' = leftovers + Cardinality({t \in Threads : staged[t] # None})
  /\ staged' = [t \in Threads |-> None]
  /\ UNCHANGED <<dirs, marked, entries, deleted>>

Step(t) ==
  \/ Start(t) \/ Read(t) \/ EnsureRoot(t) \/ EnsureMeta(t) \/ Mark(t) \/ EnsureLeaf(t)
  \/ EnsureStaging(t) \/ EnsureSlot(t) \/ Open(t) \/ Fill(t) \/ Rename(t)
Next == (\E t \in Threads : Step(t) \/ Fail(t)) \/ Delete \/ Restart

Spec == Init /\ [][Next]_vars

-----------------------------------------------------------------------------
TypeOK ==
  /\ dirs \subseteq AllDirs /\ marked \in BOOLEAN /\ confirmed \subseteq {"root", "meta"}
  /\ entries \in [Keys -> Contents] /\ staged \in [Threads -> Contents] /\ leftovers \in Nat
  /\ pc \in [Threads -> {"idle", "read", "root", "meta", "mark", "leaf", "staging", "slot", "open", "fill", "rename"}]
  /\ call \in [Threads -> [key : Keys, blob : Blobs] \cup {NoCall}]
  /\ \A d \in dirs : WithParents(d) \subseteq dirs
  /\ deleted \in BOOLEAN /\ harm \in 0..MaxHarm

(* Whatever fails or ends and whoever writes at the same time, the folder  *)
(* is a store of whole blobs that are put in one step (disk_cache.rs:189). *)
Store == INSTANCE BlobStore WITH store <- entries
ImplementsStore == Store!Spec

(* As long as nothing is deleted, an entry that exists can be read: it is  *)
(* never missing while another one takes its place (lib.rs:192-199).       *)
SeenCanBeRead == ~deleted => \A t \in Threads : outcome[t] \notin {"read_error", "cut"}

(* Staging files are left behind only by writes that failed or were cut    *)
(* off, each by one: those that succeed leave none.                        *)
LeftoversAreExplained ==
  leftovers + Cardinality({t \in Threads : pc[t] \notin {"fill", "rename"} /\ staged[t] # None}) <= Cardinality(Threads) * harm
=============================================================================
