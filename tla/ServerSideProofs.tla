--------------------------- MODULE ServerSideProofs ---------------------------
(***************************************************************************)
(* Proofs about the server and the licenses as MCServerSide puts them next *)
(* to each other: that a folder of blobs is a store of whole blobs, and    *)
(* that what was seen can be read, for any number of threads, entries,     *)
(* blobs and misfortunes, and any layout of directories; about the         *)
(* requests, the cache and the verdicts of licenses, and how their text is *)
(* read.                                                                   *)
(***************************************************************************)
EXTENDS MCServerSide, FiniteSetTheorems, Induction

Places == {"idle", "read", "root", "meta", "mark", "leaf", "staging", "slot", "open", "fill", "rename"}
Asked == [key : Keys, blob : Blobs]

\* What is called is known as long as the call lasts.
Types ==
  /\ entries \in [Keys -> Contents] /\ staged \in [Threads -> Contents]
  /\ pc \in [Threads -> Places] /\ call \in [Threads -> Asked \cup {NoCall}]
  /\ outcome = [t \in Threads |-> outcome[t]] /\ deleted \in BOOLEAN
Called == \A t \in Threads : pc[t] # "idle" => call[t] \in Asked
\* What is renamed is the whole blob of the call, unless it was deleted.
WholeOrGone == \A t \in Threads : pc[t] = "rename" => staged[t] \in {None, call[t].blob}
\* No entry is ever cut, and what was seen stays until something is deleted.
NeverCut == \A k \in Keys : entries[k] # Cut
SeenIsThere == ~deleted => \A t \in Threads : pc[t] = "read" => entries[call[t].key] # None

Inv == Types /\ Called /\ WholeOrGone /\ NeverCut /\ SeenIsThere /\ SeenCanBeRead

-----------------------------------------------------------------------------
\* The invariant holds of an empty folder.
LEMMA InitInv == Init => Inv
  BY DiskCacheAssumption
  DEF Init, Inv, Types, Called, WholeOrGone, NeverCut, SeenIsThere, SeenCanBeRead, Contents, Places, NoCall

\* The steps of one thread that leave the entries alone.
LEMMA QuietStep ==
  ASSUME Inv, NEW t \in Threads,
         \/ Start(t) \/ Read(t) \/ EnsureRoot(t) \/ EnsureMeta(t) \/ Mark(t) \/ EnsureLeaf(t)
         \/ EnsureStaging(t) \/ EnsureSlot(t) \/ Open(t) \/ Fill(t) \/ Fail(t)
  PROVE  Inv' /\ UNCHANGED entries
<1> USE DiskCacheAssumption DEF Inv, Contents
<1>1. CASE Start(t)
  <2>1. PICK k \in Keys, b \in Blobs :
          /\ call' = [call EXCEPT ![t] = [key |-> k, blob |-> b]]
          /\ pc' = [pc EXCEPT ![t] = IF entries[k] = None THEN "root" ELSE "read"]
    BY <1>1 DEF Start, Goto
  <2>2. [key |-> k, blob |-> b] \in Asked /\ [key |-> k, blob |-> b].key = k
    BY DEF Asked
  <2>3. outcome' = [outcome EXCEPT ![t] = None] /\ UNCHANGED <<entries, staged, deleted>>
    BY <1>1 DEF Start, Files, Faults
  <2>4. Types'
    BY <2>1, <2>2, <2>3 DEF Types, Places
  <2>5. Called' /\ WholeOrGone' /\ NeverCut'
    BY <2>1, <2>2, <2>3 DEF Types, Called, WholeOrGone, NeverCut
  <2>6. SeenIsThere'
    BY <2>1, <2>2, <2>3 DEF Types, SeenIsThere
  <2>7. SeenCanBeRead'
    BY <2>3 DEF Types, SeenCanBeRead
  <2> QED BY <2>3, <2>4, <2>5, <2>6, <2>7
<1>2. CASE Read(t)
  BY <1>2 DEF Read, Goto, Files, Faults, Types, Called, WholeOrGone, NeverCut, SeenIsThere, SeenCanBeRead, Places, Asked, NoCall
<1>3. ASSUME NEW at, NEW d, NEW needed, NEW flags, NEW next \in Places \ {"idle", "read", "rename"},
             at # "idle", Ensure(t, at, d, needed, flags, next)
      PROVE  Inv' /\ UNCHANGED entries
  BY <1>3 DEF Ensure, Goto, Files, Calls, Faults, Types, Called, WholeOrGone, NeverCut, SeenIsThere, SeenCanBeRead, Places, Asked
<1>4. CASE EnsureRoot(t) \/ EnsureLeaf(t) \/ EnsureStaging(t) \/ EnsureSlot(t)
  BY <1>3, <1>4 DEF EnsureRoot, EnsureLeaf, EnsureStaging, EnsureSlot, Places
<1>5. CASE EnsureMeta(t)
  BY <1>5 DEF EnsureMeta, Goto, Files, Calls, Faults, Types, Called, WholeOrGone, NeverCut, SeenIsThere, SeenCanBeRead, Places, Asked
<1>6. CASE Mark(t)
  BY <1>6 DEF Mark, End, Goto, Calls, Faults, Types, Called, WholeOrGone, NeverCut, SeenIsThere, SeenCanBeRead, Places, Asked, NoCall
<1>7. CASE Open(t)
  BY <1>7 DEF Open, End, Goto, Calls, Faults, Types, Called, WholeOrGone, NeverCut, SeenIsThere, SeenCanBeRead, Places, Asked, NoCall
<1>8. CASE Fill(t)
  BY <1>8 DEF Fill, Written, Goto, Calls, Faults, Types, Called, WholeOrGone, NeverCut, SeenIsThere, SeenCanBeRead, Places, Asked
<1>9. CASE Fail(t)
  BY <1>9 DEF Fail, End, Goto, Types, Called, WholeOrGone, NeverCut, SeenIsThere, SeenCanBeRead, Places, Asked, NoCall
<1> QED BY <1>1, <1>2, <1>4, <1>5, <1>6, <1>7, <1>8, <1>9

\* A rename puts the blob of its call, or changes no entry.
LEMMA RenameStep ==
  ASSUME Inv, NEW t \in Threads, Rename(t)
  PROVE  Inv' /\ (UNCHANGED entries \/ \E k \in Keys, b \in Blobs : entries' = [entries EXCEPT ![k] = b])
<1> USE DiskCacheAssumption DEF Inv, Contents
<1>0. call[t] \in Asked /\ staged[t] \in {None, call[t].blob} /\ pc[t] = "rename"
  BY DEF Rename, Called, WholeOrGone
<1>1. CASE Succeeds(t)
  <2>1. staged[t] \in Blobs /\ entries' = [entries EXCEPT ![call[t].key] = staged[t]]
    BY <1>0, <1>1 DEF Rename, Succeeds, Asked
  <2>2. Types' /\ Called' /\ WholeOrGone'
    <3>1. /\ staged' = [staged EXCEPT ![t] = None] /\ pc' = [pc EXCEPT ![t] = "idle"]
          /\ call' = [call EXCEPT ![t] = NoCall] /\ outcome' = [outcome EXCEPT ![t] = "written"]
          /\ deleted' = deleted
      BY <1>1 DEF Rename, Moved, End, Goto, Faults
    <3>2. entries' \in [Keys -> Contents] /\ staged' \in [Threads -> Contents]
      BY <1>0, <2>1, <3>1 DEF Types, Asked
    <3>3. pc' \in [Threads -> Places] /\ call' \in [Threads -> Asked \cup {NoCall}]
      BY <3>1 DEF Types, Places
    <3>4. Types'
      BY <3>1, <3>2, <3>3 DEF Types
    <3>5. Called' /\ WholeOrGone'
      BY <3>1 DEF Types, Called, WholeOrGone
    <3> QED BY <3>4, <3>5
  <2>3. NeverCut' /\ SeenIsThere'
    BY <1>0, <1>1, <2>1 DEF Rename, End, Goto, Faults, Types, Called, NeverCut, SeenIsThere, Places, Asked, NoCall
  <2>4. SeenCanBeRead'
    BY <1>0, <1>1 DEF Rename, End, Goto, Faults, Types, SeenCanBeRead
  <2> QED BY <1>0, <2>1, <2>2, <2>3, <2>4 DEF Asked
<1>2. CASE ~Succeeds(t)
  <2>1. /\ staged' = [staged EXCEPT ![t] = None] /\ pc' = [pc EXCEPT ![t] = "idle"]
        /\ call' = [call EXCEPT ![t] = NoCall] /\ outcome' = [outcome EXCEPT ![t] = "write_error"]
        /\ UNCHANGED <<entries, deleted>>
    BY <1>2 DEF Rename, End, Goto, Faults
  <2>2. pc' \in [Threads -> Places] /\ call' \in [Threads -> Asked \cup {NoCall}] /\ staged' \in [Threads -> Contents]
    BY <2>1 DEF Types, Places
  <2>3. Types'
    BY <2>1, <2>2 DEF Types
  <2>4. Called' /\ WholeOrGone' /\ NeverCut'
    BY <2>1 DEF Types, Called, WholeOrGone, NeverCut
  <2>5. SeenIsThere' /\ SeenCanBeRead'
    BY <2>1 DEF Types, SeenIsThere, SeenCanBeRead
  <2> QED BY <2>1, <2>3, <2>4, <2>5
<1> QED BY <1>1, <1>2

\* A deletion loses entries; nothing is promised about them afterwards.
LEMMA DeleteStep ==
  ASSUME Inv, Delete
  PROVE  Inv' /\ \E ks \in SUBSET Keys : entries' = [k \in Keys |-> IF k \in ks THEN None ELSE entries[k]]
<1> USE DiskCacheAssumption DEF Inv, Contents
<1>1. \E ks \in SUBSET Keys : entries' = [k \in Keys |-> IF k \in ks THEN None ELSE entries[k]]
  <2>1. CASE \E k \in Keys : entries' = [entries EXCEPT ![k] = None]
    <3>1. PICK k \in Keys : entries' = [entries EXCEPT ![k] = None]
      BY <2>1
    <3>2. entries' = [j \in Keys |-> IF j \in {k} THEN None ELSE entries[j]]
      BY <3>1 DEF Types
    <3> QED BY <3>2
  <2>2. CASE \E d \in dirs : entries' = [k \in Keys |-> IF Leaf[k] \in Below(d) THEN None ELSE entries[k]]
    <3>1. PICK d \in dirs : entries' = [k \in Keys |-> IF Leaf[k] \in Below(d) THEN None ELSE entries[k]]
      BY <2>2
    <3>2. entries' = [k \in Keys |-> IF k \in {j \in Keys : Leaf[j] \in Below(d)} THEN None ELSE entries[k]]
      BY <3>1
    <3> QED BY <3>2
  <2> QED BY <2>1, <2>2 DEF Delete
<1>2. staged' = staged \/ staged' = [t \in Threads |-> None]
  BY DEF Delete
<1>3. deleted' /\ UNCHANGED <<pc, call, outcome>>
  BY DEF Delete, Calls
<1>4. Types' /\ NeverCut'
  BY <1>1, <1>2, <1>3 DEF Types, NeverCut
<1>5. Called' /\ WholeOrGone' /\ SeenIsThere' /\ SeenCanBeRead'
  BY <1>2, <1>3 DEF Types, Called, WholeOrGone, SeenIsThere, SeenCanBeRead
<1> QED BY <1>1, <1>4, <1>5

\* A restart ends all calls and leaves the entries alone.
LEMMA RestartStep ==
  ASSUME Inv, Restart
  PROVE  Inv' /\ UNCHANGED entries
BY DiskCacheAssumption
DEF Restart, Inv, Types, Called, WholeOrGone, NeverCut, SeenIsThere, SeenCanBeRead, Contents, Places, NoCall

\* So does a step that changes nothing.
LEMMA Stutter == Inv /\ UNCHANGED vars => Inv' /\ UNCHANGED entries
  BY DEF vars, Inv, Types, Called, WholeOrGone, NeverCut, SeenIsThere, SeenCanBeRead

-----------------------------------------------------------------------------
\* Every step puts a blob, loses entries or changes none, and keeps the invariant.
LEMMA EveryStep == Inv /\ [Next]_vars => Inv' /\ [Store!Put \/ Store!Lose]_entries
<1> SUFFICES ASSUME Inv, [Next]_vars
             PROVE  Inv' /\ [Store!Put \/ Store!Lose]_entries
  OBVIOUS
<1>1. ASSUME NEW t \in Threads, Step(t) \/ Fail(t)
      PROVE  Inv' /\ [Store!Put \/ Store!Lose]_entries
  <2>1. CASE Rename(t)
    BY <2>1, RenameStep DEF Store!Put
  <2>2. CASE ~Rename(t)
    BY <1>1, <2>2, QuietStep DEF Step
  <2> QED BY <2>1, <2>2
<1>2. CASE Delete
  BY <1>2, DeleteStep DEF Store!Lose
<1>3. CASE Restart
  BY <1>3, RestartStep
<1>4. CASE UNCHANGED vars
  BY <1>4, Stutter
<1> QED BY <1>1, <1>2, <1>3, <1>4 DEF Next

\* The invariant holds whoever writes, fails, deletes or restarts.
THEOREM FolderInvariant == Spec => []Inv
<1>1. Inv /\ [Next]_vars => Inv'
  BY EveryStep
<1> QED BY InitInv, <1>1, PTL DEF Spec

\* The folder implements the store of whole blobs: every rename puts one, deletions
\* lose entries, and nothing else changes what a reader can see (disk_cache.rs:189).
THEOREM FolderIsAStore == Spec => ImplementsStore
<1>1. Init => Store!Init
  BY DEF Init, Store!Init
<1>2. Inv /\ [Next]_vars => [Store!Put \/ Store!Lose]_entries
  BY EveryStep
<1> QED BY <1>1, <1>2, FolderInvariant, PTL DEF Spec, ImplementsStore, Store!Spec

\* As long as nobody deletes anything, what a thread has seen it can read, however
\* many others replace it meanwhile (lib.rs:192-199).
THEOREM SeenEntriesAreRead == Spec => []SeenCanBeRead
<1>1. Inv => SeenCanBeRead
  BY DEF Inv
<1> QED BY <1>1, FolderInvariant, PTL

-----------------------------------------------------------------------------
\* The steps of each model, for each other they are stutters.
LEMMA ServerSideParts ==
  /\ ServerSideInit => Init /\ Requested!Init /\ Cached!Init /\ Managed!Init /\ Text!Init
  /\ [ServerSideNext]_serverVars =>
       /\ [Next]_vars /\ [Requested!Next]_(Requested!vars) /\ [Cached!Next]_(Cached!vars)
       /\ [Managed!Next]_(Managed!vars) /\ [Text!Next]_(Text!vars)
<1>1. ServerSideInit => Init /\ Requested!Init /\ Cached!Init /\ Managed!Init /\ Text!Init
  BY DEF ServerSideInit
<1>2. ASSUME [ServerSideNext]_serverVars
      PROVE  /\ [Next]_vars /\ [Requested!Next]_(Requested!vars) /\ [Cached!Next]_(Cached!vars)
             /\ [Managed!Next]_(Managed!vars) /\ [Text!Next]_(Text!vars)
  BY <1>2 DEF ServerSideNext, FolderStep, RequestStep, CacheStep, LicenseStep, TextStep, TextIsRead, serverVars,
              requestVars, cacheVars, licenseVars, textVars, Requested!vars, Cached!vars, Managed!vars, Text!vars
<1> QED BY <1>1, <1>2

-----------------------------------------------------------------------------
\* What is left in the staging folder.  A thread that has seen its leaf since it was last
\* deleted will not fail for want of it.
Past == {"staging", "slot", "open", "fill", "rename"}
Astray == {t \in Threads : pc[t] \in Past /\ Leaf[call[t].key] \notin dirs}

LeftoversInv ==
  /\ harm \in Nat /\ leftovers \in Nat
  /\ \A t \in Threads : staged[t] # None => pc[t] \in {"fill", "rename"}
  /\ leftovers + Cardinality(Astray) <= Cardinality(Threads) * harm

\* Counting some of finitely many threads.
LEMMA SomeOfThreads ==
  ASSUME IsFiniteSet(Threads), NEW T \in SUBSET Threads
  PROVE  /\ IsFiniteSet(T) /\ Cardinality(T) \in Nat /\ Cardinality(Threads) \in Nat
         /\ Cardinality(T) <= Cardinality(Threads)
         /\ \A U \in SUBSET T : Cardinality(U) \in Nat /\ Cardinality(U) <= Cardinality(T)
         /\ \A t \in T : Cardinality(T \ {t}) + 1 = Cardinality(T)
<1>1. IsFiniteSet(T) /\ Cardinality(T) <= Cardinality(Threads)
  BY FS_Subset
<1>2. Cardinality(T) \in Nat /\ Cardinality(Threads) \in Nat
  BY <1>1, FS_CardinalityType
<1>3. ASSUME NEW U \in SUBSET T
      PROVE  Cardinality(U) \in Nat /\ Cardinality(U) <= Cardinality(T)
  <2>1. IsFiniteSet(U) /\ Cardinality(U) <= Cardinality(T)
    BY <1>1, FS_Subset
  <2> QED BY <2>1, FS_CardinalityType
<1>4. ASSUME NEW t \in T
      PROVE  Cardinality(T \ {t}) + 1 = Cardinality(T)
  <2>1. Cardinality(T \ {t}) = Cardinality(T) - 1
    BY <1>1, <1>4, FS_RemoveElement
  <2> QED BY <1>2, <2>1
<1> QED BY <1>1, <1>2, <1>3, <1>4

\* Nothing is left in the staging folder at first.
LEMMA LeftoversBegin ==
  ASSUME IsFiniteSet(Threads), Init
  PROVE  LeftoversInv
<1>1. Astray = {}
  BY DEF Init, Astray, Past
<1>2. Cardinality(Astray) = 0
  BY <1>1, FS_EmptySet
<1>3. Cardinality(Threads) \in Nat
  BY FS_CardinalityType
<1>4. Cardinality(Threads) * 0 = 0
  BY <1>3
<1>5. harm = 0 /\ leftovers = 0
  BY DEF Init
<1>6. leftovers + Cardinality(Astray) <= Cardinality(Threads) * harm
  BY <1>2, <1>4, <1>5
<1> QED BY <1>5, <1>6 DEF Init, LeftoversInv

\* One more harm pays for all threads.
LEMMA HarmPays ==
  ASSUME IsFiniteSet(Threads), LeftoversInv, harm' = harm + 1, NEW n \in Nat,
         n <= leftovers + Cardinality(Threads)
  PROVE  harm' \in Nat /\ n <= Cardinality(Threads) * harm'
<1>1. Cardinality(Threads) \in Nat /\ Cardinality(Astray) \in Nat
  BY SomeOfThreads DEF Astray
<1>2. PICK c \in Nat : c = Cardinality(Threads)
  BY <1>1
<1>3. harm \in Nat /\ leftovers \in Nat /\ leftovers <= c * harm
  <2>1. c * harm \in Int
    BY <1>2 DEF LeftoversInv
  <2> QED BY <1>1, <1>2, <2>1 DEF LeftoversInv
<1>4. c * (harm + 1) = c * harm + c
  BY <1>2, <1>3
<1>5. c * harm \in Int /\ n <= leftovers + c
  BY <1>2, <1>3
<1>6. n <= c * harm + c
  BY <1>2, <1>3, <1>5
<1> QED BY <1>2, <1>3, <1>4, <1>6

\* A step or failure of one thread leaves what is explained.
LEMMA LeftoversStep ==
  ASSUME IsFiniteSet(Threads), LeftoversInv, Inv, NEW t \in Threads, Step(t) \/ Fail(t)
  PROVE  LeftoversInv'
<1>0. /\ staged \in [Threads -> Contents] /\ pc \in [Threads -> Places]
      /\ call \in [Threads -> Asked \cup {NoCall}]
  BY DEF Inv, Types
<1>00. /\ Astray \in SUBSET Threads /\ Cardinality(Astray) \in Nat /\ Cardinality(Threads) \in Nat
       /\ Cardinality(Astray) <= Cardinality(Threads)
  BY SomeOfThreads DEF Astray
<1>1. ASSUME UNCHANGED <<leftovers, harm>>, Astray' \subseteq Astray,
             \A u \in Threads : staged'[u] # None => pc'[u] \in {"fill", "rename"}
      PROVE  LeftoversInv'
  <2>1. PICK A : A = Astray'
    OBVIOUS
  <2>2. Cardinality(A) \in Nat /\ Cardinality(A) <= Cardinality(Astray)
    <3>1. A \in SUBSET Astray
      BY <1>1, <2>1
    <3> QED BY <1>00, <3>1, SomeOfThreads
  <2>3. leftovers + Cardinality(A) <= Cardinality(Threads) * harm
    <3>1. Cardinality(Threads) * harm \in Int
      BY <1>00 DEF LeftoversInv
    <3> QED BY <1>00, <2>2, <3>1 DEF LeftoversInv
  <2> QED BY <1>1, <2>1, <2>3 DEF LeftoversInv
<1>2. CASE Start(t)
  <2>1. pc[t] = "idle" /\ pc' \in {[pc EXCEPT ![t] = "root"], [pc EXCEPT ![t] = "read"]}
        /\ UNCHANGED <<dirs, staged, leftovers, harm>>
    BY <1>2 DEF Start, Goto, Files, Faults
  <2>2. \A u \in Threads \ {t} : call'[u] = call[u]
    BY <1>0, <1>2 DEF Start
  <2>3. Astray' \subseteq Astray
    BY <1>0, <2>1, <2>2 DEF Astray, Past
  <2>4. \A u \in Threads : staged'[u] # None => pc'[u] \in {"fill", "rename"}
    BY <1>0, <2>1 DEF LeftoversInv
  <2> QED BY <1>1, <2>1, <2>3, <2>4
<1>3. CASE Read(t)
  <2>1. pc[t] = "read" /\ pc' = [pc EXCEPT ![t] = "idle"] /\ call' = [call EXCEPT ![t] = NoCall]
        /\ UNCHANGED <<dirs, staged, leftovers, harm>>
    BY <1>3 DEF Read, Goto, Files, Faults
  <2>2. Astray' \subseteq Astray
    BY <1>0, <2>1 DEF Astray, Past
  <2>3. \A u \in Threads : staged'[u] # None => pc'[u] \in {"fill", "rename"}
    BY <1>0, <2>1 DEF LeftoversInv
  <2> QED BY <1>1, <2>1, <2>2, <2>3
<1>4. ASSUME NEW at, NEW next, pc[t] = at, at \notin {"fill", "rename"}, pc' = [pc EXCEPT ![t] = next],
             dirs \subseteq dirs', UNCHANGED <<call, staged, leftovers, harm>>,
             next \in Past => at \in Past \/ Leaf[call[t].key] \in dirs'
      PROVE  LeftoversInv'
  <2>2. Astray' \subseteq Astray
    BY <1>0, <1>4 DEF Astray
  <2>3. \A u \in Threads : staged'[u] # None => pc'[u] \in {"fill", "rename"}
    BY <1>0, <1>4 DEF LeftoversInv
  <2> QED BY <1>1, <1>4, <2>2, <2>3
<1>5. CASE EnsureRoot(t) \/ EnsureLeaf(t) \/ EnsureStaging(t) \/ EnsureSlot(t)
  <2>1. CASE EnsureRoot(t)
    <3>1. pc[t] = "root" /\ pc' = [pc EXCEPT ![t] = "meta"] /\ UNCHANGED <<call, staged, leftovers, harm>>
          /\ dirs \subseteq dirs'
      BY <2>1 DEF EnsureRoot, Ensure, Goto, Files, Calls, Faults
    <3> QED BY <1>4, <3>1 DEF Past
  <2>2. CASE EnsureLeaf(t)
    <3>1. pc[t] = "leaf" /\ pc' = [pc EXCEPT ![t] = "staging"] /\ UNCHANGED <<call, staged, leftovers, harm>>
          /\ dirs \subseteq dirs' /\ Leaf[call[t].key] \in dirs'
      BY <2>2 DEF EnsureLeaf, Ensure, Goto, Files, Calls, Faults, Made, WithParents
    <3> QED BY <1>4, <3>1
  <2>3. CASE EnsureStaging(t)
    <3>1. pc[t] = "staging" /\ pc' = [pc EXCEPT ![t] = "slot"] /\ UNCHANGED <<call, staged, leftovers, harm>>
          /\ dirs \subseteq dirs'
      BY <2>3 DEF EnsureStaging, Ensure, Goto, Files, Calls, Faults
    <3> QED BY <1>4, <3>1 DEF Past
  <2>4. CASE EnsureSlot(t)
    <3>1. pc[t] = "slot" /\ pc' = [pc EXCEPT ![t] = "open"] /\ UNCHANGED <<call, staged, leftovers, harm>>
          /\ dirs \subseteq dirs'
      BY <2>4 DEF EnsureSlot, Ensure, Goto, Files, Calls, Faults
    <3> QED BY <1>4, <3>1 DEF Past
  <2> QED BY <1>5, <2>1, <2>2, <2>3, <2>4
<1>6. CASE EnsureMeta(t)
  <2>1. pc[t] = "meta" /\ pc' \in {[pc EXCEPT ![t] = "leaf"], [pc EXCEPT ![t] = "mark"]} /\ dirs \subseteq dirs'
        /\ UNCHANGED <<call, staged, leftovers, harm>>
    BY <1>6 DEF EnsureMeta, Goto, Files, Calls, Faults
  <2> QED BY <1>4, <2>1 DEF Past
<1>7. CASE Mark(t)
  <2>1. pc[t] = "mark" /\ pc' \in {[pc EXCEPT ![t] = "leaf"], [pc EXCEPT ![t] = "idle"]}
        /\ UNCHANGED <<dirs, staged, leftovers, harm>> /\ \A u \in Threads \ {t} : call'[u] = call[u]
    BY <1>0, <1>7 DEF Mark, End, Goto, Calls, Faults
  <2>2. Astray' \subseteq Astray
    BY <1>0, <2>1 DEF Astray, Past
  <2>3. \A u \in Threads : staged'[u] # None => pc'[u] \in {"fill", "rename"}
    BY <1>0, <2>1 DEF LeftoversInv
  <2> QED BY <1>1, <2>1, <2>2, <2>3
<1>8. CASE Open(t)
  <2>1. /\ pc[t] = "open" /\ UNCHANGED <<dirs, leftovers, harm>>
        /\ \A u \in Threads \ {t} : call'[u] = call[u]
        /\ \/ staged' = [staged EXCEPT ![t] = Cut] /\ pc' = [pc EXCEPT ![t] = "fill"] /\ call' = call
           \/ staged' = staged /\ pc' = [pc EXCEPT ![t] = "idle"]
    BY <1>0, <1>8 DEF Open, End, Goto, Calls, Faults
  <2>2. Astray' \subseteq Astray
    BY <1>0, <2>1 DEF Astray, Past
  <2>3. \A u \in Threads : staged'[u] # None => pc'[u] \in {"fill", "rename"}
    BY <1>0, <2>1 DEF LeftoversInv
  <2> QED BY <1>1, <2>1, <2>2, <2>3
<1>9. CASE Fill(t)
  <2>1. pc[t] = "fill" /\ UNCHANGED <<dirs, leftovers, harm, call>> /\ pc' = [pc EXCEPT ![t] = "rename"]
        /\ \A u \in Threads \ {t} : staged'[u] = staged[u]
    BY <1>0, <1>9 DEF Fill, Goto, Calls, Faults
  <2>2. Astray' \subseteq Astray
    BY <1>0, <2>1 DEF Astray, Past
  <2>3. \A u \in Threads : staged'[u] # None => pc'[u] \in {"fill", "rename"}
    BY <1>0, <2>1 DEF LeftoversInv
  <2> QED BY <1>1, <2>1, <2>2, <2>3
<1>10. ASSUME pc' = [pc EXCEPT ![t] = "idle"], call' = [call EXCEPT ![t] = NoCall], dirs' = dirs
       PROVE  Astray' = Astray \ {t}
  BY <1>0, <1>10 DEF Astray, Past
<1>11. CASE Rename(t)
  <2>1. /\ pc[t] = "rename" /\ UNCHANGED <<dirs, harm>> /\ pc' = [pc EXCEPT ![t] = "idle"]
        /\ call' = [call EXCEPT ![t] = NoCall] /\ staged' = [staged EXCEPT ![t] = None]
        /\ leftovers' = leftovers + IF Succeeds(t) \/ staged[t] = None THEN 0 ELSE 1
    <3>1. leftovers \in Nat
      BY DEF LeftoversInv
    <3>2. CASE Succeeds(t)
      BY <1>11, <3>1, <3>2 DEF Rename, Moved, End, Goto, Faults
    <3>3. CASE ~Succeeds(t)
      BY <1>11, <3>3 DEF Rename, End, Goto, Faults
    <3> QED BY <3>2, <3>3
  <2>2. Astray' = Astray \ {t}
    BY <1>10, <2>1
  <2>3. \A u \in Threads : staged'[u] # None => pc'[u] \in {"fill", "rename"}
    BY <1>0, <2>1 DEF LeftoversInv
  <2>4. CASE Succeeds(t) \/ staged[t] = None
    <3>1. leftovers' = leftovers
      BY <2>1, <2>4 DEF LeftoversInv
    <3> QED BY <1>1, <2>1, <2>2, <2>3, <3>1
  <2>5. CASE ~(Succeeds(t) \/ staged[t] = None)
    <3>1. t \in Astray /\ leftovers' = leftovers + 1
      BY <2>1, <2>5 DEF Astray, Past, Succeeds
    <3>2. PICK A : A = Astray'
      OBVIOUS
    <3>3. Cardinality(A) + 1 = Cardinality(Astray) /\ Cardinality(A) \in Nat
      <4>1. A = Astray \ {t}
        BY <2>2, <3>2
      <4> QED BY <1>00, <3>1, <4>1, SomeOfThreads
    <3>4. leftovers' \in Nat /\ leftovers' + Cardinality(A) <= Cardinality(Threads) * harm
      BY <1>00, <3>1, <3>3 DEF LeftoversInv
    <3> QED BY <2>1, <2>3, <3>2, <3>4 DEF LeftoversInv
  <2> QED BY <2>4, <2>5
<1>12. CASE Fail(t)
  <2>1. /\ harm' = harm + 1 /\ pc' = [pc EXCEPT ![t] = "idle"] /\ dirs' = dirs
        /\ call' = [call EXCEPT ![t] = NoCall] /\ staged' = [staged EXCEPT ![t] = None]
        /\ leftovers' = leftovers + IF staged[t] = None THEN 0 ELSE 1
    BY <1>12 DEF Fail, Harm, End, Goto
  <2>2. Astray' = Astray \ {t}
    BY <1>10, <2>1
  <2>3. \A u \in Threads : staged'[u] # None => pc'[u] \in {"fill", "rename"}
    BY <1>0, <2>1 DEF LeftoversInv
  <2>4. PICK A : A = Astray'
    OBVIOUS
  <2>5. Cardinality(A) \in Nat /\ Cardinality(A) + 1 <= Cardinality(Threads)
    <3>1. t \notin A /\ A \in SUBSET (Threads \ {t})
      BY <1>00, <2>2, <2>4
    <3>2. Cardinality(Threads \ {t}) + 1 = Cardinality(Threads) /\ Cardinality(Threads \ {t}) \in Nat
      BY SomeOfThreads
    <3>3. Cardinality(A) <= Cardinality(Threads \ {t}) /\ Cardinality(A) \in Nat
      <4>1. Threads \ {t} \in SUBSET Threads
        OBVIOUS
      <4> QED BY <3>1, <4>1, SomeOfThreads
    <3> QED BY <1>00, <3>2, <3>3
  <2>6. leftovers' \in Nat /\ leftovers' <= leftovers + 1
    BY <2>1 DEF LeftoversInv
  <2>7. leftovers' + Cardinality(A) \in Nat /\ leftovers' + Cardinality(A) <= leftovers + Cardinality(Threads)
    BY <1>00, <2>5, <2>6 DEF LeftoversInv
  <2>8. harm' \in Nat /\ leftovers' + Cardinality(A) <= Cardinality(Threads) * harm'
    BY <2>1, <2>7, HarmPays
  <2> QED BY <2>3, <2>4, <2>6, <2>8 DEF LeftoversInv
<1> QED BY <1>2, <1>3, <1>5, <1>6, <1>7, <1>8, <1>9, <1>11, <1>12 DEF Step

\* Every step leaves what is explained.
LEMMA LeftoversSteps ==
  ASSUME IsFiniteSet(Threads), LeftoversInv, Inv, [Next]_vars
  PROVE  LeftoversInv'
<1>00. Cardinality(Threads) \in Nat
  BY FS_CardinalityType
<1>1. CASE \E t \in Threads : Step(t) \/ Fail(t)
  BY <1>1, LeftoversStep
<1>2. CASE Delete
  <2>1. harm' = harm + 1 /\ UNCHANGED <<pc, call>>
    BY <1>2 DEF Delete, Harm, Calls
  <2>2. \A t \in Threads : staged'[t] # None => staged[t] # None
    BY <1>2 DEF Delete
  <2>3. leftovers' \in Nat /\ leftovers' <= leftovers
    BY <1>2 DEF Delete, LeftoversInv
  <2>4. PICK A : A = Astray'
    OBVIOUS
  <2>5. Cardinality(A) \in Nat /\ Cardinality(A) <= Cardinality(Threads)
    <3>1. A \in SUBSET Threads
      BY <2>4 DEF Astray
    <3> QED BY <3>1, SomeOfThreads
  <2>6. leftovers' + Cardinality(A) \in Nat /\ leftovers' + Cardinality(A) <= leftovers + Cardinality(Threads)
    BY <1>00, <2>3, <2>5 DEF LeftoversInv
  <2>7. harm' \in Nat /\ leftovers' + Cardinality(A) <= Cardinality(Threads) * harm'
    BY <2>1, <2>6, HarmPays
  <2> QED BY <2>1, <2>2, <2>3, <2>4, <2>7 DEF LeftoversInv
<1>3. CASE Restart
  <2>1. /\ harm' = harm + 1 /\ pc' = [t \in Threads |-> "idle"] /\ staged' = [t \in Threads |-> None]
        /\ leftovers' = leftovers + Cardinality({t \in Threads : staged[t] # None})
    BY <1>3 DEF Restart, Harm
  <2>2. PICK A : A = Astray'
    OBVIOUS
  <2>3. Cardinality(A) = 0
    <3>1. A = {}
      BY <2>1, <2>2 DEF Astray, Past
    <3> QED BY <3>1, FS_EmptySet
  <2>4. PICK B : B = {t \in Threads : staged[t] # None}
    OBVIOUS
  <2>5. Cardinality(B) \in Nat /\ Cardinality(B) <= Cardinality(Threads)
    BY <2>4, SomeOfThreads
  <2>6. leftovers' \in Nat /\ leftovers' + Cardinality(A) \in Nat
        /\ leftovers' + Cardinality(A) <= leftovers + Cardinality(Threads)
    BY <1>00, <2>1, <2>3, <2>4, <2>5 DEF LeftoversInv
  <2>7. harm' \in Nat /\ leftovers' + Cardinality(A) <= Cardinality(Threads) * harm'
    BY <2>1, <2>6, HarmPays
  <2> QED BY <2>1, <2>2, <2>6, <2>7 DEF LeftoversInv
<1>4. CASE UNCHANGED vars
  BY <1>4 DEF vars, LeftoversInv, Astray
<1> QED BY <1>1, <1>2, <1>3, <1>4 DEF Next

\* As long as nobody deletes anything an entry that was seen can be read, and files are
\* left in the staging folder only by writes that failed or were cut off: at the most one
\* for each thread and each misfortune (disk_cache.rs:165-200, lib.rs:192-199).
THEOREM StagingIsExplained ==
  ASSUME IsFiniteSet(Threads)
  PROVE  ServerSideSpec => []FolderIsSound
<1>1. ServerSideInit => Inv /\ LeftoversInv
  BY ServerSideParts, InitInv, LeftoversBegin
<1>2. Inv /\ LeftoversInv /\ [ServerSideNext]_serverVars => Inv' /\ LeftoversInv'
  BY ServerSideParts, EveryStep, LeftoversSteps
<1>3. Inv /\ LeftoversInv => FolderIsSound
  <2> SUFFICES ASSUME Inv, LeftoversInv
               PROVE  SeenCanBeRead /\ LeftoversAreExplained
    BY DEF FolderIsSound
  <2>1. {t \in Threads : pc[t] \notin {"fill", "rename"} /\ staged[t] # None} = {}
    BY DEF LeftoversInv
  <2>2. Cardinality({t \in Threads : pc[t] \notin {"fill", "rename"} /\ staged[t] # None}) = 0
    BY <2>1, FS_EmptySet
  <2>3. Cardinality(Astray) \in Nat /\ Cardinality(Threads) \in Nat
    BY SomeOfThreads DEF Astray
  <2>4. leftovers + 0 <= Cardinality(Threads) * harm
    <3>1. Cardinality(Threads) * harm \in Int
      BY <2>3 DEF LeftoversInv
    <3> QED BY <2>3, <3>1 DEF LeftoversInv
  <2>5. LeftoversAreExplained
    BY <2>2, <2>4 DEF LeftoversAreExplained
  <2> QED BY <2>5 DEF Inv
<1> QED BY <1>1, <1>2, <1>3, PTL DEF ServerSideSpec

-----------------------------------------------------------------------------
\* The requests.

\* No other engine asks for what permacache_proxy stores in a form of its own.
ProxyIsApart ==
  \A r, s \in Requests : r.engine = "permacache_proxy" /\ s.engine # "permacache_proxy" => r.at # s.at

BodiesKept == [form : {"raw", "counted"}, body : Requested!Bodies]

RequestInv ==
  /\ Requested!TypeOK
  /\ held \in [Threads -> BodiesKept \cup {Requested!NoEntry}]
  /\ answered = [t \in Threads |-> answered[t]]
  \* Whoever is in a request knows which.
  /\ \A t \in Threads : serving[t] # "idle" => request[t] \in Requests
  \* What is kept was said, and counted only by permacache_proxy.
  /\ \A u \in Requested!Places : store[u] # Requested!NoEntry =>
       /\ <<u, store[u].body>> \in said
       /\ store[u].form = "counted" => \E r \in Requests : r.at = u /\ r.engine = "permacache_proxy"
  \* What is held was said for what was asked, and is used only as it was said.
  /\ \A t \in Threads : serving[t] \in {"store", "decode", "use"} => <<request[t].at, held[t].body>> \in said
  /\ \A t \in Threads : serving[t] \in {"store", "use"} => held[t].form = "raw"
  /\ \A t \in Threads : serving[t] = "decode" /\ held[t].form = "counted" => request[t].engine = "permacache_proxy"
  \* What was found is there, unless it got lost.
  /\ \A t \in Threads : serving[t] = "read" /\ losses = 0 => store[request[t].at] # Requested!NoEntry
  /\ Requested!ServedIsWhatWasSaid

\* The invariant of requests holds at first.
LEMMA RequestsBegin == Requested!Init => RequestInv
<1> SUFFICES ASSUME Requested!Init
             PROVE  RequestInv
  OBVIOUS
<1>1. Requested!ServerAssumption
  BY PartsAssumption
<1>2. MaxLosses \in Nat
  BY <1>1 DEF Requested!ServerAssumption
<1>3. /\ store = [u \in Requested!Places |-> Requested!NoEntry]
      /\ serving = [t \in Threads |-> "idle"] /\ request = [t \in Threads |-> Requested!NoRequest]
      /\ held = [t \in Threads |-> Requested!NoEntry] /\ answered = [t \in Threads |-> Requested!NoAnswer]
      /\ said = {} /\ losses = 0
  BY DEF Requested!Init
<1>4. Requested!NoAnswer.status = 0
  BY DEF Requested!NoAnswer
<1>5. Requested!TypeOK
  BY <1>2, <1>3, <1>4 DEF Requested!TypeOK
<1>6. Requested!ServedIsWhatWasSaid
  BY <1>3, <1>4 DEF Requested!ServedIsWhatWasSaid
<1> QED BY <1>3, <1>5, <1>6 DEF RequestInv

\* What a step of a thread must do to keep the invariant: it goes somewhere with what it
\* may have there; what it was answered it was told; it says and stores no less.
StoresWhatItHolds(t) ==
  \/ store' = store
  \/ \E e \in BodiesKept :
       /\ store' = [store EXCEPT ![request[t].at] = e] /\ <<request[t].at, e.body>> \in said
       /\ e.form = "counted" => request[t].engine = "permacache_proxy"

GoesTo(t, p, h, a) ==
  /\ p \in {"idle", "local", "readfile", "exists", "read", "fetch", "store", "decode", "use"}
  /\ h \in BodiesKept \cup {Requested!NoEntry}
  /\ serving' = [serving EXCEPT ![t] = p] /\ held' = [held EXCEPT ![t] = h]
  /\ answered' = [answered EXCEPT ![t] = a]
  /\ UNCHANGED <<request, losses>>
  /\ said \subseteq said' /\ said' \subseteq Requested!Places \X Requested!Bodies
  /\ request[t] \in Requests
  /\ a.status \in {Requested!Dropped, 0, 200, 404, 500}
  /\ a.status = 200 => <<request[t].at, a.body>> \in said' /\ a.form # "counted"
  /\ h # Requested!NoEntry <=> p \in {"store", "decode", "use"}
  /\ h # Requested!NoEntry => <<request[t].at, h.body>> \in said'
  /\ p \in {"store", "use"} => h.form = "raw"
  /\ p = "decode" /\ h.form = "counted" => request[t].engine = "permacache_proxy"
  /\ p = "read" /\ losses = 0 => store[request[t].at] # Requested!NoEntry
  /\ StoresWhatItHolds(t)

\* A step of one request has to keep what that request relies on.
LEMMA OneThreadSuffices ==
  ASSUME RequestInv, NEW t \in Threads, NEW p, NEW h, NEW a, GoesTo(t, p, h, a)
  PROVE  RequestInv'
<1> USE DEF GoesTo, StoresWhatItHolds
<1>0. /\ Requested!TypeOK /\ held \in [Threads -> BodiesKept \cup {Requested!NoEntry}]
      /\ answered = [u \in Threads |-> answered[u]]
  BY DEF RequestInv
<1>1. /\ store \in [Requested!Places -> BodiesKept \cup {Requested!NoEntry}]
      /\ serving \in [Threads -> {"idle", "local", "readfile", "exists", "read", "fetch", "store", "decode", "use"}]
      /\ request \in [Threads -> Requests \cup {Requested!NoRequest}]
      /\ losses \in 0 .. MaxLosses
  BY <1>0 DEF Requested!TypeOK, BodiesKept, Requested!Forms
<1>2. /\ serving'[t] = p /\ held'[t] = h /\ answered'[t] = a
      /\ \A u \in Threads \ {t} : serving'[u] = serving[u] /\ held'[u] = held[u] /\ answered'[u] = answered[u]
  BY <1>0, <1>1
<1>3. request[t].at \in Requested!Places
  BY DEF Requested!Places
<1>4. /\ store' \in [Requested!Places -> BodiesKept \cup {Requested!NoEntry}]
      /\ \A u \in Requested!Places : store[u] # Requested!NoEntry => store'[u] # Requested!NoEntry
      /\ \A u \in Requested!Places : store'[u] # Requested!NoEntry =>
           /\ <<u, store'[u].body>> \in said'
           /\ store'[u].form = "counted" => \E r \in Requests : r.at = u /\ r.engine = "permacache_proxy"
  <2>0. \A u \in Requested!Places : store[u] # Requested!NoEntry =>
           /\ <<u, store[u].body>> \in said'
           /\ store[u].form = "counted" => \E r \in Requests : r.at = u /\ r.engine = "permacache_proxy"
    BY DEF RequestInv
  <2>1. CASE store' = store
    BY <1>1, <2>0, <2>1
  <2>2. ASSUME NEW e \in BodiesKept,
               store' = [store EXCEPT ![request[t].at] = e], <<request[t].at, e.body>> \in said,
               e.form = "counted" => request[t].engine = "permacache_proxy"
        PROVE  <1>4!:
    <3>1. e # Requested!NoEntry
      BY DEF BodiesKept, Requested!NoEntry, Requested!Entry
    <3>2. /\ store'[request[t].at] = e
          /\ \A u \in Requested!Places \ {request[t].at} : store'[u] = store[u]
      BY <1>1, <1>3, <2>2
    <3>3. store' \in [Requested!Places -> BodiesKept \cup {Requested!NoEntry}]
      BY <1>1, <1>3, <2>2
    <3> QED BY <2>0, <2>2, <3>1, <3>2, <3>3
  <2> QED BY <2>1, <2>2
<1>5. Requested!TypeOK'
  <2>1. store' \in [Requested!Places -> [form : Requested!Forms, body : Requested!Bodies] \cup {Requested!NoEntry}]
    BY <1>4 DEF BodiesKept, Requested!Forms
  <2>2. serving' \in [Threads -> {"idle", "local", "readfile", "exists", "read", "fetch", "store", "decode", "use"}]
    BY <1>1
  <2>3. \A u \in Threads : /\ answered'[u].status \in {Requested!Dropped, 0, 200, 404, 500}
                           /\ held'[u] # Requested!NoEntry <=> serving'[u] \in {"store", "decode", "use"}
    BY <1>0, <1>2 DEF Requested!TypeOK
  <2> QED BY <1>1, <2>1, <2>2, <2>3 DEF Requested!TypeOK
<1>6. held' \in [Threads -> BodiesKept \cup {Requested!NoEntry}] /\ answered' = [u \in Threads |-> answered'[u]]
  BY <1>0
<1>7. \A u \in Threads : serving'[u] # "idle" => request'[u] \in Requests
  BY <1>2 DEF RequestInv
<1>8. /\ \A u \in Threads : serving'[u] \in {"store", "decode", "use"} => <<request'[u].at, held'[u].body>> \in said'
      /\ \A u \in Threads : serving'[u] \in {"store", "use"} => held'[u].form = "raw"
      /\ \A u \in Threads : serving'[u] = "decode" /\ held'[u].form = "counted" => request'[u].engine = "permacache_proxy"
  <2>1. /\ p \in {"store", "decode", "use"} => <<request'[t].at, h.body>> \in said'
        /\ p \in {"store", "use"} => h.form = "raw"
        /\ p = "decode" /\ h.form = "counted" => request'[t].engine = "permacache_proxy"
        /\ request' = request /\ said \subseteq said'
    OBVIOUS
  <2> HIDE DEF GoesTo, StoresWhatItHolds
  <2>2. ASSUME NEW u \in Threads
        PROVE  serving'[u] \in {"store", "decode", "use"} => <<request'[u].at, held'[u].body>> \in said'
    <3>1. serving[u] \in {"store", "decode", "use"} => <<request[u].at, held[u].body>> \in said
      BY DEF RequestInv
    <3> QED BY <1>2, <2>1, <3>1
  <2>3. \A u \in Threads : serving'[u] \in {"store", "use"} => held'[u].form = "raw"
    BY <1>2, <2>1 DEF RequestInv
  <2>4. \A u \in Threads : serving'[u] = "decode" /\ held'[u].form = "counted" => request'[u].engine = "permacache_proxy"
    BY <1>2, <2>1 DEF RequestInv
  <2> QED BY <2>2, <2>3, <2>4
<1>9. \A u \in Threads : serving'[u] = "read" /\ losses' = 0 => store'[request'[u].at] # Requested!NoEntry
  <2> SUFFICES ASSUME NEW u \in Threads, serving'[u] = "read", losses' = 0
               PROVE  store'[request'[u].at] # Requested!NoEntry
    OBVIOUS
  <2>1. request[u] \in Requests /\ request'[u] = request[u]
    BY <1>2 DEF RequestInv
  <2>2. request[u].at \in Requested!Places
    BY <2>1 DEF Requested!Places
  <2>3. store[request[u].at] # Requested!NoEntry
    BY <1>2 DEF RequestInv
  <2> QED BY <1>4, <2>1, <2>2, <2>3
<1>10. Requested!ServedIsWhatWasSaid'
  BY <1>2 DEF RequestInv, Requested!ServedIsWhatWasSaid, Requested!At
<1> QED BY <1>4, <1>5, <1>6, <1>7, <1>8, <1>9, <1>10 DEF RequestInv

\* What a request can hold.
LEMMA HeldBodies ==
  /\ \A b \in Requested!Bodies : Requested!Entry("raw", b) \in BodiesKept /\ Requested!Entry("counted", b) \in BodiesKept
  /\ \A f, b : Requested!Entry(f, b).form = f /\ Requested!Entry(f, b).body = b
  /\ Requested!NoEntry \notin BodiesKept
BY DEF BodiesKept, Requested!Entry, Requested!NoEntry

\* An answer that is a failure, and going on without one.
LEMMA Failing ==
  ASSUME RequestInv, NEW t \in Threads, request[t] \in Requests, NEW status \in {Requested!Dropped, 404, 500},
         Requested!Fail(t, status), said' = said, UNCHANGED <<store, request, losses>>
  PROVE  RequestInv'
<1> DEFINE a == [status |-> status, form |-> "none", body |-> None]
<1>1. serving' = [serving EXCEPT ![t] = "idle"] /\ held' = [held EXCEPT ![t] = Requested!NoEntry]
      /\ answered' = [answered EXCEPT ![t] = a]
  BY DEF Requested!Fail, Requested!Respond, Requested!Goto
<1>2. said \subseteq Requested!Places \X Requested!Bodies
  BY DEF RequestInv, Requested!TypeOK
<1>3. a.status = status /\ status # 200 /\ status \in {Requested!Dropped, 0, 200, 404, 500}
  BY DEF Requested!Dropped
<1> HIDE DEF a
<1>4. GoesTo(t, "idle", Requested!NoEntry, a)
  BY <1>1, <1>2, <1>3 DEF GoesTo, StoresWhatItHolds
<1> QED BY <1>4, OneThreadSuffices

\* A request that goes on with what it holds.
LEMMA GoingOn ==
  ASSUME RequestInv, NEW t \in Threads, request[t] \in Requests,
         NEW p \in {"idle", "local", "readfile", "exists", "read", "fetch", "store", "decode", "use"},
         Requested!Goto(t, p), UNCHANGED <<said, request, losses, held, answered>>,
         p \in {"store", "decode", "use"} <=> serving[t] \in {"store", "decode", "use"},
         p \in {"store", "use"} => held[t].form = "raw", p # "decode",
         p = "read" /\ losses = 0 => store[request[t].at] # Requested!NoEntry,
         StoresWhatItHolds(t)
  PROVE  RequestInv'
<1>1. serving' = [serving EXCEPT ![t] = p]
  BY DEF Requested!Goto
<1>2. held' = [held EXCEPT ![t] = held[t]] /\ answered' = [answered EXCEPT ![t] = answered[t]]
  BY DEF RequestInv
<1>3. /\ said \subseteq Requested!Places \X Requested!Bodies
      /\ answered[t].status \in {Requested!Dropped, 0, 200, 404, 500}
      /\ held[t] # Requested!NoEntry <=> serving[t] \in {"store", "decode", "use"}
  BY DEF RequestInv, Requested!TypeOK
<1>4. held[t] \in BodiesKept \cup {Requested!NoEntry}
  BY DEF RequestInv
<1>5. answered[t].status = 200 => <<request[t].at, answered[t].body>> \in said /\ answered[t].form # "counted"
  BY DEF RequestInv, Requested!ServedIsWhatWasSaid, Requested!At
<1>6. held[t] # Requested!NoEntry => <<request[t].at, held[t].body>> \in said
  BY <1>3 DEF RequestInv
<1>7. GoesTo(t, p, held[t], answered[t])
  BY <1>1, <1>2, <1>3, <1>4, <1>5, <1>6 DEF GoesTo
<1> QED BY <1>7, OneThreadSuffices

\* Every step of a request keeps the invariant.
LEMMA RequestSteps ==
  ASSUME ProxyIsApart, RequestInv, NEW t \in Threads, Requested!Receive(t) \/ Requested!Step(t)
  PROVE  RequestInv'
<1>0. /\ serving \in [Threads -> {"idle", "local", "readfile", "exists", "read", "fetch", "store", "decode", "use"}]
      /\ request \in [Threads -> Requests \cup {Requested!NoRequest}]
      /\ store \in [Requested!Places -> BodiesKept \cup {Requested!NoEntry}]
      /\ held \in [Threads -> BodiesKept \cup {Requested!NoEntry}]
      /\ said \subseteq Requested!Places \X Requested!Bodies
      /\ held[t] # Requested!NoEntry <=> serving[t] \in {"store", "decode", "use"}
      /\ answered = [u \in Threads |-> answered[u]]
  BY DEF RequestInv, Requested!TypeOK, BodiesKept, Requested!Forms
<1>00. serving[t] # "idle" => request[t] \in Requests /\ request[t].at \in Requested!Places
  BY DEF RequestInv, Requested!Places
<1>1. CASE Requested!Receive(t)
  <2>1. PICK r \in Requests :
          /\ request' = [request EXCEPT ![t] = r]
          /\ serving' = [serving EXCEPT ![t] = IF r.engine = "ir4_local" THEN "local" ELSE "exists"]
    BY <1>1 DEF Requested!Receive, Requested!Goto
  <2>2. /\ serving[t] = "idle" /\ answered' = [answered EXCEPT ![t] = Requested!NoAnswer]
        /\ UNCHANGED <<store, held, said, losses>>
    BY <1>1 DEF Requested!Receive
  <2>3. /\ request'[t] = r /\ serving'[t] \in {"local", "exists"} /\ answered'[t] = Requested!NoAnswer
        /\ \A u \in Threads \ {t} : request'[u] = request[u] /\ serving'[u] = serving[u] /\ answered'[u] = answered[u]
    BY <1>0, <2>1, <2>2
  <2>4. Requested!NoAnswer.status = 0
    BY DEF Requested!NoAnswer
  <2>5. Requested!TypeOK'
    <3>1. serving' \in [Threads -> {"idle", "local", "readfile", "exists", "read", "fetch", "store", "decode", "use"}]
      BY <1>0, <2>1
    <3>2. request' \in [Threads -> Requests \cup {Requested!NoRequest}]
      BY <1>0, <2>1
    <3>3. \A u \in Threads : /\ answered'[u].status \in {Requested!Dropped, 0, 200, 404, 500}
                             /\ held'[u] # Requested!NoEntry <=> serving'[u] \in {"store", "decode", "use"}
      BY <1>0, <2>2, <2>3, <2>4 DEF RequestInv, Requested!TypeOK
    <3> QED BY <2>2, <3>1, <3>2, <3>3 DEF RequestInv, Requested!TypeOK
  <2>6. Requested!ServedIsWhatWasSaid'
    BY <2>2, <2>3, <2>4 DEF RequestInv, Requested!ServedIsWhatWasSaid, Requested!At
  <2>7. \A u \in Threads : serving'[u] # "idle" => request'[u] \in Requests
    BY <2>3 DEF RequestInv
  <2>8. \A u \in Threads : serving'[u] \in {"store", "decode", "use"} => <<request'[u].at, held'[u].body>> \in said'
    BY <2>2, <2>3 DEF RequestInv
  <2>9. /\ \A u \in Threads : serving'[u] \in {"store", "use"} => held'[u].form = "raw"
        /\ \A u \in Threads : serving'[u] = "decode" /\ held'[u].form = "counted" => request'[u].engine = "permacache_proxy"
    BY <2>2, <2>3 DEF RequestInv
  <2>10. \A u \in Threads : serving'[u] = "read" /\ losses' = 0 => store'[request'[u].at] # Requested!NoEntry
    BY <2>2, <2>3 DEF RequestInv
  <2>11. answered' = [u \in Threads |-> answered'[u]]
    BY <1>0, <2>2
  <2> QED BY <2>2, <2>5, <2>6, <2>7, <2>8, <2>9, <2>10, <2>11 DEF RequestInv
<1>2. CASE Requested!LookForFile(t)
  <2>1. request[t] \in Requests /\ UNCHANGED <<store, request, said, losses>> /\ serving[t] = "local"
    BY <1>00, <1>2 DEF Requested!LookForFile
  <2>2. CASE Requested!Fail(t, 404)
    BY <2>1, <2>2, Failing
  <2>3. CASE Requested!Goto(t, "readfile") /\ UNCHANGED <<held, answered>>
    BY <2>1, <2>3, GoingOn DEF StoresWhatItHolds
  <2> QED BY <1>2, <2>2, <2>3 DEF Requested!LookForFile
<1>3. ASSUME NEW b \in Requested!Bodies, NEW next \in {"use", "store"}, Requested!Obtain(t, b, next),
             Requested!Hear(t, {b}), UNCHANGED <<store, request, losses>>, request[t] \in Requests
      PROVE  RequestInv'
  <2> DEFINE h == Requested!Entry("raw", b)
  <2>1. serving' = [serving EXCEPT ![t] = next] /\ held' = [held EXCEPT ![t] = h] /\ answered' = answered
    BY <1>3 DEF Requested!Obtain, Requested!Goto
  <2>2. said' = said \cup ({request[t].at} \X {b}) /\ request[t].at \in Requested!Places
    BY <1>3 DEF Requested!Hear, Requested!At, Requested!Places
  <2>3. said \subseteq said' /\ said' \subseteq Requested!Places \X Requested!Bodies /\ <<request[t].at, b>> \in said'
    BY <1>0, <2>2
  <2>4. answered' = [answered EXCEPT ![t] = answered[t]]
    BY <1>0, <2>1
  <2>5. /\ answered[t].status \in {Requested!Dropped, 0, 200, 404, 500}
        /\ answered[t].status = 200 => <<request[t].at, answered[t].body>> \in said' /\ answered[t].form # "counted"
    BY <2>3 DEF RequestInv, Requested!TypeOK, Requested!ServedIsWhatWasSaid, Requested!At
  <2>6. h \in BodiesKept /\ h # Requested!NoEntry /\ h.form = "raw" /\ h.body = b
    BY HeldBodies
  <2> HIDE DEF h
  <2>7. GoesTo(t, next, h, answered[t])
    BY <1>3, <2>1, <2>3, <2>4, <2>5, <2>6 DEF GoesTo, StoresWhatItHolds
  <2> QED BY <2>7, OneThreadSuffices
<1>4. CASE Requested!ReadFile(t)
  <2>1. request[t] \in Requests /\ UNCHANGED <<store, request, losses>>
    BY <1>00, <1>4 DEF Requested!ReadFile
  <2>2. CASE Requested!Fail(t, 500) /\ UNCHANGED said
    BY <2>1, <2>2, Failing
  <2>3. ASSUME NEW b \in Requested!Bodies, Requested!Obtain(t, b, "use"), Requested!Hear(t, {b})
        PROVE  RequestInv'
    BY <1>3, <2>1, <2>3
  <2> QED BY <1>4, <2>2, <2>3 DEF Requested!ReadFile
<1>5. CASE Requested!LookForEntry(t)
  <2>1. /\ request[t] \in Requests /\ UNCHANGED <<store, request, held, answered, said, losses>> /\ serving[t] = "exists"
        /\ Requested!Goto(t, Requested!Found(t))
    BY <1>00, <1>5 DEF Requested!LookForEntry
  <2>2. /\ Requested!Found(t) \in {"fetch", "read"}
        /\ Requested!Found(t) = "read" => store[request[t].at] # Requested!NoEntry
    BY DEF Requested!Found, Requested!At
  <2> QED BY <2>1, <2>2, GoingOn DEF StoresWhatItHolds
<1>6. CASE Requested!ReadEntry(t)
  <2>1. request[t] \in Requests /\ UNCHANGED <<store, request, said, losses>> /\ request[t].at \in Requested!Places
    BY <1>00, <1>6 DEF Requested!ReadEntry
  <2>2. CASE store[request[t].at] = Requested!NoEntry
    <3>1. Requested!Fail(t, 500)
      BY <1>6, <2>2 DEF Requested!ReadEntry, Requested!At
    <3> QED BY <2>1, <3>1, Failing
  <2>3. CASE store[request[t].at] # Requested!NoEntry
    <3> DEFINE h == store[request[t].at]
    <3>1. held' = [held EXCEPT ![t] = h] /\ serving' = [serving EXCEPT ![t] = "decode"] /\ answered' = answered
      BY <1>6, <2>3 DEF Requested!ReadEntry, Requested!At, Requested!Goto
    <3>2. h \in BodiesKept /\ h # Requested!NoEntry
      BY <1>0, <2>1, <2>3
    <3>3. /\ <<request[t].at, h.body>> \in said
          /\ h.form = "counted" => \E r \in Requests : r.at = request[t].at /\ r.engine = "permacache_proxy"
      BY <2>1, <2>3 DEF RequestInv
    <3>4. h.form = "counted" => request[t].engine = "permacache_proxy"
      BY <2>1, <3>3 DEF ProxyIsApart
    <3>5. answered' = [answered EXCEPT ![t] = answered[t]]
      BY <1>0, <3>1
    <3>6. /\ answered[t].status \in {Requested!Dropped, 0, 200, 404, 500}
          /\ answered[t].status = 200 => <<request[t].at, answered[t].body>> \in said /\ answered[t].form # "counted"
      BY DEF RequestInv, Requested!TypeOK, Requested!ServedIsWhatWasSaid, Requested!At
    <3> HIDE DEF h
    <3>7. GoesTo(t, "decode", h, answered[t])
      BY <1>0, <2>1, <3>1, <3>2, <3>3, <3>4, <3>5, <3>6 DEF GoesTo, StoresWhatItHolds
    <3> QED BY <3>7, OneThreadSuffices
  <2> QED BY <2>2, <2>3
<1>7. CASE Requested!Fetch(t)
  <2>1. request[t] \in Requests /\ UNCHANGED <<store, request, losses>>
    BY <1>00, <1>7 DEF Requested!Fetch
  <2>2. PICK s \in Requested!Replies :
          /\ IF Requested!IsResult(s)
             THEN Requested!Obtain(t, s.body, "store")
             ELSE Requested!Fail(t, CASE s.kind = "untyped" -> Requested!Dropped [] s.kind = "404" -> 404 [] OTHER -> 500)
          /\ Requested!Hear(t, IF s.kind = "ok" THEN {s.body} ELSE {})
    BY <1>7 DEF Requested!Fetch
  <2>3. CASE s.kind = "ok"
    <3>1. s.body \in Requested!Bodies
      BY <2>3 DEF Requested!Replies
    <3>2. Requested!Obtain(t, s.body, "store") /\ Requested!Hear(t, {s.body})
      BY <2>2, <2>3 DEF Requested!IsResult
    <3> QED BY <1>3, <2>1, <3>1, <3>2
  <2>4. CASE s.kind # "ok"
    <3> DEFINE status == CASE s.kind = "untyped" -> Requested!Dropped [] s.kind = "404" -> 404 [] OTHER -> 500
    <3>1. Requested!Fail(t, status) /\ Requested!Hear(t, {})
      BY <2>2, <2>4 DEF Requested!IsResult
    <3>2. said' = said
      BY <3>1 DEF Requested!Hear
    <3>3. status \in {Requested!Dropped, 404, 500}
      OBVIOUS
    <3> HIDE DEF status
    <3> QED BY <2>1, <3>1, <3>2, <3>3, Failing
  <2> QED BY <2>3, <2>4
<1>8. CASE Requested!Store(t)
  <2>1. /\ request[t] \in Requests /\ UNCHANGED <<request, said, losses>> /\ serving[t] = "store"
    BY <1>00, <1>8 DEF Requested!Store
  <2>2. CASE UNCHANGED store /\ (Requested!Fail(t, 500) \/ Requested!Fail(t, Requested!Dropped))
    BY <2>1, <2>2, Failing
  <2>3. CASE /\ store' = [store EXCEPT ![Requested!At(t)] = Requested!Stored(t)]
             /\ Requested!Goto(t, "use") /\ UNCHANGED <<held, answered>>
    <3> DEFINE e == Requested!Stored(t)
    <3>1. held[t] \in BodiesKept
      BY <1>0, <2>1
    <3>2. held[t].body \in Requested!Bodies
      BY <3>1 DEF BodiesKept
    <3>3. e \in BodiesKept /\ e.body = held[t].body /\ (e.form = "counted" => request[t].engine = "permacache_proxy")
      <4>1. \/ e = Requested!Entry("counted", held[t].body) /\ request[t].engine = "permacache_proxy"
            \/ e = Requested!Entry("raw", held[t].body)
        BY DEF Requested!Stored
      <4> QED BY <3>2, <4>1, HeldBodies
    <3>4. <<request[t].at, held[t].body>> \in said /\ held[t].form = "raw"
      BY <2>1 DEF RequestInv
    <3>5. store' = [store EXCEPT ![request[t].at] = e]
      BY <2>3 DEF Requested!At
    <3> HIDE DEF e
    <3> QED BY <2>1, <2>3, <3>3, <3>4, <3>5, GoingOn DEF StoresWhatItHolds
  <2> QED BY <1>8, <2>2, <2>3 DEF Requested!Store
<1>9. CASE Requested!Decode(t)
  <2>1. request[t] \in Requests /\ UNCHANGED <<store, request, said, losses>> /\ serving[t] = "decode"
    BY <1>00, <1>9 DEF Requested!Decode
  <2>2. CASE Requested!IsReadable(t)
    <3>1. Requested!Goto(t, "use") /\ UNCHANGED <<held, answered>>
      BY <1>9, <2>2 DEF Requested!Decode
    <3>2. held[t].form = "raw"
      <4>1. held[t].form # "counted"
        BY <2>1, <2>2 DEF Requested!IsReadable, RequestInv
      <4>2. held[t] \in BodiesKept
        BY <1>0, <2>1
      <4> QED BY <4>1, <4>2 DEF BodiesKept
    <3> QED BY <2>1, <3>1, <3>2, GoingOn DEF StoresWhatItHolds
  <2>3. CASE ~Requested!IsReadable(t)
    <3>1. Requested!Fail(t, Requested!Dropped)
      BY <1>9, <2>3 DEF Requested!Decode
    <3> QED BY <2>1, <3>1, Failing
  <2> QED BY <2>2, <2>3
<1>10. CASE Requested!Use(t)
  <2>1. request[t] \in Requests /\ UNCHANGED <<store, request, said, losses>> /\ serving[t] = "use"
    BY <1>00, <1>10 DEF Requested!Use
  <2>2. held[t].form = "raw" /\ <<request[t].at, held[t].body>> \in said
    BY <2>1 DEF RequestInv
  <2>3. ASSUME NEW f \in {"raw", "image"}, Requested!Respond(t, 200, f, held[t].body)
        PROVE  RequestInv'
    <3> DEFINE a == [status |-> 200, form |-> f, body |-> held[t].body]
    <3>1. serving' = [serving EXCEPT ![t] = "idle"] /\ held' = [held EXCEPT ![t] = Requested!NoEntry]
          /\ answered' = [answered EXCEPT ![t] = a]
      BY <2>3 DEF Requested!Respond, Requested!Goto
    <3>2. a.status = 200 /\ a.form # "counted" /\ a.body = held[t].body
      OBVIOUS
    <3> HIDE DEF a
    <3>3. GoesTo(t, "idle", Requested!NoEntry, a)
      BY <1>0, <2>1, <2>2, <3>1, <3>2 DEF GoesTo, StoresWhatItHolds
    <3> QED BY <3>3, OneThreadSuffices
  <2>4. CASE request[t].engine \in Requested!Proxies
    <3>1. Requested!Respond(t, 200, "raw", held[t].body)
      BY <1>10, <2>2, <2>4 DEF Requested!Use
    <3> QED BY <2>3, <3>1
  <2>5. CASE request[t].engine \notin Requested!Proxies /\ held[t].body \in Images
    <3>1. Requested!Respond(t, 200, "image", held[t].body)
      BY <1>10, <2>2, <2>5 DEF Requested!Use
    <3> QED BY <2>3, <3>1
  <2>6. CASE request[t].engine \notin Requested!Proxies /\ held[t].body \notin Images
    <3>1. Requested!Fail(t, 500)
      BY <1>10, <2>6 DEF Requested!Use
    <3> QED BY <2>1, <3>1, Failing
  <2> QED BY <2>4, <2>5, <2>6
<1> QED BY <1>1, <1>2, <1>4, <1>5, <1>6, <1>7, <1>8, <1>9, <1>10 DEF Requested!Step

\* Every step keeps it, and an entry that was found is served unless it was lost.
LEMMA RequestsGoOn ==
  ASSUME ProxyIsApart, RequestInv, [Requested!Next]_(Requested!vars)
  PROVE  RequestInv' /\ [\A t \in Threads :
                           /\ request[t].engine = "permacache_proxy_guess_content_types"
                           /\ serving[t] = "read" /\ serving'[t] = "idle"
                           => losses > 0]_(Requested!vars)
<1>1. CASE UNCHANGED Requested!vars
  BY <1>1 DEF RequestInv, Requested!vars, Requested!TypeOK, Requested!ServedIsWhatWasSaid, Requested!At
<1>0. /\ serving \in [Threads -> {"idle", "local", "readfile", "exists", "read", "fetch", "store", "decode", "use"}]
      /\ store \in [Requested!Places -> BodiesKept \cup {Requested!NoEntry}]
      /\ losses \in Nat
  <2>1. Requested!ServerAssumption
    BY PartsAssumption
  <2> QED BY <2>1 DEF RequestInv, Requested!TypeOK, BodiesKept, Requested!Forms, Requested!ServerAssumption
<1>2. ASSUME NEW t \in Threads, Requested!Receive(t) \/ Requested!Step(t)
      PROVE  /\ RequestInv'
             /\ \A u \in Threads : serving[u] = "read" /\ serving'[u] = "idle" => losses > 0
  <2>1. RequestInv'
    BY <1>2, RequestSteps
  <2>2. \A u \in Threads \ {t} : serving'[u] = serving[u]
    BY <1>0, <1>2 DEF Requested!Receive, Requested!Step, Requested!LookForFile, Requested!ReadFile, Requested!LookForEntry,
      Requested!ReadEntry, Requested!Fetch, Requested!Store, Requested!Decode, Requested!Use, Requested!Fail,
      Requested!Respond, Requested!Goto, Requested!Obtain
  <2>3. ASSUME serving[t] = "read", losses = 0
        PROVE  serving'[t] # "idle"
    <3>1. store[request[t].at] # Requested!NoEntry
      BY <2>3 DEF RequestInv
    <3>2. Requested!ReadEntry(t)
      BY <1>2, <2>3 DEF Requested!Receive, Requested!Step, Requested!LookForFile, Requested!ReadFile, Requested!LookForEntry,
        Requested!Fetch, Requested!Store, Requested!Decode, Requested!Use
    <3> QED BY <1>0, <3>1, <3>2 DEF Requested!ReadEntry, Requested!Goto, Requested!At
  <2> QED BY <1>0, <2>1, <2>2, <2>3
<1>3. CASE Requested!Lose
  <2>1. PICK u \in Requested!Places : store' = [store EXCEPT ![u] = Requested!NoEntry]
    BY <1>3 DEF Requested!Lose
  <2>2. losses < MaxLosses /\ losses' = losses + 1 /\ UNCHANGED <<serving, request, held, answered, said>>
    BY <1>3 DEF Requested!Lose
  <2>3. store' \in [Requested!Places -> BodiesKept \cup {Requested!NoEntry}] /\ losses' \in 0 .. MaxLosses /\ losses' # 0
    <3>1. Requested!ServerAssumption
      BY PartsAssumption
    <3> QED BY <1>0, <2>1, <2>2, <3>1 DEF Requested!ServerAssumption
  <2>4. \A v \in Requested!Places : store'[v] # Requested!NoEntry => store'[v] = store[v]
    BY <1>0, <2>1
  <2>5. Requested!TypeOK'
    BY <2>2, <2>3 DEF RequestInv, Requested!TypeOK, BodiesKept, Requested!Forms
  <2>6. Requested!ServedIsWhatWasSaid'
    BY <2>2 DEF RequestInv, Requested!ServedIsWhatWasSaid, Requested!At
  <2>7. RequestInv'
    BY <2>2, <2>3, <2>4, <2>5, <2>6 DEF RequestInv
  <2> QED BY <1>0, <2>2, <2>7
<1> QED BY <1>1, <1>2, <1>3 DEF Requested!Next

\* Whoever asks for an url is answered with what came from there and as it came, as long
\* as permacache_proxy shares no url with the other engines; failures are not kept; and
\* a request that finds an entry is answered from it, if none gets lost (lib.rs:189-247).
THEOREM AnswersComeFromThere ==
  ASSUME ProxyIsApart
  PROVE  ServerSideSpec => AnswersAreTrue
<1>1. ServerSideInit => RequestInv
  BY ServerSideParts, RequestsBegin
<1>2. RequestInv /\ [ServerSideNext]_serverVars =>
        RequestInv' /\ [\A t \in Threads :
                           /\ request[t].engine = "permacache_proxy_guess_content_types"
                           /\ serving[t] = "read" /\ serving'[t] = "idle"
                           => losses > 0]_(Requested!vars)
  BY ServerSideParts, RequestsGoOn
<1>3. RequestInv => (part = "requests" => Requested!ServedIsWhatWasSaid /\ Requested!OnlyResultsAreCached)
  BY DEF RequestInv, Requested!OnlyResultsAreCached
<1> QED BY <1>1, <1>2, <1>3, PTL DEF ServerSideSpec, AnswersAreTrue, Requested!FilledNeedsNoUpstream

-----------------------------------------------------------------------------
\* The cache of licenses.
Callers == Threads \cup {Tool}
TryPuts == [op : {"try_put"}, key : LicenseKeys, value : Blobs]
Gets == [op : {"get"}, key : LicenseKeys, value : Blobs \cup {"cut", "none"}]
Putting == {"compare", "insert", "write", "create", "fill"}
Getting == {"look", "read", "load", "keep"}
Results == {"none", "Duplicate", "WriteComplete", "WriteFailed"}

CacheTypes ==
  /\ memory \in [Cached!Processes -> [LicenseKeys -> Blobs \cup {"cut", "none"}]]
  /\ disk \in [LicenseKeys -> Blobs \cup {"cut", "none"}]
  /\ lock \in [Cached!Processes -> [writer : SUBSET Callers, readers : SUBSET Callers]]
  /\ caching \in [Callers -> {"idle"} \cup Putting \cup Getting]
  /\ cacheCall \in [Callers -> TryPuts \cup Gets \cup {Cached!NoCall}]
  /\ cached \in [Callers -> Results \cup Blobs \cup {"cut"}]
  /\ alone \in [Callers -> BOOLEAN] /\ interrupted \in SUBSET LicenseKeys /\ cacheHarm \in 0 .. CacheHarm

\* Each is in the call it has begun, is answered as that may be, and keeps what there was.
CallsFit ==
  \A t \in Callers :
    /\ caching[t] \in Putting => cacheCall[t] \in TryPuts
    /\ caching[t] \in Getting => cacheCall[t] \in Gets
    /\ caching[t] = "keep" => cacheCall[t].value # "none" /\ disk[cacheCall[t].key] # "none"
    /\ cacheCall[t].op = "try_put" => cached[t] \in Results
    /\ cacheCall[t].op = "get" => cached[t] \in Blobs \cup {"cut", "none"}

\* Who writes is alone in its process, who reads has no writer there.
LocksHold ==
  /\ \A t \in Callers : /\ caching[t] \in {"create", "fill"} => lock[ProcessOf[t]].writer = {t}
                        /\ caching[t] = "load" => t \in lock[ProcessOf[t]].readers
  /\ \A p \in Cached!Processes : lock[p].writer = {} \/ lock[p].readers = {}

\* A file that is not whole is being written, or was when its writer ended.
Filling(k) == \E u \in Callers : caching[u] = "fill" /\ cacheCall[u].key = k
CutsAreKnown == \A k \in LicenseKeys : disk[k] = "cut" => k \in interrupted \/ Filling(k)

\* What a call that nobody disturbed has done so far.
AloneIsKept ==
  \A t \in Callers : alone[t] =>
    /\ \A u \in Callers \ {t} : caching[u] = "idle"
    /\ caching[t] \in {"write", "create", "fill"} => Cached!Mine(t) = cacheCall[t].value
    /\ caching[t] = "idle" /\ cacheCall[t].op = "try_put" /\ cached[t] = "WriteComplete" =>
         Cached!Mine(t) = cacheCall[t].value /\ disk[cacheCall[t].key] = cacheCall[t].value
    /\ caching[t] = "idle" /\ cacheCall[t].op = "get" /\ cached[t] # "none" => Cached!Mine(t) = cached[t]

\* What is in memory is in a file, or about to be, if nothing has failed.
Pending(k) == \E u \in Callers : caching[u] \in {"write", "create", "fill"} /\ cacheCall[u].key = k
MemoryIsBacked ==
  cacheHarm = 0 =>
    /\ \A p \in Cached!Processes, k \in LicenseKeys : memory[p][k] # "none" => disk[k] # "none" \/ Pending(k)
    /\ \A k \in LicenseKeys : disk[k] # "none" => disk[k] \in Blobs \/ Pending(k)

CacheInv == CacheTypes /\ CallsFit /\ LocksHold /\ CutsAreKnown /\ AloneIsKept /\ MemoryIsBacked

\* Texts, cut texts and answers are told apart.
LEMMA CacheFacts ==
  /\ Cached!NoText = "none" /\ Cached!CutText = "cut"
  /\ Cached!Texts = Blobs \cup {"cut"}
  /\ Cached!NoCall.op = "none"
  /\ CacheHarm \in Nat
  /\ "none" \notin Blobs /\ "cut" \notin Blobs /\ "Duplicate" \notin Blobs
  /\ "WriteComplete" \notin Blobs /\ "WriteFailed" \notin Blobs
  /\ \A t \in Callers : ProcessOf[t] \in Cached!Processes
<1>1. Cached!HarmAssumption
  BY PartsAssumption
<1>2. \A t \in Callers : ProcessOf[t] \in Cached!Processes
  BY DEF Cached!Processes, Callers
<1> QED BY <1>1, <1>2 DEF Cached!HarmAssumption, Cached!NoText, Cached!CutText, Cached!Texts, Cached!NoCall

\* The invariant of the license cache holds at first.
LEMMA CacheBegins == Cached!Init => CacheInv
<1> SUFFICES ASSUME Cached!Init
             PROVE  CacheInv
  OBVIOUS
<1>1. /\ memory = [p \in Cached!Processes |-> [k \in LicenseKeys |-> "none"]]
      /\ disk = [k \in LicenseKeys |-> "none"]
      /\ lock = [p \in Cached!Processes |-> [writer |-> {}, readers |-> {}]]
      /\ caching = [t \in Callers |-> "idle"] /\ cacheCall = [t \in Callers |-> Cached!NoCall]
      /\ cached = [t \in Callers |-> "none"] /\ alone = [t \in Callers |-> TRUE]
      /\ interrupted = {} /\ cacheHarm = 0
  BY CacheFacts DEF Cached!Init, Cached!Empty, Cached!Free, Callers
<1>2. CacheTypes
  BY <1>1, CacheFacts DEF CacheTypes, Results
<1>3. CallsFit
  BY <1>1, CacheFacts DEF CallsFit, Putting, Getting
<1>4. LocksHold
  BY <1>1, CacheFacts DEF LocksHold
<1>5. CutsAreKnown
  BY <1>1 DEF CutsAreKnown
<1>6. AloneIsKept
  BY <1>1, CacheFacts DEF AloneIsKept
<1>7. MemoryIsBacked
  BY <1>1 DEF MemoryIsBacked
<1> QED BY <1>2, <1>3, <1>4, <1>5, <1>6, <1>7 DEF CacheInv

\* The parts of that invariant.
LEMMA CacheTyped ==
  ASSUME CacheInv
  PROVE  CacheTypes /\ CallsFit /\ LocksHold /\ CutsAreKnown /\ AloneIsKept /\ MemoryIsBacked
BY DEF CacheInv

\* A call begins.
LEMMA CallBegins ==
  ASSUME CacheInv, NEW t \in Callers, Cached!Start(t)
  PROVE  CacheInv'
<1>1. PICK c \in TryPuts \cup [op : {"get"}, key : LicenseKeys, value : {"none"}] :
        /\ cacheCall' = [cacheCall EXCEPT ![t] = c]
        /\ caching' = [caching EXCEPT ![t] = IF c.op = "get" THEN "look" ELSE "compare"]
  BY CacheFacts DEF Cached!Start, Cached!Calls, Cached!Goto, TryPuts
<1>2. /\ caching[t] = "idle" /\ cached' = [cached EXCEPT ![t] = "none"]
      /\ alone' = [u \in Callers |-> u = t /\ ~Cached!Busy(t)]
      /\ UNCHANGED <<memory, disk, lock, interrupted, cacheHarm>>
  BY CacheFacts DEF Cached!Start, Callers
<1>3. c \in TryPuts \cup Gets /\ (c.op = "get" => c \in Gets) /\ (c.op # "get" => c \in TryPuts)
  BY DEF TryPuts, Gets
<1>0. CacheTypes
  BY CacheTyped
<1>4. /\ cacheCall'[t] = c /\ caching'[t] \in {"look", "compare"} /\ cached'[t] = "none"
      /\ caching'[t] = "look" => c \in Gets
      /\ caching'[t] = "compare" => c \in TryPuts
      /\ \A u \in Callers \ {t} : cacheCall'[u] = cacheCall[u] /\ caching'[u] = caching[u] /\ cached'[u] = cached[u]
  BY <1>0, <1>1, <1>2, <1>3 DEF CacheTypes
<1>5. CacheTypes'
  <2>1. caching' \in [Callers -> {"idle"} \cup Putting \cup Getting]
    BY <1>0, <1>1 DEF CacheTypes, Putting, Getting
  <2>2. cacheCall' \in [Callers -> TryPuts \cup Gets \cup {Cached!NoCall}]
    BY <1>0, <1>1, <1>3 DEF CacheTypes
  <2>3. cached' \in [Callers -> Results \cup Blobs \cup {"cut"}]
    BY <1>0, <1>2 DEF CacheTypes, Results
  <2> QED BY <1>0, <1>2, <2>1, <2>2, <2>3 DEF CacheTypes
<1>6. CallsFit'
  <2> SUFFICES ASSUME NEW u \in Callers
               PROVE  /\ caching'[u] \in Putting => cacheCall'[u] \in TryPuts
                      /\ caching'[u] \in Getting => cacheCall'[u] \in Gets
                      /\ caching'[u] = "keep" => cacheCall'[u].value # "none" /\ disk'[cacheCall'[u].key] # "none"
                      /\ cacheCall'[u].op = "try_put" => cached'[u] \in Results
                      /\ cacheCall'[u].op = "get" => cached'[u] \in Blobs \cup {"cut", "none"}
    BY DEF CallsFit
  <2>1. CASE u = t
    BY <1>4, <2>1 DEF Putting, Getting, Results
  <2>2. CASE u # t
    BY <1>2, <1>4, <2>2, CacheTyped DEF CallsFit
  <2> QED BY <2>1, <2>2
<1>7. LocksHold'
  BY <1>2, <1>4, CacheTyped DEF LocksHold
<1>8. CutsAreKnown'
  <2>1. \A u \in Callers : caching[u] = "fill" => u # t
    BY <1>2
  <2> QED BY <1>2, <1>4, <2>1, CacheTyped DEF CutsAreKnown, Filling
<1>9. AloneIsKept'
  <2>1. ASSUME NEW u \in Callers, alone'[u]
        PROVE  u = t /\ \A v \in Callers \ {t} : caching[v] = "idle"
    BY <1>2, <2>1 DEF Cached!Busy, Callers
  <2> QED BY <1>4, <2>1 DEF AloneIsKept
<1>10. MemoryIsBacked'
  <2>1. \A k \in LicenseKeys : Pending(k) => Pending(k)'
    BY <1>2, <1>4 DEF Pending
  <2> QED BY <1>2, <2>1, CacheTyped DEF MemoryIsBacked
<1> QED BY <1>5, <1>6, <1>7, <1>8, <1>9, <1>10 DEF CacheInv

\* A step within a call, of a thread t that goes to p with the answer r, and does nothing
\* to files and locks.
Proceeds(t, p, r) ==
  /\ caching' = [caching EXCEPT ![t] = p] /\ cached' = [cached EXCEPT ![t] = r]
  /\ UNCHANGED <<disk, lock, cacheCall, alone, interrupted, cacheHarm>>

\* What v in memory under the key of the call does.
Remembers(t, v) ==
  memory' = [memory EXCEPT ![ProcessOf[t]] = [memory[ProcessOf[t]] EXCEPT ![cacheCall[t].key] = v]]

\* A call that goes on in memory keeps the invariant.
LEMMA CallProceeds ==
  ASSUME CacheInv, NEW t \in Callers, NEW p, NEW r, Proceeds(t, p, r),
         \* compare
         \/ caching[t] = "compare" /\ memory' = memory
            /\ ((p = "idle" /\ r = "Duplicate") \/ (p = "insert" /\ r = cached[t]))
         \* insert
         \/ caching[t] = "insert" /\ Remembers(t, cacheCall[t].value) /\ p = "write" /\ r = cached[t]
         \* look
         \/ caching[t] = "look" /\ memory' = memory
            /\ ((p = "idle" /\ r = Cached!Mine(t) /\ r # "none") \/ (p = "read" /\ r = cached[t]))
         \* keep
         \/ caching[t] = "keep" /\ Remembers(t, cacheCall[t].value) /\ p = "idle" /\ r = cacheCall[t].value
  PROVE  CacheInv'
<1>0. CacheTypes
  BY CacheTyped
<1> DEFINE P == ProcessOf[t]
           k == cacheCall[t].key
           v == cacheCall[t].value
<1>1. /\ P \in Cached!Processes /\ caching[t] \in Putting \cup Getting
      /\ caching[t] \in {"compare", "insert"} => cacheCall[t] \in TryPuts
      /\ caching[t] \in {"look", "keep"} => cacheCall[t] \in Gets
      /\ caching[t] = "keep" => v # "none" /\ disk[k] # "none"
  BY CacheFacts, CacheTyped DEF CallsFit, Putting, Getting
<1>2. k \in LicenseKeys /\ v \in Blobs \cup {"cut", "none"}
  BY <1>1 DEF TryPuts, Gets, Putting, Getting
<1>3. \/ memory' = memory
      \/ /\ memory' \in [Cached!Processes -> [LicenseKeys -> Blobs \cup {"cut", "none"}]]
         /\ memory'[P][k] = v
         /\ \A q \in Cached!Processes, j \in LicenseKeys : q # P \/ j # k => memory'[q][j] = memory[q][j]
         /\ (caching[t] = "insert" /\ p = "write") \/ caching[t] = "keep"
  <2>1. ASSUME Remembers(t, v)
        PROVE  /\ memory' \in [Cached!Processes -> [LicenseKeys -> Blobs \cup {"cut", "none"}]]
               /\ memory'[P][k] = v
               /\ \A q \in Cached!Processes, j \in LicenseKeys : q # P \/ j # k => memory'[q][j] = memory[q][j]
    <3> DEFINE m == [memory[P] EXCEPT ![k] = v]
    <3>1. m \in [LicenseKeys -> Blobs \cup {"cut", "none"}] /\ m[k] = v
          /\ \A j \in LicenseKeys : j # k => m[j] = memory[P][j]
      BY <1>0, <1>1, <1>2 DEF CacheTypes
    <3>2. memory' = [memory EXCEPT ![P] = m]
      BY <2>1 DEF Remembers
    <3> HIDE DEF m, P, k, v
    <3> QED BY <1>0, <1>1, <3>1, <3>2 DEF CacheTypes
  <2> QED BY <2>1
<1>4. r \in Results \cup Blobs \cup {"cut"} /\ p \in {"idle", "insert", "write", "read"}
  <2>1. cached[t] \in Results \cup Blobs \cup {"cut"} /\ Cached!Mine(t) \in Blobs \cup {"cut", "none"}
    BY <1>0, <1>1, <1>2 DEF CacheTypes, Cached!Mine
  <2> QED BY <1>2, <2>1 DEF Results
<1>5. /\ caching'[t] = p /\ cached'[t] = r
      /\ \A u \in Callers \ {t} : caching'[u] = caching[u] /\ cached'[u] = cached[u]
      /\ UNCHANGED <<disk, lock, cacheCall, alone, interrupted, cacheHarm>>
  BY <1>0 DEF CacheTypes, Proceeds
<1>6. CacheTypes'
  <2>1. caching' \in [Callers -> {"idle"} \cup Putting \cup Getting]
    BY <1>0, <1>4 DEF CacheTypes, Proceeds, Putting, Getting
  <2>2. cached' \in [Callers -> Results \cup Blobs \cup {"cut"}]
    BY <1>0, <1>4 DEF CacheTypes, Proceeds
  <2> HIDE DEF P, k, v
  <2> QED BY <1>0, <1>3, <1>5, <2>1, <2>2 DEF CacheTypes
<1>7. CallsFit'
  <2>1. ASSUME NEW u \in Callers \ {t}
        PROVE  /\ caching'[u] \in Putting => cacheCall'[u] \in TryPuts
               /\ caching'[u] \in Getting => cacheCall'[u] \in Gets
               /\ caching'[u] = "keep" => cacheCall'[u].value # "none" /\ disk'[cacheCall'[u].key] # "none"
               /\ cacheCall'[u].op = "try_put" => cached'[u] \in Results
               /\ cacheCall'[u].op = "get" => cached'[u] \in Blobs \cup {"cut", "none"}
    BY <1>5, CacheTyped DEF CallsFit
  <2>2. /\ caching'[t] \in Putting => cacheCall'[t] \in TryPuts
        /\ caching'[t] \in Getting => cacheCall'[t] \in Gets
        /\ caching'[t] = "keep" => cacheCall'[t].value # "none" /\ disk'[cacheCall'[t].key] # "none"
    BY <1>1, <1>4, <1>5 DEF Putting, Getting
  <2>3. cacheCall[t].op = "try_put" => r \in Results
    <3>1. cacheCall[t].op = "try_put" => caching[t] \in {"compare", "insert"} /\ cached[t] \in Results
      BY <1>1, CacheTyped DEF CallsFit, Gets
    <3> QED BY <3>1 DEF Results
  <2>4. cacheCall[t].op = "get" => r \in Blobs \cup {"cut", "none"}
    <3>1. cacheCall[t].op = "get" => caching[t] \in {"look", "keep"} /\ cached[t] \in Blobs \cup {"cut", "none"}
      BY <1>1, CacheTyped DEF CallsFit, TryPuts
    <3>2. Cached!Mine(t) \in Blobs \cup {"cut", "none"}
      BY <1>0, <1>1, <1>2 DEF CacheTypes, Cached!Mine
    <3> QED BY <1>2, <3>1, <3>2
  <2>5. /\ cacheCall'[t].op = "try_put" => cached'[t] \in Results
        /\ cacheCall'[t].op = "get" => cached'[t] \in Blobs \cup {"cut", "none"}
    BY <1>5, <2>3, <2>4
  <2> QED BY <2>1, <2>2, <2>5 DEF CallsFit
<1>8. LocksHold'
  BY <1>4, <1>5, CacheTyped DEF LocksHold
<1>9. CutsAreKnown'
  <2>1. \A u \in Callers : caching[u] = "fill" => u # t
    OBVIOUS
  <2> QED BY <1>5, <2>1, CacheTyped DEF CutsAreKnown, Filling
<1>10. AloneIsKept'
  <2> SUFFICES ASSUME NEW u \in Callers, alone[u]
               PROVE  /\ \A w \in Callers \ {u} : caching'[w] = "idle"
                      /\ caching'[u] \in {"write", "create", "fill"} => Cached!Mine(u)' = cacheCall[u].value
                      /\ caching'[u] = "idle" /\ cacheCall[u].op = "try_put" /\ cached'[u] = "WriteComplete" =>
                           Cached!Mine(u)' = cacheCall[u].value /\ disk[cacheCall[u].key] = cacheCall[u].value
                      /\ caching'[u] = "idle" /\ cacheCall[u].op = "get" /\ cached'[u] # "none" =>
                           Cached!Mine(u)' = cached'[u]
    BY <1>5 DEF AloneIsKept
  <2>1. u = t
    BY <1>1, CacheTyped DEF AloneIsKept, Putting, Getting
  <2>2. \A w \in Callers \ {u} : caching'[w] = "idle"
    BY <1>5, <2>1, CacheTyped DEF AloneIsKept
  <2>3. Cached!Mine(t)' = memory'[P][k]
    BY <1>5 DEF Cached!Mine
  <2>4. CASE memory' = memory
    <3>1. caching[t] \in {"compare", "look", "insert", "keep"}
      OBVIOUS
    <3>2. CASE caching[t] \in {"compare", "look"}
      <4>1. /\ p \notin {"write", "create", "fill"}
            /\ caching[t] = "look" => cacheCall[t].op # "try_put"
            /\ caching[t] = "compare" => cacheCall[t].op # "get"
        BY <1>1, <3>2 DEF TryPuts, Gets
      <4>2. p = "idle" => (r = "Duplicate" /\ caching[t] = "compare") \/ (r = Cached!Mine(t) /\ caching[t] = "look")
        BY <3>2
      <4>3. Cached!Mine(t) = memory[P][k]
        BY DEF Cached!Mine
      <4> HIDE DEF P, k, v
      <4> QED BY <1>5, <2>1, <2>2, <2>3, <2>4, <4>1, <4>2, <4>3
    <3>3. CASE caching[t] \in {"insert", "keep"}
      <4>1. Remembers(t, v)
        BY <3>3
      <4>2. memory'[P][k] = v
        BY <1>0, <1>1, <1>2, <4>1 DEF CacheTypes, Remembers
      <4>3. /\ caching[t] = "insert" => p = "write"
            /\ caching[t] = "keep" => p = "idle" /\ r = v /\ cacheCall[t].op = "get"
        BY <1>1, <3>3 DEF Gets
      <4> QED BY <1>5, <2>1, <2>2, <2>3, <3>3, <4>2, <4>3
    <3> QED BY <3>1, <3>2, <3>3
  <2>5. CASE memory' # memory
    <3>1. memory'[P][k] = v /\ caching[t] \in {"insert", "keep"}
      BY <1>3, <2>5
    <3>2. /\ caching[t] = "insert" => p = "write"
          /\ caching[t] = "keep" => p = "idle" /\ r = v /\ cacheCall[t].op = "get"
      BY <1>1, <3>1 DEF Gets
    <3> QED BY <1>5, <2>1, <2>2, <2>3, <3>1, <3>2
  <2> QED BY <2>4, <2>5
<1>11. MemoryIsBacked'
  <2>1. \A j \in LicenseKeys : Pending(j) => Pending(j)'
    <3>1. caching[t] \notin {"write", "create", "fill"}
      OBVIOUS
    <3> QED BY <1>5, <3>1 DEF Pending
  <2>2. ASSUME NEW q \in Cached!Processes, NEW j \in LicenseKeys, cacheHarm = 0, memory'[q][j] # "none"
        PROVE  disk[j] # "none" \/ Pending(j)'
    <3>1. CASE memory'[q][j] = memory[q][j]
      BY <2>1, <2>2, <3>1, CacheTyped DEF MemoryIsBacked
    <3>2. CASE memory'[q][j] # memory[q][j]
      <4>1. j = k /\ ((caching[t] = "insert" /\ p = "write") \/ caching[t] = "keep")
        BY <1>3, <2>2, <3>2
      <4>2. CASE caching[t] = "keep"
        BY <1>1, <4>1, <4>2
      <4>3. CASE p = "write"
        BY <1>5, <4>1, <4>3 DEF Pending
      <4> QED BY <4>1, <4>2, <4>3
    <3> QED BY <3>1, <3>2
  <2> QED BY <1>5, <2>1, <2>2, CacheTyped DEF MemoryIsBacked
<1> QED BY <1>6, <1>7, <1>8, <1>9, <1>10, <1>11 DEF CacheInv

-----------------------------------------------------------------------------
\* Every step in memory keeps the invariant (cache.rs:70-125).
LEMMA MemorySteps ==
  ASSUME CacheInv, NEW t \in Callers,
         Cached!Compare(t) \/ Cached!Insert(t) \/ Cached!Look(t) \/ Cached!Keep(t)
  PROVE  CacheInv'
<1>0. CacheTypes
  BY CacheTyped
<1>1. cached = [cached EXCEPT ![t] = cached[t]]
  BY <1>0 DEF CacheTypes
<1>2. CASE Cached!Compare(t)
  <2>1. CASE Cached!Mine(t) = cacheCall[t].value
    <3>1. Proceeds(t, "idle", "Duplicate") /\ caching[t] = "compare" /\ memory' = memory
      BY <1>2, <2>1 DEF Cached!Compare, Cached!Answer, Cached!Goto, Proceeds
    <3> QED BY <3>1, CallProceeds
  <2>2. CASE Cached!Mine(t) # cacheCall[t].value
    <3>1. Proceeds(t, "insert", cached[t]) /\ caching[t] = "compare" /\ memory' = memory
      BY <1>1, <1>2, <2>2 DEF Cached!Compare, Cached!Goto, Proceeds
    <3> QED BY <3>1, CallProceeds
  <2> QED BY <2>1, <2>2
<1>3. CASE Cached!Insert(t)
  <2>1. Proceeds(t, "write", cached[t]) /\ caching[t] = "insert" /\ Remembers(t, cacheCall[t].value)
    BY <1>1, <1>3 DEF Cached!Insert, Cached!Goto, Cached!Remember, Proceeds, Remembers
  <2> QED BY <2>1, CallProceeds
<1>4. CASE Cached!Look(t)
  <2>1. CASE Cached!Mine(t) # "none"
    <3>1. Proceeds(t, "idle", Cached!Mine(t)) /\ caching[t] = "look" /\ memory' = memory
      BY <1>4, <2>1, CacheFacts DEF Cached!Look, Cached!Answer, Cached!Goto, Proceeds
    <3> QED BY <2>1, <3>1, CallProceeds
  <2>2. CASE Cached!Mine(t) = "none"
    <3>1. Proceeds(t, "read", cached[t]) /\ caching[t] = "look" /\ memory' = memory
      BY <1>1, <1>4, <2>2, CacheFacts DEF Cached!Look, Cached!Goto, Proceeds
    <3> QED BY <3>1, CallProceeds
  <2> QED BY <2>1, <2>2
<1>5. CASE Cached!Keep(t)
  <2>1. Proceeds(t, "idle", cacheCall[t].value) /\ caching[t] = "keep" /\ Remembers(t, cacheCall[t].value)
    BY <1>5 DEF Cached!Keep, Cached!Answer, Cached!Goto, Cached!Remember, Proceeds, Remembers
  <2> QED BY <2>1, CallProceeds
<1> QED BY <1>2, <1>3, <1>4, <1>5

\* What a thread that has a lock may rely on.
LEMMA Held ==
  ASSUME CacheInv, NEW t \in Callers, caching[t] \in Putting \cup Getting
  PROVE  /\ CacheTypes /\ ProcessOf[t] \in Cached!Processes /\ cacheCall[t].key \in LicenseKeys
         /\ caching[t] \in Putting => cacheCall[t] \in TryPuts /\ cacheCall[t].value \in Blobs
                                        /\ cacheCall[t].op = "try_put" /\ cached[t] \in Results
         /\ caching[t] \in Getting => cacheCall[t] \in Gets /\ cacheCall[t].op = "get"
                                        /\ cached[t] \in Blobs \cup {"cut", "none"}
         /\ \A u \in Callers : alone[u] => u = t
<1>1. CacheTypes /\ CallsFit /\ AloneIsKept
  BY CacheTyped
<1>2. /\ caching[t] \in Putting => cacheCall[t] \in TryPuts
      /\ caching[t] \in Getting => cacheCall[t] \in Gets
      /\ cacheCall[t].op = "try_put" => cached[t] \in Results
      /\ cacheCall[t].op = "get" => cached[t] \in Blobs \cup {"cut", "none"}
  BY <1>1 DEF CallsFit
<1>3. \A u \in Callers : alone[u] => u = t
  BY <1>1 DEF AloneIsKept, Putting, Getting
<1> QED BY <1>1, <1>2, <1>3, CacheFacts DEF TryPuts, Gets

\* A thread t gives its lock back and goes to a place where it needs none.
LEMMA LockGivenBack ==
  ASSUME CacheInv, NEW t \in Callers, caching[t] \in Putting \cup Getting,
         NEW p \in {"idle", "keep"},
         caching' = [caching EXCEPT ![t] = p], lock' = Cached!Unlocked(t)
  PROVE  /\ LocksHold' /\ lock' \in [Cached!Processes -> [writer : SUBSET Callers, readers : SUBSET Callers]]
         /\ caching' \in [Callers -> {"idle"} \cup Putting \cup Getting]
         /\ caching'[t] = p /\ \A u \in Callers \ {t} : caching'[u] = caching[u]
<1> DEFINE P == ProcessOf[t]
<1>1. CacheTypes /\ P \in Cached!Processes /\ LocksHold
  BY Held, CacheTyped
<1>2. caching'[t] = p /\ \A u \in Callers \ {t} : caching'[u] = caching[u]
  BY <1>1 DEF CacheTypes
<1>3. /\ lock' \in [Cached!Processes -> [writer : SUBSET Callers, readers : SUBSET Callers]]
      /\ lock'[P].writer = lock[P].writer \ {t} /\ lock'[P].readers = lock[P].readers \ {t}
      /\ \A q \in Cached!Processes : q # P => lock'[q] = lock[q]
  BY <1>1 DEF CacheTypes, Cached!Unlocked
<1>4. caching' \in [Callers -> {"idle"} \cup Putting \cup Getting]
  BY <1>1 DEF CacheTypes, Getting
<1>5. ASSUME NEW u \in Callers
      PROVE  /\ caching'[u] \in {"create", "fill"} => lock'[ProcessOf[u]].writer = {u}
             /\ caching'[u] = "load" => u \in lock'[ProcessOf[u]].readers
  <2>1. CASE u = t
    BY <1>2, <2>1
  <2>2. CASE u # t
    <3>1. ProcessOf[u] \in Cached!Processes
      BY CacheFacts
    <3>2. /\ caching[u] \in {"create", "fill"} => lock[ProcessOf[u]].writer = {u}
          /\ caching[u] = "load" => u \in lock[ProcessOf[u]].readers
      BY <1>1 DEF LocksHold
    <3> QED BY <1>2, <1>3, <2>2, <3>1, <3>2
  <2> QED BY <2>1, <2>2
<1>6. ASSUME NEW q \in Cached!Processes
      PROVE  lock'[q].writer = {} \/ lock'[q].readers = {}
  <2>1. lock[q].writer = {} \/ lock[q].readers = {}
    BY <1>1 DEF LocksHold
  <2> QED BY <1>3, <2>1
<1> QED BY <1>2, <1>3, <1>4, <1>5, <1>6 DEF LocksHold

\* Taking the lock of a process keeps the invariant.
LEMMA LockStep ==
  ASSUME CacheInv, NEW t \in Callers, Cached!Lock(t)
  PROVE  CacheInv'
<1> DEFINE P == ProcessOf[t]
<1>0. UNCHANGED <<memory, disk, cacheCall, cached, alone, interrupted, cacheHarm>>
  BY DEF Cached!Lock
<1>1. caching[t] \in {"write", "read"}
  BY DEF Cached!Lock
<1>2. /\ CacheTypes /\ CallsFit /\ LocksHold /\ CutsAreKnown /\ AloneIsKept /\ MemoryIsBacked
      /\ P \in Cached!Processes
  BY CacheTyped, CacheFacts
<1>3. /\ \/ caching[t] = "write" /\ caching'[t] = "create"
         \/ caching[t] = "read" /\ caching'[t] = "load"
      /\ \A u \in Callers \ {t} : caching'[u] = caching[u]
      /\ caching' \in [Callers -> {"idle"} \cup Putting \cup Getting]
  <2>1. \/ caching[t] = "write" /\ caching' = [caching EXCEPT ![t] = "create"]
        \/ caching[t] = "read" /\ caching' = [caching EXCEPT ![t] = "load"]
    BY DEF Cached!Lock, Cached!Goto
  <2>2. caching \in [Callers -> {"idle"} \cup Putting \cup Getting]
    BY <1>2 DEF CacheTypes
  <2>3. "create" \in Putting /\ "load" \in Getting
    BY DEF Putting, Getting
  <2> QED BY <2>1, <2>2, <2>3
<1>4. /\ lock' \in [Cached!Processes -> [writer : SUBSET Callers, readers : SUBSET Callers]]
      /\ \A q \in Cached!Processes : q # P => lock'[q] = lock[q]
      /\ caching'[t] = "create" => /\ lock[P].writer = {} /\ lock[P].readers = {}
                                   /\ lock'[P].writer = {t} /\ lock'[P].readers = {}
      /\ caching'[t] = "load" => /\ lock[P].writer = {} /\ lock'[P].writer = {}
                                 /\ lock'[P].readers = lock[P].readers \cup {t}
  <2>1. CASE /\ caching[t] = "write" /\ lock[P] = Cached!Free
             /\ lock' = [lock EXCEPT ![P].writer = {t}]
    <3>1. lock[P].writer = {} /\ lock[P].readers = {}
      BY <2>1 DEF Cached!Free
    <3> QED BY <1>2, <1>3, <2>1, <3>1 DEF CacheTypes
  <2>2. CASE /\ caching[t] = "read" /\ lock[P].writer = {}
             /\ lock' = [lock EXCEPT ![P].readers = lock[P].readers \cup {t}]
    BY <1>2, <1>3, <2>2 DEF CacheTypes
  <2> QED BY <2>1, <2>2 DEF Cached!Lock, Cached!MayRead
<1>5. CacheTypes'
  BY <1>0, <1>2, <1>3, <1>4 DEF CacheTypes
<1>6. CallsFit'
  BY <1>0, <1>2, <1>3 DEF CallsFit, Putting, Getting
<1>7. LocksHold'
  <2>1. ASSUME NEW u \in Callers
        PROVE  /\ caching'[u] \in {"create", "fill"} => lock'[ProcessOf[u]].writer = {u}
               /\ caching'[u] = "load" => u \in lock'[ProcessOf[u]].readers
    <3>1. ProcessOf[u] \in Cached!Processes
      BY CacheFacts
    <3>2. /\ caching[u] \in {"create", "fill"} => lock[ProcessOf[u]].writer = {u}
          /\ caching[u] = "load" => u \in lock[ProcessOf[u]].readers
      BY <1>2 DEF LocksHold
    <3> QED BY <1>3, <1>4, <3>1, <3>2
  <2>2. ASSUME NEW q \in Cached!Processes
        PROVE  lock'[q].writer = {} \/ lock'[q].readers = {}
    BY <1>2, <1>3, <1>4 DEF LocksHold
  <2> QED BY <2>1, <2>2 DEF LocksHold
<1>8. CutsAreKnown'
  BY <1>0, <1>1, <1>2, <1>3 DEF CutsAreKnown, Filling
<1>9. AloneIsKept'
  <2>1. \A u \in Callers : alone[u] => u = t
    BY <1>1, Held DEF Putting, Getting
  <2>2. Cached!Mine(t)' = Cached!Mine(t)
    BY <1>0 DEF Cached!Mine
  <2> QED BY <1>0, <1>2, <1>3, <2>1, <2>2 DEF AloneIsKept
<1>10. MemoryIsBacked'
  <2>1. \A j \in LicenseKeys : Pending(j) => Pending(j)'
    BY <1>0, <1>3 DEF Pending
  <2> QED BY <1>0, <1>2, <2>1 DEF MemoryIsBacked
<1> QED BY <1>5, <1>6, <1>7, <1>8, <1>9, <1>10 DEF CacheInv

\* A failing file system call keeps the invariant.
LEMMA FailStep ==
  ASSUME CacheInv, NEW t \in Callers, Cached!Fail(t)
  PROVE  CacheInv'
<1> DEFINE r == IF cacheCall[t].op = "get" THEN "none" ELSE "WriteFailed"
<1>1. /\ caching[t] \in {"create", "fill", "load"} /\ cacheHarm < CacheHarm /\ cacheHarm' = cacheHarm + 1
      /\ interrupted' = IF caching[t] = "fill" THEN interrupted \cup {cacheCall[t].key} ELSE interrupted
      /\ lock' = Cached!Unlocked(t) /\ caching' = [caching EXCEPT ![t] = "idle"]
      /\ cached' = [cached EXCEPT ![t] = r]
      /\ UNCHANGED <<memory, disk, cacheCall, alone>>
  BY CacheFacts DEF Cached!Fail, Cached!Answer, Cached!Goto
<1>2. CacheTypes /\ CallsFit /\ CutsAreKnown /\ AloneIsKept
  BY CacheTyped
<1>3. /\ LocksHold' /\ lock' \in [Cached!Processes -> [writer : SUBSET Callers, readers : SUBSET Callers]]
      /\ caching' \in [Callers -> {"idle"} \cup Putting \cup Getting]
      /\ caching'[t] = "idle" /\ \A u \in Callers \ {t} : caching'[u] = caching[u]
  BY <1>1, LockGivenBack DEF Putting, Getting
<1>4. /\ cacheCall[t].key \in LicenseKeys
      /\ \A u \in Callers : alone[u] => u = t
  BY <1>1, Held DEF Putting, Getting
<1>5. /\ r \in Results /\ r # "WriteComplete" /\ (cacheCall[t].op = "get" => r = "none")
      /\ cached'[t] = r /\ \A u \in Callers \ {t} : cached'[u] = cached[u]
  BY <1>1, <1>2 DEF CacheTypes, Results
<1> HIDE DEF r
<1>6. CacheTypes'
  <2>1. cached' \in [Callers -> Results \cup Blobs \cup {"cut"}]
    BY <1>1, <1>2, <1>5 DEF CacheTypes
  <2>2. interrupted' \in SUBSET LicenseKeys
    BY <1>1, <1>2, <1>4 DEF CacheTypes
  <2>3. cacheHarm' \in 0 .. CacheHarm
    BY <1>1, <1>2, CacheFacts DEF CacheTypes
  <2> QED BY <1>1, <1>2, <1>3, <2>1, <2>2, <2>3 DEF CacheTypes
<1>7. CallsFit'
  BY <1>1, <1>2, <1>3, <1>5 DEF CallsFit, Putting, Getting
<1>8. CutsAreKnown'
  <2>1. ASSUME NEW k \in LicenseKeys, disk[k] = "cut"
        PROVE  k \in interrupted' \/ Filling(k)'
    <3>1. CASE k \in interrupted
      BY <1>1, <3>1
    <3>2. CASE k \notin interrupted
      <4>1. PICK u \in Callers : caching[u] = "fill" /\ cacheCall[u].key = k
        BY <1>2, <2>1, <3>2 DEF CutsAreKnown, Filling
      <4>2. CASE u = t
        BY <1>1, <4>1, <4>2
      <4>3. CASE u # t
        BY <1>1, <1>3, <4>1, <4>3 DEF Filling
      <4> QED BY <4>2, <4>3
    <3> QED BY <3>1, <3>2
  <2> QED BY <1>1, <2>1 DEF CutsAreKnown
<1>9. AloneIsKept'
  BY <1>1, <1>2, <1>3, <1>4, <1>5 DEF AloneIsKept
<1>10. MemoryIsBacked'
  BY <1>1, <1>2 DEF MemoryIsBacked, CacheTypes
<1> QED BY <1>3, <1>6, <1>7, <1>8, <1>9, <1>10 DEF CacheInv

\* Creating or truncating a file keeps the invariant.
LEMMA CreateStep ==
  ASSUME CacheInv, NEW t \in Callers, Cached!Create(t)
  PROVE  CacheInv'
<1> DEFINE k == cacheCall[t].key
<1>1. /\ caching[t] = "create" /\ caching' = [caching EXCEPT ![t] = "fill"]
      /\ disk' = [disk EXCEPT ![k] = "cut"] /\ interrupted' = interrupted \ {k}
      /\ UNCHANGED <<memory, lock, cacheCall, cached, alone, cacheHarm>>
  BY CacheFacts DEF Cached!Create, Cached!Goto
<1>2. CacheTypes /\ CallsFit /\ LocksHold /\ CutsAreKnown /\ AloneIsKept /\ MemoryIsBacked
  BY CacheTyped
<1>3. /\ k \in LicenseKeys /\ cacheCall[t] \in TryPuts
      /\ \A u \in Callers : alone[u] => u = t
  BY <1>1, Held DEF Putting
<1>4. /\ caching' \in [Callers -> {"idle"} \cup Putting \cup Getting] /\ caching'[t] = "fill"
      /\ \A u \in Callers \ {t} : caching'[u] = caching[u]
      /\ disk' \in [LicenseKeys -> Blobs \cup {"cut", "none"}] /\ disk'[k] = "cut"
      /\ \A j \in LicenseKeys : j # k => disk'[j] = disk[j]
  BY <1>1, <1>2, <1>3 DEF CacheTypes, Putting
<1> HIDE DEF k
<1>5. CacheTypes'
  BY <1>1, <1>2, <1>4 DEF CacheTypes
<1>6. CallsFit'
  <2> SUFFICES ASSUME NEW u \in Callers
               PROVE  /\ caching'[u] \in Putting => cacheCall[u] \in TryPuts
                      /\ caching'[u] \in Getting => cacheCall[u] \in Gets
                      /\ caching'[u] = "keep" => cacheCall[u].value # "none" /\ disk'[cacheCall[u].key] # "none"
                      /\ cacheCall[u].op = "try_put" => cached[u] \in Results
                      /\ cacheCall[u].op = "get" => cached[u] \in Blobs \cup {"cut", "none"}
    BY <1>1 DEF CallsFit
  <2>1. CASE u = t
    BY <1>2, <1>3, <1>4, <2>1 DEF CallsFit, Putting, Getting
  <2>2. CASE u # t
    <3>1. caching[u] = "keep" => cacheCall[u].key \in LicenseKeys
      BY Held DEF Getting
    <3> QED BY <1>2, <1>4, <2>2, <3>1 DEF CallsFit
  <2> QED BY <2>1, <2>2
<1>7. LocksHold'
  BY <1>1, <1>2, <1>4 DEF LocksHold
<1>8. CutsAreKnown'
  <2>1. ASSUME NEW j \in LicenseKeys, disk'[j] = "cut"
        PROVE  j \in interrupted' \/ Filling(j)'
    <3>1. CASE j = k
      BY <1>1, <1>4, <3>1 DEF Filling, k
    <3>2. CASE j # k
      <4>1. j \in interrupted \/ Filling(j)
        BY <1>2, <1>4, <2>1, <3>2 DEF CutsAreKnown
      <4>2. Filling(j) => Filling(j)'
        BY <1>1, <1>4 DEF Filling
      <4> QED BY <1>1, <3>2, <4>1, <4>2
    <3> QED BY <3>1, <3>2
  <2> QED BY <2>1 DEF CutsAreKnown
<1>9. AloneIsKept'
  <2>1. Cached!Mine(t)' = Cached!Mine(t)
    BY <1>1 DEF Cached!Mine
  <2> QED BY <1>1, <1>2, <1>3, <1>4, <2>1 DEF AloneIsKept
<1>10. MemoryIsBacked'
  <2>1. \A j \in LicenseKeys : Pending(j) => Pending(j)'
    BY <1>1, <1>4 DEF Pending
  <2>2. ASSUME NEW j \in LicenseKeys, cacheHarm = 0
        PROVE  /\ \A q \in Cached!Processes : memory[q][j] # "none" => disk'[j] # "none" \/ Pending(j)'
               /\ disk'[j] # "none" => disk'[j] \in Blobs \/ Pending(j)'
    <3>1. CASE j = k
      BY <1>1, <1>4, <3>1 DEF Pending, k
    <3>2. CASE j # k
      BY <1>2, <1>4, <2>1, <2>2, <3>2 DEF MemoryIsBacked
    <3> QED BY <3>1, <3>2
  <2> QED BY <1>1, <2>2 DEF MemoryIsBacked
<1> QED BY <1>5, <1>6, <1>7, <1>8, <1>9, <1>10 DEF CacheInv

\* Filling a file keeps the invariant.
LEMMA FillStep ==
  ASSUME CacheInv, NEW t \in Callers, Cached!Fill(t)
  PROVE  CacheInv'
<1> DEFINE k == cacheCall[t].key
           v == cacheCall[t].value
<1>1. /\ caching[t] = "fill" /\ caching' = [caching EXCEPT ![t] = "idle"]
      /\ disk' = [disk EXCEPT ![k] = v] /\ lock' = Cached!Unlocked(t)
      /\ cached' = [cached EXCEPT ![t] = "WriteComplete"]
      /\ UNCHANGED <<memory, cacheCall, alone, interrupted, cacheHarm>>
  BY CacheFacts DEF Cached!Fill, Cached!Filled, Cached!Answer, Cached!Goto
<1>2. CacheTypes /\ CallsFit /\ LocksHold /\ CutsAreKnown /\ AloneIsKept /\ MemoryIsBacked
  BY CacheTyped
<1>3. /\ k \in LicenseKeys /\ v \in Blobs /\ cacheCall[t] \in TryPuts /\ cacheCall[t].op = "try_put"
      /\ \A u \in Callers : alone[u] => u = t
  BY <1>1, Held DEF Putting
<1>4. /\ LocksHold' /\ lock' \in [Cached!Processes -> [writer : SUBSET Callers, readers : SUBSET Callers]]
      /\ caching' \in [Callers -> {"idle"} \cup Putting \cup Getting]
      /\ caching'[t] = "idle" /\ \A u \in Callers \ {t} : caching'[u] = caching[u]
  BY <1>1, LockGivenBack DEF Putting
<1>5. /\ disk' \in [LicenseKeys -> Blobs \cup {"cut", "none"}] /\ disk'[k] = v
      /\ \A j \in LicenseKeys : j # k => disk'[j] = disk[j]
      /\ cached'[t] = "WriteComplete" /\ \A u \in Callers \ {t} : cached'[u] = cached[u]
      /\ cached' \in [Callers -> Results \cup Blobs \cup {"cut"}]
      /\ v # "none" /\ v # "cut"
  BY <1>1, <1>2, <1>3, CacheFacts DEF CacheTypes, Results
<1>6. CacheTypes'
  BY <1>1, <1>2, <1>4, <1>5 DEF CacheTypes
<1>7. CallsFit'
  <2> SUFFICES ASSUME NEW u \in Callers
               PROVE  /\ caching'[u] \in Putting => cacheCall[u] \in TryPuts
                      /\ caching'[u] \in Getting => cacheCall[u] \in Gets
                      /\ caching'[u] = "keep" => cacheCall[u].value # "none" /\ disk'[cacheCall[u].key] # "none"
                      /\ cacheCall[u].op = "try_put" => cached'[u] \in Results
                      /\ cacheCall[u].op = "get" => cached'[u] \in Blobs \cup {"cut", "none"}
    BY <1>1 DEF CallsFit
  <2>1. CASE u = t
    BY <1>3, <1>4, <1>5, <2>1 DEF Putting, Getting, Results
  <2>2. CASE u # t
    <3>1. caching[u] = "keep" => cacheCall[u].key \in LicenseKeys
      BY Held DEF Getting
    <3> HIDE DEF k, v
    <3> QED BY <1>2, <1>4, <1>5, <2>2, <3>1 DEF CallsFit
  <2> QED BY <2>1, <2>2
<1>8. CutsAreKnown'
  <2>1. ASSUME NEW j \in LicenseKeys, disk'[j] = "cut"
        PROVE  j \in interrupted \/ Filling(j)'
    <3>1. j # k /\ disk[j] = "cut"
      BY <1>5, <2>1
    <3>2. Filling(j) => Filling(j)'
      BY <1>1, <1>4, <3>1 DEF Filling
    <3> QED BY <1>2, <3>1, <3>2 DEF CutsAreKnown
  <2> QED BY <1>1, <2>1 DEF CutsAreKnown
<1>9. AloneIsKept'
  <2>1. Cached!Mine(t)' = Cached!Mine(t)
    BY <1>1 DEF Cached!Mine
  <2>2. alone[t] => Cached!Mine(t) = v
    BY <1>1, <1>2 DEF AloneIsKept
  <2> QED BY <1>1, <1>2, <1>3, <1>4, <1>5, <2>1, <2>2 DEF AloneIsKept
<1>10. MemoryIsBacked'
  <2>1. \A j \in LicenseKeys : j # k /\ Pending(j) => Pending(j)'
    BY <1>1, <1>4 DEF Pending
  <2> HIDE DEF k, v
  <2>2. ASSUME NEW j \in LicenseKeys, cacheHarm = 0
        PROVE  /\ \A q \in Cached!Processes : memory[q][j] # "none" => disk'[j] # "none" \/ Pending(j)'
               /\ disk'[j] # "none" => disk'[j] \in Blobs \/ Pending(j)'
    <3>1. CASE j = k
      BY <1>3, <1>5, <3>1
    <3>2. CASE j # k
      BY <1>2, <1>5, <2>1, <2>2, <3>2 DEF MemoryIsBacked
    <3> QED BY <3>1, <3>2
  <2> QED BY <1>1, <2>2 DEF MemoryIsBacked
<1> QED BY <1>4, <1>6, <1>7, <1>8, <1>9, <1>10 DEF CacheInv

\* What a thread has read from a file is what the file held.
LEMMA LoadStep ==
  ASSUME CacheInv, NEW t \in Callers, Cached!Load(t)
  PROVE  CacheInv' /\ (caching'[t] = "keep" => cacheCall'[t].value = disk[cacheCall[t].key])
<1> DEFINE k == cacheCall[t].key
<1>1. /\ caching[t] = "load" /\ lock' = Cached!Unlocked(t)
      /\ \/ /\ disk[k] = "none" /\ cacheCall' = cacheCall
            /\ caching' = [caching EXCEPT ![t] = "idle"] /\ cached' = [cached EXCEPT ![t] = "none"]
         \/ /\ disk[k] # "none" /\ cacheCall' = [cacheCall EXCEPT ![t].value = disk[k]]
            /\ caching' = [caching EXCEPT ![t] = "keep"] /\ cached' = cached
      /\ UNCHANGED <<memory, disk, alone, interrupted, cacheHarm>>
  BY CacheFacts DEF Cached!Load, Cached!Answer, Cached!Goto
<1>2. CacheTypes /\ CallsFit /\ LocksHold /\ CutsAreKnown /\ AloneIsKept /\ MemoryIsBacked
  BY CacheTyped
<1>3. /\ k \in LicenseKeys /\ cacheCall[t] \in Gets /\ cacheCall[t].op = "get"
      /\ \A u \in Callers : alone[u] => u = t
      /\ disk[k] \in Blobs \cup {"cut", "none"} /\ cached[t] \in Blobs \cup {"cut", "none"}
  BY <1>1, <1>2, Held DEF Getting, CacheTypes
<1>4. /\ LocksHold' /\ lock' \in [Cached!Processes -> [writer : SUBSET Callers, readers : SUBSET Callers]]
      /\ caching' \in [Callers -> {"idle"} \cup Putting \cup Getting]
      /\ \/ caching'[t] = "idle" /\ disk[k] = "none"
         \/ caching'[t] = "keep" /\ disk[k] # "none"
      /\ \A u \in Callers \ {t} : caching'[u] = caching[u]
  BY <1>1, LockGivenBack DEF Getting
<1>5. /\ cached' \in [Callers -> Results \cup Blobs \cup {"cut"}]
      /\ cached'[t] \in Blobs \cup {"cut", "none"}
      /\ caching'[t] = "idle" => cached'[t] = "none"
      /\ \A u \in Callers \ {t} : cached'[u] = cached[u]
  BY <1>1, <1>2, <1>3 DEF CacheTypes, Results
<1>6. /\ cacheCall' \in [Callers -> TryPuts \cup Gets \cup {Cached!NoCall}]
      /\ cacheCall'[t] \in Gets /\ cacheCall'[t].key = k /\ cacheCall'[t].op = "get"
      /\ caching'[t] = "keep" => cacheCall'[t].value = disk[k]
      /\ \A u \in Callers \ {t} : cacheCall'[u] = cacheCall[u]
  <2>1. CASE disk[k] = "none"
    BY <1>1, <1>2, <1>3, <1>4, <2>1 DEF CacheTypes
  <2>2. CASE disk[k] # "none"
    <3> DEFINE c == [cacheCall[t] EXCEPT !.value = disk[k]]
    <3>1. cacheCall' = [cacheCall EXCEPT ![t] = c]
      BY <1>1, <2>2
    <3>2. c \in Gets /\ c.key = k /\ c.op = "get" /\ c.value = disk[k]
      BY <1>3 DEF Gets
    <3> HIDE DEF c, k
    <3> QED BY <1>2, <3>1, <3>2 DEF CacheTypes
  <2> QED BY <2>1, <2>2
<1> HIDE DEF k
<1>7. CacheTypes'
  BY <1>1, <1>2, <1>4, <1>5, <1>6 DEF CacheTypes
<1>8. CallsFit'
  <2> SUFFICES ASSUME NEW u \in Callers
               PROVE  /\ caching'[u] \in Putting => cacheCall'[u] \in TryPuts
                      /\ caching'[u] \in Getting => cacheCall'[u] \in Gets
                      /\ caching'[u] = "keep" => cacheCall'[u].value # "none" /\ disk'[cacheCall'[u].key] # "none"
                      /\ cacheCall'[u].op = "try_put" => cached'[u] \in Results
                      /\ cacheCall'[u].op = "get" => cached'[u] \in Blobs \cup {"cut", "none"}
    BY DEF CallsFit
  <2>1. CASE u = t
    BY <1>1, <1>4, <1>5, <1>6, <2>1 DEF Putting, Getting
  <2>2. CASE u # t
    BY <1>1, <1>2, <1>4, <1>5, <1>6, <2>2 DEF CallsFit
  <2> QED BY <2>1, <2>2
<1>9. CutsAreKnown'
  <2>1. \A j \in LicenseKeys : Filling(j) => Filling(j)'
    BY <1>1, <1>4, <1>6 DEF Filling
  <2> QED BY <1>1, <1>2, <2>1 DEF CutsAreKnown
<1>10. AloneIsKept'
  BY <1>1, <1>2, <1>3, <1>4, <1>5, <1>6 DEF AloneIsKept
<1>11. MemoryIsBacked'
  <2>1. \A j \in LicenseKeys : Pending(j) => Pending(j)'
    BY <1>1, <1>4, <1>6 DEF Pending
  <2> QED BY <1>1, <1>2, <2>1 DEF MemoryIsBacked
<1>12. CacheInv'
  BY <1>4, <1>7, <1>8, <1>9, <1>10, <1>11 DEF CacheInv
<1> QED BY <1>6, <1>12 DEF k

\* The threads of a process.
Theirs(q) == {t \in Callers : ProcessOf[t] = q}

\* A process that ends and starts again keeps the invariant.
LEMMA ProcessEnds ==
  ASSUME CacheInv, NEW q \in Cached!Processes, Cached!Restart(q)
  PROVE  CacheInv'
<1>1. /\ cacheHarm < CacheHarm /\ cacheHarm' = cacheHarm + 1
      /\ memory' = [memory EXCEPT ![q] = [k \in LicenseKeys |-> "none"]]
      /\ lock' = [lock EXCEPT ![q] = [writer |-> {}, readers |-> {}]]
      /\ caching' = [t \in Callers |-> IF t \in Theirs(q) THEN "idle" ELSE caching[t]]
      /\ cacheCall' = [t \in Callers |-> IF t \in Theirs(q) THEN Cached!NoCall ELSE cacheCall[t]]
      /\ cached' = [t \in Callers |-> IF t \in Theirs(q) THEN "none" ELSE cached[t]]
      /\ interrupted' = interrupted \cup {cacheCall[t].key : t \in {u \in Theirs(q) : caching[u] = "fill"}}
      /\ UNCHANGED <<disk, alone>>
  BY CacheFacts DEF Cached!Restart, Cached!Empty, Cached!Free, Callers, Theirs
<1>2. CacheTypes /\ CallsFit /\ LocksHold /\ CutsAreKnown /\ AloneIsKept
  BY CacheTyped
<1>3. /\ \A t \in Theirs(q) : caching'[t] = "idle" /\ cacheCall'[t] = Cached!NoCall /\ cached'[t] = "none"
      /\ \A t \in Callers \ Theirs(q) : caching'[t] = caching[t] /\ cacheCall'[t] = cacheCall[t] /\ cached'[t] = cached[t]
      /\ \A r \in Cached!Processes \ {q} : memory'[r] = memory[r] /\ lock'[r] = lock[r]
      /\ lock'[q].writer = {} /\ lock'[q].readers = {}
  BY <1>1, <1>2 DEF CacheTypes, Theirs
<1>4. CacheTypes'
  <2>1. memory' \in [Cached!Processes -> [LicenseKeys -> Blobs \cup {"cut", "none"}]]
    BY <1>1, <1>2 DEF CacheTypes
  <2>2. lock' \in [Cached!Processes -> [writer : SUBSET Callers, readers : SUBSET Callers]]
    BY <1>1, <1>2 DEF CacheTypes
  <2>3. /\ caching' \in [Callers -> {"idle"} \cup Putting \cup Getting]
        /\ cacheCall' \in [Callers -> TryPuts \cup Gets \cup {Cached!NoCall}]
        /\ cached' \in [Callers -> Results \cup Blobs \cup {"cut"}]
    BY <1>1, <1>2 DEF CacheTypes, Results
  <2>4. interrupted' \in SUBSET LicenseKeys
    <3>1. \A t \in Callers : caching[t] = "fill" => cacheCall[t].key \in LicenseKeys
      BY Held DEF Putting
    <3> QED BY <1>1, <1>2, <3>1 DEF CacheTypes, Theirs
  <2>5. cacheHarm' \in 0 .. CacheHarm
    BY <1>1, <1>2, CacheFacts DEF CacheTypes
  <2> QED BY <1>1, <1>2, <2>1, <2>2, <2>3, <2>4, <2>5 DEF CacheTypes
<1>5. CallsFit'
  <2> SUFFICES ASSUME NEW u \in Callers
               PROVE  /\ caching'[u] \in Putting => cacheCall'[u] \in TryPuts
                      /\ caching'[u] \in Getting => cacheCall'[u] \in Gets
                      /\ caching'[u] = "keep" => cacheCall'[u].value # "none" /\ disk'[cacheCall'[u].key] # "none"
                      /\ cacheCall'[u].op = "try_put" => cached'[u] \in Results
                      /\ cacheCall'[u].op = "get" => cached'[u] \in Blobs \cup {"cut", "none"}
    BY DEF CallsFit
  <2>1. CASE u \in Theirs(q)
    BY <1>3, <2>1, CacheFacts DEF Putting, Getting
  <2>2. CASE u \notin Theirs(q)
    BY <1>1, <1>2, <1>3, <2>2 DEF CallsFit
  <2> QED BY <2>1, <2>2
<1>6. LocksHold'
  <2>1. ASSUME NEW u \in Callers
        PROVE  /\ caching'[u] \in {"create", "fill"} => lock'[ProcessOf[u]].writer = {u}
               /\ caching'[u] = "load" => u \in lock'[ProcessOf[u]].readers
    <3>1. CASE u \in Theirs(q)
      BY <1>3, <3>1
    <3>2. CASE u \notin Theirs(q)
      <4>1. ProcessOf[u] \in Cached!Processes \ {q}
        BY <3>2, CacheFacts DEF Theirs
      <4> QED BY <1>2, <1>3, <3>2, <4>1 DEF LocksHold
    <3> QED BY <3>1, <3>2
  <2>2. ASSUME NEW r \in Cached!Processes
        PROVE  lock'[r].writer = {} \/ lock'[r].readers = {}
    BY <1>2, <1>3 DEF LocksHold
  <2> QED BY <2>1, <2>2 DEF LocksHold
<1>7. CutsAreKnown'
  <2>1. ASSUME NEW k \in LicenseKeys, disk[k] = "cut"
        PROVE  k \in interrupted' \/ Filling(k)'
    <3>1. CASE k \in interrupted
      BY <1>1, <3>1
    <3>2. CASE k \notin interrupted
      <4>1. PICK u \in Callers : caching[u] = "fill" /\ cacheCall[u].key = k
        BY <1>2, <2>1, <3>2 DEF CutsAreKnown, Filling
      <4>2. CASE u \in Theirs(q)
        BY <1>1, <4>1, <4>2
      <4>3. CASE u \notin Theirs(q)
        BY <1>3, <4>1, <4>3 DEF Filling
      <4> QED BY <4>2, <4>3
    <3> QED BY <3>1, <3>2
  <2> QED BY <1>1, <2>1 DEF CutsAreKnown
<1>8. AloneIsKept'
  <2> SUFFICES ASSUME NEW u \in Callers, alone[u]
               PROVE  /\ \A w \in Callers \ {u} : caching'[w] = "idle"
                      /\ caching'[u] \in {"write", "create", "fill"} => Cached!Mine(u)' = cacheCall'[u].value
                      /\ caching'[u] = "idle" /\ cacheCall'[u].op = "try_put" /\ cached'[u] = "WriteComplete" =>
                           Cached!Mine(u)' = cacheCall'[u].value /\ disk'[cacheCall'[u].key] = cacheCall'[u].value
                      /\ caching'[u] = "idle" /\ cacheCall'[u].op = "get" /\ cached'[u] # "none" =>
                           Cached!Mine(u)' = cached'[u]
    BY <1>1 DEF AloneIsKept
  <2>1. \A w \in Callers \ {u} : caching'[w] = "idle"
    BY <1>2, <1>3 DEF AloneIsKept
  <2>2. CASE u \in Theirs(q)
    BY <1>3, <2>1, <2>2, CacheFacts
  <2>3. CASE u \notin Theirs(q)
    <3>1. ProcessOf[u] \in Cached!Processes \ {q}
      BY <2>3, CacheFacts DEF Theirs
    <3>2. Cached!Mine(u)' = Cached!Mine(u)
      BY <1>3, <2>3, <3>1 DEF Cached!Mine
    <3> QED BY <1>1, <1>2, <1>3, <2>1, <2>3, <3>2 DEF AloneIsKept
  <2> QED BY <2>2, <2>3
<1>9. MemoryIsBacked'
  BY <1>1, <1>2 DEF MemoryIsBacked, CacheTypes
<1>10. CacheInv'
  BY <1>4, <1>5, <1>6, <1>7, <1>8, <1>9 DEF CacheInv
<1> QED BY <1>10

-----------------------------------------------------------------------------
\* Every step keeps the invariant.
LEMMA CacheSteps ==
  ASSUME CacheInv, [Cached!Next]_(Cached!vars)
  PROVE  CacheInv'
<1>1. CASE UNCHANGED Cached!vars
  <2>1. UNCHANGED <<memory, disk, lock, caching, cacheCall, cached, alone, interrupted, cacheHarm>>
    BY <1>1 DEF Cached!vars
  <2>2. CacheTypes' /\ CallsFit' /\ LocksHold'
    BY <2>1, CacheTyped DEF CacheTypes, CallsFit, LocksHold
  <2>3. CutsAreKnown'
    BY <2>1, CacheTyped DEF CutsAreKnown, Filling
  <2>4. AloneIsKept'
    BY <2>1, CacheTyped DEF AloneIsKept, Cached!Mine
  <2>5. MemoryIsBacked'
    BY <2>1, CacheTyped DEF MemoryIsBacked, Pending
  <2> QED BY <2>2, <2>3, <2>4, <2>5 DEF CacheInv
<1>2. ASSUME NEW t \in Callers, Cached!Step(t)
      PROVE  CacheInv'
  <2>1. CASE Cached!Compare(t) \/ Cached!Insert(t) \/ Cached!Look(t) \/ Cached!Keep(t)
    BY <2>1, MemorySteps
  <2> QED BY <1>2, <2>1, CallBegins, LockStep, FailStep, CreateStep, FillStep, LoadStep DEF Cached!Step
<1>3. ASSUME NEW q \in Cached!Processes, Cached!Restart(q)
      PROVE  CacheInv'
  BY <1>3, ProcessEnds
<1>4. Cached!Next => (\E t \in Callers : Cached!Step(t)) \/ (\E p \in Cached!Processes : Cached!Restart(p))
  BY DEF Cached!Next, Callers
<1> QED BY <1>1, <1>2, <1>3, <1>4

\* Only by reading a file a thread gets to keep something.
LEMMA OnlyLoadKeeps ==
  ASSUME CacheInv, NEW t \in Callers, Cached!Next, caching[t] = "load", caching'[t] = "keep"
  PROVE  Cached!Load(t)
<1>1. caching \in [Callers -> {"idle"} \cup Putting \cup Getting]
  BY CacheTyped DEF CacheTypes
<1>2. ASSUME NEW u \in Callers, NEW p, p # "keep", caching' = [caching EXCEPT ![u] = p]
      PROVE  FALSE
  BY <1>1, <1>2
<1>3. ASSUME NEW q \in Cached!Processes, Cached!Restart(q)
      PROVE  FALSE
  <2>1. caching'[t] = IF ProcessOf[t] = q THEN "idle" ELSE caching[t]
    BY <1>3 DEF Cached!Restart, Callers
  <2> QED BY <2>1
<1>4. PICK u \in Callers : Cached!Step(u)
  BY <1>3 DEF Cached!Next, Callers
<1>5. \/ \E p \in {"idle", "look", "compare", "insert", "write", "read", "create", "load", "fill"} :
             caching' = [caching EXCEPT ![u] = p]
      \/ Cached!Load(u) \/ Cached!Keep(u)
  <2>1. Cached!Start(u) => \E p \in {"look", "compare"} : caching' = [caching EXCEPT ![u] = p]
    BY DEF Cached!Start, Cached!Goto
  <2>2. Cached!Lock(u) => \E p \in {"create", "load"} : caching' = [caching EXCEPT ![u] = p]
    BY DEF Cached!Lock, Cached!Goto
  <2>3. Cached!Compare(u) \/ Cached!Look(u) =>
          \E p \in {"idle", "insert", "read"} : caching' = [caching EXCEPT ![u] = p]
    BY DEF Cached!Compare, Cached!Look, Cached!Answer, Cached!Goto
  <2>4. Cached!Fail(u) \/ Cached!Fill(u) => caching' = [caching EXCEPT ![u] = "idle"]
    BY DEF Cached!Fail, Cached!Fill, Cached!Answer, Cached!Goto
  <2>5. Cached!Insert(u) => caching' = [caching EXCEPT ![u] = "write"]
    BY DEF Cached!Insert, Cached!Goto
  <2>6. Cached!Create(u) => caching' = [caching EXCEPT ![u] = "fill"]
    BY DEF Cached!Create, Cached!Goto
  <2> QED BY <1>4, <2>1, <2>2, <2>3, <2>4, <2>5, <2>6 DEF Cached!Step
<1>6. ~Cached!Keep(u)
  <2>1. Cached!Keep(u) => caching' = [caching EXCEPT ![u] = "idle"]
    BY DEF Cached!Keep, Cached!Answer, Cached!Goto
  <2> QED BY <1>2, <2>1
<1>7. Cached!Load(u)
  BY <1>2, <1>5, <1>6
<1>8. u = t
  <2>1. \E p \in {"idle", "keep"} : caching' = [caching EXCEPT ![u] = p]
    BY <1>7 DEF Cached!Load, Cached!Answer, Cached!Goto
  <2> QED BY <1>1, <2>1
<1> QED BY <1>7, <1>8

\* A text that is cut is read only after an interruption or while another process writes.
LEMMA CutsAreExplained ==
  ASSUME CacheInv, [Cached!Next]_(Cached!vars), NEW t \in Callers,
         caching[t] = "load", caching'[t] = "keep", cacheCall'[t].value = "cut"
  PROVE  \/ cacheCall[t].key \in interrupted
         \/ \E u \in Callers : /\ ProcessOf[u] # ProcessOf[t] /\ caching[u] = "fill"
                               /\ cacheCall[u].key = cacheCall[t].key
<1>1. Cached!Next
  BY DEF Cached!vars
<1>2. disk[cacheCall[t].key] = "cut" /\ cacheCall[t].key \in LicenseKeys
  BY <1>1, OnlyLoadKeeps, LoadStep, Held DEF Getting
<1>3. CASE cacheCall[t].key \notin interrupted
  <2>1. PICK u \in Callers : caching[u] = "fill" /\ cacheCall[u].key = cacheCall[t].key
    BY <1>2, <1>3, CacheTyped DEF CutsAreKnown, Filling
  <2>2. ProcessOf[u] # ProcessOf[t]
    <3>1. lock[ProcessOf[u]].writer = {u} /\ t \in lock[ProcessOf[t]].readers
      BY <2>1, CacheTyped DEF LocksHold
    <3> QED BY <3>1, CacheFacts, CacheTyped DEF LocksHold
  <2> QED BY <2>1, <2>2
<1> QED BY <1>3

\* What nobody disturbs is kept, and memory is backed by files.
LEMMA CacheIsTrue ==
  ASSUME CacheInv
  PROVE  Cached!UndisturbedIsKept /\ Cached!MemoryHasFile
<1>1. CacheTypes /\ CallsFit /\ AloneIsKept /\ MemoryIsBacked
  BY CacheTyped
<1>2. Cached!UndisturbedIsKept
  <2> SUFFICES ASSUME NEW t \in Callers, caching[t] = "idle", alone[t], cacheCall[t].op # "none"
               PROVE  /\ cached[t] = "WriteComplete" =>
                            Cached!Mine(t) = cacheCall[t].value /\ disk[cacheCall[t].key] = cacheCall[t].value
                      /\ cacheCall[t].op = "get" /\ cached[t] # "none" => Cached!Mine(t) = cached[t]
    BY CacheFacts DEF Cached!UndisturbedIsKept, Callers
  <2>1. cacheCall[t].op \in {"try_put", "get"}
    BY <1>1, CacheFacts DEF CacheTypes, TryPuts, Gets
  <2>2. cacheCall[t].op = "get" => cached[t] # "WriteComplete"
    BY <1>1, CacheFacts DEF CallsFit
  <2> QED BY <1>1, <2>1, <2>2 DEF AloneIsKept
<1>3. Cached!MemoryHasFile
  <2> SUFFICES ASSUME cacheHarm = 0, \A t \in Callers : caching[t] = "idle",
                      NEW p \in Cached!Processes, NEW k \in LicenseKeys, memory[p][k] # "none"
               PROVE  disk[k] \in Blobs
    BY CacheFacts DEF Cached!MemoryHasFile, Callers
  <2>1. ~Pending(k)
    BY DEF Pending
  <2> QED BY <1>1, <2>1 DEF MemoryIsBacked
<1> QED BY <1>2, <1>3

\* What a thread puts or gets and nobody disturbs is in memory and, if it was written, on
\* the disk; without failures nothing is in memory that is not in a file; and a text that is
\* cut off is read only where a write was interrupted or another process is writing: the lock
\* of a process keeps its own threads apart (cache.rs:70-125, 180-205).
THEOREM LicensesStay == ServerSideSpec => LicensesAreKept
<1> DEFINE A == \A t \in Callers : caching[t] = "load" /\ caching'[t] = "keep" /\ cacheCall'[t].value = "cut" =>
                  \/ cacheCall[t].key \in interrupted
                  \/ \E u \in Callers : /\ ProcessOf[u] # ProcessOf[t] /\ caching[u] = "fill"
                                        /\ cacheCall[u].key = cacheCall[t].key
<1>1. ServerSideInit => CacheInv
  BY ServerSideParts, CacheBegins
<1>2. CacheInv /\ [ServerSideNext]_serverVars => CacheInv' /\ [A]_(Cached!vars)
  BY ServerSideParts, CacheSteps, CutsAreExplained
<1>3. CacheInv => (part = "license cache" => Cached!UndisturbedIsKept /\ Cached!MemoryHasFile)
  BY CacheIsTrue
<1>4. [A]_(Cached!vars) => [\A t \in Threads \cup {Tool} :
        caching[t] = "load" /\ caching'[t] = "keep" /\ cacheCall'[t].value = Cached!CutText =>
       \/ cacheCall[t].key \in interrupted
       \/ \E u \in Threads \cup {Tool} :
            ProcessOf[u] # ProcessOf[t] /\ caching[u] = "fill" /\ cacheCall[u].key = cacheCall[t].key]_(Cached!vars)
  BY CacheFacts DEF Callers
<1> HIDE DEF A
<1> QED BY <1>1, <1>2, <1>3, <1>4, PTL DEF ServerSideSpec, LicensesAreKept, Cached!CutIsExplained

-----------------------------------------------------------------------------
\* The licenses of a process.
Owned == Managed!AllBlobs \cup Remotes
Numbers == UNION {b.issued \cup b.expires \cup b.grace : b \in Owned}
Moments == Numbers \cup {Minute * m : m \in Numbers} \cup {ThirtySeconds, Minute * 6}
Jobs == [text : LicenseTexts \cup {"none"}, scope : Scopes \cup {<<>>}, seen : SUBSET Nat,
         waited : SUBSET Moments, until : SUBSET Int]
Adding == {"alias", "parse", "find", "append", "get"}
Judging == {"grace", "dates", "judge"}

ManagerTypes ==
  /\ licenses \in Seq([first : Managed!AllBlobs, remote : SUBSET Remotes])
  /\ aliases \in [LicenseTexts -> {b.id : b \in Managed!AllBlobs} \cup {"none"}]
  /\ now \in 0 .. MaxNow
  /\ judging \in [Threads -> {"idle"} \cup Adding \cup Judging]
  /\ job \in [Threads -> Jobs]
  /\ verdict = [t \in Threads |-> verdict[t]]

\* Whom a license of the server answers for.
RemotesFit ==
  \A i \in Managed!Indices : \A r \in licenses[i].remote :
    /\ licenses[i].first.placeholder /\ r.id = Managed!IdOf(i)
    /\ \A q \in licenses[i].remote : q = r

IsFirst(i) == i \in Managed!Indices /\ \A j \in Managed!Indices : Managed!IdOf(j) = Managed!IdOf(i) => i <= j
HasBegunOrMore(seen) == \E i \in seen : Managed!HasBegun(licenses[i].first) \/ licenses[i].remote # {}
\* Each date on which a license begins comes no sooner than one of a set.
Covers(until, seen) == \A i \in seen : \A d \in licenses[i].first.issued : \E m \in until \cap Int : m <= d

\* What a thread relies on, and what it was answered.
AddingFits(t) ==
  /\ judging[t] \in Adding => job[t].text \in LicenseTexts
  /\ judging[t] \in {"find", "append", "get"} => BlobOf[job[t].text] # {}
  /\ judging[t] = "get" => \E i \in Managed!Indices : Managed!IdOf(i) = Managed!TheBlob(t).id
JudgingFits(t) ==
  /\ job[t].seen \subseteq Managed!Indices
  /\ judging[t] \in {"dates", "judge"} /\ job[t].waited # {} =>
       \E i \in job[t].seen : Managed!HasBegun(licenses[i].first)
  /\ judging[t] = "judge" => Covers(job[t].until, job[t].seen)
AnswerFits(t) ==
  /\ verdict[t][1] = "license" => IsFirst(verdict[t][2])
  /\ verdict[t][1] = "licensed" =>
       /\ verdict[t][2] \in BOOLEAN /\ Covers(verdict[t][3], job[t].seen)
       /\ verdict[t][2] => HasBegunOrMore(job[t].seen)
ThreadFits(t) == AddingFits(t) /\ JudgingFits(t) /\ AnswerFits(t)

ManagerInv == ManagerTypes /\ RemotesFit /\ \A t \in Threads : ThreadFits(t)

-----------------------------------------------------------------------------
\* A finite set of numbers has a least one.
LEMMA LeastOfFinite ==
  ASSUME NEW S \in SUBSET Int, IsFiniteSet(S), S # {}
  PROVE  \E x \in S : \A y \in S : x <= y
<1> DEFINE P == {T \in SUBSET S : T = {} \/ \E x \in T : \A y \in T : x <= y}
<1>1. ASSUME NEW T \in SUBSET S, \A x \in T : T \ {x} \in P
      PROVE  T \in P
  <2>1. CASE T = {}
    BY <2>1
  <2>2. CASE T # {}
    <3>1. PICK z \in T : T \ {z} \in P
      BY <1>1, <2>2
    <3>2. CASE T \ {z} = {}
      <4>1. \A y \in T : z <= y
        BY <3>1, <3>2
      <4> QED BY <3>1, <4>1
    <3>3. CASE T \ {z} # {}
      <4>1. PICK x \in T \ {z} : \A y \in T \ {z} : x <= y
        BY <3>1, <3>3
      <4>2. x \in Int /\ z \in Int
        BY <3>1, <4>1
      <4>3. \A y \in T : (IF x <= z THEN x ELSE z) <= y
        BY <4>1, <4>2
      <4> QED BY <3>1, <4>1, <4>3
    <3> QED BY <3>2, <3>3
  <2> QED BY <2>1, <2>2
<1>2. \A T \in SUBSET S : T \in P
  <2> HIDE DEF P
  <2> QED BY <1>1, FiniteInduction
<1> QED BY <1>2

\* A verdict compares finitely many moments.
LEMMA MomentsAreFinite ==
  /\ IsFiniteSet(Moments) /\ Moments \subseteq Int /\ Numbers \subseteq Moments
  /\ ThirtySeconds \in Nat /\ Minute \in Nat /\ MaxNow \in Nat
  /\ \A m \in Numbers : Minute * m \in Moments
  /\ ThirtySeconds \in Moments /\ Minute * 6 \in Moments
<1>1. Managed!TimeAssumption
  BY PartsAssumption
<1>2. /\ Numbers \subseteq Int /\ IsFiniteSet(Numbers)
      /\ ThirtySeconds \in Nat /\ Minute \in Nat /\ MaxNow \in Nat
  <2>1. ThirtySeconds \in Nat /\ Minute \in Nat /\ MaxNow \in Nat
    BY <1>1 DEF Managed!TimeAssumption
  <2>2. Numbers = UNION {b.issued \cup b.expires \cup b.grace : b \in (UNION {BlobOf[x] : x \in LicenseTexts}) \cup Remotes}
    BY DEF Numbers, Owned, Managed!AllBlobs
  <2>3. Numbers \subseteq Int /\ Managed!IsFiniteSet(Numbers)
    BY <1>1, <2>2, Zenon DEF Managed!TimeAssumption
  <2>4. IsFiniteSet(Numbers)
    BY <2>3, Zenon DEF Managed!IsFiniteSet, IsFiniteSet
  <2> QED BY <2>1, <2>3, <2>4
<1> DEFINE Ends == {Minute * m : m \in Numbers}
           f == [m \in Numbers |-> Minute * m]
<1>3. IsFiniteSet(Ends)
  <2>1. f \in Surjection(Numbers, Ends)
    BY DEF Surjection
  <2> HIDE DEF f, Ends
  <2> QED BY <1>2, <2>1, FS_Surjection
<1>4. IsFiniteSet({ThirtySeconds, Minute * 6})
  <2>1. IsFiniteSet({ThirtySeconds}) /\ IsFiniteSet({Minute * 6})
    BY FS_Singleton
  <2>2. {ThirtySeconds, Minute * 6} = {ThirtySeconds} \cup {Minute * 6}
    OBVIOUS
  <2> QED BY <2>1, <2>2, FS_Union
<1>5. IsFiniteSet(Moments)
  <2>1. Moments = (Numbers \cup Ends) \cup {ThirtySeconds, Minute * 6}
    BY DEF Moments
  <2>2. IsFiniteSet(Numbers \cup Ends)
    BY <1>2, <1>3, FS_Union
  <2> HIDE DEF Ends
  <2> QED BY <1>4, <2>1, <2>2, FS_Union
<1>6. Moments \subseteq Int
  <2>1. \A m \in Numbers : Minute * m \in Int
    BY <1>2
  <2>2. Minute * 6 \in Int
    BY <1>2
  <2>3. ThirtySeconds \in Int
    BY <1>2
  <2> QED BY <1>2, <2>1, <2>2, <2>3, Zenon DEF Moments
<1> QED BY <1>2, <1>5, <1>6 DEF Moments

\* The parts of the invariant of the license manager.
LEMMA LicenseFacts ==
  ASSUME ManagerInv
  PROVE  /\ ManagerTypes /\ RemotesFit /\ \A t \in Threads : AddingFits(t) /\ JudgingFits(t) /\ AnswerFits(t)
         /\ Len(licenses) \in Nat /\ Managed!Indices = 1 .. Len(licenses) /\ now \in Nat
         /\ \A i \in Managed!Indices :
              /\ licenses[i] \in [first : Managed!AllBlobs, remote : SUBSET Remotes]
              /\ licenses[i].first \in Managed!AllBlobs /\ licenses[i].remote \subseteq Remotes
<1>1. ManagerTypes
  BY DEF ManagerInv
<1>2. Managed!Indices = 1 .. Len(licenses) /\ Len(licenses) \in Nat
  BY <1>1 DEF ManagerTypes, Managed!Indices
<1>3. \A i \in Managed!Indices : licenses[i] \in [first : Managed!AllBlobs, remote : SUBSET Remotes]
  <2> DEFINE S == [first : Managed!AllBlobs, remote : SUBSET Remotes]
  <2>1. licenses \in Seq(S)
    BY <1>1 DEF ManagerTypes
  <2>2. \A i \in 1 .. Len(licenses) : licenses[i] \in S
    <3> HIDE DEF S
    <3> QED BY <2>1
  <2> QED BY <1>2, <2>2
<1>4. now \in Nat
  BY <1>1, MomentsAreFinite DEF ManagerTypes
<1> QED BY <1>1, <1>2, <1>3, <1>4 DEF ManagerInv, ThreadFits

\* get_by_id finds the first license of an id, if there is one.
LEMMA FirstIsFound ==
  ASSUME ManagerInv, NEW id
  PROVE  /\ (\E i \in Managed!Indices : Managed!IdOf(i) = id) => Managed!GetById(id) # 0
         /\ Managed!GetById(id) # 0 => IsFirst(Managed!GetById(id))
<1> DEFINE found == {i \in Managed!Indices : Managed!IdOf(i) = id}
<1>1. CASE found = {}
  BY <1>1 DEF Managed!GetById
<1>2. CASE found # {}
  <2>1. found \in SUBSET Nat
    BY LicenseFacts
  <2>2. \E i \in found : \A j \in found : i <= j
    <3> HIDE DEF found
    <3> QED BY <1>2, <2>1, LeastNumber
  <2>3. Managed!GetById(id) = CHOOSE i \in found : \A j \in found : i <= j
    BY <1>2 DEF Managed!GetById
  <2>4. Managed!GetById(id) \in found /\ \A j \in found : Managed!GetById(id) <= j
    BY <2>2, <2>3
  <2>5. Managed!GetById(id) # 0
    BY <2>4, LicenseFacts
  <2> QED BY <2>4, <2>5 DEF IsFirst
<1> QED BY <1>1, <1>2

\* A text that parses has a license.
LEMMA TextHasBlob ==
  ASSUME NEW t \in Threads, job[t].text \in LicenseTexts, BlobOf[job[t].text] # {}
  PROVE  Managed!TheBlob(t) \in Managed!AllBlobs
BY DEF Managed!TheBlob, Managed!AllBlobs

\* The invariant of the license manager holds at first.
LEMMA ManagerBegins == Managed!Init => ManagerInv
<1> SUFFICES ASSUME Managed!Init
             PROVE  ManagerInv
  OBVIOUS
<1>1. /\ licenses = <<>> /\ aliases = [x \in LicenseTexts |-> "none"] /\ now = 0
      /\ judging = [t \in Threads |-> "idle"]
      /\ job = [t \in Threads |-> [text |-> "none", scope |-> <<>>, seen |-> {}, waited |-> {}, until |-> {}]]
      /\ verdict = [t \in Threads |-> <<"none">>]
  BY DEF Managed!Init, Managed!Nothing, Managed!NoJob
<1>2. <<>> \in Seq([first : Managed!AllBlobs, remote : SUBSET Remotes]) /\ Len(<<>>) = 0
  OBVIOUS
<1>3. 0 \in 0 .. MaxNow
  BY MomentsAreFinite
<1>4. ManagerTypes
  BY <1>1, <1>2, <1>3 DEF ManagerTypes, Jobs
<1>5. RemotesFit
  BY <1>1, <1>2 DEF RemotesFit, Managed!Indices
<1>6. \A t \in Threads : ThreadFits(t)
  BY <1>1 DEF ThreadFits, AddingFits, JudgingFits, AnswerFits, Adding
<1> QED BY <1>4, <1>5, <1>6 DEF ManagerInv

-----------------------------------------------------------------------------
\* Licenses are never taken away, and no time is given back.
Grows ==
  /\ licenses' \in Seq([first : Managed!AllBlobs, remote : SUBSET Remotes])
  /\ Len(licenses') >= Len(licenses)
  /\ \A i \in Managed!Indices : /\ licenses'[i].first = licenses[i].first
                                /\ licenses[i].remote # {} => licenses'[i].remote # {}
  /\ now' \in 0 .. MaxNow /\ now' >= now

\* A step that adds no license and takes no time keeps what is there.
LEMMA NothingGrows ==
  ASSUME ManagerInv, licenses' = licenses, now' = now
  PROVE  Grows /\ RemotesFit'
<1>1. Grows
  BY LicenseFacts DEF Grows, ManagerTypes
<1>2. Managed!Indices' = Managed!Indices
  BY DEF Managed!Indices
<1> QED BY <1>1, <1>2, LicenseFacts DEF RemotesFit, Managed!IdOf

\* What a thread relies on stays as it was while the others act.
LEMMA StillFits ==
  ASSUME ManagerInv, Grows, NEW u \in Threads, job'[u] = job[u], verdict'[u] = verdict[u],
         judging'[u] \in {"dates", "judge"} => judging'[u] = judging[u]
  PROVE  /\ JudgingFits(u)' /\ AnswerFits(u)'
         /\ judging'[u] = judging[u] => AddingFits(u)'
<1>1. /\ ManagerTypes /\ AddingFits(u) /\ JudgingFits(u) /\ AnswerFits(u) /\ now \in Nat
      /\ Len(licenses) \in Nat /\ Managed!Indices = 1 .. Len(licenses)
  BY LicenseFacts
<1>2. Managed!Indices' = 1 .. Len(licenses') /\ Len(licenses') \in Nat /\ Len(licenses') >= Len(licenses) /\ now' \in Nat /\ now' >= now
  BY MomentsAreFinite DEF Grows, Managed!Indices
<1>3. Managed!Indices \subseteq Managed!Indices' /\ \A i \in Managed!Indices' : i \notin Managed!Indices => i > Len(licenses)
  BY <1>1, <1>2
<1>4. \A i \in Managed!Indices : /\ licenses'[i].first = licenses[i].first
                                 /\ Managed!IdOf(i)' = Managed!IdOf(i)
                                 /\ licenses[i].remote # {} => licenses'[i].remote # {}
  BY DEF Grows, Managed!IdOf
<1>5. Managed!TheBlob(u)' = Managed!TheBlob(u)
  BY DEF Managed!TheBlob
<1>6. ASSUME NEW i \in Managed!Indices, Managed!HasBegun(licenses[i].first)
      PROVE  Managed!HasBegun(licenses[i].first)'
  <2>1. PICK d \in licenses[i].first.issued : d < now
    BY <1>6 DEF Managed!HasBegun, Managed!Before
  <2>2. d \in Int
    <3>1. licenses[i].first \in Owned
      BY LicenseFacts DEF Owned
    <3>2. d \in Numbers
      BY <2>1, <3>1 DEF Numbers
    <3> QED BY <3>2, MomentsAreFinite
  <2>3. d < now'
    BY <1>1, <1>2, <2>1, <2>2
  <2> QED BY <1>4, <2>1, <2>3 DEF Managed!HasBegun, Managed!Before
<1>7. judging'[u] = judging[u] => AddingFits(u)'
  BY <1>1, <1>3, <1>4, <1>5 DEF AddingFits
<1>8. \A until : Covers(until, job[u].seen) => Covers(until, job[u].seen)'
  BY <1>1, <1>4 DEF Covers, JudgingFits
<1>9. JudgingFits(u)'
  <2>1. job'[u].seen \subseteq Managed!Indices'
    BY <1>1, <1>3 DEF JudgingFits
  <2>2. judging'[u] \in {"dates", "judge"} /\ job'[u].waited # {} =>
           \E i \in job'[u].seen : Managed!HasBegun(licenses[i].first)'
    <3>1. judging[u] \in {"dates", "judge"} /\ job[u].waited # {} =>
             \E i \in job[u].seen : i \in Managed!Indices /\ Managed!HasBegun(licenses[i].first)
      BY <1>1 DEF JudgingFits
    <3> QED BY <1>6, <3>1
  <2>3. judging'[u] = "judge" => Covers(job[u].until, job[u].seen)'
    BY <1>1, <1>8 DEF JudgingFits
  <2> QED BY <2>1, <2>2, <2>3 DEF JudgingFits, Covers
<1>10. AnswerFits(u)'
  <2>1. ASSUME verdict[u][1] = "license"
        PROVE  IsFirst(verdict[u][2])'
    <3>1. IsFirst(verdict[u][2])
      BY <1>1, <2>1 DEF AnswerFits
    <3>2. ASSUME NEW j \in Managed!Indices', Managed!IdOf(j)' = Managed!IdOf(verdict[u][2])'
          PROVE  verdict[u][2] <= j
      <4>1. CASE j \in Managed!Indices
        BY <1>4, <3>1, <3>2, <4>1 DEF IsFirst
      <4>2. CASE j \notin Managed!Indices
        BY <1>1, <1>2, <1>3, <3>1, <4>2 DEF IsFirst
      <4> QED BY <4>1, <4>2
    <3>3. verdict[u][2] \in Managed!Indices'
      BY <1>3, <3>1 DEF IsFirst
    <3> QED BY <3>2, <3>3 DEF IsFirst
  <2>2. ASSUME verdict[u][1] = "licensed", verdict[u][2]
        PROVE  HasBegunOrMore(job[u].seen)'
    <3>1. PICK i \in job[u].seen : Managed!HasBegun(licenses[i].first) \/ licenses[i].remote # {}
      BY <1>1, <2>2 DEF AnswerFits, HasBegunOrMore
    <3>2. i \in Managed!Indices
      BY <1>1 DEF JudgingFits
    <3>3. Managed!HasBegun(licenses[i].first)' \/ licenses'[i].remote # {}
      BY <1>4, <1>6, <3>1, <3>2
    <3> QED BY <3>3 DEF HasBegunOrMore
  <2>3. verdict[u][1] = "licensed" => verdict[u][2] \in BOOLEAN /\ Covers(verdict[u][3], job[u].seen)'
    BY <1>1, <1>8 DEF AnswerFits
  <2> QED BY <2>1, <2>2, <2>3 DEF AnswerFits, HasBegunOrMore, Covers
<1> QED BY <1>7, <1>9, <1>10

\* What another thread relies on stays when the list only grows.
LEMMA OthersFit ==
  ASSUME ManagerInv, Grows, NEW u \in Threads,
         judging'[u] = judging[u], job'[u] = job[u], verdict'[u] = verdict[u]
  PROVE  ThreadFits(u)'
BY StillFits DEF ThreadFits

\* A thread goes to p with the job j and the answer a.
Moves(t, p, j, a) ==
  /\ p \in {"idle"} \cup Adding \cup Judging /\ j \in Jobs
  /\ judging' = [judging EXCEPT ![t] = p] /\ job' = [job EXCEPT ![t] = j]
  /\ verdict' = [verdict EXCEPT ![t] = a]
  /\ now' = now

\* What a step of one thread changes.
LEMMA MovesThere ==
  ASSUME ManagerInv, NEW t \in Threads, NEW p, NEW j, NEW a, Moves(t, p, j, a)
  PROVE  /\ judging'[t] = p /\ job'[t] = j /\ verdict'[t] = a /\ now' = now
         /\ \A u \in Threads \ {t} : judging'[u] = judging[u] /\ job'[u] = job[u] /\ verdict'[u] = verdict[u]
         /\ judging' \in [Threads -> {"idle"} \cup Adding \cup Judging]
         /\ job' \in [Threads -> Jobs] /\ verdict' = [u \in Threads |-> verdict'[u]]
BY LicenseFacts DEF Moves, ManagerTypes

\* A step of one thread has to keep what that thread relies on.
LEMMA ThreadMoves ==
  ASSUME ManagerInv, NEW t \in Threads, NEW p, NEW j, NEW a, Moves(t, p, j, a), Grows, RemotesFit',
         aliases' \in [LicenseTexts -> {b.id : b \in Managed!AllBlobs} \cup {"none"}],
         ThreadFits(t)'
  PROVE  ManagerInv'
<1>1. ManagerTypes'
  BY MovesThere DEF ManagerTypes, Grows
<1>2. ASSUME NEW u \in Threads
      PROVE  ThreadFits(u)'
  <2>1. CASE u = t
    BY <2>1
  <2>2. CASE u # t
    BY <2>2, MovesThere, OthersFit
  <2> QED BY <2>1, <2>2
<1> QED BY <1>1, <1>2 DEF ManagerInv

\* The clock, and the answers of the server.
LEMMA LicensesChange ==
  ASSUME ManagerInv, Grows, RemotesFit', UNCHANGED <<judging, job, verdict, aliases>>
  PROVE  ManagerInv'
<1>1. ManagerTypes'
  BY LicenseFacts DEF ManagerTypes, Grows
<1>2. \A u \in Threads : ThreadFits(u)'
  BY OthersFit
<1> QED BY <1>1, <1>2 DEF ManagerInv

\* Time that passes keeps the invariant.
LEMMA TickStep ==
  ASSUME ManagerInv, Managed!Tick
  PROVE  ManagerInv'
<1>1. /\ now < MaxNow /\ now' = now + 1 /\ UNCHANGED <<licenses, aliases, judging, job, verdict>>
      /\ MaxNow \in Nat /\ now \in Nat
  BY LicenseFacts, MomentsAreFinite DEF Managed!Tick
<1>2. Grows
  BY <1>1, LicenseFacts DEF Grows, ManagerTypes
<1>3. RemotesFit'
  BY <1>1, LicenseFacts DEF RemotesFit, Managed!IdOf, Managed!Indices
<1> QED BY <1>1, <1>2, <1>3, LicensesChange

\* A fetched license keeps the invariant.
LEMMA UpdateStep ==
  ASSUME ManagerInv, Managed!UpdateRemote
  PROVE  ManagerInv'
<1>1. PICK r \in Remotes, i \in Managed!Indices :
        /\ licenses[i].first.placeholder /\ r.id = Managed!IdOf(i)
        /\ licenses' = [licenses EXCEPT ![i].remote = {r}]
        /\ UNCHANGED <<aliases, now, judging, job, verdict>>
  BY DEF Managed!UpdateRemote, Managed!RemoteChecked
<1> DEFINE l == [licenses[i] EXCEPT !.remote = {r}]
           S == [first : Managed!AllBlobs, remote : SUBSET Remotes]
<1>2. l \in S /\ l.first = licenses[i].first /\ l.remote = {r}
  BY LicenseFacts
<1>3. licenses \in Seq(S) /\ i \in 1 .. Len(licenses) /\ licenses' = [licenses EXCEPT ![i] = l]
  BY <1>1, LicenseFacts DEF ManagerTypes
<1>4. /\ licenses' \in Seq(S) /\ Len(licenses') = Len(licenses) /\ licenses'[i] = l
      /\ \A k \in 1 .. Len(licenses) : k # i => licenses'[k] = licenses[k]
  <2> HIDE DEF l, S
  <2> QED BY <1>2, <1>3
<1> HIDE DEF l
<1>5. Managed!Indices' = Managed!Indices /\ \A k \in Managed!Indices : Managed!IdOf(k)' = Managed!IdOf(k)
  BY <1>2, <1>3, <1>4 DEF Managed!Indices, Managed!IdOf
<1>6. Grows
  <2>1. now' \in 0 .. MaxNow /\ now' >= now
    BY <1>1, LicenseFacts DEF ManagerTypes
  <2>2. Len(licenses') >= Len(licenses)
    BY <1>4, LicenseFacts
  <2>3. \A k \in Managed!Indices : /\ licenses'[k].first = licenses[k].first
                                   /\ licenses[k].remote # {} => licenses'[k].remote # {}
    BY <1>2, <1>4, LicenseFacts
  <2> QED BY <1>4, <2>1, <2>2, <2>3 DEF Grows
<1>7. RemotesFit'
  <2> SUFFICES ASSUME NEW k \in Managed!Indices, NEW q \in licenses'[k].remote
               PROVE  /\ licenses'[k].first.placeholder /\ q.id = Managed!IdOf(k)
                      /\ \A z \in licenses'[k].remote : z = q
    BY <1>5 DEF RemotesFit
  <2>1. CASE k = i
    BY <1>1, <1>2, <1>4, <2>1
  <2>2. CASE k # i
    <3>1. licenses'[k] = licenses[k]
      BY <1>4, <2>2, LicenseFacts
    <3> QED BY <3>1, LicenseFacts DEF RemotesFit
  <2> QED BY <2>1, <2>2
<1> QED BY <1>1, <1>6, <1>7, LicensesChange

-----------------------------------------------------------------------------
\* A thread that is answered keeps only what it has looked at.
LEMMA AnswerMoves ==
  ASSUME ManagerInv, NEW t \in Threads, NEW a, Managed!Answer(t, a), UNCHANGED <<licenses, now>>,
         aliases' \in [LicenseTexts -> {b.id : b \in Managed!AllBlobs} \cup {"none"}],
         a[1] = "license" => IsFirst(a[2]),
         a[1] = "licensed" => /\ a[2] \in BOOLEAN /\ Covers(a[3], job[t].seen)
                              /\ a[2] => HasBegunOrMore(job[t].seen)
  PROVE  ManagerInv'
<1> DEFINE j == [Managed!NoJob EXCEPT !.seen = job[t].seen]
<1>0. j \in Jobs /\ j.seen = job[t].seen
  <2>1. job[t].seen \in SUBSET Nat
    BY LicenseFacts DEF ManagerTypes, Jobs
  <2>2. Managed!NoJob \in Jobs
    BY DEF Managed!NoJob, Managed!Nothing, Jobs
  <2> QED BY <2>1, <2>2 DEF Jobs
<1>1. Moves(t, "idle", j, a)
  <2> HIDE DEF j
  <2>1. job' = [job EXCEPT ![t] = j]
    BY DEF Managed!Answer, Managed!Keeping, j
  <2> QED BY <1>0, <2>1 DEF Moves, Managed!Answer, Managed!Goto
<1> HIDE DEF j
<1>2. /\ judging'[t] = "idle" /\ job'[t].seen = job[t].seen /\ verdict'[t] = a
      /\ job[t].seen \subseteq Managed!Indices
  BY <1>0, <1>1, MovesThere, LicenseFacts DEF JudgingFits
<1>3. Grows /\ RemotesFit'
  BY NothingGrows
<1>4. Managed!Indices' = Managed!Indices
  BY DEF Managed!Indices
<1>5. AddingFits(t)'
  BY <1>2 DEF AddingFits, Adding
<1>6. JudgingFits(t)'
  BY <1>2, <1>4 DEF JudgingFits
<1>7. AnswerFits(t)'
  <2>1. a[1] = "license" => IsFirst(a[2])'
    BY <1>4 DEF IsFirst, Managed!IdOf
  <2>2. Covers(a[3], job[t].seen) => \A i \in job'[t].seen : \A d \in licenses'[i].first.issued : \E m \in a[3] \cap Int : m <= d
    BY <1>2 DEF Covers
  <2>3. HasBegunOrMore(job[t].seen) =>
          \E i \in job'[t].seen : Managed!HasBegun(licenses[i].first)' \/ licenses'[i].remote # {}
    BY <1>2 DEF HasBegunOrMore, Managed!HasBegun, Managed!Before
  <2> QED BY <1>2, <2>1, <2>2, <2>3 DEF AnswerFits, Covers, HasBegunOrMore
<1>8. ThreadFits(t)'
  BY <1>5, <1>6, <1>7 DEF ThreadFits
<1> QED BY <1>1, <1>3, <1>8, ThreadMoves

\* A thread that goes on adding a license with the text it has.
LEMMA AddingMoves ==
  ASSUME ManagerInv, NEW t \in Threads, NEW p \in {"parse", "find", "append", "get"},
         Managed!Goto(t, p), UNCHANGED <<job, verdict, now>>, judging[t] \in Adding, Grows, RemotesFit',
         aliases' \in [LicenseTexts -> {b.id : b \in Managed!AllBlobs} \cup {"none"}],
         p # "parse" => BlobOf[job[t].text] # {},
         p = "get" => \E i \in Managed!Indices' : Managed!IdOf(i)' = Managed!TheBlob(t).id
  PROVE  ManagerInv'
<1>0. ManagerTypes /\ job[t] \in Jobs
  BY LicenseFacts DEF ManagerTypes
<1>1. Moves(t, p, job[t], verdict[t])
  <2>1. job = [job EXCEPT ![t] = job[t]] /\ verdict = [verdict EXCEPT ![t] = verdict[t]]
    BY <1>0 DEF ManagerTypes
  <2> QED BY <1>0, <2>1 DEF Moves, Managed!Goto, Adding
<1>2. judging'[t] = p /\ job'[t] = job[t] /\ verdict'[t] = verdict[t]
  BY <1>1, MovesThere
<1>3. AddingFits(t)'
  <2>1. Managed!TheBlob(t)' = Managed!TheBlob(t)
    BY DEF Managed!TheBlob
  <2> QED BY <1>2, <2>1, LicenseFacts DEF AddingFits
<1>4. JudgingFits(t)' /\ AnswerFits(t)'
  BY <1>2, StillFits
<1>5. ThreadFits(t)'
  BY <1>3, <1>4 DEF ThreadFits
<1> QED BY <1>0, <1>1, <1>5, ThreadMoves

-----------------------------------------------------------------------------
\* Beginning to add a license keeps the invariant.
LEMMA GetOrAddStep ==
  ASSUME ManagerInv, NEW t \in Threads, Managed!GetOrAdd(t)
  PROVE  ManagerInv'
<1> DEFINE j(x) == [Managed!NoJob EXCEPT !.text = x]
<1>1. PICK x \in LicenseTexts : job' = [job EXCEPT ![t] = j(x)]
  BY DEF Managed!GetOrAdd
<1>2. /\ j(x).text = x /\ j(x).scope = <<>> /\ j(x).seen = {} /\ j(x).waited = {} /\ j(x).until = {}
      /\ j(x) \in Jobs
  <2>1. Managed!NoJob \in Jobs
    BY DEF Managed!NoJob, Managed!Nothing, Jobs
  <2>2. j(x) \in Jobs
    BY <2>1 DEF Jobs
  <2> QED BY <2>2 DEF Managed!NoJob
<1> HIDE DEF j
<1>3. Moves(t, "alias", j(x), <<"none">>) /\ UNCHANGED <<licenses, aliases, now>>
  BY <1>1, <1>2 DEF Managed!GetOrAdd, Managed!Goto, Managed!Nothing, Moves, Adding
<1>4. judging'[t] = "alias" /\ job'[t] = j(x) /\ verdict'[t] = <<"none">>
  BY <1>3, MovesThere
<1>5. ThreadFits(t)'
  <2>1. AddingFits(t)'
    BY <1>2, <1>4 DEF AddingFits
  <2>2. JudgingFits(t)'
    BY <1>2, <1>4 DEF JudgingFits
  <2>3. AnswerFits(t)'
    BY <1>4 DEF AnswerFits
  <2> QED BY <2>1, <2>2, <2>3 DEF ThreadFits
<1> QED BY <1>3, <1>5, NothingGrows, ThreadMoves, LicenseFacts DEF ManagerTypes

\* Looking an alias up keeps the invariant.
LEMMA FindAliasStep ==
  ASSUME ManagerInv, NEW t \in Threads, Managed!FindAlias(t)
  PROVE  ManagerInv'
<1> DEFINE i == Managed!GetById(job[t].text)
<1>1. /\ judging[t] = "alias" /\ UNCHANGED <<licenses, aliases, now>>
      /\ \/ i # 0 /\ Managed!Answer(t, <<"license", i>>)
         \/ Managed!Goto(t, "parse") /\ UNCHANGED <<job, verdict>>
  BY DEF Managed!FindAlias
<1>2. aliases' \in [LicenseTexts -> {b.id : b \in Managed!AllBlobs} \cup {"none"}]
  BY <1>1, LicenseFacts DEF ManagerTypes
<1>3. i # 0 => IsFirst(i)
  BY FirstIsFound
<1> HIDE DEF i
<1>4. CASE i # 0 /\ Managed!Answer(t, <<"license", i>>)
  BY <1>1, <1>2, <1>3, <1>4, AnswerMoves
<1>5. CASE Managed!Goto(t, "parse") /\ UNCHANGED <<job, verdict>>
  BY <1>1, <1>2, <1>5, AddingMoves, NothingGrows DEF Adding
<1> QED BY <1>1, <1>4, <1>5

\* Parsing a license keeps the invariant.
LEMMA ParseStep ==
  ASSUME ManagerInv, NEW t \in Threads, Managed!Parse(t)
  PROVE  ManagerInv'
<1> DEFINE x == job[t].text
<1>0. aliases \in [LicenseTexts -> {b.id : b \in Managed!AllBlobs} \cup {"none"}]
  BY LicenseFacts DEF ManagerTypes
<1>1. /\ judging[t] = "parse" /\ UNCHANGED <<licenses, now>>
      /\ \/ Managed!Answer(t, <<"error">>) /\ UNCHANGED aliases
         \/ Managed!Answer(t, <<"panic">>) /\ UNCHANGED aliases
         \/ /\ BlobOf[x] # {} /\ aliases' = [aliases EXCEPT ![x] = Managed!TheBlob(t).id]
            /\ Managed!Goto(t, "find") /\ UNCHANGED <<job, verdict>>
  BY DEF Managed!Parse
<1>2. CASE Managed!Answer(t, <<"error">>) /\ UNCHANGED aliases
  BY <1>0, <1>1, <1>2, AnswerMoves
<1>3. CASE Managed!Answer(t, <<"panic">>) /\ UNCHANGED aliases
  BY <1>0, <1>1, <1>3, AnswerMoves
<1>4. CASE /\ BlobOf[x] # {} /\ aliases' = [aliases EXCEPT ![x] = Managed!TheBlob(t).id]
           /\ Managed!Goto(t, "find") /\ UNCHANGED <<job, verdict>>
  <2>1. Managed!TheBlob(t) \in Managed!AllBlobs
    BY <1>1, <1>4, TextHasBlob, LicenseFacts DEF AddingFits, Adding
  <2>2. aliases' \in [LicenseTexts -> {b.id : b \in Managed!AllBlobs} \cup {"none"}]
    BY <1>0, <1>4, <2>1
  <2> QED BY <1>1, <1>4, <2>2, AddingMoves, NothingGrows DEF Adding
<1> QED BY <1>1, <1>2, <1>3, <1>4

\* Looking for a license of the same id keeps the invariant.
LEMMA FindStep ==
  ASSUME ManagerInv, NEW t \in Threads, Managed!Find(t)
  PROVE  ManagerInv'
<1> DEFINE i == Managed!GetById(Managed!TheBlob(t).id)
<1>1. /\ judging[t] = "find" /\ UNCHANGED <<licenses, aliases, now>>
      /\ \/ i # 0 /\ Managed!Answer(t, <<"license", i>>)
         \/ Managed!Goto(t, "append") /\ UNCHANGED <<job, verdict>>
  BY DEF Managed!Find
<1>2. aliases' \in [LicenseTexts -> {b.id : b \in Managed!AllBlobs} \cup {"none"}]
  BY <1>1, LicenseFacts DEF ManagerTypes
<1>3. i # 0 => IsFirst(i)
  BY FirstIsFound
<1>4. BlobOf[job[t].text] # {}
  BY <1>1, LicenseFacts DEF AddingFits
<1> HIDE DEF i
<1>5. CASE i # 0 /\ Managed!Answer(t, <<"license", i>>)
  BY <1>1, <1>2, <1>3, <1>5, AnswerMoves
<1>6. CASE Managed!Goto(t, "append") /\ UNCHANGED <<job, verdict>>
  BY <1>1, <1>2, <1>4, <1>6, AddingMoves, NothingGrows DEF Adding
<1> QED BY <1>1, <1>5, <1>6

\* Appending a license keeps the invariant, and one license for each id.
LEMMA AppendStep ==
  ASSUME ManagerInv, NEW t \in Threads, Managed!AppendLicense(t)
  PROVE  ManagerInv'
<1> DEFINE b == Managed!TheBlob(t)
           l == [first |-> b, remote |-> {}]
           S == [first : Managed!AllBlobs, remote : SUBSET Remotes]
           n == Len(licenses) + 1
<1>1. /\ judging[t] = "append" /\ licenses' = Append(licenses, l)
      /\ Managed!Goto(t, "get") /\ UNCHANGED <<aliases, now, job, verdict>>
  BY DEF Managed!AppendLicense, Managed!Appended
<1>2. BlobOf[job[t].text] # {} /\ b \in Managed!AllBlobs
  BY <1>1, TextHasBlob, LicenseFacts DEF AddingFits, Adding
<1>3. l \in S /\ licenses \in Seq(S) /\ l.first = b /\ l.remote = {}
  BY <1>2, LicenseFacts DEF ManagerTypes
<1>4. /\ licenses' \in Seq(S) /\ Len(licenses') = n /\ licenses'[n] = l
      /\ \A k \in 1 .. Len(licenses) : licenses'[k] = licenses[k]
  <2> HIDE DEF l, S
  <2> QED BY <1>1, <1>3
<1>5. Managed!Indices = 1 .. Len(licenses) /\ Managed!Indices' = 1 .. n /\ Len(licenses) \in Nat
  BY <1>4, LicenseFacts DEF Managed!Indices
<1> HIDE DEF l, b, n
<1>6. Grows
  <2>1. now' \in 0 .. MaxNow /\ now' >= now
    BY <1>1, LicenseFacts DEF ManagerTypes
  <2> QED BY <1>4, <1>5, <2>1 DEF Grows, n
<1>7. RemotesFit'
  <2> SUFFICES ASSUME NEW k \in 1 .. n, NEW q \in licenses'[k].remote
               PROVE  /\ licenses'[k].first.placeholder /\ q.id = licenses'[k].first.id
                      /\ \A z \in licenses'[k].remote : z = q
    BY <1>5 DEF RemotesFit, Managed!IdOf
  <2>1. k # n
    BY <1>3, <1>4
  <2>2. k \in Managed!Indices /\ licenses'[k] = licenses[k]
    BY <1>4, <1>5, <2>1 DEF n
  <2> QED BY <2>2, LicenseFacts DEF RemotesFit, Managed!IdOf
<1>8. \E i \in Managed!Indices' : Managed!IdOf(i)' = Managed!TheBlob(t).id
  <2>1. n \in Managed!Indices'
    BY <1>5 DEF n
  <2> QED BY <1>3, <1>4, <2>1 DEF Managed!IdOf, b
<1>9. aliases' \in [LicenseTexts -> {x.id : x \in Managed!AllBlobs} \cup {"none"}]
  BY <1>1, LicenseFacts DEF ManagerTypes
<1> QED BY <1>1, <1>2, <1>6, <1>7, <1>8, <1>9, AddingMoves DEF Adding

\* Getting the license that all callers are given keeps the invariant.
LEMMA GetStep ==
  ASSUME ManagerInv, NEW t \in Threads, Managed!Get(t)
  PROVE  ManagerInv'
<1> DEFINE i == Managed!GetById(Managed!TheBlob(t).id)
<1>1. judging[t] = "get" /\ UNCHANGED <<licenses, aliases, now>> /\ Managed!Answer(t, <<"license", i>>)
  BY DEF Managed!Get
<1>2. aliases' \in [LicenseTexts -> {b.id : b \in Managed!AllBlobs} \cup {"none"}]
  BY <1>1, LicenseFacts DEF ManagerTypes
<1>3. IsFirst(i)
  BY <1>1, FirstIsFound, LicenseFacts DEF AddingFits
<1> HIDE DEF i
<1> QED BY <1>1, <1>2, <1>3, AnswerMoves

-----------------------------------------------------------------------------
\* Collecting the licenses keeps the invariant.
LEMMA CollectStep ==
  ASSUME ManagerInv, NEW t \in Threads, Managed!Collect(t)
  PROVE  ManagerInv'
<1> DEFINE seen(x) == Managed!CollectFrom(x)
           j(x) == [Managed!NoJob EXCEPT !.scope = x, !.seen = seen(x)]
<1>1. PICK x \in Scopes : job' = [job EXCEPT ![t] = j(x)]
  BY DEF Managed!Collect
<1>2. seen(x) \subseteq Managed!Indices /\ seen(x) \in SUBSET Nat
  <2>1. \A id : Managed!GetById(id) # 0 => Managed!GetById(id) \in Managed!Indices
    BY FirstIsFound DEF IsFirst
  <2>2. seen(x) \subseteq Managed!Indices
    BY <2>1 DEF Managed!CollectFrom
  <2> HIDE DEF seen
  <2> QED BY <2>2, LicenseFacts
<1> HIDE DEF seen
<1>3. j(x) \in Jobs /\ j(x).seen = seen(x)
  <2>1. Managed!NoJob \in Jobs
    BY DEF Managed!NoJob, Managed!Nothing, Jobs
  <2> QED BY <1>2, <2>1 DEF Jobs
<1> HIDE DEF j
<1>4. Moves(t, "grace", j(x), <<"none">>) /\ UNCHANGED <<licenses, aliases, now>>
  BY <1>1, <1>3 DEF Managed!Collect, Managed!Goto, Managed!Nothing, Moves, Judging
<1>5. judging'[t] = "grace" /\ job'[t] = j(x) /\ verdict'[t] = <<"none">>
  BY <1>4, MovesThere
<1>6. ThreadFits(t)'
  <2>1. AddingFits(t)'
    BY <1>5 DEF AddingFits, Adding
  <2>2. JudgingFits(t)'
    BY <1>2, <1>3, <1>4, <1>5 DEF JudgingFits, Managed!Indices
  <2>3. AnswerFits(t)'
    BY <1>5 DEF AnswerFits
  <2> QED BY <2>1, <2>2, <2>3 DEF ThreadFits
<1> QED BY <1>4, <1>6, NothingGrows, ThreadMoves, LicenseFacts DEF ManagerTypes

\* A grace period ends at a moment that is known, and is granted only by a license that has
\* begun.
LEMMA GraceIsKnown ==
  ASSUME ManagerInv, NEW i \in Managed!Indices
  PROVE  /\ Managed!GracePeriodFor(i) \subseteq Moments
         /\ Managed!GracePeriodFor(i) # {} => Managed!HasBegun(licenses[i].first)
<1> DEFINE b == licenses[i].first
<1>1. b \in Owned
  BY LicenseFacts DEF Owned
<1>2. Minute * Managed!GraceMinutes(b) \in Moments
  <2>1. CASE b.grace = {}
    BY <2>1, MomentsAreFinite DEF Managed!GraceMinutes
  <2>2. CASE b.grace # {}
    <3>1. Managed!GraceMinutes(b) \in b.grace
      BY <2>2 DEF Managed!GraceMinutes
    <3>2. Managed!GraceMinutes(b) \in Numbers
      BY <1>1, <3>1 DEF Numbers
    <3> QED BY <3>2, MomentsAreFinite
  <2> QED BY <2>1, <2>2
<1>3. ThirtySeconds \in Moments
  BY MomentsAreFinite
<1> QED BY <1>2, <1>3 DEF Managed!GracePeriodFor, Managed!ValidateLicense

\* Working out the grace of each license keeps the invariant.
LEMMA GraceStep ==
  ASSUME ManagerInv, NEW t \in Threads, Managed!Grace(t)
  PROVE  ManagerInv'
<1> DEFINE waited == UNION {Managed!GracePeriodFor(i) : i \in {j \in job[t].seen : Managed!IsPending(j)}}
           j == [job[t] EXCEPT !.waited = waited]
<1>1. /\ judging[t] = "grace" /\ job' = [job EXCEPT ![t].waited = waited] /\ Managed!Goto(t, "dates")
      /\ UNCHANGED <<licenses, aliases, now, verdict>>
  BY DEF Managed!Grace, Managed!Seen
<1>2. waited \in SUBSET Moments /\ (waited # {} => \E i \in job[t].seen : Managed!HasBegun(licenses[i].first))
  BY GraceIsKnown, LicenseFacts DEF JudgingFits
<1> HIDE DEF waited
<1>3. j \in Jobs /\ j.seen = job[t].seen /\ j.waited = waited
  <2>1. job[t] \in Jobs
    BY LicenseFacts DEF ManagerTypes
  <2> QED BY <1>2, <2>1 DEF Jobs
<1>4. Moves(t, "dates", j, verdict[t])
  <2>1. verdict = [verdict EXCEPT ![t] = verdict[t]]
    BY LicenseFacts DEF ManagerTypes
  <2>2. job' = [job EXCEPT ![t] = j]
    BY <1>1
  <2> HIDE DEF j
  <2> QED BY <1>1, <1>3, <2>1, <2>2 DEF Moves, Managed!Goto, Judging
<1> HIDE DEF j
<1>5. judging'[t] = "dates" /\ job'[t] = j /\ verdict'[t] = verdict[t]
  BY <1>4, MovesThere
<1>6. Grows /\ RemotesFit' /\ Managed!Indices' = Managed!Indices
  BY <1>1, NothingGrows DEF Managed!Indices
<1>7. AddingFits(t)'
  BY <1>5 DEF AddingFits, Adding
<1>8. JudgingFits(t)'
  <2>1. job[t].seen \subseteq Managed!Indices
    BY LicenseFacts DEF JudgingFits
  <2>2. waited # {} => \E i \in job[t].seen : Managed!HasBegun(licenses[i].first)'
    BY <1>1, <1>2 DEF Managed!HasBegun, Managed!Before
  <2> QED BY <1>3, <1>5, <1>6, <2>1, <2>2 DEF JudgingFits
<1>9. AnswerFits(t)'
  BY <1>1, <1>3, <1>5, <1>6, LicenseFacts DEF AnswerFits, IsFirst, Managed!IdOf, Covers, HasBegunOrMore, Managed!HasBegun, Managed!Before
<1>10. ThreadFits(t)'
  BY <1>7, <1>8, <1>9 DEF ThreadFits
<1> QED BY <1>1, <1>4, <1>6, <1>10, ThreadMoves, LicenseFacts DEF ManagerTypes

\* The earliest of all the dates comes no later than any on which a license begins.
LEMMA DatesStep ==
  ASSUME ManagerInv, NEW t \in Threads, Managed!CollectDates(t)
  PROVE  ManagerInv'
<1> DEFINE all == job[t].waited \cup UNION {Managed!Dates(i) : i \in job[t].seen}
           until == IF all = {} THEN {} ELSE {Managed!Min(all)}
           j == [job[t] EXCEPT !.until = until]
<1>1. /\ judging[t] = "dates" /\ job' = [job EXCEPT ![t].until = until] /\ Managed!Goto(t, "judge")
      /\ UNCHANGED <<licenses, aliases, now, verdict>>
  BY DEF Managed!CollectDates, Managed!Seen
<1>0. job[t] \in Jobs /\ job[t].seen \subseteq Managed!Indices
  BY LicenseFacts DEF ManagerTypes, JudgingFits
<1>2. all \subseteq Moments
  <2>1. ASSUME NEW i \in job[t].seen
        PROVE  Managed!Dates(i) \subseteq Moments
    <3>1. licenses[i].first \in Owned /\ licenses[i].remote \subseteq Owned
      BY <1>0, LicenseFacts DEF Owned
    <3>2. \A b \in Owned : Managed!DatesOf(b) \subseteq Numbers
      BY DEF Managed!DatesOf, Numbers
    <3> QED BY <3>1, <3>2, MomentsAreFinite DEF Managed!Dates
  <2>2. job[t].waited \subseteq Moments
    BY <1>0 DEF Jobs
  <2> QED BY <2>1, <2>2
<1>3. \A i \in job[t].seen : licenses[i].first.issued \subseteq all
  BY DEF Managed!Dates, Managed!DatesOf
<1> HIDE DEF all
<1>4. /\ until \in SUBSET Int
      /\ \A d \in all : \E m \in until : m <= d
  <2>1. CASE all = {}
    BY <2>1
  <2>2. CASE all # {}
    <3>1. all \in SUBSET Int /\ IsFiniteSet(all)
      BY <1>2, MomentsAreFinite, FS_Subset
    <3>2. Managed!Min(all) \in all /\ \A d \in all : Managed!Min(all) <= d
      BY <2>2, <3>1, LeastOfFinite DEF Managed!Min
    <3> QED BY <2>2, <3>1, <3>2
  <2> QED BY <2>1, <2>2
<1> HIDE DEF until
<1>5. j \in Jobs /\ j.seen = job[t].seen /\ j.until = until /\ j.waited = job[t].waited
  BY <1>0, <1>4 DEF Jobs
<1>6. Moves(t, "judge", j, verdict[t])
  <2>1. verdict = [verdict EXCEPT ![t] = verdict[t]]
    BY LicenseFacts DEF ManagerTypes
  <2>2. job' = [job EXCEPT ![t] = j]
    BY <1>1
  <2> HIDE DEF j
  <2> QED BY <1>1, <1>5, <2>1, <2>2 DEF Moves, Managed!Goto, Judging
<1> HIDE DEF j
<1>7. judging'[t] = "judge" /\ job'[t] = j /\ verdict'[t] = verdict[t]
  BY <1>6, MovesThere
<1>8. Grows /\ RemotesFit' /\ Managed!Indices' = Managed!Indices
  BY <1>1, NothingGrows DEF Managed!Indices
<1>9. AddingFits(t)'
  BY <1>7 DEF AddingFits, Adding
<1>10. JudgingFits(t)'
  <2>1. job[t].waited # {} => \E i \in job[t].seen : Managed!HasBegun(licenses[i].first)'
    BY <1>1, LicenseFacts DEF JudgingFits, Managed!HasBegun, Managed!Before
  <2> QED BY <1>0, <1>1, <1>3, <1>4, <1>5, <1>7, <1>8, <2>1 DEF JudgingFits, Covers
<1>11. AnswerFits(t)'
  BY <1>1, <1>5, <1>7, <1>8, LicenseFacts DEF AnswerFits, IsFirst, Managed!IdOf, Covers, HasBegunOrMore, Managed!HasBegun, Managed!Before
<1>12. ThreadFits(t)'
  BY <1>9, <1>10, <1>11 DEF ThreadFits
<1> QED BY <1>1, <1>6, <1>8, <1>12, ThreadMoves, LicenseFacts DEF ManagerTypes

\* Nothing is permitted by licenses none of which has begun or is answered for.
LEMMA PermitsNeedsMore ==
  ASSUME ManagerInv, NEW i \in Managed!Indices, Managed!Permits(i)
  PROVE  Managed!HasBegun(licenses[i].first) \/ licenses[i].remote # {}
BY DEF Managed!Permits, Managed!ValidateUsage, Managed!ValidateLicense

\* The verdict keeps the invariant.
LEMMA JudgeStep ==
  ASSUME ManagerInv, NEW t \in Threads, Managed!Judge(t)
  PROVE  ManagerInv'
<1> DEFINE yes == job[t].waited # {} \/ \E i \in job[t].seen : Managed!Permits(i)
           a == <<"licensed", yes, job[t].until>>
<1>1. judging[t] = "judge" /\ UNCHANGED <<licenses, aliases, now>> /\ Managed!Answer(t, a)
  BY DEF Managed!Judge, Managed!Seen
<1>2. yes \in BOOLEAN
  OBVIOUS
<1>3. yes => HasBegunOrMore(job[t].seen)
  BY <1>1, PermitsNeedsMore, LicenseFacts DEF JudgingFits, HasBegunOrMore
<1> HIDE DEF yes
<1>4. a[1] = "licensed" /\ a[2] = yes /\ a[3] = job[t].until
  OBVIOUS
<1> HIDE DEF a
<1>5. Covers(a[3], job[t].seen)
  BY <1>1, <1>4, LicenseFacts DEF JudgingFits
<1>6. aliases' \in [LicenseTexts -> {b.id : b \in Managed!AllBlobs} \cup {"none"}]
  BY <1>1, LicenseFacts DEF ManagerTypes
<1> QED BY <1>1, <1>2, <1>3, <1>4, <1>5, <1>6, AnswerMoves

-----------------------------------------------------------------------------
\* Every step keeps the invariant.
LEMMA ManagerSteps ==
  ASSUME ManagerInv, [Managed!Next]_(Managed!vars)
  PROVE  ManagerInv'
<1>1. CASE UNCHANGED Managed!vars
  <2>1. UNCHANGED <<licenses, aliases, now, judging, job, verdict>>
    BY <1>1 DEF Managed!vars
  <2> QED BY <2>1, NothingGrows, LicensesChange
<1>2. ASSUME NEW t \in Threads, Managed!Step(t)
      PROVE  ManagerInv'
  BY <1>2, GetOrAddStep, FindAliasStep, ParseStep, FindStep, AppendStep, GetStep, CollectStep, GraceStep,
     DatesStep, JudgeStep DEF Managed!Step
<1> QED BY <1>1, <1>2, UpdateStep, TickStep DEF Managed!Next

\* Only the last step of a computation ends it.
LEMMA OnlyJudgeEnds ==
  ASSUME ManagerInv, NEW t \in Threads, Managed!Next, judging[t] = "judge", judging'[t] = "idle"
  PROVE  Managed!Judge(t)
<1>1. judging \in [Threads -> {"idle"} \cup Adding \cup Judging]
  BY LicenseFacts DEF ManagerTypes
<1>2. PICK u \in Threads : Managed!Step(u)
  BY DEF Managed!Next, Managed!UpdateRemote, Managed!Tick
<1>3. \E p : judging' = [judging EXCEPT ![u] = p]
  <2>1. Managed!GetOrAdd(u) \/ Managed!AppendLicense(u) \/ Managed!Collect(u) \/ Managed!Grace(u)
          \/ Managed!CollectDates(u) => \E p : judging' = [judging EXCEPT ![u] = p]
    BY DEF Managed!GetOrAdd, Managed!AppendLicense, Managed!Collect, Managed!Grace, Managed!CollectDates, Managed!Goto
  <2>2. Managed!FindAlias(u) \/ Managed!Parse(u) \/ Managed!Find(u) \/ Managed!Get(u) \/ Managed!Judge(u)
          => \E p : judging' = [judging EXCEPT ![u] = p]
    BY DEF Managed!FindAlias, Managed!Parse, Managed!Find, Managed!Get, Managed!Judge, Managed!Answer, Managed!Goto
  <2> QED BY <1>2, <2>1, <2>2 DEF Managed!Step
<1>4. u = t
  BY <1>1, <1>3
<1> QED BY <1>2, <1>4 DEF Managed!Step, Managed!GetOrAdd, Managed!FindAlias, Managed!Parse, Managed!Find,
          Managed!AppendLicense, Managed!Get, Managed!Collect, Managed!Grace, Managed!CollectDates

\* Licenses that were all revoked permit nothing.
LEMMA RevokedIsRefused ==
  ASSUME ManagerInv, [Managed!Next]_(Managed!vars), NEW t \in Threads,
         judging[t] = "judge", judging'[t] = "idle", job[t].waited = {},
         \A i \in Managed!Seen(t) : \E r \in licenses[i].remote : r.revoked
  PROVE  ~verdict'[t][2]
<1>1. Managed!Judge(t)
  BY OnlyJudgeEnds DEF Managed!vars
<1>2. ASSUME NEW i \in job[t].seen
      PROVE  ~Managed!Permits(i)
  <2>1. PICK r \in licenses[i].remote : r.revoked
    BY DEF Managed!Seen
  <2>2. i \in Managed!Indices
    BY LicenseFacts DEF JudgingFits
  <2>3. licenses[i].first.placeholder /\ \A q \in licenses[i].remote : q = r
    BY <2>1, <2>2, LicenseFacts DEF RemotesFit
  <2> QED BY <2>1, <2>3 DEF Managed!Permits, Managed!ValidateUsage, Managed!ValidateLicense
<1> DEFINE yes == job[t].waited # {} \/ \E i \in job[t].seen : Managed!Permits(i)
<1>3. yes = FALSE
  BY <1>2
<1>4. verdict' = [verdict EXCEPT ![t] = <<"licensed", yes, job[t].until>>]
  BY <1>1 DEF Managed!Judge, Managed!Answer, Managed!Seen
<1> HIDE DEF yes
<1>5. verdict'[t] = <<"licensed", yes, job[t].until>>
  BY <1>4, LicenseFacts DEF ManagerTypes
<1> QED BY <1>3, <1>5

\* The invariant implies what is promised of licenses and verdicts.
LEMMA VerdictsAreTrue ==
  ASSUME ManagerInv
  PROVE  Managed!SameLicenseForAll /\ Managed!RemoteIsItsOwn /\ Managed!HoldsUntilExpires
<1>1. Managed!SameLicenseForAll
  <2> SUFFICES ASSUME NEW t \in Threads, NEW u \in Threads,
                      verdict[t][1] = "license", verdict[u][1] = "license",
                      Managed!IdOf(verdict[t][2]) = Managed!IdOf(verdict[u][2])
               PROVE  verdict[t][2] = verdict[u][2]
    BY DEF Managed!SameLicenseForAll
  <2>1. IsFirst(verdict[t][2]) /\ IsFirst(verdict[u][2])
    BY LicenseFacts DEF AnswerFits
  <2> QED BY <2>1, LicenseFacts DEF IsFirst
<1>2. Managed!RemoteIsItsOwn
  BY LicenseFacts DEF RemotesFit, Managed!RemoteIsItsOwn
<1>3. Managed!HoldsUntilExpires
  <2> SUFFICES ASSUME NEW t \in Threads, verdict[t][1] = "licensed", \A d \in verdict[t][3] : now <= d,
                      \A i \in job[t].seen : licenses[i].remote = {}
               PROVE  Managed!Verdict(job[t].seen) = verdict[t][2]
    BY DEF Managed!HoldsUntilExpires, Managed!Seen
  <2>1. AnswerFits(t) /\ job[t].seen \subseteq Managed!Indices
    BY LicenseFacts DEF JudgingFits
  <2>2. ASSUME NEW i \in job[t].seen
        PROVE  ~Managed!HasBegun(licenses[i].first)
    <3> SUFFICES ASSUME NEW d \in licenses[i].first.issued, d < now
                 PROVE  FALSE
      BY DEF Managed!HasBegun, Managed!Before
    <3>1. licenses[i].first \in Owned
      BY <2>1, LicenseFacts DEF Owned
    <3>2. d \in Int /\ now \in Nat
      BY <3>1, MomentsAreFinite, LicenseFacts DEF Numbers
    <3>3. PICK m \in verdict[t][3] \cap Int : m <= d
      BY <2>1 DEF AnswerFits, Covers
    <3> QED BY <3>2, <3>3
  <2>3. ~HasBegunOrMore(job[t].seen)
    BY <2>2 DEF HasBegunOrMore
  <2>4. Managed!Verdict(job[t].seen) = FALSE
    BY <2>1, <2>2, GraceIsKnown, PermitsNeedsMore DEF Managed!Verdict
  <2>5. verdict[t][2] = FALSE
    BY <2>1, <2>3 DEF AnswerFits
  <2> QED BY <2>4, <2>5
<1> QED BY <1>1, <1>2, <1>3

\* All that ask for licenses of one id are given the same one, however their calls overlap; a
\* placeholder is answered for by a license of its own id only; nothing is permitted by
\* licenses that were revoked; and a verdict holds as long as it says
\* (mod.rs:116, license_pair.rs:38-44, compute.rs:147-151, 248-271).
THEOREM VerdictsStand == ServerSideSpec => VerdictsHold
<1> DEFINE A == \A t \in Threads :
                  /\ judging[t] = "judge" /\ judging'[t] = "idle" /\ job[t].scope # Managed!All /\ job[t].waited = {}
                  /\ \A i \in Managed!Seen(t) : \E r \in licenses[i].remote : r.revoked
                => ~verdict'[t][2]
<1>1. ServerSideInit => ManagerInv
  BY ServerSideParts, ManagerBegins
<1>2. ManagerInv /\ [ServerSideNext]_serverVars => ManagerInv' /\ [A]_(Managed!vars)
  BY ServerSideParts, ManagerSteps, RevokedIsRefused
<1>3. ManagerInv => (part = "licenses" =>
                       Managed!SameLicenseForAll /\ Managed!RemoteIsItsOwn /\ Managed!HoldsUntilExpires)
  BY VerdictsAreTrue
<1> QED BY <1>1, <1>2, <1>3, PTL DEF ServerSideSpec, VerdictsHold, Managed!RevokedPermitsNothing

-----------------------------------------------------------------------------
\* Remainders.
LEMMA Remainder ==
  ASSUME NEW a \in Int, NEW m \in Nat \ {0}
  PROVE  /\ a % m \in 0 .. m - 1 /\ a \div m \in Int /\ a = m * (a \div m) + (a % m)
OBVIOUS

\* No multiple of m but zero lies between -m and m.
LEMMA NoMultipleBetween ==
  ASSUME NEW m \in Nat \ {0}, NEW d \in Int, m * d < m, -m < m * d
  PROVE  d = 0
<1>1. CASE d >= 1
  <2>1. m * (d - 1) >= 0
    BY <1>1
  <2>2. m * (d - 1) = m * d - m
    OBVIOUS
  <2> QED BY <2>1, <2>2
<1>2. CASE d <= -1
  <2>1. m * (-1 - d) >= 0
    BY <1>2
  <2>2. m * (-1 - d) = -m - m * d
    OBVIOUS
  <2> QED BY <2>1, <2>2
<1> QED BY <1>1, <1>2

\* The remainder is the number below m that is left.
LEMMA RemainderIs ==
  ASSUME NEW m \in Nat \ {0}, NEW q \in Int, NEW r \in 0 .. m - 1
  PROVE  (m * q + r) % m = r
<1> DEFINE a == m * q + r
<1>1. a \in Int /\ m * q \in Int
  OBVIOUS
<1>2. a % m \in 0 .. m - 1 /\ a \div m \in Int /\ a = m * (a \div m) + (a % m)
  BY <1>1, Remainder
<1> DEFINE d == q - a \div m
<1>3. d \in Int /\ m * d = m * q - m * (a \div m)
  BY <1>2
<1>4. m * d = (a % m) - r
  BY <1>1, <1>2, <1>3
<1>5. d = 0
  <2>1. m * d < m /\ -m < m * d
    BY <1>2, <1>4
  <2> HIDE DEF d
  <2> QED BY <1>3, <2>1, NoMultipleBetween
<1>6. m * d = 0
  BY <1>5
<1> QED BY <1>2, <1>4, <1>6

\* A factor may be replaced by its remainder.
LEMMA RemainderOfProduct ==
  ASSUME NEW a \in Int, NEW b \in Int, NEW m \in Nat \ {0}
  PROVE  ((a % m) * b) % m = (a * b) % m
<1> DEFINE r == a % m
           q == a \div m
           s == r * b
           t == s % m
           p == s \div m
<1>1. r \in Int /\ q \in Int /\ a = m * q + r
  BY Remainder
<1>2. s \in Int
  BY <1>1
<1> HIDE DEF r, q, s
<1>3. t \in 0 .. m - 1 /\ p \in Int /\ s = m * p + t
  BY <1>2, Remainder
<1> HIDE DEF t, p
<1>4. a * b = m * (q * b + p) + t
  <2>1. a * b = (m * q) * b + s
    BY <1>1 DEF s
  <2>2. (m * q) * b = m * (q * b)
    BY <1>1
  <2>3. m * (q * b + p) = m * (q * b) + m * p
    BY <1>1, <1>3
  <2>4. m * (q * b) \in Int /\ m * p \in Int /\ t \in Int
    BY <1>1, <1>3
  <2> QED BY <1>2, <1>3, <2>1, <2>2, <2>3, <2>4
<1>5. q * b + p \in Int
  BY <1>1, <1>3
<1>6. (a * b) % m = t
  BY <1>3, <1>4, <1>5, RemainderIs
<1> QED BY <1>6 DEF t, s, r

-----------------------------------------------------------------------------
\* The powers of b modulo m up to the n-th.
ArePowers(g, n, b, m) ==
  /\ g \in [0 .. n -> 0 .. m - 1] /\ g[0] = 1 % m
  /\ \A i \in 1 .. n : g[i] = (g[i - 1] * b) % m

\* The powers up to any exponent exist.
LEMMA PowersExistUpTo ==
  ASSUME NEW b \in Int, NEW m \in Nat \ {0}, NEW n \in Nat
  PROVE  \E g : ArePowers(g, n, b, m)
<1> DEFINE S == 0 .. m - 1
           step == [i \in 1 .. n |-> [x \in S |-> (x * b) % m]]
<1>1. step \in [1 .. n -> [S -> S]]
  <2>1. \A x \in S : x * b \in Int /\ (x * b) % m \in S
    BY Remainder
  <2> HIDE DEF S
  <2> QED BY <2>1
<1>2. 1 % m \in S
  BY Remainder
<1>3. PICK g : IsStepByStep(g, n, S, 1 % m, step)
  <2> HIDE DEF S, step
  <2> QED BY <1>1, <1>2, StepByStep
<1>4. ArePowers(g, n, b, m)
  <2>1. g \in [0 .. n -> S] /\ g[0] = 1 % m
    BY <1>3 DEF IsStepByStep
  <2>2. ASSUME NEW i \in 1 .. n
        PROVE  g[i] = (g[i - 1] * b) % m
    <3>1. g[i - 1] \in S
      <4>1. i - 1 \in 0 .. n
        OBVIOUS
      <4> HIDE DEF S
      <4> QED BY <2>1, <4>1
    <3>2. g[i] = step[i][g[i - 1]]
      <4> HIDE DEF S, step
      <4> QED BY <1>3 DEF IsStepByStep
    <3> HIDE DEF S
    <3> QED BY <3>1, <3>2
  <2> QED BY <2>1, <2>2 DEF ArePowers
<1> QED BY <1>4

\* Powers do not depend on how far they are computed.
LEMMA PowersAgree ==
  ASSUME NEW b \in Int, NEW m \in Nat \ {0}, NEW n \in Nat, NEW k \in Nat, n <= k,
         NEW g, NEW h, ArePowers(g, n, b, m), ArePowers(h, k, b, m)
  PROVE  \A i \in 0 .. n : g[i] = h[i]
<1> DEFINE S == {i \in 0 .. n : g[i] = h[i]}
<1>1. 0 \in S
  BY DEF ArePowers
<1>2. ASSUME NEW i \in 0 .. n - 1, i \in S
      PROVE  i + 1 \in S
  <2>1. i + 1 \in 1 .. n /\ i + 1 \in 1 .. k /\ (i + 1) - 1 = i
    OBVIOUS
  <2> QED BY <1>2, <2>1 DEF ArePowers
<1> HIDE DEF S
<1>3. \A i \in 0 .. n : i \in S
  BY <1>1, <1>2, InductionUpTo
<1> QED BY <1>3 DEF S

\* The powers of the model are those that go on for every exponent.
LEMMA PowersGoOn ==
  ASSUME NEW b \in Int, NEW m \in Nat \ {0}
  PROVE  /\ Text!Powers(b, m) \in [Nat -> 0 .. m - 1]
         /\ Text!Powers(b, m)[0] = 1 % m
         /\ \A n \in Nat : Text!Powers(b, m)[n + 1] = (Text!Powers(b, m)[n] * b) % m
<1> DEFINE G(n) == CHOOSE g : ArePowers(g, n, b, m)
           f == [n \in Nat |-> G(n)[n]]
           Recurs(p) == p = [n \in Nat |-> IF n = 0 THEN 1 % m ELSE (p[n - 1] * b) % m]
<1>1. \A n \in Nat : ArePowers(G(n), n, b, m)
  BY PowersExistUpTo
<1> HIDE DEF G
<1>2. \A n \in Nat : f[n] = G(n)[n] /\ f[n] \in 0 .. m - 1
  <2>1. ASSUME NEW n \in Nat
        PROVE  G(n)[n] \in 0 .. m - 1
    <3>1. n \in 0 .. n
      OBVIOUS
    <3>2. G(n) \in [0 .. n -> 0 .. m - 1]
      BY <1>1 DEF ArePowers
    <3> QED BY <3>1, <3>2
  <2> QED BY <2>1
<1>3. f[0] = 1 % m
  BY <1>1, <1>2 DEF ArePowers
<1>4. ASSUME NEW n \in Nat
      PROVE  f[n + 1] = (f[n] * b) % m
  <2>1. n + 1 \in 1 .. n + 1 /\ (n + 1) - 1 = n /\ n + 1 \in Nat
    OBVIOUS
  <2>2. ArePowers(G(n), n, b, m) /\ ArePowers(G(n + 1), n + 1, b, m)
    BY <1>1, <2>1
  <2>3. G(n + 1)[n + 1] = (G(n + 1)[n] * b) % m
    BY <2>1, <2>2 DEF ArePowers
  <2>4. G(n)[n] = G(n + 1)[n]
    <3>1. \A i \in 0 .. n : G(n)[i] = G(n + 1)[i]
      BY <2>1, <2>2, PowersAgree
    <3> QED BY <3>1
  <2>5. f[n] = G(n)[n] /\ f[n + 1] = G(n + 1)[n + 1]
    BY <1>2, <2>1
  <2> HIDE DEF f
  <2> QED BY <2>3, <2>4, <2>5
<1>5. Recurs(f)
  <2>1. ASSUME NEW n \in Nat
        PROVE  f[n] = IF n = 0 THEN 1 % m ELSE (f[n - 1] * b) % m
    <3>1. CASE n = 0
      BY <1>3, <3>1
    <3>2. CASE n # 0
      <4>1. n - 1 \in Nat /\ (n - 1) + 1 = n
        BY <3>2
      <4>2. f[(n - 1) + 1] = (f[n - 1] * b) % m
        BY <1>4, <4>1
      <4> HIDE DEF f
      <4> QED BY <3>2, <4>1, <4>2
    <3> QED BY <3>1, <3>2
  <2>2. f = [n \in Nat |-> f[n]]
    OBVIOUS
  <2> HIDE DEF f
  <2> QED BY <2>1, <2>2
<1> DEFINE P == Text!Powers(b, m)
<1>6. P = CHOOSE p : Recurs(p)
  BY DEF Text!Powers
<1>7. Recurs(P)
  <2> HIDE DEF f, Recurs, P
  <2> QED BY <1>5, <1>6
<1>8. P[0] = 1 % m /\ \A n \in Nat : P[n + 1] = (P[n] * b) % m
  <2>1. \A n \in Nat : P[n] = IF n = 0 THEN 1 % m ELSE (P[n - 1] * b) % m
    <3> HIDE DEF P
    <3> QED BY <1>7
  <2>2. \A n \in Nat : n + 1 \in Nat /\ n + 1 # 0 /\ (n + 1) - 1 = n
    OBVIOUS
  <2> HIDE DEF P
  <2> QED BY <2>1, <2>2
<1>9. P \in [Nat -> 0 .. m - 1]
  <2> DEFINE S == {n \in Nat : P[n] \in 0 .. m - 1}
  <2>1. 0 \in S
    <3>1. 1 % m \in 0 .. m - 1
      BY Remainder
    <3>2. P[0] \in 0 .. m - 1 /\ 0 \in Nat
      BY <1>8, <3>1, Zenon
    <3> HIDE DEF P
    <3> QED BY <3>2
  <2>2. ASSUME NEW n \in Nat, n \in S
        PROVE  n + 1 \in S
    <3>1. P[n] * b \in Int /\ P[n + 1] = (P[n] * b) % m
      BY <1>8, <2>2
    <3>2. (P[n] * b) % m \in 0 .. m - 1
      BY <3>1, Remainder
    <3> QED BY <3>1, <3>2
  <2> HIDE DEF S
  <2>3. ASSUME NEW n \in Nat
        PROVE  n \in S
    <3>1. \A i \in 0 .. n - 1 : i \in S => i + 1 \in S
      BY <2>2
    <3>2. \A i \in 0 .. n : i \in S
      BY <2>1, <3>1, InductionUpTo
    <3> QED BY <3>2
  <2>4. P = [n \in Nat |-> P[n]]
    <3> HIDE DEF P
    <3> QED BY <1>7
  <2> HIDE DEF P
  <2> QED BY <2>3, <2>4 DEF S
<1> QED BY <1>8, <1>9

\* The powers of a square are every second power.
LEMMA PowersOfSquare ==
  ASSUME NEW b \in Int, NEW m \in Nat \ {0}
  PROVE  \A e \in Nat : Text!Powers((b * b) % m, m)[e] = Text!Powers(b, m)[2 * e]
<1> DEFINE c == (b * b) % m
           P == Text!Powers(b, m)
           Q == Text!Powers(c, m)
           S == {e \in Nat : Q[e] = P[2 * e]}
<1>1. c \in Int
  <2>1. b * b \in Int
    OBVIOUS
  <2> QED BY <2>1, Remainder
<1>2. /\ P \in [Nat -> 0 .. m - 1] /\ P[0] = 1 % m /\ \A n \in Nat : P[n + 1] = (P[n] * b) % m
      /\ Q \in [Nat -> 0 .. m - 1] /\ Q[0] = 1 % m /\ \A n \in Nat : Q[n + 1] = (Q[n] * c) % m
  BY <1>1, PowersGoOn
<1> HIDE DEF P, Q
<1>3. 0 \in S
  <2>1. 2 * 0 = 0
    OBVIOUS
  <2>2. Q[0] = P[2 * 0] /\ 0 \in Nat
    BY <1>2, <2>1
  <2> QED BY <2>2, Zenon
<1>4. ASSUME NEW e \in Nat, e \in S
      PROVE  e + 1 \in S
  <2> DEFINE x == P[2 * e]
  <2>1. 2 * e \in Nat /\ 2 * e + 1 \in Nat /\ 2 * (e + 1) = (2 * e + 1) + 1
    OBVIOUS
  <2>2. x \in Int /\ Q[e] = x
    BY <1>2, <1>4, <2>1
  <2>3. Q[e + 1] = (x * c) % m
    BY <1>2, <2>2
  <2>4. P[2 * e + 1] = (x * b) % m /\ P[(2 * e + 1) + 1] = (P[2 * e + 1] * b) % m
    BY <1>2, <2>1
  <2> HIDE DEF x
  <2>5. (((x * b) % m) * b) % m = ((x * b) * b) % m
    <3>1. x * b \in Int
      BY <2>2
    <3> QED BY <3>1, RemainderOfProduct
  <2>6. (x * c) % m = (x * (b * b)) % m
    <3>1. b * b \in Int
      OBVIOUS
    <3>2. (c * x) % m = ((b * b) * x) % m
      BY <2>2, <3>1, RemainderOfProduct
    <3>3. c * x = x * c /\ (b * b) * x = x * (b * b)
      BY <1>1, <2>2, <3>1
    <3> HIDE DEF c
    <3> QED BY <3>2, <3>3
  <2>7. (x * b) * b = x * (b * b)
    BY <2>2
  <2>8. Q[e + 1] = P[2 * (e + 1)]
    <3> HIDE DEF c
    <3> QED BY <2>1, <2>3, <2>4, <2>5, <2>6, <2>7
  <2> QED BY <2>8
<1> HIDE DEF S
<1>5. ASSUME NEW n \in Nat
      PROVE  n \in S
  <2>1. \A i \in 0 .. n - 1 : i \in S => i + 1 \in S
    BY <1>4
  <2>2. \A i \in 0 .. n : i \in S
    BY <1>3, <2>1, InductionUpTo
  <2> QED BY <2>2
<1> QED BY <1>5 DEF S, P, Q

\* One round of powm leaves the power that is wanted as it is.
LEMMA RoundIsExact ==
  ASSUME NEW m \in Nat \ {0}, NEW r \in Int, NEW b \in Int, NEW e \in Nat \ {0}
  PROVE  /\ e \div 2 \in Nat
         /\ ((IF e % 2 = 1 THEN (r * b) % m ELSE r) * Text!Powers((b * b) % m, m)[e \div 2]) % m
              = (r * Text!Powers(b, m)[e]) % m
<1> DEFINE P == Text!Powers(b, m)
           h == e \div 2
<1>1. h \in Nat /\ (e = 2 * h \/ e = 2 * h + 1) /\ (e % 2 = 1 <=> e = 2 * h + 1)
  OBVIOUS
<1> HIDE DEF h
<1>2. Text!Powers((b * b) % m, m)[h] = P[2 * h]
  BY <1>1, PowersOfSquare
<1>3. P \in [Nat -> 0 .. m - 1] /\ \A n \in Nat : P[n + 1] = (P[n] * b) % m
  BY PowersGoOn
<1> HIDE DEF P
<1> DEFINE x == P[2 * h]
<1>4. x \in Int /\ 2 * h \in Nat
  <2>1. 2 * h \in Nat
    BY <1>1
  <2> QED BY <1>3, <2>1
<1>5. CASE e = 2 * h
  BY <1>1, <1>2, <1>5 DEF h, P
<1>6. CASE e = 2 * h + 1
  <2>1. P[e] = (x * b) % m
    BY <1>3, <1>4, <1>6
  <2> HIDE DEF x
  <2>2. (((r * b) % m) * x) % m = ((r * b) * x) % m
    <3>1. r * b \in Int
      OBVIOUS
    <3> QED BY <1>4, <3>1, RemainderOfProduct
  <2>3. (((x * b) % m) * r) % m = ((x * b) * r) % m
    <3>1. x * b \in Int
      BY <1>4
    <3> QED BY <3>1, RemainderOfProduct
  <2>4. ((x * b) % m) * r = r * ((x * b) % m)
    <3>1. (x * b) % m \in Int
      <4>1. x * b \in Int
        BY <1>4
      <4> QED BY <4>1, Remainder
    <3> QED BY <3>1
  <2>5. (x * b) * r = (r * b) * x
    <3>1. (x * b) * r = x * (b * r) /\ b * r = r * b
      BY <1>4
    <3>2. r * b \in Int
      OBVIOUS
    <3>3. x * (r * b) = (r * b) * x
      BY <1>4, <3>2
    <3> QED BY <3>1, <3>3
  <2>6. (((r * b) % m) * x) % m = (r * P[e]) % m
    BY <2>1, <2>2, <2>3, <2>4, <2>5
  <2>7. (IF e % 2 = 1 THEN (r * b) % m ELSE r) = (r * b) % m
    BY <1>1, <1>6
  <2> QED BY <1>1, <1>2, <2>6, <2>7 DEF h, P, x
<1> QED BY <1>1, <1>5, <1>6

\* A remainder is its own.
LEMMA SmallRemainder ==
  ASSUME NEW m \in Nat \ {0}, NEW r \in 0 .. m - 1
  PROVE  r % m = r
<1>1. (m * 0 + r) % m = r
  BY RemainderIs
<1>2. m * 0 + r = r
  OBVIOUS
<1> QED BY <1>1, <1>2
-----------------------------------------------------------------------------
\* What texts and keys are made of.
LEMMA TextsAreWell ==
  /\ Byte \in Nat \ {0, 1}
  /\ \A x \in Licenses : x.signature \in Nat /\ x.lines \in Seq([key : STRING, value : STRING])
  /\ \A ring \in KeyRings : ring \in Seq([modulus : Nat \ {0, 1}, exponent : Nat])
BY PartsAssumption DEF Text!ByteAssumption

WantedPower == Text!Powers(license.signature, Text!Modulus)[keys[key].exponent]

TextInv ==
  /\ license \in Licenses /\ keys \in KeyRings
  /\ key \in 1 .. Len(keys) + 1
  /\ reading \in {"segments", "key", "power", "parse", "accepted", "error", "panicked"}
  /\ base \in Nat /\ exp \in Nat /\ power \in Nat
  /\ reading = "power" =>
       key \in 1 .. Len(keys) /\ base < Text!Modulus /\ power < Text!Modulus
  /\ Text!PowmIsExact
  /\ Text!OnlySignedAreRead
  /\ reading = "accepted" => Text!IsComplete

\* The invariant of reading a license holds at first.
LEMMA TextInvAtFirst ==
  ASSUME license \in Licenses, keys \in KeyRings, Text!Init
  PROVE  TextInv
<1>1. reading = "segments" /\ key = 1 /\ base = 0 /\ exp = 0 /\ power = 1
  BY DEF Text!Init
<1>2. Len(keys) \in Nat
  BY TextsAreWell
<1> QED BY <1>1, <1>2 DEF TextInv, Text!PowmIsExact, Text!OnlySignedAreRead

\* What the key at hand is.
LEMMA KeyAtHand ==
  ASSUME keys \in KeyRings, key \in 1 .. Len(keys)
  PROVE  Text!Modulus \in Nat \ {0, 1} /\ keys[key].exponent \in Nat /\ Len(keys) \in Nat /\ key \in DOMAIN keys
<1> DEFINE K == [modulus : Nat \ {0, 1}, exponent : Nat]
<1>1. keys \in Seq(K)
  BY TextsAreWell
<1>2. Len(keys) \in Nat /\ DOMAIN keys = 1 .. Len(keys)
      /\ \A i \in 1 .. Len(keys) : keys[i] \in K
  <2> HIDE DEF K
  <2> QED BY <1>1
<1>3. keys[key] \in K /\ key \in DOMAIN keys
  BY <1>2
<1> QED BY <1>2, <1>3 DEF Text!Modulus

\* The first key is multiplied from one, and the wanted power is what is left.
LEMMA TryKeyStep ==
  ASSUME TextInv, Text!TryKey
  PROVE  TextInv'
<1>1. license' = license /\ keys' = keys /\ key' = key /\ reading = "key" /\ Len(keys) \in Nat
  BY TextsAreWell DEF Text!TryKey, Text!End, TextInv
<1>2. CASE key > Len(keys) \/ license.signature >= Text!Modulus
  <2>1. reading' = "error" /\ base' = base /\ exp' = exp /\ power' = power
    BY <1>2 DEF Text!TryKey, Text!End
  <2> QED BY <1>1, <2>1 DEF TextInv, Text!PowmIsExact, Text!OnlySignedAreRead
<1>3. CASE ~(key > Len(keys) \/ license.signature >= Text!Modulus)
  <2> DEFINE m == Text!Modulus
             s == license.signature
             e == keys[key].exponent
             P == Text!Powers(s, m)
  <2>1. key \in 1 .. Len(keys) /\ s \in Nat /\ license \in Licenses /\ keys \in KeyRings
    BY <1>1, <1>3, TextsAreWell DEF TextInv
  <2>2. m \in Nat \ {0, 1} /\ e \in Nat
    BY <2>1, KeyAtHand
  <2>3. s \in 0 .. m - 1
    <3> HIDE DEF m
    <3>1. ~(s >= m)
      BY <1>3 DEF m
    <3> QED BY <2>1, <2>2, <3>1
  <2>4. reading' = "power" /\ base' = s % m /\ exp' = e /\ power' = 1
    BY <1>3 DEF Text!TryKey
  <2>5. m' = m /\ s' = s /\ e' = e
    BY <1>1 DEF Text!Modulus
  <2>5a. (Text!Powers(license.signature, Text!Modulus)[keys[key].exponent])' = P[e]
    BY <1>1 DEF Text!Modulus, Text!Powers
  <2>5b. (Text!Powers(base, Text!Modulus)[exp])' = Text!Powers(s % m, m)[e]
    BY <1>1, <2>4 DEF Text!Modulus, Text!Powers
  <2> HIDE DEF m, s, e
  <2>6. s % m = s
    BY <2>2, <2>3, SmallRemainder
  <2>7. P \in [Nat -> 0 .. m - 1]
    BY <2>2, <2>3, PowersGoOn
  <2> HIDE DEF P
  <2>8. P[e] \in 0 .. m - 1
    BY <2>2, <2>7
  <2>9. (1 * P[e]) % m = P[e]
    <3>1. 1 * P[e] = P[e]
      BY <2>8
    <3> QED BY <2>2, <2>8, <3>1, SmallRemainder
  <2>10. Text!PowmIsExact'
    <3>1. (power * Text!Powers(base, Text!Modulus)[exp])' = 1 * P[e]
      BY <2>4, <2>5b, <2>6 DEF P
    <3>2. Text!Modulus' = m
      BY <2>5 DEF m
    <3> QED BY <2>5a, <2>9, <3>1, <3>2 DEF Text!PowmIsExact
  <2>11. base' \in Nat /\ exp' \in Nat /\ power' \in Nat /\ base' < m /\ power' < m
    BY <2>2, <2>3, <2>4, <2>6
  <2>12. Text!OnlySignedAreRead'
    BY <2>4 DEF Text!OnlySignedAreRead
  <2> QED BY <1>1, <2>1, <2>4, <2>5, <2>10, <2>11, <2>12 DEF TextInv, m
<1> QED BY <1>2, <1>3

\* A round of powm keeps the power that is wanted (parsing.rs:275-291).
LEMMA PowerStep ==
  ASSUME TextInv, Text!Power
  PROVE  TextInv'
<1> DEFINE m == Text!Modulus
<1>1. /\ license' = license /\ keys' = keys /\ key' = key /\ reading = "power" /\ reading' = reading
      /\ exp > 0 /\ exp' = exp \div 2 /\ base' = (base * base) % m
      /\ power' = IF exp % 2 = 1 THEN (power * base) % m ELSE power
  BY DEF Text!Power, Text!Multiplied
<1>2. key \in 1 .. Len(keys) /\ license \in Licenses /\ keys \in KeyRings
      /\ base \in Nat /\ exp \in Nat \ {0} /\ power \in Nat /\ base < m /\ power < m
  BY <1>1 DEF TextInv
<1>3. m \in Nat \ {0, 1} /\ m' = m
  BY <1>1, <1>2, KeyAtHand DEF Text!Modulus
<1>4. base' \in 0 .. m - 1
  <2>1. base * base \in Int
    BY <1>2
  <2> HIDE DEF m
  <2> QED BY <1>1, <1>3, <2>1, Remainder
<1>5. power' \in 0 .. m - 1
  <2>1. power * base \in Int
    BY <1>2
  <2> HIDE DEF m
  <2>2. (power * base) % m \in 0 .. m - 1
    BY <1>3, <2>1, Remainder
  <2> QED BY <1>1, <1>2, <1>3, <2>2
<1>6. exp' \in Nat /\ (power' * Text!Powers(base', m)[exp']) % m = (power * Text!Powers(base, m)[exp]) % m
  <2>1. m \in Nat \ {0} /\ power \in Int /\ base \in Int /\ exp \in Nat \ {0}
    BY <1>2, <1>3
  <2> HIDE DEF m
  <2>2. /\ exp \div 2 \in Nat
        /\ ((IF exp % 2 = 1 THEN (power * base) % m ELSE power) * Text!Powers((base * base) % m, m)[exp \div 2]) % m
             = (power * Text!Powers(base, m)[exp]) % m
    BY <2>1, RoundIsExact
  <2>3. exp' = exp \div 2 /\ base' = (base * base) % m
        /\ power' = IF exp % 2 = 1 THEN (power * base) % m ELSE power
    BY <1>1
  <2> QED BY <2>2, <2>3, Zenon
<1>7. Text!PowmIsExact'
  <2>1. (power * Text!Powers(base, m)[exp]) % m = Text!Powers(license.signature, m)[keys[key].exponent]
    BY <1>1 DEF TextInv, Text!PowmIsExact
  <2>2. (Text!Powers(base, Text!Modulus)[exp])' = Text!Powers(base', m)[exp']
    BY <1>1, <1>3 DEF Text!Powers
  <2>3. (Text!Powers(license.signature, Text!Modulus)[keys[key].exponent])' = Text!Powers(license.signature, m)[keys[key].exponent]
    BY <1>1, <1>3 DEF Text!Powers
  <2> QED BY <1>3, <1>6, <2>1, <2>2, <2>3 DEF Text!PowmIsExact
<1>8. Text!OnlySignedAreRead'
  BY <1>1 DEF Text!OnlySignedAreRead
<1>9. base' < m' /\ power' < m' /\ base' \in Nat /\ power' \in Nat
  <2> HIDE DEF m
  <2> QED BY <1>3, <1>4, <1>5
<1>10. key' \in 1 .. Len(keys') + 1 /\ key' \in 1 .. Len(keys')
  <2>1. key \in 1 .. Len(keys) + 1
    BY DEF TextInv
  <2> QED BY <1>1, <1>2, <2>1
<1> QED BY <1>1, <1>2, <1>6, <1>7, <1>8, <1>9, <1>10 DEF TextInv

\* Comparing with the padded digest keeps the invariant.
LEMMA CompareStep ==
  ASSUME TextInv, Text!Compare
  PROVE  TextInv'
<1> DEFINE m == Text!Modulus
           W == Text!Powers(license.signature, m)[keys[key].exponent]
<1>1. /\ license' = license /\ keys' = keys /\ reading = "power" /\ exp = 0
      /\ base' = base /\ exp' = exp /\ power' = power
  BY DEF Text!Compare
<1>2. key \in 1 .. Len(keys) /\ license \in Licenses /\ keys \in KeyRings
      /\ base \in Nat /\ exp \in Nat /\ power \in Nat /\ base < m /\ power < m
  BY <1>1 DEF TextInv
<1>3. m \in Nat \ {0, 1} /\ Len(keys) \in Nat /\ key \in DOMAIN keys
  BY <1>2, KeyAtHand
<1>4. power = W
  <2>1. (power * Text!Powers(base, m)[0]) % m = W
    BY <1>1 DEF TextInv, Text!PowmIsExact
  <2> HIDE DEF m
  <2>2. Text!Powers(base, m)[0] = 1
    <3>1. Text!Powers(base, m)[0] = 1 % m
      BY <1>2, <1>3, PowersGoOn
    <3>2. 1 % m = 1
      BY <1>3, SmallRemainder
    <3> QED BY <3>1, <3>2
  <2>3. (power * 1) % m = power
    <3>1. power * 1 = power /\ power \in 0 .. m - 1
      BY <1>2, <1>3
    <3> QED BY <1>3, <3>1, SmallRemainder
  <2> QED BY <2>1, <2>2, <2>3
<1>5. CASE Text!Unpadded(Text!Bytes[power]) = Text!Digest
  <2>1. reading' = "parse" /\ key' = key
    BY <1>5 DEF Text!Compare
  <2>2. Text!Opens(keys[key])
    BY <1>4, <1>5 DEF Text!Opens, Text!Unpadded, Text!Modulus
  <2>3. Text!OnlySignedAreRead'
    BY <1>1, <1>3, <2>2 DEF Text!OnlySignedAreRead, Text!Opens, Text!Digest
  <2> QED BY <1>1, <1>2, <1>3, <2>1, <2>3 DEF TextInv, Text!PowmIsExact
<1>6. CASE ~(Text!Unpadded(Text!Bytes[power]) = Text!Digest)
  <2>1. reading' = "key" /\ key' = key + 1
    BY <1>6 DEF Text!Compare
  <2>2. key' \in 1 .. Len(keys') + 1
    BY <1>1, <1>2, <1>3, <2>1
  <2> QED BY <1>1, <1>2, <2>1, <2>2 DEF TextInv, Text!PowmIsExact, Text!OnlySignedAreRead
<1> QED BY <1>5, <1>6

\* What is read of a license is in its lines.
Stated(ls, k) ==
  LET at == {i \in DOMAIN ls : ls[i].key = k} IN
  IF at = {} THEN {} ELSE {ls[CHOOSE i \in at : \A j \in at : i >= j].value}

Completed(ls) ==
  /\ (IF Stated(ls, "id") # {} THEN Stated(ls, "id") ELSE Stated(ls, "domain")) # {}
  /\ Stated(ls, "kind") = {"id"} => Stated(ls, "secret") \notin {{}, {"blank"}}
  /\ \A k \in {"issued", "expires", "subscriptionexpirationdate"} : Stated(ls, k) \subseteq {"date"}

\* Whether a license is complete depends on its lines only.
LEMMA CompleteByItsLines ==
  /\ Text!IsComplete <=> Completed(license.lines)
  /\ license' = license => (Text!IsComplete' <=> Text!IsComplete)
<1>1. Text!IsComplete <=> Completed(license.lines)
  BY DEF Completed, Stated, Text!IsComplete, Text!Id, Text!IsRemotePlaceholder, Text!Get
<1>2. Text!IsComplete' <=> Completed(license.lines)'
  BY DEF Completed, Stated, Text!IsComplete, Text!Id, Text!IsRemotePlaceholder, Text!Get
<1>3. Completed(license.lines)' <=> Completed(license'.lines)
  BY DEF Completed, Stated
<1> QED BY <1>1, <1>2, <1>3

\* Every step keeps the invariant.
LEMMA TextStepStays ==
  ASSUME TextInv, Text!Next \/ UNCHANGED textVars
  PROVE  TextInv'
<1>1. CASE UNCHANGED textVars
  <2>1. Text!IsComplete' <=> Text!IsComplete
    BY <1>1, CompleteByItsLines DEF textVars
  <2>2. Text!PowmIsExact'
    BY <1>1 DEF textVars, TextInv, Text!PowmIsExact, Text!Modulus, Text!Powers
  <2>3. Text!OnlySignedAreRead'
    BY <1>1 DEF textVars, TextInv, Text!OnlySignedAreRead, Text!Opens, Text!Digest
  <2>4. Text!Modulus' = Text!Modulus
    BY <1>1 DEF textVars, Text!Modulus
  <2> QED BY <1>1, <2>1, <2>2, <2>3, <2>4 DEF textVars, TextInv
<1>2. CASE Text!Split
  <2>1. UNCHANGED <<license, keys, key, base, exp, power>> /\ reading' \in {"error", "key"}
    BY <1>2 DEF Text!Split, Text!End
  <2> QED BY <2>1 DEF TextInv, Text!PowmIsExact, Text!OnlySignedAreRead
<1>3. CASE Text!Parse
  <2>1. UNCHANGED <<license, keys, key, base, exp, power>> /\ reading = "parse"
        /\ reading' = IF Text!IsComplete THEN "accepted" ELSE "panicked"
    BY <1>3 DEF Text!Parse, Text!End
  <2>2. Text!OnlySignedAreRead'
    BY <2>1 DEF TextInv, Text!OnlySignedAreRead, Text!Opens, Text!Digest
  <2>3. Text!PowmIsExact'
    BY <2>1 DEF Text!PowmIsExact
  <2>4. reading' = "accepted" => Text!IsComplete'
    BY <2>1, CompleteByItsLines
  <2> QED BY <2>1, <2>2, <2>3, <2>4 DEF TextInv
<1> QED BY <1>1, <1>2, <1>3, TryKeyStep, PowerStep, CompareStep DEF Text!Next

-----------------------------------------------------------------------------
\* A line that counts is the last one of its key.
LEMMA LastLine ==
  ASSUME NEW ls, NEW n \in Nat, DOMAIN ls = 1 .. n, NEW k, Stated(ls, k) # {}
  PROVE  \E i \in 1 .. n : /\ ls[i].key = k /\ Stated(ls, k) = {ls[i].value}
                           /\ \A j \in 1 .. n : ls[j].key = k => j <= i
<1> DEFINE at == {i \in 1 .. n : ls[i].key = k}
           top == CHOOSE i \in at : \A j \in at : i >= j
<1>1. at # {} /\ Stated(ls, k) = {ls[top].value}
  BY DEF Stated
<1>2. \E i \in at : \A j \in at : i >= j
  <2> DEFINE below == {n - i : i \in at}
  <2>1. below \in SUBSET Nat /\ below # {}
    BY <1>1
  <2>2. PICK x \in below : \A y \in below : x <= y
    <3> HIDE DEF below
    <3> QED BY <2>1, LeastNumber
  <2>3. PICK i \in at : x = n - i
    OBVIOUS
  <2>4. ASSUME NEW j \in at
        PROVE  i >= j
    <3>1. n - j \in below
      OBVIOUS
    <3>2. n - i <= n - j
      BY <2>2, <2>3, <3>1
    <3> QED BY <3>2
  <2> QED BY <2>4
<1>3. top \in at /\ \A j \in at : top >= j
  <2> HIDE DEF at
  <2> QED BY <1>2
<1>4. top \in 1 .. n /\ ls[top].key = k /\ \A j \in 1 .. n : ls[j].key = k => j <= top
  <2> HIDE DEF top
  <2> QED BY <1>3
<1> HIDE DEF top
<1> QED BY <1>1, <1>4

\* Of a line that comes last in its key, it is the value that is stated.
LEMMA FinalIsStated ==
  ASSUME NEW ls, NEW n \in Nat, DOMAIN ls = 1 .. n, NEW k,
         NEW i \in 1 .. n, ls[i].key = k, \A j \in (i + 1) .. n : ls[j].key # k
  PROVE  Stated(ls, k) = {ls[i].value}
<1>1. Stated(ls, k) # {}
  BY DEF Stated
<1>2. PICK t \in 1 .. n : /\ ls[t].key = k /\ Stated(ls, k) = {ls[t].value}
                          /\ \A j \in 1 .. n : ls[j].key = k => j <= t
  BY <1>1, LastLine
<1>3. i <= t
  BY <1>2
<1>4. ~(t \in (i + 1) .. n)
  BY <1>2
<1>5. t = i
  BY <1>3, <1>4
<1> QED BY <1>2, <1>5

\* What is accepted is complete.
LEMMA CompleteIsSo ==
  ASSUME TextInv
  PROVE  Text!AcceptedAreComplete
<1> DEFINE ls == license.lines
           n == Len(ls)
           Final(k) == {i \in DOMAIN ls : ls[i].key = k /\ \A j \in (i + 1)..Len(ls) : ls[j].key # k}
<1> SUFFICES ASSUME reading = "accepted"
             PROVE  /\ \E i \in DOMAIN ls : ls[i].key \in {"id", "domain"}
                    /\ (\E i \in Final("kind") : ls[i].value = "id") => \E i \in Final("secret") : ls[i].value # "blank"
  BY DEF Text!AcceptedAreComplete
<1>1. n \in Nat /\ DOMAIN ls = 1 .. n
  <2> DEFINE K == [key : STRING, value : STRING]
  <2>1. ls \in Seq(K)
    BY TextsAreWell DEF TextInv
  <2> HIDE DEF ls, K
  <2> QED BY <2>1 DEF n
<1>2. Completed(ls)
  BY CompleteByItsLines DEF TextInv
<1> HIDE DEF ls, n
<1>3. \E i \in DOMAIN ls : ls[i].key \in {"id", "domain"}
  <2>1. Stated(ls, "id") # {} \/ Stated(ls, "domain") # {}
    BY <1>2 DEF Completed
  <2>2. CASE Stated(ls, "id") # {}
    <3>1. PICK i \in 1 .. n : ls[i].key = "id"
      BY <1>1, <2>2, LastLine
    <3> QED BY <1>1, <3>1
  <2>3. CASE Stated(ls, "domain") # {}
    <3>1. PICK i \in 1 .. n : ls[i].key = "domain"
      BY <1>1, <2>3, LastLine
    <3> QED BY <1>1, <3>1
  <2> QED BY <2>1, <2>2, <2>3
<1>4. ASSUME NEW i \in Final("kind"), ls[i].value = "id"
      PROVE  \E t \in Final("secret") : ls[t].value # "blank"
  <2>1. i \in 1 .. n /\ ls[i].key = "kind" /\ \A j \in (i + 1) .. n : ls[j].key # "kind"
    BY <1>1 DEF n
  <2>2. Stated(ls, "kind") = {"id"}
    <3>1. Stated(ls, "kind") = {ls[i].value}
      BY <1>1, <2>1, FinalIsStated
    <3> QED BY <1>4, <3>1
  <2>3. Stated(ls, "secret") # {} /\ Stated(ls, "secret") # {"blank"}
    BY <1>2, <2>2 DEF Completed
  <2>4. PICK t \in 1 .. n : /\ ls[t].key = "secret" /\ Stated(ls, "secret") = {ls[t].value}
                            /\ \A j \in 1 .. n : ls[j].key = "secret" => j <= t
    BY <1>1, <2>3, LastLine
  <2>5. \A j \in (t + 1) .. n : ls[j].key # "secret"
    <3> SUFFICES ASSUME NEW j \in (t + 1) .. n, ls[j].key = "secret"
                 PROVE  FALSE
      OBVIOUS
    <3>1. j \in 1 .. n /\ ~(j <= t)
      BY <1>1
    <3> QED BY <2>4, <3>1
  <2>6. t \in Final("secret")
    BY <1>1, <2>4, <2>5 DEF n
  <2> QED BY <2>3, <2>4, <2>6
<1> QED BY <1>3, <1>4

\* The lines of a license are read only when a trusted key opens its signature; powm keeps in
\* every round the power that is wanted, for every key, signature and exponent; and of what
\* is accepted the last line of each key counts (parsing.rs:43-47, 208-221, 275-291).
THEOREM SignedOnesAreRead == ServerSideSpec => []OnlySignedAreRead
<1>1. ServerSideInit => TextInv
  <2>1. ServerSideInit => license \in Licenses /\ keys \in KeyRings /\ Text!Init
    BY DEF ServerSideInit, Text!Init
  <2> QED BY <2>1, TextInvAtFirst
<1>2. TextInv /\ [ServerSideNext]_serverVars => TextInv'
  <2>1. [ServerSideNext]_serverVars => Text!Next \/ UNCHANGED textVars
    BY DEF ServerSideNext, FolderStep, RequestStep, CacheStep, LicenseStep, TextStep, TextIsRead, serverVars
  <2> QED BY <2>1, TextStepStays
<1>3. TextInv => OnlySignedAreRead
  BY CompleteIsSo DEF TextInv, OnlySignedAreRead
<1> QED BY <1>1, <1>2, <1>3, PTL DEF ServerSideSpec

-----------------------------------------------------------------------------
\* The directories are always a tree.
DirsInv ==
  /\ dirs \subseteq AllDirs /\ marked \in BOOLEAN /\ confirmed \subseteq {"root", "meta"}
  /\ \A d \in dirs : WithParents(d) \subseteq dirs
  /\ harm \in 0 .. MaxHarm

\* Every step keeps the numbers of the directories.
LEMMA DirsStep ==
  ASSUME DirsInv, Inv, [Next]_vars
  PROVE  DirsInv'
<1>0. \A d, e : e \in WithParents(d) => WithParents(e) \subseteq WithParents(d)
  BY DEF WithParents
<1>1. ASSUME NEW d \in AllDirs, dirs' = dirs \cup Made(d)
      PROVE  dirs' \subseteq AllDirs /\ \A e \in dirs' : WithParents(e) \subseteq dirs'
  <2>1. Made(d) \subseteq AllDirs
    BY DEF Made, WithParents, AllDirs
  <2>2. ASSUME NEW e \in dirs'
        PROVE  WithParents(e) \subseteq dirs'
    <3>1. e \in dirs \/ e \in WithParents(d)
      BY <1>1 DEF Made
    <3> QED BY <1>0, <1>1, <3>1 DEF Made, DirsInv
  <2> QED BY <1>1, <2>1, <2>2 DEF DirsInv
<1>2. ASSUME NEW t \in Threads, Step(t)
      PROVE  dirs' = dirs \/ \E d \in AllDirs : dirs' = dirs \cup Made(d)
  <2>1. CASE EnsureLeaf(t)
    <3>1. pc[t] = "leaf"
      BY <2>1 DEF EnsureLeaf, Ensure
    <3>2. call[t].key \in Keys
      BY <3>1 DEF Inv, Called, Asked
    <3>3. Leaf[call[t].key] \in AllDirs
      BY <3>2 DEF AllDirs, Leaves
    <3> QED BY <2>1, <3>3 DEF EnsureLeaf, Ensure
  <2>2. CASE ~EnsureLeaf(t)
    <3>1. "root" \in AllDirs /\ "meta" \in AllDirs /\ "staging" \in AllDirs /\ "slot" \in AllDirs
      BY DEF AllDirs
    <3> QED BY <1>2, <2>2, <3>1
            DEF Step, Start, Read, EnsureRoot, EnsureMeta, Mark, EnsureStaging, EnsureSlot, Open, Fill, Rename, Ensure
  <2> QED BY <2>1, <2>2
<1>3. ASSUME NEW t \in Threads, Step(t)
      PROVE  DirsInv'
  <2>1. dirs' \subseteq AllDirs /\ \A e \in dirs' : WithParents(e) \subseteq dirs'
    BY <1>1, <1>2, <1>3 DEF DirsInv
  <2>2. marked' \in BOOLEAN /\ confirmed' \subseteq {"root", "meta"} /\ harm' = harm
    BY <1>3 DEF DirsInv, Step, Start, Read, EnsureRoot, EnsureMeta, Mark, EnsureLeaf, EnsureStaging, EnsureSlot,
                Open, Fill, Rename, Ensure, Files, Faults
  <2> QED BY <2>1, <2>2 DEF DirsInv
<1>4. Harm => harm' \in 0 .. MaxHarm
  BY DiskCacheAssumption DEF DirsInv, Harm
<1>5. ASSUME NEW t \in Threads, Fail(t)
      PROVE  DirsInv'
  BY <1>4, <1>5 DEF Fail, DirsInv
<1>6. CASE Delete
  <2>1. Harm /\ confirmed' = confirmed
    BY <1>6 DEF Delete
  <2>2. (dirs' = dirs /\ marked' = marked) \/ \E d \in dirs : dirs' = dirs \ Below(d) /\ marked' \in BOOLEAN
    BY <1>6 DEF Delete
  <2>3. ASSUME NEW d \in dirs, dirs' = dirs \ Below(d), NEW e \in dirs'
        PROVE  WithParents(e) \subseteq dirs'
    <3> SUFFICES ASSUME NEW p \in WithParents(e), p \in Below(d)
                 PROVE  FALSE
      BY <2>3 DEF DirsInv
    <3>1. d \in WithParents(p)
      BY DEF Below
    <3>2. d \in WithParents(e)
      BY <1>0, <3>1
    <3>3. e \in Below(d)
      BY <2>3, <3>2 DEF Below, DirsInv
    <3> QED BY <2>3, <3>3
  <2> QED BY <1>4, <2>1, <2>2, <2>3 DEF DirsInv
<1>7. CASE Restart
  BY <1>4, <1>7 DEF Restart, DirsInv
<1>8. CASE UNCHANGED vars
  BY <1>8 DEF vars, DirsInv
<1> QED BY <1>3, <1>5, <1>6, <1>7, <1>8 DEF Next

\* The folder has its type.
LEMMA FolderTypes ==
  ASSUME Inv, LeftoversInv, DirsInv
  PROVE  TypeOK
BY DEF Inv, Types, LeftoversInv, DirsInv, TypeOK, Places, Asked

\* The license cache has its type.
LEMMA CacheTypesFit ==
  ASSUME CacheInv
  PROVE  Cached!TypeOK
<1>1. cacheHarm \in 0 .. CacheHarm /\ Cached!NoText = "none"
  BY CacheFacts DEF CacheInv, CacheTypes
<1>2. \A t \in Callers : cacheCall[t].op \in {"none", "try_put", "get"}
  BY DEF CacheInv, CacheTypes, TryPuts, Gets, Cached!NoCall
<1>3. Cached!Texts \cup {Cached!NoText} = Blobs \cup {"cut", "none"}
  BY CacheFacts
<1>4. /\ memory \in [Cached!Processes -> [LicenseKeys -> Cached!Texts \cup {Cached!NoText}]]
      /\ disk \in [LicenseKeys -> Cached!Texts \cup {Cached!NoText}]
  BY <1>3 DEF CacheInv, CacheTypes
<1>5. /\ lock \in [Cached!Processes -> [writer : SUBSET (Threads \cup {Tool}), readers : SUBSET (Threads \cup {Tool})]]
      /\ alone \in [Threads \cup {Tool} -> BOOLEAN] /\ interrupted \subseteq LicenseKeys
  BY DEF CacheInv, CacheTypes, Callers
<1>6. caching \in [Threads \cup {Tool} ->
                     {"idle", "compare", "insert", "look", "write", "read", "create", "fill", "load", "keep"}]
  BY DEF CacheInv, CacheTypes, Callers, Putting, Getting
<1>7. cached \in [Threads \cup {Tool} -> Cached!Texts \cup {Cached!NoText, "Duplicate", "WriteComplete", "WriteFailed"}]
  BY CacheFacts DEF CacheInv, CacheTypes, Callers, Results
<1> QED BY <1>1, <1>2, <1>4, <1>5, <1>6, <1>7 DEF Cached!TypeOK, Callers

\* The license manager has its type.
LEMMA ManagerTypesFit ==
  ASSUME ManagerInv
  PROVE  Managed!TypeOK
<1>1. /\ licenses \in Seq([first : Managed!AllBlobs, remote : SUBSET Remotes])
      /\ aliases \in [LicenseTexts -> {b.id : b \in Managed!AllBlobs} \cup {Managed!Nothing}]
      /\ now \in 0 .. MaxNow
  BY DEF ManagerInv, ManagerTypes, Managed!Nothing
<1>2. judging \in [Threads -> {"idle", "alias", "parse", "find", "append", "get", "grace", "dates", "judge"}]
  BY DEF ManagerInv, ManagerTypes, Adding, Judging
<1>3. \A t \in Threads : Managed!Seen(t) \subseteq Managed!Indices
  BY DEF ManagerInv, ThreadFits, JudgingFits, Managed!Seen
<1>4. \A t \in Threads : job[t].text \in LicenseTexts \cup {Managed!Nothing}
  BY DEF ManagerInv, ManagerTypes, Jobs, Managed!Nothing
<1> QED BY <1>1, <1>2, <1>3, <1>4 DEF Managed!TypeOK

\* Reading a license has its type.
LEMMA TextTypesFit ==
  ASSUME TextInv
  PROVE  Text!TypeOK
BY DEF TextInv, Text!TypeOK

\* The states of all five models have their types: no index of the license manager, of the
\* trusted keys or of the directories points past what is there.
THEOREM ServerSideTypesHold ==
  ASSUME IsFiniteSet(Threads), ProxyIsApart
  PROVE  ServerSideSpec => []ServerSideTypeOK
<1> DEFINE PartIsSo == part \in Parts
           Folder == Inv /\ LeftoversInv /\ DirsInv
<1>1. ServerSideInit => PartIsSo /\ Folder /\ RequestInv /\ CacheInv /\ ManagerInv /\ TextInv
  <2> SUFFICES ASSUME ServerSideInit
               PROVE  PartIsSo /\ Folder /\ RequestInv /\ CacheInv /\ ManagerInv /\ TextInv
    OBVIOUS
  <2>1. license \in Licenses /\ keys \in KeyRings /\ part \in Parts
    BY DEF ServerSideInit, Text!Init
  <2>2. CacheInv /\ RequestInv /\ ManagerInv /\ TextInv /\ Inv /\ LeftoversInv
    BY <2>1, ServerSideParts, CacheBegins, InitInv, LeftoversBegin, RequestsBegin, ManagerBegins, TextInvAtFirst
  <2>3. DirsInv
    <3>1. Init
      BY ServerSideParts
    <3>2. dirs = {} /\ marked = FALSE /\ confirmed = {} /\ harm = 0 /\ MaxHarm \in Nat
      BY <3>1, DiskCacheAssumption DEF Init
    <3>3. harm \in 0 .. MaxHarm
      BY <3>2
    <3>4. dirs \subseteq AllDirs /\ marked \in BOOLEAN /\ confirmed \subseteq {"root", "meta"}
      BY <3>2
    <3>5. \A d \in dirs : WithParents(d) \subseteq dirs
      BY <3>2
    <3> QED BY <3>3, <3>4, <3>5 DEF DirsInv
  <2> QED BY <2>1, <2>2, <2>3
<1>2. PartIsSo /\ [ServerSideNext]_serverVars => PartIsSo'
  BY DEF ServerSideNext, FolderStep, RequestStep, CacheStep, LicenseStep, TextStep, TextIsRead, serverVars
<1>3. Folder /\ [ServerSideNext]_serverVars => Folder'
  BY ServerSideParts, EveryStep, LeftoversSteps, DirsStep
<1>4. RequestInv /\ [ServerSideNext]_serverVars => RequestInv'
  BY ServerSideParts, RequestsGoOn
<1>5. CacheInv /\ [ServerSideNext]_serverVars => CacheInv'
  BY ServerSideParts, CacheSteps
<1>6. ManagerInv /\ [ServerSideNext]_serverVars => ManagerInv'
  BY ServerSideParts, ManagerSteps
<1>7. TextInv /\ [ServerSideNext]_serverVars => TextInv'
  <2>1. [ServerSideNext]_serverVars => Text!Next \/ UNCHANGED textVars
    BY ServerSideParts DEF textVars, Text!vars
  <2> QED BY <2>1, TextStepStays
<1>8. PartIsSo /\ Folder /\ RequestInv /\ CacheInv /\ ManagerInv /\ TextInv => ServerSideTypeOK
  BY FolderTypes, CacheTypesFit, ManagerTypesFit, TextTypesFit DEF RequestInv, ServerSideTypeOK
<1> HIDE DEF PartIsSo, Folder
<1> QED BY <1>1, <1>2, <1>3, <1>4, <1>5, <1>6, <1>7, <1>8, PTL DEF ServerSideSpec
=============================================================================
