----------------------------- MODULE LicenseCache -----------------------------
(***************************************************************************)
(* The write-through cache of licenses (WriteThroughCache and DiskStorage  *)
(* of imageflow_helpers/src/licensing/cache.rs): a map in the memory of    *)
(* each process over one folder of the user that all processes share.      *)
(* Threads of a process lock the folder against each other, processes do   *)
(* not; a file is truncated and filled in two steps, and either may fail   *)
(* or be cut off by the end of the process.                                *)
(***************************************************************************)
EXTENDS Integers, FiniteSets

CONSTANTS
  Threads,    \* the threads of all processes
  ProcessOf,  \* [Threads -> processes]
  Keys,       \* of the licenses; a key has a file name of its own
  Values,     \* license texts
  MaxHarm     \* failures of the disk and ends of processes that are looked at

HarmAssumption ==
  /\ MaxHarm \in Nat
  /\ Values \cap {"none", "cut", "Duplicate", "WriteComplete", "WriteFailed"} = {}

VARIABLES
  memory,      \* the map of each process
  disk,        \* the folder: a text, NoText, or CutText for a file that is not whole
  lock,        \* the RwLock of each process: who writes and who reads
  pc, call,    \* where each thread is, and in which call
  result,      \* what its last call answered
  alone,       \* whether no other thread was in a call since its own began
  interrupted, \* keys whose last write ended before the file was whole
  harm         \* failures and ends so far

vars == <<memory, disk, lock, pc, call, result, alone, interrupted, harm>>

NoText == "none"
CutText == "cut"
Texts == Values \cup {CutText}
Processes == {ProcessOf[t] : t \in Threads}
NoCall == [op |-> "none", key |-> NoText, value |-> NoText]
Calls == [op : {"try_put"}, key : Keys, value : Values] \cup [op : {"get"}, key : Keys, value : {NoText}]
Empty == [k \in Keys |-> NoText]
Free == [writer |-> {}, readers |-> {}]

Init ==
  /\ memory = [p \in Processes |-> Empty] /\ disk = Empty
  /\ lock = [p \in Processes |-> Free]
  /\ pc = [t \in Threads |-> "idle"] /\ call = [t \in Threads |-> NoCall]
  /\ result = [t \in Threads |-> NoText] /\ alone = [t \in Threads |-> TRUE]
  /\ interrupted = {} /\ harm = 0

Mine(t) == memory[ProcessOf[t]][call[t].key]
Goto(t, where) == pc' = [pc EXCEPT ![t] = where]
Answer(t, r) == Goto(t, "idle") /\ result' = [result EXCEPT ![t] = r]
RememberNew(t, v) ==   \* variant: what is in memory is not replaced
  memory' = [memory EXCEPT ![ProcessOf[t]][call[t].key] = IF @ = NoText THEN v ELSE @]
Remember(t, v) == memory' = [memory EXCEPT ![ProcessOf[t]][call[t].key] = v]
Busy(t) == \E u \in Threads \ {t} : pc[u] # "idle"

Start(t) ==
  /\ pc[t] = "idle"
  /\ \E c \in Calls :
       call' = [call EXCEPT ![t] = c] /\ Goto(t, IF c.op = "get" THEN "look" ELSE "compare")
  /\ result' = [result EXCEPT ![t] = NoText]
  /\ alone' = [u \in Threads |-> u = t /\ ~Busy(t)]
  /\ UNCHANGED <<memory, disk, lock, interrupted, harm>>

(* try_put: a value that is in memory is not written again.                *)
Compare(t) ==
  /\ pc[t] = "compare"
  /\ IF Mine(t) = call[t].value THEN Answer(t, "Duplicate") ELSE Goto(t, "insert") /\ UNCHANGED result
  /\ UNCHANGED <<memory, disk, lock, call, alone, interrupted, harm>>

Insert(t) ==
  /\ pc[t] = "insert"
  /\ Remember(t, call[t].value) /\ Goto(t, "write")
  /\ UNCHANGED <<disk, lock, call, result, alone, interrupted, harm>>

(* get: memory first.                                                      *)
Look(t) ==
  /\ pc[t] = "look"
  /\ IF Mine(t) # NoText THEN Answer(t, Mine(t)) ELSE Goto(t, "read") /\ UNCHANGED result
  /\ UNCHANGED <<memory, disk, lock, call, alone, interrupted, harm>>

-----------------------------------------------------------------------------
MayRead(held) == held.writer = {}

(* filesystem.write(), filesystem.read()                                   *)
Lock(t) ==
  LET held == lock[ProcessOf[t]] IN
  /\ \/ /\ pc[t] = "write" /\ held = Free
        /\ lock' = [lock EXCEPT ![ProcessOf[t]].writer = {t}] /\ Goto(t, "create")
     \/ /\ pc[t] = "read" /\ MayRead(held)
        /\ lock' = [lock EXCEPT ![ProcessOf[t]].readers = @ \cup {t}] /\ Goto(t, "load")
  /\ UNCHANGED <<memory, disk, call, result, alone, interrupted, harm>>

Unlocked(t) ==
  [lock EXCEPT ![ProcessOf[t]] = [writer |-> @.writer \ {t}, readers |-> @.readers \ {t}]]

(* The folder cannot be made or a file not be opened, written or read.     *)
Fail(t) ==
  /\ pc[t] \in {"create", "fill", "load"} /\ harm < MaxHarm
  /\ harm' = harm + 1
  /\ interrupted' = IF pc[t] = "fill" THEN interrupted \cup {call[t].key} ELSE interrupted
  /\ lock' = Unlocked(t)
  /\ Answer(t, IF call[t].op = "get" THEN NoText ELSE "WriteFailed")
  /\ UNCHANGED <<memory, disk, call, alone>>

(* create_dir_all; File::create                                            *)
Create(t) ==
  /\ pc[t] = "create"
  /\ disk' = [disk EXCEPT ![call[t].key] = CutText] /\ interrupted' = interrupted \ {call[t].key}
  /\ Goto(t, "fill") /\ UNCHANGED <<memory, lock, call, result, alone, harm>>

Filled(t) == [disk EXCEPT ![call[t].key] = call[t].value]

(* write_all                                                               *)
Fill(t) ==
  /\ pc[t] = "fill"
  /\ disk' = Filled(t)
  /\ lock' = Unlocked(t) /\ Answer(t, "WriteComplete")
  /\ UNCHANGED <<memory, call, alone, interrupted, harm>>

(* read_to_end                                                             *)
Load(t) ==
  /\ pc[t] = "load"
  /\ lock' = Unlocked(t)
  /\ IF disk[call[t].key] = NoText
     THEN Answer(t, NoText) /\ UNCHANGED call
     ELSE /\ call' = [call EXCEPT ![t].value = disk[call[t].key]]
          /\ Goto(t, "keep") /\ UNCHANGED result
  /\ UNCHANGED <<memory, disk, alone, interrupted, harm>>

Keep(t) ==
  /\ pc[t] = "keep"
  /\ Remember(t, call[t].value) /\ Answer(t, call[t].value)
  /\ UNCHANGED <<disk, lock, call, alone, interrupted, harm>>

(* The process ends, wherever its threads are, and is started again.       *)
Restart(p) ==
  LET its == {t \in Threads : ProcessOf[t] = p} IN
  /\ harm < MaxHarm /\ harm' = harm + 1
  /\ memory' = [memory EXCEPT ![p] = Empty] /\ lock' = [lock EXCEPT ![p] = Free]
  /\ pc' = [t \in Threads |-> IF t \in its THEN "idle" ELSE pc[t]]
  /\ call' = [t \in Threads |-> IF t \in its THEN NoCall ELSE call[t]]
  /\ result' = [t \in Threads |-> IF t \in its THEN NoText ELSE result[t]]
  /\ interrupted' = interrupted \cup {call[t].key : t \in {u \in its : pc[u] = "fill"}}
  /\ UNCHANGED <<disk, alone>>

Step(t) ==
  \/ Start(t) \/ Compare(t) \/ Insert(t) \/ Look(t) \/ Lock(t)
  \/ Fail(t) \/ Create(t) \/ Fill(t) \/ Load(t) \/ Keep(t)
Next == (\E t \in Threads : Step(t)) \/ (\E p \in Processes : Restart(p))

Spec == Init /\ [][Next]_vars

-----------------------------------------------------------------------------
TypeOK ==
  /\ memory \in [Processes -> [Keys -> Texts \cup {NoText}]] /\ disk \in [Keys -> Texts \cup {NoText}]
  /\ lock \in [Processes -> [writer : SUBSET Threads, readers : SUBSET Threads]]
  /\ pc \in [Threads -> {"idle", "compare", "insert", "look", "write", "read", "create", "fill", "load", "keep"}]
  /\ \A t \in Threads : call[t].op \in {"none", "try_put", "get"}
  /\ result \in [Threads -> Texts \cup {NoText, "Duplicate", "WriteComplete", "WriteFailed"}]
  /\ alone \in [Threads -> BOOLEAN] /\ interrupted \subseteq Keys /\ harm \in 0..MaxHarm

(* A file that is not whole is read only where a write of it was cut off,  *)
(* or by another process: threads of one process never see each other's    *)
(* half-written files (cache.rs:78, :113).                                 *)
CutIsExplained ==
  [][\A t \in Threads : pc[t] = "load" /\ pc'[t] = "keep" /\ call'[t].value = CutText =>
       \/ call[t].key \in interrupted
       \/ \E u \in Threads : ProcessOf[u] # ProcessOf[t] /\ pc[u] = "fill" /\ call[u].key = call[t].key]_vars

(* A put that nobody disturbed and that is answered WriteComplete is both  *)
(* in memory and on the disk, and a get that nobody disturbed leaves what  *)
(* it answered in memory (cache.rs:180-205).                               *)
UndisturbedIsKept ==
  \A t \in Threads :
    pc[t] = "idle" /\ alone[t] /\ ~Busy(t) /\ call[t].op # "none" =>
      /\ result[t] = "WriteComplete" => Mine(t) = call[t].value /\ disk[call[t].key] = call[t].value
      /\ call[t].op = "get" /\ result[t] # NoText => Mine(t) = result[t]

(* What a call leaves in memory was put by a thread or read from a file:   *)
(* with nobody in a call, a process that has something of a key in memory  *)
(* finds a file of it, unless a write failed.                              *)
MemoryHasFile ==
  harm = 0 /\ (\A t \in Threads : pc[t] = "idle") =>
    \A p \in Processes, k \in Keys : memory[p][k] # NoText => disk[k] \in Values
=============================================================================
