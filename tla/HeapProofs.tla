------------------------------ MODULE HeapProofs ------------------------------
(***************************************************************************)
(* Proofs about ObjectTracking.                                            *)
(*                                                                         *)
(* A destruction is a stack of calls that walk the table while destructors *)
(* empty some of its slots.  The invariant says what holds of a table      *)
(* between two steps (Table, OwnersExist, Acyclic, ScratchSound), what     *)
(* holds of a call while it waits (Stays), between a call and the one it   *)
(* waits for (Calls), and of the call that runs (Runs).  The first lemmas  *)
(* are about tables and calls, the later ones about the steps.             *)
(***************************************************************************)
EXTENDS ObjectTracking, Induction

Taken(s) == {i \in DOMAIN s : s[i].ptr # NULL}
OwnedIn(s, o) == {i \in Taken(s) : s[i].owner = o}

\* A table, its next free slot, and the addresses that are in use.
Table(s, n, h) ==
  /\ s \in Seq(Record) /\ n \in Nat \ {0} /\ h \subseteq Addr
  /\ \A i, j \in Taken(s) : s[i].ptr = s[j].ptr => i = j
  /\ h = {s[i].ptr : i \in Taken(s)}
  /\ n <= Len(s) + 1
  /\ \A i \in DOMAIN s : i < n => s[i].ptr # NULL
  /\ n \in DOMAIN s => s[n].ptr = NULL

\* The destructors of all that o owns have been called.
Quiet(s, o) == \A i \in OwnedIn(s, o) : s[i].destructor => s[i].called

OwnersExist(s) == \A i \in Taken(s) : s[i].owner \in {s[j].ptr : j \in Taken(s)} \cup {Context, NULL}

\* There is no ring of owners: whatever set of slots one looks at, one of them
\* is owned by none of them.
Acyclic(s) ==
  \A S \in SUBSET Taken(s) : S # {} => \E i \in S : \A j \in S : s[i].owner # s[j].ptr

\* What a decoder works with is tracked like the decoder, owned by the context, owns
\* nothing, and is no other decoder's.
HasScratch(s, i, k, c, d) ==
  /\ s[i].ptr = d    /\ s[i].owner = Context /\ s[i].destructor
  /\ s[k].ptr = c[d] /\ s[k].owner = Context /\ ~s[k].destructor
ScratchSound(s, c) ==
  \A d \in Addr : c[d] # NULL =>
    /\ \E i, k \in Taken(s) : HasScratch(s, i, k, c, d)
    /\ OwnedIn(s, c[d]) = {}
    /\ \A e \in Addr : c[e] = c[d] => e = d
ScratchAbove(s, c) ==
  \A d \in Addr : c[d] # NULL =>
    \A i, k \in Taken(s) : s[i].ptr = d /\ s[k].ptr = c[d] => i < k

OwnersMarked(s) == \A i, j \in Taken(s) : s[i].owner = s[j].ptr => s[j].isOwner

\* What holds of a call as long as it is on the stack.
Stays(s, c, f) ==
  /\ f.op \in {"destroy", "partial", "by_owner", "destructors"}
  /\ f.at \in Nat
  /\ f.op = "destroy" => f.arg \in Addr \cup {Context} /\ f.stage \in {"enter", "return"}
  /\ f.op = "by_owner" => f.arg \in Addr \cup {Context}
  /\ f.op = "partial" =>
       /\ f.arg \in Addr /\ f.stage \in {"children", "own", "free"}
       /\ f.at \in Taken(s) /\ s[f.at].ptr = f.arg
       /\ \A d \in Addr : c[d] # f.arg
       /\ f.stage = "free" /\ s[f.at].destructor => s[f.at].called
  /\ f.op = "destructors" =>
       /\ f.arg \in Addr /\ f.stage \in {"seek", "call"}
       /\ \A i \in OwnedIn(s, f.arg) : i < f.at /\ s[i].destructor => s[i].called
       /\ f.stage = "call" => f.at \in OwnedIn(s, f.arg)

\* What holds of a call that waits for another to return.
Calls(s, f, g) ==
  /\ f.op = "destroy" =>
       /\ f.stage = "return" /\ g.arg = f.arg
       /\ g.op = IF f.arg = Context THEN "by_owner" ELSE "partial"
  /\ f.op = "partial" =>
       /\ g.arg = f.arg
       /\ (f.stage = "own" /\ g.op = "destructors") \/ (f.stage = "free" /\ g.op = "by_owner")
  /\ f.op = "by_owner" =>
       /\ g.op = "partial" /\ g.at \in OwnedIn(s, f.arg)
       /\ \A i \in OwnedIn(s, f.arg) : i >= f.at \/ i = g.at
  /\ f.op = "destructors" => f.stage = "call" /\ g.op = "destructors" /\ g.arg = s[f.at].ptr

\* What holds of the call that is running.
Runs(s, c, f) ==
  /\ f.op = "destroy" /\ f.stage = "enter" /\ f.arg # Context =>
       (\E i \in Taken(s) : s[i].ptr = f.arg) /\ \A d \in Addr : c[d] # f.arg
  /\ f.op = "destroy" /\ f.stage = "return" =>
       OwnedIn(s, f.arg) = {} /\ \A i \in Taken(s) : s[i].ptr # f.arg
  /\ f.op = "partial" /\ f.stage = "own" => Quiet(s, f.arg)
  /\ f.op = "partial" /\ f.stage = "free" => OwnedIn(s, f.arg) = {}
  /\ f.op = "by_owner" => \A i \in OwnedIn(s, f.arg) : i >= f.at
  /\ f.op = "destructors" /\ f.stage = "call" => Quiet(s, s[f.at].ptr)

-----------------------------------------------------------------------------
\* Tables.

\* What becomes of a table while things are destroyed: slot k is emptied, or none if
\* there is no slot k; a record may be marked as destructed; all else remains.
Follows(s, t, k) ==
  /\ t \in Seq(Record) /\ Len(t) = Len(s) /\ DOMAIN t = DOMAIN s
  /\ k \in DOMAIN s => t[k] = Cleared
  /\ \A i \in DOMAIN s \ {k} :
       /\ t[i].ptr = s[i].ptr /\ t[i].owner = s[i].owner
       /\ t[i].destructor = s[i].destructor /\ t[i].isOwner = s[i].isOwner
       /\ s[i].called => t[i].called

\* When one record goes, the others and their owners stay.
LEMMA FollowsTaken ==
  ASSUME NEW s, NEW t, NEW k, Follows(s, t, k)
  PROVE  /\ Taken(t) = Taken(s) \ {k}
         /\ \A o : OwnedIn(t, o) = OwnedIn(s, o) \ {k}
         /\ \A i \in Taken(t) :
              /\ i \in Taken(s) /\ i \in DOMAIN s /\ i # k
              /\ t[i].ptr = s[i].ptr /\ t[i].owner = s[i].owner
              /\ t[i].destructor = s[i].destructor /\ t[i].isOwner = s[i].isOwner
              /\ s[i].called => t[i].called
<1>1. Taken(t) = Taken(s) \ {k}
  BY DEF Follows, Taken, Cleared
<1>2. ASSUME NEW o PROVE OwnedIn(t, o) = OwnedIn(s, o) \ {k}
  BY <1>1 DEF OwnedIn, Follows, Taken
<1>3. ASSUME NEW i \in Taken(t)
      PROVE  /\ i \in Taken(s) /\ i \in DOMAIN s /\ i # k
             /\ t[i].ptr = s[i].ptr /\ t[i].owner = s[i].owner
             /\ t[i].destructor = s[i].destructor /\ t[i].isOwner = s[i].isOwner
             /\ s[i].called => t[i].called
  <2>1. i \in Taken(s) /\ i # k
    BY <1>1
  <2>2. i \in DOMAIN s \ {k}
    BY <2>1 DEF Taken
  <2> QED BY <2>1, <2>2 DEF Follows
<1> QED BY <1>1, <1>2, <1>3

\* What needed no destructor does not need one when a record is gone.
LEMMA FollowsQuiet ==
  ASSUME NEW s, NEW t, NEW k, Follows(s, t, k), NEW o, Quiet(s, o)
  PROVE  Quiet(t, o)
<1> SUFFICES ASSUME NEW i \in OwnedIn(t, o), t[i].destructor
             PROVE  t[i].called
  BY DEF Quiet
<1>1. i \in Taken(t) /\ i \in OwnedIn(s, o)
  BY FollowsTaken DEF OwnedIn
<1>2. s[i].destructor
  BY <1>1, FollowsTaken
<1>3. s[i].called
  BY <1>1, <1>2 DEF Quiet
<1> QED BY <1>1, <1>3, FollowsTaken

\* Owners stay marked when a record goes.
LEMMA FollowsMarked ==
  ASSUME NEW s, NEW t, NEW k, Follows(s, t, k), OwnersMarked(s)
  PROVE  OwnersMarked(t)
<1> SUFFICES ASSUME NEW i \in Taken(t), NEW j \in Taken(t), t[i].owner = t[j].ptr
             PROVE  t[j].isOwner
  BY DEF OwnersMarked
<1>1. i \in Taken(s) /\ j \in Taken(s) /\ s[i].owner = s[j].ptr
  BY FollowsTaken
<1>2. s[j].isOwner
  BY <1>1 DEF OwnersMarked
<1> QED BY <1>2, FollowsTaken

\* No cycle of owners arises when a record goes.
LEMMA FollowsAcyclic ==
  ASSUME NEW s, NEW t, NEW k, Follows(s, t, k), Acyclic(s)
  PROVE  Acyclic(t)
<1> SUFFICES ASSUME NEW S \in SUBSET Taken(t), S # {}
             PROVE  \E i \in S : \A j \in S : t[i].owner # t[j].ptr
  BY DEF Acyclic
<1>1. S \in SUBSET Taken(s) /\ \A i \in S : t[i].owner = s[i].owner /\ t[i].ptr = s[i].ptr
  BY FollowsTaken DEF Follows
<1>2. \E i \in S : \A j \in S : s[i].owner # s[j].ptr
  BY <1>1 DEF Acyclic
<1> QED BY <1>1, <1>2

\* Owners stay when a record goes that owns nothing.
LEMMA FollowsOwners ==
  ASSUME NEW s, NEW t, NEW k, Follows(s, t, k), OwnersExist(s),
         k \in Taken(s) => OwnedIn(s, s[k].ptr) = {}
  PROVE  OwnersExist(t)
<1> SUFFICES ASSUME NEW i \in Taken(t), t[i].owner \notin {Context, NULL}
             PROVE  \E j \in Taken(t) : t[j].ptr = t[i].owner
  BY DEF OwnersExist
<1>1. i \in Taken(s) /\ i # k /\ t[i].owner = s[i].owner
  BY FollowsTaken
<1>2. PICK j \in Taken(s) : s[j].ptr = s[i].owner
  BY <1>1 DEF OwnersExist
<1>3. j # k
  BY <1>1, <1>2 DEF OwnedIn
<1>4. j \in Taken(t) /\ t[j].ptr = s[j].ptr
  BY <1>3, FollowsTaken DEF Follows, Taken
<1> QED BY <1>1, <1>2, <1>4

\* Decoders' scratches stay as they are if it is none of them, and none of their
\* decoders, that goes.
LEMMA FollowsScratch ==
  ASSUME NEW s, NEW t, NEW k, Follows(s, t, k), NEW c, NEW e,
         \A d \in Addr : e[d] = c[d] \/ e[d] = NULL,
         \A d \in Addr : e[d] # NULL /\ k \in Taken(s) => s[k].ptr # d /\ s[k].ptr # c[d]
  PROVE  /\ ScratchSound(s, c) => ScratchSound(t, e)
         /\ ScratchAbove(s, c) => ScratchAbove(t, e)
<1>1. ASSUME ScratchSound(s, c), NEW d \in Addr, e[d] # NULL
      PROVE  /\ \E i, j \in Taken(t) : HasScratch(t, i, j, e, d)
             /\ OwnedIn(t, e[d]) = {}
             /\ \A b \in Addr : e[b] = e[d] => b = d
  <2>1. e[d] = c[d] /\ c[d] # NULL
    BY <1>1
  <2>2. PICK i \in Taken(s), j \in Taken(s) : HasScratch(s, i, j, c, d)
    BY <1>1, <2>1 DEF ScratchSound
  <2>3. i # k /\ j # k
    BY <1>1, <2>2 DEF HasScratch
  <2>4. i \in Taken(t) /\ j \in Taken(t) /\ HasScratch(t, i, j, e, d)
    BY <2>1, <2>2, <2>3, FollowsTaken DEF HasScratch, Follows, Taken
  <2>5. OwnedIn(t, e[d]) = {}
    BY <1>1, <2>1, FollowsTaken DEF ScratchSound
  <2>6. \A b \in Addr : e[b] = e[d] => b = d
    BY <1>1, <2>1 DEF ScratchSound
  <2> QED BY <2>4, <2>5, <2>6
<1>2. ASSUME ScratchAbove(s, c), NEW d \in Addr, e[d] # NULL
      PROVE  \A i, j \in Taken(t) : t[i].ptr = d /\ t[j].ptr = e[d] => i < j
  <2>1. e[d] = c[d] /\ c[d] # NULL
    BY <1>2
  <2>2. ASSUME NEW i \in Taken(t), NEW j \in Taken(t), t[i].ptr = d, t[j].ptr = e[d]
        PROVE  i < j
    <3>1. i \in Taken(s) /\ j \in Taken(s) /\ s[i].ptr = d /\ s[j].ptr = c[d]
      BY <2>1, <2>2, FollowsTaken
    <3> QED BY <1>2, <2>1, <3>1 DEF ScratchAbove
  <2> QED BY <2>2
<1> QED BY <1>1, <1>2 DEF ScratchSound, ScratchAbove

\* A call that waits goes on to do so, unless what it is about is emptied.
LEMMA FollowsStays ==
  ASSUME NEW s, NEW t, NEW k, Follows(s, t, k), NEW c, NEW e, NEW f, Stays(s, c, f),
         \A d \in Addr : e[d] = c[d] \/ e[d] = NULL,
         f.op = "partial" => f.at # k,
         f.op = "destructors" /\ f.stage = "call" => f.at # k
  PROVE  Stays(t, e, f)
<1>1. CASE f.op = "partial"
  <2>1. f.at \in Taken(t) /\ t[f.at].ptr = f.arg /\ (t[f.at].destructor => s[f.at].destructor)
        /\ (s[f.at].called => t[f.at].called)
    BY <1>1, FollowsTaken DEF Stays, Follows, Taken
  <2>2. \A d \in Addr : e[d] # f.arg
    BY <1>1, HeapAssumption DEF Stays
  <2> QED BY <1>1, <2>1, <2>2 DEF Stays
<1>2. CASE f.op = "destructors"
  <2>1. \A i \in OwnedIn(t, f.arg) : i < f.at /\ t[i].destructor => t[i].called
    <3> SUFFICES ASSUME NEW i \in OwnedIn(t, f.arg), i < f.at, t[i].destructor
                 PROVE  t[i].called
      OBVIOUS
    <3>1. i \in Taken(t) /\ i \in OwnedIn(s, f.arg)
      BY FollowsTaken DEF OwnedIn
    <3>2. s[i].destructor
      BY <3>1, FollowsTaken
    <3>3. s[i].called
      BY <1>2, <3>1, <3>2 DEF Stays
    <3> QED BY <3>1, <3>3, FollowsTaken
  <2>2. f.stage = "call" => f.at \in OwnedIn(t, f.arg)
    BY <1>2, FollowsTaken DEF Stays
  <2> QED BY <1>2, <2>1, <2>2 DEF Stays
<1> QED BY <1>1, <1>2 DEF Stays

\* Frames above and below each other still fit when a record goes.
LEMMA FollowsCalls ==
  ASSUME NEW s, NEW t, NEW k, Follows(s, t, k), NEW f, NEW g, Calls(s, f, g),
         f.op = "by_owner" => g.at # k,
         f.op = "destructors" => f.at \in DOMAIN s \ {k}
  PROVE  Calls(t, f, g)
<1>1. CASE f.op = "by_owner"
  BY <1>1, FollowsTaken DEF Calls
<1>2. CASE f.op = "destructors"
  BY <1>2 DEF Calls, Follows
<1> QED BY <1>1, <1>2 DEF Calls

\* Clearing a slot takes its object out of the table.
LEMMA Emptied ==
  ASSUME NEW s, NEW n, NEW h, Table(s, n, h), NEW k \in Taken(s)
  PROVE  /\ Table([s EXCEPT ![k] = Cleared], IF n > k THEN k ELSE n, h \ {s[k].ptr})
         /\ Follows(s, [s EXCEPT ![k] = Cleared], k)
<1> DEFINE t == [s EXCEPT ![k] = Cleared]
           m == IF n > k THEN k ELSE n
<1>1. s \in Seq(Record) /\ n \in Nat \ {0} /\ k \in DOMAIN s /\ k \in 1 .. Len(s) /\ DOMAIN s = 1 .. Len(s)
  BY DEF Table, Taken
<1>2. Cleared \in Record /\ Cleared.ptr = NULL
  BY DEF Cleared, Record
<1>3. t \in Seq(Record) /\ Len(t) = Len(s) /\ DOMAIN t = DOMAIN s /\ t[k] = Cleared /\ \A i \in DOMAIN s \ {k} : t[i] = s[i]
  BY <1>1, <1>2
<1> HIDE DEF t
<1>4. Follows(s, t, k)
  BY <1>3 DEF Follows
<1>5. Taken(t) = Taken(s) \ {k} /\ \A i \in Taken(t) : t[i] = s[i]
  BY <1>3, <1>4, FollowsTaken
<1>6. \A i, j \in Taken(t) : t[i].ptr = t[j].ptr => i = j
  BY <1>5 DEF Table
<1>7. h \ {s[k].ptr} = {t[i].ptr : i \in Taken(t)}
  BY <1>5 DEF Table
<1>8. m \in Nat \ {0} /\ m <= Len(t) + 1
  BY <1>1, <1>3 DEF Table
<1>9. \A i \in DOMAIN t : i < m => t[i].ptr # NULL
  BY <1>1, <1>3 DEF Table
<1>10. m \in DOMAIN t => t[m].ptr = NULL
  BY <1>1, <1>2, <1>3 DEF Table
<1>11. h \ {s[k].ptr} \subseteq Addr
  BY DEF Table
<1> HIDE DEF m
<1>12. Table(t, m, h \ {s[k].ptr})
  BY <1>3, <1>6, <1>7, <1>8, <1>9, <1>10, <1>11 DEF Table
<1> QED BY <1>4, <1>12 DEF t, m

\* One field of a record that says nothing of where things are.
LEMMA Marked ==
  ASSUME NEW s, NEW n, NEW h, Table(s, n, h), NEW k \in Taken(s)
  PROVE  LET t == [s EXCEPT ![k].called = TRUE]
         IN  /\ Table(t, n, h) /\ Follows(s, t, 0)
             /\ t[k].called /\ \A i \in DOMAIN s \ {k} : t[i] = s[i]
<1> DEFINE t == [s EXCEPT ![k].called = TRUE]
<1>1. s \in Seq(Record) /\ k \in DOMAIN s /\ k \in 1 .. Len(s) /\ DOMAIN s = 1 .. Len(s)
  BY DEF Table, Taken
<1>2. s[k] \in Record /\ [s[k] EXCEPT !.called = TRUE] \in Record
  <2>1. s[k] \in Record
    BY <1>1
  <2> QED BY <2>1 DEF Record
<1>3. /\ t \in Seq(Record) /\ Len(t) = Len(s) /\ DOMAIN t = DOMAIN s
      /\ t[k] = [s[k] EXCEPT !.called = TRUE]
      /\ \A i \in DOMAIN s \ {k} : t[i] = s[i]
  BY <1>1, <1>2
<1>4. /\ t[k].ptr = s[k].ptr /\ t[k].owner = s[k].owner
      /\ t[k].destructor = s[k].destructor /\ t[k].isOwner = s[k].isOwner /\ t[k].called
  BY <1>2, <1>3 DEF Record
<1> HIDE DEF t
<1>5. \A i \in DOMAIN s :
        /\ t[i].ptr = s[i].ptr /\ t[i].owner = s[i].owner
        /\ t[i].destructor = s[i].destructor /\ t[i].isOwner = s[i].isOwner
        /\ s[i].called => t[i].called
  BY <1>3, <1>4
<1>6. Follows(s, t, 0)
  BY <1>1, <1>3, <1>5 DEF Follows
<1>7. Taken(t) = Taken(s)
  BY <1>3, <1>5 DEF Taken
<1>8. {t[i].ptr : i \in Taken(t)} = {s[i].ptr : i \in Taken(s)}
  BY <1>5, <1>7 DEF Taken
<1>9. \A i, j \in Taken(t) : t[i].ptr = t[j].ptr => i = j
  BY <1>5, <1>7 DEF Table, Taken
<1>10. Table(t, n, h)
  BY <1>3, <1>5, <1>8, <1>9 DEF Table
<1> QED BY <1>3, <1>4, <1>6, <1>10 DEF t

\* A table that stays the same follows itself.
LEMMA FollowsItself ==
  ASSUME NEW s \in Seq(Record)
  PROVE  Follows(s, s, 0)
BY DEF Follows

-----------------------------------------------------------------------------
\* Stacks of calls.
FrameSet ==
  [op: {"destroy", "partial", "by_owner", "destructors"}, arg: Addr \cup {Context}, at: Nat,
   stage: {"enter", "return", "children", "own", "free", "seek", "call"}]

\* st is a stack of calls that walk the table s, in phase ph.
Stacked(s, c, st, ph) ==
  /\ st \in Seq(FrameSet)
  /\ \A q \in DOMAIN st : Stays(s, c, st[q])
  /\ \A q \in DOMAIN st : st[q].op = "destroy" <=> q = 1
  /\ \A q \in DOMAIN st : st[q].arg = Context => ph = "terminating"
  /\ \A q \in 1 .. Len(st) - 1 : Calls(s, st[q], st[q + 1])
  /\ ph = "terminating" => st # <<>> /\ st[1].arg = Context

\* None of the calls that wait, those before the q-th, is about slot k.
Spares(st, q, k) ==
  \A r \in 1 .. q - 1 : st[r].op = "partial" \/ (st[r].op = "destructors" /\ st[r].stage = "call") => st[r].at # k

\* A stack without its innermost frame, and with one or two others instead.
LEMMA Pieces ==
  ASSUME NEW st \in Seq(FrameSet), st # <<>>, NEW f \in FrameSet, NEW g \in FrameSet
  PROVE  LET u == SubSeq(st, 1, Len(st) - 1)
             v == Append(u, f)
             w == Append(v, g)
             n == Len(st)
         IN  /\ n \in Nat /\ n >= 1 /\ DOMAIN st = 1 .. n /\ st[n] \in FrameSet
             /\ u \in Seq(FrameSet) /\ Len(u) = n - 1 /\ DOMAIN u = 1 .. n - 1
             /\ v \in Seq(FrameSet) /\ Len(v) = n /\ DOMAIN v = 1 .. n /\ v[n] = f
             /\ w \in Seq(FrameSet) /\ Len(w) = n + 1 /\ DOMAIN w = 1 .. n + 1 /\ w[n] = f /\ w[n + 1] = g
             /\ \A q \in 1 .. n - 1 : u[q] = st[q] /\ v[q] = st[q] /\ w[q] = st[q]
<1> DEFINE u == SubSeq(st, 1, Len(st) - 1)
           v == Append(u, f)
           w == Append(v, g)
           n == Len(st)
<1>1. n \in Nat /\ n >= 1 /\ DOMAIN st = 1 .. n /\ st[n] \in FrameSet
  OBVIOUS
<1>2. u \in Seq(FrameSet) /\ Len(u) = n - 1 /\ DOMAIN u = 1 .. n - 1 /\ \A q \in 1 .. n - 1 : u[q] = st[q]
  BY <1>1
<1> HIDE DEF u, n
<1>3. v \in Seq(FrameSet) /\ Len(v) = n /\ DOMAIN v = 1 .. n /\ v[n] = f /\ \A q \in 1 .. n - 1 : v[q] = u[q]
  BY <1>1, <1>2
<1> HIDE DEF v
<1>4. /\ w \in Seq(FrameSet) /\ Len(w) = n + 1 /\ DOMAIN w = 1 .. n + 1 /\ w[n + 1] = g
      /\ \A q \in 1 .. n : w[q] = v[q]
  BY <1>1, <1>3
<1>5. w[n] = f /\ \A q \in 1 .. n - 1 : v[q] = st[q] /\ w[q] = st[q]
  BY <1>1, <1>2, <1>3, <1>4
<1> QED BY <1>1, <1>2, <1>3, <1>4, <1>5 DEF u, v, n

\* The calls below the running one go on waiting while the table follows.
LEMMA LowerStay ==
  ASSUME NEW s, NEW c, NEW st, NEW ph, Stacked(s, c, st, ph), NEW t, NEW k, Follows(s, t, k),
         NEW e, \A d \in Addr : e[d] = c[d] \/ e[d] = NULL,
         NEW q \in 1 .. Len(st), Spares(st, q, k)
  PROVE  /\ \A r \in 1 .. q - 1 : Stays(t, e, st[r])
         /\ \A r \in 1 .. q - 2 : Calls(t, st[r], st[r + 1])
         /\ q > 1 /\ (st[q - 1].op = "by_owner" => st[q].at # k) => Calls(t, st[q - 1], st[q])
<1>0. st \in Seq(FrameSet) /\ DOMAIN st = 1 .. Len(st) /\ Len(st) \in Nat
  BY DEF Stacked
<1>1. ASSUME NEW r \in 1 .. q - 1
      PROVE  Stays(t, e, st[r])
  <2>1. Stays(s, c, st[r])
    BY <1>0 DEF Stacked
  <2>2. /\ st[r].op = "partial" => st[r].at # k
        /\ st[r].op = "destructors" /\ st[r].stage = "call" => st[r].at # k
    BY DEF Spares
  <2> QED BY <2>1, <2>2, FollowsStays
<1>2. ASSUME NEW r \in 1 .. q - 1, st[r].op = "by_owner" => st[r + 1].at # k
      PROVE  Calls(t, st[r], st[r + 1])
  <2>1. Calls(s, st[r], st[r + 1]) /\ Stays(s, c, st[r])
    BY <1>0 DEF Stacked
  <2>2. st[r].op = "destructors" => st[r].stage = "call"
    BY <2>1 DEF Calls
  <2>3. st[r].op = "destructors" => st[r].at \in DOMAIN s \ {k}
    BY <2>1, <2>2 DEF Stays, Spares, OwnedIn, Taken
  <2> QED BY <1>2, <2>1, <2>3, FollowsCalls
<1>3. ASSUME NEW r \in 1 .. q - 2
      PROVE  Calls(t, st[r], st[r + 1])
  <2>1. Calls(s, st[r], st[r + 1])
    BY <1>0 DEF Stacked
  <2>2. st[r].op = "by_owner" => st[r + 1].op = "partial"
    BY <2>1 DEF Calls
  <2>3. st[r].op = "by_owner" => st[r + 1].at # k
    BY <2>2 DEF Spares
  <2> QED BY <2>3, <1>2
<1>4. q > 1 => q - 1 \in 1 .. q - 1 /\ (q - 1) + 1 = q
  BY <1>0
<1> QED BY <1>1, <1>2, <1>3, <1>4

\* The running call goes on.
LEMMA BecomeKeeps ==
  ASSUME NEW s, NEW c, NEW st, NEW ph, Stacked(s, c, st, ph), st # <<>>,
         NEW t, NEW k, Follows(s, t, k), NEW e, \A d \in Addr : e[d] = c[d] \/ e[d] = NULL,
         Spares(st, Len(st), k),
         NEW f \in FrameSet, Stays(t, e, f), f.op = st[Len(st)].op, f.arg = st[Len(st)].arg,
         f.op = "partial" => f.at = st[Len(st)].at /\ f.at # k
  PROVE  Stacked(t, e, Append(SubSeq(st, 1, Len(st) - 1), f), ph)
<1> DEFINE v == Append(SubSeq(st, 1, Len(st) - 1), f)
           n == Len(st)
<1>1. st \in Seq(FrameSet)
  BY DEF Stacked
<1>2. /\ n \in Nat /\ n >= 1 /\ DOMAIN st = 1 .. n
      /\ v \in Seq(FrameSet) /\ Len(v) = n /\ DOMAIN v = 1 .. n /\ v[n] = f
      /\ \A q \in 1 .. n - 1 : v[q] = st[q]
  BY <1>1, Pieces
<1> HIDE DEF v
<1>3. /\ \A r \in 1 .. n - 1 : Stays(t, e, st[r])
      /\ \A r \in 1 .. n - 2 : Calls(t, st[r], st[r + 1])
      /\ n > 1 /\ (st[n - 1].op = "by_owner" => st[n].at # k) => Calls(t, st[n - 1], st[n])
  BY <1>2, LowerStay
<1>4. n > 1 => Calls(s, st[n - 1], st[n])
  <2>1. n > 1 => n - 1 \in 1 .. n - 1 /\ (n - 1) + 1 = n
    BY <1>2
  <2> QED BY <2>1 DEF Stacked
<1>5. n > 1 => Calls(t, st[n - 1], f)
  <2>1. n > 1 /\ st[n - 1].op = "by_owner" => st[n].op = "partial"
    BY <1>4 DEF Calls
  <2>2. n > 1 => Calls(t, st[n - 1], st[n])
    BY <1>3, <2>1
  <2>3. f.op = "partial" => f.at = st[n].at
    OBVIOUS
  <2> QED BY <2>1, <2>2, <2>3 DEF Calls
<1>6. \A q \in 1 .. n : Stays(t, e, v[q])
  BY <1>2, <1>3
<1>7. \A q \in 1 .. n - 1 : Calls(t, v[q], v[q + 1])
  <2> SUFFICES ASSUME NEW q \in 1 .. n - 1
               PROVE  Calls(t, v[q], v[q + 1])
    OBVIOUS
  <2>1. CASE q = n - 1
    BY <1>2, <1>5, <2>1
  <2>2. CASE q # n - 1
    <3>1. q \in 1 .. n - 2 /\ q + 1 \in 1 .. n - 1
      BY <1>2, <2>2
    <3> QED BY <3>1, <1>2, <1>3
  <2> QED BY <2>1, <2>2
<1>8. \A q \in 1 .. n : v[q].op = st[q].op /\ v[q].arg = st[q].arg
  BY <1>2
<1>9. v # <<>> /\ 1 \in 1 .. n
  BY <1>2
<1>10. /\ \A q \in DOMAIN v : v[q].op = "destroy" <=> q = 1
       /\ \A q \in DOMAIN v : v[q].arg = Context => ph = "terminating"
       /\ ph = "terminating" => v[1].arg = Context
  BY <1>2, <1>8, <1>9 DEF Stacked
<1>11. Stacked(t, e, v, ph)
  BY <1>2, <1>6, <1>7, <1>9, <1>10 DEF Stacked
<1> QED BY <1>11 DEF v

\* The running call calls another.
LEMMA CallKeeps ==
  ASSUME NEW s, NEW c, NEW st, NEW ph, Stacked(s, c, st, ph), st # <<>>,
         NEW t, NEW k, Follows(s, t, k), NEW e, \A d \in Addr : e[d] = c[d] \/ e[d] = NULL,
         Spares(st, Len(st), k),
         NEW f \in FrameSet, Stays(t, e, f), f.op = st[Len(st)].op, f.arg = st[Len(st)].arg,
         f.op = "partial" => f.at = st[Len(st)].at /\ f.at # k,
         NEW g \in FrameSet, Stays(t, e, g), g.op # "destroy", g.arg = Context => f.arg = Context,
         Calls(t, f, g)
  PROVE  Stacked(t, e, Append(Append(SubSeq(st, 1, Len(st) - 1), f), g), ph)
<1> DEFINE v == Append(SubSeq(st, 1, Len(st) - 1), f)
           w == Append(v, g)
           n == Len(st)
<1>1. st \in Seq(FrameSet)
  BY DEF Stacked
<1>2. /\ n \in Nat /\ n >= 1 /\ DOMAIN st = 1 .. n
      /\ v \in Seq(FrameSet) /\ Len(v) = n /\ DOMAIN v = 1 .. n /\ v[n] = f
      /\ w \in Seq(FrameSet) /\ Len(w) = n + 1 /\ DOMAIN w = 1 .. n + 1 /\ w[n] = f /\ w[n + 1] = g
      /\ \A q \in 1 .. n - 1 : v[q] = st[q] /\ w[q] = st[q]
  BY <1>1, Pieces
<1>3. Stacked(t, e, v, ph)
  BY BecomeKeeps
<1> HIDE DEF v, w
<1>4. \A q \in 1 .. n : w[q] = v[q] /\ Stays(t, e, w[q])
  BY <1>2, <1>3 DEF Stacked
<1>5. \A q \in 1 .. n + 1 : Stays(t, e, w[q])
  BY <1>2, <1>4
<1>6. \A q \in 1 .. n : Calls(t, w[q], w[q + 1])
  <2> SUFFICES ASSUME NEW q \in 1 .. n
               PROVE  Calls(t, w[q], w[q + 1])
    OBVIOUS
  <2>1. CASE q = n
    BY <1>2, <2>1
  <2>2. CASE q # n
    <3>0. n \in Nat /\ Len(v) = n
      BY <1>2
    <3>1. q \in 1 .. Len(v) - 1 /\ q + 1 \in 1 .. n
      BY <3>0, <2>2
    <3>2. Calls(t, v[q], v[q + 1])
      BY <1>3, <3>1 DEF Stacked
    <3> QED BY <3>1, <3>2, <1>4
  <2> QED BY <2>1, <2>2
<1>7. \A q \in 1 .. n + 1 : w[q].op = "destroy" <=> q = 1
  <2>1. \A q \in 1 .. n : w[q].op = "destroy" <=> q = 1
    BY <1>2, <1>3, <1>4 DEF Stacked
  <2>2. n + 1 # 1 /\ w[n + 1].op # "destroy"
    BY <1>2
  <2>3. \A q \in 1 .. n + 1 : q \in 1 .. n \/ q = n + 1
    BY <1>2
  <2> QED BY <2>1, <2>2, <2>3
<1>8. \A q \in 1 .. n + 1 : w[q].arg = Context => ph = "terminating"
  <2>1. \A q \in 1 .. n : w[q].arg = Context => ph = "terminating"
    BY <1>2, <1>3, <1>4 DEF Stacked
  <2>2. w[n + 1].arg = Context => ph = "terminating"
    BY <1>2, <2>1
  <2>3. \A q \in 1 .. n + 1 : q \in 1 .. n \/ q = n + 1
    BY <1>2
  <2> QED BY <2>1, <2>2, <2>3
<1>9. ph = "terminating" => w # <<>> /\ w[1].arg = Context
  <2>1. 1 \in 1 .. n /\ w # <<>>
    BY <1>2
  <2> QED BY <2>1, <1>3, <1>4 DEF Stacked
<1>10. Stacked(t, e, w, ph)
  BY <1>2, <1>5, <1>6, <1>7, <1>8, <1>9 DEF Stacked
<1> QED BY <1>10 DEF v, w

\* The running call returns to the one below.
LEMMA ReturnKeeps ==
  ASSUME NEW s, NEW c, NEW st, NEW ph, Stacked(s, c, st, ph), Len(st) > 1,
         NEW t, NEW k, Follows(s, t, k), NEW e, \A d \in Addr : e[d] = c[d] \/ e[d] = NULL,
         Spares(st, Len(st), k)
  PROVE  Stacked(t, e, SubSeq(st, 1, Len(st) - 1), ph)
<1> DEFINE u == SubSeq(st, 1, Len(st) - 1)
           n == Len(st)
<1>1. st \in Seq(FrameSet)
  BY DEF Stacked
<1>2. /\ n \in Nat /\ n > 1 /\ DOMAIN st = 1 .. n
      /\ u \in Seq(FrameSet) /\ Len(u) = n - 1 /\ DOMAIN u = 1 .. n - 1
      /\ \A q \in 1 .. n - 1 : u[q] = st[q]
  BY <1>1
<1> HIDE DEF u
<1>3. /\ \A r \in 1 .. n - 1 : Stays(t, e, st[r])
      /\ \A r \in 1 .. n - 2 : Calls(t, st[r], st[r + 1])
  <2>1. n \in 1 .. Len(st)
    BY <1>2
  <2> QED BY <2>1, LowerStay
<1>4. \A q \in 1 .. n - 2 : Calls(t, u[q], u[q + 1])
  <2> SUFFICES ASSUME NEW q \in 1 .. n - 2
               PROVE  Calls(t, u[q], u[q + 1])
    OBVIOUS
  <2>1. q \in 1 .. n - 1 /\ q + 1 \in 1 .. n - 1
    BY <1>2
  <2>2. u[q] = st[q] /\ u[q + 1] = st[q + 1]
    BY <1>2, <2>1
  <2> QED BY <1>3, <2>2
<1>5. \A q \in 1 .. n - 1 : Stays(t, e, u[q])
  BY <1>2, <1>3
<1>6. u # <<>> /\ 1 \in 1 .. n - 1 /\ (n - 1) - 1 = n - 2
  BY <1>2
<1>7. /\ \A q \in DOMAIN u : u[q].op = "destroy" <=> q = 1
      /\ \A q \in DOMAIN u : u[q].arg = Context => ph = "terminating"
      /\ ph = "terminating" => u[1].arg = Context
  <2>1. \A q \in 1 .. n - 1 : q \in DOMAIN st
    BY <1>2
  <2>2. \A q \in DOMAIN st :
          /\ st[q].op = "destroy" <=> q = 1
          /\ st[q].arg = Context => ph = "terminating"
    BY DEF Stacked
  <2>3. ph = "terminating" => st[1].arg = Context
    BY DEF Stacked
  <2>4. \A q \in DOMAIN u : q \in DOMAIN st /\ u[q] = st[q]
    BY <1>2, <2>1
  <2>5. 1 \in DOMAIN u
    BY <1>2, <1>6
  <2>6. \A q \in DOMAIN u : (u[q].op = "destroy" <=> q = 1) /\ (u[q].arg = Context => ph = "terminating")
    BY <2>2, <2>4
  <2>7. ph = "terminating" => u[1].arg = Context
    BY <2>3, <2>4, <2>5
  <2> QED BY <2>6, <2>7
<1>8. Stacked(t, e, u, ph)
  BY <1>2, <1>4, <1>5, <1>6, <1>7 DEF Stacked
<1> QED BY <1>8 DEF u

\* What a call destroys, nothing below it on the stack is about.
LEMMA PartialsDiffer ==
  ASSUME NEW s, NEW c, NEW st, NEW ph, Stacked(s, c, st, ph), Acyclic(s), st # <<>>,
         st[Len(st)].op = "partial"
  PROVE  Spares(st, Len(st), st[Len(st)].at)
<1> DEFINE n == Len(st)
<1>0. st \in Seq(FrameSet) /\ n \in Nat /\ n >= 1 /\ DOMAIN st = 1 .. n
  BY DEF Stacked
\* Below a partial destruction is another, of the owner, two calls further down.
<1>1. ASSUME NEW r \in 1 .. n, st[r].op = "partial", r > 2
      PROVE  /\ st[r - 1].op = "by_owner" /\ st[r].at \in OwnedIn(s, st[r - 1].arg)
             /\ st[r - 2].op = "partial" \/ r = 3
             /\ st[r - 2].op = "partial" => st[r - 2].arg = st[r - 1].arg
  <2>1. /\ r - 1 \in 1 .. n - 1 /\ r - 2 \in 1 .. n - 1 /\ (r - 1) + 1 = r /\ (r - 2) + 1 = r - 1
        /\ r - 1 \in DOMAIN st /\ r - 2 \in DOMAIN st
    BY <1>0, <1>1
  <2>2. /\ Calls(s, st[r - 1], st[r]) /\ Calls(s, st[r - 2], st[r - 1])
        /\ Stays(s, c, st[r - 1]) /\ Stays(s, c, st[r - 2])
    BY <2>1 DEF Stacked
  <2>3. st[r - 1].op # "destroy" /\ (st[r - 2].op = "destroy" => r = 3)
    BY <1>1, <2>1 DEF Stacked
  <2>4. st[r - 1].op = "by_owner"
    BY <1>1, <2>2, <2>3 DEF Calls, Stays
  <2> QED BY <1>1, <2>2, <2>3, <2>4 DEF Calls, Stays
<1>2. ASSUME NEW r \in 1 .. n - 1, st[r].op = "partial", st[r].at = st[n].at
      PROVE  FALSE
  <2> DEFINE Ring == {st[q].at : q \in {x \in r + 1 .. n : st[x].op = "partial"}}
  <2>1. Ring \in SUBSET Taken(s)
    BY <1>0 DEF Stacked, Stays
  <2>2. st[n].at \in Ring
    BY <1>0
  <2>3. ASSUME NEW i \in Ring
        PROVE  \E j \in Ring : s[i].owner = s[j].ptr
    <3>1. PICK q \in r + 1 .. n : st[q].op = "partial" /\ i = st[q].at
      OBVIOUS
    <3>2. r # 1 => q > 2
      BY <1>0, <3>1
    <3>3. st[1].op = "destroy"
      BY <1>0 DEF Stacked
    <3>4. r > 1 /\ q > 2 /\ q \in 1 .. n
      BY <1>0, <1>2, <3>1, <3>2, <3>3
    <3>5. /\ st[q - 1].op = "by_owner" /\ i \in OwnedIn(s, st[q - 1].arg)
          /\ st[q - 2].op = "partial" \/ q = 3
          /\ st[q - 2].op = "partial" => st[q - 2].arg = st[q - 1].arg
      BY <3>1, <3>4, <1>1
    <3>6. q > r + 1
      <4>1. q = r + 1 => q - 1 = r
        BY <1>0
      <4> QED BY <4>1, <3>1, <3>5, <1>2, <1>0
    <3>7. st[q - 2].op = "partial" /\ q - 2 \in r .. n /\ q - 2 \in DOMAIN st
      BY <1>0, <3>4, <3>5, <3>6
    <3>8. s[st[q - 2].at].ptr = st[q - 2].arg /\ s[i].owner = st[q - 2].arg
      BY <3>5, <3>7 DEF Stacked, Stays, OwnedIn
    <3>9. st[q - 2].at \in Ring
      <4>1. CASE q - 2 = r
        BY <4>1, <1>2, <2>2
      <4>2. CASE q - 2 # r
        BY <4>2, <3>7, <1>0
      <4> QED BY <4>1, <4>2
    <3> QED BY <3>8, <3>9
  <2> HIDE DEF Ring
  <2> QED BY <2>1, <2>2, <2>3 DEF Acyclic
<1>3. ASSUME NEW r \in 1 .. n - 1, st[r].op = "destructors"
      PROVE  FALSE
  <2> DEFINE D == {x \in 0 .. n - r : st[r + x].op = "destructors"}
  <2>1. 0 \in D
    BY <1>0, <1>3
  <2>2. ASSUME NEW x \in 0 .. (n - r) - 1, x \in D
        PROVE  x + 1 \in D
    <3>0. n \in Nat /\ r \in 1 .. n - 1 /\ x \in 0 .. (n - r) - 1
      BY <1>0
    <3>1. r + x \in 1 .. n - 1 /\ (r + x) + 1 = r + (x + 1) /\ x + 1 \in 0 .. n - r
      BY <3>0
    <3>2. Calls(s, st[r + x], st[r + (x + 1)])
      BY <3>1 DEF Stacked
    <3> QED BY <3>1, <3>2, <2>2 DEF Calls
  <2>3. n - r \in Nat /\ n - r \in 0 .. n - r
    BY <1>0
  <2> HIDE DEF D
  <2>4. \A i \in 0 .. n - r : i \in D
    BY <2>1, <2>2, <2>3, InductionUpTo
  <2>5. n - r \in D
    BY <2>3, <2>4
  <2> QED BY <2>5, <1>0 DEF D
<1> QED BY <1>2, <1>3 DEF Spares

\* A frame with another stage or place is a frame.
LEMMA FrameFields ==
  ASSUME NEW f \in FrameSet, NEW j \in Nat,
         NEW x \in {"enter", "return", "children", "own", "free", "seek", "call"}
  PROVE  /\ LET g == [f EXCEPT !.stage = x]
            IN  g \in FrameSet /\ g.op = f.op /\ g.arg = f.arg /\ g.at = f.at /\ g.stage = x
         /\ LET g == [f EXCEPT !.at = j]
            IN  g \in FrameSet /\ g.op = f.op /\ g.arg = f.arg /\ g.at = j /\ g.stage = f.stage
         /\ LET g == [f EXCEPT !.at = j, !.stage = x]
            IN  g \in FrameSet /\ g.op = f.op /\ g.arg = f.arg /\ g.at = j /\ g.stage = x
BY DEF FrameSet

\* A frame that is made has what it is made of.
LEMMA NewFrame ==
  ASSUME NEW o \in {"destroy", "partial", "by_owner", "destructors"},
         NEW a \in Addr \cup {Context}, NEW j \in Nat,
         NEW x \in {"enter", "return", "children", "own", "free", "seek", "call"}
  PROVE  LET g == Frame(o, a, j, x)
         IN  g \in FrameSet /\ g.op = o /\ g.arg = a /\ g.at = j /\ g.stage = x
BY DEF FrameSet, Frame

-----------------------------------------------------------------------------
\* The invariant.
HeapInv ==
  /\ heap \subseteq Addr /\ scratch \in [Addr -> Addr \cup {NULL}]
  /\ phase \in {"open", "terminating", "swept", "ended"}
  /\ Stacked(slots, scratch, stack, phase)
  /\ phase = "ended" => slots = <<>> /\ next = 1
  /\ phase # "ended" => /\ Table(slots, next, heap)
                        /\ OwnersExist(slots) /\ Acyclic(slots) /\ ScratchSound(slots, scratch)
  /\ stack # <<>> => /\ phase \in {"open", "terminating"}
                     /\ OwnersMarked(slots) /\ Runs(slots, scratch, Top)
  /\ phase = "terminating" => ScratchAbove(slots, scratch)
  /\ phase = "swept" => OwnedIn(slots, Context) = {}

\* The slot found for an object is the one that has its record.
LEMMA SlotFound ==
  ASSUME NEW i \in Taken(slots), \A j, l \in Taken(slots) : slots[j].ptr = slots[l].ptr => j = l,
         slots \in Seq(Record)
  PROVE  SlotOf(slots[i].ptr) = i
<1>1. i \in DOMAIN slots /\ slots[i].ptr # NULL
  BY DEF Taken
<1>2. \A j \in DOMAIN slots : slots[j].ptr = slots[i].ptr => j = i
  BY <1>1 DEF Taken
<1>3. IsSlotOf(i, slots[i].ptr)
  BY <1>1, <1>2 DEF IsSlotOf
<1>4. \A j : IsSlotOf(j, slots[i].ptr) => j = i
  BY <1>2 DEF IsSlotOf
<1> QED BY <1>1, <1>3, <1>4 DEF SlotOf

\* What the invariant says of the innermost frame.
LEMMA TopFacts ==
  ASSUME HeapInv, stack # <<>>
  PROVE  /\ phase \in {"open", "terminating"} /\ OwnersMarked(slots) /\ Runs(slots, scratch, Top)
         /\ Table(slots, next, heap) /\ OwnersExist(slots) /\ Acyclic(slots)
         /\ ScratchSound(slots, scratch)
         /\ stack \in Seq(FrameSet) /\ Len(stack) \in Nat /\ Len(stack) >= 1 /\ DOMAIN stack = 1 .. Len(stack)
         /\ Top = stack[Len(stack)] /\ Top \in FrameSet /\ Stays(slots, scratch, Top)
         /\ Top.op = "destroy" <=> Len(stack) = 1
         /\ Top.arg = Context => phase = "terminating"
         /\ Len(stack) > 1 => /\ stack[Len(stack) - 1] \in FrameSet
                              /\ Stays(slots, scratch, stack[Len(stack) - 1])
                              /\ Calls(slots, stack[Len(stack) - 1], Top)
         /\ slots \in Seq(Record) /\ Follows(slots, slots, 0)
         /\ Spares(stack, Len(stack), 0)
<1> DEFINE n == Len(stack)
<1>1. stack \in Seq(FrameSet) /\ n \in Nat /\ n >= 1 /\ DOMAIN stack = 1 .. n /\ Top = stack[n] /\ Top \in FrameSet
  BY DEF HeapInv, Stacked, Top
<1>2. /\ phase \in {"open", "terminating"} /\ OwnersMarked(slots) /\ Runs(slots, scratch, Top)
      /\ Table(slots, next, heap) /\ OwnersExist(slots) /\ Acyclic(slots) /\ ScratchSound(slots, scratch)
      /\ Stacked(slots, scratch, stack, phase)
  BY DEF HeapInv
<1>3. Stays(slots, scratch, Top)
  BY <1>1, <1>2 DEF Stacked
<1>4. Top.arg = Context => phase = "terminating"
  BY <1>1, <1>2 DEF Stacked
<1>5. n > 1 => /\ stack[n - 1] \in FrameSet /\ Stays(slots, scratch, stack[n - 1])
               /\ Calls(slots, stack[n - 1], Top)
  <2>1. n > 1 => n - 1 \in 1 .. n - 1 /\ n - 1 \in DOMAIN stack /\ (n - 1) + 1 = n
    BY <1>1
  <2> QED BY <1>1, <1>2, <2>1 DEF Stacked
<1>6. slots \in Seq(Record) /\ Follows(slots, slots, 0)
  BY <1>2, FollowsItself DEF Table
<1>7. Spares(stack, n, 0)
  <2> SUFFICES ASSUME NEW r \in 1 .. n - 1,
                      stack[r].op = "partial" \/ (stack[r].op = "destructors" /\ stack[r].stage = "call")
               PROVE  stack[r].at # 0
    BY DEF Spares
  <2>1. Stays(slots, scratch, stack[r])
    BY <1>1, <1>2 DEF Stacked
  <2>2. stack[r].at \in DOMAIN slots
    BY <2>1 DEF Stays, OwnedIn, Taken
  <2> QED BY <1>6, <2>2
<1>8. Top.op = "destroy" <=> n = 1
  BY <1>1, <1>2 DEF Stacked
<1> QED BY <1>1, <1>2, <1>3, <1>4, <1>5, <1>6, <1>7, <1>8

\* A step of a destruction that goes on keeps the invariant if it keeps the table, and
\* the calls on the stack.
LEMMA DestructionKeeps ==
  ASSUME HeapInv, stack # <<>>, stack' # <<>>, phase' = phase,
         Table(slots', next', heap'), NEW k, Follows(slots, slots', k),
         k \in Taken(slots) => OwnedIn(slots, slots[k].ptr) = {},
         scratch' \in [Addr -> Addr \cup {NULL}],
         \A d \in Addr : scratch'[d] = scratch[d] \/ scratch'[d] = NULL,
         \A d \in Addr : scratch'[d] # NULL /\ k \in Taken(slots) => slots[k].ptr # d /\ slots[k].ptr # scratch[d],
         Stacked(slots', scratch', stack', phase'), Runs(slots', scratch', stack'[Len(stack')])
  PROVE  HeapInv'
<1>1. /\ phase \in {"open", "terminating"} /\ OwnersMarked(slots)
      /\ OwnersExist(slots) /\ Acyclic(slots) /\ ScratchSound(slots, scratch)
      /\ phase = "terminating" => ScratchAbove(slots, scratch)
  BY DEF HeapInv
<1>2. OwnersMarked(slots') /\ OwnersExist(slots') /\ Acyclic(slots')
  BY <1>1, FollowsMarked, FollowsOwners, FollowsAcyclic
<1>3. ScratchSound(slots', scratch') /\ (phase = "terminating" => ScratchAbove(slots', scratch'))
  BY <1>1, FollowsScratch
<1>4. heap' \subseteq Addr
  BY DEF Table
<1>5. Top' = stack'[Len(stack')]
  BY DEF Top
<1> QED BY <1>1, <1>2, <1>3, <1>4, <1>5 DEF HeapInv

\* A step that moves only in the stack keeps the invariant.
LEMMA WalkKeeps ==
  ASSUME HeapInv, stack # <<>>, stack' # <<>>, UNCHANGED <<slots, next, heap, scratch, phase>>,
         Stacked(slots, scratch, stack', phase), Runs(slots, scratch, stack'[Len(stack')])
  PROVE  HeapInv'
<1>1. Table(slots, next, heap) /\ Follows(slots, slots, 0) /\ slots \in Seq(Record)
  BY TopFacts
<1>2. 0 \notin Taken(slots)
  BY <1>1 DEF Taken
<1>3. scratch \in [Addr -> Addr \cup {NULL}]
  BY DEF HeapInv
<1> QED BY <1>1, <1>2, <1>3, DestructionKeeps

\* The stack after a call that leaves the table alone.
LEMMA CallWalks ==
  ASSUME HeapInv, stack # <<>>, UNCHANGED <<slots, next, heap, scratch, phase>>,
         NEW f \in FrameSet, Stays(slots, scratch, f), f.op = Top.op, f.arg = Top.arg,
         f.op = "partial" => f.at = Top.at,
         NEW g \in FrameSet, Stays(slots, scratch, g), g.op # "destroy", g.arg = Context => f.arg = Context,
         Calls(slots, f, g), Runs(slots, scratch, g), Call(f, g)
  PROVE  HeapInv'
<1>1. Stacked(slots, scratch, stack, phase) /\ stack \in Seq(FrameSet)
  BY DEF HeapInv, Stacked
<1>2. f.op = "partial" => f.at # 0
  BY TopFacts DEF Stays, Taken
<1>3. Stacked(slots, scratch, stack', phase)
  BY <1>1, <1>2, TopFacts, CallKeeps DEF Call, Below, Top
<1>4. stack' # <<>> /\ stack'[Len(stack')] = g
  BY <1>1, Pieces DEF Call, Below
<1> QED BY <1>3, <1>4, WalkKeeps

\* The innermost frame may go on to its next stage.
LEMMA BecomeWalks ==
  ASSUME HeapInv, stack # <<>>, UNCHANGED <<slots, next, heap, scratch, phase>>,
         NEW f \in FrameSet, Stays(slots, scratch, f), f.op = Top.op, f.arg = Top.arg,
         f.op = "partial" => f.at = Top.at, Runs(slots, scratch, f), Become(f)
  PROVE  HeapInv'
<1>1. Stacked(slots, scratch, stack, phase) /\ stack \in Seq(FrameSet)
  BY DEF HeapInv, Stacked
<1>2. f.op = "partial" => f.at # 0
  BY TopFacts DEF Stays, Taken
<1>3. Stacked(slots, scratch, stack', phase)
  BY <1>1, <1>2, TopFacts, BecomeKeeps DEF Become, Below, Top
<1>4. stack' # <<>> /\ stack'[Len(stack')] = f
  BY <1>1, Pieces DEF Become, Below
<1> QED BY <1>3, <1>4, WalkKeeps

\* The innermost frame may return to the one below.
LEMMA ReturnWalks ==
  ASSUME HeapInv, stack # <<>>, UNCHANGED <<slots, next, heap, scratch, phase>>,
         Len(stack) > 1, Runs(slots, scratch, stack[Len(stack) - 1]), stack' = Below
  PROVE  HeapInv'
<1>1. Stacked(slots, scratch, stack, phase) /\ stack \in Seq(FrameSet)
  BY DEF HeapInv, Stacked
<1>2. Stacked(slots, scratch, stack', phase)
  BY <1>1, TopFacts, ReturnKeeps DEF Below
<1>3. stack' # <<>> /\ stack'[Len(stack')] = stack[Len(stack) - 1]
  <2>1. /\ Len(stack) \in Nat /\ Top \in FrameSet /\ Len(Below) = Len(stack) - 1
        /\ \A q \in 1 .. Len(stack) - 1 : Below[q] = stack[q]
    BY <1>1, TopFacts, Pieces DEF Below
  <2>2. Len(stack) - 1 \in 1 .. Len(stack) - 1
    BY <2>1
  <2>3. Below # <<>>
    BY <2>1
  <2> QED BY <2>1, <2>2, <2>3
<1> QED BY <1>2, <1>3, WalkKeeps

-----------------------------------------------------------------------------
\* The steps of a destruction.
LEMMA EnterDestroyKeeps ==
  ASSUME HeapInv, EnterDestroy
  PROVE  HeapInv'
<1>1. stack # <<>> /\ Top.op = "destroy" /\ Top.stage = "enter"
  BY DEF EnterDestroy, Running
<1> DEFINE f == [Top EXCEPT !.stage = "return"]
           g == IF Top.arg = Context THEN Frame("by_owner", Context, 1, "seek")
                                     ELSE Frame("partial", Top.arg, SlotOf(Top.arg), "children")
<1>2. f \in FrameSet /\ f.op = "destroy" /\ f.arg = Top.arg /\ f.stage = "return" /\ f.at = Top.at
  <2>1. Top \in FrameSet /\ 0 \in Nat
    BY <1>1, TopFacts
  <2> QED BY <1>1, <2>1 DEF FrameSet
<1>3. Stays(slots, scratch, f)
  BY <1>1, <1>2, TopFacts DEF Stays, FrameSet
<1>4. /\ g \in FrameSet /\ g.arg = f.arg /\ Stays(slots, scratch, g) /\ Runs(slots, scratch, g)
      /\ g.op = IF f.arg = Context THEN "by_owner" ELSE "partial"
  <2>1. CASE Top.arg = Context
    <3>0. g = Frame("by_owner", Context, 1, "seek")
      BY <2>1
    <3> HIDE DEF g
    <3>1. g \in FrameSet /\ g.op = "by_owner" /\ g.arg = Context /\ g.at = 1 /\ g.stage = "seek"
      BY <3>0, NewFrame
    <3>2. \A i \in OwnedIn(slots, Context) : i >= 1
      BY TopFacts, <1>1 DEF OwnedIn, Taken
    <3> QED BY <2>1, <1>2, <3>1, <3>2 DEF Stays, Runs
  <2>2. CASE Top.arg # Context
    <3>1. Top.arg \in Addr
      BY <2>2, <1>1, TopFacts DEF Stays
    <3>2. PICK i \in Taken(slots) : slots[i].ptr = Top.arg
      BY <2>2, <1>1, TopFacts DEF Runs
    <3>3. SlotOf(Top.arg) = i /\ i \in Nat
      BY <3>2, <1>1, TopFacts, SlotFound DEF Table, Taken
    <3>4. \A d \in Addr : scratch[d] # Top.arg
      BY <2>2, <1>1, TopFacts DEF Runs
    <3>0. g = Frame("partial", Top.arg, i, "children")
      BY <2>2, <3>3
    <3> HIDE DEF g
    <3>5. g \in FrameSet /\ g.op = "partial" /\ g.arg = Top.arg /\ g.at = i /\ g.stage = "children"
      BY <3>0, <3>1, <3>3, NewFrame
    <3>6. Stays(slots, scratch, g)
      BY <3>1, <3>2, <3>3, <3>4, <3>5 DEF Stays
    <3>7. Runs(slots, scratch, g)
      BY <3>5 DEF Runs
    <3> QED BY <2>2, <1>2, <3>5, <3>6, <3>7
  <2> QED BY <2>1, <2>2
<1>5. Call(f, g) /\ UNCHANGED <<slots, next, heap, scratch, phase>>
  BY DEF EnterDestroy
<1> HIDE DEF f, g
<1>6. Calls(slots, f, g)
  BY <1>2, <1>4 DEF Calls
<1>7. g.op # "destroy"
  BY <1>4
<1> QED BY <1>1, <1>2, <1>3, <1>4, <1>5, <1>6, <1>7, CallWalks

\* Returning from a destruction keeps the invariant.
LEMMA ReturnDestroyKeeps ==
  ASSUME HeapInv, ReturnDestroy
  PROVE  HeapInv'
<1>1. stack # <<>> /\ Top.op = "destroy" /\ Top.stage = "return"
  BY DEF ReturnDestroy, Running
<1>2. Len(stack) = 1 /\ Top = stack[1]
  BY <1>1, TopFacts
<1>3. stack' = <<>>
  BY <1>1, <1>2, TopFacts DEF ReturnDestroy, Below
<1>4. OwnedIn(slots, Top.arg) = {}
  BY <1>1, TopFacts DEF Runs
<1>5. phase = "terminating" => Top.arg = Context
  BY <1>2 DEF HeapInv, Stacked
<1>6. UNCHANGED <<slots, next, heap, scratch>> /\ phase' = IF phase = "terminating" THEN "swept" ELSE phase
  BY DEF ReturnDestroy
<1>7. phase' \in {"open", "swept"}
  BY <1>1, <1>6, TopFacts
<1>8. Stacked(slots, scratch, <<>>, phase')
  BY <1>7 DEF Stacked
<1> QED BY <1>1, <1>3, <1>4, <1>5, <1>6, <1>7, <1>8, TopFacts DEF HeapInv

\* A record that is in use is of an address, and no other record is.
LEMMA Records ==
  ASSUME NEW s, NEW n, NEW h, Table(s, n, h), NEW i \in Taken(s)
  PROVE  /\ i \in Nat \ {0} /\ i \in 1 .. Len(s) /\ i \in DOMAIN s /\ s[i] \in Record
         /\ s[i].ptr \in Addr /\ s[i].ptr # Context /\ s[i].ptr # NULL
         /\ \A j \in Taken(s) : s[j].ptr = s[i].ptr => j = i
<1>1. s \in Seq(Record) /\ i \in DOMAIN s
  BY DEF Table, Taken
<1>2. s[i] \in Record /\ i \in Nat \ {0} /\ i \in 1 .. Len(s)
  BY <1>1
<1>3. s[i].ptr \in Addr /\ s[i].ptr # NULL
  BY <1>2 DEF Record, Taken
<1> QED BY <1>1, <1>2, <1>3, HeapAssumption DEF Table

\* Looking for the next object owned keeps the invariant.
LEMMA SeekChildKeeps ==
  ASSUME HeapInv, SeekChild
  PROVE  HeapInv'
<1>1. stack # <<>> /\ Top.op = "destructors" /\ Top.stage = "seek"
  BY DEF SeekChild, Running
<1>2. PICK j \in Used :
        /\ IsNextOwned(Top.arg, Top.at, j)
        /\ LET here == [Top EXCEPT !.at = j, !.stage = "call"]
           IN  IF slots[j].isOwner THEN Call(here, Frame("destructors", slots[j].ptr, 1, "seek"))
                                   ELSE Become(here)
  BY DEF SeekChild
<1>3. UNCHANGED <<slots, next, heap, scratch, phase>>
  BY DEF SeekChild
<1> DEFINE f == [Top EXCEPT !.at = j, !.stage = "call"]
           g == Frame("destructors", slots[j].ptr, 1, "seek")
<1>4. /\ j \in Taken(slots) /\ j \in OwnedIn(slots, Top.arg) /\ j \in Nat /\ j >= Top.at
      /\ \A i \in OwnedIn(slots, Top.arg) : i >= Top.at => j <= i
      /\ slots[j].ptr \in Addr /\ slots[j].ptr # Context
  <2>1. j \in Taken(slots)
    BY DEF Used, Taken
  <2>2. j \in Nat /\ slots[j].ptr \in Addr /\ slots[j].ptr # Context
    BY <1>1, <2>1, TopFacts, Records
  <2> QED BY <1>2, <2>1, <2>2 DEF IsNextOwned, Used, Taken, OwnedIn
<1>5. Top \in FrameSet /\ Stays(slots, scratch, Top) /\ OwnersMarked(slots) /\ Table(slots, next, heap)
  BY <1>1, TopFacts
<1>6. f \in FrameSet /\ f.op = "destructors" /\ f.arg = Top.arg /\ f.stage = "call" /\ f.at = j
  BY <1>1, <1>4, <1>5 DEF FrameSet
<1>7. g \in FrameSet /\ g.op = "destructors" /\ g.arg = slots[j].ptr /\ g.stage = "seek" /\ g.at = 1
  BY <1>4, NewFrame
<1>8. IF slots[j].isOwner THEN Call(f, g) ELSE Become(f)
  BY <1>2
<1> HIDE DEF f, g
<1>9. Stays(slots, scratch, f)
  <2>1. ASSUME NEW i \in OwnedIn(slots, Top.arg), i < j, slots[i].destructor
        PROVE  slots[i].called
    <3>1. i \in Nat /\ Top.at \in Nat
      BY <1>5, Records DEF OwnedIn, FrameSet
    <3>2. i < Top.at
      BY <2>1, <3>1, <1>4
    <3> QED BY <3>2, <2>1, <1>1, <1>5 DEF Stays
  <2>2. Top.arg \in Addr
    BY <1>1, <1>5 DEF Stays
  <2> QED BY <1>4, <1>6, <2>1, <2>2 DEF Stays
<1>10. CASE slots[j].isOwner
  <2>1. Stays(slots, scratch, g)
    <3>1. \A i \in OwnedIn(slots, g.arg) : ~(i < 1)
      BY <1>5, Records DEF OwnedIn
    <3>2. g.arg \in Addr
      BY <1>4, <1>7
    <3> QED BY <1>7, <3>1, <3>2 DEF Stays
  <2>2. Calls(slots, f, g) /\ Runs(slots, scratch, g)
    BY <1>6, <1>7 DEF Calls, Runs
  <2>3. g.op # "destroy" /\ g.arg # Context /\ f.op # "partial"
    BY <1>4, <1>6, <1>7
  <2> QED BY <1>1, <1>3, <1>6, <1>7, <1>8, <1>9, <1>10, <2>1, <2>2, <2>3, CallWalks
<1>11. CASE ~slots[j].isOwner
  <2>1. OwnedIn(slots, slots[j].ptr) = {}
    BY <1>4, <1>5, <1>11 DEF OwnersMarked, OwnedIn
  <2>2. Runs(slots, scratch, f)
    BY <1>6, <2>1 DEF Runs, Quiet
  <2>3. f.op # "partial"
    BY <1>6
  <2> QED BY <1>1, <1>3, <1>6, <1>8, <1>9, <1>11, <2>2, <2>3, BecomeWalks
<1> QED BY <1>10, <1>11

\* Having called all destructors keeps the invariant.
LEMMA DestructorsDoneKeeps ==
  ASSUME HeapInv, DestructorsDone
  PROVE  HeapInv'
<1>1. /\ stack # <<>> /\ Top.op = "destructors" /\ Top.stage = "seek"
      /\ NoneOwned(Top.arg, Top.at) /\ stack' = Below /\ UNCHANGED <<slots, next, heap, scratch, phase>>
  BY DEF DestructorsDone, Running
<1> DEFINE f == stack[Len(stack) - 1]
<1>2. /\ Len(stack) > 1 /\ Stays(slots, scratch, Top) /\ Top \in FrameSet
      /\ Stays(slots, scratch, f) /\ Calls(slots, f, Top) /\ Table(slots, next, heap)
  BY <1>1, TopFacts
<1> HIDE DEF f
<1>3. Quiet(slots, Top.arg)
  <2> SUFFICES ASSUME NEW i \in OwnedIn(slots, Top.arg), slots[i].destructor
               PROVE  slots[i].called
    BY DEF Quiet
  <2>1. i \in Used /\ slots[i].owner = Top.arg /\ i \in Nat /\ Top.at \in Nat
    BY <1>2, Records DEF Used, OwnedIn, Taken, FrameSet
  <2>2. i < Top.at
    BY <1>1, <2>1 DEF NoneOwned
  <2> QED BY <1>1, <1>2, <2>2 DEF Stays
<1>4. Runs(slots, scratch, f)
  BY <1>1, <1>2, <1>3 DEF Calls, Stays, Runs
<1> QED BY <1>1, <1>2, <1>4, ReturnWalks DEF f

\* Beginning with what an object owns keeps the invariant.
LEMMA PartialChildrenKeeps ==
  ASSUME HeapInv, PartialChildren
  PROVE  HeapInv'
<1>1. /\ stack # <<>> /\ Top.op = "partial" /\ Top.stage = "children"
      /\ UNCHANGED <<slots, next, heap, scratch, phase>>
  BY DEF PartialChildren, Running
<1> DEFINE f == [Top EXCEPT !.stage = "own"]
           g == Frame("destructors", Top.arg, 1, "seek")
<1>2. IF slots[Top.at].isOwner THEN Call(f, g) ELSE Become(f)
  BY DEF PartialChildren
<1>3. /\ Top \in FrameSet /\ Stays(slots, scratch, Top) /\ OwnersMarked(slots) /\ Table(slots, next, heap)
      /\ Top.arg \in Addr /\ Top.arg # Context /\ Top.at \in Taken(slots) /\ slots[Top.at].ptr = Top.arg
  BY <1>1, TopFacts, HeapAssumption DEF Stays
<1>4. f \in FrameSet /\ f.op = "partial" /\ f.arg = Top.arg /\ f.stage = "own" /\ f.at = Top.at
  BY <1>1, <1>3 DEF FrameSet
<1>5. g \in FrameSet /\ g.op = "destructors" /\ g.arg = Top.arg /\ g.stage = "seek" /\ g.at = 1
  BY <1>3, NewFrame
<1> HIDE DEF f, g
<1>6. Stays(slots, scratch, f)
  BY <1>1, <1>3, <1>4 DEF Stays
<1>7. CASE slots[Top.at].isOwner
  <2>1. Stays(slots, scratch, g)
    <3>1. \A i \in OwnedIn(slots, g.arg) : ~(i < 1)
      BY <1>3, Records DEF OwnedIn
    <3> QED BY <1>3, <1>5, <3>1 DEF Stays
  <2>2. Calls(slots, f, g) /\ Runs(slots, scratch, g)
    BY <1>4, <1>5 DEF Calls, Runs
  <2>3. g.op # "destroy" /\ g.arg # Context /\ f.op = Top.op
    BY <1>1, <1>3, <1>4, <1>5
  <2> QED BY <1>1, <1>2, <1>4, <1>5, <1>6, <1>7, <2>1, <2>2, <2>3, CallWalks
<1>8. CASE ~slots[Top.at].isOwner
  <2>1. OwnedIn(slots, Top.arg) = {}
    BY <1>3, <1>8 DEF OwnersMarked, OwnedIn
  <2>2. Runs(slots, scratch, f)
    BY <1>4, <2>1 DEF Runs, Quiet
  <2>3. f.op = Top.op
    BY <1>1, <1>4
  <2> QED BY <1>1, <1>2, <1>4, <1>6, <1>8, <2>2, <2>3, BecomeWalks
<1> QED BY <1>7, <1>8

\* Having destroyed all that is owned keeps the invariant.
LEMMA DestroyedOwnedKeeps ==
  ASSUME HeapInv, DestroyedOwned
  PROVE  HeapInv'
<1>1. /\ stack # <<>> /\ Top.op = "by_owner"
      /\ NoneOwned(Top.arg, Top.at) /\ stack' = Below /\ UNCHANGED <<slots, next, heap, scratch, phase>>
  BY DEF DestroyedOwned, Running
<1> DEFINE f == stack[Len(stack) - 1]
<1>2. /\ Len(stack) > 1 /\ Runs(slots, scratch, Top) /\ Top \in FrameSet
      /\ Stays(slots, scratch, f) /\ Calls(slots, f, Top) /\ Table(slots, next, heap)
  BY <1>1, TopFacts
<1> HIDE DEF f
<1>3. OwnedIn(slots, Top.arg) = {}
  <2> SUFFICES ASSUME NEW i \in OwnedIn(slots, Top.arg)
               PROVE  FALSE
    OBVIOUS
  <2>1. i \in Used /\ slots[i].owner = Top.arg
    BY DEF Used, OwnedIn, Taken
  <2>2. i >= Top.at
    BY <1>1, <1>2 DEF Runs
  <2> QED BY <1>1, <2>1, <2>2 DEF NoneOwned
<1>4. \A i \in Taken(slots) : slots[i].ptr # Context
  BY <1>2, Records
<1>5. Runs(slots, scratch, f)
  BY <1>1, <1>2, <1>3, <1>4 DEF Calls, Stays, Runs
<1> QED BY <1>1, <1>2, <1>5, ReturnWalks DEF f

\* Nothing that is on the stack, or owned by it, is what a decoder works with.
LEMMA DestroyNextOwnedKeeps ==
  ASSUME HeapInv, DestroyNextOwned
  PROVE  HeapInv'
<1>1. stack # <<>> /\ Top.op = "by_owner" /\ UNCHANGED <<slots, next, heap, scratch, phase>>
  BY DEF DestroyNextOwned, Running
<1>2. PICK j \in Used :
        /\ IsNextOwned(Top.arg, Top.at, j)
        /\ Call([Top EXCEPT !.at = j + 1], Frame("partial", slots[j].ptr, j, "children"))
  BY DEF DestroyNextOwned
<1> DEFINE f == [Top EXCEPT !.at = j + 1]
           g == Frame("partial", slots[j].ptr, j, "children")
<1>3. /\ Top \in FrameSet /\ Stays(slots, scratch, Top) /\ Runs(slots, scratch, Top)
      /\ Table(slots, next, heap) /\ ScratchSound(slots, scratch)
      /\ Top.arg = Context => phase = "terminating"
  BY <1>1, TopFacts
<1>4. /\ j \in Taken(slots) /\ j \in OwnedIn(slots, Top.arg) /\ j \in Nat /\ j + 1 \in Nat
      /\ \A i \in OwnedIn(slots, Top.arg) : i >= j
  <2>1. j \in Taken(slots) /\ j \in OwnedIn(slots, Top.arg)
    BY <1>2 DEF Used, Taken, IsNextOwned, OwnedIn
  <2>2. j \in Nat /\ j + 1 \in Nat
    BY <1>3, <2>1, Records
  <2>3. ASSUME NEW i \in OwnedIn(slots, Top.arg)
        PROVE  i >= j
    <3>1. i >= Top.at /\ i \in Used /\ slots[i].owner = Top.arg /\ i \in Nat
      BY <1>1, <1>3, Records DEF Runs, OwnedIn, Used, Taken
    <3>2. j <= i
      BY <1>2, <3>1 DEF IsNextOwned
    <3> QED BY <2>2, <3>1, <3>2
  <2> QED BY <2>1, <2>2, <2>3
<1>5. slots[j].ptr \in Addr /\ slots[j].ptr # Context /\ \A i \in Taken(slots) : slots[i].ptr = slots[j].ptr => i = j
  BY <1>3, <1>4, Records
<1>6. f \in FrameSet /\ f.op = "by_owner" /\ f.arg = Top.arg /\ f.at = j + 1
  BY <1>1, <1>3, <1>4 DEF FrameSet
<1>7. g \in FrameSet /\ g.op = "partial" /\ g.arg = slots[j].ptr /\ g.stage = "children" /\ g.at = j
  BY <1>4, <1>5, NewFrame
<1>8. Call(f, g)
  BY <1>2
<1> HIDE DEF f, g
<1>9. Stays(slots, scratch, f)
  BY <1>1, <1>3, <1>4, <1>6 DEF Stays
<1>10. ASSUME NEW d \in Addr, scratch[d] = slots[j].ptr
       PROVE  FALSE
  <2>1. PICK i \in Taken(slots), k \in Taken(slots) : HasScratch(slots, i, k, scratch, d)
    BY <1>3, <1>5, <1>10, HeapAssumption DEF ScratchSound
  <2>2. k = j /\ slots[j].owner = Context
    BY <1>5, <1>10, <2>1 DEF HasScratch
  <2>3. Top.arg = Context /\ phase = "terminating"
    BY <1>3, <1>4, <2>2 DEF OwnedIn
  <2>4. i < j
    <3>1. ScratchAbove(slots, scratch) /\ scratch[d] # NULL
      BY <2>3, <1>5, <1>10, HeapAssumption DEF HeapInv
    <3> QED BY <3>1, <2>1, <2>2 DEF ScratchAbove, HasScratch
  <2>5. i \in OwnedIn(slots, Top.arg) /\ i \in Nat
    BY <2>1, <2>3, <1>3, Records DEF HasScratch, OwnedIn
  <2> QED BY <1>4, <2>4, <2>5
<1>11. Stays(slots, scratch, g)
  <2>1. g.arg \in Addr /\ g.at \in Taken(slots) /\ slots[g.at].ptr = g.arg /\ g.at \in Nat
    BY <1>4, <1>5, <1>7
  <2>2. \A d \in Addr : scratch[d] # g.arg
    BY <1>7, <1>10
  <2> QED BY <1>7, <2>1, <2>2 DEF Stays
<1>12. Calls(slots, f, g)
  <2>1. \A i \in OwnedIn(slots, f.arg) : i >= f.at \/ i = g.at
    <3>1. \A i \in OwnedIn(slots, Top.arg) : i \in Nat /\ i >= j
      BY <1>3, <1>4, Records DEF OwnedIn
    <3>2. j \in Nat /\ f.at = j + 1 /\ g.at = j /\ f.arg = Top.arg
      BY <1>4, <1>6, <1>7
    <3> QED BY <3>1, <3>2
  <2>2. g.at \in OwnedIn(slots, f.arg)
    BY <1>4, <1>6, <1>7
  <2> QED BY <1>6, <1>7, <2>1, <2>2 DEF Calls
<1>13. Runs(slots, scratch, g)
  BY <1>7 DEF Runs
<1>14. g.op # "destroy" /\ g.arg # Context /\ f.op = Top.op /\ f.op # "partial"
  BY <1>1, <1>5, <1>6, <1>7
<1> QED BY <1>1, <1>6, <1>7, <1>8, <1>9, <1>11, <1>12, <1>13, <1>14, CallWalks

\* A destructor is called, at most once, and frees what its decoder works with.
LEMMA DestructorCalled ==
  ASSUME HeapInv, stack # <<>>, NEW i \in Taken(slots), CallDestructor(i)
  PROVE  /\ phase' = phase /\ Table(slots', next', heap')
         /\ scratch' \in [Addr -> Addr \cup {NULL}]
         /\ \A d \in Addr : scratch'[d] = scratch[d] \/ scratch'[d] = NULL
         /\ \E k \in Nat :
              /\ Follows(slots, slots', k)
              /\ k # 0 => /\ k \in Taken(slots) /\ k # i /\ slots[k].owner = Context
                          /\ slots[i].owner = Context
                          /\ OwnedIn(slots, slots[k].ptr) = {}
                          /\ slots[k].ptr = scratch[slots[i].ptr]
                          /\ ~slots[k].destructor
              /\ \A d \in Addr : scratch'[d] # NULL /\ k \in Taken(slots) =>
                                  slots[k].ptr # d /\ slots[k].ptr # scratch[d]
         /\ i \in Taken(slots') /\ (slots'[i].destructor => slots'[i].called)
         /\ \A j \in DOMAIN slots \ {i} : slots'[j] = slots[j] \/ slots'[j] = Cleared
<1>1. /\ Table(slots, next, heap) /\ ScratchSound(slots, scratch) /\ slots \in Seq(Record)
      /\ Follows(slots, slots, 0) /\ 0 \notin Taken(slots)
  BY TopFacts DEF Taken
<1>2. /\ i \in DOMAIN slots /\ slots[i].ptr \in Addr /\ slots[i].ptr # NULL
      /\ \A j \in Taken(slots) : slots[j].ptr = slots[i].ptr => j = i
  BY <1>1, Records
<1>3. scratch \in [Addr -> Addr \cup {NULL}]
  BY DEF HeapInv
<1> DEFINE marked == [slots EXCEPT ![i].called = TRUE]
           d0 == slots[i].ptr
<1>4. CASE ~slots[i].destructor \/ slots[i].called
  <2>1. UNCHANGED <<slots, next, heap, scratch, phase>>
    BY <1>4 DEF CallDestructor
  <2> QED BY <1>1, <1>3, <1>4, <2>1
<1>5. /\ Table(marked, next, heap) /\ Follows(slots, marked, 0)
      /\ marked[i].called /\ \A j \in DOMAIN slots \ {i} : marked[j] = slots[j]
  BY <1>1, Marked
<1>6. CASE slots[i].destructor /\ ~slots[i].called /\ scratch[d0] = NULL
  <2>1. slots' = marked /\ UNCHANGED <<next, heap, scratch, phase>>
    BY <1>6 DEF CallDestructor
  <2> HIDE DEF marked
  <2>2. i \in Taken(marked)
    BY <1>1, <1>2, <1>5, FollowsTaken
  <2> QED BY <1>1, <1>3, <1>5, <2>1, <2>2
<1>7. CASE slots[i].destructor /\ ~slots[i].called /\ scratch[d0] # NULL
  <2>1. FreeScratch(d0, marked)
    BY <1>7 DEF CallDestructor
  <2>2. PICK x \in Taken(slots), k \in Taken(slots) : HasScratch(slots, x, k, scratch, d0)
    BY <1>1, <1>2, <1>7 DEF ScratchSound
  <2>3. /\ x = i /\ slots[i].owner = Context /\ slots[k].owner = Context /\ slots[k].ptr = scratch[d0]
        /\ ~slots[k].destructor /\ k # i
    BY <1>2, <1>7, <2>2 DEF HasScratch
  <2>4. SlotOf(scratch[d0]) = k /\ scratch[d0] \in Tracked
    <3>1. k \in Used
      BY DEF Used, Taken
    <3>2. SlotOf(slots[k].ptr) = k
      BY <1>1, SlotFound DEF Table
    <3> QED BY <2>3, <3>1, <3>2 DEF Tracked
  <2>5. /\ slots' = [marked EXCEPT ![k] = Cleared] /\ heap' = heap \ {scratch[d0]}
        /\ next' = IF next > k THEN k ELSE next
        /\ scratch' = [scratch EXCEPT ![d0] = NULL] /\ phase' = phase
    BY <2>1, <2>4 DEF FreeScratch, Clear, Lower
  <2> HIDE DEF marked
  <2>6. k \in Taken(marked) /\ marked[k].ptr = scratch[d0] /\ DOMAIN marked = DOMAIN slots /\ k \in Nat /\ k # 0
    <3>1. k \in Taken(marked) /\ k # 0 /\ k \in Nat
      BY <1>1, <1>5, FollowsTaken, Records
    <3> QED BY <1>1, <1>5, <2>3, <3>1, FollowsTaken DEF Follows
  <2>7. Table(slots', next', heap') /\ Follows(marked, slots', k)
    <3>1. /\ Table([marked EXCEPT ![k] = Cleared], IF next > k THEN k ELSE next, heap \ {marked[k].ptr})
          /\ Follows(marked, [marked EXCEPT ![k] = Cleared], k)
      BY <1>5, <2>6, Emptied
    <3> QED BY <2>5, <2>6, <3>1
  <2>8. Follows(slots, slots', k)
    <3>1. /\ slots' \in Seq(Record) /\ Len(slots') = Len(slots) /\ DOMAIN slots' = DOMAIN slots
          /\ k \in DOMAIN slots => slots'[k] = Cleared
      BY <1>5, <2>7 DEF Follows
    <3>2. ASSUME NEW j \in DOMAIN slots \ {k}
          PROVE  /\ slots'[j].ptr = slots[j].ptr /\ slots'[j].owner = slots[j].owner
                 /\ slots'[j].destructor = slots[j].destructor /\ slots'[j].isOwner = slots[j].isOwner
                 /\ slots[j].called => slots'[j].called
      <4>1. j \in DOMAIN slots \ {0} /\ j \in DOMAIN marked \ {k}
        BY <1>1, <2>6
      <4> QED BY <1>5, <2>7, <4>1 DEF Follows
    <3> QED BY <3>1, <3>2 DEF Follows
  <2>9. \A d \in Addr : scratch'[d] # NULL => d # d0 /\ scratch'[d] = scratch[d]
    BY <1>2, <1>3, <2>5
  <2>10. OwnedIn(slots, slots[k].ptr) = {} /\ \A e \in Addr : scratch[e] = scratch[d0] => e = d0
    BY <1>1, <1>2, <1>7, <2>3 DEF ScratchSound
  <2>11. ASSUME NEW d \in Addr, scratch'[d] # NULL
         PROVE  slots[k].ptr # d /\ slots[k].ptr # scratch[d]
    <3>1. d # d0 /\ scratch[d] # NULL /\ slots[k].ptr # scratch[d]
      BY <2>9, <2>10, <2>11, <2>3
    <3>2. PICK y \in Taken(slots), z \in Taken(slots) : HasScratch(slots, y, z, scratch, d)
      BY <1>1, <3>1 DEF ScratchSound
    <3>3. y # k
      BY <3>2, <2>3 DEF HasScratch
    <3>4. slots[k].ptr # d
      BY <3>2, <3>3, <1>1 DEF HasScratch, Table
    <3> QED BY <3>1, <3>4
  <2>12. i \in Taken(slots') /\ slots'[i].called
    <3>1. i \in Taken(marked) /\ i # k
      BY <1>1, <1>5, <2>3, FollowsTaken
    <3>2. i \in Taken(slots')
      BY <2>7, <3>1, FollowsTaken
    <3>3. i \in DOMAIN marked \ {k} /\ marked[i].called
      BY <1>5, <3>1 DEF Taken
    <3> QED BY <2>7, <3>2, <3>3 DEF Follows
  <2>13. \A j \in DOMAIN slots \ {i} : slots'[j] = slots[j] \/ slots'[j] = Cleared
    <3>1. ASSUME NEW j \in DOMAIN slots \ {i}
          PROVE  slots'[j] = marked[j] \/ slots'[j] = Cleared
      <4>1. marked \in Seq(Record)
        BY <1>5 DEF Table
      <4> QED BY <2>5, <2>6, <4>1
    <3> QED BY <1>5, <3>1
  <2>14. /\ scratch' \in [Addr -> Addr \cup {NULL}]
         /\ \A d \in Addr : scratch'[d] = scratch[d] \/ scratch'[d] = NULL
    BY <1>3, <2>5
  <2> DEFINE good(w) ==
              /\ Follows(slots, slots', w)
              /\ w # 0 => /\ w \in Taken(slots) /\ w # i /\ slots[w].owner = Context
                          /\ slots[i].owner = Context
                          /\ OwnedIn(slots, slots[w].ptr) = {}
                          /\ slots[w].ptr = scratch[slots[i].ptr]
                          /\ ~slots[w].destructor
              /\ \A d \in Addr : scratch'[d] # NULL /\ w \in Taken(slots) =>
                                  slots[w].ptr # d /\ slots[w].ptr # scratch[d]
  <2>15. good(k)
    BY <2>2, <2>3, <2>8, <2>10, <2>11
  <2> HIDE DEF good
  <2>16. \E w \in Nat : good(w)
    BY <2>6, <2>15
  <2> QED BY <2>5, <2>7, <2>12, <2>13, <2>14, <2>16 DEF good
<1> QED BY <1>4, <1>6, <1>7

\* Calling the destructor of what is owned keeps the invariant.
LEMMA DestructChildKeeps ==
  ASSUME HeapInv, DestructChild
  PROVE  HeapInv'
<1>1. stack # <<>> /\ Top.op = "destructors" /\ Top.stage = "call" /\ CallDestructor(Top.at)
  BY DEF DestructChild, Running
<1> DEFINE f == [Top EXCEPT !.at = Top.at + 1, !.stage = "seek"]
<1>2. Become(f)
  BY DEF DestructChild
<1>3. /\ Top \in FrameSet /\ Stays(slots, scratch, Top) /\ Table(slots, next, heap)
      /\ Top.at \in Taken(slots) /\ Top.at \in Nat /\ Top.arg \in Addr
      /\ slots[Top.at].owner = Top.arg /\ slots[Top.at].owner # Context
      /\ stack \in Seq(FrameSet) /\ Spares(stack, Len(stack), 0) /\ Top = stack[Len(stack)]
      /\ Stacked(slots, scratch, stack, phase)
  BY <1>1, TopFacts, HeapAssumption DEF Stays, OwnedIn, HeapInv, FrameSet
<1>4. /\ phase' = phase /\ Table(slots', next', heap')
      /\ scratch' \in [Addr -> Addr \cup {NULL}]
      /\ \A d \in Addr : scratch'[d] = scratch[d] \/ scratch'[d] = NULL
      /\ slots'[Top.at].destructor => slots'[Top.at].called
  BY <1>1, <1>3, DestructorCalled
<1>5. Follows(slots, slots', 0)
  BY <1>1, <1>3, DestructorCalled
<1>6. f \in FrameSet /\ f.op = "destructors" /\ f.arg = Top.arg /\ f.stage = "seek" /\ f.at = Top.at + 1
  <2>1. Top \in FrameSet /\ Top.op = "destructors" /\ Top.at + 1 \in Nat
    BY <1>1, <1>3
  <2> QED BY <2>1 DEF FrameSet
<1> HIDE DEF f
<1>7. Stays(slots', scratch', Top)
  <2>1. Top.op # "partial" /\ Top.at # 0
    BY <1>1, <1>3, Records
  <2> QED BY <1>3, <1>4, <1>5, <2>1, FollowsStays
<1>8. Stays(slots', scratch', f)
  <2>1. ASSUME NEW i \in OwnedIn(slots', f.arg), i < f.at, slots'[i].destructor
        PROVE  slots'[i].called
    <3>1. i \in Nat
      BY <1>4, Records DEF OwnedIn
    <3>2. CASE i = Top.at
      BY <3>2, <2>1, <1>4
    <3>3. CASE i # Top.at
      <4>1. i < Top.at
        BY <3>1, <3>3, <2>1, <1>3, <1>6
      <4> QED BY <4>1, <2>1, <1>1, <1>6, <1>7 DEF Stays
    <3> QED BY <3>2, <3>3
  <2>2. f.at \in Nat /\ f.arg \in Addr
    BY <1>3, <1>6
  <2> QED BY <1>6, <2>1, <2>2 DEF Stays
<1>9. Stacked(slots', scratch', stack', phase)
  <2>1. f.op # "partial" /\ f.op = stack[Len(stack)].op /\ f.arg = stack[Len(stack)].arg
    BY <1>1, <1>3, <1>6
  <2>2. stack' = Append(SubSeq(stack, 1, Len(stack) - 1), f)
    BY <1>2 DEF Become, Below
  <2> QED BY <1>1, <1>3, <1>4, <1>5, <1>6, <1>8, <2>1, <2>2, BecomeKeeps
<1>10. stack' # <<>> /\ stack'[Len(stack')] = f
  BY <1>1, <1>2, <1>3, <1>6, Pieces DEF Become, Below
<1>11. Runs(slots', scratch', f)
  BY <1>6 DEF Runs
<1>12. 0 \notin Taken(slots)
  BY <1>3, Records
<1> QED BY <1>1, <1>4, <1>5, <1>9, <1>10, <1>11, <1>12, DestructionKeeps

\* Calling the destructor of the object itself keeps the invariant.
LEMMA PartialOwnKeeps ==
  ASSUME HeapInv, PartialOwn
  PROVE  HeapInv'
<1>1. stack # <<>> /\ Top.op = "partial" /\ Top.stage = "own" /\ CallDestructor(Top.at)
  BY DEF PartialOwn, Running
<1> DEFINE f == [Top EXCEPT !.stage = "free"]
           g == Frame("by_owner", Top.arg, 1, "seek")
<1>2. IF slots[Top.at].isOwner THEN Call(f, g) ELSE Become(f)
  BY DEF PartialOwn
<1>3. /\ Top \in FrameSet /\ Stays(slots, scratch, Top) /\ Table(slots, next, heap)
      /\ Top.at \in Taken(slots) /\ Top.at \in Nat /\ Top.arg \in Addr /\ Top.arg # Context
      /\ slots[Top.at].ptr = Top.arg /\ OwnersMarked(slots)
      /\ stack \in Seq(FrameSet) /\ Spares(stack, Len(stack), 0) /\ Top = stack[Len(stack)]
      /\ Stacked(slots, scratch, stack, phase)
      /\ DOMAIN stack = 1 .. Len(stack) /\ Len(stack) \in Nat
  BY <1>1, TopFacts, HeapAssumption DEF Stays, HeapInv, FrameSet
<1>4. /\ phase' = phase /\ Table(slots', next', heap')
      /\ scratch' \in [Addr -> Addr \cup {NULL}]
      /\ \A d \in Addr : scratch'[d] = scratch[d] \/ scratch'[d] = NULL
      /\ Top.at \in Taken(slots') /\ (slots'[Top.at].destructor => slots'[Top.at].called)
  BY <1>1, <1>3, DestructorCalled
<1>5. PICK k \in Nat :
        /\ Follows(slots, slots', k)
        /\ k # 0 => /\ k \in Taken(slots) /\ k # Top.at /\ slots[k].owner = Context
                    /\ slots[Top.at].owner = Context
                    /\ OwnedIn(slots, slots[k].ptr) = {}
                    /\ slots[k].ptr = scratch[slots[Top.at].ptr]
                    /\ ~slots[k].destructor
        /\ \A d \in Addr : scratch'[d] # NULL /\ k \in Taken(slots) =>
                            slots[k].ptr # d /\ slots[k].ptr # scratch[d]
  BY <1>1, <1>3, DestructorCalled
<1>6. k # Top.at
  BY <1>3, <1>5, Records
<1>7. Spares(stack, Len(stack), k)
  <2>1. CASE k = 0
    BY <1>3, <2>1
  <2>2. CASE k # 0
    <3> SUFFICES ASSUME NEW r \in 1 .. Len(stack) - 1,
                        stack[r].op = "partial" \/ (stack[r].op = "destructors" /\ stack[r].stage = "call"),
                        stack[r].at = k
                 PROVE  FALSE
      BY DEF Spares
    <3>1. Stays(slots, scratch, stack[r])
      <4>1. r \in DOMAIN stack
        BY <1>3
      <4> QED BY <4>1, <1>3 DEF Stacked
    <3>2. /\ slots[k].owner = Context /\ slots[k].ptr = scratch[slots[Top.at].ptr]
          /\ slots[Top.at].ptr \in Addr
      BY <1>3, <1>5, <2>2
    <3>3. CASE stack[r].op = "partial"
      BY <3>1, <3>2, <3>3 DEF Stays
    <3>4. CASE stack[r].op = "destructors" /\ stack[r].stage = "call"
      BY <3>1, <3>2, <3>4, HeapAssumption DEF Stays, OwnedIn
    <3> QED BY <3>3, <3>4
  <2> QED BY <2>1, <2>2
<1>8. f \in FrameSet /\ f.op = "partial" /\ f.arg = Top.arg /\ f.stage = "free" /\ f.at = Top.at
  BY <1>1, <1>3 DEF FrameSet
<1>9. g \in FrameSet /\ g.op = "by_owner" /\ g.arg = Top.arg /\ g.stage = "seek" /\ g.at = 1
  BY <1>3, NewFrame
<1> HIDE DEF f, g
<1>10. Stays(slots', scratch', Top)
  BY <1>1, <1>3, <1>4, <1>5, <1>6, FollowsStays
<1>11. Stays(slots', scratch', f)
  BY <1>1, <1>4, <1>8, <1>10 DEF Stays
<1>12. /\ f.op = stack[Len(stack)].op /\ f.arg = stack[Len(stack)].arg
       /\ f.op = "partial" => f.at = stack[Len(stack)].at /\ f.at # k
       /\ f \in FrameSet
  BY <1>1, <1>3, <1>6, <1>8
<1>16. /\ Stacked(slots, scratch, stack, phase) /\ Follows(slots, slots', k)
       /\ \A d \in Addr : scratch'[d] = scratch[d] \/ scratch'[d] = NULL
  BY <1>3, <1>4, <1>5
<1>13. k \in Taken(slots) => OwnedIn(slots, slots[k].ptr) = {}
  BY <1>3, <1>5, Records
<1>14. CASE slots[Top.at].isOwner
  <2>1. Stays(slots', scratch', g)
    BY <1>3, <1>9 DEF Stays
  <2>2. Calls(slots', f, g)
    BY <1>8, <1>9 DEF Calls
  <2>3. g.op # "destroy" /\ g.arg # Context
    BY <1>3, <1>9
  <2>4. Call(f, g) /\ stack' = Append(Append(SubSeq(stack, 1, Len(stack) - 1), f), g)
    BY <1>2, <1>14 DEF Call, Below
  <2>5. Stacked(slots', scratch', stack', phase)
    <3>1. g \in FrameSet /\ stack # <<>>
      BY <1>1, <1>9
    <3>2. Stacked(slots', scratch', Append(Append(SubSeq(stack, 1, Len(stack) - 1), f), g), phase)
      BY <3>1, <1>7, <1>11, <1>12, <1>16, <2>1, <2>2, <2>3, CallKeeps
    <3> QED BY <2>4, <3>2
  <2>6. stack' # <<>> /\ stack'[Len(stack')] = g
    BY <1>1, <1>3, <1>8, <1>9, <2>4, Pieces
  <2>7. Runs(slots', scratch', g)
    <3>1. \A i \in OwnedIn(slots', g.arg) : i >= 1
      BY <1>4, Records DEF OwnedIn
    <3> QED BY <1>9, <3>1 DEF Runs
  <2> QED BY <1>1, <1>4, <1>5, <1>13, <2>5, <2>6, <2>7, DestructionKeeps
<1>15. CASE ~slots[Top.at].isOwner
  <2>1. Become(f) /\ stack' = Append(SubSeq(stack, 1, Len(stack) - 1), f)
    BY <1>2, <1>15 DEF Become, Below
  <2>2. Stacked(slots', scratch', stack', phase)
    <3>1. stack # <<>>
      BY <1>1
    <3>2. Stacked(slots', scratch', Append(SubSeq(stack, 1, Len(stack) - 1), f), phase)
      BY <3>1, <1>7, <1>11, <1>12, <1>16, BecomeKeeps
    <3> QED BY <2>1, <3>2
  <2>3. stack' # <<>> /\ stack'[Len(stack')] = f
    BY <1>1, <1>3, <1>8, <2>1, Pieces
  <2>4. OwnedIn(slots, Top.arg) = {}
    BY <1>3, <1>15 DEF OwnersMarked, OwnedIn
  <2>5. OwnedIn(slots', f.arg) = {}
    BY <1>5, <1>8, <2>4, FollowsTaken
  <2>6. Runs(slots', scratch', f)
    BY <1>8, <2>5 DEF Runs
  <2> QED BY <1>1, <1>4, <1>5, <1>13, <2>2, <2>3, <2>6, DestructionKeeps
<1> QED BY <1>14, <1>15

\* Freeing an object keeps the invariant.
LEMMA PartialFreeKeeps ==
  ASSUME HeapInv, PartialFree
  PROVE  HeapInv'
<1>1. stack # <<>> /\ Top.op = "partial" /\ Top.stage = "free" /\ stack' = Below
  BY DEF PartialFree, Running
<1> DEFINE f == stack[Len(stack) - 1]
<1>2. /\ Top \in FrameSet /\ Stays(slots, scratch, Top) /\ Table(slots, next, heap) /\ Acyclic(slots)
      /\ Top.at \in Taken(slots) /\ Top.at \in Nat /\ Top.arg \in Addr
      /\ slots[Top.at].ptr = Top.arg /\ OwnedIn(slots, Top.arg) = {}
      /\ stack \in Seq(FrameSet) /\ Top = stack[Len(stack)]
      /\ Stacked(slots, scratch, stack, phase)
      /\ Len(stack) > 1 /\ Stays(slots, scratch, f) /\ Calls(slots, f, Top)
      /\ \A d \in Addr : scratch[d] # Top.arg
  <2>1. /\ Top \in FrameSet /\ Stays(slots, scratch, Top) /\ Table(slots, next, heap) /\ Acyclic(slots)
        /\ stack \in Seq(FrameSet) /\ Top = stack[Len(stack)] /\ Runs(slots, scratch, Top)
        /\ Len(stack) > 1 /\ Stays(slots, scratch, f) /\ Calls(slots, f, Top)
    BY <1>1, TopFacts
  <2>2. Stacked(slots, scratch, stack, phase)
    BY DEF HeapInv
  <2>3. /\ Top.at \in Taken(slots) /\ Top.at \in Nat /\ Top.arg \in Addr
        /\ slots[Top.at].ptr = Top.arg /\ \A d \in Addr : scratch[d] # Top.arg
    BY <1>1, <2>1 DEF Stays
  <2>4. OwnedIn(slots, Top.arg) = {}
    BY <1>1, <2>1 DEF Runs
  <2> QED BY <2>1, <2>2, <2>3, <2>4
<1>3. scratch \in [Addr -> Addr \cup {NULL}]
  BY DEF HeapInv
<1> HIDE DEF f
<1>4. /\ slots' = [slots EXCEPT ![Top.at] = Cleared] /\ heap' = heap \ {slots[Top.at].ptr}
      /\ next' = IF next > Top.at THEN Top.at ELSE next
      /\ scratch' = [scratch EXCEPT ![Top.arg] = NULL] /\ phase' = phase
  BY <1>2 DEF PartialFree, Clear, Lower
<1>5. Table(slots', next', heap') /\ Follows(slots, slots', Top.at)
  BY <1>2, <1>4, Emptied
<1>6. /\ scratch' \in [Addr -> Addr \cup {NULL}]
      /\ \A d \in Addr : scratch'[d] = scratch[d] \/ scratch'[d] = NULL
      /\ \A d \in Addr : scratch'[d] # NULL => slots[Top.at].ptr # d /\ slots[Top.at].ptr # scratch[d]
  BY <1>2, <1>3, <1>4
<1>7. Spares(stack, Len(stack), Top.at)
  BY <1>1, <1>2, PartialsDiffer
<1>8. Stacked(slots', scratch', stack', phase)
  BY <1>1, <1>2, <1>5, <1>6, <1>7, ReturnKeeps DEF Below
<1>9. stack' # <<>> /\ stack'[Len(stack')] = f
  <2>1. /\ Len(stack) \in Nat /\ Len(Below) = Len(stack) - 1
        /\ \A q \in 1 .. Len(stack) - 1 : Below[q] = stack[q]
    BY <1>1, <1>2, Pieces DEF Below
  <2>2. Len(stack) - 1 \in 1 .. Len(stack) - 1
    BY <1>2, <2>1
  <2>3. Below # <<>>
    BY <1>2, <2>1
  <2> QED BY <1>1, <2>1, <2>2, <2>3 DEF f
<1>10. /\ \A i \in Taken(slots') : slots'[i].ptr # Top.arg
       /\ \A o : OwnedIn(slots', o) = OwnedIn(slots, o) \ {Top.at}
  <2>1. ASSUME NEW i \in Taken(slots')
        PROVE  slots'[i].ptr # Top.arg
    <3>1. i \in Taken(slots) /\ i # Top.at /\ slots'[i].ptr = slots[i].ptr
      BY <1>5, FollowsTaken
    <3> QED BY <1>2, <3>1, Records
  <2> QED BY <1>5, <2>1, FollowsTaken
<1>11. Runs(slots', scratch', f)
  <2>1. CASE f.op = "destroy"
    BY <1>2, <1>10, <2>1 DEF Calls, Runs
  <2>2. CASE f.op = "by_owner"
    BY <1>2, <1>10, <2>2 DEF Calls, Runs
  <2>3. f.op \in {"destroy", "by_owner"}
    BY <1>1, <1>2 DEF Calls, Stays
  <2> QED BY <2>1, <2>2, <2>3
<1>12. Runs(slots', scratch', stack'[Len(stack')]) /\ stack' # <<>>
  BY <1>9, <1>11
<1>13. OwnedIn(slots, slots[Top.at].ptr) = {} /\ phase' = phase /\ stack # <<>>
  BY <1>1, <1>2, <1>4
<1> QED BY <1>5, <1>6, <1>8, <1>12, <1>13, DestructionKeeps

\* A context that has ended is sound.
LEMMA EndedIsSound ==
  ASSUME stack' = <<>>, Stacked(slots', scratch', stack', phase'),
         heap' \subseteq Addr, scratch' \in [Addr -> Addr \cup {NULL}],
         phase' = "ended", slots' = <<>>, next' = 1
  PROVE  HeapInv'
<1>1. (heap \subseteq Addr /\ scratch \in [Addr -> Addr \cup {NULL}])'
  OBVIOUS
<1>2. (phase \in {"open", "terminating", "swept", "ended"})'
  OBVIOUS
<1>3. Stacked(slots, scratch, stack, phase)'
  OBVIOUS
<1>4. (phase = "ended" => slots = <<>> /\ next = 1)'
  OBVIOUS
<1>5. (phase # "ended" => /\ Table(slots, next, heap)
                          /\ OwnersExist(slots) /\ Acyclic(slots) /\ ScratchSound(slots, scratch))'
  OBVIOUS
<1>6. (stack # <<>> => /\ phase \in {"open", "terminating"}
                       /\ OwnersMarked(slots) /\ Runs(slots, scratch, Top))'
  OBVIOUS
<1>7. (/\ phase = "terminating" => ScratchAbove(slots, scratch)
       /\ phase = "swept" => OwnedIn(slots, Context) = {})'
  OBVIOUS
<1> QED BY <1>1, <1>2, <1>3, <1>4, <1>5, <1>6, <1>7 DEF HeapInv

\* Ending a context keeps the invariant.
LEMMA EndTerminateKeeps ==
  ASSUME HeapInv, EndTerminate
  PROVE  HeapInv'
<1>1. phase = "swept" /\ phase' = "ended" /\ slots' = <<>> /\ next' = 1 /\ UNCHANGED <<heap, scratch, stack>>
  BY DEF EndTerminate
<1>2. stack = <<>> /\ heap \subseteq Addr /\ scratch \in [Addr -> Addr \cup {NULL}]
  BY <1>1 DEF HeapInv
<1>3. Stacked(slots', scratch', stack', phase')
  BY <1>1, <1>2 DEF Stacked
<1> QED BY <1>1, <1>2, <1>3, EndedIsSound

-----------------------------------------------------------------------------
\* The steps of clients.
LEMMA OpenIsSound ==
  ASSUME stack' = <<>>, phase' = "open", scratch' \in [Addr -> Addr \cup {NULL}],
         Table(slots', next', heap'), OwnersExist(slots'), Acyclic(slots'), ScratchSound(slots', scratch')
  PROVE  HeapInv'
<1>1. (heap \subseteq Addr /\ scratch \in [Addr -> Addr \cup {NULL}])'
  BY DEF Table
<1>2. (phase \in {"open", "terminating", "swept", "ended"})'
  OBVIOUS
<1>3. Stacked(slots, scratch, stack, phase)'
  BY DEF Stacked
<1>4. (phase = "ended" => slots = <<>> /\ next = 1)'
  OBVIOUS
<1>5. (phase # "ended" => /\ Table(slots, next, heap)
                          /\ OwnersExist(slots) /\ Acyclic(slots) /\ ScratchSound(slots, scratch))'
  OBVIOUS
<1>6. (stack # <<>> => /\ phase \in {"open", "terminating"}
                       /\ OwnersMarked(slots) /\ Runs(slots, scratch, Top))'
  OBVIOUS
<1>7. (/\ phase = "terminating" => ScratchAbove(slots, scratch)
       /\ phase = "swept" => OwnedIn(slots, Context) = {})'
  OBVIOUS
<1> QED BY <1>1, <1>2, <1>3, <1>4, <1>5, <1>6, <1>7 DEF HeapInv

\* What the invariant says when no destruction is in progress.
LEMMA IdleFacts ==
  ASSUME HeapInv, Idle
  PROVE  /\ stack = <<>> /\ phase = "open" /\ scratch \in [Addr -> Addr \cup {NULL}]
         /\ Table(slots, next, heap) /\ slots \in Seq(Record)
         /\ OwnersExist(slots) /\ Acyclic(slots) /\ ScratchSound(slots, scratch)
         /\ Used = Taken(slots) /\ Tracked = heap /\ Tracked = {slots[i].ptr : i \in Taken(slots)}
BY DEF HeapInv, Idle, Table, Used, Taken, Tracked

\* A table that has grown has the same records and a free slot.
LEMMA ExpandedTable ==
  ASSUME Table(slots, next, heap)
  PROVE  /\ Table(Expanded, next, heap) /\ next \in DOMAIN Expanded
         /\ Taken(Expanded) = Taken(slots) /\ \A i \in Taken(slots) : Expanded[i] = slots[i]
<1>1. slots \in Seq(Record) /\ next \in Nat \ {0} /\ next <= Len(slots) + 1 /\ Len(slots) \in Nat /\ DOMAIN slots = 1 .. Len(slots)
  BY DEF Table
<1>2. CASE next # Len(slots) + 1
  <2>1. Expanded = slots
    BY <1>2 DEF Expanded
  <2> QED BY <1>1, <1>2, <2>1
<1>3. CASE next = Len(slots) + 1
  <2>1. NewSize \in Nat /\ NewSize > Len(slots)
    BY <1>1, HeapAssumption DEF NewSize
  <2>2. Cleared \in Record /\ Cleared.ptr = NULL
    BY DEF Cleared, Record
  <2> DEFINE n == NewSize
             t == [i \in 1 .. n |-> IF i \in DOMAIN slots THEN slots[i] ELSE Cleared]
  <2>3. Expanded = t
    BY <1>3 DEF Expanded
  <2> HIDE DEF n
  <2>4. \A i \in 1 .. n : t[i] \in Record
    BY <1>1, <2>2
  <2>5. t \in Seq(Record) /\ Len(t) = n /\ DOMAIN t = 1 .. n
    BY <2>1, <2>4 DEF n
  <2>6. /\ \A i \in DOMAIN slots : i \in DOMAIN t /\ t[i] = slots[i]
        /\ \A i \in DOMAIN t : i \notin DOMAIN slots => t[i].ptr = NULL
    BY <1>1, <2>1, <2>2 DEF n
  <2> HIDE DEF t
  <2>7. Taken(t) = Taken(slots) /\ \A i \in Taken(slots) : t[i] = slots[i]
    BY <2>6 DEF Taken
  <2>8. next \in DOMAIN t /\ next <= Len(t) + 1 /\ t[next].ptr = NULL
    BY <1>1, <1>3, <2>1, <2>5, <2>6 DEF n
  <2>9. \A i \in DOMAIN t : i < next => t[i].ptr # NULL
    BY <1>1, <1>3, <2>5, <2>6 DEF Table
  <2>10. Table(t, next, heap)
    <3>1. {t[i].ptr : i \in Taken(t)} = {slots[i].ptr : i \in Taken(slots)}
      BY <2>7
    <3>2. \A i, j \in Taken(t) : t[i].ptr = t[j].ptr => i = j
      BY <2>7 DEF Table
    <3> QED BY <1>1, <2>5, <2>8, <2>9, <3>1, <3>2 DEF Table
  <2> QED BY <2>3, <2>7, <2>8, <2>10
<1> QED BY <1>2, <1>3

\* A record that is added takes the free slot (context_heap.c:62-109).
LEMMA Added ==
  ASSUME Table(slots, next, heap), NEW a \in Addr \ heap, NEW o \in Addr \cup {Context}, NEW d \in BOOLEAN,
         Add(a, o, d)
  PROVE  /\ Table(slots', next', heap \cup {a})
         /\ next \notin Taken(slots) /\ Taken(slots') = Taken(slots) \cup {next}
         /\ slots'[next].ptr = a /\ slots'[next].owner = o /\ slots'[next].destructor = d
         /\ \A i \in Taken(slots) :
              /\ slots'[i].ptr = slots[i].ptr /\ slots'[i].owner = slots[i].owner
              /\ slots'[i].destructor = slots[i].destructor /\ slots'[i].called = slots[i].called
<1> DEFINE t == Expanded
           marked == [i \in DOMAIN t |-> IF t[i].ptr = o THEN [t[i] EXCEPT !.isOwner = TRUE] ELSE t[i]]
           new == [Cleared EXCEPT !.ptr = a, !.owner = o, !.destructor = d]
<1>1. /\ Table(t, next, heap) /\ next \in DOMAIN t
      /\ Taken(t) = Taken(slots) /\ \A i \in Taken(slots) : t[i] = slots[i]
  BY ExpandedTable
<1>2. /\ t[next].ptr = NULL /\ slots' = [marked EXCEPT ![next] = new]
      /\ \E n \in 1 .. Len(t) + 1 : FreeAfter(t, next, n) /\ next' = n
  BY DEF Add
<1> HIDE DEF t
<1>3. t \in Seq(Record) /\ Len(t) \in Nat /\ DOMAIN t = 1 .. Len(t) /\ next \in Nat \ {0} /\ next \in 1 .. Len(t)
  BY <1>1 DEF Table
<1>4. new \in Record /\ new.ptr = a /\ new.owner = o /\ new.destructor = d
  BY DEF Cleared, Record
<1>5. ASSUME NEW i \in DOMAIN t
      PROVE  /\ marked[i] \in Record
             /\ marked[i].ptr = t[i].ptr /\ marked[i].owner = t[i].owner
             /\ marked[i].destructor = t[i].destructor /\ marked[i].called = t[i].called
  <2>1. t[i] \in Record
    BY <1>3
  <2> QED BY <2>1 DEF Record
<1>6. /\ DOMAIN marked = 1 .. Len(t)
      /\ slots' \in [1 .. Len(t) -> Record] /\ slots'[next] = new
      /\ \A i \in DOMAIN t \ {next} : slots'[i] = marked[i]
  <2>1. marked \in [1 .. Len(t) -> Record]
    BY <1>3, <1>5
  <2> HIDE DEF marked, new
  <2> QED BY <1>2, <1>3, <1>4, <2>1
<1> HIDE DEF marked, new
<1>7. slots' \in Seq(Record) /\ Len(slots') = Len(t) /\ DOMAIN slots' = 1 .. Len(t)
  BY <1>3, <1>6
<1>8. \A i \in DOMAIN t \ {next} :
        /\ slots'[i].ptr = t[i].ptr /\ slots'[i].owner = t[i].owner
        /\ slots'[i].destructor = t[i].destructor /\ slots'[i].called = t[i].called
  BY <1>5, <1>6
<1>9. next \notin Taken(t) /\ Taken(slots') = Taken(t) \cup {next}
  <2>1. next \notin Taken(t)
    BY <1>2 DEF Taken
  <2>2. a # NULL
    BY HeapAssumption
  <2> QED BY <1>3, <1>4, <1>6, <1>7, <1>8, <2>1, <2>2 DEF Taken
<1>10. \A i \in Taken(t) : i \in DOMAIN t \ {next}
  BY <1>9 DEF Taken
<1>11. \A i, j \in Taken(slots') : slots'[i].ptr = slots'[j].ptr => i = j
  <2>1. \A i \in Taken(t) : slots'[i].ptr = t[i].ptr /\ t[i].ptr \in heap
    BY <1>1, <1>8, <1>10 DEF Table
  <2>2. slots'[next].ptr \notin heap
    BY <1>4, <1>6
  <2>3. \A i, j \in Taken(t) : t[i].ptr = t[j].ptr => i = j
    BY <1>1 DEF Table
  <2> QED BY <1>9, <2>1, <2>2, <2>3
<1>12. heap \cup {a} = {slots'[i].ptr : i \in Taken(slots')}
  <2>1. heap = {t[i].ptr : i \in Taken(t)}
    BY <1>1 DEF Table
  <2>2. \A i \in Taken(t) : slots'[i].ptr = t[i].ptr
    BY <1>8, <1>10
  <2> QED BY <1>4, <1>6, <1>9, <2>1, <2>2
<1>13. PICK n \in 1 .. Len(t) + 1 : FreeAfter(t, next, n) /\ next' = n
  BY <1>2
<1>14. /\ next' \in Nat \ {0} /\ next' <= Len(slots') + 1
       /\ next' \in DOMAIN slots' => slots'[next'].ptr = NULL
  <2>1. n \in Nat /\ n > next /\ (n <= Len(t) => t[n].ptr = NULL)
    BY <1>3, <1>13 DEF FreeAfter
  <2> QED BY <1>3, <1>7, <1>8, <1>13, <2>1
<1>15. ASSUME NEW i \in DOMAIN slots', i < next'
       PROVE  slots'[i].ptr # NULL
  <2>1. CASE i < next
    <3>1. t[i].ptr # NULL /\ i \in DOMAIN t \ {next}
      BY <2>1, <1>1, <1>3, <1>7 DEF Table
    <3> QED BY <3>1, <1>8
  <2>2. CASE i = next
    BY <2>2, <1>4, <1>6, HeapAssumption
  <2>3. CASE i > next
    <3>1. i \in next + 1 .. n - 1 /\ i \in DOMAIN t \ {next}
      BY <2>3, <1>3, <1>7, <1>13, <1>15
    <3>2. t[i].ptr # NULL
      BY <3>1, <1>13 DEF FreeAfter
    <3> QED BY <3>1, <3>2, <1>8
  <2> QED BY <2>1, <2>2, <2>3, <1>3, <1>7
<1>16. heap \cup {a} \subseteq Addr
  BY <1>1 DEF Table
<1>17. Table(slots', next', heap \cup {a})
  BY <1>7, <1>11, <1>12, <1>14, <1>15, <1>16 DEF Table
<1> QED BY <1>1, <1>4, <1>6, <1>8, <1>9, <1>10, <1>17

\* What allocating an object does to table, owners and scratch.
LEMMA Allocated ==
  ASSUME HeapInv, NEW a, NEW o, NEW d \in BOOLEAN, Allocate(a, o, d)
  PROVE  /\ stack' = <<>> /\ phase' = "open" /\ stack = <<>> /\ phase = "open"
         /\ a \in Addr \ heap /\ o \in Addr \cup {Context}
         /\ scratch \in [Addr -> Addr \cup {NULL}]
         /\ Table(slots', next', heap') /\ OwnersExist(slots') /\ Acyclic(slots')
         /\ ScratchSound(slots', scratch)
         /\ next \in Taken(slots') /\ slots'[next].ptr = a /\ slots'[next].owner = o /\ slots'[next].destructor = d
         /\ \A i \in Taken(slots) : /\ i \in Taken(slots') /\ i # next
                                    /\ slots'[i].ptr = slots[i].ptr /\ slots'[i].owner = slots[i].owner
                                    /\ slots'[i].destructor = slots[i].destructor
                                    /\ slots'[i].called = slots[i].called
         /\ OwnedIn(slots', a) = {}
<1>1. /\ Idle /\ a \in Addr \ heap /\ o \in (Tracked \ Scratch) \cup {Context} /\ Add(a, o, d)
      /\ heap' = heap \cup {a} /\ stack' = stack /\ phase' = phase
  BY DEF Allocate
<1>2. /\ stack = <<>> /\ phase = "open" /\ scratch \in [Addr -> Addr \cup {NULL}]
      /\ Table(slots, next, heap)
      /\ OwnersExist(slots) /\ Acyclic(slots) /\ ScratchSound(slots, scratch)
      /\ Tracked = heap /\ heap = {slots[i].ptr : i \in Taken(slots)} /\ heap \subseteq Addr
  BY <1>1, IdleFacts DEF Table
<1>3. o \in heap \cup {Context} /\ o \in Addr \cup {Context} /\ o # a /\ a # Context /\ a # NULL
  BY <1>1, <1>2, HeapAssumption
<1>4. /\ Table(slots', next', heap')
      /\ next \notin Taken(slots) /\ Taken(slots') = Taken(slots) \cup {next}
      /\ slots'[next].ptr = a /\ slots'[next].owner = o /\ slots'[next].destructor = d
      /\ \A i \in Taken(slots) :
           /\ slots'[i].ptr = slots[i].ptr /\ slots'[i].owner = slots[i].owner
           /\ slots'[i].destructor = slots[i].destructor /\ slots'[i].called = slots[i].called
  <2>1. /\ Table(slots', next', heap \cup {a})
        /\ next \notin Taken(slots) /\ Taken(slots') = Taken(slots) \cup {next}
        /\ slots'[next].ptr = a /\ slots'[next].owner = o /\ slots'[next].destructor = d
        /\ \A i \in Taken(slots) :
             /\ slots'[i].ptr = slots[i].ptr /\ slots'[i].owner = slots[i].owner
             /\ slots'[i].destructor = slots[i].destructor /\ slots'[i].called = slots[i].called
    <3>1. Table(slots, next, heap) /\ a \in Addr \ heap /\ o \in Addr \cup {Context} /\ Add(a, o, d)
      BY <1>1, <1>2, <1>3
    <3> QED BY <3>1, Added
  <2> QED BY <2>1, <1>1
<1>5. OwnersExist(slots')
  <2>1. heap' = {slots'[i].ptr : i \in Taken(slots')}
    BY <1>4 DEF Table
  <2>2. \A i \in Taken(slots) : slots[i].owner \in heap \cup {Context, NULL}
    BY <1>2 DEF OwnersExist
  <2>3. \A i \in Taken(slots') : slots'[i].owner \in heap' \cup {Context, NULL}
    BY <1>1, <1>3, <1>4, <2>2
  <2> QED BY <2>1, <2>3 DEF OwnersExist
<1>6. OwnedIn(slots', a) = {}
  <2>1. \A i \in Taken(slots) : slots[i].owner \in heap \cup {Context, NULL}
    BY <1>2 DEF OwnersExist
  <2>2. \A i \in Taken(slots') : slots'[i].owner # a
    BY <1>1, <1>3, <1>4, <2>1
  <2> QED BY <2>2 DEF OwnedIn
<1>7. Acyclic(slots')
  <2> SUFFICES ASSUME NEW S \in SUBSET Taken(slots'), S # {}
               PROVE  \E i \in S : \A j \in S : slots'[i].owner # slots'[j].ptr
    BY DEF Acyclic
  <2>1. CASE S \ {next} = {}
    <3>1. S = {next}
      BY <2>1
    <3> QED BY <3>1, <1>3, <1>4
  <2>2. CASE S \ {next} # {}
    <3>1. S \ {next} \in SUBSET Taken(slots)
      BY <1>4
    <3>2. PICK i \in S \ {next} : \A j \in S \ {next} : slots[i].owner # slots[j].ptr
      BY <2>2, <3>1, <1>2 DEF Acyclic
    <3>3. slots'[i].owner = slots[i].owner /\ slots'[i].owner # a
      BY <3>1, <1>4, <1>6 DEF OwnedIn
    <3>4. \A j \in S : slots'[i].owner # slots'[j].ptr
      <4> SUFFICES ASSUME NEW j \in S PROVE slots'[i].owner # slots'[j].ptr
        OBVIOUS
      <4>1. CASE j = next
        BY <4>1, <3>3, <1>4
      <4>2. CASE j # next
        <5>1. j \in S \ {next} /\ j \in Taken(slots)
          BY <4>2, <3>1
        <5>2. slots'[j].ptr = slots[j].ptr
          BY <5>1, <1>4
        <5> QED BY <5>1, <5>2, <3>2, <3>3
      <4> QED BY <4>1, <4>2
    <3> QED BY <3>4
  <2> QED BY <2>1, <2>2
<1>8. ScratchSound(slots', scratch)
  <2> SUFFICES ASSUME NEW e \in Addr, scratch[e] # NULL
               PROVE  /\ \E i, k \in Taken(slots') : HasScratch(slots', i, k, scratch, e)
                      /\ OwnedIn(slots', scratch[e]) = {}
                      /\ \A b \in Addr : scratch[b] = scratch[e] => b = e
    BY DEF ScratchSound
  <2>1. PICK i \in Taken(slots), k \in Taken(slots) : HasScratch(slots, i, k, scratch, e)
    BY <1>2 DEF ScratchSound
  <2>2. i \in Taken(slots') /\ k \in Taken(slots') /\ HasScratch(slots', i, k, scratch, e)
    BY <1>4, <2>1 DEF HasScratch
  <2>3. OwnedIn(slots, scratch[e]) = {} /\ \A b \in Addr : scratch[b] = scratch[e] => b = e
    BY <1>2 DEF ScratchSound
  <2>4. o # scratch[e]
    BY <1>1, <1>2, HeapAssumption DEF Scratch
  <2>5. OwnedIn(slots', scratch[e]) = {}
    BY <1>4, <2>3, <2>4 DEF OwnedIn
  <2> QED BY <2>2, <2>3, <2>5
<1>9. \A i \in Taken(slots) : i \in Taken(slots') /\ i # next
  BY <1>4
<1> QED BY <1>1, <1>2, <1>3, <1>4, <1>5, <1>6, <1>7, <1>8, <1>9

\* Allocating an object keeps the invariant.
LEMMA AllocateKeeps ==
  ASSUME HeapInv, NEW a, NEW o, NEW d \in BOOLEAN, Allocate(a, o, d), UNCHANGED scratch
  PROVE  HeapInv'
BY Allocated, OpenIsSound

\* A decoder that begins to read and allocates keeps the invariant.
LEMMA BeginReadKeeps ==
  ASSUME HeapInv, NEW d \in Addr, NEW a, BeginRead(d, a)
  PROVE  HeapInv'
<1>1. /\ d \in Tracked /\ slots[SlotOf(d)].destructor /\ slots[SlotOf(d)].owner = Context
      /\ scratch[d] = NULL /\ Allocate(a, Context, FALSE) /\ scratch' = [scratch EXCEPT ![d] = a]
  BY DEF BeginRead
<1>2. /\ stack' = <<>> /\ phase' = "open" /\ stack = <<>> /\ phase = "open"
      /\ a \in Addr \ heap /\ scratch \in [Addr -> Addr \cup {NULL}]
      /\ Table(slots', next', heap') /\ OwnersExist(slots') /\ Acyclic(slots')
      /\ ScratchSound(slots', scratch)
      /\ next \in Taken(slots') /\ slots'[next].ptr = a /\ slots'[next].owner = Context /\ ~slots'[next].destructor
      /\ \A i \in Taken(slots) : /\ i \in Taken(slots') /\ i # next
                                 /\ slots'[i].ptr = slots[i].ptr /\ slots'[i].owner = slots[i].owner
                                 /\ slots'[i].destructor = slots[i].destructor
      /\ OwnedIn(slots', a) = {}
  BY <1>1, Allocated
<1>3. Idle
  BY <1>1 DEF Allocate
<1>4. /\ Table(slots, next, heap) /\ slots \in Seq(Record) /\ Tracked = {slots[i].ptr : i \in Taken(slots)}
      /\ Tracked = heap /\ ScratchSound(slots, scratch)
  BY <1>3, IdleFacts
<1>5. PICK i \in Taken(slots) : slots[i].ptr = d
  BY <1>1, <1>4
<1>6. slots[i].destructor /\ slots[i].owner = Context
  <2>1. SlotOf(d) = i
    BY <1>4, <1>5, SlotFound DEF Table
  <2> QED BY <1>1, <2>1
<1>7. /\ scratch' \in [Addr -> Addr \cup {NULL}] /\ scratch'[d] = a
      /\ \A e \in Addr \ {d} : scratch'[e] = scratch[e]
  BY <1>1, <1>2
<1>8. \A e \in Addr : scratch[e] # a
  <2> SUFFICES ASSUME NEW e \in Addr, scratch[e] = a PROVE FALSE
    OBVIOUS
  <2>1. a # NULL
    BY <1>2, HeapAssumption
  <2>2. PICK j \in Taken(slots), k \in Taken(slots) : HasScratch(slots, j, k, scratch, e)
    BY <1>4, <2>1 DEF ScratchSound
  <2> QED BY <1>2, <1>4, <2>2 DEF HasScratch
<1>9. ScratchSound(slots', scratch')
  <2> SUFFICES ASSUME NEW e \in Addr, scratch'[e] # NULL
               PROVE  /\ \E j, k \in Taken(slots') : HasScratch(slots', j, k, scratch', e)
                      /\ OwnedIn(slots', scratch'[e]) = {}
                      /\ \A b \in Addr : scratch'[b] = scratch'[e] => b = e
    BY DEF ScratchSound
  <2>1. CASE e = d
    <3>1. i \in Taken(slots') /\ HasScratch(slots', i, next, scratch', e)
      BY <2>1, <1>2, <1>5, <1>6, <1>7 DEF HasScratch
    <3>2. \A b \in Addr : scratch'[b] = scratch'[e] => b = e
      BY <2>1, <1>7, <1>8
    <3> QED BY <2>1, <3>1, <3>2, <1>2, <1>7
  <2>2. CASE e # d
    <3>1. scratch'[e] = scratch[e] /\ scratch[e] # NULL /\ scratch[e] # a
      BY <2>2, <1>7, <1>8
    <3>2. PICK j \in Taken(slots'), k \in Taken(slots') : HasScratch(slots', j, k, scratch, e)
      BY <3>1, <1>2 DEF ScratchSound
    <3>3. HasScratch(slots', j, k, scratch', e)
      BY <3>1, <3>2 DEF HasScratch
    <3>4. OwnedIn(slots', scratch[e]) = {} /\ \A b \in Addr : scratch[b] = scratch[e] => b = e
      BY <3>1, <1>2 DEF ScratchSound
    <3>5. \A b \in Addr : scratch'[b] = scratch'[e] => b = e
      BY <3>1, <3>4, <1>7
    <3> QED BY <3>1, <3>3, <3>4, <3>5
  <2> QED BY <2>1, <2>2
<1> QED BY <1>2, <1>7, <1>9, OpenIsSound

\* A decoder that frees what it allocated keeps the invariant.
LEMMA FinishReadKeeps ==
  ASSUME HeapInv, NEW d \in Addr, FinishRead(d)
  PROVE  HeapInv'
<1>1. Idle /\ scratch[d] # NULL /\ FreeScratch(d, slots) /\ stack' = stack
  BY DEF FinishRead
<1>2. /\ stack = <<>> /\ phase = "open" /\ scratch \in [Addr -> Addr \cup {NULL}]
      /\ Table(slots, next, heap) /\ slots \in Seq(Record)
      /\ OwnersExist(slots) /\ Acyclic(slots) /\ ScratchSound(slots, scratch)
      /\ Tracked = {slots[i].ptr : i \in Taken(slots)}
  BY <1>1, IdleFacts
<1>3. PICK i \in Taken(slots), k \in Taken(slots) : HasScratch(slots, i, k, scratch, d)
  BY <1>1, <1>2 DEF ScratchSound
<1>4. slots[k].ptr = scratch[d] /\ SlotOf(scratch[d]) = k /\ scratch[d] \in Tracked
  BY <1>2, <1>3, SlotFound DEF HasScratch, Table
<1>5. /\ slots' = [slots EXCEPT ![k] = Cleared] /\ heap' = heap \ {slots[k].ptr}
      /\ next' = IF next > k THEN k ELSE next
      /\ scratch' = [scratch EXCEPT ![d] = NULL] /\ phase' = phase
  BY <1>1, <1>4 DEF FreeScratch, Clear, Lower
<1>6. Table(slots', next', heap') /\ Follows(slots, slots', k)
  BY <1>2, <1>5, Emptied
<1>7. /\ scratch' \in [Addr -> Addr \cup {NULL}]
      /\ \A e \in Addr : scratch'[e] = scratch[e] \/ scratch'[e] = NULL
      /\ \A e \in Addr : scratch'[e] # NULL => e # d
  BY <1>2, <1>5
<1>8. OwnedIn(slots, slots[k].ptr) = {} /\ \A e \in Addr : scratch[e] = slots[k].ptr => e = d
  BY <1>1, <1>2, <1>4 DEF ScratchSound
<1>9. ASSUME NEW e \in Addr, scratch'[e] # NULL
      PROVE  slots[k].ptr # e /\ slots[k].ptr # scratch[e]
  <2>1. e # d /\ scratch[e] # NULL /\ slots[k].ptr # scratch[e]
    BY <1>7, <1>8, <1>9
  <2>2. PICK y \in Taken(slots), z \in Taken(slots) : HasScratch(slots, y, z, scratch, e)
    BY <1>2, <2>1 DEF ScratchSound
  <2>3. y # k
    BY <2>2, <1>3 DEF HasScratch
  <2> QED BY <2>1, <2>2, <2>3, <1>2 DEF HasScratch, Table
<1>10. OwnersExist(slots') /\ Acyclic(slots') /\ ScratchSound(slots', scratch')
  BY <1>2, <1>6, <1>7, <1>8, <1>9, FollowsOwners, FollowsAcyclic, FollowsScratch
<1> QED BY <1>1, <1>2, <1>5, <1>6, <1>7, <1>10, OpenIsSound

\* What is at most one step further below a than X is.
UnderStep(a, X) == {a} \cup {c \in Tracked : slots[SlotOf(c)].owner \in X}

\* Following owners as often as there are objects reaches all ancestors.
LEMMA AncestorsAreReached ==
  ASSUME NEW a \in Addr, Tracked \subseteq Addr, Cardinality(Tracked) \in Nat
  PROVE  \E D \in [0 .. Cardinality(Tracked) -> SUBSET Addr] :
           /\ D[0] = {a}
           /\ \A n \in 1 .. Cardinality(Tracked) : D[n] = UnderStep(a, D[n - 1])
           /\ \A b : IsAncestor(a, b) <=> b \in D[Cardinality(Tracked)]
<1> DEFINE N == Cardinality(Tracked)
           step == [n \in 1 .. N |-> [X \in SUBSET Addr |-> UnderStep(a, X)]]
           F(A) == [n \in 0 .. N |-> IF n = 0 THEN {a} ELSE {a} \cup {c \in Tracked : slots[SlotOf(c)].owner \in A[n - 1]}]
           D == CHOOSE A : A = F(A)
<1>1. \A b : IsAncestor(a, b) <=> b \in D[N]
  BY DEF IsAncestor
<1> HIDE DEF N
<1>2. N \in Nat
  BY DEF N
<1>3. step \in [1 .. N -> [SUBSET Addr -> SUBSET Addr]] /\ {a} \in SUBSET Addr
  BY DEF UnderStep
<1> HIDE DEF step
<1>4. PICK f : IsStepByStep(f, N, SUBSET Addr, {a}, step)
  BY <1>2, <1>3, StepByStep
<1>5. /\ f \in [0 .. N -> SUBSET Addr] /\ f[0] = {a}
      /\ \A n \in 1 .. N : f[n] = step[n][f[n - 1]]
  BY <1>4 DEF IsStepByStep
<1>6. \A n \in 1 .. N : f[n] = UnderStep(a, f[n - 1])
  <2> SUFFICES ASSUME NEW n \in 1 .. N PROVE f[n] = UnderStep(a, f[n - 1])
    OBVIOUS
  <2>1. f[n - 1] \in SUBSET Addr
    BY <1>2, <1>5
  <2> QED BY <1>5, <2>1 DEF step
<1>7. f = F(f)
  BY <1>2, <1>5, <1>6 DEF UnderStep
<1>8. D = F(D)
  <2> HIDE DEF F
  <2>1. \E A : A = F(A)
    BY <1>7, Zenon
  <2> QED BY <2>1, Zenon
<1> HIDE DEF D
<1>9. D[0] = {a} /\ \A n \in 1 .. N : D[n] = UnderStep(a, D[n - 1])
  BY <1>2, <1>8 DEF UnderStep
<1>10. \A n \in 0 .. N : D[n] \in SUBSET Addr
  <2>1. \A n \in 0 .. N : n = 0 \/ n \in 1 .. N
    BY <1>2
  <2> QED BY <1>9, <2>1 DEF UnderStep
<1>11. D \in [0 .. N -> SUBSET Addr]
  BY <1>8, <1>10
<1> HIDE DEF F
<1> QED BY <1>1, <1>9, <1>11 DEF N

\* What is below a, however far, is found: further steps find no more.
LEMMA AncestorsAreClosed ==
  ASSUME NEW a \in Tracked, Tracked \subseteq Addr, IsFiniteSet(Tracked)
  PROVE  /\ IsAncestor(a, a)
         /\ \A c \in Tracked : IsAncestor(a, slots[SlotOf(c)].owner) => IsAncestor(a, c)
<1> DEFINE N == Cardinality(Tracked)
           Up(X) == UnderStep(a, X)
<1>1. N \in Nat /\ a \in Addr
  BY FS_CardinalityType
<1>2. PICK D \in [0 .. N -> SUBSET Addr] :
        /\ D[0] = {a}
        /\ \A n \in 1 .. N : D[n] = Up(D[n - 1])
        /\ \A b : IsAncestor(a, b) <=> b \in D[N]
  BY <1>1, AncestorsAreReached
<1> DEFINE Good == {n \in 0 .. N : /\ D[n] \subseteq Up(D[n]) /\ D[n] \subseteq Tracked
                                   /\ Cardinality(D[n]) >= n + 1 \/ Up(D[n]) = D[n]}
<1>3. 0 \in Good
  <2>1. Cardinality({a}) = 1
    BY FS_Singleton
  <2>2. D[0] \subseteq Up(D[0]) /\ D[0] \subseteq Tracked
    BY <1>2 DEF UnderStep
  <2>3. Cardinality(D[0]) >= 0 + 1 /\ 0 \in 0 .. N
    BY <1>1, <1>2, <2>1
  <2> QED BY <2>2, <2>3
<1>4. ASSUME NEW n \in 0 .. N - 1, n \in Good
      PROVE  n + 1 \in Good
  <2>1. n + 1 \in 1 .. N /\ n + 1 \in 0 .. N /\ n \in 0 .. N /\ (n + 1) - 1 = n /\ n \in Nat
    BY <1>1
  <2>2. D[n + 1] = Up(D[n])
    BY <1>2, <2>1
  <2>3. D[n] \subseteq D[n + 1] /\ D[n + 1] \subseteq Tracked /\ D[n] \subseteq Tracked
    BY <1>4, <2>2 DEF UnderStep
  <2>4. D[n + 1] \subseteq Up(D[n + 1])
    BY <2>2, <2>3 DEF UnderStep
  <2>5. Up(D[n]) = D[n] => Up(D[n + 1]) = D[n + 1]
    BY <2>2
  <2>6. Up(D[n]) # D[n] => Cardinality(D[n + 1]) >= (n + 1) + 1
    <3> SUFFICES ASSUME Up(D[n]) # D[n] PROVE Cardinality(D[n + 1]) >= (n + 1) + 1
      OBVIOUS
    <3>1. Cardinality(D[n]) >= n + 1
      BY <1>4
    <3>2. IsFiniteSet(D[n + 1]) /\ IsFiniteSet(D[n])
      BY <2>3, FS_Subset
    <3>3. Cardinality(D[n + 1]) \in Nat /\ Cardinality(D[n]) \in Nat
      BY <3>2, FS_CardinalityType
    <3>4. Cardinality(D[n]) < Cardinality(D[n + 1])
      BY <2>2, <2>3, <3>2, <3>3, FS_Subset
    <3> QED BY <2>1, <3>1, <3>3, <3>4
  <2> QED BY <2>1, <2>3, <2>4, <2>5, <2>6
<1> HIDE DEF Good
<1>5. \A n \in 0 .. N : n \in Good
  BY <1>1, <1>3, <1>4, InductionUpTo
<1>6. Up(D[N]) = D[N]
  <2>1. N \in Good
    BY <1>1, <1>5
  <2>2. D[N] \subseteq Tracked /\ (Cardinality(D[N]) >= N + 1 \/ Up(D[N]) = D[N])
    BY <2>1 DEF Good
  <2>3. Cardinality(D[N]) <= N /\ Cardinality(D[N]) \in Nat
    BY <2>2, FS_Subset, FS_CardinalityType
  <2> QED BY <1>1, <2>2, <2>3
<1>7. a \in D[N] /\ \A c \in Tracked : slots[SlotOf(c)].owner \in D[N] => c \in D[N]
  BY <1>6 DEF UnderStep
<1> QED BY <1>2, <1>7

\* A table tracks finitely many objects.
LEMMA TrackedIsFinite ==
  ASSUME Table(slots, next, heap), Tracked = {slots[i].ptr : i \in Taken(slots)}
  PROVE  IsFiniteSet(Tracked)
<1>1. Taken(slots) \subseteq 1 .. Len(slots) /\ Len(slots) \in Nat
  BY DEF Table, Taken
<1>2. IsFiniteSet(1 .. Len(slots))
  BY <1>1, FS_Interval
<1>3. IsFiniteSet(Taken(slots))
  BY <1>1, <1>2, FS_Subset
<1> DEFINE f == [i \in Taken(slots) |-> slots[i].ptr]
<1>4. f \in Surjection(Taken(slots), Tracked)
  BY DEF Surjection
<1> QED BY <1>3, <1>4, FS_Surjection

\* Giving an object to another owner keeps the invariant, cycles being refused.
LEMMA SetOwnerKeeps ==
  ASSUME HeapInv, NEW a, NEW o, SetOwner(a, o)
  PROVE  HeapInv'
<1>1. /\ Idle /\ a \in Tracked /\ a \notin Scratch /\ ~slots[SlotOf(a)].destructor
      /\ o = NULL \/ (o \in Tracked /\ o \notin Scratch /\ ~IsAncestor(a, o))
      /\ slots' = [slots EXCEPT ![SlotOf(a)].owner = o]
      /\ UNCHANGED <<next, heap, scratch, stack, phase>>
  BY DEF SetOwner
<1>2. /\ stack = <<>> /\ phase = "open" /\ scratch \in [Addr -> Addr \cup {NULL}]
      /\ Table(slots, next, heap) /\ slots \in Seq(Record)
      /\ OwnersExist(slots) /\ Acyclic(slots) /\ ScratchSound(slots, scratch)
      /\ Tracked = heap /\ heap = {slots[i].ptr : i \in Taken(slots)} /\ heap \subseteq Addr
  BY <1>1, IdleFacts DEF Table
<1>3. PICK k \in Taken(slots) : slots[k].ptr = a
  BY <1>1, <1>2
<1>4. SlotOf(a) = k /\ ~slots[k].destructor
  BY <1>1, <1>2, <1>3, SlotFound DEF Table
<1> DEFINE t == [slots EXCEPT ![k].owner = o]
<1>5. slots' = t
  BY <1>1, <1>4
<1>6. /\ t \in Seq(Record) /\ Len(t) = Len(slots) /\ DOMAIN t = DOMAIN slots
      /\ t[k].owner = o /\ t[k].ptr = slots[k].ptr /\ t[k].destructor = slots[k].destructor
      /\ \A i \in DOMAIN slots \ {k} : t[i] = slots[i]
  <2>1. slots[k] \in Record /\ k \in DOMAIN slots /\ o \in Addr \cup {Context, NULL}
    BY <1>1, <1>2, Records
  <2>2. [slots[k] EXCEPT !.owner = o] \in Record
    BY <2>1 DEF Record
  <2>3. /\ t \in Seq(Record) /\ Len(t) = Len(slots) /\ DOMAIN t = DOMAIN slots
        /\ t[k] = [slots[k] EXCEPT !.owner = o]
        /\ \A i \in DOMAIN slots \ {k} : t[i] = slots[i]
    BY <1>2, <2>1, <2>2
  <2> QED BY <2>1, <2>3 DEF Record
<1> HIDE DEF t
<1>7. /\ \A i \in DOMAIN slots : t[i].ptr = slots[i].ptr /\ t[i].destructor = slots[i].destructor
      /\ \A i \in DOMAIN slots \ {k} : t[i].owner = slots[i].owner
  BY <1>6
<1>8. Taken(t) = Taken(slots) /\ \A i \in Taken(t) : i \in DOMAIN slots /\ t[i].ptr = slots[i].ptr
  BY <1>6, <1>7 DEF Taken
<1>9. Table(t, next, heap)
  <2>1. heap = {t[i].ptr : i \in Taken(t)}
    BY <1>2, <1>8
  <2>2. \A i, j \in Taken(t) : t[i].ptr = t[j].ptr => i = j
    BY <1>2, <1>8 DEF Table
  <2>3. /\ next <= Len(t) + 1
        /\ \A i \in DOMAIN t : i < next => t[i].ptr # NULL
        /\ next \in DOMAIN t => t[next].ptr = NULL
    BY <1>2, <1>6, <1>7 DEF Table
  <2>4. t \in Seq(Record) /\ next \in Nat \ {0} /\ heap \subseteq Addr
    BY <1>2, <1>6 DEF Table
  <2> QED BY <2>1, <2>2, <2>3, <2>4 DEF Table
<1>10. OwnersExist(t)
  <2>1. \A i \in Taken(slots) : slots[i].owner \in heap \cup {Context, NULL}
    BY <1>2 DEF OwnersExist
  <2>2. heap = {t[i].ptr : i \in Taken(t)}
    BY <1>2, <1>8
  <2>3. \A i \in Taken(t) : t[i].owner \in heap \cup {Context, NULL}
    <3> SUFFICES ASSUME NEW i \in Taken(t) PROVE t[i].owner \in heap \cup {Context, NULL}
      OBVIOUS
    <3>1. CASE i = k
      BY <3>1, <1>1, <1>2, <1>6
    <3>2. CASE i # k
      BY <3>2, <1>7, <1>8, <2>1
    <3> QED BY <3>1, <3>2
  <2> QED BY <2>2, <2>3 DEF OwnersExist
<1>11. Acyclic(t)
  <2> SUFFICES ASSUME NEW S \in SUBSET Taken(t), S # {},
                      \A i \in S : \E j \in S : t[i].owner = t[j].ptr
               PROVE  FALSE
    BY DEF Acyclic
  <2>1. S \in SUBSET Taken(slots) /\ \A j \in S : t[j].ptr = slots[j].ptr /\ j \in DOMAIN slots
    BY <1>8
  <2>2. CASE k \notin S
    <3>1. PICK i \in S : \A j \in S : slots[i].owner # slots[j].ptr
      BY <1>2, <2>1 DEF Acyclic
    <3>2. t[i].owner = slots[i].owner
      BY <2>1, <2>2, <1>7
    <3> QED BY <2>1, <3>1, <3>2
  <2>3. CASE k \in S
    <3>1. PICK m \in S : o = t[m].ptr
      BY <2>3, <1>6
    <3>2. o \in Tracked /\ ~IsAncestor(a, o) /\ o = slots[m].ptr
      BY <3>1, <2>1, <1>1 DEF Taken
    <3>3. /\ IsAncestor(a, a)
          /\ \A c \in Tracked : IsAncestor(a, slots[SlotOf(c)].owner) => IsAncestor(a, c)
      <4>1. IsFiniteSet(Tracked)
        BY <1>2, TrackedIsFinite
      <4> QED BY <4>1, <1>1, <1>2, AncestorsAreClosed
    <3> DEFINE R == {i \in S : ~IsAncestor(a, slots[i].ptr)}
    <3>4. R \in SUBSET Taken(slots) /\ R # {} /\ k \notin R
      BY <2>1, <3>2, <3>3, <1>3
    <3>5. PICK i \in R : \A j \in R : slots[i].owner # slots[j].ptr
      BY <3>4, <1>2 DEF Acyclic
    <3>6. PICK j \in S : t[i].owner = t[j].ptr
      BY <3>4
    <3>7. slots[i].owner = slots[j].ptr
      BY <2>1, <3>4, <3>6, <1>7
    <3>8. IsAncestor(a, slots[j].ptr)
      BY <3>5, <3>7
    <3>9. SlotOf(slots[i].ptr) = i /\ slots[i].ptr \in Tracked
      BY <3>4, <1>2, SlotFound DEF Table
    <3> QED BY <3>3, <3>7, <3>8, <3>9
  <2> QED BY <2>2, <2>3
<1>12. ScratchSound(t, scratch)
  <2> SUFFICES ASSUME NEW e \in Addr, scratch[e] # NULL
               PROVE  /\ \E i, j \in Taken(t) : HasScratch(t, i, j, scratch, e)
                      /\ OwnedIn(t, scratch[e]) = {}
                      /\ \A b \in Addr : scratch[b] = scratch[e] => b = e
    BY DEF ScratchSound
  <2>1. PICK i \in Taken(slots), j \in Taken(slots) : HasScratch(slots, i, j, scratch, e)
    BY <1>2 DEF ScratchSound
  <2>2. scratch[e] \in Scratch
    BY DEF Scratch
  <2>3. i # k /\ j # k
    BY <2>1, <2>2, <1>1, <1>3, <1>4 DEF HasScratch
  <2>4. i \in Taken(t) /\ j \in Taken(t) /\ t[i] = slots[i] /\ t[j] = slots[j]
    BY <2>3, <1>6, <1>8 DEF Taken
  <2>5. HasScratch(t, i, j, scratch, e)
    BY <2>1, <2>4 DEF HasScratch
  <2>6. OwnedIn(slots, scratch[e]) = {} /\ \A b \in Addr : scratch[b] = scratch[e] => b = e
    BY <1>2 DEF ScratchSound
  <2>7. o # scratch[e]
    BY <2>2, <1>1
  <2>8. OwnedIn(t, scratch[e]) = {}
    BY <2>6, <2>7, <1>6, <1>7, <1>8 DEF OwnedIn
  <2> QED BY <2>4, <2>5, <2>6, <2>8
<1> QED BY <1>1, <1>2, <1>5, <1>9, <1>10, <1>11, <1>12, OpenIsSound

\* Moving an object keeps the invariant.
LEMMA ReallocKeeps ==
  ASSUME HeapInv, NEW a, NEW b \in Addr, Realloc(a, b)
  PROVE  HeapInv'
<1>1. /\ Idle /\ a \in Tracked /\ b \in Addr \ heap /\ ~slots[SlotOf(a)].destructor
      /\ \A i \in Used : slots[i].owner # a
      /\ a \notin Scratch
      /\ slots' = [slots EXCEPT ![SlotOf(a)].ptr = b]
      /\ heap' = (heap \ {a}) \cup {b}
      /\ UNCHANGED <<next, scratch, stack, phase>>
  BY DEF Realloc
<1>2. /\ stack = <<>> /\ phase = "open" /\ scratch \in [Addr -> Addr \cup {NULL}]
      /\ Table(slots, next, heap) /\ slots \in Seq(Record) /\ Used = Taken(slots)
      /\ OwnersExist(slots) /\ Acyclic(slots) /\ ScratchSound(slots, scratch)
      /\ Tracked = heap /\ heap = {slots[i].ptr : i \in Taken(slots)} /\ heap \subseteq Addr
  BY <1>1, IdleFacts DEF Table
<1>3. PICK k \in Taken(slots) : slots[k].ptr = a
  BY <1>1, <1>2
<1>4. SlotOf(a) = k /\ ~slots[k].destructor /\ b # NULL /\ b # Context
  BY <1>1, <1>2, <1>3, SlotFound, HeapAssumption DEF Table
<1> DEFINE t == [slots EXCEPT ![k].ptr = b]
<1>5. slots' = t
  BY <1>1, <1>4
<1>6. /\ t \in Seq(Record) /\ Len(t) = Len(slots) /\ DOMAIN t = DOMAIN slots
      /\ t[k].ptr = b /\ t[k].owner = slots[k].owner /\ t[k].destructor = slots[k].destructor
      /\ \A i \in DOMAIN slots \ {k} : t[i] = slots[i]
      /\ k \in DOMAIN slots
  <2>1. slots[k] \in Record /\ k \in DOMAIN slots
    BY <1>2, Records
  <2>2. [slots[k] EXCEPT !.ptr = b] \in Record
    BY <2>1 DEF Record
  <2>3. /\ t \in Seq(Record) /\ Len(t) = Len(slots) /\ DOMAIN t = DOMAIN slots
        /\ t[k] = [slots[k] EXCEPT !.ptr = b]
        /\ \A i \in DOMAIN slots \ {k} : t[i] = slots[i]
    BY <1>2, <2>1, <2>2
  <2> QED BY <2>1, <2>3 DEF Record
<1> HIDE DEF t
<1>7. /\ \A i \in DOMAIN slots : t[i].owner = slots[i].owner /\ t[i].destructor = slots[i].destructor
      /\ \A i \in DOMAIN slots \ {k} : t[i].ptr = slots[i].ptr
  BY <1>6
<1>8. Taken(t) = Taken(slots) /\ \A i \in Taken(t) : i \in DOMAIN slots
  BY <1>3, <1>4, <1>6, <1>7 DEF Taken
<1>9. \A i \in Taken(slots) : i # k => t[i].ptr = slots[i].ptr /\ t[i].ptr \in heap /\ t[i].ptr # a /\ t[i].ptr # b
  <2>1. \A i \in Taken(slots) : i # k => slots[i].ptr # a
    BY <1>2, <1>3 DEF Table
  <2> QED BY <1>1, <1>2, <1>7, <1>8, <2>1
<1>10. Table(t, next, heap')
  <2>1. heap' = {t[i].ptr : i \in Taken(t)}
    <3>1. \A x \in heap : x # a => \E i \in Taken(t) : x = t[i].ptr
      BY <1>2, <1>3, <1>8, <1>9
    <3> QED BY <1>1, <1>6, <1>8, <1>9, <3>1
  <2>2. \A i, j \in Taken(t) : t[i].ptr = t[j].ptr => i = j
    <3>1. \A i, j \in Taken(slots) : i # k /\ j # k /\ t[i].ptr = t[j].ptr => i = j
      BY <1>2, <1>9 DEF Table
    <3> QED BY <1>6, <1>8, <1>9, <3>1
  <2>3. /\ next <= Len(t) + 1
        /\ \A i \in DOMAIN t : i < next => t[i].ptr # NULL
        /\ next \in DOMAIN t => t[next].ptr = NULL
    <3>1. /\ next <= Len(slots) + 1
          /\ \A i \in DOMAIN slots : i < next => slots[i].ptr # NULL
          /\ next \in DOMAIN slots => slots[next].ptr = NULL
      BY <1>2 DEF Table
    <3>2. next # k
      BY <3>1, <1>6 DEF Taken
    <3> QED BY <3>1, <3>2, <1>4, <1>6, <1>7
  <2>4. t \in Seq(Record) /\ next \in Nat \ {0} /\ heap' \subseteq Addr
    BY <1>1, <1>2, <1>6 DEF Table
  <2> QED BY <2>1, <2>2, <2>3, <2>4 DEF Table
<1>11. \A i \in Taken(slots) : slots[i].owner \in heap \cup {Context, NULL} /\ slots[i].owner # a /\ slots[i].owner # b
  <2>1. \A i \in Taken(slots) : slots[i].owner \in heap \cup {Context, NULL}
    BY <1>2 DEF OwnersExist
  <2> QED BY <1>1, <1>2, <1>4, <2>1
<1>12. OwnersExist(t)
  <2>1. heap' = {t[i].ptr : i \in Taken(t)}
    BY <1>10 DEF Table
  <2>2. \A i \in Taken(t) : t[i].owner \in heap' \cup {Context, NULL}
    BY <1>1, <1>7, <1>8, <1>11
  <2> QED BY <2>1, <2>2 DEF OwnersExist
<1>13. Acyclic(t)
  <2> SUFFICES ASSUME NEW S \in SUBSET Taken(t), S # {}
               PROVE  \E i \in S : \A j \in S : t[i].owner # t[j].ptr
    BY DEF Acyclic
  <2>1. PICK i \in S : \A j \in S : slots[i].owner # slots[j].ptr
    BY <1>2, <1>8 DEF Acyclic
  <2>2. \A j \in S : t[i].owner # t[j].ptr
    <3> SUFFICES ASSUME NEW j \in S PROVE t[i].owner # t[j].ptr
      OBVIOUS
    <3>1. i \in Taken(slots) /\ j \in Taken(slots) /\ t[i].owner = slots[i].owner
      BY <1>7, <1>8
    <3>2. CASE j = k
      BY <3>1, <3>2, <1>6, <1>11
    <3>3. CASE j # k
      BY <3>1, <3>3, <1>9, <2>1
    <3> QED BY <3>2, <3>3
  <2> QED BY <2>2
<1>14. ScratchSound(t, scratch)
  <2> SUFFICES ASSUME NEW e \in Addr, scratch[e] # NULL
               PROVE  /\ \E i, j \in Taken(t) : HasScratch(t, i, j, scratch, e)
                      /\ OwnedIn(t, scratch[e]) = {}
                      /\ \A d \in Addr : scratch[d] = scratch[e] => d = e
    BY DEF ScratchSound
  <2>1. PICK i \in Taken(slots), j \in Taken(slots) : HasScratch(slots, i, j, scratch, e)
    BY <1>2 DEF ScratchSound
  <2>2. scratch[e] \in Scratch
    BY DEF Scratch
  <2>3. i # k /\ j # k
    BY <2>1, <2>2, <1>1, <1>3, <1>4 DEF HasScratch
  <2>4. i \in Taken(t) /\ j \in Taken(t) /\ t[i] = slots[i] /\ t[j] = slots[j]
    BY <2>3, <1>6, <1>8
  <2>5. HasScratch(t, i, j, scratch, e)
    BY <2>1, <2>4 DEF HasScratch
  <2>6. OwnedIn(slots, scratch[e]) = {} /\ \A d \in Addr : scratch[d] = scratch[e] => d = e
    BY <1>2 DEF ScratchSound
  <2>7. OwnedIn(t, scratch[e]) = {}
    BY <2>6, <1>7, <1>8 DEF OwnedIn
  <2> QED BY <2>4, <2>5, <2>6, <2>7
<1> QED BY <1>1, <1>2, <1>5, <1>10, <1>12, <1>13, <1>14, OpenIsSound

\* A stack of one frame, the beginning of a destruction.
LEMMA StackOfOne ==
  ASSUME NEW s, NEW c, NEW ph, NEW f \in FrameSet, f.op = "destroy", f.stage = "enter",
         f.arg = Context <=> ph = "terminating"
  PROVE  /\ Stacked(s, c, <<f>>, ph) /\ Len(<<f>>) = 1 /\ <<f>>[1] = f /\ <<f>> # <<>>
<1>1. <<f>> \in Seq(FrameSet) /\ Len(<<f>>) = 1 /\ DOMAIN <<f>> = {1} /\ <<f>>[1] = f /\ <<f>> # <<>>
  OBVIOUS
<1>2. Stays(s, c, f)
  BY DEF Stays, FrameSet
<1> QED BY <1>1, <1>2 DEF Stacked

\* A destruction begins.
LEMMA BegunIsSound ==
  ASSUME Table(slots, next, heap), OwnersExist(slots), Acyclic(slots), ScratchSound(slots, scratch),
         scratch \in [Addr -> Addr \cup {NULL}], OwnersMarked(slots),
         UNCHANGED <<slots, next, heap, scratch>>,
         NEW f \in FrameSet, f.op = "destroy", f.stage = "enter", stack' = <<f>>,
         phase' \in {"open", "terminating"}, f.arg = Context <=> phase' = "terminating",
         phase' = "terminating" => ScratchAbove(slots, scratch),
         f.arg # Context => (\E i \in Taken(slots) : slots[i].ptr = f.arg) /\ \A d \in Addr : scratch[d] # f.arg
  PROVE  HeapInv'
<1>1. (heap \subseteq Addr /\ scratch \in [Addr -> Addr \cup {NULL}])'
  BY DEF Table
<1>2. (phase \in {"open", "terminating", "swept", "ended"})'
  OBVIOUS
<1>3. Stacked(slots, scratch, stack, phase)'
  BY StackOfOne
<1>4. (phase = "ended" => slots = <<>> /\ next = 1)'
  OBVIOUS
<1>5. (phase # "ended" => /\ Table(slots, next, heap)
                          /\ OwnersExist(slots) /\ Acyclic(slots) /\ ScratchSound(slots, scratch))'
  OBVIOUS
<1>6. (stack # <<>> => /\ phase \in {"open", "terminating"}
                       /\ OwnersMarked(slots) /\ Runs(slots, scratch, Top))'
  <2>1. Top' = f
    BY StackOfOne DEF Top
  <2>2. Runs(slots, scratch, f)
    BY DEF Runs
  <2> QED BY <2>1, <2>2
<1>7. (/\ phase = "terminating" => ScratchAbove(slots, scratch)
       /\ phase = "swept" => OwnedIn(slots, Context) = {})'
  OBVIOUS
<1> QED BY <1>1, <1>2, <1>3, <1>4, <1>5, <1>6, <1>7 DEF HeapInv

\* Beginning to destroy an object keeps the invariant.
LEMMA DestroyKeeps ==
  ASSUME ~Aborts, HeapInv, NEW a \in Addr, Destroy(a)
  PROVE  HeapInv'
<1> DEFINE f == Frame("destroy", a, 1, "enter")
<1>1. /\ Idle /\ a \in Tracked /\ a \notin Scratch /\ Settled /\ stack' = <<f>>
      /\ UNCHANGED <<slots, next, heap, scratch>> /\ phase' = phase
  BY DEF Destroy
<1>2. /\ phase = "open" /\ scratch \in [Addr -> Addr \cup {NULL}]
      /\ Table(slots, next, heap) /\ Used = Taken(slots)
      /\ OwnersExist(slots) /\ Acyclic(slots) /\ ScratchSound(slots, scratch)
      /\ Tracked = {slots[i].ptr : i \in Taken(slots)}
  BY <1>1, IdleFacts
<1>3. f \in FrameSet /\ f.op = "destroy" /\ f.arg = a /\ f.stage = "enter" /\ a # Context /\ a # NULL
  BY NewFrame, HeapAssumption
<1> HIDE DEF f
<1>4. OwnersMarked(slots)
  BY <1>1, <1>2 DEF Settled, OwnersMarked
<1>5. (\E i \in Taken(slots) : slots[i].ptr = a) /\ \A d \in Addr : scratch[d] # a
  BY <1>1, <1>2, <1>3 DEF Scratch
<1>6. phase' = "open"
  BY <1>1, <1>2
<1> QED BY <1>1, <1>2, <1>3, <1>4, <1>5, <1>6, BegunIsSound

\* Beginning to end a context keeps the invariant.
LEMMA BeginTerminateKeeps ==
  ASSUME ~Aborts, ~Abandons, HeapInv, BeginTerminate
  PROVE  HeapInv'
<1> DEFINE f == Frame("destroy", Context, 1, "enter")
<1>1. /\ Idle /\ Settled /\ stack' = <<f>>
      /\ \A d \in Tracked : scratch[d] # NULL => SlotOf(scratch[d]) > SlotOf(d)
      /\ UNCHANGED <<slots, next, heap, scratch>> /\ phase' = "terminating"
  BY DEF BeginTerminate
<1>2. /\ scratch \in [Addr -> Addr \cup {NULL}] /\ slots \in Seq(Record)
      /\ Table(slots, next, heap) /\ Used = Taken(slots)
      /\ OwnersExist(slots) /\ Acyclic(slots) /\ ScratchSound(slots, scratch)
      /\ Tracked = {slots[i].ptr : i \in Taken(slots)}
  BY <1>1, IdleFacts
<1>3. f \in FrameSet /\ f.op = "destroy" /\ f.arg = Context /\ f.stage = "enter"
  BY NewFrame
<1> HIDE DEF f
<1>4. OwnersMarked(slots)
  BY <1>1, <1>2 DEF Settled, OwnersMarked
<1>5. ScratchAbove(slots, scratch)
  <2> SUFFICES ASSUME NEW d \in Addr, scratch[d] # NULL, NEW i \in Taken(slots), NEW k \in Taken(slots),
                      slots[i].ptr = d, slots[k].ptr = scratch[d]
               PROVE  i < k
    BY DEF ScratchAbove
  <2>1. SlotOf(d) = i /\ SlotOf(scratch[d]) = k /\ d \in Tracked
    BY <1>2, SlotFound DEF Table
  <2>2. i \in Nat /\ k \in Nat
    BY <1>2, Records
  <2> QED BY <1>1, <2>1, <2>2
<1> QED BY <1>1, <1>2, <1>3, <1>4, <1>5, BegunIsSound

-----------------------------------------------------------------------------
\* The invariant holds of every state of a context whose clients do not give up
\* half way, and that is not ended with a decoder's scratch below its state.
LEMMA HeapBegins ==
  Init => HeapInv
<1> SUFFICES ASSUME Init
             PROVE  HeapInv
  OBVIOUS
<1>1. /\ slots = <<>> /\ next = 1 /\ heap = {} /\ scratch = [a \in Addr |-> NULL]
      /\ stack = <<>> /\ phase = "open"
  BY DEF Init
<1>2. slots \in Seq(Record) /\ Len(slots) = 0 /\ DOMAIN slots = {} /\ Taken(slots) = {}
  BY <1>1 DEF Taken
<1>3. Table(slots, next, heap)
  BY <1>1, <1>2 DEF Table
<1>4. OwnersExist(slots) /\ Acyclic(slots)
  BY <1>2 DEF OwnersExist, Acyclic
<1>5. scratch \in [Addr -> Addr \cup {NULL}] /\ \A d \in Addr : scratch[d] = NULL
  BY <1>1
<1>6. ScratchSound(slots, scratch)
  BY <1>5 DEF ScratchSound
<1>7. Stacked(slots, scratch, stack, phase)
  BY <1>1 DEF Stacked
<1> QED BY <1>1, <1>3, <1>4, <1>5, <1>6, <1>7 DEF HeapInv

\* A step that changes nothing keeps the invariant.
LEMMA HeapStutters ==
  HeapInv /\ UNCHANGED vars => HeapInv'
<1> SUFFICES ASSUME HeapInv, UNCHANGED vars
             PROVE  HeapInv'
  OBVIOUS
<1>1. slots' = slots /\ next' = next /\ heap' = heap /\ scratch' = scratch /\ stack' = stack /\ phase' = phase
  BY DEF vars
<1>2. Top' = Top
  BY <1>1 DEF Top
<1> QED BY <1>1, <1>2 DEF HeapInv

\* Every step keeps the invariant.
LEMMA HeapSteps ==
  ASSUME ~Aborts, ~Abandons
  PROVE  HeapInv /\ [Next]_vars => HeapInv'
<1> SUFFICES ASSUME HeapInv, [Next]_vars
             PROVE  HeapInv'
  OBVIOUS
<1>1. CASE UNCHANGED vars
  BY <1>1, HeapStutters
<1>2. CASE Client
  <2>1. CASE \E a \in Addr, o \in Addr \cup {Context} : Malloc(a, o) \/ CreateIo(a, o)
    BY <2>1, AllocateKeeps DEF Malloc, CreateIo
  <2>2. CASE \E a \in Addr : CreateDecoder(a)
    BY <2>2, AllocateKeeps DEF CreateDecoder
  <2>3. CASE \E a \in Addr : FinishRead(a)
    BY <2>3, FinishReadKeeps
  <2>4. CASE \E a \in Addr : Destroy(a)
    BY <2>4, DestroyKeeps
  <2>5. CASE \E a, b \in Addr : BeginRead(a, b)
    BY <2>5, BeginReadKeeps
  <2>6. CASE \E a, b \in Addr : Realloc(a, b)
    BY <2>6, ReallocKeeps
  <2>7. CASE \E a \in Addr, o \in Addr \cup {NULL} : SetOwner(a, o)
    BY <2>7, SetOwnerKeeps
  <2>8. CASE BeginTerminate
    BY <2>8, BeginTerminateKeeps
  <2> QED BY <1>2, <2>1, <2>2, <2>3, <2>4, <2>5, <2>6, <2>7, <2>8 DEF Client
<1>3. CASE Destroying
  BY <1>3, EnterDestroyKeeps, ReturnDestroyKeeps, SeekChildKeeps, DestructChildKeeps, DestructorsDoneKeeps,
     PartialChildrenKeeps, PartialOwnKeeps, PartialFreeKeeps, DestroyNextOwnedKeeps, DestroyedOwnedKeeps,
     EndTerminateKeeps DEF Destroying
<1>4. CASE Over
  BY <1>4, HeapStutters DEF Over
<1> QED BY <1>1, <1>2, <1>3, <1>4 DEF Next

\* In every state of a context whose clients do not abort a destruction or abandon
\* memory: the table fits the heap, owners are alive and form no cycle, and each
\* destruction in progress stands where the record it walks from still is
\* (context_heap.c:62-109, 240-412).
THEOREM HeapInvariant ==
  ASSUME ~Aborts, ~Abandons
  PROVE  Spec => []HeapInv
<1>1. Init => HeapInv
  BY HeapBegins
<1>2. HeapInv /\ [Next]_vars => HeapInv'
  BY HeapSteps
<1> QED BY <1>1, <1>2, PTL DEF Spec

\* What a state of the invariant has of the properties.
LEMMA HeapStates ==
  ASSUME HeapInv
  PROVE  TypeOK /\ TableMatchesHeap /\ NextIsLowestFree /\ NothingFreedTwice /\ TeardownFreesAll
<1>1. CASE phase = "ended"
  <2>1. slots = <<>> /\ next = 1 /\ heap \subseteq Addr /\ scratch \in [Addr -> Addr \cup {NULL}]
    BY <1>1 DEF HeapInv
  <2>2. slots \in Seq(Record) /\ DOMAIN slots = {} /\ Len(slots) = 0 /\ Used = {}
    BY <2>1 DEF Used
  <2> QED BY <1>1, <2>1, <2>2 DEF TypeOK, TableMatchesHeap, NextIsLowestFree, NothingFreedTwice, TeardownFreesAll
<1>2. CASE phase # "ended"
  <2>1. /\ Table(slots, next, heap) /\ OwnersExist(slots) /\ scratch \in [Addr -> Addr \cup {NULL}]
        /\ phase \in {"open", "terminating", "swept"}
        /\ phase = "swept" => OwnedIn(slots, Context) = {}
    BY <1>2 DEF HeapInv
  <2>2. Used = Taken(slots) /\ Tracked = {slots[i].ptr : i \in Taken(slots)}
    BY DEF Used, Tracked, Taken
  <2>3. TypeOK /\ TableMatchesHeap /\ NextIsLowestFree /\ NothingFreedTwice
    BY <2>1, <2>2 DEF Table, TypeOK, TableMatchesHeap, NextIsLowestFree, NothingFreedTwice
  <2>4. TeardownFreesAll
    BY <2>1, <2>2 DEF TeardownFreesAll, OwnersExist, OwnedIn
  <2> QED BY <2>3, <2>4
<1> QED BY <1>1, <1>2

\* The records of all addresses are of what the underlying heap has handed out, the
\* free slot is the lowest, and nothing is freed twice; in every state, for contexts
\* of any number of objects (context_heap.c:62-109, 265-398).
THEOREM TableStaysSound ==
  ASSUME ~Aborts, ~Abandons
  PROVE  Spec => [](TypeOK /\ TableMatchesHeap /\ NextIsLowestFree /\ NothingFreedTwice)
<1>1. Spec => []HeapInv
  BY HeapInvariant
<1>2. HeapInv => TypeOK /\ TableMatchesHeap /\ NextIsLowestFree /\ NothingFreedTwice
  BY HeapStates
<1> QED BY <1>1, <1>2, PTL

\* Ending a context frees all but what was given up on purpose, and what that owns
\* (imageflow_advanced.h:46-53, context_heap.c:240-327).
THEOREM TeardownIsComplete ==
  ASSUME ~Aborts, ~Abandons
  PROVE  Spec => []TeardownFreesAll
<1>1. Spec => []HeapInv
  BY HeapInvariant
<1>2. HeapInv => TeardownFreesAll
  BY HeapStates
<1> QED BY <1>1, <1>2, PTL

-----------------------------------------------------------------------------
\* The order of destructors.

\* What DestructorsFirst says of one step, and one record.
InOrder(i) ==
  LET r     == slots[i]
      owned == {j \in Used : slots[j].owner = r.ptr}
  IN  i \in DOMAIN slots' =>
        /\ ~r.called /\ slots'[i].ptr = r.ptr /\ slots'[i].called
             => \A j \in owned : slots[j].destructor => slots[j].called
        /\ slots'[i].ptr = NULL
             => owned = {} /\ (r.destructor => r.called)

\* A step that neither destructs nor empties the record.
LEMMA InOrderIfKept ==
  ASSUME NEW i, slots'[i].ptr # NULL, slots'[i].called = slots[i].called
  PROVE  InOrder(i)
BY DEF InOrder

\* A step that empties the record of what owns nothing and needs no destructor.
LEMMA InOrderIfEmptied ==
  ASSUME NEW i \in Used, slots'[i] = Cleared, OwnedIn(slots, slots[i].ptr) = {},
         slots[i].destructor => slots[i].called
  PROVE  InOrder(i)
<1>1. slots'[i].ptr = NULL /\ slots[i].ptr # NULL
  BY DEF Cleared, Used
<1>2. {j \in Used : slots[j].owner = slots[i].ptr} = {}
  BY DEF OwnedIn, Used, Taken
<1> QED BY <1>1, <1>2 DEF InOrder

\* A destructor is called when all below its object have been called.
LEMMA CallIsInOrder ==
  ASSUME HeapInv, stack # <<>>, NEW at \in Taken(slots), CallDestructor(at), Quiet(slots, slots[at].ptr),
         NEW i \in Used
  PROVE  InOrder(i)
<1>1. i \in Taken(slots) /\ i \in DOMAIN slots /\ slots[i].ptr # NULL
  BY DEF Used, Taken
<1>2. PICK k \in Nat :
        /\ Follows(slots, slots', k)
        /\ k # 0 => OwnedIn(slots, slots[k].ptr) = {} /\ ~slots[k].destructor
  BY DestructorCalled
<1>3. i # 0
  BY <1>1, TopFacts, Records
<1>4. CASE i = k
  <2>1. slots'[i] = Cleared
    BY <1>1, <1>2, <1>4 DEF Follows
  <2> QED BY <1>2, <1>3, <1>4, <2>1, InOrderIfEmptied
<1>5. CASE i # k
  <2>1. slots'[i].ptr = slots[i].ptr
    BY <1>1, <1>2, <1>5 DEF Follows
  <2>2. CASE i = at
    <3>1. \A j \in {l \in Used : slots[l].owner = slots[i].ptr} : slots[j].destructor => slots[j].called
      BY <2>2 DEF Quiet, OwnedIn, Used, Taken
    <3> QED BY <1>1, <2>1, <3>1 DEF InOrder
  <2>3. CASE i # at
    <3>1. slots'[i] = slots[i]
      <4>1. slots'[i] = slots[i] \/ slots'[i] = Cleared
        BY <1>1, <2>3, DestructorCalled
      <4> QED BY <4>1, <1>1, <2>1 DEF Cleared
    <3> QED BY <1>1, <3>1, InOrderIfKept
  <2> QED BY <2>2, <2>3
<1> QED BY <1>4, <1>5

\* Memory is freed when destructors have been called and nothing is owned.
LEMMA FreeIsInOrder ==
  ASSUME HeapInv, PartialFree, NEW i \in Used
  PROVE  InOrder(i)
<1>1. /\ stack # <<>> /\ Top.op = "partial" /\ Top.stage = "free" /\ slots' = Clear(slots, Top.at)
  BY DEF PartialFree, Running
<1>2. /\ Stays(slots, scratch, Top) /\ Runs(slots, scratch, Top) /\ slots \in Seq(Record)
  BY <1>1, TopFacts
<1>3. /\ Top.at \in Taken(slots) /\ slots[Top.at].ptr = Top.arg /\ OwnedIn(slots, Top.arg) = {}
      /\ slots[Top.at].destructor => slots[Top.at].called
  BY <1>1, <1>2 DEF Stays, Runs
<1>4. i \in DOMAIN slots /\ slots[i].ptr # NULL /\ Top.at \in DOMAIN slots
  BY <1>3 DEF Used, Taken
<1>5. CASE i = Top.at
  BY <1>1, <1>3, <1>4, <1>5, InOrderIfEmptied DEF Clear
<1>6. CASE i # Top.at
  <2>1. slots'[i] = slots[i]
    BY <1>1, <1>4, <1>6 DEF Clear
  <2> QED BY <1>4, <2>1, InOrderIfKept
<1> QED BY <1>5, <1>6

\* A decoder frees what it allocated in that order too.
LEMMA FinishIsInOrder ==
  ASSUME HeapInv, NEW d \in Addr, FinishRead(d), NEW i \in Used
  PROVE  InOrder(i)
<1>1. Idle /\ scratch[d] # NULL /\ FreeScratch(d, slots)
  BY DEF FinishRead
<1>2. /\ Table(slots, next, heap) /\ ScratchSound(slots, scratch) /\ slots \in Seq(Record)
      /\ Tracked = {slots[j].ptr : j \in Taken(slots)}
  BY <1>1, IdleFacts
<1>3. PICK j \in Taken(slots), k \in Taken(slots) : HasScratch(slots, j, k, scratch, d)
  BY <1>1, <1>2 DEF ScratchSound
<1>4. slots[k].ptr = scratch[d] /\ ~slots[k].destructor /\ OwnedIn(slots, slots[k].ptr) = {}
  BY <1>1, <1>2, <1>3 DEF HasScratch, ScratchSound
<1>5. SlotOf(scratch[d]) = k /\ scratch[d] \in Tracked /\ k \in DOMAIN slots
  BY <1>2, <1>4, SlotFound DEF Table, Taken
<1>6. slots' = Clear(slots, k)
  BY <1>1, <1>5 DEF FreeScratch
<1>7. i \in DOMAIN slots /\ slots[i].ptr # NULL
  BY DEF Used
<1>8. CASE i = k
  BY <1>4, <1>5, <1>6, <1>8, InOrderIfEmptied DEF Clear
<1>9. CASE i # k
  <2>1. slots'[i] = slots[i]
    BY <1>5, <1>6, <1>7, <1>9 DEF Clear
  <2> QED BY <1>7, <2>1, InOrderIfKept
<1> QED BY <1>8, <1>9

\* A record of which one field that is not `called` is written.
LEMMA WriteIsInOrder ==
  ASSUME HeapInv, Idle, NEW i \in Used, NEW k \in Used,
         \/ \E b \in Addr : slots' = [slots EXCEPT ![k].ptr = b]
         \/ \E o : slots' = [slots EXCEPT ![k].owner = o]
  PROVE  InOrder(i)
<1>1. slots \in Seq(Record) /\ i \in DOMAIN slots /\ k \in DOMAIN slots /\ slots[i].ptr # NULL
  BY IdleFacts DEF Used
<1>2. slots[i] \in Record /\ slots[k] \in Record
  BY <1>1
<1>3. CASE \E b \in Addr : slots' = [slots EXCEPT ![k].ptr = b]
  <2>1. PICK b \in Addr : slots' = [slots EXCEPT ![k].ptr = b]
    BY <1>3
  <2>2. slots'[i] = IF i = k THEN [slots[k] EXCEPT !.ptr = b] ELSE slots[i]
    BY <1>1, <2>1
  <2>3. b # NULL
    BY HeapAssumption
  <2>4. slots'[i].ptr # NULL /\ slots'[i].called = slots[i].called
    BY <1>1, <1>2, <2>2, <2>3 DEF Record
  <2> QED BY <2>4, InOrderIfKept
<1>4. CASE \E o : slots' = [slots EXCEPT ![k].owner = o]
  <2>1. PICK o : slots' = [slots EXCEPT ![k].owner = o]
    BY <1>4
  <2>2. slots'[i] = IF i = k THEN [slots[k] EXCEPT !.owner = o] ELSE slots[i]
    BY <1>1, <2>1
  <2>3. slots'[i].ptr # NULL /\ slots'[i].called = slots[i].called
    BY <1>1, <1>2, <2>2 DEF Record
  <2> QED BY <2>3, InOrderIfKept
<1> QED BY <1>3, <1>4

\* Every step is in that order.
LEMMA StepIsInOrder ==
  ASSUME HeapInv, Next, NEW i \in Used
  PROVE  InOrder(i)
<1>0. i \in DOMAIN slots /\ i \in Taken(slots) /\ slots[i].ptr # NULL
  BY DEF Used, Taken
<1>1. CASE slots' = slots
  BY <1>0, <1>1, InOrderIfKept
<1>2. CASE slots' = <<>>
  BY <1>2 DEF InOrder
<1>3. ASSUME NEW a, NEW o, NEW d \in BOOLEAN, Allocate(a, o, d)
      PROVE  InOrder(i)
  <2>1. slots'[i].ptr = slots[i].ptr /\ slots'[i].called = slots[i].called
    BY <1>0, <1>3, Allocated
  <2> QED BY <1>0, <2>1, InOrderIfKept
<1>4. CASE Client
  <2>1. CASE \E a \in Addr, o \in Addr \cup {Context} : Malloc(a, o) \/ CreateIo(a, o)
    BY <2>1, <1>3 DEF Malloc, CreateIo
  <2>2. CASE \E a \in Addr : CreateDecoder(a)
    BY <2>2, <1>3 DEF CreateDecoder
  <2>3. CASE \E a \in Addr : FinishRead(a)
    BY <2>3, FinishIsInOrder
  <2>4. CASE BeginTerminate \/ \E a \in Addr : Destroy(a)
    BY <2>4, <1>1 DEF BeginTerminate, Destroy
  <2>5. CASE \E a, b \in Addr : BeginRead(a, b)
    BY <2>5, <1>3 DEF BeginRead
  <2>6. ASSUME NEW a \in Addr, NEW b \in Addr, Realloc(a, b)
        PROVE  InOrder(i)
    <3>1. Idle /\ a \in Tracked /\ slots' = [slots EXCEPT ![SlotOf(a)].ptr = b]
      BY <2>6 DEF Realloc
    <3>2. SlotOf(a) \in Used
      BY <3>1, IdleFacts, SlotFound DEF Table
    <3> QED BY <3>1, <3>2, WriteIsInOrder
  <2>7. ASSUME NEW a \in Addr, NEW o \in Addr \cup {NULL}, SetOwner(a, o)
        PROVE  InOrder(i)
    <3>1. Idle /\ a \in Tracked /\ slots' = [slots EXCEPT ![SlotOf(a)].owner = o]
      BY <2>7 DEF SetOwner
    <3>2. SlotOf(a) \in Used
      BY <3>1, IdleFacts, SlotFound DEF Table
    <3> QED BY <3>1, <3>2, WriteIsInOrder
  <2> QED BY <1>4, <2>1, <2>2, <2>3, <2>4, <2>5, <2>6, <2>7 DEF Client
<1>5. CASE DestructChild
  <2>1. stack # <<>> /\ Top.op = "destructors" /\ Top.stage = "call" /\ CallDestructor(Top.at)
    BY <1>5 DEF DestructChild, Running
  <2>2. Top.at \in Taken(slots) /\ Quiet(slots, slots[Top.at].ptr)
    BY <2>1, TopFacts DEF Stays, Runs, OwnedIn
  <2> QED BY <2>1, <2>2, CallIsInOrder
<1>6. CASE PartialOwn
  <2>1. stack # <<>> /\ Top.op = "partial" /\ Top.stage = "own" /\ CallDestructor(Top.at)
    BY <1>6 DEF PartialOwn, Running
  <2>2. Top.at \in Taken(slots) /\ Quiet(slots, slots[Top.at].ptr)
    BY <2>1, TopFacts DEF Stays, Runs
  <2> QED BY <2>1, <2>2, CallIsInOrder
<1>7. CASE Destroying
  BY <1>1, <1>2, <1>5, <1>6, <1>7, FreeIsInOrder
     DEF Destroying, EnterDestroy, ReturnDestroy, SeekChild, DestructorsDone, PartialChildren,
         DestroyNextOwned, DestroyedOwned, EndTerminate
<1>8. CASE Over
  BY <1>1, <1>8 DEF Over, vars
<1> QED BY <1>4, <1>7, <1>8 DEF Next

\* Whatever a context holds, destructors run bottom up, and no memory goes before
\* its destructor has been called or while it owns anything (context_heap.c:240-310).
THEOREM DestructorsComeFirst ==
  ASSUME ~Aborts, ~Abandons
  PROVE  Spec => DestructorsFirst
<1>1. Spec => []HeapInv
  BY HeapInvariant
<1>2. HeapInv /\ [Next]_vars => [\A i \in Used : InOrder(i)]_vars
  BY StepIsInOrder
<1> QED BY <1>1, <1>2, PTL DEF Spec, DestructorsFirst, InOrder

-----------------------------------------------------------------------------

\* What the forest sees of the table, and of the stack.
OwnerOf == [a \in Tracked |-> slots[SlotOf(a)].owner]
Doomed == IF stack = <<>> THEN {} ELSE {stack[1].arg}

\* How the table is seen as a forest.
LEMMA ForestSeen ==
  /\ Forest!vars = <<OwnerOf, Doomed>> /\ Forest!Objects = Tracked
  /\ \A x : Forest!OwnedBy(x) = {a \in Tracked : OwnerOf[a] = x}
BY DEF Forest!vars, Forest!Objects, Forest!OwnedBy, OwnerOf, Doomed

\* The owner of an object is in its record.
LEMMA OwnersSeen ==
  Table(slots, next, heap) =>
    /\ Tracked = heap /\ DOMAIN OwnerOf = heap /\ OwnerOf = [a \in heap |-> OwnerOf[a]]
    /\ \A i \in Taken(slots) : slots[i].ptr \in heap /\ OwnerOf[slots[i].ptr] = slots[i].owner
    /\ \A a \in heap : \E i \in Taken(slots) : slots[i].ptr = a
    /\ \A x : {a \in heap : OwnerOf[a] = x} = {} <=> OwnedIn(slots, x) = {}
<1> SUFFICES ASSUME Table(slots, next, heap)
             PROVE  /\ Tracked = heap /\ DOMAIN OwnerOf = heap /\ OwnerOf = [a \in heap |-> OwnerOf[a]]
                    /\ \A i \in Taken(slots) : slots[i].ptr \in heap /\ OwnerOf[slots[i].ptr] = slots[i].owner
                    /\ \A a \in heap : \E i \in Taken(slots) : slots[i].ptr = a
                    /\ \A x : {a \in heap : OwnerOf[a] = x} = {} <=> OwnedIn(slots, x) = {}
  OBVIOUS
<1>1. Tracked = heap /\ heap = {slots[i].ptr : i \in Taken(slots)}
  BY DEF Table, Tracked, Used, Taken
<1>2. DOMAIN OwnerOf = heap /\ OwnerOf = [a \in heap |-> OwnerOf[a]] /\ \A a \in heap : OwnerOf[a] = slots[SlotOf(a)].owner
  BY <1>1 DEF OwnerOf
<1>3. \A i \in Taken(slots) : slots[i].ptr \in heap /\ OwnerOf[slots[i].ptr] = slots[i].owner
  <2> SUFFICES ASSUME NEW i \in Taken(slots) PROVE slots[i].ptr \in heap /\ OwnerOf[slots[i].ptr] = slots[i].owner
    OBVIOUS
  <2>1. SlotOf(slots[i].ptr) = i
    BY SlotFound DEF Table
  <2> QED BY <1>1, <1>2, <2>1
<1>4. \A a \in heap : \E i \in Taken(slots) : slots[i].ptr = a
  BY <1>1
<1>5. ASSUME NEW x PROVE {a \in heap : OwnerOf[a] = x} = {} <=> OwnedIn(slots, x) = {}
  BY <1>3, <1>4 DEF OwnedIn
<1> QED BY <1>1, <1>2, <1>3, <1>4, <1>5

\* The owners that are seen are those in the table, also after a step.
LEMMA OwnersSeenNext ==
  (Table(slots, next, heap) =>
    /\ Tracked = heap /\ DOMAIN OwnerOf = heap /\ OwnerOf = [a \in heap |-> OwnerOf[a]]
    /\ \A i \in Taken(slots) : slots[i].ptr \in heap /\ OwnerOf[slots[i].ptr] = slots[i].owner
    /\ \A a \in heap : \E i \in Taken(slots) : slots[i].ptr = a
    /\ \A x : {a \in heap : OwnerOf[a] = x} = {} <=> OwnedIn(slots, x) = {})'
BY OwnersSeen, PTL

\* The objects below x: those that are in every set that has x, what x owns, and what
\* is owned by one of its own.
HasAllBelow(X, x) == \A b \in heap : b = x \/ OwnerOf[b] = x \/ OwnerOf[b] \in X => b \in X
BelowOf(x) == {b \in heap : \A X \in SUBSET heap : HasAllBelow(X, x) => b \in X}

\* What is below an object is the least set closed under owning.
LEMMA BelowIsLeast ==
  ASSUME NEW x
  PROVE  /\ \A b \in heap : b \in BelowOf(x) <=> b = x \/ OwnerOf[b] = x \/ OwnerOf[b] \in BelowOf(x)
         /\ \A X \in SUBSET heap : HasAllBelow(X, x) => BelowOf(x) \subseteq X
<1> DEFINE B == BelowOf(x)
           F == {b \in heap : b = x \/ OwnerOf[b] = x \/ OwnerOf[b] \in B}
<1>1. \A X \in SUBSET heap : HasAllBelow(X, x) => B \subseteq X
  BY DEF BelowOf
<1>2. HasAllBelow(B, x) /\ B \subseteq heap
  BY DEF BelowOf, HasAllBelow
<1>3. F \subseteq B
  BY <1>2 DEF HasAllBelow
<1>4. HasAllBelow(F, x)
  BY <1>3 DEF HasAllBelow
<1>5. B \subseteq F
  BY <1>1, <1>4
<1> QED BY <1>1, <1>3, <1>5

\* The forest's notion of below is that of the table.
LEMMA BelowIsSeen ==
  ASSUME Table(slots, next, heap), Acyclic(slots), NEW x, NEW b \in heap
  PROVE  Forest!IsBelow(b, x) <=> b \in BelowOf(x)
<1> DEFINE F(A) == [c \in Tracked |-> c = x \/ OwnerOf[c] = x \/ (OwnerOf[c] \in Tracked /\ A[OwnerOf[c]])]
           D == CHOOSE A : A = F(A)
           G == [c \in Tracked |-> c \in BelowOf(x)]
<1>1. Forest!IsBelow(b, x) <=> D[b]
  BY DEF Forest!IsBelow, Forest!Objects, OwnerOf
<1>2. Tracked = heap
  BY OwnersSeen
<1>3. G = F(G)
  <2>1. \A c \in Tracked : OwnerOf[c] \in BelowOf(x) <=> OwnerOf[c] \in Tracked /\ G[OwnerOf[c]]
    BY <1>2 DEF BelowOf
  <2>2. \A c \in Tracked : c \in BelowOf(x) <=> c = x \/ OwnerOf[c] = x \/ OwnerOf[c] \in BelowOf(x)
    BY <1>2, BelowIsLeast
  <2>3. \A c \in Tracked :
          (c \in BelowOf(x)) = (c = x \/ OwnerOf[c] = x \/ (OwnerOf[c] \in Tracked /\ G[OwnerOf[c]]))
    BY <2>1, <2>2
  <2> QED BY <2>3
<1>4. D = F(D)
  <2> HIDE DEF F, G
  <2>1. \E A : A = F(A)
    BY <1>3, Zenon
  <2> QED BY <2>1, Zenon
<1> HIDE DEF D
<1>5. \A c \in heap : D[c] <=> c = x \/ OwnerOf[c] = x \/ (OwnerOf[c] \in heap /\ D[OwnerOf[c]])
  BY <1>2, <1>4
<1>6. \A c \in heap : c \in BelowOf(x) <=> c = x \/ OwnerOf[c] = x \/ OwnerOf[c] \in BelowOf(x)
  BY BelowIsLeast
<1>7. BelowOf(x) \subseteq heap
  BY DEF BelowOf
<1> DEFINE S == {i \in Taken(slots) : ~(D[slots[i].ptr] <=> slots[i].ptr \in BelowOf(x))}
<1>8. ASSUME NEW i \in S
      PROVE  \E j \in S : slots[i].owner = slots[j].ptr
  <2>1. slots[i].ptr \in heap /\ OwnerOf[slots[i].ptr] = slots[i].owner
    BY OwnersSeen
  <2>2. slots[i].owner \in heap /\ ~(D[slots[i].owner] <=> slots[i].owner \in BelowOf(x))
    BY <2>1, <1>5, <1>6, <1>7
  <2>3. PICK j \in Taken(slots) : slots[j].ptr = slots[i].owner
    BY <2>2, OwnersSeen
  <2> QED BY <2>2, <2>3
<1>9. S = {}
  BY <1>8 DEF Acyclic
<1>10. \E i \in Taken(slots) : slots[i].ptr = b
  BY OwnersSeen
<1> QED BY <1>1, <1>9, <1>10

\* The steps of the forest, as the table sees them.
ForestStep == Forest!Next \/ (OwnerOf' = OwnerOf /\ Doomed' = Doomed)

\* When a record goes whose object owns nothing, the forest releases it.
LEMMA ReleaseSeen ==
  ASSUME NEW a \in Addr, a \in Tracked, {c \in Tracked : OwnerOf[c] = a} = {},
         OwnerOf[a] = Context \/ \E x \in Doomed : Forest!IsBelow(a, x),
         OwnerOf' = [c \in Tracked \ {a} |-> OwnerOf[c]], Doomed' = Doomed
  PROVE  Forest!Next
<1>1. Forest!Release(a)
  BY ForestSeen DEF Forest!Release, Forest!Objects, Forest!OwnedBy, Forest!Restrict, OwnerOf, Doomed
<1> QED BY <1>1 DEF Forest!Next

\* When a record is added, the forest has a new object.
LEMMA NewSeen ==
  ASSUME NEW a \in Addr \ Tracked, NEW o \in Addr \cup {Context}, o \in Tracked \cup {Context},
         Doomed = {}, Doomed' = {},
         OwnerOf' = [c \in Tracked \cup {a} |-> IF c = a THEN o ELSE OwnerOf[c]]
  PROVE  Forest!Next
<1>1. Forest!New(a, o)
  BY DEF Forest!New, Forest!Objects, OwnerOf, Doomed
<1> QED BY <1>1 DEF Forest!Next

\* When an owner changes, the forest's object is adopted.
LEMMA AdoptSeen ==
  ASSUME NEW a \in Tracked, NEW o \in Addr \cup {NULL}, o = NULL \/ (o \in Tracked /\ ~Forest!IsBelow(o, a)),
         Doomed = {}, Doomed' = {}, OwnerOf' = [OwnerOf EXCEPT ![a] = o]
  PROVE  Forest!Next
<1>1. Forest!Adopt(a, o) /\ a \in Forest!Objects
  BY DEF Forest!Adopt, Forest!Objects, OwnerOf, Doomed
<1> QED BY <1>1 DEF Forest!Next

\* When an object moves, the forest's object moves.
LEMMA MoveSeen ==
  ASSUME NEW a \in Tracked, NEW b \in Addr \ Tracked, {c \in Tracked : OwnerOf[c] = a} = {},
         Doomed = {}, Doomed' = {},
         OwnerOf' = [c \in (Tracked \ {a}) \cup {b} |-> IF c = b THEN OwnerOf[a] ELSE OwnerOf[c]]
  PROVE  Forest!Next
<1>1. Forest!Move(a, b) /\ a \in Forest!Objects
  BY DEF Forest!Move, Forest!OwnedBy, Forest!Objects, OwnerOf, Doomed
<1> QED BY <1>1 DEF Forest!Next

\* When a destruction begins, the forest's object is doomed.
LEMMA DestroySeen ==
  ASSUME NEW x \in Addr \cup {Context}, x \in Tracked \cup {Context}, Doomed = {}, Doomed' = {x}, OwnerOf' = OwnerOf
  PROVE  Forest!Next
<1>1. Forest!Destroy(x)
  BY DEF Forest!Destroy, Forest!Objects, OwnerOf, Doomed
<1> QED BY <1>1 DEF Forest!Next

\* When a destruction returns, nothing in the forest is doomed.
LEMMA ReturnSeen ==
  ASSUME NEW x, Doomed = {x}, Doomed' = {}, x \notin Tracked, {c \in Tracked : OwnerOf[c] = x} = {},
         OwnerOf' = OwnerOf
  PROVE  Forest!Next
<1>1. Forest!Return
  BY DEF Forest!Return, Forest!OwnedBy, Forest!Objects, OwnerOf, Doomed
<1> QED BY <1>1 DEF Forest!Next

\* When a context ends, the forest is empty.
LEMMA EndSeen ==
  ASSUME Doomed = {}, Doomed' = {}, {c \in Tracked : OwnerOf[c] = Context} = {}, OwnerOf' = [c \in {} |-> OwnerOf[c]]
  PROVE  Forest!Next
<1>1. Forest!End
  BY DEF Forest!End, Forest!OwnedBy, Forest!Objects, Forest!Restrict, OwnerOf, Doomed
<1> QED BY <1>1 DEF Forest!Next

-----------------------------------------------------------------------------
\* What the owners are after a step.
LEMMA OwnersStay ==
  ASSUME Table(slots, next, heap), Table(slots', next', heap'), Taken(slots') = Taken(slots),
         \A i \in Taken(slots) : slots'[i].ptr = slots[i].ptr /\ slots'[i].owner = slots[i].owner
  PROVE  OwnerOf' = OwnerOf
<1>1. heap' = heap
  BY DEF Table
<1>2. \A a \in heap : OwnerOf'[a] = OwnerOf[a]
  <2> SUFFICES ASSUME NEW a \in heap PROVE OwnerOf'[a] = OwnerOf[a]
    OBVIOUS
  <2>1. PICK i \in Taken(slots) : slots[i].ptr = a
    BY OwnersSeen
  <2>2. OwnerOf[a] = slots[i].owner
    BY <2>1, OwnersSeen
  <2>3. OwnerOf'[slots'[i].ptr] = slots'[i].owner
    BY OwnersSeenNext
  <2> QED BY <2>1, <2>2, <2>3
<1>3. OwnerOf = [a \in heap |-> OwnerOf[a]] /\ OwnerOf' = [a \in heap' |-> OwnerOf'[a]]
  BY OwnersSeen, OwnersSeenNext
<1> QED BY <1>1, <1>2, <1>3

\* The owners seen when a record goes.
LEMMA OwnerGoes ==
  ASSUME Table(slots, next, heap), Table(slots', next', heap'), NEW k \in Taken(slots), Follows(slots, slots', k)
  PROVE  OwnerOf' = [c \in Tracked \ {slots[k].ptr} |-> OwnerOf[c]]
<1> DEFINE p == slots[k].ptr
<1>1. /\ Taken(slots') = Taken(slots) \ {k}
      /\ \A i \in Taken(slots') : slots'[i].ptr = slots[i].ptr /\ slots'[i].owner = slots[i].owner
  BY FollowsTaken
<1>2. heap' = heap \ {p} /\ Tracked = heap
  <2>1. \A i, j \in Taken(slots) : slots[i].ptr = slots[j].ptr => i = j
    BY DEF Table
  <2>2. heap = {slots[i].ptr : i \in Taken(slots)} /\ heap' = {slots'[i].ptr : i \in Taken(slots')}
    BY DEF Table
  <2> QED BY <1>1, <2>1, <2>2, OwnersSeen
<1>3. \A a \in heap' : OwnerOf'[a] = OwnerOf[a]
  <2> SUFFICES ASSUME NEW a \in heap' PROVE OwnerOf'[a] = OwnerOf[a]
    OBVIOUS
  <2>1. PICK i \in Taken(slots') : slots'[i].ptr = a
    BY OwnersSeenNext
  <2>2. OwnerOf'[a] = slots'[i].owner
    BY <2>1, OwnersSeenNext
  <2>3. OwnerOf[slots[i].ptr] = slots[i].owner
    BY <1>1, OwnersSeen
  <2> QED BY <1>1, <2>1, <2>2, <2>3
<1>4. OwnerOf' = [a \in heap' |-> OwnerOf'[a]]
  BY OwnersSeenNext
<1> QED BY <1>2, <1>3, <1>4

\* What is being destroyed remains the same until the outermost call returns.
LEMMA DoomedStays ==
  ASSUME HeapInv, stack # <<>>
  PROVE  /\ \A f \in FrameSet : f.arg = Top.arg /\ Become(f) => Doomed' = Doomed
         /\ \A f, g \in FrameSet : f.arg = Top.arg /\ Call(f, g) => Doomed' = Doomed
         /\ Len(stack) > 1 /\ stack' = Below => Doomed' = Doomed
<1>1. /\ stack \in Seq(FrameSet) /\ Len(stack) \in Nat /\ Len(stack) >= 1 /\ Top = stack[Len(stack)]
      /\ Top \in FrameSet
  BY TopFacts
<1>2. ASSUME NEW f \in FrameSet, NEW g \in FrameSet, f.arg = Top.arg, stack' = Append(Below, f)
      PROVE  Doomed' = Doomed
  <2>1. /\ Len(stack') = Len(stack) /\ stack'[Len(stack)] = f
        /\ \A q \in 1 .. Len(stack) - 1 : stack'[q] = stack[q]
    BY <1>1, <1>2, Pieces DEF Below
  <2>2. stack' # <<>> /\ stack'[1].arg = stack[1].arg
    BY <1>1, <1>2, <2>1
  <2> QED BY <2>2 DEF Doomed
<1>3. ASSUME NEW f \in FrameSet, NEW g \in FrameSet, f.arg = Top.arg, stack' = Append(Append(Below, f), g)
      PROVE  Doomed' = Doomed
  <2>1. /\ Len(stack') = Len(stack) + 1 /\ stack'[Len(stack)] = f
        /\ \A q \in 1 .. Len(stack) - 1 : stack'[q] = stack[q]
    BY <1>1, <1>3, Pieces DEF Below
  <2>2. stack' # <<>> /\ stack'[1].arg = stack[1].arg
    BY <1>1, <1>3, <2>1
  <2> QED BY <2>2 DEF Doomed
<1>4. ASSUME Len(stack) > 1, stack' = Below
      PROVE  Doomed' = Doomed
  <2>1. Len(stack') = Len(stack) - 1 /\ \A q \in 1 .. Len(stack) - 1 : stack'[q] = stack[q]
    BY <1>1, <1>4, Pieces DEF Below
  <2>2. stack' # <<>> /\ stack'[1] = stack[1]
    BY <1>1, <1>4, <2>1
  <2> QED BY <2>2 DEF Doomed
<1> QED BY <1>1, <1>2, <1>3, <1>4 DEF Become, Call

\* Every call on the stack is about what is being destroyed, or an object below it.
LEMMA CallsAreBelow ==
  ASSUME HeapInv, stack # <<>>
  PROVE  Top.arg = stack[1].arg \/ Top.arg \in BelowOf(stack[1].arg)
<1> DEFINE x == stack[1].arg
           N == Len(stack) - 1
           Good == {n \in 0 .. N : stack[n + 1].arg = x \/ stack[n + 1].arg \in BelowOf(x)}
<1>1. /\ stack \in Seq(FrameSet) /\ Len(stack) \in Nat /\ Len(stack) >= 1 /\ Top = stack[Len(stack)]
      /\ Table(slots, next, heap) /\ Stacked(slots, scratch, stack, phase)
  BY TopFacts DEF HeapInv
<1>2. N \in Nat /\ N + 1 = Len(stack) /\ DOMAIN stack = 1 .. Len(stack)
  BY <1>1
<1>3. 0 \in Good
  BY <1>2
<1>4. ASSUME NEW n \in 0 .. N - 1, n \in Good
      PROVE  n + 1 \in Good
  <2> DEFINE f == stack[n + 1]
             g == stack[(n + 1) + 1]
  <2>1. n + 1 \in 1 .. Len(stack) - 1 /\ n + 1 \in DOMAIN stack /\ (n + 1) + 1 \in DOMAIN stack /\ n + 1 \in 0 .. N
    BY <1>2
  <2>2. Stays(slots, scratch, f) /\ Stays(slots, scratch, g) /\ Calls(slots, f, g)
    BY <1>1, <2>1 DEF Stacked
  <2>3. f.arg = x \/ f.arg \in BelowOf(x)
    BY <1>4
  <2> HIDE DEF f, g, x
  <2>4. ASSUME NEW i \in OwnedIn(slots, f.arg)
        PROVE  slots[i].ptr \in BelowOf(x)
    <3>1. slots[i].ptr \in heap /\ OwnerOf[slots[i].ptr] = f.arg
      BY <1>1, OwnersSeen DEF OwnedIn
    <3> QED BY <2>3, <3>1, BelowIsLeast
  <2>5. g.arg = x \/ g.arg \in BelowOf(x)
    <3>1. CASE f.op \in {"destroy", "partial"}
      BY <2>2, <2>3, <3>1 DEF Calls
    <3>2. CASE f.op = "by_owner"
      <4>1. g.at \in OwnedIn(slots, f.arg) /\ slots[g.at].ptr = g.arg
        BY <2>2, <3>2 DEF Calls, Stays
      <4> QED BY <2>4, <4>1
    <3>3. CASE f.op = "destructors"
      <4>1. f.at \in OwnedIn(slots, f.arg) /\ slots[f.at].ptr = g.arg
        BY <2>2, <3>3 DEF Calls, Stays
      <4> QED BY <2>4, <4>1
    <3> QED BY <2>2, <3>1, <3>2, <3>3 DEF Stays
  <2> QED BY <2>1, <2>5 DEF g
<1> HIDE DEF Good
<1>5. \A n \in 0 .. N : n \in Good
  BY <1>2, <1>3, <1>4, InductionUpTo
<1>6. N \in Good
  BY <1>2, <1>5
<1> QED BY <1>1, <1>2, <1>6 DEF Good

-----------------------------------------------------------------------------
\* Each step is one of the forest's, or none.
LEMMA WalkIsSeen ==
  ASSUME slots' = slots
  PROVE  OwnerOf' = OwnerOf
BY DEF OwnerOf, Tracked, Used, SlotOf, IsSlotOf

\* Calling a destructor is a step of the forest or none.
LEMMA CallIsSeen ==
  ASSUME HeapInv, stack # <<>>, NEW at \in Taken(slots), CallDestructor(at), Doomed' = Doomed
  PROVE  ForestStep
<1>1. Table(slots, next, heap) /\ Table(slots', next', heap')
  BY TopFacts, DestructorCalled
<1>2. PICK k \in Nat :
        /\ Follows(slots, slots', k)
        /\ k # 0 => k \in Taken(slots) /\ slots[k].owner = Context /\ OwnedIn(slots, slots[k].ptr) = {}
  BY DestructorCalled
<1>3. CASE k = 0
  <2>1. k \notin Taken(slots)
    BY <1>1, <1>3 DEF Table, Taken
  <2>2. Follows(slots, slots', k)
    BY <1>2
  <2>3. /\ Taken(slots') = Taken(slots) \ {k}
        /\ \A i \in Taken(slots') : slots'[i].ptr = slots[i].ptr /\ slots'[i].owner = slots[i].owner
    BY <2>2, FollowsTaken
  <2>5. Taken(slots') = Taken(slots)
    BY <2>1, <2>3
  <2>4. OwnerOf' = OwnerOf
    BY <1>1, <2>3, <2>5, OwnersStay
  <2> QED BY <2>4 DEF ForestStep
<1>4. CASE k # 0
  <2> DEFINE p == slots[k].ptr
  <2>1. OwnerOf' = [c \in Tracked \ {p} |-> OwnerOf[c]]
    BY <1>1, <1>2, <1>4, OwnerGoes
  <2>2. p \in Addr /\ p \in Tracked /\ {c \in Tracked : OwnerOf[c] = p} = {} /\ OwnerOf[p] = Context
    BY <1>1, <1>2, <1>4, Records, OwnersSeen
  <2> QED BY <2>1, <2>2, ReleaseSeen DEF ForestStep
<1> QED BY <1>3, <1>4

\* Freeing an object is a step of the forest.
LEMMA FreeIsSeen ==
  ASSUME HeapInv, PartialFree
  PROVE  ForestStep
<1>1. /\ stack # <<>> /\ Top.op = "partial" /\ Top.stage = "free" /\ slots' = Clear(slots, Top.at)
      /\ stack' = Below /\ phase' = phase
  BY DEF PartialFree, Running
<1>2. /\ Stays(slots, scratch, Top) /\ Runs(slots, scratch, Top) /\ Len(stack) > 1
      /\ Table(slots, next, heap) /\ Acyclic(slots) /\ phase \in {"open", "terminating"}
  BY <1>1, TopFacts
<1>3. Top.at \in Taken(slots) /\ slots[Top.at].ptr = Top.arg /\ OwnedIn(slots, Top.arg) = {} /\ Top.arg \in Addr
  BY <1>1, <1>2 DEF Stays, Runs
<1>4. Table(slots', next', heap')
  BY <1>1, <1>2, PartialFreeKeeps DEF HeapInv
<1>5. Follows(slots, slots', Top.at)
  BY <1>1, <1>2, <1>3, Emptied DEF Clear
<1>6. OwnerOf' = [c \in Tracked \ {Top.arg} |-> OwnerOf[c]]
  BY <1>2, <1>3, <1>4, <1>5, OwnerGoes
<1>7. Doomed' = Doomed /\ Doomed = {stack[1].arg}
  BY <1>1, <1>2, DoomedStays DEF Doomed
<1>8. Top.arg \in heap /\ Tracked = heap /\ {c \in Tracked : OwnerOf[c] = Top.arg} = {}
  BY <1>2, <1>3, OwnersSeen
<1>9. Forest!IsBelow(Top.arg, stack[1].arg)
  <2>1. Top.arg \in BelowOf(stack[1].arg)
    BY <1>1, <1>8, CallsAreBelow, BelowIsLeast
  <2> QED BY <1>2, <1>8, <2>1, BelowIsSeen
<1> QED BY <1>3, <1>6, <1>7, <1>8, <1>9, ReleaseSeen DEF ForestStep

\* Every step of a destruction is a step of the forest or none.
LEMMA DestructionIsSeen ==
  ASSUME HeapInv, Destroying
  PROVE  ForestStep
<1>1. CASE EnterDestroy
  <2> DEFINE f == [Top EXCEPT !.stage = "return"]
             g == IF Top.arg = Context THEN Frame("by_owner", Context, 1, "seek")
                                       ELSE Frame("partial", Top.arg, SlotOf(Top.arg), "children")
  <2>1. stack # <<>> /\ Top.op = "destroy" /\ Top.stage = "enter" /\ Call(f, g) /\ slots' = slots
    BY <1>1 DEF EnterDestroy, Running
  <2>2. /\ Top \in FrameSet /\ Len(stack) = 1 /\ Top = stack[1] /\ stack \in Seq(FrameSet)
        /\ Table(slots, next, heap) /\ Stays(slots, scratch, Top) /\ Runs(slots, scratch, Top)
    BY <2>1, TopFacts
  <2>3. f \in FrameSet /\ f.arg = Top.arg
    BY <2>2 DEF FrameSet
  <2>4. g \in FrameSet
    <3>1. CASE Top.arg = Context
      <4>1. g = Frame("by_owner", Context, 1, "seek")
        BY <3>1
      <4> HIDE DEF g
      <4> QED BY <4>1, NewFrame
    <3>2. CASE Top.arg # Context
      <4>1. Top.arg \in Addr
        BY <2>1, <2>2, <3>2 DEF Stays
      <4>2. PICK i \in Taken(slots) : slots[i].ptr = Top.arg
        BY <2>1, <2>2, <3>2 DEF Runs
      <4>3. SlotOf(Top.arg) = i /\ i \in Nat
        BY <2>2, <4>2, SlotFound DEF Table, Taken
      <4>4. g = Frame("partial", Top.arg, i, "children")
        BY <3>2, <4>3
      <4> HIDE DEF g
      <4> QED BY <4>1, <4>3, <4>4, NewFrame
    <3> QED BY <3>1, <3>2
  <2> HIDE DEF f, g
  <2>5. Doomed' = Doomed
    BY <2>1, <2>3, <2>4, DoomedStays
  <2> QED BY <2>1, <2>5, WalkIsSeen DEF ForestStep
<1>2. CASE ReturnDestroy
  <2>1. stack # <<>> /\ Top.op = "destroy" /\ Top.stage = "return" /\ slots' = slots /\ stack' = Below
    BY <1>2 DEF ReturnDestroy, Running
  <2>2. /\ Len(stack) = 1 /\ Top = stack[1] /\ stack \in Seq(FrameSet) /\ Top \in FrameSet
        /\ Table(slots, next, heap) /\ Runs(slots, scratch, Top)
    BY <2>1, TopFacts
  <2>3. stack' = <<>>
    BY <2>1, <2>2 DEF Below
  <2>4. Doomed = {Top.arg} /\ Doomed' = {}
    BY <2>1, <2>2, <2>3 DEF Doomed
  <2>5. OwnedIn(slots, Top.arg) = {} /\ \A i \in Taken(slots) : slots[i].ptr # Top.arg
    BY <2>1, <2>2 DEF Runs
  <2>6. Top.arg \notin Tracked /\ {c \in Tracked : OwnerOf[c] = Top.arg} = {}
    BY <2>2, <2>5, OwnersSeen
  <2> QED BY <2>1, <2>4, <2>6, WalkIsSeen, ReturnSeen DEF ForestStep
<1>3. CASE SeekChild
  <2>1. stack # <<>> /\ Top.op = "destructors" /\ slots' = slots
    BY <1>3 DEF SeekChild, Running
  <2>2. PICK j \in Used :
          LET here == [Top EXCEPT !.at = j, !.stage = "call"]
          IN  IF slots[j].isOwner THEN Call(here, Frame("destructors", slots[j].ptr, 1, "seek")) ELSE Become(here)
    BY <1>3 DEF SeekChild
  <2> DEFINE f == [Top EXCEPT !.at = j, !.stage = "call"]
             g == Frame("destructors", slots[j].ptr, 1, "seek")
  <2>3. Top \in FrameSet /\ j \in Nat /\ slots[j].ptr \in Addr
    BY <2>1, TopFacts, Records DEF Used, Taken
  <2>4. g \in FrameSet /\ f \in FrameSet /\ f.arg = Top.arg
    <3>1. g \in FrameSet
      BY <2>3, NewFrame
    <3>2. f \in FrameSet /\ f.arg = Top.arg
      BY <2>3 DEF FrameSet
    <3> QED BY <3>1, <3>2
  <2>5. Become(f) \/ Call(f, g)
    BY <2>2
  <2> HIDE DEF f, g
  <2>6. Doomed' = Doomed
    BY <2>1, <2>4, <2>5, DoomedStays
  <2> QED BY <2>1, <2>6, WalkIsSeen DEF ForestStep
<1>4. CASE DestructChild
  <2> DEFINE f == [Top EXCEPT !.at = Top.at + 1, !.stage = "seek"]
  <2>1. stack # <<>> /\ Top.op = "destructors" /\ Top.stage = "call" /\ CallDestructor(Top.at) /\ Become(f)
    BY <1>4 DEF DestructChild, Running
  <2>2. Top.at \in Taken(slots) /\ Top \in FrameSet
    BY <2>1, TopFacts DEF Stays, OwnedIn
  <2>3. f \in FrameSet /\ f.arg = Top.arg
    <3>1. PICK j \in Nat : j = Top.at + 1
      BY <2>2 DEF FrameSet
    <3>2. f = [Top EXCEPT !.at = j, !.stage = "seek"]
      BY <3>1
    <3> HIDE DEF f
    <3> QED BY <2>2, <3>2 DEF FrameSet
  <2> HIDE DEF f
  <2>4. Doomed' = Doomed
    BY <2>1, <2>3, DoomedStays
  <2> QED BY <2>1, <2>2, <2>4, CallIsSeen
<1>5. CASE DestructorsDone
  <2>1. stack # <<>> /\ Top.op = "destructors" /\ slots' = slots /\ stack' = Below
    BY <1>5 DEF DestructorsDone, Running
  <2>2. Len(stack) > 1
    BY <2>1, TopFacts
  <2> QED BY <2>1, <2>2, DoomedStays, WalkIsSeen DEF ForestStep
<1>6. CASE PartialChildren
  <2> DEFINE f == [Top EXCEPT !.stage = "own"]
             g == Frame("destructors", Top.arg, 1, "seek")
  <2>1. stack # <<>> /\ Top.op = "partial" /\ slots' = slots /\ (Become(f) \/ Call(f, g))
    BY <1>6 DEF PartialChildren, Running
  <2>2. Top \in FrameSet /\ Top.arg \in Addr
    BY <2>1, TopFacts DEF Stays
  <2>3. f \in FrameSet /\ f.arg = Top.arg /\ g \in FrameSet
    BY <2>2, NewFrame DEF FrameSet
  <2> HIDE DEF f, g
  <2>4. Doomed' = Doomed
    BY <2>1, <2>3, DoomedStays
  <2> QED BY <2>1, <2>4, WalkIsSeen DEF ForestStep
<1>7. CASE PartialOwn
  <2> DEFINE f == [Top EXCEPT !.stage = "free"]
             g == Frame("by_owner", Top.arg, 1, "seek")
  <2>1. stack # <<>> /\ Top.op = "partial" /\ Top.stage = "own" /\ CallDestructor(Top.at) /\ (Become(f) \/ Call(f, g))
    BY <1>7 DEF PartialOwn, Running
  <2>2. Top \in FrameSet /\ Top.arg \in Addr /\ Top.at \in Taken(slots)
    BY <2>1, TopFacts DEF Stays
  <2>3. f \in FrameSet /\ f.arg = Top.arg /\ g \in FrameSet
    BY <2>2, NewFrame DEF FrameSet
  <2> HIDE DEF f, g
  <2>4. Doomed' = Doomed
    BY <2>1, <2>3, DoomedStays
  <2> QED BY <2>1, <2>2, <2>4, CallIsSeen
<1>8. CASE DestroyNextOwned
  <2>1. stack # <<>> /\ Top.op = "by_owner" /\ slots' = slots
    BY <1>8 DEF DestroyNextOwned, Running
  <2>2. PICK j \in Used : Call([Top EXCEPT !.at = j + 1], Frame("partial", slots[j].ptr, j, "children"))
    BY <1>8 DEF DestroyNextOwned
  <2> DEFINE f == [Top EXCEPT !.at = j + 1]
             g == Frame("partial", slots[j].ptr, j, "children")
  <2>3. Top \in FrameSet /\ j \in Nat /\ slots[j].ptr \in Addr
    BY <2>1, TopFacts, Records DEF Used, Taken
  <2>4. f \in FrameSet /\ f.arg = Top.arg /\ g \in FrameSet
    BY <2>3, NewFrame DEF FrameSet
  <2>5. Call(f, g)
    BY <2>2
  <2> HIDE DEF f, g
  <2>6. Doomed' = Doomed
    BY <2>1, <2>4, <2>5, DoomedStays
  <2> QED BY <2>1, <2>6, WalkIsSeen DEF ForestStep
<1>9. CASE DestroyedOwned
  <2>1. stack # <<>> /\ Top.op = "by_owner" /\ slots' = slots /\ stack' = Below
    BY <1>9 DEF DestroyedOwned, Running
  <2>2. Len(stack) > 1
    BY <2>1, TopFacts
  <2> QED BY <2>1, <2>2, DoomedStays, WalkIsSeen DEF ForestStep
<1>10. CASE EndTerminate
  <2>1. phase = "swept" /\ slots' = <<>> /\ stack' = stack
    BY <1>10 DEF EndTerminate
  <2>2. stack = <<>> /\ Table(slots, next, heap) /\ OwnedIn(slots, Context) = {}
    BY <2>1 DEF HeapInv
  <2>3. Doomed = {} /\ Doomed' = {}
    BY <2>1, <2>2 DEF Doomed
  <2>4. Tracked' = {}
    BY <2>1 DEF Tracked, Used
  <2>5. OwnerOf' = [c \in {} |-> OwnerOf[c]]
    BY <2>4 DEF OwnerOf
  <2>6. {c \in Tracked : OwnerOf[c] = Context} = {}
    BY <2>2, OwnersSeen
  <2> QED BY <2>3, <2>5, <2>6, EndSeen DEF ForestStep
<1> QED BY <1>1, <1>2, <1>3, <1>4, <1>5, <1>6, <1>7, <1>8, <1>9, <1>10, FreeIsSeen DEF Destroying

\* Allocating is a step of the forest.
LEMMA AllocateIsSeen ==
  ASSUME HeapInv, NEW a, NEW o, NEW d \in BOOLEAN, Allocate(a, o, d)
  PROVE  ForestStep
<1>1. /\ stack' = <<>> /\ stack = <<>> /\ phase = "open" /\ a \in Addr \ heap /\ o \in Addr \cup {Context}
      /\ Table(slots', next', heap') /\ next \in Taken(slots')
      /\ slots'[next].ptr = a /\ slots'[next].owner = o
      /\ \A i \in Taken(slots) : /\ i \in Taken(slots')
                                 /\ slots'[i].ptr = slots[i].ptr /\ slots'[i].owner = slots[i].owner
  BY Allocated
<1>2. o \in Tracked \cup {Context} /\ heap' = heap \cup {a}
  BY DEF Allocate
<1>3. Table(slots, next, heap) /\ Tracked = heap
  BY <1>1, OwnersSeen DEF HeapInv
<1>4. \A c \in heap' : OwnerOf'[c] = IF c = a THEN o ELSE OwnerOf[c]
  <2> SUFFICES ASSUME NEW c \in heap' PROVE OwnerOf'[c] = IF c = a THEN o ELSE OwnerOf[c]
    OBVIOUS
  <2>1. CASE c = a
    BY <1>1, <2>1, OwnersSeenNext
  <2>2. CASE c # a
    <3>1. PICK i \in Taken(slots) : slots[i].ptr = c
      BY <1>2, <1>3, <2>2, OwnersSeen
    <3>2. OwnerOf[c] = slots[i].owner
      BY <1>3, <3>1, OwnersSeen
    <3>3. OwnerOf'[slots'[i].ptr] = slots'[i].owner
      BY <1>1, OwnersSeenNext
    <3> QED BY <1>1, <2>2, <3>1, <3>2, <3>3
  <2> QED BY <2>1, <2>2
<1>5. OwnerOf' = [c \in heap' |-> OwnerOf'[c]]
  BY <1>1, OwnersSeenNext
<1>6. OwnerOf' = [c \in Tracked \cup {a} |-> IF c = a THEN o ELSE OwnerOf[c]]
  BY <1>2, <1>3, <1>4, <1>5
<1>7. Doomed = {} /\ Doomed' = {}
  BY <1>1 DEF Doomed
<1> QED BY <1>1, <1>2, <1>3, <1>6, <1>7, NewSeen DEF ForestStep

\* A decoder that frees what it allocated is a step of the forest.
LEMMA FinishIsSeen ==
  ASSUME HeapInv, NEW d \in Addr, FinishRead(d)
  PROVE  ForestStep
<1>1. Idle /\ scratch[d] # NULL /\ FreeScratch(d, slots) /\ stack' = stack
  BY DEF FinishRead
<1>2. /\ Table(slots, next, heap) /\ ScratchSound(slots, scratch) /\ stack = <<>>
      /\ Tracked = {slots[j].ptr : j \in Taken(slots)}
  BY <1>1, IdleFacts
<1>3. PICK j \in Taken(slots), k \in Taken(slots) : HasScratch(slots, j, k, scratch, d)
  BY <1>1, <1>2 DEF ScratchSound
<1>4. slots[k].ptr = scratch[d] /\ slots[k].owner = Context /\ OwnedIn(slots, slots[k].ptr) = {}
  BY <1>1, <1>2, <1>3 DEF HasScratch, ScratchSound
<1>5. SlotOf(scratch[d]) = k /\ scratch[d] \in Tracked
  BY <1>2, <1>4, SlotFound DEF Table, Taken
<1>6. slots' = Clear(slots, k) /\ phase' = phase
  BY <1>1, <1>5 DEF FreeScratch
<1>7. Table(slots', next', heap')
  BY <1>1, <1>6, FinishReadKeeps DEF HeapInv, Idle
<1>8. Follows(slots, slots', k)
  BY <1>2, <1>6, Emptied DEF Clear
<1>9. OwnerOf' = [c \in Tracked \ {slots[k].ptr} |-> OwnerOf[c]]
  BY <1>2, <1>7, <1>8, OwnerGoes
<1>10. /\ slots[k].ptr \in Addr /\ slots[k].ptr \in Tracked /\ {c \in Tracked : OwnerOf[c] = slots[k].ptr} = {}
       /\ OwnerOf[slots[k].ptr] = Context
  BY <1>2, <1>4, Records, OwnersSeen
<1>11. Doomed' = Doomed
  BY <1>1 DEF Doomed
<1> QED BY <1>9, <1>10, <1>11, ReleaseSeen DEF ForestStep

\* Moving an object is a step of the forest.
LEMMA ReallocIsSeen ==
  ASSUME HeapInv, NEW a, NEW b \in Addr, Realloc(a, b)
  PROVE  ForestStep
<1>1. /\ Idle /\ a \in Tracked /\ b \in Addr \ heap /\ \A i \in Used : slots[i].owner # a
      /\ slots' = [slots EXCEPT ![SlotOf(a)].ptr = b] /\ heap' = (heap \ {a}) \cup {b}
      /\ stack' = stack /\ phase' = phase
  BY DEF Realloc
<1>2. /\ Table(slots, next, heap) /\ stack = <<>> /\ phase = "open" /\ slots \in Seq(Record) /\ Used = Taken(slots)
      /\ Tracked = {slots[j].ptr : j \in Taken(slots)}
  BY <1>1, IdleFacts
<1>3. PICK k \in Taken(slots) : slots[k].ptr = a
  BY <1>1, <1>2
<1>4. SlotOf(a) = k
  BY <1>2, <1>3, SlotFound DEF Table
<1>5. Table(slots', next', heap')
  BY <1>1, <1>2, ReallocKeeps DEF HeapInv
<1>6. /\ DOMAIN slots' = DOMAIN slots /\ slots'[k] = [slots[k] EXCEPT !.ptr = b]
      /\ \A i \in DOMAIN slots \ {k} : slots'[i] = slots[i]
  BY <1>1, <1>2, <1>4 DEF Taken
<1>7. slots[k] \in Record /\ b # NULL /\ k \in DOMAIN slots
  BY <1>2, Records, HeapAssumption
<1>8. slots'[k].ptr = b /\ slots'[k].owner = slots[k].owner
  BY <1>6, <1>7 DEF Record
<1>9. k \in Taken(slots')
  BY <1>6, <1>7, <1>8 DEF Taken
<1>10. OwnerOf'[b] = OwnerOf[a]
  <2>1. OwnerOf'[slots'[k].ptr] = slots'[k].owner
    BY <1>5, <1>9, OwnersSeenNext
  <2>2. OwnerOf[slots[k].ptr] = slots[k].owner
    BY <1>2, OwnersSeen
  <2> QED BY <1>3, <1>8, <2>1, <2>2
<1>11. ASSUME NEW c \in heap, c # a
       PROVE  OwnerOf'[c] = OwnerOf[c]
  <2>1. PICK i \in Taken(slots) : slots[i].ptr = c
    BY <1>2, OwnersSeen
  <2>2. i # k /\ slots'[i] = slots[i] /\ i \in Taken(slots')
    BY <1>3, <1>6, <1>11, <2>1 DEF Taken
  <2>3. OwnerOf'[slots'[i].ptr] = slots'[i].owner
    BY <1>5, <2>2, OwnersSeenNext
  <2>4. OwnerOf[slots[i].ptr] = slots[i].owner
    BY <1>2, OwnersSeen
  <2> QED BY <2>1, <2>2, <2>3, <2>4
<1>12. Tracked = heap /\ OwnerOf' = [c \in heap' |-> OwnerOf'[c]] /\ {c \in heap : OwnerOf[c] = a} = {}
  <2>1. OwnedIn(slots, a) = {}
    BY <1>1, <1>2 DEF OwnedIn
  <2>2. OwnerOf' = [c \in heap' |-> OwnerOf'[c]]
    BY <1>5, OwnersSeenNext
  <2>3. Tracked = heap /\ \A x : {c \in heap : OwnerOf[c] = x} = {} <=> OwnedIn(slots, x) = {}
    BY <1>2, OwnersSeen
  <2> QED BY <2>1, <2>2, <2>3
<1>13. OwnerOf' = [c \in (Tracked \ {a}) \cup {b} |-> IF c = b THEN OwnerOf[a] ELSE OwnerOf[c]]
  BY <1>1, <1>10, <1>11, <1>12
<1>14. Doomed = {} /\ Doomed' = {}
  BY <1>1, <1>2 DEF Doomed
<1> QED BY <1>1, <1>12, <1>13, <1>14, MoveSeen DEF ForestStep

\* Changing an owner is a step of the forest or none.
LEMMA SetOwnerIsSeen ==
  ASSUME HeapInv, NEW a, NEW o \in Addr \cup {NULL}, SetOwner(a, o)
  PROVE  ForestStep
<1>1. /\ Idle /\ a \in Tracked
      /\ o = NULL \/ (o \in Tracked /\ ~IsAncestor(a, o))
      /\ slots' = [slots EXCEPT ![SlotOf(a)].owner = o]
      /\ heap' = heap /\ stack' = stack /\ phase' = phase
  BY DEF SetOwner
<1>2. /\ Table(slots, next, heap) /\ Acyclic(slots) /\ stack = <<>> /\ phase = "open" /\ slots \in Seq(Record)
      /\ Tracked = {slots[j].ptr : j \in Taken(slots)} /\ Tracked = heap /\ heap \subseteq Addr
  BY <1>1, IdleFacts DEF Table
<1>3. PICK k \in Taken(slots) : slots[k].ptr = a
  BY <1>1, <1>2
<1>4. SlotOf(a) = k
  BY <1>2, <1>3, SlotFound DEF Table
<1>5. Table(slots', next', heap')
  BY <1>1, <1>2, SetOwnerKeeps DEF HeapInv
<1>6. /\ DOMAIN slots' = DOMAIN slots /\ slots'[k] = [slots[k] EXCEPT !.owner = o]
      /\ \A i \in DOMAIN slots \ {k} : slots'[i] = slots[i]
  BY <1>1, <1>2, <1>4 DEF Taken
<1>7. slots[k] \in Record /\ k \in DOMAIN slots
  BY <1>2, Records
<1>8. slots'[k].ptr = a /\ slots'[k].owner = o
  BY <1>3, <1>6, <1>7 DEF Record
<1>9. Taken(slots') = Taken(slots)
  BY <1>3, <1>6, <1>7, <1>8 DEF Taken
<1>10. OwnerOf'[a] = o
  BY <1>5, <1>8, <1>9, OwnersSeenNext
<1>11. ASSUME NEW c \in heap, c # a
       PROVE  OwnerOf'[c] = OwnerOf[c]
  <2>1. PICK i \in Taken(slots) : slots[i].ptr = c
    BY <1>2, OwnersSeen
  <2>2. i # k /\ slots'[i] = slots[i] /\ i \in Taken(slots')
    BY <1>3, <1>6, <1>9, <1>11, <2>1 DEF Taken
  <2>3. OwnerOf'[slots'[i].ptr] = slots'[i].owner
    BY <1>5, <2>2, OwnersSeenNext
  <2>4. OwnerOf[slots[i].ptr] = slots[i].owner
    BY <1>2, OwnersSeen
  <2> QED BY <2>1, <2>2, <2>3, <2>4
<1>12. OwnerOf' = [c \in heap |-> OwnerOf'[c]] /\ OwnerOf = [c \in heap |-> OwnerOf[c]]
  BY <1>1, <1>2, <1>5, OwnersSeen, OwnersSeenNext
<1>13. OwnerOf' = [OwnerOf EXCEPT ![a] = o]
  BY <1>1, <1>2, <1>10, <1>11, <1>12
<1>14. o = NULL \/ (o \in Tracked /\ ~Forest!IsBelow(o, a))
  <2> SUFFICES ASSUME o \in Tracked, ~IsAncestor(a, o)
               PROVE  ~Forest!IsBelow(o, a)
    BY <1>1
  <2> DEFINE X == {c \in heap : IsAncestor(a, c)}
  <2>1. IsFiniteSet(Tracked)
    BY <1>2, TrackedIsFinite
  <2>2. /\ IsAncestor(a, a)
        /\ \A c \in Tracked : IsAncestor(a, slots[SlotOf(c)].owner) => IsAncestor(a, c)
    BY <1>1, <1>2, <2>1, AncestorsAreClosed
  <2>3. \A c \in heap : OwnerOf[c] = slots[SlotOf(c)].owner
    BY <1>2 DEF OwnerOf
  <2>4. HasAllBelow(X, a)
    BY <1>1, <1>2, <2>2, <2>3 DEF HasAllBelow
  <2>5. BelowOf(a) \subseteq X
    BY <2>4, BelowIsLeast
  <2>6. o \notin BelowOf(a)
    BY <2>5
  <2> QED BY <1>2, <2>6, BelowIsSeen
<1>15. Doomed = {} /\ Doomed' = {}
  BY <1>1, <1>2 DEF Doomed
<1> QED BY <1>1, <1>13, <1>14, <1>15, AdoptSeen DEF ForestStep

\* What clients do between destructions are steps of the forest or none.
LEMMA ClientIsSeen ==
  ASSUME HeapInv, Client
  PROVE  ForestStep
<1>1. CASE \E a \in Addr, o \in Addr \cup {Context} : Malloc(a, o) \/ CreateIo(a, o)
  BY <1>1, AllocateIsSeen DEF Malloc, CreateIo
<1>2. CASE \E a \in Addr : CreateDecoder(a)
  BY <1>2, AllocateIsSeen DEF CreateDecoder
<1>3. CASE \E a \in Addr : FinishRead(a)
  BY <1>3, FinishIsSeen
<1>4. ASSUME NEW a \in Addr, Destroy(a)
      PROVE  ForestStep
  <2>1. Idle /\ a \in Tracked /\ stack' = <<Frame("destroy", a, 1, "enter")>> /\ slots' = slots
    BY <1>4 DEF Destroy
  <2>2. stack = <<>>
    BY <2>1 DEF Idle
  <2>3. Doomed = {} /\ Doomed' = {a}
    BY <2>1, <2>2 DEF Doomed, Frame
  <2> QED BY <2>1, <2>3, WalkIsSeen, DestroySeen DEF ForestStep
<1>5. CASE \E a, b \in Addr : BeginRead(a, b)
  BY <1>5, AllocateIsSeen DEF BeginRead
<1>6. CASE \E a, b \in Addr : Realloc(a, b)
  BY <1>6, ReallocIsSeen
<1>7. CASE \E a \in Addr, o \in Addr \cup {NULL} : SetOwner(a, o)
  BY <1>7, SetOwnerIsSeen
<1>8. CASE BeginTerminate
  <2>1. Idle /\ stack' = <<Frame("destroy", Context, 1, "enter")>> /\ slots' = slots
    BY <1>8 DEF BeginTerminate
  <2>2. stack = <<>>
    BY <2>1 DEF Idle
  <2>3. Doomed = {} /\ Doomed' = {Context}
    BY <2>1, <2>2 DEF Doomed, Frame
  <2> QED BY <2>1, <2>3, WalkIsSeen, DestroySeen DEF ForestStep
<1> QED BY <1>1, <1>2, <1>3, <1>4, <1>5, <1>6, <1>7, <1>8 DEF Client

\* A context's heap is a forest of ownership: however its records lie in the table, an
\* object goes after all that it owns, nothing goes but what is destroyed, what is
\* below that and what a client frees itself, and a destruction returns when nothing
\* of that is left (context_heap.c:62-109, 240-412).
THEOREM HeapIsAForest ==
  ASSUME ~Aborts, ~Abandons
  PROVE  Spec => ImplementsForest
<1>1. Spec => []HeapInv
  BY HeapInvariant
<1>2. Init => Forest!Init
  <2> SUFFICES ASSUME Init
               PROVE  OwnerOf = [a \in {} |-> NULL] /\ Doomed = {}
    BY DEF Forest!Init, OwnerOf, Doomed
  <2>1. Tracked = {} /\ stack = <<>>
    BY DEF Init, Tracked, Used
  <2> QED BY <2>1 DEF OwnerOf, Doomed
<1>3. HeapInv /\ [Next]_vars => [Forest!Next]_(Forest!vars)
  <2> SUFFICES ASSUME HeapInv, [Next]_vars
               PROVE  ForestStep
    <3>1. ForestStep => Forest!Next \/ UNCHANGED Forest!vars
      BY DEF ForestStep, Forest!vars, OwnerOf, Doomed
    <3> QED BY <3>1
  <2>1. CASE UNCHANGED vars
    <3>1. slots' = slots /\ Doomed' = Doomed
      BY <2>1 DEF vars, Doomed
    <3> QED BY <3>1, WalkIsSeen DEF ForestStep
  <2>2. CASE Client
    BY <2>2, ClientIsSeen
  <2>3. CASE Destroying
    BY <2>3, DestructionIsSeen
  <2>4. CASE Over
    <3>1. slots' = slots /\ Doomed' = Doomed
      BY <2>4 DEF Over, vars, Doomed
    <3> QED BY <3>1, WalkIsSeen DEF ForestStep
  <2> QED BY <2>1, <2>2, <2>3, <2>4 DEF Next
<1> QED BY <1>1, <1>2, <1>3, PTL DEF Spec, ImplementsForest, Forest!Spec
==============================================================================
