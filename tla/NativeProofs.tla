----------------------------- MODULE NativeProofs -----------------------------
(***************************************************************************)
(* Proofs about the native components as MCNative puts them next to each   *)
(* other: the context's heap (from HeapProofs), the error a context        *)
(* remembers, the decoders, an io, and libjpeg's managers over an io.      *)
(***************************************************************************)
EXTENDS MCNative, HeapProofs, SequenceTheorems

\* Without its fairness.
NativeSafety == NativeInit /\ [][NativeNext]_nativeVars

\* A step of all components is a step of each of them or leaves it alone.
LEMMA NativeParts ==
  /\ NativeInit => Init /\ Io!Init /\ Jpeg!Init /\ Dec!Init /\ Err!Init
  /\ [NativeNext]_nativeVars => /\ [Next]_vars /\ [Io!Next]_(Io!vars) /\ [Jpeg!Next]_(Jpeg!vars)
                                /\ [Dec!Next]_(Dec!vars) /\ [Err!Next]_(Err!vars)
<1>1. NativeInit => Init /\ Io!Init /\ Jpeg!Init /\ Dec!Init /\ Err!Init
  BY DEF NativeInit
<1>2. ASSUME [NativeNext]_nativeVars
      PROVE  /\ [Next]_vars /\ [Io!Next]_(Io!vars) /\ [Jpeg!Next]_(Jpeg!vars)
             /\ [Dec!Next]_(Dec!vars) /\ [Err!Next]_(Err!vars)
  BY <1>2 DEF NativeNext, HeapStep, IoStep, JpegStep, DecoderStep, ErrorStep, nativeVars, ioVars, jpegVars,
              decoderVars, errorVars, Io!vars, Jpeg!vars, Jpeg!ioVars, Dec!vars, Err!vars
<1> QED BY <1>1, <1>2

-----------------------------------------------------------------------------
\* Whatever objects are allocated, adopted, given up and destroyed, the table of the
\* heap is sound, next to whatever the other components do (context_heap.c:62-109,
\* 265-398).
THEOREM HeapTableIsSound ==
  ASSUME ~Aborts, ~Abandons
  PROVE  NativeSafety => []TableIsSound
<1>1. NativeInit => HeapInv
  BY NativeParts, HeapBegins
<1>2. HeapInv /\ [NativeNext]_nativeVars => HeapInv'
  BY NativeParts, HeapSteps
<1>3. HeapInv => TableIsSound
  BY HeapStates DEF TableIsSound
<1> QED BY <1>1, <1>2, <1>3, PTL DEF NativeSafety

-----------------------------------------------------------------------------
\* The error a context remembers.
LEMMA CategoriesAreNumbered ==
  \A i \in 1 .. 21 : Err!Number(Err!Categories[i]) = i - 1
BY DEF Err!Number, Err!Categories

\* A category that goes to C as a status comes back as itself.
LEMMA CategoriesSurviveC ==
  ASSUME NEW c \in Err!Category \ {"Ok"}
  PROVE  Err!CategoryOf(Err!StatusOf(c)) = c /\ Err!StatusOf(c) \in Nat \ {0, 200}
<1>1. PICK i \in 1 .. 21 : c = Err!Categories[i]
  BY DEF Err!Category, Err!Categories
<1>2. Err!Number(c) = i - 1 /\ Err!Number("Unknown") = 19
  <2>1. Err!Categories[20] = "Unknown"
    BY DEF Err!Categories
  <2> QED BY <1>1, <2>1, CategoriesAreNumbered
<1>3. CASE c \in {"Custom", "Unknown", "OutOfMemory", "IoError", "InternalError", "ImageMalformed"}
  BY <1>2, <1>3 DEF Err!CategoryOf, Err!StatusOf, Err!FirstRustError, Err!OtherError, Err!Last
<1>4. CASE c \notin {"Custom", "Unknown", "OutOfMemory", "IoError", "InternalError", "ImageMalformed"}
  <2>1. i # 21 /\ i # 20 /\ i # 1
    BY <1>1, <1>4 DEF Err!Categories
  <2>2. Err!StatusOf(c) = 200 + (i - 1)
    BY <1>2, <1>4 DEF Err!StatusOf, Err!FirstRustError
  <2>3. Err!StatusOf(c) - 200 \in 0 .. 19 /\ Err!StatusOf(c) - 200 + 1 = i
    BY <2>1, <2>2
  <2>4. Err!CategoryOf(Err!StatusOf(c)) = Err!Categories[i]
    <3> DEFINE s == Err!StatusOf(c)
    <3>1. s - Err!FirstRustError \in 0 .. Err!Number(Err!Last) /\ s - Err!FirstRustError + 1 = i
      BY <1>2, <2>3 DEF Err!FirstRustError, Err!Last
    <3> HIDE DEF s
    <3>2. s \in 200 .. 219
      BY <2>1, <2>2 DEF s
    <3> QED BY <3>1, <3>2 DEF Err!CategoryOf, Err!FirstRustError, Err!OtherError, s
  <2> QED BY <1>1, <2>1, <2>2, <2>4
<1> QED BY <1>3, <1>4

\* No status of C but 0 and 200 looks like a success outside.
LEMMA StatusesAreNoSuccess ==
  ASSUME NEW status \in Nat \ {0, 200}
  PROVE  LET c == Err!CategoryOf(status)
         IN  c \in Err!Category \ {"Ok"} /\ Err!ExitCode(c) % 256 # 0 /\ Err!HttpStatus(c) >= 400
<1> DEFINE c == Err!CategoryOf(status)
<1>1. Err!Number("Unknown") = 19
  <2>1. Err!Categories[20] = "Unknown"
    BY DEF Err!Categories
  <2> QED BY <2>1, CategoriesAreNumbered
<1>2. c \in {"OutOfMemory", "IoError", "InternalError", "ImageMalformed", "Custom", "Unknown"}
      \/ \E i \in 2 .. 20 : c = Err!Categories[i]
  BY <1>1 DEF Err!CategoryOf, Err!FirstRustError, Err!Last
<1> HIDE DEF c
<1>3. c \in {"OutOfMemory", "ArgumentInvalid", "InvalidJson", "ImageMalformed", "ImageTypeNotSupported",
             "NodeArgumentInvalid", "GraphInvalid", "ActionNotSupported", "ActionForbidden", "AuthorizationRequired",
             "LicenseError", "PrimaryResourceNotFound", "SecondaryResourceNotFound", "UpstreamTimeout",
             "UpstreamError", "IoError", "NoSolutionFound", "InternalError", "Unknown", "Custom"}
  BY <1>2 DEF Err!Categories
<1>4. c \in Err!Category
  BY <1>3 DEF Err!Category, Err!Categories
<1>5. Err!ExitCode(c) % 256 # 0
  BY <1>3 DEF Err!ExitCode
<1>6. Err!HttpStatus(c) >= 400
  BY <1>3 DEF Err!HttpStatus
<1> QED BY <1>3, <1>4, <1>5, <1>6 DEF c

\* No status that C raises is the one that would be turned into success.
NoOddStatus == 200 \notin Statuses

\* The error that stands is the first, and there is none without a first.
ErrorInv ==
  /\ Err!TypeOK /\ Err!FirstErrorStands /\ Err!CategoriesSurvive
  /\ first = <<>> => others = FALSE
  /\ first # <<>> => first[1] \in Nat \ {0, 200}
  /\ message \in Messages \cup {0}

\* The invariant of errors holds at first.
LEMMA ErrorBegins == Err!Init => ErrorInv
<1> SUFFICES ASSUME Err!Init
             PROVE  ErrorInv
  OBVIOUS
<1>1. /\ reason = 0 /\ message = 0 /\ included = FALSE /\ locked = FALSE /\ frames = <<>>
      /\ first = <<>> /\ others = FALSE
  BY DEF Err!Init, Err!Cleared, Err!NoError
<1>2. Err!TypeOK
  <2>1. <<>> \in Seq(Locations) /\ Len(<<>>) = 0
    OBVIOUS
  <2>2. frames \in Seq(Locations) /\ Len(frames) <= Err!Capacity
    BY <1>1, <2>1 DEF Err!Capacity
  <2> QED BY <1>1, <2>2 DEF Err!TypeOK
<1>3. Err!FirstErrorStands
  BY <1>1 DEF Err!FirstErrorStands, Err!Cleared, Err!NoError
<1>4. Err!CategoriesSurvive
  BY <1>1 DEF Err!CategoriesSurvive
<1> QED BY <1>1, <1>2, <1>3, <1>4 DEF ErrorInv

\* A trace has eight frames at most.
LEMMA FramesGrow ==
  ASSUME frames \in Seq(Locations), Len(frames) <= 8, NEW isLocked, NEW why, NEW l \in Locations
  PROVE  Err!WithFrame(frames, isLocked, why, l) \in Seq(Locations) /\ Len(Err!WithFrame(frames, isLocked, why, l)) <= 8
BY DEF Err!WithFrame, Err!Capacity

\* An error is raised: it stands if there was none, and locks the one there was.
LEMMA RaisedStands ==
  ASSUME ErrorInv, NEW e, NEW w \in Nat \ {0, 200}, NEW m \in Messages \cup {0}, e[1] = w, e[2] = m, e # <<>>,
         Len(e) = 3 => Err!CategoryOf(w) = e[3],
         Err!Remembered(e),
         reason # 0 => Err!Lock,
         reason = 0 => /\ reason' = w /\ message' = m /\ locked' = locked /\ included' \in BOOLEAN
                       /\ frames' \in Seq(Locations) /\ Len(frames') <= 8
  PROVE  ErrorInv' /\ (locked /\ locked' => frames' = frames)
<1>1. CASE reason # 0
  <2>1. /\ locked' = TRUE /\ reason' = reason /\ message' = message /\ included' = included /\ frames' = frames
    BY <1>1 DEF Err!Lock
  <2>2. first # <<>>
    BY <1>1 DEF ErrorInv, Err!FirstErrorStands, Err!Cleared, Err!NoError
  <2>3. first' = first /\ others' = TRUE
    BY <2>2 DEF Err!Remembered
  <2> QED BY <2>1, <2>2, <2>3 DEF ErrorInv, Err!TypeOK, Err!FirstErrorStands, Err!CategoriesSurvive
<1>2. CASE reason = 0
  <2>1. first = <<>> /\ others = FALSE /\ locked = FALSE
    BY <1>2 DEF ErrorInv, Err!FirstErrorStands, Err!Cleared, Err!NoError
  <2>2. first' = e /\ others' = others
    BY <2>1 DEF Err!Remembered
  <2>3. Err!TypeOK'
    <3>1. Err!ErrorBufferAssumption
      BY NativeAssumption
    <3>2. m \in Nat
      BY <3>1 DEF Err!ErrorBufferAssumption
    <3>3. locked \in BOOLEAN
      BY DEF ErrorInv, Err!TypeOK
    <3> QED BY <1>2, <3>2, <3>3 DEF Err!TypeOK, Err!Capacity
  <2>4. Err!FirstErrorStands'
    BY <1>2, <2>1, <2>2 DEF Err!FirstErrorStands
  <2>5. Err!CategoriesSurvive'
    BY <1>2, <2>2 DEF Err!CategoriesSurvive
  <2> QED BY <1>2, <2>1, <2>2, <2>3, <2>4, <2>5 DEF ErrorInv
<1> QED BY <1>1, <1>2

\* Every step keeps the invariant, and a locked trace.
LEMMA ErrorSteps ==
  ASSUME NoOddStatus
  PROVE  ErrorInv /\ [Err!Next]_(Err!vars) => ErrorInv' /\ [locked /\ locked' => frames' = frames]_(Err!vars)
<1> SUFFICES ASSUME ErrorInv, [Err!Next]_(Err!vars)
             PROVE  ErrorInv' /\ (locked /\ locked' => frames' = frames)
  OBVIOUS
<1>0. Err!ErrorBufferAssumption
  BY NativeAssumption
<1>1. CASE UNCHANGED Err!vars
  BY <1>1 DEF Err!vars, ErrorInv, Err!TypeOK, Err!FirstErrorStands, Err!CategoriesSurvive, Err!Cleared
<1>2. CASE Err!ClearError
  <2>1. /\ reason' = 0 /\ message' = 0 /\ included' = FALSE /\ locked' = FALSE /\ frames' = <<>>
        /\ first' = <<>> /\ others' = FALSE
    BY <1>2 DEF Err!ClearError, Err!NoError
  <2>2. Err!TypeOK'
    <3>1. <<>> \in Seq(Locations) /\ Len(<<>>) = 0
      OBVIOUS
    <3>2. frames' \in Seq(Locations) /\ Len(frames') <= Err!Capacity
      BY <2>1, <3>1 DEF Err!Capacity
    <3> QED BY <2>1, <3>2 DEF Err!TypeOK
  <2>3. Err!Cleared'
    BY <2>1 DEF Err!Cleared, Err!NoError
  <2>4. Err!FirstErrorStands'
    BY <2>1, <2>3 DEF Err!FirstErrorStands
  <2>5. Err!CategoriesSurvive'
    <3>1. Len(first') # 3
      BY <2>1
    <3> QED BY <3>1 DEF Err!CategoriesSurvive
  <2> QED BY <2>1, <2>2, <2>4, <2>5 DEF ErrorInv
<1>3. ASSUME NEW l \in Locations, Err!AddToCallstack(l)
      PROVE  ErrorInv' /\ (locked /\ locked' => frames' = frames)
  <2>1. /\ frames' = Err!WithFrame(frames, locked, reason, l) /\ included' = (included /\ frames' = frames)
        /\ reason' = reason /\ message' = message /\ locked' = locked /\ first' = first /\ others' = others
    BY <1>3 DEF Err!AddToCallstack
  <2>2. frames' \in Seq(Locations) /\ Len(frames') <= 8
    BY <2>1, FramesGrow DEF ErrorInv, Err!TypeOK, Err!Capacity
  <2>3. Err!TypeOK'
    BY <2>1, <2>2 DEF ErrorInv, Err!TypeOK, Err!Capacity
  <2>4. locked \/ reason = 0 => frames' = frames
    BY <2>1 DEF Err!WithFrame, Err!NoError
  <2>5. Err!Cleared => Err!Cleared'
    BY <2>1, <2>4 DEF Err!Cleared, Err!NoError
  <2>6. Err!FirstErrorStands' /\ Err!CategoriesSurvive'
    BY <2>1, <2>5 DEF ErrorInv, Err!FirstErrorStands, Err!CategoriesSurvive
  <2> QED BY <2>1, <2>3, <2>4, <2>6 DEF ErrorInv
<1>4. ASSUME NEW s \in Statuses, NEW m \in Messages, NEW l \in Locations, Err!RaiseError(s, m, l)
      PROVE  ErrorInv' /\ (locked /\ locked' => frames' = frames)
  <2> DEFINE w == Err!Known(s)
             e == <<w, m>>
  <2>1. w \in Nat \ {0, 200}
    BY <1>0 DEF Err!Known, Err!NoError, Err!OtherError, NoOddStatus, Err!ErrorBufferAssumption
  <2>2. e[1] = w /\ e[2] = m /\ e # <<>> /\ Len(e) # 3
    OBVIOUS
  <2>3. Err!Remembered(e)
    BY <1>4 DEF Err!RaiseError
  <2>4. reason = 0 => message = 0 /\ frames = <<>>
    BY DEF ErrorInv, Err!FirstErrorStands, Err!Cleared
  <2>5. \/ reason # 0 /\ Err!Lock
        \/ /\ reason = 0 /\ reason' = w /\ message' = (IF m = 0 THEN message ELSE m)
           /\ frames' = Err!WithFrame(frames, locked, reason', l)
           /\ included' = (included /\ frames' = frames) /\ locked' = locked
    BY <1>4 DEF Err!RaiseError, Err!NoError
  <2>6. ASSUME reason = 0
        PROVE  /\ reason' = w /\ message' = m /\ locked' = locked /\ included' \in BOOLEAN
               /\ frames' \in Seq(Locations) /\ Len(frames') <= 8
    <3>1. frames \in Seq(Locations) /\ Len(frames) <= 8 /\ included \in BOOLEAN
      BY DEF ErrorInv, Err!TypeOK, Err!Capacity
    <3>2. frames' = Err!WithFrame(frames, locked, reason', l)
      BY <2>5, <2>6
    <3>3. \A why : /\ Err!WithFrame(frames, locked, why, l) \in Seq(Locations)
                   /\ Len(Err!WithFrame(frames, locked, why, l)) <= 8
      BY <3>1, FramesGrow
    <3>4. frames' \in Seq(Locations) /\ Len(frames') <= 8
      BY <3>2, <3>3
    <3>5. reason' = w /\ message' = m /\ locked' = locked
      BY <2>4, <2>5, <2>6
    <3>6. included' = (included /\ frames' = frames)
      BY <2>5, <2>6
    <3> HIDE DEF w, e
    <3> QED BY <3>4, <3>5, <3>6
  <2>7. m \in Messages \cup {0}
    OBVIOUS
  <2>8. Len(e) = 3 => Err!CategoryOf(w) = e[3]
    BY <2>2
  <2> HIDE DEF w, e
  <2> QED BY <2>1, <2>2, <2>3, <2>5, <2>6, <2>7, <2>8, RaisedStands
<1>5. ASSUME NEW c \in Err!Category \ {"Ok"}, NEW m \in Messages \ {0}, Err!RaiseFromRust(c, m)
      PROVE  ErrorInv' /\ (locked /\ locked' => frames' = frames)
  <2> DEFINE w == Err!Known(Err!StatusOf(c))
             e == <<w, m, c>>
  <2>1. w = Err!StatusOf(c) /\ w \in Nat \ {0, 200} /\ Err!CategoryOf(w) = c
    BY CategoriesSurviveC DEF Err!Known, Err!NoError
  <2>2. e[1] = w /\ e[2] = m /\ e[3] = c /\ e # <<>>
    OBVIOUS
  <2>3. Err!Remembered(e)
    BY <1>5 DEF Err!RaiseFromRust
  <2>4. \/ reason # 0 /\ Err!Lock
        \/ reason = 0 /\ reason' = w /\ message' = m /\ locked' = locked /\ included' = TRUE /\ frames' = frames
    BY <1>5 DEF Err!RaiseFromRust, Err!NoError
  <2>5. frames \in Seq(Locations) /\ Len(frames) <= 8
    BY DEF ErrorInv, Err!TypeOK, Err!Capacity
  <2>6. m \in Messages \cup {0} /\ (Len(e) = 3 => Err!CategoryOf(w) = e[3])
    BY <2>1
  <2>7. ASSUME reason = 0
        PROVE  /\ reason' = w /\ message' = m /\ locked' = locked /\ included' \in BOOLEAN
               /\ frames' \in Seq(Locations) /\ Len(frames') <= 8
    BY <2>4, <2>5, <2>7
  <2> HIDE DEF w, e
  <2> QED BY <2>1, <2>2, <2>3, <2>4, <2>6, <2>7, RaisedStands
<1> QED BY <1>1, <1>2, <1>3, <1>4, <1>5 DEF Err!Next

\* The lengths of the first lines of a stack trace together, and what
\* flow_context_stacktrace has written of them after each, as Err says it.
Lines == CHOOSE A : A = [i \in 0 .. Len(frames) |-> IF i = 0 THEN 0 ELSE A[i - 1] + frames[i].size]
Written(room) ==
  CHOOSE A : A = [i \in 0 .. Len(frames) |->
                    IF i = 0 THEN 0
                    ELSE LET so_far == A[i - 1]
                         IN  IF so_far # Err!Nothing /\ Err!Printed(room - so_far, frames[i].size) # Err!Nothing
                             THEN so_far + frames[i].size ELSE Err!Nothing]

\* Every line of a trace has a size.
LEMMA FramesHaveSizes ==
  ASSUME frames \in Seq(Locations)
  PROVE  Len(frames) \in Nat /\ \A i \in 1 .. Len(frames) : frames[i].size \in Nat \ {0}
<1>1. Err!ErrorBufferAssumption
  BY NativeAssumption
<1> QED BY <1>1 DEF Err!ErrorBufferAssumption

\* The sizes of the lines of a report, added up.
LEMMA LinesAreAdded ==
  ASSUME frames \in Seq(Locations)
  PROVE  /\ \A i \in 0 .. Len(frames) : Lines[i] \in Nat
         /\ Lines[0] = 0
         /\ \A i \in 1 .. Len(frames) : Lines[i] = Lines[i - 1] + frames[i].size
<1> DEFINE N == Len(frames)
           step == [i \in 1 .. N |-> [k \in Nat |-> k + frames[i].size]]
           F(A) == [i \in 0 .. N |-> IF i = 0 THEN 0 ELSE A[i - 1] + frames[i].size]
<1>1. N \in Nat /\ \A i \in 1 .. N : frames[i].size \in Nat
  BY FramesHaveSizes
<1>2. Lines = CHOOSE A : A = F(A)
  BY DEF Lines
<1> HIDE DEF N
<1>3. step \in [1 .. N -> [Nat -> Nat]]
  BY <1>1
<1> HIDE DEF step
<1>4. PICK f : IsStepByStep(f, N, Nat, 0, step)
  BY <1>1, <1>3, StepByStep
<1>5. f \in [0 .. N -> Nat] /\ f[0] = 0 /\ \A i \in 1 .. N : f[i] = step[i][f[i - 1]]
  BY <1>4 DEF IsStepByStep
<1>6. \A i \in 1 .. N : f[i] = f[i - 1] + frames[i].size
  <2> SUFFICES ASSUME NEW i \in 1 .. N PROVE f[i] = f[i - 1] + frames[i].size
    OBVIOUS
  <2>1. f[i - 1] \in Nat
    BY <1>1, <1>5
  <2> QED BY <1>5, <2>1 DEF step
<1>7. f = F(f)
  BY <1>1, <1>5, <1>6
<1>8. Lines = F(Lines)
  <2> HIDE DEF F
  <2>1. \E A : A = F(A)
    BY <1>7, Zenon
  <2> QED BY <1>2, <2>1, Zenon
<1>9. Lines[0] = 0 /\ \A i \in 1 .. N : Lines[i] = Lines[i - 1] + frames[i].size
  BY <1>1, <1>8
<1> HIDE DEF F
<1> DEFINE Good == {i \in 0 .. N : Lines[i] \in Nat}
<1>10. 0 \in Good
  BY <1>1, <1>9
<1>11. ASSUME NEW i \in 0 .. N - 1, i \in Good
       PROVE  i + 1 \in Good
  <2>1. i + 1 \in 1 .. N /\ (i + 1) - 1 = i /\ Lines[i] \in Nat /\ i + 1 \in 0 .. N
    BY <1>1, <1>11
  <2>2. frames[i + 1].size \in Nat /\ Lines[i + 1] = Lines[(i + 1) - 1] + frames[i + 1].size
    BY <1>1, <1>9, <2>1
  <2>3. Lines[i + 1] \in Nat
    BY <2>1, <2>2
  <2> QED BY <2>1, <2>3
<1>12. \A i \in 0 .. N : i \in Good
  <2> HIDE DEF Good
  <2> QED BY <1>1, <1>10, <1>11, InductionUpTo
<1> QED BY <1>9, <1>12 DEF N

\* The trace is written as far as its lines fit.
LEMMA LinesAreWritten ==
  ASSUME frames \in Seq(Locations), NEW room \in Int
  PROVE  /\ Written(room)[0] = 0
         /\ \A i \in 1 .. Len(frames) : Written(room)[i] = IF Lines[i] < room THEN Lines[i] ELSE -1
<1> DEFINE N == Len(frames)
           Next1(i, k) == IF k # -1 /\ Err!Printed(room - k, frames[i].size) # -1 THEN k + frames[i].size ELSE -1
           step == [i \in 1 .. N |-> [k \in Int |-> Next1(i, k)]]
           F(A) == [i \in 0 .. N |-> IF i = 0 THEN 0 ELSE Next1(i, A[i - 1])]
           W == Written(room)
<1>1. N \in Nat /\ \A i \in 1 .. N : frames[i].size \in Nat \ {0}
  BY FramesHaveSizes
<1>2. W = CHOOSE A : A = F(A)
  BY DEF Written, Err!Nothing
<1> HIDE DEF N, W
<1>3. \A i \in 1 .. N, k \in Int : Next1(i, k) \in Int
  BY <1>1
<1>4. step \in [1 .. N -> [Int -> Int]]
  <2> HIDE DEF Next1
  <2> QED BY <1>3
<1> HIDE DEF step
<1>5. PICK f : IsStepByStep(f, N, Int, 0, step)
  <2>1. N \in Nat /\ 0 \in Int
    BY <1>1
  <2> QED BY <1>4, <2>1, StepByStep
<1>6. f \in [0 .. N -> Int] /\ f[0] = 0 /\ \A i \in 1 .. N : f[i] = step[i][f[i - 1]]
  BY <1>5 DEF IsStepByStep
<1>7. \A i \in 1 .. N : f[i] = Next1(i, f[i - 1])
  <2> SUFFICES ASSUME NEW i \in 1 .. N PROVE f[i] = Next1(i, f[i - 1])
    OBVIOUS
  <2>1. f[i - 1] \in Int
    BY <1>1, <1>6
  <2> HIDE DEF Next1
  <2> QED BY <1>6, <2>1 DEF step
<1>8. f = F(f)
  <2> HIDE DEF Next1
  <2> QED BY <1>1, <1>6, <1>7
<1>9. W = F(W)
  <2> HIDE DEF F
  <2>1. \E A : A = F(A)
    BY <1>8, Zenon
  <2> QED BY <1>2, <2>1, Zenon
<1>10. W[0] = 0 /\ \A i \in 1 .. N : W[i] = Next1(i, W[i - 1])
  <2> HIDE DEF Next1
  <2> QED BY <1>1, <1>9
<1> HIDE DEF F
<1>11. /\ \A i \in 0 .. N : Lines[i] \in Nat
       /\ Lines[0] = 0
       /\ \A i \in 1 .. N : Lines[i] = Lines[i - 1] + frames[i].size
  BY LinesAreAdded DEF N
<1> DEFINE Good == {i \in 0 .. N : W[i] = IF i = 0 \/ Lines[i] < room THEN Lines[i] ELSE -1}
<1>12. 0 \in Good
  BY <1>1, <1>10, <1>11
<1>13. ASSUME NEW i \in 0 .. N - 1, i \in Good
       PROVE  i + 1 \in Good
  <2>1. i + 1 \in 1 .. N /\ (i + 1) - 1 = i /\ i \in 0 .. N /\ i + 1 # 0
    BY <1>1
  <2>2. PICK s \in Nat \ {0} : s = frames[i + 1].size
    BY <1>1, <2>1
  <2>3. Lines[i] \in Nat /\ Lines[i + 1] = Lines[i] + s /\ (i = 0 => Lines[i] = 0)
    BY <1>11, <2>1, <2>2
  <2>4. W[i] = IF i = 0 \/ Lines[i] < room THEN Lines[i] ELSE -1
    BY <1>13
  <2>5. W[i + 1] = IF W[i] # -1 /\ Err!Printed(room - W[i], s) # -1 THEN W[i] + s ELSE -1
    BY <1>10, <2>1, <2>2
  <2>6. W[i + 1] = IF Lines[i + 1] < room THEN Lines[i + 1] ELSE -1
    BY <2>2, <2>3, <2>4, <2>5 DEF Err!Printed, Err!Nothing
  <2> QED BY <2>1, <2>6
<1>14. \A i \in 0 .. N : i \in Good
  <2> HIDE DEF Good
  <2> QED BY <1>1, <1>12, <1>13, InductionUpTo
<1>15. \A i \in 1 .. N : W[i] = IF Lines[i] < room THEN Lines[i] ELSE -1
  BY <1>1, <1>14
<1> QED BY <1>10, <1>15 DEF N, W

\* All of a report: its message, a line end if there are frames, and their lines.
Whole == Err!MessageLength + (IF frames = <<>> THEN 0 ELSE 1) + Lines[Len(frames)]

\* A report is whole, or there was no room for it.
LEMMA ReportIsWhole ==
  ASSUME ErrorInv, NEW room \in Nat
  PROVE  Err!ErrorAndStacktrace(room) = IF Whole < room THEN Whole ELSE -1
<1> DEFINE N == Len(frames)
           told == Err!Printed(room, Err!MessageLength)
           break == IF frames = <<>> THEN 0 ELSE Err!Printed(room - told, 1)
           trace == Written(room - told - break)[N]
<1>1. Err!ErrorAndStacktrace(room) = IF -1 \in {told, break, trace} THEN -1 ELSE told + break + trace
  BY DEF Err!ErrorAndStacktrace, Err!TraceInto, Written, Err!Nothing
<1>2. frames \in Seq(Locations) /\ message \in Nat
  BY DEF ErrorInv, Err!TypeOK
<1>3. Lines[N] \in Nat /\ N \in Nat /\ (frames = <<>> <=> N = 0) /\ Lines[0] = 0
  BY <1>2, LinesAreAdded
<1> DEFINE m == Err!MessageLength
<1>4. m \in Nat \ {0}
  BY <1>2 DEF Err!MessageLength, Err!StatusLength
<1>5. told = IF m < room THEN m ELSE -1
  BY <1>4 DEF Err!Printed, Err!Nothing
<1>6. Whole = m + (IF frames = <<>> THEN 0 ELSE 1) + Lines[N]
  BY DEF Whole
<1>7. \A r \in Int : Written(r)[0] = 0 /\ (N # 0 => Written(r)[N] = IF Lines[N] < r THEN Lines[N] ELSE -1)
  BY <1>2, <1>3, LinesAreWritten
<1>8. break = IF frames = <<>> THEN 0 ELSE IF 1 < room - told THEN 1 ELSE -1
  <2>1. room - told \in Int
    BY <1>4, <1>5
  <2> HIDE DEF told
  <2> QED BY <2>1 DEF Err!Printed, Err!Nothing
<1> HIDE DEF N, m, told, break
<1>9. room - told - break \in Int
  BY <1>4, <1>5, <1>8
<1>10. CASE ~(m < room)
  <2>1. told = -1 /\ ~(Whole < room)
    BY <1>3, <1>4, <1>5, <1>6, <1>10
  <2> QED BY <1>1, <2>1
<1>11. CASE m < room /\ frames = <<>>
  <2>1. told = m /\ break = 0 /\ trace = 0 /\ Whole = m
    BY <1>3, <1>4, <1>5, <1>6, <1>7, <1>8, <1>9, <1>11
  <2> QED BY <1>1, <1>4, <1>11, <2>1
<1>12. CASE m < room /\ frames # <<>>
  <2>1. told = m /\ Whole = m + 1 + Lines[N] /\ N # 0
    BY <1>3, <1>5, <1>6, <1>12
  <2>2. CASE ~(1 < room - m)
    <3>1. break = -1 /\ ~(Whole < room)
      BY <1>3, <1>4, <1>8, <1>12, <2>1, <2>2
    <3> QED BY <1>1, <3>1
  <2>3. CASE 1 < room - m
    <3>1. break = 1 /\ room - m - 1 \in Int
      BY <1>4, <1>8, <1>12, <2>1, <2>3
    <3>2. trace = IF Lines[N] < room - m - 1 THEN Lines[N] ELSE -1
      BY <1>7, <2>1, <3>1
    <3> HIDE DEF trace
    <3> QED BY <1>1, <1>3, <1>4, <2>1, <3>1, <3>2
  <2> QED BY <2>2, <2>3
<1> QED BY <1>10, <1>11, <1>12

\* A report stays within its room.
LEMMA ReportsFit ==
  ASSUME ErrorInv
  PROVE  Err!ReportFits
<1>1. \A room \in Rooms : room \in Nat
  <2>1. Err!ErrorBufferAssumption
    BY NativeAssumption
  <2> QED BY <2>1 DEF Err!ErrorBufferAssumption
<1>2. \A room \in Rooms : Err!ErrorAndStacktrace(room) = IF Whole < room THEN Whole ELSE -1
  BY <1>1, ReportIsWhole
<1> QED BY <1>2 DEF Err!ReportFits, Whole, Lines, Err!Nothing

\* The messages and the lines of a stack trace are as long as those of the code: a
\* message fits error.message (imageflow_private.h) and a line is of a path of the
\* repository.
LengthsAreBounded ==
  /\ \A m \in Messages : m <= 1022
  /\ \A l \in Locations : l.size <= 98

\* An error can be told in the buffer Rust has for it.
LEMMA ErrorsAreTold ==
  ASSUME ErrorInv, LengthsAreBounded
  PROVE  Err!ErrorsCanBeTold
<1> DEFINE N == Len(frames)
           Good == {i \in 0 .. N : Lines[i] <= 98 * i}
<1>1. frames \in Seq(Locations) /\ N \in Nat /\ N <= 8
  BY DEF ErrorInv, Err!TypeOK, Err!Capacity
<1>2. \A i \in 1 .. N : frames[i].size \in Nat /\ frames[i].size <= 98
  BY <1>1, FramesHaveSizes DEF LengthsAreBounded
<1>3. /\ \A i \in 0 .. N : Lines[i] \in Nat
      /\ Lines[0] = 0
      /\ \A i \in 1 .. N : Lines[i] = Lines[i - 1] + frames[i].size
  BY <1>1, LinesAreAdded
<1> HIDE DEF N
<1>4. 0 \in Good
  BY <1>1, <1>3
<1>5. ASSUME NEW i \in 0 .. N - 1, i \in Good
      PROVE  i + 1 \in Good
  <2>1. i + 1 \in 1 .. N /\ (i + 1) - 1 = i /\ i \in 0 .. N /\ i + 1 \in 0 .. N
    BY <1>1
  <2>2. Lines[i] <= 98 * i /\ Lines[i] \in Nat
    BY <1>3, <1>5, <2>1
  <2>3. Lines[i + 1] = Lines[i] + frames[i + 1].size /\ frames[i + 1].size \in Nat /\ frames[i + 1].size <= 98
    BY <1>2, <1>3, <2>1
  <2>4. Lines[i + 1] <= 98 * (i + 1)
    BY <2>2, <2>3
  <2> QED BY <2>1, <2>4
<1>6. Lines[N] <= 98 * N /\ Lines[N] \in Nat
  <2>1. \A i \in 0 .. N : i \in Good
    <3> HIDE DEF Good
    <3> QED BY <1>1, <1>4, <1>5, InductionUpTo
  <2> QED BY <1>1, <1>3, <2>1
<1>7. message \in Nat /\ message <= 1022
  BY DEF ErrorInv, Err!TypeOK, LengthsAreBounded
<1>8. Err!MessageLength \in Nat /\ Err!MessageLength <= 1037
  BY <1>7 DEF Err!MessageLength, Err!StatusLength
<1>9. Whole \in Nat /\ Whole < 2048
  BY <1>1, <1>6, <1>8 DEF Whole, N
<1>10. Err!ErrorAndStacktrace(2048) # -1
  BY <1>9, ReportIsWhole
<1> QED BY <1>10 DEF Err!ErrorsCanBeTold, Err!Reported, Err!ReportSize, Err!Nothing

\* The first error that C or Rust raises in a context is the one that is told, as it was
\* raised and with its own trace, within the room there is for the report and as a
\* failure, whatever is raised after it (context.c:51-93, 180-213, errors.rs:542-622,
\* 1025-1034).
THEOREM FirstErrorTold ==
  ASSUME NoOddStatus, LengthsAreBounded
  PROVE  NativeSafety => FirstErrorIsTold
<1>1. NativeInit => ErrorInv
  BY NativeParts, ErrorBegins
<1>2. ErrorInv /\ [NativeNext]_nativeVars => ErrorInv' /\ [locked /\ locked' => frames' = frames]_(Err!vars)
  BY NativeParts, ErrorSteps
<1>3. ErrorInv => Err!NoErrorIsSuccess
  <2> SUFFICES ASSUME ErrorInv, reason # 0
               PROVE  Err!NoErrorIsSuccess
    BY DEF Err!NoErrorIsSuccess, Err!NoError
  <2>1. first # <<>>
    BY DEF ErrorInv, Err!FirstErrorStands, Err!Cleared, Err!NoError
  <2>2. reason \in Nat \ {0, 200}
    BY <2>1 DEF ErrorInv, Err!FirstErrorStands
  <2> QED BY <2>2, StatusesAreNoSuccess DEF Err!NoErrorIsSuccess
<1>4. ErrorInv => /\ Err!FirstErrorStands /\ Err!ReportFits /\ Err!CategoriesSurvive
                  /\ Err!ErrorsCanBeTold /\ Err!NoErrorIsSuccess
  BY <1>3, ReportsFit, ErrorsAreTold DEF ErrorInv
<1> QED BY <1>1, <1>2, <1>4, PTL DEF NativeSafety, FirstErrorIsTold, Err!TraceOfTheFirst
-----------------------------------------------------------------------------
\* The decoders.
DecoderStates ==
  [stage : {"Failed", "NotStarted", "BeginRead", "FinishRead", "Undefined"}, library : {"null", "live"},
   frame : {"none", "begin", "finish", "dead"}, w : Nat, h : Nat, num : 1 .. 8,
   canvas : {NULL} \cup (Nat \X Nat), color : {"none", "sRGB", "ICCP_GRAY", "ICCP", "GAMA_CHRM"},
   format : {"bgra32", "bgr32"}, hints : Hints]

Replies ==
  [ok : {TRUE}, value : {"nothing", "selected", "done", "size", "frame", "gone"}]
  \cup [ok : {FALSE}, value : {"IO_error", "Not_implemented", "Invalid_internal_state", "Out_of_memory",
                               "Image_decoding_failed", "undefined"}]

\* A decoder that has not been left to chance: its library is there for the frame it is
\* going to read, and decodes to the size the decoder says.
Sane(d) ==
  /\ d \in DecoderStates
  /\ d.stage # "Undefined" => ((d.library = "live") <=> (d.stage = "BeginRead"))
  /\ kind = "jpeg" /\ d.stage \in {"BeginRead", "FinishRead"} =>
       d.w = Dec!Eighths(d.num, image.w) /\ d.h = Dec!Eighths(d.num, image.h)

\* A call ends sanely, and does nothing for a decoder that is done or has failed.
EndsWell(d, x) ==
  /\ Sane(x.decoder) /\ x.reply \in Replies
  /\ d.stage \in {"Failed", "FinishRead"} => x.decoder.stage = d.stage /\ x.reply # Dec!Ok("frame")

DecoderInv ==
  /\ image \in Images /\ reply \in Replies
  /\ kind \in {"jpeg", "png", NULL}
  /\ decoder # NULL => Sane(decoder) /\ kind \in {"jpeg", "png"}

\* A size scaled by 8/8 is itself.
LEMMA ImagesAreSized ==
  \A i \in Images : i.w \in Nat /\ i.h \in Nat /\ Dec!Eighths(8, i.w) = i.w /\ Dec!Eighths(8, i.h) = i.h
<1>1. Dec!DecoderAssumption
  BY NativeAssumption
<1>2. \A i \in Images : i.w \in Nat /\ i.h \in Nat
  BY <1>1 DEF Dec!DecoderAssumption
<1>3. \A n \in Nat : Dec!Eighths(8, n) = n
  BY DEF Dec!Eighths
<1> QED BY <1>2, <1>3

\* A decoder that fails or is reset has no library structure.
LEMMA FailureForgets ==
  ASSUME NEW d, d \in DecoderStates
  PROVE  /\ Dec!Reset(d) \in DecoderStates /\ Dec!Reset(d).num = 8
         /\ Dec!Failed(d) \in DecoderStates /\ Dec!Failed(d).stage = "Failed" /\ Dec!Failed(d).library = "null"
<1>1. d.hints \in Hints /\ d.frame \in {"none", "begin", "finish", "dead"}
  BY DEF DecoderStates
<1> DEFINE fresh == Dec!Fresh(d.hints)
<1>2. fresh \in DecoderStates /\ fresh.library = "null" /\ fresh.num = 8
  BY <1>1 DEF DecoderStates, Dec!Fresh
<1> HIDE DEF fresh
<1>3. Dec!Reset(d) \in DecoderStates /\ Dec!Reset(d).library = "null" /\ Dec!Reset(d).num = 8
  BY <1>1, <1>2 DEF DecoderStates, Dec!Reset, fresh
<1> QED BY <1>3 DEF DecoderStates, Dec!Failed

\* However reading the header ends, the decoder is sane.
LEMMA BeginReadEnds ==
  ASSUME ~Crashes, image \in Images, kind \in {"jpeg", "png"}, NEW d, Sane(d), d.stage # "Undefined",
         NEW x \in Dec!BeginRead(d)
  PROVE  /\ EndsWell(d, x) /\ x.reply.ok \in BOOLEAN /\ x.decoder.stage # "Undefined"
         /\ x.reply.ok => x.decoder.stage = "BeginRead" /\ d.stage = "NotStarted"
<1> DEFINE started == [Dec!Reset(d) EXCEPT !.stage = "BeginRead", !.library = "live", !.frame = "begin"]
           read == Dec!Returns([started EXCEPT !.w = image.w, !.h = image.h, !.color = Dec!ColorOf(image),
                                             !.format = Dec!FormatOf(image)])
<1>1. d \in DecoderStates
  BY DEF Sane
<1>2. Dec!Reset(d) \in DecoderStates /\ Dec!Reset(d).num = 8 /\ Dec!Failed(d) \in DecoderStates
      /\ Dec!Failed(d).stage = "Failed" /\ Dec!Failed(d).library = "null"
  BY <1>1, FailureForgets
<1>3. started \in DecoderStates /\ started.stage = "BeginRead" /\ started.frame = "begin" /\ started.library = "live"
      /\ started.num = 8
  BY <1>2 DEF DecoderStates
<1>4. read \in DecoderStates /\ read.stage = "BeginRead" /\ read.library = "live" /\ read.num = 8
      /\ read.w = image.w /\ read.h = image.h
  <2>1. Dec!ColorOf(image) \in {"none", "sRGB", "ICCP_GRAY", "ICCP", "GAMA_CHRM"}
    <3>1. Dec!DecoderAssumption
      BY NativeAssumption
    <3>2. image.profile \in {"none", "srgb", "icc", "gama_chrm"}
      BY <3>1 DEF Dec!DecoderAssumption
    <3> QED BY <3>2 DEF Dec!ColorOf
  <2>2. Dec!FormatOf(image) \in {"bgra32", "bgr32"}
    BY DEF Dec!FormatOf
  <2>3. image.w \in Nat /\ image.h \in Nat
    BY ImagesAreSized
  <2> HIDE DEF started
  <2> QED BY <1>3, <2>1, <2>2, <2>3 DEF DecoderStates, Dec!Returns
<1>5. Sane(read)
  <2> HIDE DEF read
  <2> QED BY <1>4, ImagesAreSized DEF Sane
<1>6. Sane(Dec!Failed(d))
  BY <1>2 DEF Sane
<1> DEFINE failed == [Dec!Failed(started) EXCEPT !.frame = "dead"]
<1>7. Sane(failed) /\ failed.stage = "Failed"
  <2> HIDE DEF started
  <2> QED BY <1>3 DEF Sane, DecoderStates, Dec!Reset, Dec!Fresh, Dec!Failed
<1>8. CASE d.stage # "NotStarted"
  <2>1. x = Dec!Ends(d, Dec!Error("Invalid_internal_state"))
    BY <1>8 DEF Dec!BeginRead
  <2> QED BY <2>1 DEF EndsWell, Dec!Ends, Dec!Error, Dec!Ok, Replies
<1>9. CASE d.stage = "NotStarted"
  <2>1. \/ x = Dec!Jumped(started)
        \/ x = Dec!Ends(read, Dec!Ok("done"))
        \/ x = Dec!Ends(Dec!Failed(d), Dec!Error("Out_of_memory"))
    BY <1>9 DEF Dec!BeginRead
  <2>2. Dec!Jumped(started) = Dec!Ends(failed, Dec!Error("Image_decoding_failed"))
    <3> HIDE DEF started
    <3> QED BY <1>3 DEF Dec!Jumped
  <2>3. d.stage \notin {"Failed", "FinishRead"}
    BY <1>9
  <2> HIDE DEF started, read, failed
  <2>4. CASE x = Dec!Ends(failed, Dec!Error("Image_decoding_failed"))
    BY <1>7, <2>3, <2>4 DEF EndsWell, Dec!Ends, Dec!Error, Replies
  <2>5. CASE x = Dec!Ends(read, Dec!Ok("done"))
    BY <1>4, <1>5, <1>9, <2>3, <2>5 DEF EndsWell, Dec!Ends, Dec!Ok, Replies
  <2>6. CASE x = Dec!Ends(Dec!Failed(d), Dec!Error("Out_of_memory"))
    BY <1>2, <1>6, <2>3, <2>6 DEF EndsWell, Dec!Ends, Dec!Error, Replies
  <2> QED BY <2>1, <2>2, <2>4, <2>5, <2>6
<1> QED BY <1>8, <1>9

\* The eighths a JPEG is decoded to are those of the hints, how often so ever they are
\* worked out.
LEMMA DownscalingSettles ==
  ASSUME image \in Images, NEW d, Sane(d), d.stage = "BeginRead"
  PROVE  LET e == Dec!ApplyDownscaling(d)
         IN  /\ Sane(e) /\ e.stage = "BeginRead"
             /\ \A c \in Nat \X Nat : LET f == Dec!ApplyDownscaling([e EXCEPT !.canvas = c])
                                      IN  Sane(f) /\ f.stage = "BeginRead" /\ f.w = e.w /\ f.h = e.h
<1> DEFINE fits(h) == {n \in Dec!Scales : Dec!Enough(h, n)}
           wanted(h) == /\ h.minW # -1 /\ h.minH # 1
                        /\ image.w > h.ifWider \/ image.h > h.ifTaller
           applies(h) == kind = "jpeg" /\ wanted(h) /\ fits(h) # {}
           least(h) == CHOOSE n \in fits(h) : \A m \in fits(h) : n <= m
           Scaled(y) == [y EXCEPT !.num = least(y.hints), !.w = Dec!Eighths(least(y.hints), image.w),
                                  !.h = Dec!Eighths(least(y.hints), image.h)]
<1>1. \A y : Dec!ApplyDownscaling(y) = IF applies(y.hints) THEN Scaled(y) ELSE y
  BY DEF Dec!ApplyDownscaling
<1>2. \A h : fits(h) # {} => least(h) \in 1 .. 8
  <2> SUFFICES ASSUME NEW h, fits(h) # {}
               PROVE  least(h) \in fits(h)
    BY DEF Dec!Scales
  <2>1. fits(h) \in SUBSET Nat
    BY DEF Dec!Scales
  <2> HIDE DEF fits
  <2> QED BY <2>1, LeastNumber
<1>3. \A n \in 1 .. 8 : Dec!Eighths(n, image.w) \in Nat /\ Dec!Eighths(n, image.h) \in Nat
  <2>1. image.w \in Nat /\ image.h \in Nat
    BY ImagesAreSized
  <2>2. \A n \in 1 .. 8, s \in Nat : n * s \in Nat
    OBVIOUS
  <2>3. \A k \in Nat : (k + 7) \div 8 \in Nat
    OBVIOUS
  <2>4. \A n \in 1 .. 8, s \in Nat : Dec!Eighths(n, s) = (n * s + 7) \div 8 \/ Dec!Eighths(n, s) = (s * n + 7) \div 8
    BY DEF Dec!Eighths
  <2>5. \A n \in 1 .. 8, s \in Nat : s * n \in Nat
    OBVIOUS
  <2> QED BY <2>1, <2>2, <2>3, <2>4, <2>5
<1> HIDE DEF fits, wanted, least
<1>4. ASSUME NEW y, Sane(y), y.stage = "BeginRead", applies(y.hints)
      PROVE  /\ Sane(Scaled(y)) /\ Scaled(y).stage = "BeginRead" /\ Scaled(y).hints = y.hints
             /\ Scaled(y).w = Dec!Eighths(least(y.hints), image.w)
             /\ Scaled(y).h = Dec!Eighths(least(y.hints), image.h)
  <2>1. least(y.hints) \in 1 .. 8
    BY <1>2, <1>4
  <2> DEFINE n == least(y.hints)
             sw == Dec!Eighths(n, image.w)
             sh == Dec!Eighths(n, image.h)
  <2>2. n \in 1 .. 8 /\ sw \in Nat /\ sh \in Nat
    BY <1>3, <2>1
  <2>3. Scaled(y) = [y EXCEPT !.num = n, !.w = sw, !.h = sh]
    OBVIOUS
  <2> HIDE DEF Scaled
  <2>4. y \in DecoderStates
    BY <1>4 DEF Sane
  <2>5. /\ Scaled(y) \in DecoderStates /\ Scaled(y).num = n /\ Scaled(y).w = sw /\ Scaled(y).h = sh
        /\ Scaled(y).stage = y.stage /\ Scaled(y).library = y.library /\ Scaled(y).hints = y.hints
    <3> HIDE DEF n, sw, sh
    <3> QED BY <2>2, <2>3, <2>4 DEF DecoderStates
  <2> QED BY <1>4, <2>5 DEF Sane
<1> DEFINE e == Dec!ApplyDownscaling(d)
<1>5. Sane(e) /\ e.stage = "BeginRead" /\ e.hints = d.hints
  <2> HIDE DEF Scaled, applies
  <2> QED BY <1>1, <1>4
<1>6. ASSUME NEW c \in Nat \X Nat
      PROVE  LET f == Dec!ApplyDownscaling([e EXCEPT !.canvas = c])
             IN  Sane(f) /\ f.stage = "BeginRead" /\ f.w = e.w /\ f.h = e.h
  <2> DEFINE g == [e EXCEPT !.canvas = c]
             f == Dec!ApplyDownscaling(g)
  <2>0. e = IF applies(d.hints) THEN Scaled(d) ELSE d
    BY <1>1
  <2> HIDE DEF e
  <2>1. Sane(g) /\ g.stage = "BeginRead" /\ g.hints = d.hints /\ g.w = e.w /\ g.h = e.h
    BY <1>5 DEF Sane, DecoderStates
  <2> HIDE DEF g, Scaled
  <2>2. CASE applies(d.hints)
    <3>1. f = Scaled(g) /\ e = Scaled(d)
      BY <1>1, <2>0, <2>1, <2>2
    <3>2. Sane(f) /\ f.stage = "BeginRead"
      BY <1>4, <2>1, <2>2, <3>1
    <3>3. f.w = e.w /\ f.h = e.h
      BY <1>4, <2>1, <2>2, <3>1
    <3> QED BY <3>2, <3>3 DEF g
  <2>3. CASE ~applies(d.hints)
    <3>1. f = g
      BY <1>1, <2>1, <2>3
    <3> QED BY <2>1, <3>1 DEF g
  <2> QED BY <2>2, <2>3
<1> QED BY <1>5, <1>6


\* However announcing a size ends, the decoder is sane and the size stands.
LEMMA AnnounceEnds ==
  ASSUME ~Crashes, image \in Images, kind \in {"jpeg", "png"}, NEW d, Sane(d), d.stage # "Undefined",
         NEW x \in Dec!Announce(d)
  PROVE  /\ EndsWell(d, x) /\ x.reply.ok \in BOOLEAN /\ x.decoder.stage # "Undefined"
         /\ x.reply.ok /\ x.decoder.stage = "BeginRead" =>
              \A c \in Nat \X Nat : LET f == Dec!ApplyDownscaling([x.decoder EXCEPT !.canvas = c])
                                    IN  Sane(f) /\ f.stage = "BeginRead" /\ f.w = x.decoder.w /\ f.h = x.decoder.h
<1> DEFINE told(e) == IF e.stage = "FinishRead" THEN e ELSE Dec!ApplyDownscaling(e)
           starts == IF d.stage \in {"Failed", "NotStarted"} THEN Dec!BeginRead(d) ELSE {Dec!Ends(d, Dec!Ok("done"))}
<1>1. PICK y \in starts : x = IF y.reply.ok THEN Dec!Ends(told(y.decoder), Dec!Ok("size")) ELSE y
  BY DEF Dec!Announce
<1>2. /\ EndsWell(d, y) /\ y.reply.ok \in BOOLEAN
      /\ y.reply.ok => \/ y.decoder.stage = "BeginRead" /\ d.stage \in {"NotStarted", "BeginRead"}
                       \/ y.decoder.stage = "FinishRead" /\ d.stage = "FinishRead"
      /\ y.decoder.stage # "Undefined"
  <2>1. CASE d.stage \in {"Failed", "NotStarted"}
    <3>1. y \in Dec!BeginRead(d)
      BY <2>1
    <3> QED BY <3>1, BeginReadEnds
  <2>2. CASE d.stage \in {"BeginRead", "FinishRead"}
    <3>1. y = Dec!Ends(d, Dec!Ok("done"))
      BY <2>2
    <3> QED BY <2>2, <3>1 DEF EndsWell, Dec!Ends, Dec!Ok, Replies
  <2>3. d.stage \in {"Failed", "NotStarted", "BeginRead", "FinishRead"}
    BY DEF Sane, DecoderStates
  <2> QED BY <2>1, <2>2, <2>3
<1> HIDE DEF starts
<1>3. CASE ~y.reply.ok
  <2>1. x = y
    BY <1>1, <1>3
  <2> QED BY <1>2, <1>3, <2>1
<1>4. CASE y.reply.ok /\ y.decoder.stage = "FinishRead" /\ d.stage = "FinishRead"
  <2>1. x = Dec!Ends(y.decoder, Dec!Ok("size"))
    BY <1>1, <1>4
  <2>2. x.decoder = y.decoder /\ x.reply = Dec!Ok("size")
    BY <2>1 DEF Dec!Ends
  <2> QED BY <1>2, <1>4, <2>2 DEF EndsWell, Dec!Ok, Replies
<1>5. CASE y.reply.ok /\ y.decoder.stage = "BeginRead" /\ d.stage \in {"NotStarted", "BeginRead"}
  <2>1. x.decoder = Dec!ApplyDownscaling(y.decoder) /\ x.reply = Dec!Ok("size")
    BY <1>1, <1>5 DEF Dec!Ends
  <2>2. Sane(y.decoder)
    BY <1>2 DEF EndsWell
  <2>3. /\ Sane(x.decoder) /\ x.decoder.stage = "BeginRead"
        /\ \A c \in Nat \X Nat : LET f == Dec!ApplyDownscaling([x.decoder EXCEPT !.canvas = c])
                                 IN  Sane(f) /\ f.stage = "BeginRead" /\ f.w = x.decoder.w /\ f.h = x.decoder.h
    BY <1>5, <2>1, <2>2, DownscalingSettles
  <2>4. EndsWell(d, x) /\ x.reply.ok \in BOOLEAN
    BY <1>5, <2>1, <2>3 DEF EndsWell, Dec!Ok, Replies
  <2> QED BY <2>3, <2>4
<1> QED BY <1>2, <1>3, <1>4, <1>5

\* An error of the library leads to a sane decoder.
LEMMA JumpEnds ==
  ASSUME NEW d, Sane(d)
  PROVE  Sane(Dec!Jumped(d).decoder) /\ Dec!Jumped(d).reply \in Replies /\ ~Dec!Jumped(d).reply.ok
<1>1. d \in DecoderStates
  BY DEF Sane
<1>2. CASE d.frame = "dead"
  <2>1. Dec!Jumped(d) = Dec!Ends([d EXCEPT !.stage = "Undefined"], Dec!Error("undefined"))
    BY <1>2 DEF Dec!Jumped
  <2>2. Sane([d EXCEPT !.stage = "Undefined"])
    BY <1>1 DEF Sane, DecoderStates
  <2> QED BY <2>1, <2>2 DEF Dec!Ends, Dec!Error, Replies
<1>3. CASE d.frame # "dead"
  <2> DEFINE e == [Dec!Failed(d) EXCEPT !.frame = "dead"]
  <2>1. Dec!Jumped(d) = Dec!Ends(e, Dec!Error("Image_decoding_failed"))
    BY <1>3 DEF Dec!Jumped
  <2>2. Dec!Failed(d) \in DecoderStates /\ Dec!Failed(d).stage = "Failed" /\ Dec!Failed(d).library = "null"
    BY <1>1, FailureForgets
  <2>3. Sane(e)
    BY <2>2 DEF Sane, DecoderStates
  <2> HIDE DEF e
  <2> QED BY <2>1, <2>3 DEF Dec!Ends, Dec!Error, Replies
<1> QED BY <1>2, <1>3

\* However reading the pixels ends, the decoder is sane.
LEMMA ReadEnds ==
  ASSUME ~Crashes, image \in Images, kind \in {"jpeg", "png"}, NEW d, Sane(d), d.stage # "Undefined",
         NEW x \in Dec!Announce(d), x.reply.ok, NEW y \in Dec!ReadInto(x.decoder, x.decoder.w, x.decoder.h)
  PROVE  EndsWell(d, y)
<1> DEFINE e == x.decoder
           c == <<e.w, e.h>>
           f == Dec!ApplyDownscaling([e EXCEPT !.canvas = c])
           caught == [f EXCEPT !.stage = "FinishRead", !.frame = "finish"]
           done == Dec!Returns([caught EXCEPT !.library = "null"])
<1>1. EndsWell(d, x)
  BY AnnounceEnds
<1>2. CASE e.stage # "BeginRead"
  <2>1. y = Dec!Ends(e, Dec!Error("Invalid_internal_state"))
    BY <1>2 DEF Dec!ReadInto
  <2> QED BY <1>1, <2>1 DEF EndsWell, Dec!Ends, Dec!Error, Dec!Ok, Replies
<1>3. CASE e.stage = "BeginRead"
  <2>1. c \in Nat \X Nat
    BY <1>1 DEF EndsWell, Sane, DecoderStates
  <2>2. Sane(f) /\ f.stage = "BeginRead" /\ f.w = e.w /\ f.h = e.h
    BY <1>3, <2>1, AnnounceEnds
  <2>3. y \in Dec!FinishRead(f)
    BY <1>3, <2>2 DEF Dec!ReadInto
  <2> HIDE DEF f
  <2>4. y \in {Dec!Jumped(f), Dec!Jumped(caught), Dec!Ends(done, Dec!Ok("frame"))}
    BY <2>3 DEF Dec!FinishRead
  <2>5. d.stage \notin {"Failed", "FinishRead"}
    BY <1>1, <1>3 DEF EndsWell
  <2>6. f \in DecoderStates
    BY <2>2 DEF Sane
  <2>7. CASE y = Dec!Jumped(f)
    BY <2>2, <2>5, <2>7, JumpEnds DEF EndsWell
  <2>8. CASE y = Dec!Jumped(caught)
    <3>1. caught \in DecoderStates /\ caught.frame = "finish"
      BY <2>6 DEF DecoderStates
    <3> HIDE DEF caught
    <3> DEFINE g == [Dec!Failed(caught) EXCEPT !.frame = "dead"]
    <3>2. Dec!Failed(caught) \in DecoderStates /\ Dec!Failed(caught).stage = "Failed"
          /\ Dec!Failed(caught).library = "null"
      BY <3>1, FailureForgets
    <3>3. Sane(g)
      BY <3>2 DEF Sane, DecoderStates
    <3>4. y = Dec!Ends(g, Dec!Error("Image_decoding_failed"))
      BY <2>8, <3>1 DEF Dec!Jumped
    <3> HIDE DEF g
    <3> QED BY <2>5, <3>3, <3>4 DEF EndsWell, Dec!Ends, Dec!Error, Replies
  <2>9. CASE y = Dec!Ends(done, Dec!Ok("frame"))
    <3>1. done \in DecoderStates /\ done.stage = "FinishRead" /\ done.library = "null"
          /\ done.w = f.w /\ done.h = f.h /\ done.num = f.num
      BY <2>6 DEF DecoderStates, Dec!Returns
    <3> HIDE DEF done
    <3>2. Sane(done)
      BY <2>2, <3>1 DEF Sane
    <3> QED BY <2>5, <2>9, <3>2 DEF EndsWell, Dec!Ends, Dec!Ok, Replies
  <2> QED BY <2>4, <2>7, <2>8, <2>9
<1> QED BY <1>2, <1>3


\* The invariant of decoders holds at first.
LEMMA DecoderBegins == Dec!Init => DecoderInv
BY DEF Dec!Init, DecoderInv, Dec!Ok, Replies

\* An answer of a decoder in use keeps the invariant.
LEMMA AnswersEndWell ==
  ASSUME DecoderInv, Dec!InUse, NEW x, EndsWell(decoder, x), decoder' = x.decoder, reply' = x.reply,
         UNCHANGED <<image, kind>>
  PROVE  /\ DecoderInv'
         /\ decoder.stage \in {"Failed", "FinishRead"} => decoder'.stage = decoder.stage /\ reply' # Dec!Ok("frame")
<1>1. Sane(decoder)'
  BY DEF EndsWell, Sane, Dec!Eighths
<1> QED BY <1>1 DEF DecoderInv, EndsWell, Dec!InUse

\* Every step keeps the invariant, and no decoder decodes twice.
LEMMA DecoderSteps ==
  ASSUME ~Crashes
  PROVE  DecoderInv /\ [Dec!Next]_(Dec!vars) =>
           /\ DecoderInv'
           /\ [decoder # NULL /\ decoder' # NULL /\ decoder.stage \in {"Failed", "FinishRead"} =>
                 decoder'.stage = decoder.stage /\ (reply' # reply => reply' # Dec!Ok("frame"))]_(Dec!vars)
<1> DEFINE Kept == decoder # NULL /\ decoder' # NULL /\ decoder.stage \in {"Failed", "FinishRead"} =>
                     decoder'.stage = decoder.stage /\ (reply' # reply => reply' # Dec!Ok("frame"))
<1> SUFFICES ASSUME DecoderInv, [Dec!Next]_(Dec!vars)
             PROVE  DecoderInv' /\ Kept
  OBVIOUS
<1>0. /\ Dec!Ok("selected") \in Replies /\ Dec!Ok("done") \in Replies /\ Dec!Error("IO_error") \in Replies
      /\ Dec!Error("Not_implemented") \in Replies /\ Dec!Error("Invalid_internal_state") \in Replies
      /\ Dec!Ok("done") # Dec!Ok("frame") /\ Dec!Error("Invalid_internal_state") # Dec!Ok("frame")
  BY DEF Dec!Ok, Dec!Error, Replies
<1>1. CASE UNCHANGED Dec!vars
  <2>1. UNCHANGED <<image, kind, decoder, reply>>
    BY <1>1 DEF Dec!vars
  <2> QED BY <2>1 DEF DecoderInv, Sane, Dec!Eighths
<1>2. CASE Dec!Select
  <2>1. UNCHANGED <<image, decoder>> /\ decoder = NULL /\ kind' \in {"jpeg", "png", NULL}
    BY <1>2 DEF Dec!Select, DecoderInv
  <2>2. reply' \in Replies
    BY <1>0, <1>2 DEF Dec!Select
  <2> QED BY <2>1, <2>2 DEF DecoderInv
<1>3. CASE Dec!Initialize
  <2>1. decoder = NULL /\ decoder' = Dec!Fresh(NoHints) /\ UNCHANGED <<image, kind>> /\ kind # NULL
        /\ reply' = Dec!Ok("done")
    BY <1>3 DEF Dec!Initialize
  <2>2. NoHints \in Hints
    <3>1. Dec!DecoderAssumption
      BY NativeAssumption
    <3> QED BY <3>1 DEF Dec!DecoderAssumption
  <2>3. decoder' \in DecoderStates /\ decoder'.stage = "NotStarted" /\ decoder'.library = "null"
    BY <2>1, <2>2 DEF DecoderStates, Dec!Fresh
  <2>4. Sane(decoder)'
    BY <2>3 DEF Sane
  <2> QED BY <2>1, <2>4 DEF DecoderInv, Dec!Ok, Replies
<1>4. ASSUME NEW h \in Hints, Dec!SetDownscaleHints(h)
      PROVE  DecoderInv' /\ Kept
  <2>1. /\ UNCHANGED <<image, kind>> /\ reply' \in Replies /\ reply' # Dec!Ok("frame")
        /\ \/ UNCHANGED decoder
           \/ decoder # NULL /\ decoder' = [decoder EXCEPT !.hints = h]
    BY <1>0, <1>4 DEF Dec!SetDownscaleHints
  <2>2. CASE UNCHANGED decoder
    BY <2>1, <2>2 DEF DecoderInv, Sane, Dec!Eighths
  <2>3. CASE decoder # NULL /\ decoder' = [decoder EXCEPT !.hints = h]
    <3>1. Sane(decoder) /\ kind \in {"jpeg", "png"}
      BY <2>3 DEF DecoderInv
    <3>2. /\ decoder' \in DecoderStates /\ decoder'.stage = decoder.stage /\ decoder'.library = decoder.library
          /\ decoder'.w = decoder.w /\ decoder'.h = decoder.h /\ decoder'.num = decoder.num
      BY <2>3, <3>1 DEF Sane, DecoderStates
    <3>3. Sane(decoder)'
      BY <2>1, <3>1, <3>2 DEF Sane, Dec!Eighths
    <3> QED BY <2>1, <3>1, <3>2, <3>3 DEF DecoderInv
  <2> QED BY <2>1, <2>2, <2>3
<1>5. ASSUME Dec!InUse, NEW x, EndsWell(decoder, x), decoder' = x.decoder, reply' = x.reply,
             UNCHANGED <<image, kind>>
      PROVE  DecoderInv' /\ Kept
  BY <1>5, AnswersEndWell
<1>6. Dec!InUse => image \in Images /\ kind \in {"jpeg", "png"} /\ Sane(decoder) /\ decoder.stage # "Undefined"
  BY DEF Dec!InUse, DecoderInv
<1>7. CASE Dec!GetInfo
  <2>1. Dec!InUse
    BY <1>7 DEF Dec!GetInfo
  <2>2. PICK x \in Dec!Announce(decoder) : decoder' = x.decoder /\ reply' = x.reply /\ UNCHANGED <<image, kind>>
    BY <1>7 DEF Dec!GetInfo, Dec!Answers
  <2>3. EndsWell(decoder, x)
    BY <1>6, <2>1, AnnounceEnds
  <2> QED BY <1>5, <2>1, <2>2, <2>3
<1>8. CASE Dec!ExecuteReadFrame
  <2>1. Dec!InUse
    BY <1>8 DEF Dec!ExecuteReadFrame
  <2>2. CASE \E x \in Dec!Announce(decoder) :
               x.reply.ok /\ decoder' = x.decoder /\ reply' = Dec!Error("Out_of_memory") /\ UNCHANGED <<image, kind>>
    <3>1. PICK x \in Dec!Announce(decoder) :
            x.reply.ok /\ decoder' = x.decoder /\ reply' = Dec!Error("Out_of_memory") /\ UNCHANGED <<image, kind>>
      BY <2>2
    <3> DEFINE y == Dec!Ends(x.decoder, Dec!Error("Out_of_memory"))
    <3>2. EndsWell(decoder, x)
      BY <1>6, <2>1, AnnounceEnds
    <3>3. EndsWell(decoder, y) /\ decoder' = y.decoder /\ reply' = y.reply
      BY <3>1, <3>2 DEF EndsWell, Dec!Ends, Dec!Error, Dec!Ok, Replies
    <3> HIDE DEF y
    <3> QED BY <1>5, <2>1, <3>1, <3>3
  <2>3. CASE Dec!Answers(UNION {IF x.reply.ok THEN Dec!ReadInto(x.decoder, x.decoder.w, x.decoder.h) ELSE {x}
                                : x \in Dec!Announce(decoder)})
    <3>1. PICK y \in UNION {IF x.reply.ok THEN Dec!ReadInto(x.decoder, x.decoder.w, x.decoder.h) ELSE {x}
                            : x \in Dec!Announce(decoder)} :
            decoder' = y.decoder /\ reply' = y.reply /\ UNCHANGED <<image, kind>>
      BY <2>3 DEF Dec!Answers
    <3>2. PICK x \in Dec!Announce(decoder) :
            y \in IF x.reply.ok THEN Dec!ReadInto(x.decoder, x.decoder.w, x.decoder.h) ELSE {x}
      BY <3>1
    <3>3. CASE x.reply.ok
      <4>1. y \in Dec!ReadInto(x.decoder, x.decoder.w, x.decoder.h)
        BY <3>2, <3>3
      <4>2. EndsWell(decoder, y)
        BY <1>6, <2>1, <3>3, <4>1, ReadEnds
      <4> QED BY <1>5, <2>1, <3>1, <4>2
    <3>4. CASE ~x.reply.ok
      <4>1. y = x
        BY <3>2, <3>4
      <4>2. EndsWell(decoder, y)
        BY <1>6, <2>1, <4>1, AnnounceEnds
      <4> QED BY <1>5, <2>1, <3>1, <4>2
    <3> QED BY <3>3, <3>4
  <2> QED BY <1>8, <2>2, <2>3 DEF Dec!ExecuteReadFrame
<1>9. CASE Dec!Cleanup
  BY <1>9 DEF Dec!Cleanup, DecoderInv, Dec!Ok, Replies
<1>10. CASE Dec!Over
  <2>1. UNCHANGED Dec!vars
    BY <1>10 DEF Dec!Over
  <2> QED BY <1>1, <2>1
<1> QED BY <1>1, <1>2, <1>3, <1>4, <1>7, <1>8, <1>9, <1>10 DEF Dec!Next

\* A decoder that is not driven into what is not defined decodes one frame at most, of
\* the size it last announced, whatever hints and failures came before; its library's
\* structures are there exactly when they are needed; and a frame is never refused for
\* its size (codecs_jpeg.c:425-669, 830-947, codecs_png.c:45-89).
THEOREM FrameIsAsAnnounced ==
  ASSUME ~Crashes
  PROVE  NativeSafety => DecodedAsAnnounced
<1>1. NativeInit => DecoderInv
  BY NativeParts, DecoderBegins
<1>2. DecoderInv /\ [NativeNext]_nativeVars =>
        /\ DecoderInv'
        /\ [decoder # NULL /\ decoder' # NULL /\ decoder.stage \in {"Failed", "FinishRead"} =>
              decoder'.stage = decoder.stage /\ (reply' # reply => reply' # Dec!Ok("frame"))]_(Dec!vars)
  BY NativeParts, DecoderSteps
<1>3. DecoderInv => Dec!LibraryFollowsStage
  <2> SUFFICES ASSUME DecoderInv, Dec!InUse
               PROVE  (decoder.library = "live") = (decoder.stage = "BeginRead")
    BY DEF Dec!LibraryFollowsStage
  <2> QED BY DEF DecoderInv, Sane, Dec!InUse
<1>4. DecoderInv => Dec!AnnouncedIsDecoded
  BY DEF DecoderInv, Sane, Dec!AnnouncedIsDecoded, Dec!InUse
<1>5. DecoderInv => Dec!NeverMisfits
  BY DEF DecoderInv, Replies, Dec!NeverMisfits
<1> QED BY <1>1, <1>2, <1>3, <1>4, <1>5, PTL DEF NativeSafety, DecodedAsAnnounced, Dec!OneFrame

-----------------------------------------------------------------------------
\* An io.
IoStates ==
  [kind : {"obuf"}, buffer : Seq(Byte) \cup {NULL}, length : Nat, uncleared : Nat, cursor : Nat]
  \cup [kind : {"memory"}, buffer : Seq(Byte), length : Nat, cursor : Nat]
  \cup [kind : {"file"}, buffer : Seq(Byte), fp : Nat, cursor : Nat]

\* What is in an io: the bytes written or found there.
Bytes(b) == IF b = NULL THEN <<>> ELSE b
Content(x) == Bytes(x.buffer)

\* The cursor of an io is in what is there; that is no longer than the model looks at.
IoSound(x) ==
  /\ x \in IoStates /\ x.kind \in Kinds
  /\ x.kind = "obuf"   => /\ x.cursor <= x.uncleared /\ x.uncleared <= x.length
                          /\ x.buffer # NULL => Len(x.buffer) = x.uncleared
  /\ x.kind = "memory" => x.cursor <= x.length /\ Len(x.buffer) = x.length /\ x.length <= MaxLength
  /\ x.kind = "file"   => x.cursor = x.fp

\* What a sound io is made of.
LEMMA SoundIsTyped ==
  ASSUME NEW x, IoSound(x)
  PROVE  /\ x.kind \in Kinds /\ x.kind \in {"obuf", "memory", "file"}
         /\ x.buffer \in Seq(Byte) \cup {NULL} /\ x.cursor \in Nat
         /\ Content(x) \in Seq(Byte)
         /\ x.kind # "obuf" => x.buffer \in Seq(Byte) /\ Content(x) = x.buffer
         /\ CASE x.kind = "obuf"   -> /\ x.cursor <= x.uncleared /\ x.uncleared <= x.length
                                      /\ x.buffer = NULL \/ Len(x.buffer) = x.uncleared
              [] x.kind = "memory" -> x.cursor <= x.length /\ Len(x.buffer) = x.length
              [] x.kind = "file"   -> x.cursor = x.fp
<1>1. NULL \notin Seq(Byte)
  <2>1. Io!IoAssumption
    BY NativeAssumption
  <2> QED BY <2>1 DEF Io!IoAssumption
<1>2. CASE x \in [kind : {"obuf"}, buffer : Seq(Byte) \cup {NULL}, length : Nat, uncleared : Nat, cursor : Nat]
  <2>1. x.kind = "obuf" /\ x.buffer \in Seq(Byte) \cup {NULL} /\ x.cursor \in Nat
    BY <1>2
  <2>2. Content(x) \in Seq(Byte)
    BY <2>1 DEF Content, Bytes
  <2> QED BY <2>1, <2>2 DEF IoSound
<1>3. CASE x \in [kind : {"memory"}, buffer : Seq(Byte), length : Nat, cursor : Nat]
  BY <1>1, <1>3 DEF IoSound, Content, Bytes
<1>4. CASE x \in [kind : {"file"}, buffer : Seq(Byte), fp : Nat, cursor : Nat]
  BY <1>1, <1>4 DEF IoSound, Content, Bytes
<1> QED BY <1>2, <1>3, <1>4 DEF IoSound, IoStates

\* What is stored at the cursor, at the most at the end of what is there.
Longer(s, p, data) == IF p + Len(data) > Len(s) THEN p + Len(data) ELSE Len(s)

\* Storing bytes in a buffer overwrites the stream.
LEMMA StoredIs ==
  ASSUME NEW b, Bytes(b) \in Seq(Byte), NEW p \in Nat, NEW data \in Seq(Byte), p <= Len(Bytes(b))
  PROVE  /\ Io!Stored(b, p, data) \in Seq(Byte) /\ Io!Stored(b, p, data) # NULL
         /\ Len(Io!Stored(b, p, data)) = Longer(Bytes(b), p, data)
         /\ Io!Stored(b, p, data) = Io!Stream!Overwritten(Bytes(b), p, data)
<1> DEFINE old == Bytes(b)
           s == Io!Stored(b, p, data)
           n == IF p + Len(data) > Len(old) THEN p + Len(data) ELSE Len(old)
<1>1. NULL \notin Seq(Byte)
  <2>1. Io!IoAssumption
    BY NativeAssumption
  <2> QED BY <2>1 DEF Io!IoAssumption
<1>2. Len(old) \in Nat /\ old \in Seq(Byte) /\ p <= Len(old)
  OBVIOUS
<1>0. old = IF b = NULL THEN <<>> ELSE b
  BY DEF Bytes
<1> HIDE DEF old
<1>3. Io!Greater(Len(old), p + Len(data)) = n /\ n \in Nat
  BY <1>2 DEF Io!Greater
<1>4. s = [i \in 1 .. n |-> IF i \in p + 1 .. p + Len(data) THEN data[i - p] ELSE old[i]]
  BY <1>0, <1>3 DEF Io!Stored
<1>5. \A i \in 1 .. n : (IF i \in p + 1 .. p + Len(data) THEN data[i - p] ELSE old[i]) \in Byte
  <2>2. SUFFICES ASSUME NEW i \in 1 .. n
                 PROVE  (IF i \in p + 1 .. p + Len(data) THEN data[i - p] ELSE old[i]) \in Byte
    OBVIOUS
  <2>3. CASE i \in p + 1 .. p + Len(data)
    <3>1. i - p \in 1 .. Len(data)
      BY <2>3
    <3> QED BY <2>3, <3>1, ElementOfSeq
  <2>4. CASE i \notin p + 1 .. p + Len(data)
    <3>1. i \in 1 .. Len(old)
      BY <1>2, <2>4
    <3> QED BY <1>2, <2>4, <3>1, ElementOfSeq
  <2> QED BY <2>3, <2>4
<1>6. s \in [1 .. n -> Byte]
  <2> HIDE DEF s, n
  <2> QED BY <1>4, <1>5
<1> HIDE DEF s, n
<1>7. s \in Seq(Byte) /\ Len(s) = n
  BY <1>3, <1>6
<1>8. s = Io!Stream!Overwritten(old, p, data)
  BY <1>4 DEF Io!Stream!Overwritten, n
<1> QED BY <1>1, <1>7, <1>8 DEF s, n, Longer, old

\* Sequences of bounded length are those that are short.
LEMMA BoundedAreShort ==
  ASSUME NEW S, NEW n \in Nat
  PROVE  \A s : s \in Io!BoundedSeq(S, n) <=> s \in Seq(S) /\ Len(s) <= n
<1>1. ASSUME NEW s, s \in Io!BoundedSeq(S, n)
      PROVE  s \in Seq(S) /\ Len(s) <= n
  <2>1. PICK m \in 0 .. n : s \in [1 .. m -> S]
    BY <1>1 DEF Io!BoundedSeq, Io!SeqOf
  <2> QED BY <2>1
<1>2. ASSUME NEW s \in Seq(S), Len(s) <= n
      PROVE  s \in Io!BoundedSeq(S, n)
  <2>1. Len(s) \in 0 .. n /\ s \in [1 .. Len(s) -> S]
    BY <1>2
  <2> QED BY <2>1 DEF Io!BoundedSeq, Io!SeqOf
<1> QED BY <1>1, <1>2

\* A new output buffer is sound.
LEMMA NewObufIsSound ==
  ASSUME "obuf" \in Kinds
  PROVE  IoSound(Io!NewObuf)
BY DEF Io!NewObuf, IoSound, IoStates

\* New memory and a new file are sound.
LEMMA NewIoIsSound ==
  ASSUME NEW s \in Seq(Byte), Len(s) <= MaxLength
  PROVE  /\ "memory" \in Kinds => IoSound(Io!NewMemory(s))
         /\ "file" \in Kinds => IoSound(Io!NewFile(s))
<1>1. "memory" \in Kinds => IoSound(Io!NewMemory(s))
  BY DEF Io!NewMemory, IoSound, IoStates
<1>2. "file" \in Kinds => IoSound(Io!NewFile(s))
  BY DEF Io!NewFile, IoSound, IoStates
<1> QED BY <1>1, <1>2

\* An output buffer that has not been lost holds what has been written.
Kept(x) == x.kind = "obuf" /\ x.buffer = NULL => x.uncleared = 0

\* y is x, but for where it is.
IsMoved(x, y, p) ==
  IoSound(y) /\ y.kind = x.kind /\ y.buffer = x.buffer /\ y.cursor = p /\ (Kept(x) => Kept(y))

\* Seeking moves the cursor and nothing else.
LEMMA Moves ==
  ASSUME NEW x, IoSound(x), NEW p \in Nat, Io!CanSeek(x, p)
  PROVE  IsMoved(x, Io!Sought(x, p), p)
<1>1. CASE x \in [kind : {"obuf"}, buffer : Seq(Byte) \cup {NULL}, length : Nat, uncleared : Nat, cursor : Nat]
  BY <1>1 DEF IsMoved, IoSound, IoStates, Kept, Io!Sought, Io!CanSeek
<1>2. CASE x \in [kind : {"memory"}, buffer : Seq(Byte), length : Nat, cursor : Nat]
  BY <1>2 DEF IsMoved, IoSound, IoStates, Kept, Io!Sought, Io!CanSeek
<1>3. CASE x \in [kind : {"file"}, buffer : Seq(Byte), fp : Nat, cursor : Nat]
  BY <1>3 DEF IsMoved, IoSound, IoStates, Kept, Io!Sought, Io!CanSeek
<1> QED BY <1>1, <1>2, <1>3 DEF IoSound, IoStates

\* How much there is to read, and that a kept io has it.
LEMMA RemainingIs ==
  ASSUME NEW x, IoSound(x), Kept(x)
  PROVE  /\ Io!Remaining(x) = Len(Content(x)) - x.cursor
         /\ Len(Content(x)) \in Nat
         /\ x.kind # "file" => x.cursor <= Len(Content(x))
<1>1. NULL \notin Seq(Byte)
  <2>1. Io!IoAssumption
    BY NativeAssumption
  <2> QED BY <2>1 DEF Io!IoAssumption
<1>2. CASE x \in [kind : {"obuf"}, buffer : Seq(Byte) \cup {NULL}, length : Nat, uncleared : Nat, cursor : Nat]
  <2>1. Len(<<>>) = 0
    OBVIOUS
  <2>2. Len(Content(x)) = x.uncleared
    BY <1>2, <2>1 DEF Content, Bytes, Kept, IoSound
  <2> QED BY <1>2, <2>2 DEF IoSound, Io!Remaining
<1>3. CASE x \in [kind : {"memory"}, buffer : Seq(Byte), length : Nat, cursor : Nat]
  BY <1>1, <1>3 DEF IoSound, Content, Bytes, Io!Remaining
<1>4. CASE x \in [kind : {"file"}, buffer : Seq(Byte), fp : Nat, cursor : Nat]
  BY <1>1, <1>4 DEF IoSound, Content, Bytes, Io!Remaining
<1> QED BY <1>2, <1>3, <1>4 DEF IoSound, IoStates

\* Reading gets what there is from the cursor on, up to count, and goes after it.
LEMMA ReadGets ==
  ASSUME NEW x, IoSound(x), Kept(x), NEW count \in Nat
  PROVE  LET g == Io!ReadFrom(x, count)
             s == Content(x)
             end == IF x.cursor + count < Len(s) THEN x.cursor + count ELSE Len(s)
         IN  /\ g = SubSeq(s, x.cursor + 1, end) /\ g \in Seq(Byte)
             /\ Len(g) = IF x.cursor < end THEN end - x.cursor ELSE 0
             /\ IsMoved(x, Io!AfterRead(x, Len(g)), x.cursor + Len(g))
<1> DEFINE g == Io!ReadFrom(x, count)
           s == Content(x)
           end == IF x.cursor + count < Len(s) THEN x.cursor + count ELSE Len(s)
           n == Io!Allowed(x, count)
<1>1. s \in Seq(Byte) /\ x.cursor \in Nat /\ Len(s) \in Nat
  BY SoundIsTyped, RemainingIs
<1>2. n = IF x.cursor < end THEN end - x.cursor ELSE 0
  <2>1. Io!Remaining(x) = Len(s) - x.cursor
    BY RemainingIs
  <2> HIDE DEF s
  <2> QED BY <1>1, <2>1 DEF Io!Allowed, Io!Lesser, Io!Greater
<1>3. n \in Nat /\ end \in Nat /\ end <= Len(s)
  <2> HIDE DEF n, s
  <2> QED BY <1>1, <1>2
<1>4. n # 0 => s = x.buffer
  <2>1. n # 0 => Len(s) # 0
    <3> HIDE DEF n, s
    <3> QED BY <1>1, <1>2
  <2>2. Len(<<>>) = 0
    OBVIOUS
  <2> HIDE DEF n
  <2> QED BY <2>1, <2>2 DEF Content, Bytes
<1>5. g = SubSeq(s, x.cursor + 1, end)
  <2>1. CASE n = 0
    <3>1. g = <<>>
      BY <2>1 DEF Io!ReadFrom
    <3>2. end < x.cursor + 1
      <4> HIDE DEF n, s
      <4> QED BY <1>1, <1>2, <2>1
    <3> HIDE DEF g, s, end
    <3> QED BY <1>1, <1>3, <3>1, <3>2, SubSeqEmpty
  <2>2. CASE n # 0
    <3>1. g = SubSeq(x.buffer, x.cursor + 1, x.cursor + n)
      BY <2>2 DEF Io!ReadFrom
    <3>2. x.cursor + n = end
      <4> HIDE DEF n, s
      <4> QED BY <1>1, <1>2, <1>3, <2>2
    <3> HIDE DEF g, s, end, n
    <3> QED BY <1>4, <2>2, <3>1, <3>2
  <2> QED BY <2>1, <2>2
<1> HIDE DEF g
<1>6. g \in Seq(Byte) /\ Len(g) = n
  <2>1. \A i \in x.cursor + 1 .. end : s[i] \in Byte
    <3> HIDE DEF s
    <3> QED BY <1>1, <1>3, ElementOfSeq
  <2>2. x.cursor + 1 \in Int /\ end \in Int
    <3> HIDE DEF s, end
    <3> QED BY <1>1, <1>3
  <2> HIDE DEF n, s, end
  <2>3. /\ SubSeq(s, x.cursor + 1, end) \in Seq(Byte)
        /\ Len(SubSeq(s, x.cursor + 1, end)) = IF x.cursor + 1 <= end THEN end - (x.cursor + 1) + 1 ELSE 0
    BY <2>1, <2>2, SubSeqProperties
  <2> QED BY <1>1, <1>2, <1>3, <1>5, <2>3
<1>7. IsMoved(x, Io!AfterRead(x, n), x.cursor + n)
  <2>0. x.kind # "file" => x.cursor + n <= Len(s)
    <3>1. x.kind # "file" => x.cursor <= Len(s)
      BY RemainingIs
    <3> HIDE DEF n, s
    <3> QED BY <1>1, <1>2, <1>3, <3>1
  <2>1. Io!CanSeek(x, x.cursor + n)
    <3>1. x.kind \in {"obuf", "memory", "file"}
      BY SoundIsTyped
    <3>2. Io!Remaining(x) = Len(s) - x.cursor
      BY RemainingIs
    <3>3. x.kind = "obuf" => x.cursor + n <= x.uncleared
      <4>1. x.kind = "obuf" => x.uncleared \in Nat /\ Io!Remaining(x) = x.uncleared - x.cursor
        BY DEF IoSound, IoStates, Io!Remaining
      <4> HIDE DEF n, s
      <4> QED BY <1>1, <1>3, <2>0, <3>2, <4>1
    <3>4. x.kind = "memory" => x.cursor + n <= x.length
      <4>1. x.kind = "memory" => x.length \in Nat /\ Io!Remaining(x) = x.length - x.cursor
        BY DEF IoSound, IoStates, Io!Remaining
      <4> HIDE DEF n, s
      <4> QED BY <1>1, <1>3, <2>0, <3>2, <4>1
    <3>5. x.cursor + n >= 0
      <4> HIDE DEF n, s
      <4> QED BY <1>1, <1>3
    <3> HIDE DEF n, s
    <3> DEFINE p == x.cursor + n
    <3>6. p >= 0 /\ (x.kind = "obuf" => p <= x.uncleared) /\ (x.kind = "memory" => p <= x.length)
      BY <3>3, <3>4, <3>5
    <3> HIDE DEF p
    <3>7. Io!CanSeek(x, p)
      BY <3>1, <3>6 DEF Io!CanSeek
    <3> QED BY <3>7 DEF p
  <2>2. Io!AfterRead(x, n) = Io!Sought(x, x.cursor + n)
    <3> HIDE DEF n, s
    <3>1. x.kind = "file" => x.cursor = x.fp
      BY DEF IoSound
    <3>2. CASE x \in [kind : {"obuf"}, buffer : Seq(Byte) \cup {NULL}, length : Nat, uncleared : Nat, cursor : Nat]
      BY <3>2 DEF Io!AfterRead, Io!Sought
    <3>3. CASE x \in [kind : {"memory"}, buffer : Seq(Byte), length : Nat, cursor : Nat]
      BY <3>3 DEF Io!AfterRead, Io!Sought
    <3>4. CASE x \in [kind : {"file"}, buffer : Seq(Byte), fp : Nat, cursor : Nat]
      BY <3>1, <3>4 DEF Io!AfterRead, Io!Sought
    <3> QED BY <3>2, <3>3, <3>4 DEF IoSound, IoStates
  <2>3. x.cursor + n \in Nat
    <3> HIDE DEF n, s
    <3> QED BY <1>1, <1>3
  <2> HIDE DEF n, s
  <2> QED BY <2>1, <2>2, <2>3, Moves
<1> QED BY <1>2, <1>5, <1>6, <1>7 DEF g

\* Writing stores the bytes at the cursor and goes after them.
IsWritten(x, y, data) ==
  LET s == Content(x)
  IN  /\ IoSound(y) /\ y.kind = x.kind /\ y.cursor = x.cursor + Len(data) /\ y.buffer # NULL
      /\ y.buffer = Io!Stream!Overwritten(s, x.cursor, data) /\ Len(y.buffer) = Longer(s, x.cursor, data)

\* Writing to an output buffer is writing to its stream, as it grows.
LEMMA ObufWrites ==
  ASSUME NEW x, IoSound(x), Kept(x), x.kind = "obuf", NEW data \in Seq(Byte)
  PROVE  IsWritten(x, Io!ObufWritten(x, data), data)
<1> DEFINE b == x.buffer
           p == x.cursor
           s == Content(x)
           n == Longer(s, p, data)
           stored == Io!Stored(b, p, data)
           y == Io!ObufWritten(x, data)
           size == IF Io!MustGrow(x, Len(data)) THEN Io!NewLength(x, Len(data)) ELSE x.length
<1>1. /\ x \in [kind : {"obuf"}, buffer : Seq(Byte) \cup {NULL}, length : Nat, uncleared : Nat, cursor : Nat]
      /\ x.cursor <= x.uncleared /\ x.uncleared <= x.length
  BY DEF IoSound, IoStates
<1>2. s \in Seq(Byte) /\ Len(s) = x.uncleared /\ p <= Len(s) /\ p \in Nat /\ Len(s) \in Nat /\ Len(data) \in Nat
  <2>1. Io!Remaining(x) = Len(s) - x.cursor /\ Len(s) \in Nat /\ x.cursor <= Len(s)
    BY RemainingIs
  <2>2. Io!Remaining(x) = x.uncleared - x.cursor
    BY DEF Io!Remaining
  <2>3. s \in Seq(Byte)
    BY SoundIsTyped
  <2> HIDE DEF s
  <2> QED BY <1>1, <2>1, <2>2, <2>3
<1>3. /\ stored \in Seq(Byte) /\ stored # NULL /\ Len(stored) = n
      /\ stored = Io!Stream!Overwritten(s, p, data)
  <2>1. s = Bytes(b)
    BY DEF Content
  <2>2. s \in Seq(Byte) /\ p \in Nat /\ p <= Len(s)
    BY <1>2
  <2> HIDE DEF b, p, s
  <2> QED BY <2>1, <2>2, StoredIs
<1> HIDE DEF stored, s
<1>4. size \in Nat /\ size >= p + Len(data) /\ size >= x.length
  <2>1. MinGrowth \in Nat
    <3>1. Io!IoAssumption
      BY NativeAssumption
    <3> QED BY <3>1 DEF Io!IoAssumption
  <2>2. x.length \in Nat
    BY <1>1
  <2>3. Io!NewLength(x, Len(data)) \in Nat /\ Io!NewLength(x, Len(data)) >= p + Len(data)
    <3>1. PICK k \in Nat : k = x.length
      BY <2>2
    <3>2. PICK half \in Int : half = (k * 3) \div 2
      OBVIOUS
    <3>3. PICK m \in Nat : m = p + Len(data)
      BY <1>2
    <3>4. Io!NewLength(x, Len(data)) = Io!Greater(MinGrowth, IF m < half THEN half + 1 ELSE m)
      BY <3>1, <3>2, <3>3 DEF Io!NewLength
    <3> QED BY <2>1, <3>2, <3>3, <3>4 DEF Io!Greater
  <2>4. Io!MustGrow(x, Len(data)) <=> x.length - p < Len(data)
    BY DEF Io!MustGrow
  <2> QED BY <1>2, <2>2, <2>3, <2>4
<1>5. Io!Greater(x.uncleared, p + Len(data)) = n /\ n \in Nat
  BY <1>1, <1>2 DEF Io!Greater, Longer
<1>6. y = [x EXCEPT !.length = size, !.buffer = stored, !.cursor = p + Len(data), !.uncleared = n]
  <2>1. y = [x EXCEPT !.length = IF Io!MustGrow(x, Len(data)) THEN Io!NewLength(x, Len(data)) ELSE @,
                      !.buffer = Io!Stored(@, x.cursor, data),
                      !.cursor = x.cursor + Len(data),
                      !.uncleared = Io!Greater(@, x.cursor + Len(data))]
    BY DEF Io!ObufWritten
  <2> HIDE DEF y, n
  <2> QED BY <1>1, <1>5, <2>1 DEF stored
<1> HIDE DEF y, n, size
<1>7. /\ y \in IoStates /\ y.kind = "obuf" /\ y.length = size /\ y.buffer = stored /\ y.cursor = p + Len(data)
      /\ y.uncleared = n
  <2> DEFINE O == [kind : {"obuf"}, buffer : Seq(Byte) \cup {NULL}, length : Nat, uncleared : Nat, cursor : Nat]
             q == p + Len(data)
  <2>1. q \in Nat
    BY <1>2
  <2>2. y = [x EXCEPT !.length = size, !.buffer = stored, !.cursor = q, !.uncleared = n]
    BY <1>6
  <2> HIDE DEF q, p, b
  <2>3. /\ y \in O /\ y.kind = "obuf" /\ y.length = size /\ y.buffer = stored /\ y.cursor = q /\ y.uncleared = n
    BY <1>1, <1>3, <1>4, <1>5, <2>1, <2>2
  <2> QED BY <2>3 DEF IoStates, q
<1>8. n <= size /\ p + Len(data) <= n
  BY <1>1, <1>2, <1>4 DEF n, Longer
<1>9. IoSound(y)
  BY <1>3, <1>7, <1>8 DEF IoSound
<1> QED BY <1>3, <1>7, <1>9 DEF IsWritten, y, n, s

\* Writing to memory is writing to its stream.
LEMMA MemoryWrites ==
  ASSUME NEW x, IoSound(x), x.kind = "memory", NEW data \in Seq(Byte), x.cursor + Len(data) <= x.length
  PROVE  IsWritten(x, [x EXCEPT !.buffer = Io!Stored(@, x.cursor, data), !.cursor = @ + Len(data)], data)
<1> DEFINE s == Content(x)
           p == x.cursor
           stored == Io!Stored(x.buffer, p, data)
           q == p + Len(data)
           y == [x EXCEPT !.buffer = Io!Stored(@, x.cursor, data), !.cursor = @ + Len(data)]
           M == [kind : {"memory"}, buffer : Seq(Byte), length : Nat, cursor : Nat]
<1>1. x \in M /\ x.cursor <= x.length /\ Len(x.buffer) = x.length /\ x.length <= MaxLength
  BY DEF IoSound, IoStates
<1>2. s = x.buffer /\ s = Bytes(x.buffer) /\ s \in Seq(Byte) /\ p \in Nat /\ p <= Len(s) /\ q \in Nat
  <2>1. s = x.buffer /\ s \in Seq(Byte)
    BY <1>1, SoundIsTyped
  <2>2. s = Bytes(x.buffer)
    BY DEF Content
  <2>3. p \in Nat /\ p <= Len(x.buffer)
    BY <1>1
  <2> HIDE DEF s, p
  <2> QED BY <2>1, <2>2, <2>3
<1>3. /\ stored \in Seq(Byte) /\ stored # NULL /\ Len(stored) = Longer(s, p, data)
      /\ stored = Io!Stream!Overwritten(s, p, data)
  <2> HIDE DEF s, p
  <2> QED BY <1>2, StoredIs
<1>4. Len(stored) = x.length
  BY <1>1, <1>2, <1>3 DEF Longer
<1>5. y = [x EXCEPT !.buffer = stored, !.cursor = q]
  BY <1>1
<1> HIDE DEF y, stored, q
<1>6. y \in M /\ y.kind = x.kind /\ y.buffer = stored /\ y.length = x.length /\ y.cursor = q
  BY <1>1, <1>2, <1>3, <1>5
<1>7. q <= x.length
  BY DEF q
<1>8. IoSound(y)
  BY <1>1, <1>4, <1>6, <1>7 DEF IoSound, IoStates
<1> QED BY <1>3, <1>6, <1>8 DEF IsWritten, y, q

\* Writing to a file is writing to its stream.
LEMMA FileWrites ==
  ASSUME NEW x, IoSound(x), x.kind = "file", NEW data \in Seq(Byte), x.fp <= Len(x.buffer)
  PROVE  IsWritten(x, Io!FileWritten(x, data), data)
<1> DEFINE s == Content(x)
           p == x.cursor
           stored == Io!Stored(x.buffer, p, data)
           q == p + Len(data)
           y == Io!FileWritten(x, data)
           F == [kind : {"file"}, buffer : Seq(Byte), fp : Nat, cursor : Nat]
<1>1. x \in F /\ x.cursor = x.fp
  BY DEF IoSound, IoStates
<1>2. s = x.buffer /\ s = Bytes(x.buffer) /\ s \in Seq(Byte) /\ p \in Nat /\ p <= Len(s) /\ q \in Nat
  <2>1. s = x.buffer /\ s \in Seq(Byte)
    BY <1>1, SoundIsTyped
  <2>2. s = Bytes(x.buffer)
    BY DEF Content
  <2>3. p \in Nat /\ p <= Len(x.buffer)
    BY <1>1
  <2> HIDE DEF s, p
  <2> QED BY <2>1, <2>2, <2>3
<1>3. /\ stored \in Seq(Byte) /\ stored # NULL /\ Len(stored) = Longer(s, p, data)
      /\ stored = Io!Stream!Overwritten(s, p, data)
  <2> HIDE DEF s, p
  <2> QED BY <1>2, StoredIs
<1>4. y = [x EXCEPT !.buffer = stored, !.fp = q, !.cursor = q]
  BY <1>1 DEF Io!FileWritten
<1> HIDE DEF y, stored, q
<1>5. y \in F /\ y.kind = x.kind /\ y.buffer = stored /\ y.fp = q /\ y.cursor = q
  BY <1>1, <1>2, <1>3, <1>4
<1>6. IoSound(y)
  BY <1>5 DEF IoSound, IoStates
<1> QED BY <1>3, <1>5, <1>6 DEF IsWritten, y, q

-----------------------------------------------------------------------------
\* What the io of CIo is as a stream.
StreamOf(x) ==
  CASE x.kind = "obuf" -> IF x.buffer = NULL THEN <<>> ELSE SubSeq(x.buffer, 1, x.uncleared)
    [] x.kind # "obuf" -> x.buffer

\* The stream that is seen is the content.
LEMMA StreamIs ==
  ASSUME NEW x, IoSound(x)
  PROVE  StreamOf(x) = Content(x)
<1>1. CASE x.kind = "obuf" /\ x.buffer # NULL
  <2>1. x.buffer \in Seq(Byte) /\ x.uncleared = Len(x.buffer)
    BY <1>1, SoundIsTyped DEF IoSound
  <2>2. SubSeq(x.buffer, 1, x.uncleared) = x.buffer
    BY <2>1, SubSeqFull
  <2> QED BY <1>1, <2>2 DEF StreamOf, Content, Bytes
<1>2. CASE x.kind = "obuf" /\ x.buffer = NULL
  BY <1>2 DEF StreamOf, Content, Bytes
<1>3. CASE x.kind # "obuf"
  BY <1>3, SoundIsTyped DEF StreamOf
<1> QED BY <1>1, <1>2, <1>3

\* The variables of the stream, and its steps in their terms.
LEMMA StreamSteps ==
  ASSUME StreamOf(io) = Content(io), StreamOf(io)' = Content(io')
  PROVE  /\ Io!Stream!vars = <<Content(io), io.cursor, got>>
         /\ \A n : (/\ got' = SubSeq(Content(io), io.cursor + 1, Io!Stream!Least(io.cursor + n, Len(Content(io))))
                    /\ io'.cursor = io.cursor + Len(got')
                    /\ Content(io') = Content(io)) => Io!Stream!Read(n)
         /\ \A n : (/\ io'.cursor \in {io.cursor + n, Io!Stream!Least(io.cursor + n, Len(Content(io)))}
                    /\ got' = <<>> /\ Content(io') = Content(io)) => Io!Stream!Skip(n)
         /\ \A data : (/\ io.cursor <= Len(Content(io))
                       /\ Content(io') = Io!Stream!Overwritten(Content(io), io.cursor, data)
                       /\ io'.cursor = io.cursor + Len(data)
                       /\ got' = <<>>) => Io!Stream!Write(data)
         /\ \A p : p >= 0 /\ io'.cursor = p /\ got' = <<>> /\ Content(io') = Content(io) => Io!Stream!Seek(p)
         /\ got' = <<>> /\ io'.cursor = io.cursor /\ Content(io') = Content(io) => Io!Stream!Fail
<1>1. Io!Stream!vars = <<StreamOf(io), io.cursor, got>>
  BY DEF Io!Stream!vars, StreamOf
<1>2. \A n : (/\ got' = SubSeq(StreamOf(io), io.cursor + 1, Io!Stream!Least(io.cursor + n, Len(StreamOf(io))))
              /\ io'.cursor = io.cursor + Len(got')
              /\ StreamOf(io)' = StreamOf(io)) => Io!Stream!Read(n)
  BY DEF Io!Stream!Read, StreamOf
<1>3. \A n : (/\ io'.cursor \in {io.cursor + n, Io!Stream!Least(io.cursor + n, Len(StreamOf(io)))}
              /\ got' = <<>> /\ StreamOf(io)' = StreamOf(io)) => Io!Stream!Skip(n)
  BY DEF Io!Stream!Skip, StreamOf
<1>4. \A data : (/\ io.cursor <= Len(StreamOf(io))
                 /\ StreamOf(io)' = Io!Stream!Overwritten(StreamOf(io), io.cursor, data)
                 /\ io'.cursor = io.cursor + Len(data)
                 /\ got' = <<>>) => Io!Stream!Write(data)
  BY DEF Io!Stream!Write, StreamOf
<1>5. \A p : p >= 0 /\ io'.cursor = p /\ got' = <<>> /\ StreamOf(io)' = StreamOf(io) => Io!Stream!Seek(p)
  BY DEF Io!Stream!Seek, StreamOf
<1>6. got' = <<>> /\ io'.cursor = io.cursor /\ StreamOf(io)' = StreamOf(io) => Io!Stream!Fail
  BY DEF Io!Stream!Fail, StreamOf
<1> QED BY <1>1, <1>2, <1>3, <1>4, <1>5, <1>6

IoInv == IoSound(io) /\ Kept(io) /\ error \in BOOLEAN /\ got \in Seq(Byte)

\* An io begins as a stream begins.
LEMMA IoBegins == Io!Init => IoInv /\ Io!Stream!Init
<1> SUFFICES ASSUME Io!Init
             PROVE  IoInv /\ Io!Stream!Init
  OBVIOUS
<1>0. NULL \notin Seq(Byte) /\ MaxLength \in Nat
  <2>1. Io!IoAssumption
    BY NativeAssumption
  <2> QED BY <2>1 DEF Io!IoAssumption
<1>1. error = FALSE /\ got = <<>>
  BY DEF Io!Init
<1>2. <<>> \in Seq(Byte) /\ Len(<<>>) = 0
  OBVIOUS
<1>3. /\ IoSound(io) /\ Kept(io) /\ io.cursor = 0
      /\ Content(io) \in Seq(Byte) /\ Len(Content(io)) <= MaxLength
  <2>1. CASE "obuf" \in Kinds /\ io = Io!NewObuf
    <3>1. IoSound(Io!NewObuf)
      BY <2>1, NewObufIsSound
    <3>2. io.uncleared = 0 /\ io.cursor = 0 /\ Content(io) = <<>>
      BY <2>1 DEF Io!NewObuf, Content, Bytes
    <3> QED BY <1>0, <1>2, <2>1, <3>1, <3>2 DEF Kept
  <2>2. ASSUME NEW s \in Io!BoundedSeq(Byte, MaxLength), "memory" \in Kinds, io = Io!NewMemory(s)
        PROVE  /\ IoSound(io) /\ Kept(io) /\ io.cursor = 0
               /\ Content(io) \in Seq(Byte) /\ Len(Content(io)) <= MaxLength
    <3>1. s \in Seq(Byte) /\ Len(s) <= MaxLength
      BY <1>0, BoundedAreShort
    <3>0. IoSound(Io!NewMemory(s))
      BY <2>2, <3>1, NewIoIsSound
    <3>2. IoSound(io)
      BY <2>2, <3>0
    <3>3. io.kind = "memory" /\ io.cursor = 0 /\ io.buffer = s
      BY <2>2 DEF Io!NewMemory
    <3>4. Content(io) = s
      BY <1>0, <3>1, <3>3 DEF Content, Bytes
    <3> QED BY <3>1, <3>2, <3>3, <3>4 DEF Kept
  <2>3. ASSUME NEW s \in Io!BoundedSeq(Byte, MaxLength), "file" \in Kinds, io = Io!NewFile(s)
        PROVE  /\ IoSound(io) /\ Kept(io) /\ io.cursor = 0
               /\ Content(io) \in Seq(Byte) /\ Len(Content(io)) <= MaxLength
    <3>1. s \in Seq(Byte) /\ Len(s) <= MaxLength
      BY <1>0, BoundedAreShort
    <3>0. IoSound(Io!NewFile(s))
      BY <2>3, <3>1, NewIoIsSound
    <3>2. IoSound(io)
      BY <2>3, <3>0
    <3>3. io.kind = "file" /\ io.cursor = 0 /\ io.buffer = s
      BY <2>3 DEF Io!NewFile
    <3>4. Content(io) = s
      BY <1>0, <3>1, <3>3 DEF Content, Bytes
    <3> QED BY <3>1, <3>2, <3>3, <3>4 DEF Kept
  <2> QED BY <2>1, <2>2, <2>3 DEF Io!Init
<1>4. StreamOf(io) = Content(io)
  BY <1>3, StreamIs
<1>5. Content(io) \in Io!Stream!BoundedSeq(Byte, MaxLength)
  <2>1. Content(io) \in Io!BoundedSeq(Byte, MaxLength)
    BY <1>0, <1>3, BoundedAreShort
  <2> QED BY <2>1 DEF Io!Stream!BoundedSeq, Io!Stream!SeqOf, Io!BoundedSeq, Io!SeqOf
<1>6. Io!Stream!Init
  <2>1. StreamOf(io) \in Io!Stream!BoundedSeq(Byte, MaxLength)
    BY <1>4, <1>5
  <2> QED BY <1>1, <1>3, <2>1 DEF Io!Stream!Init, StreamOf
<1> QED BY <1>1, <1>2, <1>3, <1>6 DEF IoInv

\* A step of the io that keeps it sound is seen as such.
LEMMA SoundAfter ==
  ASSUME IoSound(io), NEW y, y = io', IoSound(y), Kept(y), error' \in BOOLEAN, got' \in Seq(Byte)
  PROVE  IoInv' /\ StreamOf(io) = Content(io) /\ StreamOf(io)' = Content(io')
<1>1. StreamOf(y) = Content(y) /\ StreamOf(io) = Content(io)
  BY StreamIs
<1>2. StreamOf(io)' = Content(io')
  BY <1>1 DEF StreamOf, Content
<1> QED BY <1>1, <1>2 DEF IoInv, IoSound, Kept

\* Every step of an io is a step of a stream or none.
LEMMA IoSteps == IoInv /\ [Io!Next]_(Io!vars) => IoInv' /\ [Io!Stream!Next]_(Io!Stream!vars)
<1> SUFFICES ASSUME IoInv, [Io!Next]_(Io!vars)
             PROVE  IoInv' /\ [Io!Stream!Next]_(Io!Stream!vars)
  OBVIOUS
<1> USE DEF IoInv
<1>0. NULL \notin Seq(Byte) /\ MaxLength \in Nat /\ <<>> \in Seq(Byte)
  <2>1. Io!IoAssumption
    BY NativeAssumption
  <2> QED BY <2>1 DEF Io!IoAssumption
<1>1. CASE UNCHANGED Io!vars
  <2>1. io' = io /\ got' = got /\ error' = error
    BY <1>1 DEF Io!vars
  <2>2. IoInv' /\ UNCHANGED Io!Stream!vars
    BY <2>1 DEF IoSound, Kept, Io!Stream!vars
  <2> QED BY <2>2
<1> DEFINE s == Content(io)
<1>2. s \in Seq(Byte) /\ io.cursor \in Nat /\ Len(s) \in Nat /\ io.kind \in {"obuf", "memory", "file"}
  BY SoundIsTyped, RemainingIs
<1> HIDE DEF s
<1>3. ASSUME NEW n \in 0 .. MaxLength, Io!Read(n)
      PROVE  IoInv' /\ [Io!Stream!Next]_(Io!Stream!vars)
  <2> DEFINE g == Io!ReadFrom(io, n)
             end == IF io.cursor + n < Len(s) THEN io.cursor + n ELSE Len(s)
  <2>1. got' = g /\ io' = Io!AfterRead(io, Len(g)) /\ error' = error
    BY <1>3 DEF Io!Read
  <2>2. /\ g = SubSeq(s, io.cursor + 1, end) /\ g \in Seq(Byte)
        /\ IsMoved(io, Io!AfterRead(io, Len(g)), io.cursor + Len(g))
    BY ReadGets DEF s
  <2> HIDE DEF g
  <2>3. PICK y : y = io'
    OBVIOUS
  <2>4. IsMoved(io, y, io.cursor + Len(g))
    BY <2>1, <2>2, <2>3
  <2>5. IoInv' /\ StreamOf(io) = Content(io) /\ StreamOf(io)' = Content(io')
    BY <2>1, <2>2, <2>3, <2>4, SoundAfter DEF IsMoved
  <2>6. Content(io') = Content(io) /\ io'.cursor = io.cursor + Len(got')
    BY <2>1, <2>3, <2>4 DEF IsMoved, Content
  <2>7. end = Io!Stream!Least(io.cursor + n, Len(s))
    BY DEF Io!Stream!Least
  <2>8. Io!Stream!Read(n)
    BY <2>1, <2>2, <2>5, <2>6, <2>7, StreamSteps DEF s
  <2>9. n \in 0 .. MaxLength + 1
    BY <1>0
  <2> QED BY <2>5, <2>8, <2>9 DEF Io!Stream!Next
<1>4. ASSUME NEW n \in 0 .. MaxLength, Io!Skip(n)
      PROVE  IoInv' /\ [Io!Stream!Next]_(Io!Stream!vars)
  <2> DEFINE k == IF io.kind = "file" THEN n ELSE Io!Allowed(io, n)
  <2>1. io' = Io!Sought(io, io.cursor + k) /\ got' = <<>> /\ error' = error
    BY <1>4 DEF Io!Skip
  <2>2. Io!Remaining(io) = Len(s) - io.cursor /\ (io.kind # "file" => io.cursor <= Len(s))
    BY RemainingIs DEF s
  <2>3. /\ k \in Nat /\ (io.kind # "file" => io.cursor + k <= Len(s))
        /\ io.cursor + k \in {io.cursor + n, Io!Stream!Least(io.cursor + n, Len(s))}
    <3>1. CASE io.kind = "file"
      BY <1>2, <3>1
    <3>2. CASE io.kind # "file"
      <4>1. k = Io!Allowed(io, n)
        BY <3>2
      <4>2. Io!Allowed(io, n) = IF Len(s) - io.cursor < n THEN Len(s) - io.cursor ELSE n
        BY <1>2, <2>2, <3>2 DEF Io!Allowed, Io!Lesser, Io!Greater
      <4>3. k = IF Len(s) - io.cursor < n THEN Len(s) - io.cursor ELSE n
        BY <4>1, <4>2
      <4> HIDE DEF k
      <4> QED BY <1>2, <2>2, <3>2, <4>3 DEF Io!Stream!Least
    <3> QED BY <3>1, <3>2
  <2> HIDE DEF k
  <2>4. Io!CanSeek(io, io.cursor + k)
    <3>1. io.kind = "obuf" => io.uncleared \in Nat /\ Io!Remaining(io) = io.uncleared - io.cursor
      BY DEF IoSound, IoStates, Io!Remaining
    <3>2. io.kind = "memory" => io.length \in Nat /\ Io!Remaining(io) = io.length - io.cursor
      BY DEF IoSound, IoStates, Io!Remaining
    <3> DEFINE p == io.cursor + k
    <3>3. p >= 0 /\ (io.kind = "obuf" => p <= io.uncleared) /\ (io.kind = "memory" => p <= io.length)
      BY <1>2, <2>2, <2>3, <3>1, <3>2
    <3> HIDE DEF p
    <3>4. Io!CanSeek(io, p)
      BY <1>2, <3>3 DEF Io!CanSeek
    <3> QED BY <3>4 DEF p
  <2>5. PICK y : y = io'
    OBVIOUS
  <2>6. IsMoved(io, y, io.cursor + k)
    <3>1. io.cursor + k \in Nat
      BY <1>2, <2>3
    <3> QED BY <2>1, <2>4, <2>5, <3>1, Moves
  <2>7. IoInv' /\ StreamOf(io) = Content(io) /\ StreamOf(io)' = Content(io')
    BY <1>0, <2>1, <2>5, <2>6, SoundAfter DEF IsMoved
  <2>8. Content(io') = Content(io) /\ io'.cursor = io.cursor + k
    BY <2>5, <2>6 DEF IsMoved, Content
  <2>9. Io!Stream!Skip(n)
    BY <2>1, <2>3, <2>7, <2>8, StreamSteps DEF s
  <2>10. n \in 0 .. MaxLength + 1
    BY <1>0
  <2> QED BY <2>7, <2>9, <2>10 DEF Io!Stream!Next
<1>5. ASSUME UNCHANGED io, got' = <<>>, error' \in BOOLEAN
      PROVE  IoInv' /\ [Io!Stream!Next]_(Io!Stream!vars)
  <2>1. PICK y : y = io'
    OBVIOUS
  <2>2. IoInv' /\ StreamOf(io) = Content(io) /\ StreamOf(io)' = Content(io')
    BY <1>0, <1>5, <2>1, SoundAfter
  <2>3. Io!Stream!Fail
    BY <1>5, <2>2, StreamSteps
  <2> QED BY <2>2, <2>3 DEF Io!Stream!Next
<1>6. ASSUME NEW p \in -1 .. MaxLength + 1, Io!Seek(p)
      PROVE  IoInv' /\ [Io!Stream!Next]_(Io!Stream!vars)
  <2>1. CASE Io!CanSeek(io, p)
    <3>1. io' = Io!Sought(io, p) /\ got' = <<>> /\ error' = error
      BY <1>6, <2>1 DEF Io!Seek
    <3>2. p \in Nat
      <4>1. p >= 0
        BY <1>2, <2>1 DEF Io!CanSeek
      <4> QED BY <1>0, <4>1
    <3>3. PICK y : y = io'
      OBVIOUS
    <3>4. IsMoved(io, y, p)
      BY <2>1, <3>1, <3>2, <3>3, Moves
    <3>5. IoInv' /\ StreamOf(io) = Content(io) /\ StreamOf(io)' = Content(io')
      BY <1>0, <3>1, <3>3, <3>4, SoundAfter DEF IsMoved
    <3>6. Content(io') = Content(io) /\ io'.cursor = p
      BY <3>3, <3>4 DEF IsMoved, Content
    <3>7. Io!Stream!Seek(p)
      BY <3>1, <3>2, <3>5, <3>6, StreamSteps
    <3>8. p \in 0 .. MaxLength + 1
      BY <1>0, <3>2
    <3> QED BY <3>5, <3>7, <3>8 DEF Io!Stream!Next
  <2>2. CASE ~Io!CanSeek(io, p)
    BY <1>5, <1>6, <2>2 DEF Io!Seek
  <2> QED BY <2>1, <2>2
<1>7. ASSUME NEW data \in Seq(Byte), IsWritten(io, io', data), got' = <<>>, error' = error,
             io.cursor <= Len(s), Len(data) <= MaxLength
      PROVE  IoInv' /\ [Io!Stream!Next]_(Io!Stream!vars)
  <2>1. PICK y : y = io'
    OBVIOUS
  <2>2. IsWritten(io, y, data)
    BY <1>7, <2>1
  <2>3. /\ IoSound(y) /\ y.buffer # NULL /\ y.cursor = io.cursor + Len(data)
        /\ y.buffer = Io!Stream!Overwritten(s, io.cursor, data)
    BY <2>2 DEF IsWritten, s
  <2>4. Kept(y)
    BY <2>3 DEF Kept
  <2>5. IoInv' /\ StreamOf(io) = Content(io) /\ StreamOf(io)' = Content(io')
    BY <1>0, <1>7, <2>1, <2>3, <2>4, SoundAfter
  <2>6. Content(io') = Io!Stream!Overwritten(s, io.cursor, data) /\ io'.cursor = io.cursor + Len(data)
    BY <2>1, <2>3 DEF Content, Bytes
  <2>7. Io!Stream!Write(data)
    BY <1>7, <2>5, <2>6, StreamSteps DEF s
  <2>8. data \in Io!Stream!BoundedSeq(Byte, MaxLength)
    <3>1. data \in Io!BoundedSeq(Byte, MaxLength)
      BY <1>0, <1>7, BoundedAreShort
    <3> QED BY <3>1 DEF Io!Stream!BoundedSeq, Io!Stream!SeqOf, Io!BoundedSeq, Io!SeqOf
  <2> QED BY <2>5, <2>7, <2>8 DEF Io!Stream!Next
<1>8. ASSUME NEW data \in Io!BoundedSeq(Byte, 2) \ {<<>>}, Io!WriteObuf(data)
      PROVE  IoInv' /\ [Io!Stream!Next]_(Io!Stream!vars)
  <2>1. data \in Seq(Byte) /\ Len(data) \in Nat
    BY BoundedAreShort
  <2>2. io.kind = "obuf" /\ io.cursor + Len(data) <= MaxLength /\ io' = Io!ObufWritten(io, data) /\ error' = error
        /\ got' = <<>>
    BY <1>8 DEF Io!WriteObuf
  <2>3. IsWritten(io, io', data)
    <3>1. IsWritten(io, Io!ObufWritten(io, data), data)
      BY <2>1, <2>2, ObufWrites
    <3> QED BY <2>2, <3>1
  <2>4. io.cursor <= Len(s) /\ Len(data) <= MaxLength
    BY <1>0, <1>2, <2>1, <2>2, RemainingIs DEF s
  <2> QED BY <1>7, <2>1, <2>2, <2>3, <2>4
<1>9. ASSUME NEW data \in Io!BoundedSeq(Byte, 2) \ {<<>>}, Io!WriteMemory(data)
      PROVE  IoInv' /\ [Io!Stream!Next]_(Io!Stream!vars)
  <2>1. data \in Seq(Byte) /\ Len(data) \in Nat
    BY BoundedAreShort
  <2>2. io.kind = "memory" /\ got' = <<>>
    BY <1>9 DEF Io!WriteMemory
  <2>3. CASE io.length - io.cursor > Len(data)
    <3>1. UNCHANGED io /\ error' = TRUE
      BY <1>9, <2>3 DEF Io!WriteMemory
    <3> QED BY <1>5, <2>2, <3>1
  <2>4. CASE ~(io.length - io.cursor > Len(data))
    <3> DEFINE y == [io EXCEPT !.buffer = Io!Stored(@, io.cursor, data), !.cursor = @ + Len(data)]
    <3>1. io.cursor + Len(data) <= io.length /\ io' = y /\ error' = error
      BY <1>9, <2>4 DEF Io!WriteMemory
    <3>2. IsWritten(io, y, data)
      BY <2>1, <2>2, <3>1, MemoryWrites
    <3> HIDE DEF y
    <3>3. io.cursor <= Len(s) /\ Len(data) <= MaxLength
      <4>1. io.length \in Nat /\ io.length <= MaxLength
        BY <2>2 DEF IoSound, IoStates
      <4>2. io.cursor <= Len(s)
        BY <2>2, RemainingIs DEF s
      <4> QED BY <1>0, <1>2, <2>1, <3>1, <4>1, <4>2
    <3> QED BY <1>7, <2>1, <2>2, <3>1, <3>2, <3>3
  <2> QED BY <2>3, <2>4
<1>10. ASSUME NEW data \in Io!BoundedSeq(Byte, 2) \ {<<>>}, Io!WriteFile(data)
       PROVE  IoInv' /\ [Io!Stream!Next]_(Io!Stream!vars)
  <2>1. data \in Seq(Byte) /\ Len(data) \in Nat
    BY BoundedAreShort
  <2>2. io.kind = "file" /\ got' = <<>> /\ io.fp <= Len(io.buffer) /\ io.fp + Len(data) <= MaxLength
        /\ io' = Io!FileWritten(io, SubSeq(data, 1, Len(data))) /\ error' = (Len(data) < Len(data))
    BY <1>10 DEF Io!WriteFile
  <2>3. SubSeq(data, 1, Len(data)) = data /\ error' = FALSE
    <3>1. (Len(data) < Len(data)) = FALSE
      BY <2>1
    <3>4. error' = (Len(data) < Len(data))
      BY <2>2
    <3>2. error' = FALSE
      BY <3>1, <3>4, Zenon
    <3>3. SubSeq(data, 1, Len(data)) = data
      BY <2>1, SubSeqFull
    <3> QED BY <3>2, <3>3
  <2>4. error = FALSE
    BY <1>10 DEF Io!WriteFile
  <2>5. IsWritten(io, io', data)
    <3>1. IsWritten(io, Io!FileWritten(io, data), data)
      BY <2>1, <2>2, FileWrites
    <3> QED BY <2>2, <2>3, <3>1
  <2>6. io.cursor <= Len(s) /\ Len(data) <= MaxLength
    <3>1. s = io.buffer /\ io.cursor = io.fp
      BY <2>2, SoundIsTyped DEF s, IoSound
    <3> QED BY <1>0, <1>2, <2>1, <2>2, <3>1
  <2> QED BY <1>7, <2>1, <2>2, <2>3, <2>4, <2>5, <2>6
<1>11. CASE error /\ UNCHANGED Io!vars
  BY <1>1, <1>11
<1> QED BY <1>1, <1>3, <1>4, <1>6, <1>8, <1>9, <1>10, <1>11 DEF Io!Next

\* An io whose memory does not run out is a stream of bytes, whatever its kind: what is
\* read is what was last written there, and an output buffer holds all that was written
\* (io.c:52-132, 190-388).
THEOREM IoIsAStream == NativeSafety => ImplementsStream
<1>1. NativeInit => IoInv /\ Io!Stream!Init
  BY NativeParts, IoBegins
<1>2. IoInv /\ [NativeNext]_nativeVars => IoInv' /\ [Io!Stream!Next]_(Io!Stream!vars)
  BY NativeParts, IoSteps
<1> QED BY <1>1, <1>2, PTL DEF NativeSafety, ImplementsStream, Io!ImplementsStream, Io!Stream!Spec

-----------------------------------------------------------------------------
\* libjpeg's managers over an io.

\* The bytes in the manager's buffer are those of the io from q on, which has been read up
\* to their end; or they are made up, and all of the io's have been passed.
BytesInOrder(bytes, cursor, held, q) ==
  IF q + Len(held) <= Len(bytes)
  THEN cursor = q + Len(held) /\ held = SubSeq(bytes, q + 1, cursor)
  ELSE cursor = Len(bytes) /\ q >= Len(bytes)

JpegInv ==
  /\ IoSound(jpegIo) /\ jpegError \in BOOLEAN /\ jpegGot \in Seq(Byte)
  /\ buffer \in Seq(Byte) /\ emitted \in Seq(Byte)
  /\ toSkip \in Nat /\ passed \in Nat /\ toSkip <= passed
  /\ state \in {"running", "finished", "failed"}
  /\ jpegIo.kind # "obuf" /\ state = "running" =>
       BytesInOrder(jpegIo.buffer, jpegIo.cursor, buffer, passed - toSkip)
  /\ jpegIo.kind = "obuf" =>
       /\ state = "running" => /\ Kept(jpegIo) /\ jpegIo.cursor = Len(Content(jpegIo))
                               /\ Content(jpegIo) \o buffer = emitted
       /\ state = "finished" => Content(jpegIo) = emitted

\* The io of JpegIo is the one of CIo.
LEMMA SameIo ==
  /\ Jpeg!Io!Init => /\ \/ "obuf" \in Kinds /\ jpegIo = Io!NewObuf
                        \/ \E s \in Io!BoundedSeq(Byte, MaxLength) :
                             \/ "memory" \in Kinds /\ s # <<>> /\ jpegIo = Io!NewMemory(s)
                             \/ "file" \in Kinds /\ jpegIo = Io!NewFile(s)
                     /\ jpegError = FALSE /\ jpegGot = <<>>
  /\ \A n : Jpeg!Io!Read(n) => /\ jpegGot' = Io!ReadFrom(jpegIo, n)
                               /\ jpegIo' = Io!AfterRead(jpegIo, Len(jpegGot'))
                               /\ jpegError' = jpegError
  /\ \A data : Jpeg!Io!WriteObuf(data) =>
       /\ jpegIo.kind = "obuf" /\ jpegGot' = <<>> /\ ~jpegError
       /\ \/ jpegIo' = Io!ObufWritten(jpegIo, data) /\ jpegError' = jpegError
          \/ jpegIo' = [jpegIo EXCEPT !.buffer = NULL] /\ jpegError' = TRUE
<1>1. /\ Jpeg!Io!NewObuf = Io!NewObuf
      /\ \A s : Jpeg!Io!NewMemory(s) = Io!NewMemory(s) /\ Jpeg!Io!NewFile(s) = Io!NewFile(s)
      /\ Jpeg!Io!BoundedSeq(Byte, MaxLength) = Io!BoundedSeq(Byte, MaxLength)
  BY DEF Jpeg!Io!NewObuf, Io!NewObuf, Jpeg!Io!NewMemory, Io!NewMemory, Jpeg!Io!NewFile, Io!NewFile,
         Jpeg!Io!BoundedSeq, Io!BoundedSeq, Jpeg!Io!SeqOf, Io!SeqOf
<1>2. Jpeg!Io!Init => /\ \/ "obuf" \in Kinds /\ jpegIo = Io!NewObuf
                         \/ \E s \in Io!BoundedSeq(Byte, MaxLength) :
                              \/ "memory" \in Kinds /\ s # <<>> /\ jpegIo = Io!NewMemory(s)
                              \/ "file" \in Kinds /\ jpegIo = Io!NewFile(s)
                      /\ jpegError = FALSE /\ jpegGot = <<>>
  BY <1>1 DEF Jpeg!Io!Init
<1>3. ASSUME NEW n, Jpeg!Io!Read(n)
      PROVE  /\ jpegGot' = Io!ReadFrom(jpegIo, n)
             /\ jpegIo' = Io!AfterRead(jpegIo, Len(jpegGot'))
             /\ jpegError' = jpegError
  <2>1. \A x, m : Jpeg!Io!Allowed(x, m) = Io!Allowed(x, m)
    BY DEF Jpeg!Io!Allowed, Io!Allowed, Jpeg!Io!Lesser, Io!Lesser, Jpeg!Io!Greater, Io!Greater,
           Jpeg!Io!Remaining, Io!Remaining
  <2>2. \A x, m : Jpeg!Io!ReadFrom(x, m) = Io!ReadFrom(x, m)
    BY <2>1 DEF Jpeg!Io!ReadFrom, Io!ReadFrom
  <2>3. \A x, m : Jpeg!Io!AfterRead(x, m) = Io!AfterRead(x, m)
    BY DEF Jpeg!Io!AfterRead, Io!AfterRead
  <2> QED BY <1>3, <2>2, <2>3 DEF Jpeg!Io!Read
<1>4. ASSUME NEW data, Jpeg!Io!WriteObuf(data)
      PROVE  /\ jpegIo.kind = "obuf" /\ jpegGot' = <<>> /\ ~jpegError
             /\ \/ jpegIo' = Io!ObufWritten(jpegIo, data) /\ jpegError' = jpegError
                \/ jpegIo' = [jpegIo EXCEPT !.buffer = NULL] /\ jpegError' = TRUE
  <2>1. \A m, n : Jpeg!Io!Greater(m, n) = Io!Greater(m, n)
    BY DEF Jpeg!Io!Greater, Io!Greater
  <2>2. \A x, n : Jpeg!Io!NewLength(x, n) = Io!NewLength(x, n) /\ (Jpeg!Io!MustGrow(x, n) <=> Io!MustGrow(x, n))
    BY <2>1 DEF Jpeg!Io!NewLength, Io!NewLength, Jpeg!Io!MustGrow, Io!MustGrow
  <2>3. \A b, p, d : Jpeg!Io!Stored(b, p, d) = Io!Stored(b, p, d)
    BY <2>1 DEF Jpeg!Io!Stored, Io!Stored
  <2>4. \A x, d : Jpeg!Io!ObufWritten(x, d) = Io!ObufWritten(x, d)
    BY <2>1, <2>2, <2>3 DEF Jpeg!Io!ObufWritten, Io!ObufWritten
  <2> QED BY <1>4, <2>4 DEF Jpeg!Io!WriteObuf
<1> QED BY <1>2, <1>3, <1>4

\* What is stored at the end is appended.
LEMMA OverwrittenAtTheEnd ==
  ASSUME NEW s \in Seq(Byte), NEW data \in Seq(Byte)
  PROVE  Io!Stream!Overwritten(s, Len(s), data) = s \o data
<1> DEFINE n == Len(s) + Len(data)
           t == Io!Stream!Overwritten(s, Len(s), data)
<1>1. n \in Nat /\ (IF Len(s) + Len(data) > Len(s) THEN Len(s) + Len(data) ELSE Len(s)) = n
  OBVIOUS
<1>2. t = [i \in 1 .. n |-> IF i \in Len(s) + 1 .. Len(s) + Len(data) THEN data[i - Len(s)] ELSE s[i]]
  BY <1>1 DEF Io!Stream!Overwritten
<1> HIDE DEF t, n
<1>3. s \o data \in Seq(Byte) /\ Len(s \o data) = n
      /\ \A i \in 1 .. n : (s \o data)[i] = IF i <= Len(s) THEN s[i] ELSE data[i - Len(s)]
  BY ConcatProperties DEF n
<1>4. \A i \in 1 .. n : i \in Len(s) + 1 .. Len(s) + Len(data) <=> ~(i <= Len(s))
  BY <1>1 DEF n
<1>5. \A i \in 1 .. n : t[i] = (s \o data)[i]
  BY <1>2, <1>3, <1>4
<1>6. s \o data \in [1 .. n -> Byte]
  BY <1>3, LenProperties
<1> DEFINE u == s \o data
<1> HIDE DEF u
<1>7. u = [i \in 1 .. n |-> u[i]]
  BY <1>6 DEF u
<1>8. t = [i \in 1 .. n |-> t[i]]
  BY <1>2
<1>9. \A i \in 1 .. n : t[i] = u[i]
  BY <1>5 DEF u
<1>10. t = u
  BY <1>7, <1>8, <1>9
<1> QED BY <1>10 DEF t, u

\* The invariant of libjpeg's io holds at first.
LEMMA JpegBegins == Jpeg!Init => JpegInv
<1> SUFFICES ASSUME Jpeg!Init
             PROVE  JpegInv
  OBVIOUS
<1>0. NULL \notin Seq(Byte) /\ MaxLength \in Nat
  <2>1. Io!IoAssumption
    BY NativeAssumption
  <2> QED BY <2>1 DEF Io!IoAssumption
<1>1. /\ jpegError = FALSE /\ jpegGot = <<>> /\ buffer = <<>> /\ toSkip = 0 /\ passed = 0 /\ emitted = <<>>
      /\ state = "running"
  BY SameIo DEF Jpeg!Init
<1>2. <<>> \in Seq(Byte) /\ Len(<<>>) = 0 /\ <<>> \o <<>> = <<>>
  OBVIOUS
<1>5. /\ jpegError \in BOOLEAN /\ jpegGot \in Seq(Byte) /\ buffer \in Seq(Byte) /\ emitted \in Seq(Byte)
      /\ toSkip \in Nat /\ passed \in Nat /\ toSkip <= passed
      /\ state \in {"running", "finished", "failed"} /\ state # "finished"
  <2>1. jpegError \in BOOLEAN
    BY <1>1
  <2>2. jpegGot \in Seq(Byte) /\ buffer \in Seq(Byte) /\ emitted \in Seq(Byte)
    BY <1>1, <1>2
  <2>3. toSkip \in Nat /\ passed \in Nat /\ toSkip <= passed
    BY <1>1
  <2>4. state \in {"running", "finished", "failed"} /\ state # "finished"
    BY <1>1
  <2> QED BY <2>1, <2>2, <2>3, <2>4
<1>3. CASE "obuf" \in Kinds /\ jpegIo = Io!NewObuf
  <2>1. IoSound(jpegIo)
    BY <1>3, NewObufIsSound
  <2>2. jpegIo.kind = "obuf" /\ jpegIo.cursor = 0 /\ jpegIo.uncleared = 0 /\ jpegIo.buffer = NULL
    BY <1>3 DEF Io!NewObuf
  <2>3. Content(jpegIo) = <<>> /\ Kept(jpegIo)
    BY <2>2 DEF Content, Bytes, Kept
  <2>4. jpegIo.cursor = Len(Content(jpegIo)) /\ Content(jpegIo) \o buffer = emitted
    BY <1>1, <1>2, <2>2, <2>3
  <2> QED BY <1>1, <1>5, <2>1, <2>2, <2>3, <2>4 DEF JpegInv
<1>4. ASSUME NEW s \in Io!BoundedSeq(Byte, MaxLength),
             \/ "memory" \in Kinds /\ jpegIo = Io!NewMemory(s)
             \/ "file" \in Kinds /\ jpegIo = Io!NewFile(s)
      PROVE  JpegInv
  <2>1. s \in Seq(Byte) /\ Len(s) <= MaxLength
    BY <1>0, BoundedAreShort
  <2>2. IoSound(jpegIo)
    <3>1. "memory" \in Kinds => IoSound(Io!NewMemory(s))
      BY <2>1, NewIoIsSound
    <3>2. "file" \in Kinds => IoSound(Io!NewFile(s))
      BY <2>1, NewIoIsSound
    <3> QED BY <1>4, <3>1, <3>2
  <2>3. jpegIo.kind # "obuf" /\ jpegIo.cursor = 0 /\ jpegIo.buffer = s
    BY <1>4 DEF Io!NewMemory, Io!NewFile
  <2>4. SubSeq(s, 1, 0) = <<>>
    BY SubSeqEmpty
  <2>5. BytesInOrder(s, 0, <<>>, 0)
    BY <1>2, <2>1, <2>4 DEF BytesInOrder
  <2>6. passed - toSkip = 0
    BY <1>1
  <2>7. BytesInOrder(jpegIo.buffer, jpegIo.cursor, buffer, passed - toSkip)
    BY <1>1, <2>3, <2>5, <2>6
  <2> QED BY <1>5, <2>2, <2>3, <2>7 DEF JpegInv
<1> QED BY <1>3, <1>4, SameIo DEF Jpeg!Init

\* Filling the buffer, when all that was in it has been passed.
LEMMA FillKeepsOrder ==
  ASSUME IoSound(jpegIo), jpegIo.kind # "obuf", buffer \in Seq(Byte), NEW q \in Nat,
         BytesInOrder(jpegIo.buffer, jpegIo.cursor, buffer, q), Jpeg!Fill
  PROVE  /\ IoSound(jpegIo') /\ jpegIo'.kind = jpegIo.kind
         /\ jpegError' = jpegError /\ jpegGot' \in Seq(Byte) /\ buffer' \in Seq(Byte)
         /\ state' \in {state, "failed"}
         /\ state' = state => BytesInOrder(jpegIo'.buffer, jpegIo'.cursor, buffer', q + Len(buffer)) \/ state = "failed"
<1> DEFINE s == jpegIo.buffer
           g == Io!ReadFrom(jpegIo, BufferSize)
           end == IF jpegIo.cursor + BufferSize < Len(s) THEN jpegIo.cursor + BufferSize ELSE Len(s)
           r == q + Len(buffer)
<1>0. BufferSize \in Nat \ {0} /\ Eoi \in Seq(Byte) /\ Len(Eoi) = 2
  <2>1. Jpeg!JpegIoAssumption
    BY NativeAssumption
  <2> QED BY <2>1 DEF Jpeg!JpegIoAssumption
<1>1. s = Content(jpegIo) /\ s \in Seq(Byte) /\ jpegIo.cursor \in Nat /\ Kept(jpegIo)
  BY SoundIsTyped DEF Kept
<1>2. jpegGot' = g /\ jpegIo' = Io!AfterRead(jpegIo, Len(g)) /\ jpegError' = jpegError
  BY SameIo DEF Jpeg!Fill
<1>3. /\ g = SubSeq(s, jpegIo.cursor + 1, end) /\ g \in Seq(Byte)
      /\ Len(g) = IF jpegIo.cursor < end THEN end - jpegIo.cursor ELSE 0
      /\ IsMoved(jpegIo, Io!AfterRead(jpegIo, Len(g)), jpegIo.cursor + Len(g))
  <2> HIDE DEF s
  <2> QED BY <1>0, <1>1, ReadGets
<1>4. /\ IoSound(jpegIo') /\ jpegIo'.kind = jpegIo.kind /\ jpegIo'.buffer = s
      /\ jpegIo'.cursor = jpegIo.cursor + Len(g)
  <2> HIDE DEF g, s
  <2> QED BY <1>2, <1>3 DEF IsMoved, s
<1>10. g \in Seq(Byte)
  BY <1>3
<1> HIDE DEF g, s
<1>5. Len(s) \in Nat /\ Len(buffer) \in Nat /\ Len(g) \in Nat /\ r \in Nat
  BY <1>1, <1>10
<1>6. IF r <= Len(s) THEN jpegIo.cursor = r ELSE jpegIo.cursor = Len(s) /\ q >= Len(s)
  BY DEF BytesInOrder, s
<1>7. CASE g # <<>>
  <2>1. buffer' = g /\ state' = state
    BY <1>2, <1>7 DEF Jpeg!Fill
  <2>2. Len(g) # 0
    BY <1>3, <1>7
  <2>3. jpegIo.cursor < end /\ Len(g) = end - jpegIo.cursor
    BY <1>3, <2>2
  <2>4. jpegIo.cursor = r /\ end <= Len(s)
    BY <1>0, <1>1, <1>5, <1>6, <2>3
  <2>5. BytesInOrder(s, end, g, r)
    BY <1>1, <1>3, <1>5, <2>3, <2>4 DEF BytesInOrder
  <2>6. jpegIo'.cursor = end
    BY <1>0, <1>1, <1>4, <1>5, <2>3
  <2> QED BY <1>2, <1>3, <1>4, <2>1, <2>5, <2>6
<1>8. CASE g = <<>>
  <2>1. \/ buffer' = Eoi /\ state' = state
        \/ buffer' = buffer /\ state' = "failed"
    BY <1>2, <1>8 DEF Jpeg!Fill
  <2>2. Len(g) = 0
    BY <1>8
  <2>3. ~(jpegIo.cursor < end)
    BY <1>0, <1>1, <1>3, <1>5, <2>2
  <2>4. jpegIo.cursor >= Len(s) /\ jpegIo'.cursor = jpegIo.cursor
    BY <1>0, <1>1, <1>4, <1>5, <2>2, <2>3
  <2>5. jpegIo.cursor = Len(s) /\ r >= Len(s)
    BY <1>1, <1>5, <1>6, <2>4
  <2>6. BytesInOrder(s, Len(s), Eoi, r)
    BY <1>0, <1>5, <2>5 DEF BytesInOrder
  <2>7. state' = state /\ state # "failed" => buffer' = Eoi
    BY <2>1
  <2>8. buffer' \in Seq(Byte) /\ state' \in {state, "failed"}
    BY <1>0, <2>1
  <2>9. jpegGot' \in Seq(Byte)
    BY <1>2, <1>3
  <2>10. state' = state => BytesInOrder(jpegIo'.buffer, jpegIo'.cursor, buffer', r) \/ state = "failed"
    BY <1>4, <2>4, <2>5, <2>6, <2>7
  <2> QED BY <1>2, <1>4, <2>8, <2>9, <2>10
<1> QED BY <1>7, <1>8

\* Passing what is at the front of the buffer.
LEMMA DropKeepsOrder ==
  ASSUME NEW bytes \in Seq(Byte), NEW cursor \in Nat, NEW held \in Seq(Byte), NEW q \in Nat,
         BytesInOrder(bytes, cursor, held, q), NEW n \in 0 .. Len(held)
  PROVE  LET rest == SubSeq(held, n + 1, Len(held))
         IN  rest \in Seq(Byte) /\ Len(rest) = Len(held) - n /\ BytesInOrder(bytes, cursor, rest, q + n)
<1> DEFINE rest == SubSeq(held, n + 1, Len(held))
<1>1. n \in Nat /\ Len(held) \in Nat /\ n <= Len(held) /\ Len(bytes) \in Nat
  OBVIOUS
<1>2. /\ rest \in Seq(Byte) /\ Len(rest) = Len(held) - n
      /\ \A i \in 1 .. Len(held) - n : rest[i] = held[n + i]
  <2>1. \A i \in n + 1 .. Len(held) : held[i] \in Byte
    BY <1>1, ElementOfSeq
  <2>2. n + 1 \in Int /\ Len(held) \in Int
    BY <1>1
  <2>3. /\ rest \in Seq(Byte)
        /\ Len(rest) = IF n + 1 <= Len(held) THEN Len(held) - (n + 1) + 1 ELSE 0
        /\ \A i \in 1 .. Len(held) - (n + 1) + 1 : rest[i] = held[(n + 1) + i - 1]
    BY <2>1, <2>2, SubSeqProperties
  <2> HIDE DEF rest
  <2>4. \A i \in 1 .. Len(held) - n : i \in 1 .. Len(held) - (n + 1) + 1 /\ (n + 1) + i - 1 = n + i
    BY <1>1
  <2>5. Len(rest) = Len(held) - n
    BY <1>1, <2>3
  <2> QED BY <2>3, <2>4, <2>5
<1>3. BytesInOrder(bytes, cursor, rest, q + n)
  <2> HIDE DEF rest
  <2>1. (q + n) + Len(rest) = q + Len(held)
    BY <1>1, <1>2
  <2>2. CASE q + Len(held) <= Len(bytes)
    <3>1. cursor = q + Len(held) /\ held = SubSeq(bytes, q + 1, cursor)
      BY <2>2 DEF BytesInOrder
    <3> DEFINE cut == SubSeq(bytes, (q + n) + 1, cursor)
    <3>2. \A i \in q + 1 .. cursor : bytes[i] \in Byte
      BY <1>1, <2>2, <3>1, ElementOfSeq
    <3>3. \A i \in 1 .. Len(held) : held[i] = bytes[q + i]
      <4>1. q + 1 \in Int /\ cursor \in Int
        BY <1>1
      <4>2. \A i \in 1 .. cursor - (q + 1) + 1 : SubSeq(bytes, q + 1, cursor)[i] = bytes[(q + 1) + i - 1]
        BY <3>2, <4>1, SubSeqProperties
      <4>3. \A i \in 1 .. Len(held) : i \in 1 .. cursor - (q + 1) + 1 /\ (q + 1) + i - 1 = q + i
        BY <1>1, <3>1
      <4>4. \A i \in 1 .. Len(held) : SubSeq(bytes, q + 1, cursor)[i] = bytes[q + i]
        BY <4>2, <4>3
      <4> QED BY <3>1, <4>4
    <3>4. /\ cut \in Seq(Byte) /\ Len(cut) = Len(held) - n
          /\ \A i \in 1 .. Len(held) - n : cut[i] = bytes[(q + n) + i]
      <4>1. (q + n) + 1 \in Int /\ cursor \in Int
        BY <1>1
      <4>2. \A i \in (q + n) + 1 .. cursor : bytes[i] \in Byte
        BY <1>1, <3>2
      <4>3. /\ cut \in Seq(Byte)
            /\ Len(cut) = IF (q + n) + 1 <= cursor THEN cursor - ((q + n) + 1) + 1 ELSE 0
            /\ \A i \in 1 .. cursor - ((q + n) + 1) + 1 : cut[i] = bytes[((q + n) + 1) + i - 1]
        BY <4>1, <4>2, SubSeqProperties
      <4> HIDE DEF cut
      <4>4. \A i \in 1 .. Len(held) - n : i \in 1 .. cursor - ((q + n) + 1) + 1
                                          /\ ((q + n) + 1) + i - 1 = (q + n) + i
        BY <1>1, <3>1
      <4>5. Len(cut) = Len(held) - n
        <5>1. cursor = q + Len(held)
          BY <3>1
        <5>2. PICK m \in Nat : m = Len(held)
          BY <1>1
        <5> QED BY <1>1, <4>3, <5>1, <5>2
      <4> QED BY <4>3, <4>4, <4>5
    <3> HIDE DEF cut
    <3>5. \A i \in 1 .. Len(held) - n : rest[i] = cut[i]
      <4>1. \A i \in 1 .. Len(held) - n : n + i \in 1 .. Len(held) /\ q + (n + i) = (q + n) + i
        BY <1>1
      <4>2. \A i \in 1 .. Len(held) - n : held[n + i] = bytes[(q + n) + i]
        BY <3>3, <4>1
      <4> QED BY <1>2, <3>4, <4>2
    <3>6. rest = cut
      BY <1>2, <3>4, <3>5, SeqEqual
    <3> QED BY <1>1, <2>1, <2>2, <3>1, <3>6 DEF BytesInOrder, cut
  <2>3. CASE ~(q + Len(held) <= Len(bytes))
    <3>1. cursor = Len(bytes) /\ q >= Len(bytes)
      BY <2>3 DEF BytesInOrder
    <3>2. q + n >= Len(bytes) /\ ~((q + n) + Len(rest) <= Len(bytes))
      BY <1>1, <2>1, <2>3, <3>1
    <3> QED BY <3>1, <3>2 DEF BytesInOrder
  <2> QED BY <2>2, <2>3
<1> QED BY <1>2, <1>3

\* A write of the library's at the end of an output buffer: it is appended, or the buffer
\* is lost.
LEMMA WriteAppends ==
  ASSUME IoSound(jpegIo), Kept(jpegIo), jpegIo.cursor = Len(Content(jpegIo)), jpegError \in BOOLEAN,
         NEW data \in Seq(Byte), Jpeg!Io!WriteObuf(data)
  PROVE  /\ IoSound(jpegIo') /\ jpegIo'.kind = "obuf" /\ jpegIo.kind = "obuf" /\ jpegGot' \in Seq(Byte)
         /\ \/ /\ jpegError' = FALSE /\ Kept(jpegIo') /\ jpegIo'.cursor = Len(Content(jpegIo'))
               /\ Content(jpegIo') = Content(jpegIo) \o data
            \/ jpegError' = TRUE
<1> DEFINE s == Content(jpegIo)
           y == Io!ObufWritten(jpegIo, data)
<1>1. /\ jpegIo.kind = "obuf" /\ jpegGot' = <<>> /\ ~jpegError
      /\ \/ jpegIo' = y /\ jpegError' = jpegError
         \/ jpegIo' = [jpegIo EXCEPT !.buffer = NULL] /\ jpegError' = TRUE
  BY SameIo
<1>2. jpegError = FALSE
  BY <1>1
<1>3. jpegGot' \in Seq(Byte)
  BY <1>1
<1>4. CASE jpegIo' = y /\ jpegError' = jpegError
  <2>1. IsWritten(jpegIo, y, data)
    BY <1>1, ObufWrites
  <2>2. s \in Seq(Byte)
    BY SoundIsTyped
  <2> HIDE DEF y
  <2>3. /\ IoSound(y) /\ y.kind = "obuf" /\ y.buffer # NULL /\ y.cursor = Len(s) + Len(data)
        /\ y.buffer = Io!Stream!Overwritten(s, Len(s), data)
    BY <1>1, <2>1 DEF IsWritten
  <2> HIDE DEF s
  <2>4. y.buffer = s \o data
    BY <2>2, <2>3, OverwrittenAtTheEnd
  <2>5. Content(y) = s \o data
    BY <2>3, <2>4 DEF Content, Bytes
  <2>6. Len(s \o data) = Len(s) + Len(data)
    BY <2>2, ConcatProperties
  <2>7. Kept(y)
    BY <2>3 DEF Kept
  <2> QED BY <1>1, <1>2, <1>3, <1>4, <2>3, <2>5, <2>6, <2>7 DEF s
<1>5. CASE jpegIo' = [jpegIo EXCEPT !.buffer = NULL] /\ jpegError' = TRUE
  <2> DEFINE z == [jpegIo EXCEPT !.buffer = NULL]
  <2>1. /\ jpegIo \in [kind : {"obuf"}, buffer : Seq(Byte) \cup {NULL}, length : Nat, uncleared : Nat, cursor : Nat]
        /\ jpegIo.kind \in Kinds /\ jpegIo.cursor <= jpegIo.uncleared /\ jpegIo.uncleared <= jpegIo.length
    BY <1>1 DEF IoSound, IoStates
  <2>2. /\ z \in [kind : {"obuf"}, buffer : Seq(Byte) \cup {NULL}, length : Nat, uncleared : Nat, cursor : Nat]
        /\ z.kind = "obuf" /\ z.kind \in Kinds /\ z.buffer = NULL
        /\ z.cursor = jpegIo.cursor /\ z.uncleared = jpegIo.uncleared /\ z.length = jpegIo.length
    BY <1>1, <2>1
  <2> HIDE DEF z
  <2>3. IoSound(z)
    BY <2>1, <2>2 DEF IoSound, IoStates
  <2> QED BY <1>1, <1>3, <1>5, <2>2, <2>3 DEF z
<1> QED BY <1>1, <1>4, <1>5

\* What JpegInv says of a step that only changes what has been read: the source.
SourceInv ==
  /\ IoSound(jpegIo) /\ jpegIo.kind # "obuf" /\ jpegError \in BOOLEAN /\ jpegGot \in Seq(Byte)
  /\ buffer \in Seq(Byte) /\ emitted \in Seq(Byte)
  /\ toSkip \in Nat /\ passed \in Nat /\ toSkip <= passed
  /\ state \in {"running", "finished", "failed"}
  /\ state = "running" => BytesInOrder(jpegIo.buffer, jpegIo.cursor, buffer, passed - toSkip)

\* What a source relies on is the invariant while bytes are read.
LEMMA SourceSuffices == /\ SourceInv => JpegInv
                        /\ JpegInv /\ jpegIo.kind # "obuf" => SourceInv
BY DEF SourceInv, JpegInv

\* Every callback of the source keeps it (codecs_jpeg_io.c:24-86).
LEMMA SourceSteps ==
  ASSUME SourceInv, state = "running",
         Jpeg!FillInputBuffer \/ Jpeg!Take \/ Jpeg!SkipBuffer \/ Jpeg!SkipRest
         \/ \E n \in 1 .. MaxLength : Jpeg!SkipInputData(n)
  PROVE  SourceInv'
<1> DEFINE q == passed - toSkip
           s == jpegIo.buffer
<1>1. /\ q \in Nat /\ Len(buffer) \in Nat /\ BytesInOrder(s, jpegIo.cursor, buffer, q)
      /\ s \in Seq(Byte) /\ jpegIo.cursor \in Nat
  <2>1. s \in Seq(Byte) /\ jpegIo.cursor \in Nat
    BY SoundIsTyped DEF SourceInv
  <2>2. q \in Nat /\ BytesInOrder(s, jpegIo.cursor, buffer, q)
    BY DEF SourceInv
  <2>3. buffer \in Seq(Byte)
    BY DEF SourceInv
  <2>4. Len(buffer) \in Nat
    BY <2>3
  <2> QED BY <2>1, <2>2, <2>4
<1>2. ASSUME Jpeg!Fill, NEW left \in Nat, toSkip' = left, passed' = passed, emitted' = emitted,
             left <= toSkip, toSkip - left = Len(buffer)
      PROVE  SourceInv'
  <2>1. /\ IoSound(jpegIo') /\ jpegIo'.kind = jpegIo.kind
        /\ jpegError' = jpegError /\ jpegGot' \in Seq(Byte) /\ buffer' \in Seq(Byte)
        /\ state' \in {state, "failed"}
        /\ state' = state => BytesInOrder(jpegIo'.buffer, jpegIo'.cursor, buffer', q + Len(buffer)) \/ state = "failed"
    <3> HIDE DEF q
    <3> QED BY <1>1, <1>2, FillKeepsOrder DEF SourceInv, s
  <2>2. passed' - toSkip' = q + Len(buffer)
    BY <1>1, <1>2 DEF SourceInv
  <2> HIDE DEF q
  <2>3. state' = "running" => BytesInOrder(jpegIo'.buffer, jpegIo'.cursor, buffer', passed' - toSkip')
    BY <2>1, <2>2
  <2>4. toSkip' \in Nat /\ passed' \in Nat /\ toSkip' <= passed'
    BY <1>2 DEF SourceInv
  <2>5. IoSound(jpegIo)'
    BY <2>1 DEF IoSound
  <2> QED BY <1>2, <2>1, <2>3, <2>4, <2>5 DEF SourceInv
<1>3. ASSUME NEW n \in 0 .. Len(buffer), buffer' = SubSeq(buffer, n + 1, Len(buffer)),
             passed' - toSkip' = q + n, toSkip' \in Nat, passed' \in Nat, toSkip' <= passed',
             UNCHANGED <<jpegIo, jpegError, jpegGot, emitted, state>>
      PROVE  SourceInv'
  <2>1. buffer' \in Seq(Byte) /\ BytesInOrder(s, jpegIo.cursor, buffer', q + n)
    <3> DEFINE rest == SubSeq(buffer, n + 1, Len(buffer))
    <3>1. rest \in Seq(Byte) /\ BytesInOrder(s, jpegIo.cursor, rest, q + n)
      <4> HIDE DEF q, s
      <4> QED BY <1>1, DropKeepsOrder DEF SourceInv
    <3> QED BY <1>3, <3>1
  <2> HIDE DEF q
  <2>2. BytesInOrder(jpegIo.buffer, jpegIo.cursor, buffer, passed - toSkip)'
    BY <1>3, <2>1
  <2> QED BY <1>3, <2>1, <2>2 DEF SourceInv
<1>4. CASE Jpeg!FillInputBuffer
  <2>1. Jpeg!Fill /\ toSkip' = toSkip /\ passed' = passed /\ emitted' = emitted /\ toSkip = 0 /\ buffer = <<>>
    BY <1>4 DEF Jpeg!FillInputBuffer
  <2>2. Len(buffer) = 0
    BY <2>1
  <2> QED BY <1>2, <2>1, <2>2
<1>5. CASE Jpeg!Take
  <2>1. /\ buffer # <<>> /\ buffer' = Tail(buffer) /\ passed' = passed + 1 /\ toSkip' = toSkip
        /\ UNCHANGED <<jpegIo, jpegError, jpegGot, emitted, state>>
    BY <1>5 DEF Jpeg!Take, Jpeg!ioVars
  <2>2. 1 \in 0 .. Len(buffer) /\ buffer' = SubSeq(buffer, 1 + 1, Len(buffer))
    <3>1. buffer \in Seq(Byte)
      BY DEF SourceInv
    <3>2. Len(buffer) # 0
      BY <2>1, <3>1
    <3>3. Tail(buffer) = SubSeq(buffer, 2, Len(buffer))
      BY <2>1, <3>1, TailIsSubSeq
    <3> QED BY <1>1, <2>1, <3>2, <3>3
  <2>3. passed' - toSkip' = q + 1 /\ toSkip' \in Nat /\ passed' \in Nat /\ toSkip' <= passed'
    BY <2>1 DEF SourceInv
  <2> HIDE DEF q
  <2> QED BY <1>3, <2>1, <2>2, <2>3
<1>6. CASE Jpeg!SkipBuffer
  <2>1. /\ Jpeg!Fill /\ toSkip' = toSkip - Len(buffer) /\ toSkip > Len(buffer)
        /\ passed' = passed /\ emitted' = emitted
    BY <1>6 DEF Jpeg!SkipBuffer
  <2>2. toSkip - Len(buffer) \in Nat /\ toSkip - Len(buffer) <= toSkip
        /\ toSkip - (toSkip - Len(buffer)) = Len(buffer)
    BY <1>1, <2>1 DEF SourceInv
  <2> QED BY <1>2, <2>1, <2>2
<1>7. CASE Jpeg!SkipRest
  <2>1. /\ toSkip <= Len(buffer) /\ buffer' = SubSeq(buffer, toSkip + 1, Len(buffer))
        /\ toSkip' = 0 /\ passed' = passed
        /\ UNCHANGED <<jpegIo, jpegError, jpegGot, emitted, state>>
    BY <1>7 DEF Jpeg!SkipRest, Jpeg!ioVars
  <2>2. toSkip \in 0 .. Len(buffer) /\ passed' - toSkip' = q + toSkip
        /\ toSkip' \in Nat /\ passed' \in Nat /\ toSkip' <= passed'
    BY <1>1, <2>1 DEF SourceInv
  <2> HIDE DEF q
  <2> QED BY <1>3, <2>1, <2>2
<1>8. ASSUME NEW n \in 1 .. MaxLength, Jpeg!SkipInputData(n)
      PROVE  SourceInv'
  <2>1. /\ toSkip = 0 /\ toSkip' = n /\ passed' = passed + n
        /\ UNCHANGED <<jpegIo, jpegError, jpegGot, emitted, state, buffer>>
    BY <1>8 DEF Jpeg!SkipInputData, Jpeg!ioVars
  <2>2. n \in Nat
    <3>1. Io!IoAssumption
      BY NativeAssumption
    <3> QED BY <3>1 DEF Io!IoAssumption
  <2>3. passed' - toSkip' = passed - toSkip /\ toSkip' \in Nat /\ passed' \in Nat /\ toSkip' <= passed'
    BY <2>1, <2>2 DEF SourceInv
  <2> QED BY <2>1, <2>3 DEF SourceInv
<1> QED BY <1>4, <1>5, <1>6, <1>7, <1>8

\* And the destination, where the library's bytes go.
DestinationInv ==
  /\ IoSound(jpegIo) /\ jpegIo.kind = "obuf" /\ jpegError \in BOOLEAN /\ jpegGot \in Seq(Byte)
  /\ buffer \in Seq(Byte) /\ emitted \in Seq(Byte)
  /\ toSkip \in Nat /\ passed \in Nat /\ toSkip <= passed
  /\ state \in {"running", "finished", "failed"}
  /\ state = "running" => /\ Kept(jpegIo) /\ jpegIo.cursor = Len(Content(jpegIo))
                          /\ Content(jpegIo) \o buffer = emitted
  /\ state = "finished" => Content(jpegIo) = emitted

\* What a destination relies on is the invariant while bytes are written.
LEMMA DestinationSuffices == /\ DestinationInv => JpegInv
                             /\ JpegInv /\ jpegIo.kind = "obuf" => DestinationInv
BY DEF DestinationInv, JpegInv

\* Every callback of the destination keeps it (codecs_jpeg_io.c:99-155).
LEMMA DestinationSteps ==
  ASSUME DestinationInv, state = "running", Jpeg!Terminate \/ \E b \in Byte : Jpeg!Emit(b)
  PROVE  DestinationInv'
<1> DEFINE s == Content(jpegIo)
<1>1. /\ IoSound(jpegIo) /\ jpegIo.kind = "obuf" /\ jpegError \in BOOLEAN /\ Kept(jpegIo)
      /\ jpegIo.cursor = Len(s) /\ s \o buffer = emitted
      /\ buffer \in Seq(Byte) /\ emitted \in Seq(Byte)
  BY DEF DestinationInv
<1>2. s \in Seq(Byte)
  BY <1>1, SoundIsTyped
<1>3. ASSUME NEW data \in Seq(Byte), Jpeg!Io!WriteObuf(data)
      PROVE  /\ IoSound(jpegIo)' /\ (jpegIo.kind = "obuf")' /\ jpegError' \in BOOLEAN /\ jpegGot' \in Seq(Byte)
             /\ \/ /\ jpegError' = FALSE /\ Kept(jpegIo)' /\ (jpegIo.cursor = Len(Content(jpegIo)))'
                   /\ Content(jpegIo)' = s \o data
                \/ jpegError' = TRUE
  <2>1. PICK y : y = jpegIo'
    OBVIOUS
  <2>2. /\ IoSound(y) /\ y.kind = "obuf" /\ jpegGot' \in Seq(Byte)
        /\ \/ /\ jpegError' = FALSE /\ Kept(y) /\ y.cursor = Len(Content(y))
              /\ Content(y) = s \o data
           \/ jpegError' = TRUE
    <3>1. /\ IoSound(jpegIo') /\ jpegIo'.kind = "obuf" /\ jpegGot' \in Seq(Byte)
          /\ \/ /\ jpegError' = FALSE /\ Kept(jpegIo') /\ jpegIo'.cursor = Len(Content(jpegIo'))
                /\ Content(jpegIo') = s \o data
             \/ jpegError' = TRUE
      BY <1>1, <1>3, WriteAppends
    <3> QED BY <2>1, <3>1
  <2>3. jpegError' \in BOOLEAN
    BY <2>2
  <2>4. IoSound(jpegIo)' /\ (jpegIo.kind = "obuf")'
    BY <2>1, <2>2 DEF IoSound
  <2>5. jpegError' = TRUE \/ (/\ jpegError' = FALSE /\ Kept(jpegIo)' /\ (jpegIo.cursor = Len(Content(jpegIo)))'
                              /\ Content(jpegIo)' = s \o data)
    BY <2>1, <2>2 DEF Kept, Content, Bytes
  <2> QED BY <2>2, <2>3, <2>4, <2>5
<1>4. CASE Jpeg!Terminate
  <2>1. UNCHANGED <<buffer, toSkip, passed, emitted>>
    BY <1>4 DEF Jpeg!Terminate
  <2>2. CASE buffer = <<>> /\ UNCHANGED Jpeg!ioVars /\ state' = "finished"
    <3>1. s \o <<>> = s
      <4> HIDE DEF s
      <4> QED BY <1>2, ConcatEmptySeq
    <3>2. s = emitted
      BY <1>1, <2>2, <3>1
    <3>3. UNCHANGED <<jpegIo, jpegError, jpegGot>>
      BY <2>2 DEF Jpeg!ioVars
    <3>4. Content(jpegIo)' = emitted'
      BY <2>1, <3>2, <3>3 DEF Content, Bytes
    <3>5. IoSound(jpegIo)' /\ (jpegIo.kind = "obuf")'
      BY <1>1, <3>3 DEF IoSound
    <3> QED BY <2>1, <2>2, <3>3, <3>4, <3>5 DEF DestinationInv
  <2>3. CASE Jpeg!Io!WriteObuf(buffer) /\ state' = IF jpegError' THEN "failed" ELSE "finished"
    <3>1. /\ IoSound(jpegIo)' /\ (jpegIo.kind = "obuf")' /\ jpegError' \in BOOLEAN /\ jpegGot' \in Seq(Byte)
          /\ \/ jpegError' = FALSE /\ Content(jpegIo)' = s \o buffer
             \/ jpegError' = TRUE
      BY <1>1, <1>3, <2>3
    <3>2. \/ state' = "finished" /\ Content(jpegIo)' = emitted'
          \/ state' = "failed"
      BY <1>1, <2>1, <2>3, <3>1
    <3>3. /\ buffer' \in Seq(Byte) /\ emitted' \in Seq(Byte)
          /\ toSkip' \in Nat /\ passed' \in Nat /\ toSkip' <= passed'
      BY <2>1 DEF DestinationInv
    <3> QED BY <3>1, <3>2, <3>3 DEF DestinationInv
  <2> QED BY <1>4, <2>2, <2>3 DEF Jpeg!Terminate
<1>5. ASSUME NEW b \in Byte, Jpeg!Emit(b)
      PROVE  DestinationInv'
  <2> DEFINE held == Append(buffer, b)
  <2>1. /\ emitted' = Append(emitted, b) /\ UNCHANGED <<toSkip, passed>>
        /\ \/ buffer' = held /\ UNCHANGED <<jpegIo, jpegError, jpegGot, state>>
           \/ /\ Jpeg!Io!WriteObuf(held) /\ state' = (IF jpegError' THEN "failed" ELSE state)
              /\ buffer' = <<>>
    BY <1>5 DEF Jpeg!Emit, Jpeg!Flush, Jpeg!ioVars
  <2>2. held \in Seq(Byte) /\ emitted' \in Seq(Byte) /\ s \o held = emitted' /\ (s \o held) \o <<>> = emitted'
    <3>1. held = buffer \o <<b>> /\ emitted' = emitted \o <<b>>
      BY <1>1, <2>1, AppendProperties, AppendIsConcat
    <3>2. s \o (buffer \o <<b>>) = (s \o buffer) \o <<b>>
      <4>1. PICK one : one = <<b>>
        OBVIOUS
      <4>2. one \in Seq(Byte)
        BY <4>1
      <4>3. buffer \in Seq(Byte)
        BY <1>1
      <4> HIDE DEF s
      <4>4. s \o (buffer \o one) = (s \o buffer) \o one
        BY <1>2, <4>2, <4>3, ConcatAssociative
      <4> QED BY <4>1, <4>4
    <3>3. held \in Seq(Byte) /\ emitted' \in Seq(Byte)
      BY <1>1, <2>1
    <3>4. s \o held = emitted'
      BY <1>1, <3>1, <3>2
    <3>5. emitted' \o <<>> = emitted'
      BY <3>3, ConcatEmptySeq
    <3> QED BY <3>3, <3>4, <3>5
  <2> HIDE DEF held
  <2>3. toSkip' \in Nat /\ passed' \in Nat /\ toSkip' <= passed'
    BY <2>1 DEF DestinationInv
  <2>4. CASE buffer' = held /\ UNCHANGED <<jpegIo, jpegError, jpegGot, state>>
    <3>1. IoSound(jpegIo)' /\ (jpegIo.kind = "obuf")' /\ Kept(jpegIo)' /\ (jpegIo.cursor = Len(Content(jpegIo)))'
          /\ jpegError' \in BOOLEAN /\ jpegGot' \in Seq(Byte)
      BY <1>1, <2>4 DEF IoSound, Kept, Content, DestinationInv
    <3>2. (Content(jpegIo) \o buffer = emitted)'
      BY <2>2, <2>4 DEF Content
    <3> QED BY <2>2, <2>3, <2>4, <3>1, <3>2 DEF DestinationInv
  <2>5. CASE /\ Jpeg!Io!WriteObuf(held) /\ state' = (IF jpegError' THEN "failed" ELSE state)
             /\ buffer' = <<>>
    <3>1. /\ IoSound(jpegIo)' /\ (jpegIo.kind = "obuf")' /\ jpegError' \in BOOLEAN /\ jpegGot' \in Seq(Byte)
          /\ \/ /\ jpegError' = FALSE /\ Kept(jpegIo)' /\ (jpegIo.cursor = Len(Content(jpegIo)))'
                /\ Content(jpegIo)' = s \o held
             \/ jpegError' = TRUE
      BY <1>3, <2>2, <2>5
    <3>2. \/ /\ state' = "running" /\ Kept(jpegIo)' /\ (jpegIo.cursor = Len(Content(jpegIo)))'
             /\ (Content(jpegIo) \o buffer = emitted)'
          \/ state' = "failed"
      BY <2>2, <2>5, <3>1
    <3>3. buffer' \in Seq(Byte)
      BY <2>5
    <3> QED BY <2>2, <2>3, <3>1, <3>2, <3>3 DEF DestinationInv
  <2> QED BY <2>1, <2>4, <2>5
<1> QED BY <1>4, <1>5

\* Every step keeps the invariant of libjpeg's io.
LEMMA JpegSteps == JpegInv /\ [Jpeg!Next]_(Jpeg!vars) => JpegInv'
<1> SUFFICES ASSUME JpegInv, [Jpeg!Next]_(Jpeg!vars)
             PROVE  JpegInv'
  OBVIOUS
<1>1. CASE UNCHANGED Jpeg!vars
  BY <1>1 DEF JpegInv, Jpeg!vars, Jpeg!ioVars, IoSound, Kept, Content, BytesInOrder
<1>2. CASE \/ Jpeg!FillInputBuffer \/ Jpeg!Take \/ Jpeg!SkipBuffer \/ Jpeg!SkipRest
           \/ \E n \in 1 .. MaxLength : Jpeg!SkipInputData(n)
  <2>1. state = "running" /\ jpegIo.kind # "obuf"
    BY <1>2 DEF Jpeg!FillInputBuffer, Jpeg!Take, Jpeg!SkipBuffer, Jpeg!SkipRest, Jpeg!SkipInputData, Jpeg!Reading
  <2>2. SourceInv
    BY <2>1, SourceSuffices
  <2>3. SourceInv'
    BY <1>2, <2>1, <2>2, SourceSteps
  <2> QED BY <2>3 DEF SourceInv, JpegInv
<1>3. CASE Jpeg!Terminate \/ \E b \in Byte : Jpeg!Emit(b)
  <2>1. state = "running" /\ jpegIo.kind = "obuf"
    BY <1>3 DEF Jpeg!Terminate, Jpeg!Emit, Jpeg!Writing
  <2>2. DestinationInv
    BY <2>1, DestinationSuffices
  <2>3. DestinationInv'
    BY <1>3, <2>1, <2>2, DestinationSteps
  <2> QED BY <2>3 DEF DestinationInv, JpegInv
<1>4. CASE Jpeg!Stopped \/ Jpeg!ReadEnough
  BY <1>1, <1>4 DEF Jpeg!Stopped, Jpeg!ReadEnough
<1> QED BY <1>1, <1>2, <1>3, <1>4 DEF Jpeg!Next, Jpeg!Skipping

\* libjpeg is given the bytes of an io in order, across all refills and skips, and no end
\* of an image before the last of them; and what it emits has been written or is in the
\* buffer, and is all written when it is done, if no write fails
\* (codecs_jpeg_io.c:24-86, 99-155).
THEOREM BytesStayInOrder == NativeSafety => []StreamsMatch
<1>1. NativeInit => JpegInv
  BY NativeParts, JpegBegins
<1>2. JpegInv /\ [NativeNext]_nativeVars => JpegInv'
  BY NativeParts, JpegSteps
<1>3. JpegInv => StreamsMatch
  <2> SUFFICES ASSUME JpegInv
               PROVE  StreamsMatch
    OBVIOUS
  <2>1. ASSUME Jpeg!Reading, toSkip = 0
        PROVE  IF passed + Len(buffer) <= Len(jpegIo.buffer)
               THEN /\ jpegIo.cursor = passed + Len(buffer)
                    /\ buffer = SubSeq(jpegIo.buffer, passed + 1, jpegIo.cursor)
               ELSE jpegIo.cursor = Len(jpegIo.buffer) /\ (passed < Len(jpegIo.buffer) => buffer = <<>>)
    <3>1. BytesInOrder(jpegIo.buffer, jpegIo.cursor, buffer, passed - toSkip)
      BY <2>1 DEF JpegInv, Jpeg!Reading
    <3>2. passed - toSkip = passed /\ passed \in Nat
      BY <2>1 DEF JpegInv
    <3>3. BytesInOrder(jpegIo.buffer, jpegIo.cursor, buffer, passed)
      BY <3>1, <3>2
    <3>4. Len(jpegIo.buffer) \in Nat
      <4>1. jpegIo.buffer \in Seq(Byte)
        BY <2>1, SoundIsTyped DEF JpegInv, Jpeg!Reading
      <4> QED BY <4>1
    <3> QED BY <3>2, <3>3, <3>4 DEF BytesInOrder
  <2>2. Jpeg!SourceInOrder
    BY <2>1 DEF Jpeg!SourceInOrder
  <2>3. Jpeg!DestinationComplete
    BY DEF Jpeg!DestinationComplete, JpegInv, Content, Bytes
  <2> QED BY <2>2, <2>3 DEF StreamsMatch
<1> QED BY <1>1, <1>2, <1>3, PTL DEF NativeSafety

-----------------------------------------------------------------------------
\* The states of the five components have their types, and the cursor of an io stays in
\* what has been written, also in the io libjpeg reads or writes and when its memory runs
\* out (io.c:52-132, 190-248, 310-388).
THEOREM NativeTypesHold ==
  ASSUME ~Aborts, ~Abandons, ~Crashes, NoOddStatus
  PROVE  NativeSafety => []NativeTypeOK
<1> DEFINE Inv == part \in Parts /\ HeapInv /\ IoInv /\ JpegInv /\ DecoderInv /\ ErrorInv
<1>1. NativeInit => Inv
  BY NativeParts, HeapBegins, IoBegins, JpegBegins, DecoderBegins, ErrorBegins DEF NativeInit
<1>2. Inv /\ [NativeNext]_nativeVars => Inv'
  <2> SUFFICES ASSUME Inv, [NativeNext]_nativeVars
               PROVE  Inv'
    OBVIOUS
  <2>1. part' = part
    BY DEF NativeNext, HeapStep, IoStep, JpegStep, DecoderStep, ErrorStep, nativeVars
  <2>2. HeapInv'
    BY NativeParts, HeapSteps
  <2>3. IoInv'
    BY NativeParts, IoSteps
  <2>4. JpegInv'
    BY NativeParts, JpegSteps
  <2>5. DecoderInv'
    BY NativeParts, DecoderSteps
  <2>6. ErrorInv'
    BY NativeParts, ErrorSteps
  <2> QED BY <2>1, <2>2, <2>3, <2>4, <2>5, <2>6
<1>3. Inv => NativeTypeOK
  <2> SUFFICES ASSUME Inv
               PROVE  NativeTypeOK
    OBVIOUS
  <2>1. TypeOK
    BY HeapStates
  <2>2. Io!TypeOK
    BY SoundIsTyped DEF IoInv, Io!TypeOK
  <2>3. Io!InBounds
    BY SoundIsTyped DEF IoInv, Io!InBounds
  <2>4. Jpeg!Io!TypeOK
    BY SoundIsTyped DEF JpegInv, Jpeg!Io!TypeOK
  <2>5. Jpeg!Io!InBounds
    BY SoundIsTyped DEF JpegInv, Jpeg!Io!InBounds
  <2>6. Dec!TypeOK
    <3>1. reply.ok \in BOOLEAN
      BY DEF DecoderInv, Replies
    <3> QED BY <3>1 DEF DecoderInv, Sane, DecoderStates, Dec!TypeOK
  <2>7. Err!TypeOK
    BY DEF ErrorInv
  <2> QED BY <2>1, <2>2, <2>3, <2>4, <2>5, <2>6, <2>7 DEF NativeTypeOK
<1> HIDE DEF Inv
<1> QED BY <1>1, <1>2, <1>3, PTL DEF NativeSafety
=============================================================================
