----------------------------- MODULE ContextProofs -----------------------------
(***************************************************************************)
(* What holds of a context, of the set that lends its codecs, of its       *)
(* colour transforms, of its GIF codec and of the text of its error, for   *)
(* any number of clients' calls, io, codecs, threads, boxes and profiles,  *)
(* and any films, errors and buffers.                                      *)
(***************************************************************************)
EXTENDS MCContext, Induction

-----------------------------------------------------------------------------
(* The context.  Its codecs are described more closely than by their type:  *)
(* an encoder always has its io.                                            *)
Codec == {c \in [id : IoIds, kind : Kinds, usable : BOOLEAN] : c.kind = "encoder" => c.usable}
Why == Category \cup {"panic", "crash"}
Chain == [codecs : Seq(Codec), cError : Category, why : Why]
Healthy(cs) == \A i \in DOMAIN cs : cs[i].usable

(* What becomes of a codec in a call.                                       *)
Grows(c, d) ==
  /\ d.id = c.id /\ (d.usable => c.usable)
  /\ c.kind # "placeholder" => d = c
  /\ d.kind = "encoder" => c.usable
(* What becomes of a context in the steps of a call: codecs are kept, what  *)
(* breaks one is an error, and only a broken one ends the process.          *)
Leads(s, t) ==
  /\ t \in Chain
  /\ Len(s.codecs) <= Len(t.codecs)
  /\ \A i \in 1 .. Len(s.codecs) : Grows(s.codecs[i], t.codecs[i])
  /\ Healthy(s.codecs) => t.why # "crash"
  /\ Healthy(s.codecs) => Healthy(t.codecs) \/ t.why \in Category \ {"Ok"}

\* The categories that the calls use.
LEMMA CategoriesThereAre ==
  /\ {"Ok", "OutOfMemory", "ArgumentInvalid", "InvalidJson", "ImageMalformed", "GraphInvalid", "IoError",
      "InternalError"} \subseteq Category
  /\ "panic" \notin Category /\ "crash" \notin Category
<1>1. DOMAIN Categories = 1 .. 21
  BY DEF Categories
<1>2. /\ Categories[1] = "Ok" /\ Categories[2] = "OutOfMemory" /\ Categories[3] = "ArgumentInvalid"
      /\ Categories[4] = "InvalidJson" /\ Categories[5] = "ImageMalformed" /\ Categories[8] = "GraphInvalid"
      /\ Categories[17] = "IoError" /\ Categories[19] = "InternalError"
  BY DEF Categories
<1>3. \A i \in 1 .. 21 : Categories[i] # "panic" /\ Categories[i] # "crash"
  BY DEF Categories
<1> QED BY <1>1, <1>2, <1>3 DEF Category

\* Every kind of error that the calls raise has the category of a failure.
LEMMA KindsOfErrors ==
  /\ \A kind \in {"DuplicateIoId", "AllocationFailed", "GraphInvalid", "IoIdNotFound", "InvalidArgument", "NullArgument",
                  "GifEncodingError", "MethodNotImplemented", "InvalidMessageEndpoint", "InvalidJson"} :
       KindCategory[kind] \in Category \ {"Ok"}
  BY CategoriesThereAre DEF KindCategory

\* A call that has done nothing leads to where it began.
LEMMA LeadsToItself ==
  ASSUME NEW s \in Chain, s.why = "Ok"
  PROVE  Leads(s, s)
  BY CategoriesThereAre DEF Leads, Chain, Grows, Codec, Healthy

\* What one part of a call does and the next does after it.
LEMMA LeadsOn ==
  ASSUME NEW s \in Chain, NEW t \in Chain, NEW u \in Chain, Leads(s, t), Leads(t, u), t.why = "Ok"
  PROVE  Leads(s, u)
<1>1. \A i \in 1 .. Len(s.codecs) : i \in 1 .. Len(t.codecs) /\ s.codecs[i] \in Codec /\ t.codecs[i] \in Codec
  BY DEF Leads, Chain
<1>2. \A i \in 1 .. Len(s.codecs) : Grows(s.codecs[i], u.codecs[i])
  BY <1>1 DEF Leads, Grows
<1>3. Len(s.codecs) <= Len(u.codecs)
  BY DEF Leads, Chain
<1>4. Healthy(s.codecs) => Healthy(t.codecs)
  BY DEF Leads
<1> QED BY <1>2, <1>3, <1>4 DEF Leads

\* A call may fail anywhere.
LEMMA FailsLeads ==
  ASSUME NEW s \in Chain, NEW why \in Why, why = "crash" => ~Healthy(s.codecs), s.why = "Ok"
  PROVE  Leads(s, Fails(s, why))
  BY CategoriesThereAre DEF Leads, Fails, Chain, Grows, Codec, Why

\* A call may fail with an error of any kind.
LEMMA FailsWithLeads ==
  ASSUME NEW s \in Chain, s.why = "Ok",
         NEW kind \in {"DuplicateIoId", "AllocationFailed", "GraphInvalid", "IoIdNotFound", "InvalidArgument",
                       "GifEncodingError", "MethodNotImplemented", "InvalidMessageEndpoint", "InvalidJson"}
  PROVE  Leads(s, FailsWith(s, kind))
  BY FailsLeads, KindsOfErrors, CategoriesThereAre DEF FailsWith, Why

\* Changing one field of the state of a call.
LEMMA ChainUpdates ==
  ASSUME NEW s \in Chain, NEW x
  PROVE  /\ [s EXCEPT !.why = x] = [codecs |-> s.codecs, cError |-> s.cError, why |-> x]
         /\ [s EXCEPT !.codecs = x] = [codecs |-> x, cError |-> s.cError, why |-> s.why]
         /\ [s EXCEPT !.cError = x] = [codecs |-> s.codecs, cError |-> x, why |-> s.why]
  BY DEF Chain

\* A C component reports the error it raised first.
LEMMA FailsInCIs ==
  ASSUME NEW cs, NEW e, NEW why, NEW c
  PROVE  LET told == IF e = "Ok" THEN c ELSE e
         IN  FailsInC([codecs |-> cs, cError |-> e, why |-> why], c) = [codecs |-> cs, cError |-> told, why |-> told]
<1> DEFINE told == IF e = "Ok" THEN c ELSE e
           s == [codecs |-> cs, cError |-> e, why |-> why]
<1>1. FailsInC(s, c) = [[s EXCEPT !.cError = told] EXCEPT !.why = told]
  BY DEF FailsInC
<1> HIDE DEF told
<1>2. [s EXCEPT !.cError = told] = [codecs |-> cs, cError |-> told, why |-> why]
  OBVIOUS
<1>3. [[codecs |-> cs, cError |-> told, why |-> why] EXCEPT !.why = told] = [codecs |-> cs, cError |-> told, why |-> told]
  OBVIOUS
<1> QED BY <1>1, <1>2, <1>3 DEF told

\* A call may fail in a C component.
LEMMA FailsInCLeads ==
  ASSUME NEW s \in Chain, NEW c \in Category \ {"Ok"}
  PROVE  /\ FailsInC(s, c) \in Chain /\ Leads(s, FailsInC(s, c))
         /\ FailsInC(s, c).why \in Category \ {"Ok"} /\ FailsInC(s, c).codecs = s.codecs
<1> DEFINE told == IF s.cError = "Ok" THEN c ELSE s.cError
<1>1. told \in Category \ {"Ok"}
  BY DEF Chain
<1>2. FailsInC(s, c) = [codecs |-> s.codecs, cError |-> told, why |-> told]
  <2>1. s = [codecs |-> s.codecs, cError |-> s.cError, why |-> s.why]
    BY DEF Chain
  <2>2. FailsInC(s, c) = FailsInC([codecs |-> s.codecs, cError |-> s.cError, why |-> s.why], c)
    BY <2>1
  <2> QED BY <2>2, FailsInCIs
<1> HIDE DEF told
<1>3. FailsInC(s, c) \in Chain
  BY <1>1, <1>2 DEF Chain, Why
<1>4. \A i \in 1 .. Len(s.codecs) : Grows(s.codecs[i], s.codecs[i])
  BY DEF Chain, Grows, Codec
<1>5. Len(s.codecs) \in Nat
  BY DEF Chain
<1> QED BY <1>1, <1>2, <1>3, <1>4, <1>5, CategoriesThereAre DEF Leads

\* Checking an io_id changes nothing (context.rs:150).
LEMMA CheckIoIdLeads ==
  ASSUME NEW s \in Chain, NEW id, s.why = "Ok"
  PROVE  CheckIoId(s, id) = s
  BY DEF CheckIoId, IoIdList

\* What a context is when one codec was added to it.
WithCodec(s, codec, c, why) == [codecs |-> Append(s.codecs, codec), cError |-> c, why |-> why]

\* A codec is added, and the call fails if that is left half made.
LEMMA WithCodecLeads ==
  ASSUME NEW s \in Chain, NEW codec \in Codec, NEW c \in Category, NEW why \in Why,
         why # "crash", codec.usable \/ why \in Category \ {"Ok"}
  PROVE  WithCodec(s, codec, c, why) \in Chain /\ Leads(s, WithCodec(s, codec, c, why))
<1> DEFINE cs == Append(s.codecs, codec)
           t == WithCodec(s, codec, c, why)
<1>1. s.codecs \in Seq(Codec)
  BY DEF Chain
<1>2. /\ cs \in Seq(Codec) /\ Len(cs) = Len(s.codecs) + 1 /\ Len(s.codecs) \in Nat
      /\ \A i \in 1 .. Len(s.codecs) : cs[i] = s.codecs[i]
      /\ cs[Len(s.codecs) + 1] = codec
      /\ DOMAIN s.codecs = 1 .. Len(s.codecs) /\ DOMAIN cs = 1 .. Len(s.codecs) + 1
  BY <1>1
<1> HIDE DEF cs
<1>3. t.codecs = cs /\ t.cError = c /\ t.why = why /\ t = [codecs |-> cs, cError |-> c, why |-> why]
  BY DEF WithCodec, cs
<1> HIDE DEF t
<1>4. t \in Chain
  BY <1>2, <1>3 DEF Chain
<1>5. \A i \in 1 .. Len(s.codecs) : Grows(s.codecs[i], cs[i])
  BY <1>1, <1>2 DEF Grows, Codec
<1>6. codec.usable /\ Healthy(s.codecs) => Healthy(cs)
  BY <1>2 DEF Healthy
<1> QED BY <1>2, <1>3, <1>4, <1>5, <1>6 DEF Leads, t

\* A codec that is added comes last.
LEMMA AddCodecIs ==
  ASSUME NEW s \in Chain, NEW id, NEW kind, NEW usable
  PROVE  AddCodec(s, id, kind, usable) = WithCodec(s, [id |-> id, kind |-> kind, usable |-> usable], s.cError, s.why)
  BY ChainUpdates DEF AddCodec, WithCodec

\* Adding an output buffer adds one codec or fails.
LEMMA AddOutputLeads ==
  ASSUME NEW s \in Chain, s.why = "Ok", NEW id \in IoIds
  PROVE  Leads(s, AddOutput(s, id))
<1> DEFINE codec == [id |-> id, kind |-> "placeholder", usable |-> TRUE]
<1>1. codec \in Codec /\ codec.usable
  BY DEF Codec, Kinds
<1>2. AddOutput(s, id) = WithCodec(s, codec, s.cError, s.why)
  BY AddCodecIs, CheckIoIdLeads DEF AddOutput, Then
<1> HIDE DEF codec
<1>3. s.cError \in Category /\ s.why \in Why
  BY DEF Chain
<1> QED BY <1>1, <1>2, <1>3, WithCodecLeads

\* Adding an io adds one codec, and may fail when it has done so.
LEMMA AddIoLeads ==
  ASSUME NEW s \in Chain, s.why = "Ok", NEW id \in IoIds, NEW input
  PROVE  Leads(s, AddIo(s, id, input))
<1> DEFINE codec(usable) == [id |-> id, kind |-> "decoder", usable |-> usable]
<1>0. {"InternalError", "IoError", "ImageMalformed", "Ok"} \subseteq Category /\ "crash" # "Ok" /\ s.cError \in Category /\ s.why \in Why
  BY CategoriesThereAre DEF Chain
<1>1. \A usable \in BOOLEAN : codec(usable) \in Codec /\ codec(usable).usable = usable
  BY DEF Codec, Kinds
<1>2. CASE input \in {"unknown", "short"}
  <2>1. PICK c \in Category \ {"Ok"} : Recognised(s, input) = FailsInC(s, c)
    BY <1>0, <1>2 DEF Recognised
  <2>2. AddIo(s, id, input) = FailsInC(s, c)
    BY <1>0, <2>1, FailsInCLeads DEF AddIo, Then
  <2> QED BY <2>1, <2>2, FailsInCLeads
<1>3. CASE input = "malformed"
  <2>1. Recognised(s, input) = s
    BY <1>3 DEF Recognised
  <2> DEFINE t == WithCodec(s, codec(FALSE), s.cError, s.why)
  <2>2. AddIo(s, id, input) = FailsInC(t, "ImageMalformed")
    BY <1>3, <2>1, AddCodecIs DEF AddIo, Then, Initialized
  <2> DEFINE told == IF s.cError = "Ok" THEN "ImageMalformed" ELSE s.cError
  <2>3. FailsInC(t, "ImageMalformed") = WithCodec(s, codec(FALSE), told, told)
    BY FailsInCIs DEF WithCodec
  <2>4. told \in Category \ {"Ok"} /\ told \in Why /\ told # "crash"
    BY <1>0, CategoriesThereAre DEF Why
  <2>5. codec(FALSE) \in Codec
    BY <1>1
  <2> HIDE DEF t, codec, told
  <2> QED BY <2>2, <2>3, <2>4, <2>5, WithCodecLeads
<1>4. CASE input \notin {"unknown", "short", "malformed"}
  <2>1. AddIo(s, id, input) = WithCodec(s, codec(TRUE), s.cError, s.why)
    BY <1>4, AddCodecIs DEF AddIo, Then, Recognised, Initialized
  <2>2. codec(TRUE) \in Codec /\ codec(TRUE).usable
    BY <1>1
  <2> HIDE DEF codec
  <2> QED BY <1>0, <2>1, <2>2, WithCodecLeads
<1> QED BY <1>2, <1>3, <1>4

\* Adding an input buffer adds one codec or fails.
LEMMA AddInputLeads ==
  ASSUME NEW s \in Chain, s.why = "Ok", NEW id \in IoIds, NEW input
  PROVE  Leads(s, AddInput(s, id, input))
<1>1. CASE input = "no_memory"
  <2> DEFINE t == FailsInC(s, "OutOfMemory")
             u == FailsWith(t, "AllocationFailed")
  <2>1. "OutOfMemory" \in Category \ {"Ok"} /\ KindCategory["AllocationFailed"] \in Category \ {"Ok"}
    BY CategoriesThereAre, KindsOfErrors
  <2>2. t \in Chain /\ t.codecs = s.codecs
    BY <2>1, FailsInCLeads
  <2> HIDE DEF t
  <2>3. u = [codecs |-> s.codecs, cError |-> t.cError, why |-> KindCategory["AllocationFailed"]]
    <3>1. u = [t EXCEPT !.why = KindCategory["AllocationFailed"]]
      BY DEF FailsWith, Fails
    <3> QED BY <2>2, <3>1, ChainUpdates
  <2>4. AddInput(s, id, input) = u
    BY <1>1, <2>1, <2>3, CheckIoIdLeads DEF AddInput, Then, Wrapped, t
  <2>5. u.codecs = s.codecs /\ u.cError = t.cError /\ u.why = KindCategory["AllocationFailed"]
    BY <2>3
  <2> HIDE DEF u
  <2>6. u \in Chain
    BY <2>1, <2>2, <2>3 DEF Chain, Why
  <2>7. Len(s.codecs) \in Nat /\ \A i \in 1 .. Len(s.codecs) : Grows(s.codecs[i], s.codecs[i])
    BY DEF Chain, Grows, Codec
  <2> QED BY <2>1, <2>4, <2>5, <2>6, <2>7, CategoriesThereAre DEF Leads
<1>2. CASE input # "no_memory"
  <2>1. AddInput(s, id, input) = AddIo(s, id, input)
    BY <1>2, CheckIoIdLeads DEF AddInput, Then, Wrapped
  <2> QED BY <2>1, AddIoLeads
<1> QED BY <1>1, <1>2

\* Adding what a build message lists adds one codec or fails.
LEMMA AddObjectLeads ==
  ASSUME NEW s \in Chain, s.why = "Ok", NEW o, o.id \in IoIds
  PROVE  Leads(s, AddObject(s, o))
<1>1. CASE o.io = "output"
  BY <1>1, AddOutputLeads DEF AddObject
<1>2. CASE o.io = "placeholder"
  <2>1. AddObject(s, o) = FailsWith(s, "GraphInvalid")
    BY <1>2 DEF AddObject
  <2> QED BY <2>1, FailsWithLeads
<1>3. CASE o.io = "not_base64"
  <2>1. AddObject(s, o) = Fails(s, "panic")
    BY <1>3 DEF AddObject
  <2> QED BY <2>1, FailsLeads DEF Why
<1>4. CASE o.io \notin {"output", "placeholder", "not_base64"}
  <2>1. AddObject(s, o) = AddInput(s, o.id, o.io)
    BY <1>4 DEF AddObject
  <2> QED BY <2>1, AddInputLeads
<1> QED BY <1>1, <1>2, <1>3, <1>4

\* The io of a message are added one after the other, up to the first that fails.
LEMMA AddAllLeads ==
  ASSUME NEW s \in Chain, s.why = "Ok", NEW objects, Len(objects) \in Nat,
         \A i \in 1 .. Len(objects) : objects[i].id \in IoIds
  PROVE  Leads(s, AddAll(s, objects))
<1> DEFINE n == Len(objects)
           Next1(c, i) == IF c.why = "Ok" THEN AddObject(c, objects[i]) ELSE c
           Defines(f) == f = [i \in 0 .. n |-> IF i = 0 THEN s ELSE Next1(f[i - 1], i)]
           upto == CHOOSE f : Defines(f)
           step == [i \in 1 .. n |-> [c \in Chain |-> Next1(c, i)]]
<1>1. step \in [1 .. n -> [Chain -> Chain]]
  <2>1. ASSUME NEW i \in 1 .. n, NEW c \in Chain
        PROVE  Next1(c, i) \in Chain
    BY AddObjectLeads DEF Leads
  <2> HIDE DEF Next1
  <2> QED BY <2>1
<1>2. PICK f \in [0 .. n -> Chain] : f[0] = s /\ \A i \in 1 .. n : f[i] = step[i][f[i - 1]]
  <2> HIDE DEF step, n
  <2>1. n \in Nat /\ s \in Chain
    BY DEF n
  <2>2. \E f : IsStepByStep(f, n, Chain, s, step)
    BY <1>1, <2>1, StepByStep
  <2> QED BY <2>2 DEF IsStepByStep
<1>3. Defines(f)
  <2>1. ASSUME NEW i \in 1 .. n
        PROVE  f[i] = Next1(f[i - 1], i)
    <3>1. f[i - 1] \in Chain
      BY <1>2
    <3> HIDE DEF Next1
    <3> QED BY <1>2, <3>1
  <2> HIDE DEF Next1
  <2>2. f = [i \in 0 .. n |-> f[i]]
    BY <1>2
  <2>3. \A i \in 0 .. n : f[i] = IF i = 0 THEN s ELSE Next1(f[i - 1], i)
    BY <1>2, <2>1
  <2> QED BY <2>2, <2>3
<1>4. Defines(upto)
  <2> HIDE DEF Defines
  <2> QED BY <1>3
<1>5. AddAll(s, objects) = upto[n]
  BY DEF AddAll, Then
<1> HIDE DEF upto
<1> DEFINE Good == {i \in 0 .. n : Leads(s, upto[i])}
<1>6. 0 \in Good
  BY <1>4, LeadsToItself
<1>7. \A i \in 0 .. n - 1 : i \in Good => i + 1 \in Good
  <2> SUFFICES ASSUME NEW i \in 0 .. n - 1, i \in Good
               PROVE  i + 1 \in Good
    OBVIOUS
  <2>1. upto[i + 1] = Next1(upto[i], i + 1) /\ i + 1 \in 1 .. n
    BY <1>4
  <2>2. Leads(s, upto[i]) /\ upto[i] \in Chain
    BY DEF Leads
  <2>3. CASE upto[i].why = "Ok"
    <3>1. Leads(upto[i], upto[i + 1])
      BY <2>1, <2>2, <2>3, AddObjectLeads
    <3>2. upto[i + 1] \in Chain
      BY <3>1 DEF Leads
    <3> QED BY <2>1, <2>2, <2>3, <3>1, <3>2, LeadsOn
  <2>4. CASE upto[i].why # "Ok"
    BY <2>1, <2>2, <2>4
  <2> QED BY <2>3, <2>4
<1>8. n \in Good
  <2> HIDE DEF Good, n
  <2>1. n \in Nat
    BY DEF n
  <2>2. \A i \in 0 .. n : i \in Good
    BY <1>6, <1>7, <2>1, InductionUpTo
  <2> QED BY <2>1, <2>2
<1> QED BY <1>5, <1>8

\* The codec of an io_id is the first with that id.
LEMMA GetCodecFinds ==
  ASSUME NEW s, s.codecs \in Seq(Codec), NEW id
  PROVE  LET i == GetCodec(s, id)
         IN  \/ i = NoCodec /\ \A j \in 1 .. Len(s.codecs) : s.codecs[j].id # id
             \/ /\ i \in 1 .. Len(s.codecs) /\ s.codecs[i].id = id
                /\ \A j \in 1 .. i - 1 : s.codecs[j].id # id
<1> DEFINE with == {i \in 1 .. Len(s.codecs) : s.codecs[i].id = id}
<1>1. Len(s.codecs) \in Nat /\ DOMAIN s.codecs = 1 .. Len(s.codecs)
  OBVIOUS
<1>2. GetCodec(s, id) = IF with = {} THEN NoCodec ELSE CHOOSE i \in with : \A j \in with : i <= j
  BY <1>1 DEF GetCodec
<1>3. CASE with = {}
  BY <1>2, <1>3
<1>4. CASE with # {}
  <2>1. with \in SUBSET Nat
    BY <1>1
  <2>2. \E i \in with : \A j \in with : i <= j
    <3> HIDE DEF with
    <3> QED BY <1>4, <2>1, LeastNumber
  <2>3. GetCodec(s, id) \in with /\ \A j \in with : GetCodec(s, id) <= j
    <3> HIDE DEF with
    <3> QED BY <1>2, <1>4, <2>2
  <2> QED BY <2>1, <2>3, <1>1
<1> QED BY <1>3, <1>4

\* Using a decoder changes no codec.
LEMMA UseDecoderLeads ==
  ASSUME NEW s \in Chain, s.why = "Ok", NEW id
  PROVE  Leads(s, UseDecoder(s, id)) /\ UseDecoder(s, id).codecs = s.codecs
<1> DEFINE i == GetCodec(s, id)
           t == UseDecoder(s, id)
<1>1. s.codecs \in Seq(Codec)
  BY DEF Chain
<1>2. i = NoCodec \/ i \in 1 .. Len(s.codecs)
  BY <1>1, GetCodecFinds
<1>3. t = FailsWith(s, "IoIdNotFound") \/ t = FailsWith(s, "InvalidArgument") \/ t = s
      \/ (t = Fails(s, "crash") /\ i \in 1 .. Len(s.codecs) /\ ~s.codecs[i].usable)
  <2> HIDE DEF i
  <2>1. t = CASE i = NoCodec -> FailsWith(s, "IoIdNotFound")
              [] i # NoCodec /\ s.codecs[i].kind # "decoder" -> FailsWith(s, "InvalidArgument")
              [] i # NoCodec /\ s.codecs[i].kind = "decoder" -> IF s.codecs[i].usable THEN s ELSE Fails(s, "crash")
    BY DEF UseDecoder, i
  <2> HIDE DEF t
  <2>2. CASE i = NoCodec
    BY <2>1, <2>2
  <2>3. CASE i # NoCodec /\ s.codecs[i].kind # "decoder"
    BY <2>1, <2>3
  <2>4. CASE i # NoCodec /\ s.codecs[i].kind = "decoder"
    BY <2>1, <2>4, <1>2
  <2> QED BY <2>2, <2>3, <2>4
<1> HIDE DEF t, i
<1>4. \A x : Fails(s, x).codecs = s.codecs
  BY ChainUpdates DEF Fails
<1>5. t.codecs = s.codecs
  BY <1>3, <1>4 DEF FailsWith
<1>6. CASE t = Fails(s, "crash") /\ i \in 1 .. Len(s.codecs) /\ ~s.codecs[i].usable
  <2>1. ~Healthy(s.codecs)
    BY <1>1, <1>6 DEF Healthy
  <2>2. Leads(s, t)
    BY <1>6, <2>1, FailsLeads DEF Why
  <2> QED BY <1>5, <2>2 DEF t
<1>7. CASE t = FailsWith(s, "IoIdNotFound") \/ t = FailsWith(s, "InvalidArgument") \/ t = s
  <2>1. Leads(s, t)
    BY <1>7, FailsWithLeads, LeadsToItself
  <2> QED BY <1>5, <2>1 DEF t
<1> QED BY <1>3, <1>6, <1>7

\* One codec changes as codecs may.
LEMMA ChangedCodecLeads ==
  ASSUME NEW s \in Chain, NEW i \in 1 .. Len(s.codecs), NEW d \in Codec, Grows(s.codecs[i], d),
         NEW c \in Category, NEW why \in Why, why # "crash", d.usable \/ why \in Category \ {"Ok"}
  PROVE  LET t == [codecs |-> [s.codecs EXCEPT ![i] = d], cError |-> c, why |-> why]
         IN  t \in Chain /\ Leads(s, t)
<1> DEFINE cs == [s.codecs EXCEPT ![i] = d]
           t == [codecs |-> cs, cError |-> c, why |-> why]
<1>1. s.codecs \in Seq(Codec)
  BY DEF Chain
<1>2. /\ cs \in Seq(Codec) /\ Len(cs) = Len(s.codecs) /\ Len(s.codecs) \in Nat
      /\ \A j \in 1 .. Len(s.codecs) : cs[j] = IF j = i THEN d ELSE s.codecs[j]
      /\ DOMAIN s.codecs = 1 .. Len(s.codecs) /\ DOMAIN cs = 1 .. Len(s.codecs)
  BY <1>1
<1> HIDE DEF cs
<1>3. t.codecs = cs /\ t.cError = c /\ t.why = why
  OBVIOUS
<1>4. t \in Chain
  BY <1>2 DEF Chain
<1> HIDE DEF t
<1>5. \A j \in 1 .. Len(s.codecs) : Grows(s.codecs[j], cs[j])
  <2> SUFFICES ASSUME NEW j \in 1 .. Len(s.codecs), j # i
               PROVE  Grows(s.codecs[j], s.codecs[j])
    BY <1>2
  <2> QED BY <1>1 DEF Grows, Codec
<1>6. d.usable /\ Healthy(s.codecs) => Healthy(cs)
  BY <1>2 DEF Healthy
<1> QED BY <1>2, <1>3, <1>4, <1>5, <1>6 DEF Leads, t, cs

\* A placeholder becomes an encoder, or gives its io up and the call fails.
LEMMA WriteFrameLeads ==
  ASSUME NEW s \in Chain, s.why = "Ok", NEW id, NEW encoder
  PROVE  Leads(s, WriteFrame(s, id, encoder))
<1> DEFINE i == GetCodec(s, id)
           gone == [s EXCEPT !.codecs[i].usable = FALSE]
           made == [s EXCEPT !.codecs[i].kind = "encoder"]
           write(c) == IF encoder = "fails" THEN FailsInC(c, "IoError") ELSE c
           become == IF encoder = "not_created" THEN FailsWith(gone, "GifEncodingError") ELSE made
           t == WriteFrame(s, id, encoder)
<1>0. s.codecs \in Seq(Codec) /\ s.cError \in Category
  BY DEF Chain
<1>1. i = NoCodec \/ i \in 1 .. Len(s.codecs)
  BY <1>0, GetCodecFinds
<1>2. i \in 1 .. Len(s.codecs) => s.codecs[i] \in Codec /\ s.codecs[i].kind \in {"placeholder", "decoder", "encoder"}
  BY <1>0 DEF Codec, Kinds
<1>3. ASSUME NEW c \in Chain, Leads(s, c), c.why = "Ok"
      PROVE  Leads(s, write(c))
  BY <1>3, FailsInCLeads, CategoriesThereAre, LeadsOn
<1>4. t = CASE i = NoCodec -> FailsWith(s, "IoIdNotFound")
            [] i # NoCodec /\ s.codecs[i].kind = "placeholder" ->
                 IF s.codecs[i].usable THEN (IF become.why = "Ok" THEN write(become) ELSE become) ELSE Fails(s, "panic")
            [] i # NoCodec /\ s.codecs[i].kind = "encoder" -> write(s)
            [] i # NoCodec /\ s.codecs[i].kind = "decoder" -> FailsWith(s, "MethodNotImplemented")
  BY DEF WriteFrame, Then
<1> HIDE DEF t, write
<1>5. CASE i = NoCodec \/ (i # NoCodec /\ s.codecs[i].kind = "decoder")
  <2>1. t = FailsWith(s, "IoIdNotFound") \/ t = FailsWith(s, "MethodNotImplemented")
    <3> HIDE DEF i, become
    <3> QED BY <1>4, <1>5
  <2> QED BY <2>1, FailsWithLeads DEF t
<1>6. CASE i # NoCodec /\ s.codecs[i].kind = "encoder"
  <2>1. t = write(s)
    <3> HIDE DEF i, become
    <3> QED BY <1>4, <1>6
  <2> QED BY <2>1, <1>3, LeadsToItself DEF t
<1>7. CASE i # NoCodec /\ s.codecs[i].kind = "placeholder" /\ ~s.codecs[i].usable
  <2>1. t = Fails(s, "panic")
    <3> HIDE DEF i, become
    <3> QED BY <1>4, <1>7
  <2> QED BY <2>1, FailsLeads DEF t, Why
<1>8. CASE i # NoCodec /\ s.codecs[i].kind = "placeholder" /\ s.codecs[i].usable
  <2>1. t = IF become.why = "Ok" THEN write(become) ELSE become
    <3> HIDE DEF i, become
    <3> QED BY <1>4, <1>8
  <2> DEFINE d == [s.codecs[i] EXCEPT !.usable = FALSE]
             e == [s.codecs[i] EXCEPT !.kind = "encoder"]
  <2>2. i \in 1 .. Len(s.codecs) /\ s.codecs[i] \in Codec
    BY <1>1, <1>2, <1>8
  <2>3. d \in Codec /\ e \in Codec /\ Grows(s.codecs[i], d) /\ Grows(s.codecs[i], e) /\ e.usable
    <3> HIDE DEF i
    <3> QED BY <2>2, <1>8 DEF Codec, Grows, Kinds
  <2>4. /\ gone = [s EXCEPT !.codecs = [s.codecs EXCEPT ![i] = d]]
        /\ made = [s EXCEPT !.codecs = [s.codecs EXCEPT ![i] = e]]
    <3> HIDE DEF i
    <3> QED BY <2>2 DEF Chain
  <2> HIDE DEF i, d, e, gone, made
  <2>5. /\ gone = [codecs |-> [s.codecs EXCEPT ![i] = d], cError |-> s.cError, why |-> s.why]
        /\ made = [codecs |-> [s.codecs EXCEPT ![i] = e], cError |-> s.cError, why |-> s.why]
    BY <2>4, ChainUpdates
  <2>6. CASE encoder = "not_created"
    <3> DEFINE why == KindCategory["GifEncodingError"]
    <3>1. why \in Category \ {"Ok"} /\ why # "crash" /\ why \in Why
      BY KindsOfErrors, CategoriesThereAre DEF Why
    <3>2. become = [gone EXCEPT !.why = why]
      BY <2>6 DEF FailsWith, Fails
    <3> HIDE DEF why
    <3>3. become = [codecs |-> [s.codecs EXCEPT ![i] = d], cError |-> s.cError, why |-> why]
      BY <2>5, <3>2
    <3>4. Leads(s, become)
      <4> HIDE DEF become
      <4> QED BY <1>0, <2>2, <2>3, <3>1, <3>3, ChangedCodecLeads
    <3>5. become.why = why
      BY <3>3
    <3> QED BY <2>1, <3>1, <3>4, <3>5 DEF t
  <2>7. CASE encoder # "not_created"
    <3>1. become = made
      BY <2>7
    <3>2. made \in Chain /\ Leads(s, made)
      BY <1>0, <2>2, <2>3, <2>5, ChangedCodecLeads, CategoriesThereAre DEF Why
    <3>3. made.why = "Ok"
      BY <2>5
    <3> QED BY <1>3, <2>1, <3>1, <3>2, <3>3 DEF t
  <2> QED BY <2>6, <2>7
<1>9. i # NoCodec => s.codecs[i].kind \in {"placeholder", "decoder", "encoder"}
  BY <1>1, <1>2
<1> QED BY <1>5, <1>6, <1>7, <1>8, <1>9

\* Executing a job starts encoders and may fail anywhere in it.
LEMMA ExecuteLeads ==
  ASSUME NEW s \in Chain, s.why = "Ok", NEW job \in Jobs
  PROVE  Leads(s, Execute(s, job))
<1> DEFINE t == UseDecoder(s, job.from)
           u == WriteFrame(t, job.to, job.encoder)
<1>1. CASE job.graph = "invalid"
  BY <1>1, FailsWithLeads DEF Execute
<1>2. CASE job.graph = "panics"
  BY <1>2, FailsLeads DEF Execute, Why
<1>3. CASE job.graph = "valid"
  <2>1. Leads(s, t) /\ t \in Chain
    BY UseDecoderLeads DEF Leads
  <2>2. t.why = "Ok" => Leads(t, u) /\ u \in Chain
    BY <2>1, WriteFrameLeads DEF Leads
  <2>3. Execute(s, job) = IF t.why = "Ok" THEN u ELSE t
    BY <1>3 DEF Execute, Then
  <2> HIDE DEF t, u
  <2> QED BY <2>1, <2>2, <2>3, LeadsOn
<1> QED BY <1>1, <1>2, <1>3, ContextAssumption

\* Getting an output buffer changes nothing.
LEMMA OutputBufferLeads ==
  ASSUME NEW s \in Chain, s.why = "Ok", NEW id
  PROVE  Leads(s, OutputBuffer(s, id))
<1>1. OutputBuffer(s, id) \in {FailsWith(s, "IoIdNotFound"), s, FailsWith(s, "MethodNotImplemented"), Fails(s, "panic")}
  <2> DEFINE i == GetCodec(s, id)
  <2> HIDE DEF i
  <2>1. OutputBuffer(s, id) =
          CASE i = NoCodec -> FailsWith(s, "IoIdNotFound")
            [] i # NoCodec /\ s.codecs[i].kind = "encoder" -> s
            [] i # NoCodec /\ s.codecs[i].kind = "placeholder" /\ s.codecs[i].usable -> FailsWith(s, "MethodNotImplemented")
            [] OTHER -> Fails(s, "panic")
    BY DEF OutputBuffer, i
  <2> QED BY <2>1
<1> QED BY <1>1, FailsWithLeads, FailsLeads, LeadsToItself DEF Why

-----------------------------------------------------------------------------
(* The calls.  A call that is made ends with what its steps lead to.        *)
ContextTypes ==
  /\ phase \in {"ready", "terminating", "destroyed", "aborted"}
  /\ codecs \in Seq(Codec) /\ Len(codecs) <= MaxCodecs
  /\ cError \in Category /\ outward \in [category : Category, error : BOOLEAN, panic : BOOLEAN]
  /\ outward.error => HasError(outward)
  /\ response.failed \in BOOLEAN /\ cleared \in BOOLEAN

\* Where every call begins, and what a null argument leads to.
LEMMA StartIs ==
  ASSUME ContextTypes
  PROVE  /\ Start \in Chain /\ Start.why = "Ok" /\ Start.codecs = codecs /\ Leads(Start, Start)
         /\ ArgumentFails.codecs = codecs /\ ArgumentFails.why \in Category \ {"Ok"} /\ Leads(Start, ArgumentFails)
<1>1. Start \in Chain /\ Start.why = "Ok" /\ Start.codecs = codecs
  BY CategoriesThereAre DEF Start, Chain, ContextTypes, Why
<1>2. KindCategory["NullArgument"] \in Category \ {"Ok"} /\ KindCategory["NullArgument"] \in Why
  BY KindsOfErrors DEF Why
<1>3. ArgumentFails = Fails(Start, KindCategory["NullArgument"])
  BY DEF ArgumentFails, Fails
<1>4. ArgumentFails.codecs = codecs /\ ArgumentFails.why = KindCategory["NullArgument"]
  BY <1>1, <1>3, ChainUpdates DEF Fails
<1> QED BY <1>1, <1>2, <1>3, <1>4, LeadsToItself, FailsLeads, CategoriesThereAre

\* Whatever fails when there is no memory for an answer, that is the error.
LEMMA NoMemoryLeads ==
  ASSUME NEW s \in Chain, NEW t, Leads(s, t)
  PROVE  Leads(s, FailsWith(FailsInC(t, "OutOfMemory"), "AllocationFailed"))
<1> DEFINE u == FailsInC(t, "OutOfMemory")
           why == KindCategory["AllocationFailed"]
           v == [codecs |-> t.codecs, cError |-> u.cError, why |-> why]
<1>1. t \in Chain
  BY DEF Leads
<1>2. u \in Chain /\ u.codecs = t.codecs
  BY <1>1, FailsInCLeads, CategoriesThereAre
<1>3. why \in Category \ {"Ok"} /\ why \in Why /\ why # "crash"
  BY KindsOfErrors, CategoriesThereAre DEF Why
<1> HIDE DEF u, why
<1>4. [u EXCEPT !.why = why] = v
  <2>1. [u EXCEPT !.why = why] = [codecs |-> u.codecs, cError |-> u.cError, why |-> why]
    BY <1>2, ChainUpdates
  <2> QED BY <1>2, <2>1
<1>5. FailsWith(u, "AllocationFailed") = v
  BY <1>4 DEF FailsWith, Fails, why
<1>6. v.codecs = t.codecs /\ v.why = why /\ v \in Chain
  BY <1>1, <1>2, <1>3 DEF Chain
<1> HIDE DEF v
<1>7. Leads(s, v)
  BY <1>3, <1>6 DEF Leads
<1> QED BY <1>5, <1>7 DEF u

Made(call) == \E s, status : Leads(Start, s) /\ Finish(call, s, status)

\* Every answer to a message is a call.
LEMMA AnswerIsMade ==
  ASSUME ContextTypes, NEW call, NEW s, NEW status, Leads(Start, s), Answered(call, s, status)
  PROVE  Made(call)
  BY StartIs, NoMemoryLeads DEF Answered, Made

\* Adding an input buffer is a call.
LEMMA AddInputIsMade ==
  ASSUME ContextTypes, AddInputBuffer
  PROVE  Made("add_input")
  BY StartIs, AddInputLeads DEF AddInputBuffer, Made

\* Adding and getting an output buffer are calls.
LEMMA OutputIsMade ==
  ASSUME ContextTypes, AddOutputBuffer \/ GetOutputBuffer
  PROVE  Made("add_output") \/ Made("get_output")
  BY StartIs, AddOutputLeads, OutputBufferLeads DEF AddOutputBuffer, GetOutputBuffer, Made

\* Running out of memory is a call that fails.
LEMMA MemoryIsMade ==
  ASSUME ContextTypes, FailingMemory
  PROVE  Made("memory")
<1>1. PICK c \in {"OutOfMemory", "InternalError"} :
        Finish("memory", [FailsInC(Start, c) EXCEPT !.why = "Ok"], NoAnswer)
  BY DEF FailingMemory
<1> DEFINE t == FailsInC(Start, c)
           u == [codecs |-> t.codecs, cError |-> t.cError, why |-> "Ok"]
<1>2. t \in Chain /\ t.codecs = codecs
  BY StartIs, FailsInCLeads, CategoriesThereAre
<1> HIDE DEF t
<1>3. [t EXCEPT !.why = "Ok"] = u
  BY <1>2, ChainUpdates
<1>4. u \in Chain /\ u.codecs = codecs /\ u.why = "Ok"
  BY <1>2, CategoriesThereAre DEF Chain, Why
<1> HIDE DEF u
<1>5. Leads(Start, u)
  BY <1>4, StartIs DEF Leads
<1> QED BY <1>1, <1>3, <1>5 DEF Made, t

\* Sending a message is a call, whatever the message.
LEMMA SendJsonIsMade ==
  ASSUME ContextTypes, SendJson
  PROVE  \E call : Made(call)
<1>1. CASE Guarded /\ Finish("send_json", ArgumentFails, NoAnswer)
  BY <1>1, StartIs DEF Made
<1>2. CASE \/ Answered("unknown_method", FailsWith(Start, "InvalidMessageEndpoint"), 404)
           \/ Answered("brew_coffee", Start, 418)
           \/ Answered("send_json", FailsWith(Start, "InvalidJson"), HttpStatus("InvalidJson"))
  BY <1>2, StartIs, FailsWithLeads, AnswerIsMade
<1>3. ASSUME NEW id, NEW status, Answered("send_json", UseDecoder(Start, id), status)
      PROVE  Made("send_json")
  BY <1>3, StartIs, UseDecoderLeads, AnswerIsMade
<1>4. ASSUME NEW job \in Jobs, NEW objects \in IoLists \cup {<<>>}, NEW status, NEW s, Answered("send_json", s, status),
             \/ s = Execute(Start, job)
             \/ s = IF AddAll(Start, objects).why = "Ok" THEN Execute(AddAll(Start, objects), job) ELSE AddAll(Start, objects)
      PROVE  Made("send_json")
  <2> DEFINE t == AddAll(Start, objects)
  <2>1. Len(objects) \in Nat /\ \A i \in 1 .. Len(objects) : objects[i].id \in IoIds
    <3>1. CASE objects = <<>>
      BY <3>1
    <3>2. CASE objects \in IoLists
      <4> DEFINE Objects == [id : IoIds, io : STRING]
      <4>1. objects \in Seq(Objects)
        BY <3>2, ContextAssumption
      <4>2. \A o \in Objects : o.id \in IoIds
        OBVIOUS
      <4> HIDE DEF Objects
      <4> QED BY <4>1, <4>2
    <3> QED BY <3>1, <3>2
  <2>2. Leads(Start, t) /\ t \in Chain
    BY <2>1, StartIs, AddAllLeads DEF Leads
  <2>3. t.why = "Ok" => Leads(t, Execute(t, job)) /\ Execute(t, job) \in Chain
    BY <2>2, ExecuteLeads DEF Leads
  <2>4. Leads(Start, Execute(Start, job))
    BY StartIs, ExecuteLeads
  <2> HIDE DEF t
  <2>5. t.why = "Ok" => Leads(Start, Execute(t, job))
    BY <2>2, <2>3, StartIs, LeadsOn
  <2>6. Leads(Start, s)
    BY <1>4, <2>2, <2>4, <2>5 DEF t
  <2> QED BY <1>4, <2>6, AnswerIsMade
<1> QED BY <1>1, <1>2, <1>3, <1>4 DEF SendJson, Then

\* What every step does to the codecs, until the context goes.
KeepsCodecs ==
  \/ codecs' = <<>>
  \/ /\ codecs' \in Seq(Codec) /\ Len(codecs) <= Len(codecs')
     /\ \A i \in 1 .. Len(codecs) : Grows(codecs[i], codecs'[i])

\* A call that ends keeps the types, and codecs as they have to stay.
LEMMA FinishKeeps ==
  ASSUME ContextTypes, phase = "ready", NEW call, NEW s, NEW status, Leads(Start, s), Finish(call, s, status)
  PROVE  /\ ContextTypes' /\ KeepsCodecs
<1>1. /\ s \in Chain /\ codecs' = s.codecs /\ Start.codecs = codecs /\ cError' = s.cError
      /\ Len(s.codecs) <= MaxCodecs
  BY StartIs DEF Leads, Finish
<1>2. codecs' \in Seq(Codec) /\ cError' \in Category /\ s.why \in Why
  BY <1>1 DEF Chain
<1>3. KeepsCodecs
  BY <1>1, <1>2 DEF KeepsCodecs, Leads
<1>4. outward' \in [category : Category, error : BOOLEAN, panic : BOOLEAN] /\ (outward'.error => HasError(outward)')
  <2>1. CASE ~Guarded \/ s.why \in {"Ok", "crash"}
    BY <2>1 DEF Finish, Handled, ContextTypes, HasError
  <2>2. CASE Guarded /\ s.why = "panic"
    <3>1. outward' = TrySetPanicError(outward)
      BY <2>2 DEF Finish, Handled
    <3> QED BY <3>1, CategoriesThereAre DEF TrySetPanicError, ContextTypes, HasError
  <2>3. CASE Guarded /\ s.why \notin {"Ok", "crash", "panic"}
    <3>1. outward' = TrySetError(outward, s.why)
      BY <2>3 DEF Finish, Handled
    <3>2. s.why \in Category \ {"Ok"}
      BY <1>2, <2>3 DEF Why
    <3> QED BY <3>1, <3>2 DEF TrySetError, ContextTypes, HasError
  <2> QED BY <2>1, <2>2, <2>3
<1>5. phase' \in {"ready", "aborted"} /\ response'.failed \in BOOLEAN /\ cleared' \in BOOLEAN
  BY DEF Finish, ContextTypes
<1> QED BY <1>1, <1>2, <1>3, <1>4, <1>5 DEF ContextTypes

\* When the client goes through the C functions: what is broken is an error that
\* cannot be cleared, and what failed is seen.
ErrorsAreTold ==
  /\ outward.panic => HasError(outward) \/ cleared
  /\ phase = "ready" => Healthy(codecs) \/ outward.error
  /\ FailureIsSeen

\* A call that ends keeps the outward error in step with what happened.
LEMMA FinishTells ==
  ASSUME Guarded, ContextTypes, ErrorsAreTold, phase = "ready", NEW call, NEW s, NEW status, Leads(Start, s),
         Finish(call, s, status), HasError(outward) => s.why \in Category \ {"Ok"} /\ s.codecs = codecs
  PROVE  ErrorsAreTold' /\ phase' # "aborted" /\ (outward.error => outward' = outward)
<1>1. /\ s \in Chain /\ codecs' = s.codecs /\ Start.codecs = codecs /\ s.why \in Why
      /\ outward' = Handled(outward, s.why) /\ cleared' = cleared /\ response'.failed = (s.why # "Ok")
      /\ phase' = IF s.why = "crash" THEN "aborted" ELSE phase
  BY StartIs DEF Leads, Finish, Chain
<1>2. ~HasError(outward) => Healthy(codecs) /\ ~outward.error
  BY DEF ErrorsAreTold, ContextTypes
<1>3. s.why # "crash"
  BY <1>1, <1>2, CategoriesThereAre DEF Leads
<1>4. Healthy(codecs') \/ s.why \in Category \ {"Ok"}
  BY <1>1, <1>2 DEF Leads
<1>5. CASE s.why = "Ok"
  <2>1. outward' = outward /\ ~HasError(outward)
    BY <1>1, <1>5 DEF Handled
  <2>2. Healthy(codecs')
    BY <1>4, <1>5
  <2> QED BY <1>1, <1>5, <1>2, <2>1, <2>2 DEF ErrorsAreTold, FailureIsSeen, HasError
<1>6. CASE s.why = "panic"
  <2>1. outward' = TrySetPanicError(outward) /\ ~HasError(outward) /\ Healthy(codecs')
    BY <1>1, <1>4, <1>6, CategoriesThereAre DEF Handled
  <2>2. outward.panic => cleared
    BY <2>1 DEF ErrorsAreTold
  <2>3. outward'.panic /\ (HasError(outward)' \/ cleared')
    BY <1>1, <2>1, <2>2 DEF TrySetPanicError, HasError, ContextTypes
  <2> QED BY <1>1, <1>2, <1>3, <2>1, <2>3 DEF ErrorsAreTold, FailureIsSeen
<1>7. CASE s.why \in Category \ {"Ok"}
  <2>1. outward' = TrySetError(outward, s.why)
    BY <1>1, <1>7, CategoriesThereAre DEF Handled
  <2>2. outward'.error /\ HasError(outward)' /\ (outward.error => outward' = outward)
    BY <1>7, <2>1 DEF TrySetError, HasError, ContextTypes
  <2> QED BY <1>1, <1>3, <2>2 DEF ErrorsAreTold, FailureIsSeen, ContextTypes
<1> QED BY <1>1, <1>3, <1>5, <1>6, <1>7 DEF Why

-----------------------------------------------------------------------------
(* The steps.                                                               *)
Call ==
  AddInputBuffer \/ AddOutputBuffer \/ GetOutputBuffer \/ SendJson \/ FailingMemory

\* Every call is made by a context that may be called.
LEMMA CallIsMade ==
  ASSUME ContextTypes, Call
  PROVE  MayCall /\ \E call : Made(call)
<1>1. MayCall
  BY DEF Call, AddInputBuffer, AddOutputBuffer, GetOutputBuffer, SendJson, FailingMemory
<1> QED BY <1>1, AddInputIsMade, OutputIsMade, SendJsonIsMade, MemoryIsMade DEF Call

\* A context without codecs is healthy.
LEMMA NoCodecs == <<>> \in Seq(Codec) /\ Len(<<>>) = 0 /\ Len(<<>>) <= MaxCodecs /\ Healthy(<<>>)
<1>1. <<>> \in Seq(Codec) /\ Len(<<>>) = 0 /\ DOMAIN <<>> = {}
  OBVIOUS
<1> QED BY <1>1, ContextAssumption DEF Healthy

\* The invariants hold of a new context.
LEMMA ContextInitHolds ==
  ASSUME Init
  PROVE  ContextTypes /\ ErrorsAreTold
<1>1. codecs \in Seq(Codec) /\ Len(codecs) <= MaxCodecs /\ Healthy(codecs)
  BY NoCodecs DEF Init
<1>2. /\ phase = "ready" /\ cError = "Ok" /\ ~cleared /\ ~response.failed
      /\ response.failed \in BOOLEAN /\ cleared \in BOOLEAN
      /\ outward = [category |-> "Ok", error |-> FALSE, panic |-> FALSE]
  BY DEF Init, Clean
<1> QED BY <1>1, <1>2, CategoriesThereAre DEF ContextTypes, ErrorsAreTold, HasError, FailureIsSeen

\* A step keeps the types, and what was added to the codecs.
LEMMA ContextStepTypes ==
  ASSUME ContextTypes, [Next]_vars
  PROVE  ContextTypes' /\ KeepsCodecs
<1>1. CASE Call
  BY <1>1, CallIsMade, FinishKeeps DEF MayCall, Made
<1>2. CASE ReadNoResponse
  BY <1>2, StartIs, FinishKeeps DEF ReadNoResponse
<1> DEFINE Kept == \A i \in 1 .. Len(codecs) : Grows(codecs[i], codecs[i])
<1>3. Kept
  BY DEF ContextTypes, Grows, Codec
<1>4. CASE TryClear
  <2>1. outward' = [category |-> "Ok", error |-> FALSE, panic |-> outward.panic]
    BY <1>4 DEF TryClear, ContextTypes
  <2>2. /\ codecs' = codecs /\ cError' = cError /\ phase' = phase
        /\ response'.failed \in BOOLEAN /\ cleared' \in BOOLEAN
    BY <1>4 DEF TryClear, ContextTypes
  <2>3. outward' \in [category : Category, error : BOOLEAN, panic : BOOLEAN] /\ ~outward'.error
    BY <2>1, CategoriesThereAre DEF ContextTypes
  <2>4. KeepsCodecs
    BY <1>3, <2>2 DEF ContextTypes, KeepsCodecs
  <2> QED BY <2>2, <2>3, <2>4 DEF ContextTypes
<1>5. CASE Misuse
  BY <1>3, <1>5 DEF Misuse, ContextTypes, KeepsCodecs, HasError
<1>6. CASE BeginTerminate \/ Destroy
  BY <1>6, NoCodecs DEF BeginTerminate, Destroy, ContextTypes, KeepsCodecs, HasError
<1>7. CASE UNCHANGED vars
  BY <1>3, <1>7 DEF vars, ContextTypes, KeepsCodecs, HasError
<1> QED BY <1>1, <1>2, <1>4, <1>5, <1>6, <1>7 DEF Next, Call

\* A step of a client of the C functions keeps errors told; an error that is shown
\* stays the same, and only misuse ends the process.
LEMMA ContextStepTells ==
  ASSUME Guarded, ContextTypes, ErrorsAreTold, [Next]_vars
  PROVE  /\ ErrorsAreTold'
         /\ phase' = "aborted" => phase = "aborted" \/ HasError(outward)
<1>1. CASE Call
  <2>1. PICK call, s, status : Leads(Start, s) /\ Finish(call, s, status)
    BY <1>1, CallIsMade DEF Made
  <2>2. phase = "ready" /\ ~HasError(outward)
    BY <1>1, CallIsMade DEF MayCall
  <2> QED BY <2>1, <2>2, FinishTells
<1>2. CASE ReadNoResponse
  BY <1>2, StartIs, FinishTells DEF ReadNoResponse
<1>4. CASE TryClear
  <2>1. outward' = [category |-> "Ok", error |-> FALSE, panic |-> outward.panic] /\ ~outward.error
    BY <1>4 DEF TryClear, ContextTypes, Recoverable
  <2>2. codecs' = codecs /\ phase' = phase /\ ~response'.failed /\ cleared' = (cleared \/ outward.panic)
    BY <1>4 DEF TryClear
  <2>3. outward'.panic => cleared'
    BY <2>1, <2>2
  <2>4. phase = "ready" => Healthy(codecs')
    BY <2>1, <2>2 DEF ErrorsAreTold
  <2> QED BY <1>4, <2>2, <2>3, <2>4 DEF ErrorsAreTold, FailureIsSeen, TryClear
<1>5. CASE Misuse
  BY <1>5 DEF Misuse, ErrorsAreTold, HasError, FailureIsSeen
<1>6. CASE BeginTerminate \/ Destroy
  BY <1>6 DEF BeginTerminate, Destroy, ErrorsAreTold, HasError, FailureIsSeen
<1>7. CASE UNCHANGED vars
  BY <1>7 DEF vars, ErrorsAreTold, HasError, FailureIsSeen
<1> QED BY <1>1, <1>2, <1>4, <1>5, <1>6, <1>7 DEF Next, Call

\* An error that is shown is replaced in no step.
LEMMA ErrorsStickStep ==
  ASSUME ContextTypes, [Next]_vars, outward.error
  PROVE  outward' = outward
<1>1. HasError(outward) /\ (Guarded => ~MayCall)
  BY DEF ContextTypes, MayCall
<1>2. CASE Call
  <2>1. ~Guarded /\ \E call, s, status : Finish(call, s, status)
    BY <1>1, <1>2, CallIsMade DEF Made
  <2> QED BY <2>1 DEF Finish
<1>3. CASE ReadNoResponse
  <2>1. outward' = TrySetError(outward, ArgumentFails.why)
    BY <1>3, StartIs, CategoriesThereAre DEF ReadNoResponse, Finish, Handled
  <2> QED BY <2>1 DEF TrySetError
<1>4. CASE TryClear \/ Misuse \/ BeginTerminate \/ Destroy \/ UNCHANGED vars
  BY <1>4 DEF TryClear, Misuse, BeginTerminate, Destroy, vars, Recoverable
<1> QED BY <1>2, <1>3, <1>4 DEF Next, Call

\* The first codec of an id stays the first.
LEMMA IdsKeepStep ==
  ASSUME codecs \in Seq(Codec), KeepsCodecs, NEW id
  PROVE  LET i == GetCodec(Start, id)
         IN  i # NoCodec /\ codecs' # <<>> => GetCodec(Start, id)' = i
<1> DEFINE Before == Start
           After == [codecs |-> codecs', cError |-> cError', why |-> "Ok"]
           i == GetCodec(Before, id)
           j == GetCodec(After, id)
<1>1. SUFFICES ASSUME i # NoCodec, codecs' # <<>>
               PROVE  j = i
  BY DEF Start, GetCodec
<1>2. Before.codecs = codecs /\ After.codecs = codecs'
  BY DEF Start
<1>3. /\ codecs' \in Seq(Codec) /\ Len(codecs) <= Len(codecs')
      /\ \A k \in 1 .. Len(codecs) : codecs'[k].id = codecs[k].id
      /\ Len(codecs) \in Nat /\ Len(codecs') \in Nat
  BY <1>1 DEF KeepsCodecs, Grows
<1>4. i \in 1 .. Len(codecs) /\ codecs[i].id = id /\ \A k \in 1 .. i - 1 : codecs[k].id # id
  BY <1>1, <1>2, GetCodecFinds
<1>5. \/ j = NoCodec /\ \A k \in 1 .. Len(codecs') : codecs'[k].id # id
      \/ j \in 1 .. Len(codecs') /\ codecs'[j].id = id /\ \A k \in 1 .. j - 1 : codecs'[k].id # id
  <2> HIDE DEF After
  <2> QED BY <1>2, <1>3, GetCodecFinds
<1> HIDE DEF i, j
<1> QED BY <1>3, <1>4, <1>5

\* A step of a context keeps ids, initialised codecs and the order of them.
LEMMA CodecsProgressStep ==
  ASSUME codecs \in Seq(Codec), KeepsCodecs, NEW i \in DOMAIN codecs, codecs' # <<>>
  PROVE  /\ codecs'[i].id = codecs[i].id
         /\ codecs[i].kind # "placeholder" => codecs'[i] = codecs[i]
         /\ codecs'[i].kind = "encoder" => codecs[i].usable
  BY DEF KeepsCodecs, Grows

\* The process is ended only by a call on a context that has an error.
LEMMA OnlyMisuseAbortsStep ==
  ASSUME Guarded, ContextTypes, ErrorsAreTold, Next, phase' = "aborted"
  PROVE  HasError(outward)
<1>1. phase # "aborted"
  BY DEF Next, AddInputBuffer, AddOutputBuffer, GetOutputBuffer, SendJson, FailingMemory, MayCall, ReadNoResponse,
         TryClear, Misuse, BeginTerminate, Destroy
<1> QED BY <1>1, ContextStepTells

\* The types of a context are an invariant.
LEMMA ContextTypesHold == Spec => []ContextTypes
<1>1. Init => ContextTypes
  BY ContextInitHolds
<1>2. ContextTypes /\ [Next]_vars => ContextTypes'
  BY ContextStepTypes
<1> QED BY <1>1, <1>2, PTL DEF Spec

\* That errors are told is an invariant for clients of the C functions.
LEMMA ErrorsAreToldAlways ==
  ASSUME Guarded
  PROVE  Spec => []ErrorsAreTold
<1>1. Init => ErrorsAreTold
  BY ContextInitHolds
<1>2. ContextTypes /\ ErrorsAreTold /\ [Next]_vars => ErrorsAreTold'
  BY ContextStepTells
<1> QED BY <1>1, <1>2, ContextTypesHold, PTL DEF Spec

\* The state of a context is of its type after any calls.
THEOREM ContextTypeCorrect == Spec => []TypeOK
<1>1. ContextTypes => TypeOK
  <2> DEFINE Codecs == [id : IoIds, kind : Kinds, usable : BOOLEAN]
  <2>1. ASSUME codecs \in Seq(Codec)
        PROVE  codecs \in Seq(Codecs)
    <3>1. Codec \subseteq Codecs
      BY DEF Codec
    <3>2. /\ codecs = [i \in 1 .. Len(codecs) |-> codecs[i]] /\ Len(codecs) \in Nat
          /\ \A i \in 1 .. Len(codecs) : codecs[i] \in Codec
      BY <2>1
    <3> HIDE DEF Codecs
    <3> QED BY <3>1, <3>2
  <2> QED BY <2>1 DEF ContextTypes, TypeOK
<1> QED BY <1>1, ContextTypesHold, PTL

\* A codec that a failed call of a C function left half made is behind an error that
\* cannot be cleared, so that no later call meets it (context.rs:112, errors.rs:361).
THEOREM BrokenStaysUnreachable ==
  ASSUME Guarded
  PROVE  Spec => []BrokenIsUnreachable
<1>1. ContextTypes /\ ErrorsAreTold => BrokenIsUnreachable
  BY DEF ContextTypes, ErrorsAreTold, BrokenIsUnreachable, Healthy
<1> QED BY <1>1, ContextTypesHold, ErrorsAreToldAlways, PTL

\* Every failure is shown, unless a panic was cleared (lib.rs:520).
THEOREM FailuresAreSeen == Spec => []FailureIsSeen
<1>1. CASE Guarded
  <2>1. ErrorsAreTold => FailureIsSeen
    BY DEF ErrorsAreTold
  <2> QED BY <1>1, <2>1, ErrorsAreToldAlways, PTL
<1>2. CASE ~Guarded
  <2>1. FailureIsSeen
    BY <1>2 DEF FailureIsSeen
  <2> QED BY <2>1, PTL
<1> QED BY <1>1, <1>2

\* Whatever calls a client of the C functions makes, and whatever fails: an io_id keeps
\* the codec it got first, codecs go from placeholder to encoder only and are never lost,
\* an error stays the same, and only misuse ends the process (context.rs:176-193,
\* codecs/mod.rs:360-383, errors.rs:350-378).
THEOREM CallsStayConsistent ==
  ASSUME Guarded
  PROVE  Spec => CallsAreConsistent
<1>1. ContextTypes /\ [Next]_vars =>
        [\A id \in IoIds : LET i == GetCodec(Start, id)
                           IN  i # NoCodec /\ codecs' # <<>> => GetCodec(Start, id)' = i]_vars
  BY ContextStepTypes, IdsKeepStep DEF ContextTypes
<1>2. ContextTypes /\ [Next]_vars =>
        [\A i \in DOMAIN codecs :
           codecs' # <<>> =>
             /\ codecs'[i].id = codecs[i].id
             /\ codecs[i].kind # "placeholder" => codecs'[i] = codecs[i]
             /\ codecs'[i].kind = "encoder" => codecs[i].usable]_vars
  BY ContextStepTypes, CodecsProgressStep DEF ContextTypes
<1>3. ContextTypes /\ [Next]_vars =>
        [outward.error => outward' = outward \/ (outward'.error /\ outward'.category = outward.category)]_vars
  BY ErrorsStickStep
<1>4. ContextTypes /\ ErrorsAreTold /\ [Next]_vars => [phase' = "aborted" => HasError(outward)]_vars
  BY OnlyMisuseAbortsStep
<1> QED BY <1>1, <1>2, <1>3, <1>4, ContextTypesHold, ErrorsAreToldAlways, PTL
        DEF Spec, CallsAreConsistent, IdsKeepTheirCodec, CodecsProgress, ErrorsStick, OnlyMisuseAborts

-----------------------------------------------------------------------------
(* The colour transforms.  A thread that was told the cache is not full may *)
(* insert once: it is behind the check.  The sum of the entries and of the  *)
(* threads behind is what stays bounded.                                    *)
TransformVars == <<entries, pc, frame, using>>
Times == [k \in DOMAIN entries |-> entries[k].times]
Behind == {t \in Threads : pc[t] \in {"look", "insert"}}

TransformTypes ==
  /\ IsFiniteSet(DOMAIN entries) /\ entries = [k \in DOMAIN entries |-> entries[k]]
  /\ \A k \in DOMAIN entries : entries[k] \in [color : Transforms!Colors, times : Nat \ {0}]
  /\ pc \in [Threads -> {"idle", "measure", "look", "insert", "get", "apply", "panicked"}]
  /\ frame \in [Threads -> Transforms!Colors \cup {Transforms!None}]
  /\ using \in [Threads -> Transforms!Colors \cup {Transforms!None}]
\* A transform is found under the color it was made for.
OwnColor == \A k \in DOMAIN entries : entries[k].color = k
Framed == \A t \in Threads : pc[t] \in {"measure", "look", "insert", "get", "apply"} => frame[t] \in Transforms!Colors
TransformRest == TransformTypes /\ OwnColor /\ Framed /\ Transforms!OwnTransform /\ Transforms!SeenIsThere
Bounded == Transforms!Length + Cardinality(Behind) <= Limit - 1 + Cardinality(Threads)

\* Length counts each entry as often as it was inserted.
LEMMA LengthIsTheSum ==
  TransformTypes => \E sum : AreSums(sum, Times, DOMAIN entries) /\ Transforms!Length = sum[DOMAIN entries]
<1> SUFFICES ASSUME TransformTypes
             PROVE  \E sum : AreSums(sum, Times, DOMAIN entries) /\ Transforms!Length = sum[DOMAIN entries]
  OBVIOUS
<1> DEFINE Ks == DOMAIN entries
           Is(iter) == iter = [s \in SUBSET Ks |->
                                 IF s = {} THEN 0
                                 ELSE LET x == CHOOSE x \in s : TRUE IN entries[x].times + iter[s \ {x}]]
           sum == CHOOSE iter : Is(iter)
<1>1. Transforms!Length = sum[Ks]
  BY DEF Transforms!Length, Transforms!MapThenSumSet, Transforms!MapThenFoldSet, Transforms!Keys
<1>2. ASSUME NEW iter
      PROVE  Is(iter) <=> AreSums(iter, Times, Ks)
  <2>1. \A s \in SUBSET Ks : s # {} => First(s) \in s /\ Times[First(s)] = entries[First(s)].times
    BY DEF First, Times
  <2>2. [s \in SUBSET Ks |-> IF s = {} THEN 0 ELSE LET x == CHOOSE x \in s : TRUE IN entries[x].times + iter[s \ {x}]]
          = [s \in SUBSET Ks |-> IF s = {} THEN 0 ELSE Times[First(s)] + iter[s \ {First(s)}]]
    BY <2>1 DEF First
  <2> QED BY <2>2 DEF AreSums
<1>3. Times \in [Ks -> Nat] /\ IsFiniteSet(Ks)
  BY DEF Times, TransformTypes
<1>4. \E iter : Is(iter)
  <2>1. PICK iter : AreSums(iter, Times, Ks)
    BY <1>3, SumsExist
  <2> HIDE DEF Is
  <2> QED BY <1>2, <2>1
<1>5. Is(sum)
  <2> HIDE DEF Is
  <2> QED BY <1>4
<1>6. AreSums(sum, Times, Ks)
  <2> HIDE DEF Is, sum
  <2> QED BY <1>2, <1>5
<1> HIDE DEF sum
<1> QED BY <1>1, <1>6

\* The length of the map is the sum of its entries, also after a step.
LEMMA LengthIsTheSumNext ==
  TransformTypes' => \E sum : AreSums(sum, Times', DOMAIN entries') /\ Transforms!Length' = sum[DOMAIN entries']
<1>1. (TransformTypes => \E sum : AreSums(sum, Times, DOMAIN entries) /\ Transforms!Length = sum[DOMAIN entries])'
  BY LengthIsTheSum, PTL
<1> QED BY <1>1

\* The length of the map is a number, and zero when nothing is in it.
LEMMA LengthIsANumber ==
  ASSUME TransformTypes
  PROVE  Transforms!Length \in Nat /\ (DOMAIN entries = {} => Transforms!Length = 0)
<1>1. PICK sum : AreSums(sum, Times, DOMAIN entries) /\ Transforms!Length = sum[DOMAIN entries]
  BY LengthIsTheSum
<1>2. Times \in [DOMAIN entries -> Nat] /\ IsFiniteSet(DOMAIN entries)
  BY DEF Times, TransformTypes
<1>3. sum[{}] = 0 /\ \A T \in SUBSET (DOMAIN entries) : sum[T] \in Nat
  BY <1>1, <1>2, SumsSplit
<1> QED BY <1>1, <1>3

\* The length of the map depends on its entries only.
LEMMA LengthFollows ==
  ASSUME entries' = entries
  PROVE  Transforms!Length' = Transforms!Length
  BY DEF Transforms!Length, Transforms!MapThenSumSet, Transforms!MapThenFoldSet, Transforms!Keys

\* An insertion makes it one longer.
LEMMA InsertionCounts ==
  ASSUME TransformTypes, TransformTypes', NEW k, NEW c, entries' = Transforms!With(k, c)
  PROVE  Transforms!Length' = Transforms!Length + 1
<1> DEFINE Ks == DOMAIN entries
           Ls == Ks \cup {k}
<1>1. /\ entries' = [key \in Ls |-> IF key # k THEN entries[key]
                                     ELSE [color |-> IF k \in Ks THEN entries[k].color ELSE c,
                                           times |-> IF k \in Ks THEN entries[k].times + 1 ELSE 1]]
      /\ DOMAIN entries' = Ls
  BY DEF Transforms!With, Transforms!Keys
<1>2. PICK sum : AreSums(sum, Times, Ks) /\ Transforms!Length = sum[Ks]
  BY LengthIsTheSum
<1>3. PICK tot : AreSums(tot, Times', Ls) /\ Transforms!Length' = tot[Ls]
  <2>1. \E tot : AreSums(tot, Times', DOMAIN entries') /\ Transforms!Length' = tot[DOMAIN entries']
    BY LengthIsTheSumNext
  <2> QED BY <1>1, <2>1
<1>4. Times \in [Ks -> Nat] /\ IsFiniteSet(Ks) /\ Times' \in [Ls -> Nat] /\ IsFiniteSet(Ls)
  BY <1>1 DEF Times, TransformTypes
<1>5. tot[Ls \ {k}] = sum[Ls \ {k}] /\ Ls \ {k} = Ks \ {k}
  <2>1. \A x \in Ls \ {k} : Times[x] = Times'[x]
    BY <1>1 DEF Times
  <2>2. IsFiniteSet(Ls \ {k}) /\ Ls \ {k} \subseteq Ks /\ Ls \ {k} \subseteq Ls
    BY <1>4, FS_RemoveElement
  <2> HIDE DEF Ls
  <2> QED BY <1>2, <1>3, <2>1, <2>2, SumsAgree DEF Ls
<1>6. tot[Ls] = Times'[k] + tot[Ls \ {k}] /\ tot[Ls \ {k}] \in Nat
  <2>1. PICK f : f = Times'
    OBVIOUS
  <2>2. f \in [Ls -> Nat] /\ IsFiniteSet(Ls) /\ AreSums(tot, f, Ls)
    BY <1>3, <1>4, <2>1
  <2>3. k \in Ls /\ Ls \in SUBSET Ls /\ Ls \ {k} \in SUBSET Ls
    OBVIOUS
  <2> HIDE DEF Ls
  <2>4. \A T \in SUBSET Ls : tot[T] \in Nat /\ \A x \in T : tot[T] = f[x] + tot[T \ {x}]
    BY <2>2, SumsSplit
  <2> QED BY <2>1, <2>3, <2>4
<1>7. /\ k \in Ks => sum[Ks] = Times[k] + sum[Ks \ {k}] /\ Times'[k] = Times[k] + 1
      /\ k \notin Ks => Ks \ {k} = Ks /\ Times'[k] = 1
  <2>1. ASSUME k \in Ks
        PROVE  sum[Ks] = Times[k] + sum[Ks \ {k}]
    <3>1. Times \in [Ks -> Nat] /\ IsFiniteSet(Ks) /\ AreSums(sum, Times, Ks) /\ Ks \in SUBSET Ks
      BY <1>2, <1>4
    <3> HIDE DEF Ks
    <3> QED BY <2>1, <3>1, SumsSplit
  <2>2. Times'[k] = IF k \in Ks THEN Times[k] + 1 ELSE 1
    BY <1>1 DEF Times
  <2> QED BY <2>1, <2>2
<1>8. Times[k] \in Nat \/ k \notin Ks
  BY <1>4
<1> HIDE DEF Ks, Ls
<1>9. CASE k \in Ks
  BY <1>2, <1>3, <1>5, <1>6, <1>7, <1>8, <1>9
<1>10. CASE k \notin Ks
  BY <1>2, <1>3, <1>5, <1>6, <1>7, <1>10
<1> QED BY <1>9, <1>10

\* Finite sets and cardinality are the same in every instance.
LEMMA SameNotions ==
  \A S : (Transforms!IsFiniteSet(S) <=> IsFiniteSet(S)) /\ Transforms!Cardinality(S) = Cardinality(S)
  BY DEF Transforms!IsFiniteSet, IsFiniteSet, Transforms!Cardinality, Cardinality

\* No more threads are behind the check of the limit than there are.
LEMMA BehindAreThreads ==
  /\ IsFiniteSet(Threads) /\ Cardinality(Threads) \in Nat /\ Limit \in Nat
  /\ IsFiniteSet(Behind) /\ Cardinality(Behind) \in Nat /\ Cardinality(Behind) <= Cardinality(Threads)
<1>1. IsFiniteSet(Threads) /\ Limit \in Nat
  BY PartsAssumption, SameNotions DEF Transforms!CacheAssumption
<1>2. Behind \in SUBSET Threads
  BY DEF Behind
<1> QED BY <1>1, <1>2, FS_Subset, FS_CardinalityType

\* The same after a step.
LEMMA BehindAreThreadsNext ==
  IsFiniteSet(Behind') /\ Cardinality(Behind') \in Nat /\ Cardinality(Behind') <= Cardinality(Threads)
<1>1. (IsFiniteSet(Behind) /\ Cardinality(Behind) \in Nat /\ Cardinality(Behind) <= Cardinality(Threads))'
  BY BehindAreThreads, PTL
<1> QED BY <1>1

\* The invariants hold of an empty cache.
LEMMA TransformInit ==
  ASSUME Transforms!Init
  PROVE  TransformRest /\ Bounded
<1>1. TransformRest /\ DOMAIN entries = {}
  <2>1. IsFiniteSet({})
    BY FS_EmptySet
  <2> QED BY <2>1 DEF Transforms!Init, TransformRest, TransformTypes, OwnColor, Framed, Transforms!OwnTransform,
                      Transforms!SeenIsThere
<1>2. Transforms!Length = 0
  BY <1>1, LengthIsANumber DEF TransformRest
<1>3. Behind = {}
  BY DEF Transforms!Init, Behind
<1>4. Cardinality(Behind) = 0
  BY <1>3, FS_EmptySet
<1>5. Limit - 1 \in Nat
  BY PartsAssumption DEF Transforms!CacheAssumption
<1> QED BY <1>1, <1>2, <1>4, <1>5, BehindAreThreads DEF Bounded

\* The steps of one thread that leave the map alone.
LEMMA TransformQuiet ==
  ASSUME TransformRest, NEW t \in Threads,
         \/ Transforms!Decode(t) \/ Transforms!Measure(t) \/ Transforms!Look(t)
         \/ Transforms!FailToCreate(t) \/ Transforms!Get(t) \/ Transforms!Apply(t)
  PROVE  TransformRest' /\ entries' = entries
<1> USE DEF TransformRest, Transforms!Goto
<1>1. entries' = entries
  BY DEF Transforms!Decode, Transforms!Measure, Transforms!Look, Transforms!FailToCreate, Transforms!Get, Transforms!Apply
<1>2. OwnColor'
  BY <1>1 DEF OwnColor
<1>3. CASE Transforms!Decode(t)
  BY <1>1, <1>2, <1>3 DEF Transforms!Decode, TransformTypes, Framed, Transforms!OwnTransform, Transforms!SeenIsThere, Transforms!Keys, Transforms!Hash
<1>4. CASE Transforms!Measure(t)
  BY <1>1, <1>2, <1>4 DEF Transforms!Measure, TransformTypes, Framed, Transforms!OwnTransform, Transforms!SeenIsThere, Transforms!Keys, Transforms!Hash
<1>5. CASE Transforms!Look(t)
  BY <1>1, <1>2, <1>5 DEF Transforms!Look, TransformTypes, Framed, Transforms!OwnTransform, Transforms!SeenIsThere, Transforms!Keys, Transforms!Hash
<1>6. CASE Transforms!FailToCreate(t) \/ Transforms!Apply(t)
  BY <1>1, <1>2, <1>6 DEF Transforms!FailToCreate, Transforms!Apply, TransformTypes, Framed, Transforms!OwnTransform, Transforms!SeenIsThere, Transforms!Keys, Transforms!Hash
<1>7. CASE Transforms!Get(t)
  BY <1>1, <1>2, <1>7 DEF Transforms!Get, TransformTypes, OwnColor, Framed, Transforms!OwnTransform, Transforms!SeenIsThere, Transforms!Keys, Transforms!Hash
<1> QED BY <1>3, <1>4, <1>5, <1>6, <1>7, <1>1

\* Inserting a transform keeps what every thread relies on (codecs/mod.rs:511).
LEMMA TransformInsert ==
  ASSUME TransformRest, NEW t \in Threads, Transforms!Insert(t)
  PROVE  TransformRest' /\ Transforms!Length' = Transforms!Length + 1
<1> DEFINE k == frame[t]
           Ks == DOMAIN entries
<1>1. /\ pc[t] = "insert" /\ pc' = [pc EXCEPT ![t] = "get"] /\ frame' = frame /\ using' = using
      /\ entries' = Transforms!With(k, k) /\ k \in Transforms!Colors
  BY DEF TransformRest, Framed, Transforms!Insert, Transforms!Goto, Transforms!Hash
<1>2. entries' = [key \in Ks \cup {k} |->
                    IF key # k THEN entries[key]
                    ELSE [color |-> IF k \in Ks THEN entries[k].color ELSE k,
                          times |-> IF k \in Ks THEN entries[k].times + 1 ELSE 1]]
  BY <1>1 DEF Transforms!With, Transforms!Keys
<1>3. IsFiniteSet(Ks \cup {k})
  BY FS_AddElement DEF TransformRest, TransformTypes
<1>4. \A key \in Ks \cup {k} : entries'[key] \in [color : Transforms!Colors, times : Nat \ {0}] /\ entries'[key].color = key
  BY <1>1, <1>2 DEF TransformRest, TransformTypes, OwnColor
<1>5. DOMAIN entries' = Ks \cup {k} /\ entries' = [key \in Ks \cup {k} |-> entries'[key]]
  BY <1>2
<1>6. TransformTypes' /\ OwnColor'
  <2>1. pc' \in [Threads -> {"idle", "measure", "look", "insert", "get", "apply", "panicked"}]
    BY <1>1 DEF TransformRest, TransformTypes
  <2> QED BY <1>1, <1>3, <1>4, <1>5, <2>1 DEF TransformRest, TransformTypes, OwnColor
<1>7. Framed' /\ Transforms!OwnTransform' /\ Transforms!SeenIsThere'
  BY <1>1, <1>5 DEF TransformRest, TransformTypes, Framed, Transforms!OwnTransform, Transforms!SeenIsThere, Transforms!Keys, Transforms!Hash
<1>8. Transforms!Length' = Transforms!Length + 1
  BY <1>1, <1>6, InsertionCounts DEF TransformRest
<1> QED BY <1>6, <1>7, <1>8 DEF TransformRest

\* Insert inserts what was counted behind; whoever comes to be behind has seen the
\* cache below its limit.
LEMMA TransformStepBounded ==
  ASSUME TransformRest, Bounded, NEW t \in Threads, Transforms!Step(t)
  PROVE  TransformRest' /\ Bounded'
<1>0. /\ Transforms!Length \in Nat /\ Cardinality(Behind) \in Nat /\ Cardinality(Behind') \in Nat /\ IsFiniteSet(Behind)
      /\ Cardinality(Threads) \in Nat /\ Limit \in Nat /\ Cardinality(Behind') <= Cardinality(Threads)
  BY LengthIsANumber, BehindAreThreads, BehindAreThreadsNext DEF TransformRest
<1>1. CASE Transforms!Insert(t)
  <2>1. Behind' = Behind \ {t} /\ t \in Behind
    BY <1>1 DEF Transforms!Insert, Transforms!Goto, Behind, TransformRest, TransformTypes
  <2>2. Cardinality(Behind') = Cardinality(Behind) - 1
    BY <1>0, <2>1, FS_RemoveElement
  <2>3. TransformRest' /\ Transforms!Length' = Transforms!Length + 1
    BY <1>1, TransformInsert
  <2> QED BY <1>0, <2>2, <2>3 DEF Bounded
<1>2. CASE ~Transforms!Insert(t)
  <2>1. TransformRest' /\ entries' = entries
    BY <1>2, TransformQuiet DEF Transforms!Step
  <2>2. Transforms!Length' = Transforms!Length
    BY <2>1, LengthFollows
  <2>3. CASE Transforms!Measure(t) /\ ~Transforms!IsFull
    <3>1. Transforms!Length <= Limit - 1
      BY <1>0, <2>3 DEF Transforms!IsFull
    <3> QED BY <1>0, <2>1, <2>2, <3>1 DEF Bounded
  <2>4. CASE ~(Transforms!Measure(t) /\ ~Transforms!IsFull)
    <3>1. Behind' \in SUBSET Behind
      BY <1>2, <2>4 DEF Transforms!Step, Transforms!Decode, Transforms!Measure, Transforms!Look, Transforms!FailToCreate,
         Transforms!Get, Transforms!Apply, Transforms!Goto, Behind, TransformRest, TransformTypes
    <3>2. Cardinality(Behind') <= Cardinality(Behind)
      BY <1>0, <3>1, FS_Subset
    <3> QED BY <1>0, <2>1, <2>2, <3>2 DEF Bounded
  <2> QED BY <2>3, <2>4
<1> QED BY <1>1, <1>2

\* So does a step that leaves the cache alone.
LEMMA TransformStutter ==
  ASSUME TransformRest, Bounded, UNCHANGED TransformVars
  PROVE  TransformRest' /\ Bounded'
<1>1. Transforms!Length' = Transforms!Length
  BY LengthFollows DEF TransformVars
<1>2. Behind' = Behind
  BY DEF TransformVars, Behind
<1>3. TransformRest'
  BY DEF TransformVars, TransformRest, TransformTypes, OwnColor, Framed, Transforms!OwnTransform, Transforms!SeenIsThere, Transforms!Keys, Transforms!Hash
<1> QED BY <1>1, <1>2, <1>3 DEF Bounded

\* What every thread relies on, and the bound, always hold.
LEMMA TransformsHold == ContextSpec => [](TransformRest /\ Bounded)
<1>1. ContextInit => TransformRest /\ Bounded
  BY TransformInit DEF ContextInit
<1>2. TransformRest /\ Bounded /\ [ContextNext]_contextVars => (TransformRest /\ Bounded)'
  <2>1. ASSUME TransformRest, Bounded, [ContextNext]_contextVars
        PROVE  (\E t \in Threads : Transforms!Step(t)) \/ UNCHANGED TransformVars
    BY <2>1 DEF ContextNext, contextVars, transformVars, TransformVars, Transforms!Next
  <2> QED BY <2>1, TransformStepBounded, TransformStutter
<1> QED BY <1>1, <1>2, PTL DEF ContextSpec

\* Whatever the contexts of a process decode at the same time: pixels are changed by the
\* transform of their own profile and format, what a thread saw in the map is there when
\* it uses it, and the cache passes its limit by the threads behind the check at most
\* (codecs/mod.rs:481-524).
THEOREM OwnTransformIsApplied == ContextSpec => []OwnTransform
<1>1. TransformRest /\ Bounded => OwnTransform
  <2> SUFFICES ASSUME TransformRest, Bounded
               PROVE  Transforms!OvershootIsBounded
    BY DEF OwnTransform, TransformRest
  <2>1. Transforms!Length \in Nat
    BY LengthIsANumber DEF TransformRest
  <2> QED BY <2>1, BehindAreThreads, SameNotions DEF Bounded, Transforms!OvershootIsBounded
<1> QED BY <1>1, TransformsHold, PTL

-----------------------------------------------------------------------------
(* The set that lends its codecs.                                           *)
SetInv == slots \in Seq(Set!Slot) /\ Set!Distinct /\ Set!LentExists

\* What a step does to a slot: it keeps its place and its address, and stays empty.
KeepsSlots ==
  slots' # <<>> =>
    /\ slots' \in Seq(Set!Slot) /\ Len(slots) <= Len(slots')
    /\ \A i \in 1 .. Len(slots) : slots'[i].at = slots[i].at /\ (slots'[i].present => slots[i].present)

\* The slots of a set are numbered from one.
LEMMA SlotsAreCounted ==
  ASSUME slots \in Seq(Set!Slot)
  PROVE  Len(slots) \in Nat /\ DOMAIN slots = 1 .. Len(slots) /\ \A i \in 1 .. Len(slots) : slots[i] \in Set!Slot
  OBVIOUS

\* A value is added with a box of its own.
LEMMA AddLentStep ==
  ASSUME SetInv, NEW a \in Address, NEW loans \in {1, -1}, Set!AddLent(a, loans)
  PROVE  SetInv' /\ KeepsSlots
<1> DEFINE slot == [at |-> a, present |-> TRUE, loans |-> loans]
           n == Len(slots)
<1>1. slot \in Set!Slot
  BY PartsAssumption DEF Set!Slot, Set!Exclusively, Set!SetAssumption
<1>2. /\ slots' \in Seq(Set!Slot) /\ Len(slots') = n + 1 /\ n \in Nat /\ DOMAIN slots = 1 .. n /\ DOMAIN slots' = 1 .. n + 1
      /\ \A i \in 1 .. n : slots'[i] = slots[i]
      /\ slots'[n + 1] = slot
  <2> HIDE DEF slot
  <2>1. slots' = Append(slots, slot) /\ slots \in Seq(Set!Slot)
    BY DEF Set!AddLent, SetInv, slot
  <2> QED BY <1>1, <2>1
<1>3. \A i \in 1 .. n : slots[i].at # a
  BY <1>2 DEF Set!AddLent, Set!Used
<1> HIDE DEF n
<1>4. Set!Distinct'
  BY <1>2, <1>3 DEF Set!Distinct, SetInv
<1>5. Set!LentExists'
  BY <1>2 DEF Set!LentExists, SetInv
<1>6. KeepsSlots
  BY <1>2 DEF KeepsSlots, n
<1> QED BY <1>2, <1>4, <1>5, <1>6 DEF SetInv

\* One slot changes, in nothing but its loans or by losing its value when it is not lent.
LEMMA ChangedSlotStep ==
  ASSUME SetInv, NEW i \in DOMAIN slots, NEW slot \in Set!Slot, slots' = [slots EXCEPT ![i] = slot],
         slot.at = slots[i].at, slot.present => slots[i].present, slot.loans # 0 => slot.present
  PROVE  SetInv' /\ KeepsSlots
<1>1. /\ slots \in Seq(Set!Slot) /\ slots' \in Seq(Set!Slot) /\ Len(slots') = Len(slots) /\ Len(slots) \in Nat
      /\ DOMAIN slots = 1 .. Len(slots) /\ DOMAIN slots' = 1 .. Len(slots)
      /\ \A j \in 1 .. Len(slots) : slots'[j] = IF j = i THEN slot ELSE slots[j]
  BY DEF SetInv
<1>2. Set!Distinct'
  BY <1>1 DEF Set!Distinct, SetInv
<1>3. Set!LentExists'
  BY <1>1 DEF Set!LentExists, SetInv
<1>4. KeepsSlots
  BY <1>1 DEF KeepsSlots
<1> QED BY <1>1, <1>2, <1>3, <1>4 DEF SetInv

\* Clearing a set keeps slots and refuses while one is lent.
LEMMA ClearStep ==
  ASSUME SetInv, Set!Clear
  PROVE  SetInv' /\ KeepsSlots
<1> DEFINE n == Len(slots)
<1>1. n \in Nat /\ DOMAIN slots = 1 .. n /\ \A i \in 1 .. n : slots[i] \in Set!Slot
  BY SlotsAreCounted DEF SetInv
<1>2. slots' = [i \in 1 .. n |-> IF \A j \in 1 .. i : j \in Set!Changeable THEN [slots[i] EXCEPT !.present = FALSE] ELSE slots[i]]
  BY <1>1 DEF Set!Clear
<1>3. \A i \in 1 .. n : (\A j \in 1 .. i : j \in Set!Changeable) => slots[i].loans = 0
  BY <1>1 DEF Set!Changeable
<1>4. \A i \in 1 .. n : /\ slots'[i] \in Set!Slot /\ slots'[i].at = slots[i].at /\ slots'[i].loans = slots[i].loans
                        /\ slots'[i].present => slots[i].present
                        /\ slots'[i].loans # 0 => slots'[i] = slots[i]
  BY <1>1, <1>2, <1>3 DEF Set!Slot
<1>5. slots' \in Seq(Set!Slot) /\ Len(slots') = n /\ DOMAIN slots' = 1 .. n
  <2>1. slots' = [i \in 1 .. n |-> slots'[i]]
    BY <1>2
  <2> HIDE DEF n
  <2> QED BY <1>1, <1>4, <2>1
<1>6. Set!Distinct'
  BY <1>1, <1>4, <1>5 DEF Set!Distinct, SetInv
<1>7. Set!LentExists'
  BY <1>1, <1>4, <1>5 DEF Set!LentExists, SetInv
<1>8. KeepsSlots
  BY <1>1, <1>4, <1>5 DEF KeepsSlots
<1> QED BY <1>5, <1>6, <1>7, <1>8 DEF SetInv

\* Every step of a set keeps its invariant and the slots that are lent.
LEMMA SetStep ==
  ASSUME SetInv, Set!Next
  PROVE  SetInv' /\ KeepsSlots
<1>0. Len(slots) \in Nat /\ DOMAIN slots = 1 .. Len(slots) /\ \A i \in 1 .. Len(slots) : slots[i] \in Set!Slot
  BY SlotsAreCounted DEF SetInv
<1>1. ASSUME NEW a \in Address, Set!Add(a) \/ Set!AddMut(a)
      PROVE  SetInv' /\ KeepsSlots
  BY <1>1, AddLentStep DEF Set!Add, Set!AddMut, Set!Exclusively
<1>2. ASSUME NEW a \in Address, Set!TryGet(a)
      PROVE  SetInv' /\ KeepsSlots
  <2>1. PICK i \in Set!Shareable : slots[i].present /\ slots[i].loans < MaxLoans /\ slots' = [slots EXCEPT ![i].loans = @ + 1]
    BY <1>2 DEF Set!TryGet
  <2>2. i \in DOMAIN slots /\ slots[i].loans >= 0
    BY <2>1 DEF Set!Shareable
  <2> DEFINE slot == [slots[i] EXCEPT !.loans = @ + 1]
  <2>3. slot \in Set!Slot /\ slot.at = slots[i].at /\ slot.present
    BY <1>0, <2>1, <2>2, PartsAssumption DEF Set!Slot, Set!Exclusively, Set!SetAssumption
  <2>4. slots' = [slots EXCEPT ![i] = slot]
    BY <2>1
  <2> HIDE DEF slot
  <2> QED BY <2>1, <2>2, <2>3, <2>4, ChangedSlotStep
<1>3. ASSUME NEW a \in Address, Set!TryGetMut(a)
      PROVE  SetInv' /\ KeepsSlots
  <2>1. PICK i \in Set!Changeable : slots[i].present /\ slots' = [slots EXCEPT ![i].loans = Set!Exclusively]
    BY <1>3 DEF Set!TryGetMut
  <2>2. i \in DOMAIN slots
    BY <2>1 DEF Set!Changeable
  <2> DEFINE slot == [slots[i] EXCEPT !.loans = Set!Exclusively]
  <2>3. slot \in Set!Slot /\ slot.at = slots[i].at /\ slot.present
    BY <1>0, <2>1, <2>2 DEF Set!Slot, Set!Exclusively
  <2>4. slots' = [slots EXCEPT ![i] = slot]
    BY <2>1
  <2> HIDE DEF slot
  <2> QED BY <2>1, <2>2, <2>3, <2>4, ChangedSlotStep
<1>4. ASSUME NEW a \in Address, Set!TryRemove(a)
      PROVE  SetInv' /\ KeepsSlots
  <2>1. PICK i \in Set!Changeable : slots' = [slots EXCEPT ![i].present = FALSE]
    BY <1>4 DEF Set!TryRemove
  <2>2. i \in DOMAIN slots /\ slots[i].loans = 0
    BY <2>1 DEF Set!Changeable
  <2> DEFINE slot == [slots[i] EXCEPT !.present = FALSE]
  <2>3. slot \in Set!Slot /\ slot.at = slots[i].at /\ slot.loans = 0 /\ ~slot.present
    BY <1>0, <2>1, <2>2 DEF Set!Slot
  <2>4. slots' = [slots EXCEPT ![i] = slot]
    BY <2>1
  <2> HIDE DEF slot
  <2> QED BY <2>2, <2>3, <2>4, ChangedSlotStep
<1>5. ASSUME NEW i \in DOMAIN slots, Set!Release(i)
      PROVE  SetInv' /\ KeepsSlots
  <2> DEFINE slot == [slots[i] EXCEPT !.loans = IF @ = Set!Exclusively THEN 0 ELSE @ - 1]
  <2>1. slots[i].loans # 0 /\ slots' = [slots EXCEPT ![i] = slot]
    BY <1>5 DEF Set!Release
  <2>2. slots[i].present
    BY <2>1 DEF SetInv, Set!LentExists
  <2>3. slot \in Set!Slot /\ slot.at = slots[i].at /\ slot.present
    BY <1>0, <2>1, <2>2, PartsAssumption DEF Set!Slot, Set!Exclusively, Set!SetAssumption
  <2> HIDE DEF slot
  <2> QED BY <2>1, <2>2, <2>3, ChangedSlotStep
<1>6. CASE Set!MutClear
  BY <1>6 DEF Set!MutClear, SetInv, Set!Distinct, Set!LentExists, KeepsSlots
<1> QED BY <1>1, <1>2, <1>3, <1>4, <1>5, <1>6, ClearStep DEF Set!Next

\* What is lent exists, and addresses differ, always.
LEMMA SetHolds == ContextSpec => []SetInv
<1>1. ContextInit => SetInv
  BY DEF ContextInit, Set!Init, SetInv, Set!Distinct, Set!LentExists
<1>2. SetInv /\ [ContextNext]_contextVars => SetInv'
  <2>1. [ContextNext]_contextVars => Set!Next \/ UNCHANGED slots
    BY DEF ContextNext, contextVars
  <2>2. SetInv /\ UNCHANGED slots => SetInv'
    BY DEF SetInv, Set!Distinct, Set!LentExists
  <2> QED BY <2>1, <2>2, SetStep
<1> QED BY <1>1, <1>2, PTL DEF ContextSpec

\* What is lent exists, a search that finds nothing means there is nothing, what nobody
\* changes is found while other values are changed, and a pointer to a removed value
\* never means another (collections.rs:86-170).
THEOREM LoansStaySound == ContextSpec => LoansAreSound
<1>1. SetInv => Set!Distinct /\ Set!LentExists /\ Set!AbsenceIsCertain /\ Set!SharedIsFound
  BY DEF SetInv, Set!AbsenceIsCertain, Set!SharedIsFound, Set!Lookup, Set!Shareable, Set!Changeable, Set!Held
<1>2. SetInv /\ [ContextNext]_contextVars =>
        [\A i \in DOMAIN slots :
           slots' # <<>> => /\ i \in DOMAIN slots' /\ slots'[i].at = slots[i].at
                            /\ slots'[i].present => slots[i].present]_slots
  <2>1. [ContextNext]_contextVars => Set!Next \/ UNCHANGED slots
    BY DEF ContextNext, contextVars
  <2>2. SetInv /\ KeepsSlots =>
          \A i \in DOMAIN slots :
            slots' # <<>> => /\ i \in DOMAIN slots' /\ slots'[i].at = slots[i].at
                             /\ slots'[i].present => slots[i].present
    BY SlotsAreCounted DEF SetInv, KeepsSlots
  <2> QED BY <2>1, <2>2, SetStep
<1> QED BY <1>1, <1>2, SetHolds, PTL DEF ContextSpec, LoansAreSound, Set!RemovedStaysRemoved

-----------------------------------------------------------------------------
(* The GIF codec.  A frame leaves the screen it was drawn on as it is, with *)
(* its area cleared, or as it was before it.                                *)
Cleared(f) == [c \in Gif!Subimage(f) |-> Gif!Background]
LeftBy(f, s) ==
  CASE f.dispose = "previous" -> s
    [] f.dispose = "background" -> Gif!Over(Cleared(f), Gif!Drawn(s, f))
    [] OTHER -> Gif!Drawn(s, f)
EmptyScreen == [c \in Gif!Cells |-> Gif!Background]

(* The screens before each of the frames, and before one that comes next.   *)
AreBefore(b, frames) ==
  /\ b = [k \in 1 .. Len(frames) + 1 |-> b[k]] /\ b[1] = EmptyScreen
  /\ \A k \in 1 .. Len(frames) : b[k + 1] = LeftBy(Gif!Frames[frames[k]], b[k])
  /\ \A k \in 1 .. Len(frames) + 1 : b[k] = [c \in Gif!Cells |-> b[k][c]]

DrawnLast(s, frames) == Gif!Drawn(s, Gif!Frames[frames[Len(frames)]])
Shows(e, frames) ==
  \E b : /\ AreBefore(b, frames)
         /\ Gif!Disposed(e.screen, e.disposal) = b[Len(frames) + 1]
         /\ e.screen = IF frames = <<>> THEN b[1] ELSE DrawnLast(b[Len(frames)], frames)

(* The reader is at a frame, and behind those that were drawn.              *)
IsDecoder(e) ==
  e = [at |-> e.at, unread |-> e.unread, last |-> e.last, next |-> e.next, screen |-> e.screen, disposal |-> e.disposal]
IsAt(e) ==
  /\ IsDecoder(e) /\ e.at \in 0 .. Len(Gif!Frames) /\ e.last \subseteq 1 .. Len(Gif!Frames)
  /\ e.next = {} \/ \E n \in 1 .. e.at : e.next = {n}
IsAfter(e, frames) ==
  /\ frames \in Seq(1 .. e.at)
  /\ \A k \in 1 .. Len(frames) : \A n \in e.next : frames[k] < n
  /\ \A k \in 1 .. Len(frames) - 1 : frames[k] < frames[k + 1]

(* What is in the file: repeats, and the times of the frames written.       *)
BlockAt(k, n, frames) == IF k <= n THEN {} ELSE {Gif!Frames[frames[k - n]].delay}
HasDelays(blocks, frames, failed) ==
  /\ frames \in Seq(1 .. Len(Gif!Frames))
  /\ \E n \in Nat : /\ blocks = [k \in 1 .. n + Len(frames) |-> BlockAt(k, n, frames)]
                    /\ ~failed => n = IF frames = <<>> THEN 0 ELSE 1

GifReply == reply \in {"created", "frame", "no_frame", "error", "panic", "written"}
FrameIsLast == reply = "frame" => drawn # <<>> /\ decoder.last = {drawn[Len(drawn)]}
GifInv ==
  /\ movie \in Movies /\ GifReply /\ broke \in BOOLEAN
  /\ IsAt(decoder) /\ IsAfter(decoder, drawn) /\ Shows(decoder, drawn)
  /\ FrameIsLast /\ HasDelays(file, delays, broke)

\* A film has a sequence of frames.
LEMMA FramesAreSequence ==
  ASSUME Gif!MoviesAssumption, movie \in Movies
  PROVE  Gif!Frames \in Seq(Gif!FrameType) /\ Len(Gif!Frames) \in Nat /\ DOMAIN Gif!Frames = 1 .. Len(Gif!Frames)
<1>1. Gif!Frames \in Seq(Gif!FrameType)
  BY DEF Gif!MoviesAssumption, Gif!Frames
<1> QED BY <1>1

\* One picture over another leaves the screen as large as it is.
LEMMA OverIs ==
  ASSUME NEW p, NEW s
  PROVE  /\ DOMAIN Gif!Over(p, s) = DOMAIN s
         /\ \A c \in DOMAIN s : Gif!Over(p, s)[c] = IF c \in DOMAIN p THEN p[c] ELSE s[c]
  BY DEF Gif!Over

\* What disposes of a frame leaves the screen as the frame says.
LEMMA DisposedIsLeft ==
  ASSUME NEW f, NEW s, s = [c \in Gif!Cells |-> s[c]]
  PROVE  Gif!Disposed(Gif!Drawn(s, f), Gif!DisposalOf(f, s)) = LeftBy(f, s)
<1> DEFINE u == Gif!Drawn(s, f)
           p == Gif!DisposalOf(f, s)
<1>1. DOMAIN s = Gif!Cells
  OBVIOUS
<1>2. DOMAIN u = Gif!Cells
  BY <1>1, OverIs DEF Gif!Drawn
<1>3. \A c \in Gif!Cells : c \notin Gif!Subimage(f) => u[c] = s[c]
  BY <1>1, OverIs DEF Gif!Drawn, Gif!Opaque
<1>4. p.method = f.dispose /\ p.area = Gif!Subimage(f)
      /\ p.saved = IF f.dispose = "previous" THEN [c \in Gif!Subimage(f) |-> s[c]] ELSE <<>>
  BY DEF Gif!DisposalOf
<1>5. CASE f.dispose = "background"
  <2>1. LeftBy(f, s) = Gif!Over(Cleared(f), u)
    BY <1>5 DEF LeftBy
  <2>2. Gif!Disposed(u, p) = Gif!Over([c \in p.area |-> Gif!Background], u)
    BY <1>4, <1>5 DEF Gif!Disposed
  <2>3. p.area = Gif!Subimage(f)
    BY <1>4
  <2>4. Gif!Over([c \in p.area |-> Gif!Background], u) = Gif!Over(Cleared(f), u)
    BY <2>3 DEF Cleared
  <2> QED BY <2>1, <2>2, <2>4
<1>6. CASE f.dispose = "previous"
  <2>1. LeftBy(f, s) = s
    BY <1>6 DEF LeftBy
  <2>2. Gif!Disposed(u, p) = Gif!Over([c \in Gif!Subimage(f) |-> s[c]], u)
    BY <1>4, <1>6 DEF Gif!Disposed
  <2>3. Gif!Over([c \in Gif!Subimage(f) |-> s[c]], u) = [c \in Gif!Cells |-> IF c \in Gif!Subimage(f) THEN s[c] ELSE u[c]]
    BY <1>2 DEF Gif!Over
  <2>4. [c \in Gif!Cells |-> IF c \in Gif!Subimage(f) THEN s[c] ELSE u[c]] = [c \in Gif!Cells |-> s[c]]
    BY <1>3
  <2> QED BY <2>1, <2>2, <2>3, <2>4
<1>7. CASE f.dispose # "background" /\ f.dispose # "previous"
  <2>1. LeftBy(f, s) = u
    BY <1>7 DEF LeftBy
  <2>2. Gif!Disposed(u, p) = u
    BY <1>4, <1>7 DEF Gif!Disposed
  <2> QED BY <2>1, <2>2
<1> QED BY <1>5, <1>6, <1>7

\* What a frame leaves is a screen again.
LEMMA LeftIsScreen ==
  ASSUME NEW f, NEW s, s = [c \in Gif!Cells |-> s[c]]
  PROVE  /\ Gif!Drawn(s, f) = [c \in Gif!Cells |-> Gif!Drawn(s, f)[c]]
         /\ LeftBy(f, s) = [c \in Gif!Cells |-> LeftBy(f, s)[c]]
<1>1. DOMAIN s = Gif!Cells
  OBVIOUS
<1>2. ASSUME NEW p, NEW u, DOMAIN u = Gif!Cells
      PROVE  Gif!Over(p, u) = [c \in Gif!Cells |-> Gif!Over(p, u)[c]] /\ DOMAIN Gif!Over(p, u) = Gif!Cells
  BY <1>2 DEF Gif!Over
<1>3. Gif!Drawn(s, f) = [c \in Gif!Cells |-> Gif!Drawn(s, f)[c]] /\ DOMAIN Gif!Drawn(s, f) = Gif!Cells
  BY <1>1, <1>2 DEF Gif!Drawn
<1>4. CASE f.dispose = "previous"
  BY <1>3, <1>4 DEF LeftBy
<1>5. CASE f.dispose = "background"
  <2>1. LeftBy(f, s) = Gif!Over(Cleared(f), Gif!Drawn(s, f))
    BY <1>5 DEF LeftBy
  <2> QED BY <1>2, <1>3, <2>1
<1>6. CASE f.dispose # "background" /\ f.dispose # "previous"
  <2>1. LeftBy(f, s) = Gif!Drawn(s, f)
    BY <1>6 DEF LeftBy
  <2> QED BY <1>3, <2>1
<1> QED BY <1>3, <1>4, <1>5, <1>6

\* A frame more: there are the screens before it and before the next.
LEMMA BeforeGrows ==
  ASSUME NEW S, NEW frames \in Seq(S), NEW b, AreBefore(b, frames), NEW n
  PROVE  \E g : /\ AreBefore(g, Append(frames, n))
                /\ g[Len(frames) + 1] = b[Len(frames) + 1]
                /\ g[Len(frames) + 2] = LeftBy(Gif!Frames[n], b[Len(frames) + 1])
<1> DEFINE l == Len(frames)
           more == Append(frames, n)
           g == [k \in 1 .. l + 2 |-> IF k = l + 2 THEN LeftBy(Gif!Frames[n], b[l + 1]) ELSE b[k]]
<1>1. l \in Nat /\ Len(more) = l + 1 /\ more[l + 1] = n
  OBVIOUS
<1>2. \A k \in 1 .. l : more[k] = frames[k]
  OBVIOUS
<1> HIDE DEF l, more
<1>3. /\ b[1] = EmptyScreen
      /\ \A k \in 1 .. l : b[k + 1] = LeftBy(Gif!Frames[frames[k]], b[k])
      /\ \A k \in 1 .. l + 1 : b[k] = [c \in Gif!Cells |-> b[k][c]]
  BY DEF AreBefore, l
<1>4. g = [k \in 1 .. Len(more) + 1 |-> g[k]]
  <2>1. Len(more) + 1 = l + 2
    BY <1>1
  <2>2. g = [k \in 1 .. l + 2 |-> g[k]]
    OBVIOUS
  <2> QED BY <2>1, <2>2
<1>5. \A k \in 1 .. l + 1 : g[k] = b[k]
  BY <1>1
<1>6. g[l + 2] = LeftBy(Gif!Frames[n], b[l + 1])
  BY <1>1
<1>7. l + 1 \in 1 .. l + 1 /\ 1 \in 1 .. l + 1 /\ Len(more) = l + 1
  BY <1>1
<1> HIDE DEF g
<1>8. ASSUME NEW k \in 1 .. l + 1
      PROVE  g[k + 1] = LeftBy(Gif!Frames[more[k]], g[k])
  <2>1. CASE k = l + 1
    <3>1. k + 1 = l + 2
      BY <1>1, <2>1
    <3> QED BY <1>1, <1>5, <1>6, <1>7, <2>1, <3>1
  <2>2. CASE k \in 1 .. l
    <3>1. k + 1 \in 1 .. l + 1
      BY <1>1, <2>2
    <3> QED BY <1>2, <1>3, <1>5, <2>2, <3>1
  <2> QED BY <1>1, <2>1, <2>2
<1>9. ASSUME NEW k \in 1 .. l + 2
      PROVE  g[k] = [c \in Gif!Cells |-> g[k][c]]
  <2>1. CASE k = l + 2
    <3>1. b[l + 1] = [c \in Gif!Cells |-> b[l + 1][c]]
      BY <1>3, <1>7
    <3>2. LeftBy(Gif!Frames[n], b[l + 1]) = [c \in Gif!Cells |-> LeftBy(Gif!Frames[n], b[l + 1])[c]]
      BY <3>1, LeftIsScreen
    <3> QED BY <1>6, <2>1, <3>2
  <2>2. CASE k \in 1 .. l + 1
    BY <1>3, <1>5, <2>2
  <2> QED BY <1>1, <2>1, <2>2
<1>10. AreBefore(g, more)
  <2>1. g[1] = EmptyScreen
    BY <1>3, <1>5, <1>7
  <2>2. Len(more) + 1 = l + 2
    BY <1>1
  <2> QED BY <1>4, <1>7, <1>8, <1>9, <2>1, <2>2 DEF AreBefore
<1> QED BY <1>5, <1>6, <1>7, <1>10 DEF l, more

\* The screens before the frames are what they are.
LEMMA BeforeIsUnique ==
  ASSUME NEW frames, Len(frames) \in Nat, NEW b, AreBefore(b, frames), NEW g,
         g = [k \in 1 .. Len(frames) + 1 |->
                IF k = 1 THEN EmptyScreen ELSE LeftBy(Gif!Frames[frames[k - 1]], g[k - 1])]
  PROVE  \A k \in 1 .. Len(frames) + 1 : g[k] = b[k]
<1> DEFINE l == Len(frames)
           Same == {i \in Nat : g[i + 1] = b[i + 1]}
<1>1. /\ b[1] = EmptyScreen
      /\ \A k \in 1 .. l : b[k + 1] = LeftBy(Gif!Frames[frames[k]], b[k])
  BY DEF AreBefore
<1>2. l \in Nat
  OBVIOUS
<1>3. \A k \in 1 .. l + 1 : g[k] = IF k = 1 THEN EmptyScreen ELSE LeftBy(Gif!Frames[frames[k - 1]], g[k - 1])
  OBVIOUS
<1> HIDE DEF l
<1>4. 0 \in Same
  <2>1. g[1] = EmptyScreen
    BY <1>2, <1>3
  <2> QED BY <1>1, <2>1
<1>5. ASSUME NEW i \in 0 .. l - 1, i \in Same
      PROVE  i + 1 \in Same
  <2>1. PICK k : k = i + 1
    OBVIOUS
  <2>2. k \in 1 .. l /\ k + 1 \in 1 .. l + 1 /\ k + 1 # 1 /\ (k + 1) - 1 = k /\ k \in Nat
    BY <1>2, <2>1
  <2>3. g[k + 1] = LeftBy(Gif!Frames[frames[k]], g[k])
    BY <1>3, <2>2
  <2>4. b[k + 1] = LeftBy(Gif!Frames[frames[k]], b[k])
    BY <1>1, <2>2
  <2>5. g[k] = b[k]
    BY <1>5, <2>1
  <2> QED BY <2>1, <2>2, <2>3, <2>4, <2>5
<1>6. \A i \in 0 .. l : i \in Same
  <2> HIDE DEF Same
  <2>1. \A i \in 0 .. l - 1 : i \in Same => i + 1 \in Same
    BY <1>5
  <2> QED BY <1>2, <1>4, <2>1, InductionUpTo
<1>7. ASSUME NEW k \in 1 .. l + 1
      PROVE  g[k] = b[k]
  <2>1. k - 1 \in 0 .. l /\ (k - 1) + 1 = k
    BY <1>2
  <2>2. g[(k - 1) + 1] = b[(k - 1) + 1]
    BY <1>6, <2>1
  <2> QED BY <2>1, <2>2
<1> QED BY <1>7 DEF l

\* The screen is what its frames say together.
LEMMA ShownIsComposed ==
  ASSUME Len(drawn) \in Nat, drawn # <<>> <=> Len(drawn) # 0, Shows(decoder, drawn)
  PROVE  decoder.screen = Gif!Composed
<1> DEFINE l == Len(drawn)
           Is(g) == g = [k \in 1 .. Len(drawn) + 1 |->
                           IF k = 1 THEN [c \in Gif!Cells |-> Gif!Background]
                           ELSE LET f == Gif!Frames[drawn[k - 1]] IN
                                CASE f.dispose = "previous" -> g[k - 1]
                                  [] f.dispose = "background" ->
                                       Gif!Over([c \in Gif!Subimage(f) |-> Gif!Background], Gif!Drawn(g[k - 1], f))
                                  [] OTHER -> Gif!Drawn(g[k - 1], f)]
           before == CHOOSE g : Is(g)
<1>1. PICK b : /\ AreBefore(b, drawn)
               /\ decoder.screen = IF drawn = <<>> THEN b[1] ELSE DrawnLast(b[l], drawn)
  BY DEF Shows
<1>2. ASSUME NEW g
      PROVE  Is(g) <=> g = [k \in 1 .. Len(drawn) + 1 |->
                              IF k = 1 THEN EmptyScreen ELSE LeftBy(Gif!Frames[drawn[k - 1]], g[k - 1])]
  BY DEF LeftBy, Cleared, EmptyScreen
<1>3. Gif!Composed = IF drawn = <<>> THEN before[1] ELSE Gif!Drawn(before[Len(drawn)], Gif!Frames[Gif!Last(drawn)])
  BY DEF Gif!Composed
<1>4. Is(b)
  <2>1. ASSUME NEW k \in 1 .. Len(drawn) + 1
        PROVE  b[k] = IF k = 1 THEN EmptyScreen ELSE LeftBy(Gif!Frames[drawn[k - 1]], b[k - 1])
    <3>1. CASE k = 1
      BY <1>1, <3>1 DEF AreBefore
    <3>2. CASE k # 1
      <4>1. k - 1 \in 1 .. Len(drawn) /\ (k - 1) + 1 = k
        BY <3>2
      <4>2. b[(k - 1) + 1] = LeftBy(Gif!Frames[drawn[k - 1]], b[k - 1])
        BY <1>1, <4>1 DEF AreBefore
      <4> QED BY <3>2, <4>1, <4>2
    <3> QED BY <3>1, <3>2
  <2>2. b = [k \in 1 .. Len(drawn) + 1 |-> b[k]]
    BY <1>1 DEF AreBefore
  <2>3. b = [k \in 1 .. Len(drawn) + 1 |->
               IF k = 1 THEN EmptyScreen ELSE LeftBy(Gif!Frames[drawn[k - 1]], b[k - 1])]
    BY <2>1, <2>2
  <2> HIDE DEF Is
  <2> QED BY <1>2, <2>3
<1>5. Is(before)
  <2>1. \E g : Is(g)
    <3> HIDE DEF Is
    <3> QED BY <1>4
  <2> HIDE DEF Is
  <2> QED BY <2>1
<1> HIDE DEF before
<1>6. \A k \in 1 .. Len(drawn) + 1 : before[k] = b[k]
  <2>1. before = [k \in 1 .. Len(drawn) + 1 |->
                    IF k = 1 THEN EmptyScreen ELSE LeftBy(Gif!Frames[drawn[k - 1]], before[k - 1])]
    <3> HIDE DEF Is
    <3> QED BY <1>2, <1>5
  <2>2. AreBefore(b, drawn)
    BY <1>1
  <2> HIDE DEF Is
  <2> QED BY <2>1, <2>2, BeforeIsUnique
<1>7. CASE drawn = <<>>
  <2>1. before[1] = b[1]
    BY <1>6
  <2> QED BY <1>1, <1>3, <1>7, <2>1
<1>8. CASE drawn # <<>>
  <2>1. before[Len(drawn)] = b[Len(drawn)]
    BY <1>6, <1>8
  <2>2. Gif!Last(drawn) = drawn[Len(drawn)]
    BY DEF Gif!Last
  <2> QED BY <1>1, <1>3, <1>8, <2>1, <2>2 DEF DrawnLast
<1> QED BY <1>7, <1>8

(* A decoder that goes on without a frame, and one that draws the frame n.  *)
Goes(e, g) ==
  /\ IsAt(g) /\ g.at >= e.at /\ g.screen = e.screen /\ g.disposal = e.disposal
  /\ \A n \in g.next : n \in e.next \/ n > e.at
Draws(e, g, n) ==
  LET s == Gif!Disposed(e.screen, e.disposal) IN
  /\ IsAt(g) /\ g.at >= e.at /\ n \in 1 .. g.at /\ (n \in e.next \/ n > e.at)
  /\ \A m \in g.next : m > n
  /\ g.last = {n}
  /\ g.screen = Gif!Drawn(s, Gif!Frames[n]) /\ g.disposal = Gif!DisposalOf(Gif!Frames[n], s)

\* The reader goes to the next frame and keeps the one it had.
LEMMA AheadIs ==
  ASSUME Len(Gif!Frames) \in Nat, NEW e, IsAt(e)
  PROVE  /\ Goes(e, Gif!Ahead(e)) /\ Gif!Ahead(e).last = e.next
         /\ \A n \in Gif!Ahead(e).next : n = e.at + 1
<1> DEFINE g == Gif!Ahead(e)
           l == Len(Gif!Frames)
<1>1. /\ e = [at |-> e.at, unread |-> e.unread, last |-> e.last, next |-> e.next, screen |-> e.screen, disposal |-> e.disposal]
      /\ e.at \in 0 .. l /\ e.next \subseteq 1 .. l
  BY DEF IsAt, IsDecoder
<1>2. CASE e.at = l
  <2>1. g = [at |-> e.at, unread |-> e.unread, last |-> e.next, next |-> {}, screen |-> e.screen, disposal |-> e.disposal]
    <3>1. g = [e EXCEPT !.last = e.next, !.next = {}]
      BY <1>2 DEF Gif!Ahead
    <3> HIDE DEF g
    <3> QED BY <1>1, <3>1
  <2> HIDE DEF g
  <2>2. g.at = e.at /\ g.last = e.next /\ g.next = {} /\ g.screen = e.screen /\ g.disposal = e.disposal /\ g.unread = e.unread
    BY <2>1
  <2>3. IsDecoder(g)
    BY <2>1, <2>2 DEF IsDecoder
  <2> QED BY <1>1, <2>2, <2>3 DEF IsAt, Goes, g
<1>3. CASE e.at # l
  <2>1. PICK next : /\ next \subseteq {e.at + 1}
                    /\ g = [at |-> e.at + 1, unread |-> TRUE, last |-> e.next, next |-> next, screen |-> e.screen, disposal |-> e.disposal]
    <3>1. g = [e EXCEPT !.last = e.next, !.at = e.at + 1, !.unread = TRUE,
                        !.next = IF Gif!HeaderIsBroken(e) THEN {} ELSE {e.at + 1}]
      BY <1>3 DEF Gif!Ahead
    <3> DEFINE next == IF Gif!HeaderIsBroken(e) THEN {} ELSE {e.at + 1}
    <3>2. next \subseteq {e.at + 1}
      OBVIOUS
    <3> HIDE DEF g, next
    <3>3. g = [e EXCEPT !.last = e.next, !.at = e.at + 1, !.unread = TRUE, !.next = next]
      BY <3>1 DEF next
    <3>4. g = [at |-> e.at + 1, unread |-> TRUE, last |-> e.next, next |-> next, screen |-> e.screen, disposal |-> e.disposal]
      BY <1>1, <3>3
    <3> QED BY <3>2, <3>4
  <2> HIDE DEF g
  <2>2. g.at = e.at + 1 /\ g.last = e.next /\ g.next = next /\ g.screen = e.screen /\ g.disposal = e.disposal /\ g.unread = TRUE
    BY <2>1
  <2>3. IsDecoder(g)
    BY <2>1, <2>2 DEF IsDecoder
  <2>4. e.at + 1 \in 0 .. l /\ e.at + 1 \in 1 .. e.at + 1 /\ e.at + 1 > e.at /\ e.at + 1 >= e.at
    BY <1>1, <1>3
  <2>5. next = {} \/ next = {e.at + 1}
    BY <2>1
  <2>6. IsAt(g)
    BY <1>1, <2>2, <2>3, <2>4, <2>5 DEF IsAt
  <2> QED BY <2>2, <2>4, <2>5, <2>6 DEF Goes, g
<1> QED BY <1>2, <1>3

(* A decoder whose reader gave a frame, or failed to.                       *)
Given(e, at) == [e EXCEPT !.unread = FALSE, !.at = at]

\* Whether the pixels of a frame were read says nothing else, and the reader may lose
\* a frame.
LEMMA GivenIs ==
  ASSUME Len(Gif!Frames) \in Nat, NEW e, IsAt(e), NEW at \in e.at .. Len(Gif!Frames)
  PROVE  Goes(e, Given(e, at)) /\ Given(e, at).next = e.next /\ Given(e, at).at = at
<1> DEFINE l == Len(Gif!Frames)
           g == Given(e, at)
<1>0. g = [e EXCEPT !.unread = FALSE, !.at = at]
  BY DEF Given
<1> HIDE DEF g
<1>1. /\ e = [at |-> e.at, unread |-> e.unread, last |-> e.last, next |-> e.next, screen |-> e.screen, disposal |-> e.disposal]
      /\ e.at \in 0 .. l /\ e.last \subseteq 1 .. l /\ (e.next = {} \/ \E n \in 1 .. e.at : e.next = {n})
  BY DEF IsAt, IsDecoder
<1>2. g = [at |-> at, unread |-> FALSE, last |-> e.last, next |-> e.next, screen |-> e.screen, disposal |-> e.disposal]
  BY <1>0, <1>1
<1>3. g.at = at /\ g.last = e.last /\ g.next = e.next /\ g.screen = e.screen /\ g.disposal = e.disposal /\ g.unread = FALSE
  BY <1>2
<1>4. IsDecoder(g)
  BY <1>2, <1>3 DEF IsDecoder
<1>5. at \in 0 .. l /\ at >= e.at /\ (e.next = {} \/ \E n \in 1 .. at : e.next = {n})
  BY <1>1
<1>6. IsAt(g)
  BY <1>1, <1>3, <1>4, <1>5 DEF IsAt
<1> QED BY <1>3, <1>5, <1>6 DEF Goes, g

\* A frame is drawn on what the one before left.
LEMMA BlitIs ==
  ASSUME NEW e, IsAt(e), NEW f
  PROVE  LET s == Gif!Disposed(e.screen, e.disposal)
             g == Gif!Blit(e, f) IN
         /\ IsAt(g) /\ g.at = e.at /\ g.next = e.next
         /\ g.screen = Gif!Drawn(s, f) /\ g.disposal = Gif!DisposalOf(f, s)
<1> DEFINE s == Gif!Disposed(e.screen, e.disposal)
           g == Gif!Blit(e, f)
<1>1. e = [at |-> e.at, unread |-> e.unread, last |-> e.last, next |-> e.next, screen |-> e.screen, disposal |-> e.disposal]
  BY DEF IsAt, IsDecoder
<1>2. g = [e EXCEPT !.screen = Gif!Drawn(s, f), !.disposal = Gif!DisposalOf(f, s)]
  BY DEF Gif!Blit
<1> HIDE DEF g, s
<1>3. g = [at |-> e.at, unread |-> e.unread, last |-> e.last, next |-> e.next,
           screen |-> Gif!Drawn(s, f), disposal |-> Gif!DisposalOf(f, s)]
  BY <1>1, <1>2
<1>4. g.at = e.at /\ g.last = e.last /\ g.next = e.next /\ g.screen = Gif!Drawn(s, f) /\ g.disposal = Gif!DisposalOf(f, s) /\ g.unread = e.unread
  BY <1>3
<1>5. IsDecoder(g)
  BY <1>3, <1>4 DEF IsDecoder
<1> QED BY <1>4, <1>5 DEF IsAt, g, s

\* What goes on and on goes on.
LEMMA GoesOn ==
  ASSUME NEW e, NEW g, NEW h, IsAt(e), Goes(e, g), Goes(g, h)
  PROVE  Goes(e, h)
<1>1. e.at \in Int /\ g.at \in Int /\ h.at \in Int /\ \A n \in h.next : n \in Int
  BY DEF IsAt, Goes
<1>2. ASSUME NEW n \in h.next
      PROVE  n \in e.next \/ n > e.at
  BY <1>1, <1>2 DEF Goes
<1> QED BY <1>1, <1>2 DEF Goes

\* A decoder may read nothing, or fail, or draw the next frame.
ReadsNone ==
  /\ UNCHANGED <<movie, file, delays, broke, drawn>> /\ reply' \in {"no_frame", "error", "panic"}
  /\ Goes(decoder, decoder')
ReadsOne(n) ==
  /\ UNCHANGED <<movie, file, delays, broke>> /\ reply' \in {"frame", "error"}
  /\ drawn' = Append(drawn, n) /\ Draws(decoder, decoder', n)

LEMMA ReadFrameIs ==
  ASSUME GifInv, Gif!MoviesAssumption, Gif!ReadFrame
  PROVE  ReadsNone \/ \E n \in 1 .. Len(Gif!Frames) : ReadsOne(n)
<1> DEFINE begun == IF decoder.next = {} THEN Gif!Ahead(decoder) ELSE decoder
           given == [begun EXCEPT !.unread = FALSE]
           l == Len(Gif!Frames)
<1>0. Len(Gif!Frames) \in Nat
  BY FramesAreSequence DEF GifInv
<1>1. IsAt(decoder) /\ UNCHANGED <<movie, file, delays, broke>>
  BY DEF GifInv, Gif!ReadFrame
<1>2. Goes(decoder, begun) /\ IsAt(begun)
  <2>1. CASE decoder.next = {}
    BY <1>0, <1>1, <2>1, AheadIs DEF Goes
  <2>2. CASE decoder.next # {}
    <3>1. decoder.at \in Int
      BY <1>1 DEF IsAt
    <3> QED BY <1>1, <2>2, <3>1 DEF Goes
  <2> QED BY <2>1, <2>2
<1> HIDE DEF begun
<1>3. \/ Gif!Ends(begun, "error") /\ UNCHANGED drawn
      \/ Gif!Ends(begun, "no_frame") /\ UNCHANGED drawn
      \/ \E n \in begun.next :
           LET f     == Gif!Frames[n]
               shown == Gif!Blit(given, f)
           IN  \/ Gif!Ends(begun, "panic") /\ UNCHANGED drawn
               \/ /\ \E e \in {given, [given EXCEPT !.at = IF begun.unread \/ @ = Len(Gif!Frames) THEN @ ELSE @ + 1]} : Gif!Ends(e, "error")
                  /\ UNCHANGED drawn
               \/ Gif!Ends(given, "error") /\ UNCHANGED drawn
               \/ Gif!Ends(given, "panic") /\ UNCHANGED drawn
               \/ /\ Gif!Ends(Gif!Ahead(shown), IF Gif!HeaderIsBroken(shown) THEN "error" ELSE "frame")
                  /\ drawn' = Append(drawn, n)
  BY DEF Gif!ReadFrame, begun
<1>4. CASE (Gif!Ends(begun, "error") \/ Gif!Ends(begun, "no_frame") \/ Gif!Ends(begun, "panic")) /\ UNCHANGED drawn
  BY <1>1, <1>2, <1>4 DEF Gif!Ends, ReadsNone
<1>5. begun.at \in 0 .. l /\ begun.next \subseteq 1 .. begun.at
  BY <1>2 DEF IsAt
<1>6. ASSUME NEW at \in begun.at .. l
      PROVE  /\ Goes(decoder, Given(begun, at)) /\ IsAt(Given(begun, at))
             /\ Given(begun, at).next = begun.next /\ Given(begun, at).at = at
  <2>1. /\ Goes(begun, Given(begun, at))
        /\ Given(begun, at).next = begun.next /\ Given(begun, at).at = at
    BY <1>0, <1>2, GivenIs
  <2> QED BY <1>1, <1>2, <2>1, GoesOn DEF Goes
<1>7. begun = [at |-> begun.at, unread |-> begun.unread, last |-> begun.last, next |-> begun.next,
               screen |-> begun.screen, disposal |-> begun.disposal]
  BY <1>2 DEF IsAt, IsDecoder
<1>8. given = Given(begun, begun.at)
  BY <1>7 DEF Given
<1>9. Goes(decoder, given) /\ IsAt(given) /\ given.next = begun.next /\ given.at = begun.at
  <2>1. begun.at \in begun.at .. l
    BY <1>0, <1>5
  <2> HIDE DEF given
  <2> QED BY <1>6, <1>8, <2>1
<1>10. CASE (Gif!Ends(given, "error") \/ Gif!Ends(given, "panic")) /\ UNCHANGED drawn
  <2> HIDE DEF given
  <2> QED BY <1>1, <1>9, <1>10 DEF Gif!Ends, ReadsNone
<1>11. ASSUME NEW e, e = [given EXCEPT !.at = IF begun.unread \/ @ = Len(Gif!Frames) THEN @ ELSE @ + 1],
              Gif!Ends(e, "error"), UNCHANGED drawn
       PROVE  ReadsNone
  <2>1. PICK at : at = IF begun.unread \/ begun.at = l THEN begun.at ELSE begun.at + 1
    OBVIOUS
  <2>2. at \in begun.at .. l
    BY <1>0, <1>5, <2>1
  <2>3. e = [given EXCEPT !.at = at]
    <3>1. given.at = begun.at
      BY <1>9
    <3> HIDE DEF given
    <3> QED BY <1>11, <2>1, <3>1
  <2>4. e = Given(begun, at)
    BY <2>3 DEF Given
  <2>5. Goes(decoder, e)
    BY <1>6, <2>2, <2>4
  <2> QED BY <1>1, <1>11, <2>5 DEF Gif!Ends, ReadsNone
<1> HIDE DEF given
<1>12. ASSUME NEW n \in begun.next, NEW shown, shown = Gif!Blit(given, Gif!Frames[n]),
              Gif!Ends(Gif!Ahead(shown), IF Gif!HeaderIsBroken(shown) THEN "error" ELSE "frame"),
              drawn' = Append(drawn, n)
       PROVE  n \in 1 .. l /\ ReadsOne(n)
  <2> DEFINE s == Gif!Disposed(given.screen, given.disposal)
             f == Gif!Frames[n]
  <2>1. /\ IsAt(shown) /\ shown.at = given.at /\ shown.next = given.next
        /\ shown.screen = Gif!Drawn(s, f) /\ shown.disposal = Gif!DisposalOf(f, s)
    BY <1>9, <1>12, BlitIs
  <2>2. PICK g : g = Gif!Ahead(shown)
    OBVIOUS
  <2>3. Goes(shown, g) /\ g.last = shown.next /\ \A m \in g.next : m = shown.at + 1
    BY <1>0, <2>1, <2>2, AheadIs
  <2>4. given.screen = decoder.screen /\ given.disposal = decoder.disposal /\ given.at >= decoder.at
    BY <1>9 DEF Goes
  <2>5. decoder.at \in Int /\ given.at \in Int /\ shown.at \in Int /\ g.at \in 0 .. l /\ g.at >= shown.at /\ IsAt(g)
    BY <1>1, <1>9, <2>1, <2>3 DEF Goes, IsAt
  <2>6. n \in 1 .. given.at /\ (n \in decoder.next \/ n > decoder.at)
    BY <1>5, <1>9 DEF Goes
  <2>7. g.last = {n}
    <3>1. begun.next = {n}
      BY <1>2 DEF IsAt
    <3> QED BY <1>9, <2>1, <2>3, <3>1
  <2>8. \A m \in g.next : m > n
    BY <2>1, <2>3, <2>5, <2>6
  <2>9. n \in 1 .. g.at /\ g.at >= decoder.at /\ n \in 1 .. l
    BY <1>0, <2>1, <2>4, <2>5, <2>6
  <2>10. g.screen = shown.screen /\ g.disposal = shown.disposal
    BY <2>3 DEF Goes
  <2>11. Draws(decoder, g, n)
    BY <2>1, <2>4, <2>5, <2>6, <2>7, <2>8, <2>9, <2>10 DEF Draws
  <2> QED BY <1>1, <1>12, <2>2, <2>9, <2>11 DEF ReadsOne, Gif!Ends
<1>13. CASE \E n \in begun.next : Gif!Ends(Gif!Ahead(Gif!Blit(given, Gif!Frames[n])),
                                          IF Gif!HeaderIsBroken(Gif!Blit(given, Gif!Frames[n])) THEN "error" ELSE "frame")
                                  /\ drawn' = Append(drawn, n)
  BY <1>12, <1>13
<1>14. CASE \E n \in begun.next : \E e \in {given, [given EXCEPT !.at = IF begun.unread \/ @ = Len(Gif!Frames) THEN @ ELSE @ + 1]} :
              Gif!Ends(e, "error") /\ UNCHANGED drawn
  BY <1>10, <1>11, <1>14
<1> QED BY <1>3, <1>4, <1>10, <1>13, <1>14

\* The elements of a sequence, and a sequence of them.
LEMMA ElementsOf ==
  ASSUME NEW S, NEW s \in Seq(S)
  PROVE  /\ Len(s) \in Nat /\ \A k \in 1 .. Len(s) : s[k] \in S
         /\ \A T : (\A k \in 1 .. Len(s) : s[k] \in T) => s \in Seq(T)
  OBVIOUS

\* Pictures do not change while the film is the same.
LEMMA SamePictures ==
  ASSUME movie' = movie
  PROVE  /\ Gif!Cells' = Gif!Cells /\ Gif!Frames' = Gif!Frames /\ EmptyScreen' = EmptyScreen
         /\ \A f, s : Gif!Drawn(s, f)' = Gif!Drawn(s, f) /\ LeftBy(f, s)' = LeftBy(f, s)
         /\ \A s, p : Gif!Disposed(s, p)' = Gif!Disposed(s, p)
<1>1. Gif!Cells' = Gif!Cells /\ Gif!Frames' = Gif!Frames /\ Gif!Background' = Gif!Background
  BY DEF Gif!Cells, Gif!Frames, Gif!Background
<1>2. EmptyScreen' = EmptyScreen
  BY <1>1 DEF EmptyScreen
<1>3. ASSUME NEW f
      PROVE  /\ Gif!Subimage(f)' = Gif!Subimage(f) /\ Gif!Opaque(f)' = Gif!Opaque(f)
             /\ Gif!PaletteOf(f)' = Gif!PaletteOf(f) /\ Cleared(f)' = Cleared(f)
  <2>1. Gif!Subimage(f)' = Gif!Subimage(f)
    BY <1>1 DEF Gif!Subimage
  <2>2. Gif!Opaque(f)' = Gif!Opaque(f)
    BY <2>1 DEF Gif!Opaque, Gif!Index
  <2>3. Gif!PaletteOf(f)' = Gif!PaletteOf(f)
    BY DEF Gif!PaletteOf
  <2>4. Cleared(f)' = Cleared(f)
    BY <1>1, <2>1 DEF Cleared
  <2> QED BY <2>1, <2>2, <2>3, <2>4
<1>4. ASSUME NEW f, NEW s
      PROVE  Gif!Drawn(s, f)' = Gif!Drawn(s, f)
  BY <1>3 DEF Gif!Drawn, Gif!Over, Gif!Index
<1>5. ASSUME NEW f, NEW s
      PROVE  LeftBy(f, s)' = LeftBy(f, s)
  BY <1>3, <1>4 DEF LeftBy, Gif!Over
<1>6. ASSUME NEW s, NEW p
      PROVE  Gif!Disposed(s, p)' = Gif!Disposed(s, p)
  BY <1>1 DEF Gif!Disposed, Gif!Over
<1> QED BY <1>1, <1>2, <1>4, <1>5, <1>6

\* What is said of the next decoder is said of the decoder next.
LEMMA SameShows ==
  ASSUME movie' = movie, Shows(decoder', drawn')
  PROVE  Shows(decoder, drawn)'
<1>1. PICK e, fr : e = decoder' /\ fr = drawn'
  OBVIOUS
<1>2. PICK b : /\ AreBefore(b, fr)
               /\ Gif!Disposed(e.screen, e.disposal) = b[Len(fr) + 1]
               /\ e.screen = IF fr = <<>> THEN b[1] ELSE DrawnLast(b[Len(fr)], fr)
  BY <1>1 DEF Shows
<1>3. AreBefore(b, fr)'
  <2>1. ASSUME NEW k
        PROVE  LeftBy(Gif!Frames[fr[k]], b[k])' = LeftBy(Gif!Frames[fr[k]], b[k])
    <3>1. PICK f : f = Gif!Frames[fr[k]]
      OBVIOUS
    <3>2. f = (Gif!Frames[fr[k]])'
      BY <3>1, SamePictures
    <3>3. LeftBy(f, b[k])' = LeftBy(f, b[k])
      BY SamePictures
    <3> QED BY <3>1, <3>2, <3>3
  <2>2. \A k \in 1 .. Len(fr) : b[k + 1] = LeftBy(Gif!Frames[fr[k]], b[k])'
    BY <1>2, <2>1 DEF AreBefore
  <2>3. \A k \in 1 .. Len(fr) + 1 : b[k] = [c \in Gif!Cells' |-> b[k][c]]
    BY <1>2, SamePictures DEF AreBefore
  <2>4. b = [k \in 1 .. Len(fr) + 1 |-> b[k]] /\ b[1] = EmptyScreen'
    BY <1>2, SamePictures DEF AreBefore
  <2> QED BY <2>2, <2>3, <2>4 DEF AreBefore
<1>4. Gif!Disposed(e.screen, e.disposal)' = b[Len(fr) + 1]
  BY <1>2, SamePictures
<1>5. DrawnLast(b[Len(fr)], fr)' = DrawnLast(b[Len(fr)], fr)
  BY SamePictures DEF DrawnLast
<1>6. Shows(e, fr)'
  BY <1>2, <1>3, <1>4, <1>5 DEF Shows
<1> QED BY <1>1, <1>6

\* What was true of an entry and of the frames so far stays true while the movie does.
LEMMA SameIsAt ==
  ASSUME movie' = movie
  PROVE  /\ IsAt(decoder') => IsAt(decoder)'
         /\ IsAfter(decoder', drawn') => IsAfter(decoder, drawn)'
         /\ HasDelays(file', delays', broke') => HasDelays(file, delays, broke)'
<1>1. IsAt(decoder') => IsAt(decoder)'
  BY DEF IsAt, IsDecoder, Gif!Frames
<1>2. IsAfter(decoder', drawn') => IsAfter(decoder, drawn)'
  BY DEF IsAfter
<1>3. HasDelays(file', delays', broke') => HasDelays(file, delays, broke)'
  BY DEF HasDelays, BlockAt, Gif!Frames
<1> QED BY <1>1, <1>2, <1>3

\* It begins with an empty screen and nothing written.
LEMMA GifInitHolds ==
  ASSUME Gif!Init, Gif!MoviesAssumption
  PROVE  GifInv
<1>1. /\ movie \in Movies /\ reply = "created" /\ drawn = <<>> /\ file = <<>> /\ delays = <<>> /\ broke = FALSE
      /\ decoder = [at |-> 0, unread |-> FALSE, last |-> {}, next |-> {},
                    screen |-> EmptyScreen, disposal |-> Gif!NoDisposal]
  BY DEF Gif!Init, EmptyScreen
<1>2. Len(Gif!Frames) \in Nat
  BY <1>1, FramesAreSequence
<1>3. /\ decoder.at = 0 /\ decoder.last = {} /\ decoder.next = {} /\ decoder.screen = EmptyScreen
      /\ decoder.disposal = Gif!NoDisposal /\ decoder.unread = FALSE
  BY <1>1
<1>4. IsAt(decoder)
  <2>1. IsDecoder(decoder)
    BY <1>1, <1>3 DEF IsDecoder
  <2> QED BY <1>2, <1>3, <2>1 DEF IsAt
<1>5. IsAfter(decoder, drawn)
  BY <1>1, <1>3 DEF IsAfter
<1>6. Shows(decoder, drawn)
  <2> DEFINE b == [k \in 1 .. 1 |-> EmptyScreen]
  <2>1. Len(<<>>) = 0 /\ b[1] = EmptyScreen /\ b = [k \in 1 .. Len(<<>>) + 1 |-> b[k]]
    OBVIOUS
  <2>2. AreBefore(b, <<>>)
    <3>1. EmptyScreen = [c \in Gif!Cells |-> EmptyScreen[c]]
      BY DEF EmptyScreen
    <3> HIDE DEF b
    <3> QED BY <2>1, <3>1 DEF AreBefore
  <2>3. Gif!Disposed(EmptyScreen, Gif!NoDisposal) = EmptyScreen
    BY DEF Gif!Disposed, Gif!NoDisposal
  <2> HIDE DEF b
  <2> QED BY <1>1, <1>3, <2>1, <2>2, <2>3 DEF Shows
<1>7. HasDelays(file, delays, broke)
  <2>1. <<>> = [k \in 1 .. 0 + Len(<<>>) |-> BlockAt(k, 0, <<>>)]
    OBVIOUS
  <2> QED BY <1>1, <2>1 DEF HasDelays
<1> QED BY <1>1, <1>4, <1>5, <1>6, <1>7 DEF GifInv, GifReply, FrameIsLast

\* A call that draws nothing leaves the screen as it was.
LEMMA ReadsNoneStep ==
  ASSUME GifInv, ReadsNone
  PROVE  GifInv'
<1>1. /\ movie' = movie /\ drawn' = drawn /\ file' = file /\ delays' = delays /\ broke' = broke
      /\ reply' \in {"no_frame", "error", "panic"}
      /\ IsAt(decoder') /\ decoder'.at >= decoder.at
      /\ decoder'.screen = decoder.screen /\ decoder'.disposal = decoder.disposal
      /\ \A n \in decoder'.next : n \in decoder.next \/ n > decoder.at
  BY DEF ReadsNone, Goes
<1>2. decoder.at \in Nat /\ decoder'.at \in Nat /\ \A n \in decoder'.next : n \in Nat
  BY <1>1 DEF GifInv, IsAt
<1>3. IsAfter(decoder', drawn')
  <2>1. /\ drawn \in Seq(1 .. decoder.at)
        /\ \A k \in 1 .. Len(drawn) : \A n \in decoder.next : drawn[k] < n
        /\ \A k \in 1 .. Len(drawn) - 1 : drawn[k] < drawn[k + 1]
    BY DEF GifInv, IsAfter
  <2>2. drawn \in Seq(1 .. decoder'.at)
    <3>1. \A k \in 1 .. Len(drawn) : drawn[k] \in 1 .. decoder.at
      BY <2>1, ElementsOf
    <3>2. \A k \in 1 .. Len(drawn) : drawn[k] \in 1 .. decoder'.at
      BY <1>1, <1>2, <3>1
    <3> QED BY <2>1, <3>2, ElementsOf
  <2>3. ASSUME NEW k \in 1 .. Len(drawn), NEW n \in decoder'.next
        PROVE  drawn[k] < n
    <3>1. drawn[k] \in 1 .. decoder.at
      BY <2>1, ElementsOf
    <3> QED BY <1>1, <1>2, <2>1, <3>1
  <2> QED BY <1>1, <2>1, <2>2, <2>3 DEF IsAfter
<1>4. Shows(decoder', drawn')
  BY <1>1 DEF GifInv, Shows
<1>5. HasDelays(file', delays', broke')
  BY <1>1 DEF GifInv
<1>6. IsAt(decoder)' /\ IsAfter(decoder, drawn)' /\ Shows(decoder, drawn)' /\ HasDelays(file, delays, broke)'
  BY <1>1, <1>3, <1>4, <1>5, SameIsAt, SameShows
<1>7. FrameIsLast' /\ GifReply'
  BY <1>1 DEF FrameIsLast, GifReply
<1> QED BY <1>1, <1>6, <1>7 DEF GifInv

\* A frame is drawn on what those before it left.
LEMMA ReadsOneStep ==
  ASSUME GifInv, NEW n \in 1 .. Len(Gif!Frames), ReadsOne(n)
  PROVE  GifInv'
<1>1. /\ movie' = movie /\ drawn' = Append(drawn, n) /\ file' = file /\ delays' = delays /\ broke' = broke
      /\ reply' \in {"frame", "error"}
      /\ IsAt(decoder') /\ decoder'.at >= decoder.at /\ n \in 1 .. decoder'.at
      /\ n \in decoder.next \/ n > decoder.at
      /\ \A m \in decoder'.next : m > n
      /\ decoder'.last = {n}
  BY DEF ReadsOne, Draws
<1>2. decoder.at \in Nat /\ decoder'.at \in Nat /\ n \in Nat /\ \A m \in decoder'.next : m \in Nat
  BY <1>1 DEF GifInv, IsAt
<1>3. /\ drawn \in Seq(1 .. decoder.at)
      /\ \A k \in 1 .. Len(drawn) : \A m \in decoder.next : drawn[k] < m
      /\ \A k \in 1 .. Len(drawn) - 1 : drawn[k] < drawn[k + 1]
  BY DEF GifInv, IsAfter
<1>4. /\ Len(drawn) \in Nat /\ Len(drawn') = Len(drawn) + 1 /\ drawn'[Len(drawn) + 1] = n
      /\ \A k \in 1 .. Len(drawn) : drawn'[k] = drawn[k]
      /\ drawn' # <<>>
  BY <1>1, <1>3
<1>5. \A k \in 1 .. Len(drawn) : drawn[k] \in 1 .. decoder.at /\ drawn[k] < n
  <2>1. \A k \in 1 .. Len(drawn) : drawn[k] \in 1 .. decoder.at
    BY <1>3, ElementsOf
  <2> QED BY <1>1, <1>2, <1>3, <2>1
<1>6. IsAfter(decoder', drawn')
  <2>1. drawn' \in Seq(1 .. decoder'.at)
    <3>1. drawn \in Seq(1 .. decoder'.at)
      <4>1. \A k \in 1 .. Len(drawn) : drawn[k] \in 1 .. decoder'.at
        BY <1>1, <1>2, <1>5
      <4> QED BY <1>3, <4>1, ElementsOf
    <3> QED BY <1>1, <3>1
  <2>2. ASSUME NEW k \in 1 .. Len(drawn'), NEW m \in decoder'.next
        PROVE  drawn'[k] < m
    <3>1. m \in Nat /\ m > n
      BY <1>1, <1>2
    <3>2. CASE k = Len(drawn) + 1
      BY <1>2, <1>4, <3>1, <3>2
    <3>3. CASE k \in 1 .. Len(drawn)
      <4>1. drawn'[k] < n /\ drawn'[k] \in Nat
        BY <1>2, <1>4, <1>5, <3>3
      <4> QED BY <1>2, <3>1, <4>1
    <3> QED BY <1>4, <3>2, <3>3
  <2>3. ASSUME NEW k \in 1 .. Len(drawn') - 1
        PROVE  drawn'[k] < drawn'[k + 1]
    <3>1. k \in 1 .. Len(drawn)
      BY <1>4
    <3>2. CASE k = Len(drawn)
      BY <1>4, <1>5, <3>1, <3>2
    <3>3. CASE k # Len(drawn)
      <4>1. k \in 1 .. Len(drawn) - 1 /\ k + 1 \in 1 .. Len(drawn)
        BY <1>4, <3>1, <3>3
      <4> QED BY <1>3, <1>4, <3>1, <4>1
    <3> QED BY <3>2, <3>3
  <2> QED BY <2>1, <2>2, <2>3 DEF IsAfter
<1>7. Shows(decoder', drawn')
  <2> DEFINE l == Len(drawn)
             f == Gif!Frames[n]
  <2>1. PICK b : AreBefore(b, drawn) /\ Gif!Disposed(decoder.screen, decoder.disposal) = b[l + 1]
    BY DEF GifInv, Shows
  <2>2. PICK g : AreBefore(g, Append(drawn, n)) /\ g[l + 1] = b[l + 1] /\ g[l + 2] = LeftBy(f, b[l + 1])
    BY <1>3, <2>1, BeforeGrows
  <2>3. decoder'.screen = Gif!Drawn(b[l + 1], f) /\ decoder'.disposal = Gif!DisposalOf(f, b[l + 1])
    BY <2>1 DEF ReadsOne, Draws
  <2>4. b[l + 1] = [c \in Gif!Cells |-> b[l + 1][c]]
    <3>1. l + 1 \in 1 .. l + 1
      BY <1>4
    <3> QED BY <2>1, <3>1 DEF AreBefore
  <2>5. Gif!Disposed(decoder'.screen, decoder'.disposal) = g[l + 2]
    BY <2>2, <2>3, <2>4, DisposedIsLeft
  <2>6. decoder'.screen = DrawnLast(g[Len(drawn')], drawn')
    BY <1>4, <2>2, <2>3 DEF DrawnLast
  <2>7. Len(drawn') + 1 = l + 2
    BY <1>4
  <2>8. AreBefore(g, drawn')
    BY <1>1, <2>2
  <2> QED BY <1>4, <2>5, <2>6, <2>7, <2>8 DEF Shows
<1>8. HasDelays(file', delays', broke')
  BY <1>1 DEF GifInv
<1>9. IsAt(decoder)' /\ IsAfter(decoder, drawn)' /\ Shows(decoder, drawn)' /\ HasDelays(file, delays, broke)'
  BY <1>1, <1>6, <1>7, <1>8, SameIsAt, SameShows
<1>10. FrameIsLast' /\ GifReply'
  BY <1>1, <1>4 DEF FrameIsLast, GifReply
<1> QED BY <1>1, <1>9, <1>10 DEF GifInv

\* One more in a sequence.
LEMMA OneMore ==
  ASSUME NEW m \in Nat, NEW f, f = [k \in 1 .. m |-> f[k]], NEW x
  PROVE  /\ f \o <<x>> = [k \in 1 .. m + 1 |-> IF k = m + 1 THEN x ELSE f[k]]
         /\ f \o <<>> = f
<1> DEFINE S == {f[k] : k \in 1 .. m} \cup {x}
<1>1. f \in [1 .. m -> S]
  OBVIOUS
<1>2. f \in Seq(S) /\ Len(f) = m /\ x \in S
  BY <1>1
<1> HIDE DEF S
<1>3. PICK g : g = f \o <<x>>
  OBVIOUS
<1>4. g \in Seq(S) /\ Len(g) = m + 1
  BY <1>2, <1>3
<1>5. g[m + 1] = x /\ \A k \in 1 .. m : g[k] = f[k]
  BY <1>2, <1>3
<1>6. g = [k \in 1 .. m + 1 |-> g[k]]
  BY <1>4
<1>7. \A k \in 1 .. m + 1 : g[k] = IF k = m + 1 THEN x ELSE f[k]
  BY <1>5
<1>8. f \o <<>> = f
  BY <1>2
<1> QED BY <1>3, <1>6, <1>7, <1>8

\* A frame is written with its own time, and the file is begun with a repeat.
LEMMA WriteFrameStep ==
  ASSUME GifInv, Gif!WriteFrame
  PROVE  GifInv'
<1> DEFINE l == Len(delays)
<1>1. /\ reply = "frame" /\ movie' = movie /\ decoder' = decoder /\ drawn' = drawn
      /\ \/ /\ file' = file \o Gif!Repeat \o <<Gif!DelayOf(decoder)>>
            /\ delays' = Append(delays, Gif!Last(drawn)) /\ reply' = "written" /\ broke' = broke
         \/ /\ file' \in {file, file \o Gif!Repeat} /\ delays' = delays /\ broke' = TRUE /\ reply' = "error"
  BY DEF Gif!WriteFrame
<1>2. PICK n \in Nat : /\ file = [k \in 1 .. n + l |-> BlockAt(k, n, delays)]
                       /\ ~broke => n = IF delays = <<>> THEN 0 ELSE 1
  BY DEF GifInv, HasDelays
<1>3. delays \in Seq(1 .. Len(Gif!Frames)) /\ l \in Nat /\ (l = 0 <=> delays = <<>>)
  <2>1. delays \in Seq(1 .. Len(Gif!Frames))
    BY DEF GifInv, HasDelays
  <2>2. ASSUME NEW S, NEW s \in Seq(S)
        PROVE  Len(s) \in Nat /\ (Len(s) = 0 <=> s = <<>>)
    OBVIOUS
  <2> QED BY <2>1, <2>2
<1>4. Gif!Repeat = IF delays = <<>> THEN <<{}>> ELSE <<>>
  BY DEF Gif!Repeat, Gif!RepeatBlock
<1>5. n + l \in Nat /\ file = [k \in 1 .. n + l |-> file[k]]
  BY <1>2, <1>3
<1> HIDE DEF l
<1>6. file \o <<>> = file
  BY <1>5, OneMore
<1>7. ASSUME delays = <<>>
      PROVE  file \o <<{}>> = [k \in 1 .. (n + 1) + l |-> BlockAt(k, n + 1, delays)]
  <2>1. l = 0 /\ (n + 1) + l = n + l + 1
    BY <1>3, <1>7
  <2>2. file \o <<{}>> = [k \in 1 .. n + l + 1 |-> IF k = n + l + 1 THEN {} ELSE file[k]]
    <3>1. PICK z \in Nat : z = n + l
      BY <1>5
    <3>2. file = [k \in 1 .. z |-> file[k]]
      BY <1>5, <3>1
    <3>3. PICK x : x = {}
      OBVIOUS
    <3>4. file \o <<x>> = [k \in 1 .. z + 1 |-> IF k = z + 1 THEN x ELSE file[k]]
      BY <3>2, OneMore
    <3> QED BY <3>1, <3>3, <3>4
  <2>3. \A k \in 1 .. n + l + 1 : BlockAt(k, n + 1, delays) = {} /\ (k # n + l + 1 => file[k] = {})
    BY <1>2, <2>1 DEF BlockAt
  <2> QED BY <2>1, <2>2, <2>3
<1>8. CASE file' \in {file, file \o Gif!Repeat} /\ delays' = delays /\ broke' = TRUE /\ reply' = "error"
  <2>1. \E m \in Nat : file' = [k \in 1 .. m + l |-> BlockAt(k, m, delays)]
    <3>1. CASE file' = file
      BY <1>2, <3>1
    <3>2. CASE file' = file \o Gif!Repeat /\ delays # <<>>
      BY <1>2, <1>4, <1>6, <3>2
    <3>3. CASE file' = file \o Gif!Repeat /\ delays = <<>>
      <4>1. file' = [k \in 1 .. (n + 1) + l |-> BlockAt(k, n + 1, delays)]
        BY <1>4, <1>7, <3>3
      <4>2. n + 1 \in Nat
        OBVIOUS
      <4> QED BY <4>1, <4>2
    <3> QED BY <1>8, <3>1, <3>2, <3>3
  <2>2. HasDelays(file', delays', broke')
    BY <1>3, <1>8, <2>1 DEF HasDelays, l
  <2>3. IsAt(decoder)' /\ IsAfter(decoder, drawn)' /\ Shows(decoder, drawn)' /\ HasDelays(file, delays, broke)'
    <3>1. IsAt(decoder') /\ IsAfter(decoder', drawn') /\ Shows(decoder', drawn')
      BY <1>1 DEF GifInv
    <3> QED BY <1>1, <2>2, <3>1, SameIsAt, SameShows
  <2> QED BY <1>1, <1>8, <2>3 DEF GifInv, GifReply, FrameIsLast
<1>9. CASE /\ file' = file \o Gif!Repeat \o <<Gif!DelayOf(decoder)>>
           /\ delays' = Append(delays, Gif!Last(drawn)) /\ reply' = "written" /\ broke' = broke
  <2> DEFINE i == Gif!Last(drawn)
             m == IF delays = <<>> THEN n + 1 ELSE n
             more == Append(delays, i)
  <2>1. drawn # <<>> /\ decoder.last = {i} /\ i \in 1 .. Len(Gif!Frames)
    <3>1. drawn # <<>> /\ decoder.last = {drawn[Len(drawn)]}
      BY <1>1 DEF GifInv, FrameIsLast
    <3>2. decoder.last \subseteq 1 .. Len(Gif!Frames)
      BY DEF GifInv, IsAt
    <3> QED BY <3>1, <3>2 DEF Gif!Last
  <2>2. Gif!DelayOf(decoder) = {Gif!Frames[i].delay}
    <3>1. Gif!DelayOf(decoder) = {Gif!Frames[j].delay : j \in {i}}
      BY <2>1 DEF Gif!DelayOf
    <3> QED BY <3>1
  <2> HIDE DEF i
  <2>3. more \in Seq(1 .. Len(Gif!Frames)) /\ Len(more) = l + 1 /\ more[l + 1] = i /\ more # <<>>
        /\ \A k \in 1 .. l : more[k] = delays[k]
    BY <1>3, <2>1 DEF l
  <2>4. m \in Nat
    OBVIOUS
  <2>5. file \o Gif!Repeat = [k \in 1 .. m + l |-> BlockAt(k, m, delays)]
    <3>1. CASE delays = <<>>
      BY <1>4, <1>7, <3>1
    <3>2. CASE delays # <<>>
      BY <1>2, <1>4, <1>6, <3>2
    <3> QED BY <3>1, <3>2
  <2>6. PICK blocks : blocks = file \o Gif!Repeat
    OBVIOUS
  <2> HIDE DEF m, more
  <2>7. m + l \in Nat /\ blocks = [k \in 1 .. m + l |-> blocks[k]]
    BY <1>3, <2>4, <2>5, <2>6
  <2>8. file' = [k \in 1 .. m + l + 1 |-> IF k = m + l + 1 THEN {Gif!Frames[i].delay} ELSE blocks[k]]
    <3>1. file' = blocks \o <<{Gif!Frames[i].delay}>>
      BY <1>9, <2>2, <2>6
    <3>2. PICK z \in Nat : z = m + l
      BY <2>7
    <3>3. blocks = [k \in 1 .. z |-> blocks[k]]
      BY <2>7, <3>2
    <3>4. PICK x : x = {Gif!Frames[i].delay}
      OBVIOUS
    <3>5. blocks \o <<x>> = [k \in 1 .. z + 1 |-> IF k = z + 1 THEN x ELSE blocks[k]]
      BY <3>3, OneMore
    <3> QED BY <3>1, <3>2, <3>4, <3>5
  <2>9. ASSUME NEW k \in 1 .. m + l + 1
        PROVE  BlockAt(k, m, more) = IF k = m + l + 1 THEN {Gif!Frames[i].delay} ELSE blocks[k]
    <3>1. CASE k = m + l + 1
      <4>1. ~(k <= m) /\ k - m = l + 1
        BY <1>3, <2>4, <3>1
      <4> QED BY <2>3, <3>1, <4>1 DEF BlockAt
    <3>2. CASE k \in 1 .. m
      <4>1. k \in 1 .. m + l /\ k <= m /\ k # m + l + 1
        BY <1>3, <2>4, <3>2
      <4>2. blocks[k] = BlockAt(k, m, delays)
        BY <2>5, <2>6, <4>1
      <4> QED BY <4>1, <4>2 DEF BlockAt
    <3>3. CASE k # m + l + 1 /\ k \notin 1 .. m
      <4>1. k \in 1 .. m + l /\ ~(k <= m) /\ k - m \in 1 .. l
        BY <1>3, <2>4, <3>3
      <4>2. blocks[k] = BlockAt(k, m, delays)
        BY <2>5, <2>6, <4>1
      <4>3. more[k - m] = delays[k - m]
        BY <2>3, <4>1
      <4> QED BY <3>3, <4>1, <4>2, <4>3 DEF BlockAt
    <3> QED BY <3>1, <3>2, <3>3
  <2>10. file' = [k \in 1 .. m + Len(more) |-> BlockAt(k, m, more)]
    <3>1. m + Len(more) = m + l + 1
      BY <1>3, <2>3, <2>4
    <3> QED BY <2>8, <2>9, <3>1
  <2>11. ~broke => m = 1
    BY <1>2 DEF m
  <2>12. HasDelays(file', delays', broke')
    <3>1. delays' = more
      BY <1>9 DEF more, i
    <3> QED BY <1>9, <2>3, <2>4, <2>10, <2>11, <3>1 DEF HasDelays
  <2>13. IsAt(decoder)' /\ IsAfter(decoder, drawn)' /\ Shows(decoder, drawn)' /\ HasDelays(file, delays, broke)'
    <3>1. IsAt(decoder') /\ IsAfter(decoder', drawn') /\ Shows(decoder', drawn')
      BY <1>1 DEF GifInv
    <3> QED BY <1>1, <2>12, <3>1, SameIsAt, SameShows
  <2> QED BY <1>1, <1>9, <2>13 DEF GifInv, GifReply, FrameIsLast
<1> QED BY <1>1, <1>8, <1>9

\* What is not the codec's leaves it as it is.
LEMMA GifStutter ==
  ASSUME GifInv, movie' = movie, decoder' = decoder, drawn' = drawn, file' = file, delays' = delays, broke' = broke,
         reply' \in {reply, "written"}
  PROVE  GifInv'
<1>1. IsAt(decoder') /\ IsAfter(decoder', drawn') /\ Shows(decoder', drawn') /\ HasDelays(file', delays', broke')
  BY DEF GifInv
<1>2. IsAt(decoder)' /\ IsAfter(decoder, drawn)' /\ Shows(decoder, drawn)' /\ HasDelays(file, delays, broke)'
  BY <1>1, SameIsAt, SameShows
<1> QED BY <1>2 DEF GifInv, GifReply, FrameIsLast

\* Every step of the codec keeps it so.
LEMMA GifStep ==
  ASSUME GifInv, [ContextNext]_contextVars, Gif!MoviesAssumption
  PROVE  GifInv'
<1>1. Gif!ReadFrame \/ Gif!WriteFrame \/ Gif!Discard \/ UNCHANGED gifVars
  BY DEF ContextNext, contextVars, Gif!Next
<1>2. CASE Gif!ReadFrame
  BY <1>2, ReadFrameIs, ReadsNoneStep, ReadsOneStep
<1>3. CASE Gif!WriteFrame
  BY <1>3, WriteFrameStep
<1>4. CASE Gif!Discard
  BY <1>4, GifStutter DEF Gif!Discard
<1>5. CASE UNCHANGED gifVars
  BY <1>5, GifStutter DEF gifVars
<1> QED BY <1>1, <1>2, <1>3, <1>4, <1>5

\* What the times are.
LEMMA TimesHold ==
  ASSUME HasDelays(file, delays, broke)
  PROVE  Gif!TimesAreKept
<1>1. PICK n \in Nat : /\ file = [k \in 1 .. n + Len(delays) |-> BlockAt(k, n, delays)]
                       /\ ~broke => n = IF delays = <<>> THEN 0 ELSE 1
  BY DEF HasDelays
<1>2. Len(delays) \in Nat /\ DOMAIN delays = 1 .. Len(delays)
  <2>1. delays \in Seq(1 .. Len(Gif!Frames))
    BY DEF HasDelays
  <2>2. ASSUME NEW S, NEW s \in Seq(S)
        PROVE  Len(s) \in Nat /\ DOMAIN s = 1 .. Len(s)
    OBVIOUS
  <2> QED BY <2>1, <2>2
<1>3. PICK l \in Nat : l = Len(delays)
  BY <1>2
<1>4. file = [k \in 1 .. n + l |-> BlockAt(k, n, delays)]
  BY <1>1, <1>3
<1>5. Len(file) = n + l
  BY <1>4
<1>6. Gif!Repeats = n
  BY <1>3, <1>5 DEF Gif!Repeats
<1>7. \A k \in 1 .. n : file[k] = {}
  BY <1>4 DEF BlockAt
<1>8. ASSUME NEW k \in 1 .. l
      PROVE  n + k > 0 /\ file[n + k] = {Gif!Frames[delays[k]].delay}
  <2>1. n + k \in 1 .. n + l /\ ~(n + k <= n) /\ (n + k) - n = k /\ n + k > 0
    OBVIOUS
  <2>2. file[n + k] = BlockAt(n + k, n, delays)
    BY <1>4, <2>1
  <2> QED BY <2>1, <2>2 DEF BlockAt
<1> QED BY <1>1, <1>2, <1>3, <1>6, <1>7, <1>8 DEF Gif!TimesAreKept, Gif!RepeatBlock

\* The GIF codec is so always.
LEMMA GifHolds == ContextSpec => []GifInv
<1>1. Gif!MoviesAssumption
  BY PartsAssumption
<1>2. ContextInit => GifInv
  BY <1>1, GifInitHolds DEF ContextInit
<1>3. GifInv /\ [ContextNext]_contextVars => GifInv'
  BY <1>1, GifStep
<1> QED BY <1>2, <1>3, PTL DEF ContextSpec

\* The screen of a GIF shows what its frames say together, in their order, whatever
\* was damaged before, and each is written with its own time, for any film.
THEOREM GifStaysShown == ContextSpec => []GifIsShown
<1>1. GifInv => GifIsShown
  <2> SUFFICES ASSUME GifInv
               PROVE  GifIsShown
    OBVIOUS
  <2>1. drawn \in Seq(1 .. decoder.at)
    BY DEF GifInv, IsAfter
  <2>2. Len(drawn) \in Nat /\ (drawn # <<>> <=> Len(drawn) # 0)
    <3>1. ASSUME NEW S, NEW s \in Seq(S)
          PROVE  Len(s) \in Nat /\ (s # <<>> <=> Len(s) # 0)
      OBVIOUS
    <3> QED BY <2>1, <3>1
  <2>3. Gif!ScreenIsComposed
    BY <2>2, ShownIsComposed DEF GifInv, Gif!ScreenIsComposed
  <2>4. Gif!FramesComeInOrder
    BY DEF GifInv, IsAfter, Gif!FramesComeInOrder
  <2>5. Gif!TimesAreKept
    BY TimesHold DEF GifInv
  <2> QED BY <2>3, <2>4, <2>5 DEF GifIsShown
<1> QED BY <1>1, GifHolds, PTL

-----------------------------------------------------------------------------
(* The text of an error.  What the pieces that are still to come make       *)
(* together is what FlattenSeq computes, piece by piece.                    *)
Flat(s) == Text!FlattenSeq(s)
AreJoined(f, s, S) == f \in [0 .. Len(s) -> Seq(S)] /\ f[0] = <<>> /\ \A i \in 1 .. Len(s) : f[i] = f[i - 1] \o s[i]

\* Pieces are joined one after the other.
LEMMA JoiningExists ==
  ASSUME NEW S, NEW s \in Seq(Seq(S))
  PROVE  \E f : AreJoined(f, s, S)
<1> DEFINE n == Len(s)
           step == [i \in 1 .. n |-> [x \in Seq(S) |-> x \o s[i]]]
<1>1. n \in Nat /\ \A i \in 1 .. n : s[i] \in Seq(S)
  OBVIOUS
<1>2. ASSUME NEW x \in Seq(S), NEW y \in Seq(S)
      PROVE  x \o y \in Seq(S)
  OBVIOUS
<1>3. <<>> \in Seq(S) /\ step \in [1 .. n -> [Seq(S) -> Seq(S)]]
  <2> HIDE DEF n
  <2> QED BY <1>1, <1>2
<1>4. PICK f : IsStepByStep(f, n, Seq(S), <<>>, step)
  <2> HIDE DEF n, step
  <2> QED BY <1>1, <1>3, StepByStep
<1>5. f \in [0 .. n -> Seq(S)] /\ f[0] = <<>> /\ \A i \in 1 .. n : f[i] = step[i][f[i - 1]]
  BY <1>4 DEF IsStepByStep
<1>6. ASSUME NEW i \in 1 .. n
      PROVE  f[i] = f[i - 1] \o s[i]
  <2> HIDE DEF n
  <2>1. i - 1 \in 0 .. n
    BY <1>1
  <2>2. f[i - 1] \in Seq(S)
    BY <1>5, <2>1
  <2>3. step[i] = [x \in Seq(S) |-> x \o s[i]]
    OBVIOUS
  <2>4. step[i][f[i - 1]] = f[i - 1] \o s[i]
    <3> HIDE DEF step
    <3> QED BY <2>2, <2>3
  <2> HIDE DEF step
  <2> QED BY <1>5, <2>4
<1>7. AreJoined(f, s, S)
  <2> HIDE DEF step
  <2> QED BY <1>5, <1>6 DEF AreJoined
<1> QED BY <1>7

\* There is but one way to join the pieces, and FlattenSeq finds it.
LEMMA FlatIsJoined ==
  ASSUME NEW S, NEW s \in Seq(Seq(S)), NEW f, AreJoined(f, s, S)
  PROVE  Flat(s) = f[Len(s)]
<1> DEFINE n == Len(s)
           Is(g) == g = [i \in 1 .. n |-> IF i = 1 THEN s[i] ELSE g[i - 1] \o s[i]]
           joined == CHOOSE g : Is(g)
           g == [i \in 1 .. n |-> f[i]]
<1>1. n \in Nat /\ \A i \in 1 .. n : s[i] \in Seq(S)
  OBVIOUS
<1>2. f \in [0 .. n -> Seq(S)] /\ f[0] = <<>> /\ \A i \in 1 .. n : f[i] = f[i - 1] \o s[i]
  BY DEF AreJoined
<1>3. ASSUME NEW x \in Seq(S)
      PROVE  <<>> \o x = x
  OBVIOUS
<1>4. CASE n = 0
  <2>1. s = <<>> /\ Flat(s) = <<>>
    BY <1>4 DEF Flat, Text!FlattenSeq
  <2> QED BY <1>2, <1>4, <2>1
<1>5. CASE n # 0
  <2>1. Flat(s) = joined[n]
    BY <1>5 DEF Flat, Text!FlattenSeq
  <2>2. Is(g)
    <3>1. ASSUME NEW i \in 1 .. n
          PROVE  f[i] = IF i = 1 THEN s[i] ELSE g[i - 1] \o s[i]
      <4> HIDE DEF n
      <4>1. f[i] = f[i - 1] \o s[i] /\ s[i] \in Seq(S)
        BY <1>1, <1>2
      <4>2. CASE i = 1
        <5>1. f[i - 1] = <<>>
          BY <1>2, <4>2
        <5> QED BY <1>3, <4>1, <4>2, <5>1
      <4>3. CASE i # 1
        <5>1. i - 1 \in 1 .. n
          BY <1>1, <4>3
        <5>2. g[i - 1] = f[i - 1]
          BY <5>1
        <5> QED BY <4>1, <4>3, <5>2
      <4> QED BY <4>2, <4>3
    <3> HIDE DEF n
    <3>2. g = [i \in 1 .. n |-> f[i]]
      OBVIOUS
    <3>3. [i \in 1 .. n |-> f[i]] = [i \in 1 .. n |-> IF i = 1 THEN s[i] ELSE g[i - 1] \o s[i]]
      <4> HIDE DEF g
      <4> QED BY <3>1
    <3> HIDE DEF g
    <3> QED BY <3>2, <3>3
  <2>3. \E h : Is(h)
    <3> HIDE DEF g, Is
    <3> QED BY <2>2
  <2>4. Is(joined)
    <3> HIDE DEF Is
    <3> QED BY <2>3
  <2> HIDE DEF joined, n
  <2>5. \A i \in 1 .. n : joined[i] = IF i = 1 THEN s[i] ELSE joined[i - 1] \o s[i]
    BY <2>4
  <2>6. \A i \in 1 .. n : g[i] = f[i] /\ g[i] = IF i = 1 THEN s[i] ELSE g[i - 1] \o s[i]
    BY <2>2
  <2> HIDE DEF Is, g
  <2> DEFINE Same == {i \in Nat : i \in 1 .. n => joined[i] = g[i]}
  <2>7. 0 \in Same
    OBVIOUS
  <2>8. ASSUME NEW i \in 0 .. n - 1, i \in Same
        PROVE  i + 1 \in Same
    <3>1. i + 1 \in 1 .. n /\ i + 1 - 1 = i /\ i \in Nat /\ i + 1 \in Nat /\ (i # 0 => i \in 1 .. n)
      BY <1>1
    <3>2. PICK k : k = i + 1
      OBVIOUS
    <3>3. k \in 1 .. n /\ k - 1 = i
      BY <3>1, <3>2
    <3>4. joined[k] = (IF k = 1 THEN s[k] ELSE joined[k - 1] \o s[k]) /\ g[k] = IF k = 1 THEN s[k] ELSE g[k - 1] \o s[k]
      BY <2>5, <2>6, <3>3
    <3>5. i # 0 => joined[i] = g[i]
      BY <2>8, <3>1
    <3>6. k # 1 => i # 0
      BY <3>1, <3>2
    <3>7. joined[k] = g[k]
      BY <3>3, <3>4, <3>5, <3>6
    <3> QED BY <3>1, <3>2, <3>7
  <2>9. n \in Same
    <3> HIDE DEF Same
    <3>1. \A i \in 0 .. n - 1 : i \in Same => i + 1 \in Same
      BY <2>8
    <3>2. \A i \in 0 .. n : i \in Same
      BY <1>1, <2>7, <3>1, InductionUpTo
    <3> QED BY <1>1, <3>2
  <2>10. n \in 1 .. n
    BY <1>1, <1>5
  <2>11. Flat(s) = f[n]
    BY <2>1, <2>6, <2>9, <2>10
  <2> QED BY <2>11 DEF n
<1> QED BY <1>4, <1>5

\* No pieces make an empty text.
LEMMA FlatOfNone ==
  ASSUME NEW S
  PROVE  Flat(<<>>) = <<>>
  BY DEF Flat, Text!FlattenSeq

\* What the pieces make is the first of them and what the others make.
LEMMA FlatOfMore ==
  ASSUME NEW S, NEW s \in Seq(Seq(S)), s # <<>>
  PROVE  /\ Flat(s) \in Seq(S) /\ Flat(Tail(s)) \in Seq(S)
         /\ Flat(s) = Head(s) \o Flat(Tail(s))
<1> DEFINE n == Len(s)
           t == Tail(s)
<1>1. n \in Nat \ {0} /\ t \in Seq(Seq(S)) /\ Len(t) = n - 1 /\ Head(s) = s[1] /\ Head(s) \in Seq(S)
  OBVIOUS
<1>2. \A i \in 1 .. n : s[i] \in Seq(S)
  OBVIOUS
<1>3. \A i \in 1 .. n - 1 : t[i] = s[i + 1]
  OBVIOUS
<1>4. PICK f : AreJoined(f, s, S)
  BY JoiningExists
<1> HIDE DEF t
<1>5. PICK h : AreJoined(h, t, S)
  BY <1>1, JoiningExists
<1>6. Flat(s) = f[n] /\ Flat(t) = h[n - 1]
  BY <1>1, <1>4, <1>5, FlatIsJoined
<1> HIDE DEF n
<1>7. f \in [0 .. n -> Seq(S)] /\ f[0] = <<>> /\ \A i \in 1 .. n : f[i] = f[i - 1] \o s[i]
  BY <1>4 DEF AreJoined, n
<1>8. h \in [0 .. n - 1 -> Seq(S)] /\ h[0] = <<>> /\ \A i \in 1 .. n - 1 : h[i] = h[i - 1] \o t[i]
  BY <1>1, <1>5 DEF AreJoined
<1>9. ASSUME NEW a \in Seq(S), NEW b \in Seq(S), NEW c \in Seq(S)
      PROVE  (a \o b) \o c = a \o (b \o c)
  OBVIOUS
<1>10. ASSUME NEW a \in Seq(S)
       PROVE  <<>> \o a = a /\ a \o <<>> = a
  OBVIOUS
<1> DEFINE Same == {i \in Nat : f[i + 1] = Head(s) \o h[i]}
<1>11. 0 \in Same
  <2>1. f[1] = f[0] \o s[1]
    <3>1. 1 \in 1 .. n /\ 1 - 1 = 0
      BY <1>1
    <3> QED BY <1>7, <3>1
  <2>2. PICK a : a = Head(s) /\ a = s[1] /\ a \in Seq(S)
    BY <1>1
  <2>3. f[1] = a
    BY <1>7, <1>10, <2>1, <2>2
  <2>4. a \o h[0] = a
    BY <1>8, <1>10, <2>2
  <2>5. f[1] = Head(s) \o h[0]
    BY <2>2, <2>3, <2>4, Zenon
  <2>6. 0 + 1 = 1
    OBVIOUS
  <2> QED BY <2>5, <2>6
<1>12. ASSUME NEW i \in 0 .. (n - 1) - 1, i \in Same
       PROVE  i + 1 \in Same
  <2>0. PICK k : k = i + 1
    OBVIOUS
  <2>1. k \in 1 .. n /\ k + 1 \in 1 .. n /\ k \in 1 .. n - 1 /\ k - 1 = i /\ (k + 1) - 1 = k /\ k \in 0 .. n /\ i \in 0 .. n - 1 /\ k \in Nat
    BY <1>1, <2>0
  <2>2. f[k + 1] = f[k] \o s[k + 1]
    BY <1>7, <2>1
  <2>3. h[k] = h[i] \o t[k]
    BY <1>8, <2>1
  <2>4. f[k] = Head(s) \o h[i] /\ t[k] = s[k + 1]
    BY <1>3, <1>12, <2>0, <2>1
  <2>5. h[i] \in Seq(S) /\ s[k + 1] \in Seq(S)
    BY <1>2, <1>8, <2>1
  <2>6. PICK a : a = Head(s) /\ a \in Seq(S)
    BY <1>1
  <2>7. PICK b : b = h[i] /\ b \in Seq(S)
    BY <2>5
  <2>8. PICK c : c = s[k + 1] /\ c \in Seq(S)
    BY <2>5
  <2>9. f[k + 1] = (a \o b) \o c /\ h[k] = b \o c
    BY <2>2, <2>3, <2>4, <2>6, <2>7, <2>8
  <2>10. (a \o b) \o c = a \o (b \o c)
    BY <1>9, <2>6, <2>7, <2>8
  <2>11. f[k + 1] = Head(s) \o h[k]
    BY <2>6, <2>9, <2>10
  <2> QED BY <2>0, <2>1, <2>11
<1>13. n - 1 \in Same
  <2> HIDE DEF Same
  <2>1. \A i \in 0 .. (n - 1) - 1 : i \in Same => i + 1 \in Same
    BY <1>12
  <2>2. n - 1 \in Nat
    BY <1>1
  <2>3. \A i \in 0 .. n - 1 : i \in Same
    BY <1>11, <2>1, <2>2, InductionUpTo
  <2> QED BY <1>1, <2>3
<1>14. f[n] = Head(s) \o h[n - 1]
  <2>1. (n - 1) + 1 = n
    BY <1>1
  <2>2. f[(n - 1) + 1] = Head(s) \o h[n - 1]
    BY <1>13
  <2> QED BY <2>1, <2>2
<1>15. f[n] \in Seq(S) /\ h[n - 1] \in Seq(S)
  <2>1. n \in 0 .. n /\ n - 1 \in 0 .. n - 1
    BY <1>1
  <2> QED BY <1>7, <1>8, <2>1
<1> QED BY <1>6, <1>14, <1>15 DEF t

\* What the buffer has of the text: its first n bytes.
TextRest == Flat(pieces)
Begun(n) == n <= Len(buffer) /\ n <= Len(text) /\ \A i \in 1 .. n : buffer[i] = text[i]
CutAt == Text!TextRoom

TextTyped ==
  /\ buffer \in Seq(Bytes \cup {Old}) /\ text \in Seq(Bytes) /\ suffix \in Seq(Bytes \ {Null})
  /\ pieces \in Seq(Seq(Bytes)) /\ pos \in Nat /\ written \in Nat
  /\ result \in {"none", "cut", "all", "truncated", "told all", "told truncated"}

TextComes ==
  result = "none" =>
    /\ IF Text!Fits THEN pos <= CutAt ELSE pos = 0
    /\ Begun(pos)
    /\ Len(text) = pos + Len(TextRest)
    /\ \A i \in 1 .. Len(TextRest) : text[pos + i] = TextRest[i]
TextIsCut == result = "cut" => Text!Fits /\ written = CutAt /\ CutAt < Len(text) /\ Begun(CutAt)
TextIsAll == result = "all" => Text!Fits /\ written = Len(text) /\ Len(text) <= CutAt /\ Begun(Len(text))
TextEnds ==
  result = "truncated" =>
    \/ ~Text!Fits /\ written = 0
    \/ /\ Text!Fits /\ CutAt < Len(text) /\ Begun(CutAt)
       /\ written = IF suffix = <<>> THEN CutAt ELSE Len(suffix)
       /\ \A i \in 1 .. Len(suffix) : buffer[CutAt + i] = suffix[i]
TextIsTold ==
  result \in {"told all", "told truncated"} /\ Len(buffer) >= 2 =>
    /\ written + 1 <= Len(buffer) /\ buffer[written + 1] = Null
    /\ \A i \in 1 .. written :
         /\ buffer[i] # Null /\ buffer[i] # Old
         /\ i <= CutAt => i <= Len(text) /\ buffer[i] = Text!Readable[i]
    /\ result = "told all" => written = Len(text) /\ Len(text) <= CutAt
    /\ result = "told truncated" => CutAt < Len(text) \/ CutAt <= 0
TextInv == TextTyped /\ TextComes /\ TextIsCut /\ TextIsAll /\ TextEnds /\ TextIsTold

\* Bytes that are put in a buffer leave it as long as it was, and change what is
\* between the two positions only.
LEMMA PutIs ==
  ASSUME NEW S, NEW b \in Seq(S), NEW at \in Nat, NEW bytes \in Seq(S), NEW end \in Int
  PROVE  /\ Text!Put(b, at, bytes, end) \in Seq(S) /\ Len(Text!Put(b, at, bytes, end)) = Len(b)
         /\ \A i \in 1 .. Len(b) :
              Text!Put(b, at, bytes, end)[i] =
                IF i > at /\ i <= at + Len(bytes) /\ i <= end THEN bytes[i - at] ELSE b[i]
<1> DEFINE p == Text!Put(b, at, bytes, end)
           n == Len(b)
<1>1. n \in Nat /\ DOMAIN b = 1 .. n /\ \A i \in 1 .. n : b[i] \in S
  OBVIOUS
<1>2. p = [i \in 1 .. n |-> IF i > at /\ i <= at + Len(bytes) /\ i <= end THEN bytes[i - at] ELSE b[i]]
  BY <1>1 DEF Text!Put
<1>3. Len(bytes) \in Nat /\ \A i \in 1 .. Len(bytes) : bytes[i] \in S
  OBVIOUS
<1>4. ASSUME NEW i \in 1 .. n, i > at, i <= at + Len(bytes)
      PROVE  bytes[i - at] \in S
  <2>1. i - at \in 1 .. Len(bytes)
    BY <1>1, <1>3, <1>4
  <2> QED BY <1>3, <2>1
<1> HIDE DEF n, p
<1>5. p \in [1 .. n -> S]
  BY <1>1, <1>2, <1>4
<1>6. p \in Seq(S) /\ Len(p) = n
  BY <1>1, <1>5
<1>7. \A i \in 1 .. n : p[i] = IF i > at /\ i <= at + Len(bytes) /\ i <= end THEN bytes[i - at] ELSE b[i]
  BY <1>2
<1> QED BY <1>6, <1>7 DEF n, p

\* Sizes are numbers.
LEMMA TextSizes ==
  ASSUME TextTyped
  PROVE  /\ Len(buffer) \in Nat /\ Len(text) \in Nat /\ Len(suffix) \in Nat /\ CutAt \in Int
         /\ CutAt = Len(buffer) - 1 - Len(suffix)
         /\ Text!Fits <=> Len(buffer) >= 2 /\ CutAt > 0
<1>1. buffer \in Seq(Bytes \cup {Old}) /\ text \in Seq(Bytes) /\ suffix \in Seq(Bytes \ {Null})
  BY DEF TextTyped
<1>2. Len(buffer) \in Nat
  BY <1>1
<1>3. Len(text) \in Nat
  BY <1>1
<1>4. Len(suffix) \in Nat
  BY <1>1
<1> QED BY <1>2, <1>3, <1>4 DEF CutAt, Text!TextRoom, Text!Room, Text!Fits

\* It begins with an empty buffer and all of the text to come.
LEMMA TextInitHolds ==
  ASSUME Text!Init, Text!TextAssumption
  PROVE  TextInv
<1>1. pieces \in Seq(Seq(Bytes)) /\ text = Flat(pieces) /\ suffix \in Seq(Bytes \ {Null})
  BY DEF Text!Init, Text!TextAssumption, Flat
<1>2. text \in Seq(Bytes)
  <2>1. CASE pieces = <<>>
    <3>1. text = <<>>
      BY <1>1, <2>1, FlatOfNone
    <3> QED BY <3>1
  <2>2. CASE pieces # <<>>
    BY <1>1, <2>2, FlatOfMore
  <2> QED BY <2>1, <2>2
<1>3. buffer \in Seq(Bytes \cup {Old})
  BY DEF Text!Init, Text!TextAssumption
<1>4. pos = 0 /\ result = "none" /\ written = 0
  BY DEF Text!Init
<1>5. TextTyped
  BY <1>1, <1>2, <1>3, <1>4 DEF TextTyped
<1>6. TextComes
  <2>1. Text!Fits => pos <= CutAt
    BY <1>4, <1>5, TextSizes
  <2>2. Begun(pos)
    BY <1>4, <1>5, TextSizes DEF Begun
  <2>3. Len(text) = pos + Len(TextRest) /\ TextRest = text
    BY <1>1, <1>4, <1>5, TextSizes DEF TextRest
  <2>4. \A i \in 1 .. Len(TextRest) : text[pos + i] = TextRest[i]
    BY <1>4, <2>3, <1>5, TextSizes
  <2> QED BY <1>4, <2>1, <2>2, <2>3, <2>4 DEF TextComes
<1> QED BY <1>4, <1>5, <1>6 DEF TextInv, TextIsCut, TextIsAll, TextEnds, TextIsTold

\* A buffer that is too small has nothing written to it.
LEMMA TooSmallStep ==
  ASSUME TextInv, Text!TooSmall
  PROVE  TextInv'
<1>1. /\ result' = "truncated" /\ written' = 0 /\ UNCHANGED <<buffer, text, suffix, pieces, pos>>
      /\ Len(buffer) < 2 \/ Len(suffix) >= Text!Room
  BY DEF Text!TooSmall, Text!Ends, Text!Kept
<1>2. TextTyped'
  BY <1>1 DEF TextInv, TextTyped
<1>3. ~Text!Fits /\ (Text!Fits)' = Text!Fits
  <2>1. Len(buffer) \in Nat /\ Len(suffix) \in Nat
    BY TextSizes DEF TextInv
  <2> QED BY <1>1, <2>1 DEF Text!Fits, Text!Room
<1>4. TextEnds'
  BY <1>1, <1>3 DEF TextEnds
<1> QED BY <1>1, <1>2, <1>4 DEF TextInv, TextComes, TextIsCut, TextIsAll, TextIsTold

\* When all pieces are written all of the text is in the buffer.
LEMMA AllWrittenStep ==
  ASSUME TextInv, Text!AllWritten
  PROVE  TextInv'
<1>1. /\ result' = "all" /\ written' = pos /\ UNCHANGED <<buffer, text, suffix, pieces, pos>>
      /\ Text!Fits /\ pieces = <<>> /\ result = "none"
  BY DEF Text!AllWritten, Text!Ends, Text!Kept
<1>2. TextTyped'
  BY <1>1 DEF TextInv, TextTyped
<1>3. /\ (Text!Fits)' = Text!Fits /\ CutAt' = CutAt
  BY <1>1 DEF Text!Fits, Text!Room, CutAt, Text!TextRoom
<1>4. TextRest = <<>>
  BY <1>1, FlatOfNone DEF TextRest
<1>5. pos = Len(text) /\ pos <= CutAt /\ Begun(pos)
  BY <1>1, <1>4 DEF TextInv, TextComes, TextTyped
<1>6. TextIsAll'
  BY <1>1, <1>3, <1>5 DEF TextIsAll, Begun
<1> QED BY <1>1, <1>2, <1>6 DEF TextInv, TextComes, TextIsCut, TextEnds, TextIsTold

\* A piece is written behind what is there, as much of it as fits.
LEMMA WritePieceStep ==
  ASSUME TextInv, Text!WritePiece, Text!TextAssumption
  PROVE  TextInv'
<1> DEFINE p == Head(pieces)
<1>1. /\ result = "none" /\ Text!Fits /\ pieces # <<>>
      /\ buffer' = Text!Put(buffer, pos, p, CutAt)
      /\ UNCHANGED <<text, suffix>>
  BY DEF Text!WritePiece, Text!Kept, CutAt
<1>2. /\ buffer \in Seq(Bytes \cup {Old}) /\ p \in Seq(Bytes \cup {Old}) /\ p \in Seq(Bytes) /\ Len(p) \in Nat
      /\ Tail(pieces) \in Seq(Seq(Bytes)) /\ pos \in Nat
  <2>1. pieces \in Seq(Seq(Bytes)) /\ buffer \in Seq(Bytes \cup {Old}) /\ pos \in Nat
    BY DEF TextInv, TextTyped
  <2>2. p \in Seq(Bytes) /\ Tail(pieces) \in Seq(Seq(Bytes))
    BY <1>1, <2>1
  <2>3. p \in Seq(Bytes \cup {Old}) /\ Len(p) \in Nat
    <3> HIDE DEF p
    <3> QED BY <2>2
  <2> QED BY <2>1, <2>2, <2>3
<1>3. /\ Len(buffer) \in Nat /\ Len(text) \in Nat /\ Len(suffix) \in Nat /\ CutAt \in Int
      /\ CutAt = Len(buffer) - 1 - Len(suffix) /\ pos <= CutAt
      /\ pos <= Len(text) /\ \A i \in 1 .. pos : buffer[i] = text[i]
  BY <1>1, TextSizes DEF TextInv, TextComes, Begun
<1>4. /\ buffer' \in Seq(Bytes \cup {Old}) /\ Len(buffer') = Len(buffer)
      /\ \A i \in 1 .. Len(buffer) :
           buffer'[i] = IF i > pos /\ i <= pos + Len(p) /\ i <= CutAt THEN p[i - pos] ELSE buffer[i]
  <2> HIDE DEF p
  <2> QED BY <1>1, <1>2, <1>3, PutIs
<1>5. (Text!Fits)' = Text!Fits /\ CutAt' = CutAt
  BY <1>1, <1>4 DEF Text!Fits, Text!Room, CutAt, Text!TextRoom
<1>6. /\ TextRest \in Seq(Bytes) /\ Flat(Tail(pieces)) \in Seq(Bytes)
      /\ TextRest = p \o Flat(Tail(pieces))
  BY <1>1, FlatOfMore DEF TextInv, TextTyped, TextRest
<1>7. PICK rest : rest = Flat(Tail(pieces)) /\ rest \in Seq(Bytes)
  BY <1>6
<1> HIDE DEF p
<1>8. Len(TextRest) = Len(p) + Len(rest) /\ Len(rest) \in Nat
  BY <1>2, <1>6, <1>7
<1>9. /\ \A i \in 1 .. Len(p) : TextRest[i] = p[i]
      /\ \A i \in 1 .. Len(rest) : TextRest[Len(p) + i] = rest[i]
  BY <1>2, <1>6, <1>7
<1>10. Len(text) = pos + Len(TextRest) /\ \A i \in 1 .. Len(TextRest) : text[pos + i] = TextRest[i]
  BY <1>1 DEF TextInv, TextComes
<1>11. ASSUME NEW i \in 1 .. Len(text), i <= pos + Len(p), i <= CutAt
       PROVE  buffer'[i] = text[i]
  <2>1. i \in 1 .. Len(buffer)
    BY <1>3, <1>11
  <2>2. CASE i <= pos
    BY <1>2, <1>3, <1>4, <2>1, <2>2
  <2>3. CASE i > pos
    <3>1. PICK k \in 1 .. Len(p) : k = i - pos /\ pos + k = i
      BY <1>2, <1>11, <2>3
    <3>2. k \in 1 .. Len(TextRest)
      BY <1>2, <1>8
    <3>3. text[i] = TextRest[k] /\ TextRest[k] = p[k]
      BY <1>9, <1>10, <3>1, <3>2
    <3>4. buffer'[i] = p[k]
      BY <1>4, <1>11, <2>1, <2>3, <3>1
    <3> QED BY <3>3, <3>4
  <2> QED BY <1>2, <1>3, <2>2, <2>3
<1>12. CASE /\ Text!FitsWhole(p) /\ pos' = pos + Len(p) /\ pieces' = Tail(pieces) /\ UNCHANGED <<result, written>>
  <2>1. Len(p) <= CutAt - pos
    BY <1>12 DEF Text!FitsWhole, CutAt
  <2>2. TextTyped'
    BY <1>1, <1>2, <1>4, <1>12 DEF TextInv, TextTyped
  <2>3. pos' <= CutAt /\ pos' <= Len(text) /\ pos' \in Nat
    BY <1>2, <1>3, <1>8, <1>10, <1>12, <2>1
  <2>4. Begun(pos)'
    <3>1. pos' <= Len(buffer)
      BY <1>3, <2>3
    <3>2. \A i \in 1 .. pos' : i \in 1 .. Len(text) /\ i <= pos + Len(p) /\ i <= CutAt
      BY <1>2, <1>3, <1>12, <2>3
    <3>3. \A i \in 1 .. pos' : buffer'[i] = text[i]
      BY <1>11, <3>2
    <3> QED BY <1>1, <1>4, <2>3, <3>1, <3>3 DEF Begun
  <2>5. TextRest' = rest
    BY <1>7, <1>12 DEF TextRest, Flat, Text!FlattenSeq
  <2>6. Len(text) = pos' + Len(rest)
    BY <1>2, <1>3, <1>8, <1>10, <1>12
  <2>7. ASSUME NEW i \in 1 .. Len(rest)
        PROVE  text[pos' + i] = rest[i]
    <3>1. Len(p) + i \in 1 .. Len(TextRest) /\ pos' + i = pos + (Len(p) + i)
      BY <1>2, <1>8, <1>12
    <3> QED BY <1>9, <1>10, <3>1
  <2>8. TextComes'
    BY <1>1, <1>5, <2>3, <2>4, <2>5, <2>6, <2>7 DEF TextComes
  <2>9. result' = "none"
    BY <1>1, <1>12
  <2> QED BY <2>2, <2>8, <2>9 DEF TextInv, TextIsCut, TextIsAll, TextEnds, TextIsTold
<1>13. CASE ~Text!FitsWhole(p) /\ pos' = CutAt /\ result' = "cut" /\ written' = CutAt /\ UNCHANGED pieces
  <2>1. ~(Len(p) <= CutAt - pos)
    BY <1>13 DEF Text!FitsWhole, CutAt
  <2>2. CutAt \in Nat
    BY <1>2, <1>3
  <2>3. TextTyped'
    BY <1>1, <1>2, <1>4, <1>13, <2>2 DEF TextInv, TextTyped
  <2>10. Len(text) = pos + (Len(p) + Len(rest))
    BY <1>8, <1>10
  <2>11. CutAt < pos + Len(p)
    BY <1>2, <1>3, <2>1
  <2>4. CutAt < Len(text) /\ CutAt <= Len(buffer) /\ \A i \in 1 .. CutAt : i \in 1 .. Len(text) /\ i <= pos + Len(p) /\ i <= CutAt
    BY <1>2, <1>3, <1>8, <2>2, <2>10, <2>11
  <2>5. \A i \in 1 .. CutAt : buffer'[i] = text[i]
    BY <1>11, <2>4
  <2>6. TextIsCut'
    BY <1>1, <1>4, <1>5, <1>13, <2>2, <2>4, <2>5, <1>3 DEF TextIsCut, Begun
  <2> QED BY <1>13, <2>3, <2>6 DEF TextInv, TextComes, TextIsAll, TextEnds, TextIsTold
<1> QED BY <1>12, <1>13 DEF Text!WritePiece, Text!Ends, CutAt, p

\* The suffix is written behind what was kept of the text.
LEMMA AppendSuffixStep ==
  ASSUME TextInv, Text!AppendSuffix
  PROVE  TextInv'
<1>1. /\ result = "cut" /\ result' = "truncated"
      /\ written' = (IF suffix = <<>> THEN written ELSE Len(suffix))
      /\ buffer' = Text!Put(buffer, written, suffix, Text!Room) /\ UNCHANGED <<text, suffix, pieces, pos>>
  BY DEF Text!AppendSuffix, Text!Ends, Text!Kept
<1>2. /\ Text!Fits /\ written = CutAt /\ CutAt < Len(text) /\ CutAt <= Len(buffer)
      /\ \A i \in 1 .. CutAt : buffer[i] = text[i]
  BY <1>1 DEF TextInv, TextIsCut, Begun
<1>3. /\ Len(buffer) \in Nat /\ Len(text) \in Nat /\ Len(suffix) \in Nat /\ CutAt \in Int
      /\ CutAt = Len(buffer) - 1 - Len(suffix) /\ CutAt > 0 /\ Text!Room = Len(buffer) - 1
  BY <1>2, TextSizes DEF TextInv, Text!Room
<1>4. buffer \in Seq(Bytes \cup {Old}) /\ suffix \in Seq(Bytes \cup {Old}) /\ written \in Nat
  <2>1. buffer \in Seq(Bytes \cup {Old}) /\ suffix \in Seq(Bytes \ {Null}) /\ written \in Nat
    BY DEF TextInv, TextTyped
  <2>2. \A i \in 1 .. Len(suffix) : suffix[i] \in Bytes \cup {Old}
    BY <2>1
  <2> QED BY <2>1, <2>2
<1>5. /\ buffer' \in Seq(Bytes \cup {Old}) /\ Len(buffer') = Len(buffer)
      /\ \A i \in 1 .. Len(buffer) :
           buffer'[i] = IF i > written /\ i <= written + Len(suffix) /\ i <= Text!Room THEN suffix[i - written] ELSE buffer[i]
  <2>1. Text!Room \in Int
    BY <1>3
  <2> QED BY <1>1, <1>4, <2>1, PutIs
<1>6. (Text!Fits)' = Text!Fits /\ CutAt' = CutAt
  BY <1>1, <1>5 DEF Text!Fits, Text!Room, CutAt, Text!TextRoom
<1>7. TextTyped'
  BY <1>1, <1>3, <1>4, <1>5 DEF TextInv, TextTyped
<1>8. \A i \in 1 .. CutAt : buffer'[i] = text[i]
  BY <1>2, <1>3, <1>5
<1>9. ASSUME NEW i \in 1 .. Len(suffix)
      PROVE  buffer'[CutAt + i] = suffix[i]
  <2>1. CutAt + i \in 1 .. Len(buffer) /\ CutAt + i > written /\ CutAt + i <= written + Len(suffix)
        /\ CutAt + i <= Text!Room /\ CutAt + i - written = i
    BY <1>2, <1>3
  <2>2. PICK k \in 1 .. Len(buffer) : k = CutAt + i
    BY <2>1
  <2>3. k > written /\ k <= written + Len(suffix) /\ k <= Text!Room /\ k - written = i
    <3>1. k > written /\ k <= written + Len(suffix) /\ k <= Text!Room
      BY <2>1, <2>2, Zenon
    <3>2. k - written = i
      <4>1. k = CutAt + i /\ written = CutAt /\ CutAt \in Int
        BY <1>2, <1>3, <2>2
      <4> QED BY <4>1
    <3> QED BY <3>1, <3>2
  <2>5. buffer'[k] = suffix[k - written]
    BY <1>5, <2>3
  <2>4. buffer'[k] = suffix[i]
    BY <2>3, <2>5
  <2> QED BY <2>2, <2>4
<1>10. TextEnds'
  BY <1>1, <1>2, <1>3, <1>5, <1>6, <1>8, <1>9 DEF TextEnds, Begun
<1> QED BY <1>1, <1>7, <1>10 DEF TextInv, TextComes, TextIsCut, TextIsAll, TextIsTold

\* What is shown to be written ends where it was told to end.
LEMMA TerminateStep ==
  ASSUME TextInv, Text!Terminate, Text!TextAssumption
  PROVE  TextInv'
<1>1. /\ result \in {"all", "truncated"} /\ UNCHANGED <<text, suffix, pieces, pos, written>>
      /\ buffer' = (IF Len(buffer) < 2 THEN buffer ELSE Text!Terminated(buffer, written))
      /\ result' = (IF result = "all" THEN "told all" ELSE "told truncated")
  BY DEF Text!Terminate, Text!Kept
<1>2. /\ Len(buffer) \in Nat /\ Len(text) \in Nat /\ Len(suffix) \in Nat /\ CutAt \in Int
      /\ CutAt = Len(buffer) - 1 - Len(suffix)
      /\ Text!Fits <=> Len(buffer) >= 2 /\ CutAt > 0
  BY TextSizes DEF TextInv
<1>3. /\ buffer \in Seq(Bytes \cup {Old}) /\ text \in Seq(Bytes) /\ written \in Nat
      /\ suffix \in Seq(Bytes \ {Null})
  BY DEF TextInv, TextTyped
<1>4. \A i \in 1 .. Len(suffix) : suffix[i] \in Bytes \ {Null}
  BY <1>3
<1>5. \A i \in 1 .. Len(text) : text[i] \in Bytes
  BY <1>3
<1>6. \A i \in 1 .. Len(buffer) : buffer[i] \in Bytes \cup {Old}
  BY <1>3
<1>7. Space \in Bytes \ {Null} /\ Null \in Bytes /\ Old \notin Bytes
  BY DEF Text!TextAssumption
<1>8. /\ Len(buffer') = Len(buffer) /\ buffer' \in Seq(Bytes \cup {Old})
      /\ Len(buffer) >= 2 => \A i \in 1 .. Len(buffer) :
           buffer'[i] = IF i <= written /\ buffer[i] = Null THEN Space ELSE IF i = written + 1 THEN Null ELSE buffer[i]
  <2>1. CASE Len(buffer) < 2
    <3>1. buffer' = buffer
      BY <1>1, <2>1, Zenon
    <3>2. ~(Len(buffer) >= 2)
      BY <1>2, <2>1
    <3> QED BY <1>3, <3>1, <3>2
  <2>2. CASE Len(buffer) >= 2
    <3>1. DOMAIN buffer = 1 .. Len(buffer)
      BY <1>3
    <3>2. PICK n \in Nat : n = Len(buffer)
      BY <1>2
    <3>8. ~(Len(buffer) < 2)
      BY <1>2, <2>2
    <3>6. buffer' = Text!Terminated(buffer, written)
      BY <1>1, <3>8, Zenon
    <3>7. DOMAIN buffer = 1 .. n
      BY <3>1, <3>2
    <3>3. buffer' = [i \in 1 .. n |-> IF i <= written /\ buffer[i] = Null THEN Space
                                      ELSE IF i = written + 1 THEN Null ELSE buffer[i]]
      BY <3>6, <3>7 DEF Text!Terminated
    <3>4. buffer' \in [1 .. n -> Bytes \cup {Old}]
      BY <1>6, <1>7, <3>2, <3>3
    <3>5. Len(buffer') = n /\ buffer' \in Seq(Bytes \cup {Old})
      BY <3>4
    <3> QED BY <3>2, <3>3, <3>5
  <2> QED BY <1>2, <2>1, <2>2
<1>9. TextTyped'
  BY <1>1, <1>8 DEF TextInv, TextTyped
<1>10. CutAt' = CutAt /\ (Text!Readable)' = Text!Readable
  BY <1>1, <1>8 DEF CutAt, Text!TextRoom, Text!Room, Text!Readable
<1>11. ASSUME NEW i \in 1 .. Len(text)
       PROVE  Text!Readable[i] = IF text[i] = Null THEN Space ELSE text[i]
  <2>1. DOMAIN text = 1 .. Len(text)
    BY <1>3
  <2> QED BY <2>1 DEF Text!Readable
<1>12. ASSUME Len(buffer) >= 2
       PROVE  /\ written + 1 <= Len(buffer)
              /\ \A i \in 1 .. written :
                   /\ buffer[i] # Old
                   /\ i <= CutAt => i <= Len(text) /\ buffer[i] = text[i]
              /\ result = "all" => written = Len(text) /\ Len(text) <= CutAt
              /\ result = "truncated" => CutAt < Len(text) \/ CutAt <= 0
  <2>1. CASE result = "all"
    <3>1. written = Len(text) /\ Len(text) <= CutAt /\ \A i \in 1 .. Len(text) : buffer[i] = text[i]
      BY <2>1 DEF TextInv, TextIsAll, Begun
    <3> QED BY <1>2, <1>5, <1>7, <2>1, <3>1
  <2>2. CASE result = "truncated" /\ ~Text!Fits
    <3>1. written = 0
      BY <2>2 DEF TextInv, TextEnds
    <3> QED BY <1>2, <1>12, <2>2, <3>1
  <2>3. CASE result = "truncated" /\ Text!Fits
    <3>1. /\ CutAt < Len(text) /\ \A i \in 1 .. CutAt : buffer[i] = text[i]
          /\ written = IF suffix = <<>> THEN CutAt ELSE Len(suffix)
          /\ \A i \in 1 .. Len(suffix) : buffer[CutAt + i] = suffix[i]
      BY <2>3 DEF TextInv, TextEnds, Begun
    <3>2. Len(suffix) = 0 <=> suffix = <<>>
      BY <1>3
    <3>3. Len(suffix) < Len(buffer) - 1
      BY <1>2, <2>3
    <3>4. written + 1 <= Len(buffer)
      BY <1>2, <3>1, <3>2, <3>3
    <3>5. ASSUME NEW i \in 1 .. written
          PROVE  /\ buffer[i] # Old
                 /\ i <= CutAt => i <= Len(text) /\ buffer[i] = text[i]
      <4>1. CASE i <= CutAt
        <5>1. i \in 1 .. CutAt /\ i \in 1 .. Len(text)
          BY <1>2, <1>3, <3>1, <4>1
        <5> QED BY <1>5, <1>7, <3>1, <5>1
      <4>2. CASE i > CutAt
        <5>1. PICK k \in 1 .. Len(suffix) : k = i - CutAt /\ CutAt + k = i
          <6>1. written = Len(suffix) /\ CutAt > 0
            BY <1>2, <1>3, <2>3, <3>1, <3>2, <4>2
          <6>2. i - CutAt \in 1 .. Len(suffix) /\ CutAt + (i - CutAt) = i
            BY <1>2, <1>3, <4>2, <6>1
          <6> QED BY <6>2
        <5>2. buffer[i] = suffix[k] /\ suffix[k] \in Bytes \ {Null}
          BY <1>4, <3>1, <5>1
        <5>3. ~(i <= CutAt)
          BY <1>2, <1>3, <4>2
        <5> QED BY <1>7, <5>2, <5>3
      <4> QED BY <1>2, <1>3, <4>1, <4>2
    <3> QED BY <2>3, <3>1, <3>4, <3>5
  <2> QED BY <1>1, <2>1, <2>2, <2>3
<1>13. ASSUME Len(buffer) >= 2, NEW i \in 1 .. written
       PROVE  /\ buffer'[i] # Null /\ buffer'[i] # Old
              /\ i <= CutAt => i <= Len(text) /\ buffer'[i] = Text!Readable[i]
  <2>1. i \in 1 .. Len(buffer) /\ i # written + 1 /\ i <= written
    BY <1>2, <1>3, <1>12, <1>13
  <2>2. buffer'[i] = IF buffer[i] = Null THEN Space ELSE buffer[i]
    BY <1>8, <1>13, <2>1
  <2>3. /\ buffer[i] # Old
        /\ i <= CutAt => i <= Len(text) /\ buffer[i] = text[i]
    BY <1>12, <1>13
  <2>4. i <= Len(text) => i \in 1 .. Len(text)
    BY <1>2, <1>3
  <2> QED BY <1>7, <1>11, <2>2, <2>3, <2>4
<1>14. Len(buffer) >= 2 => buffer'[written + 1] = Null
  <2>1. ASSUME Len(buffer) >= 2
        PROVE  buffer'[written + 1] = Null
    <3>1. PICK k \in 1 .. Len(buffer) : k = written + 1 /\ ~(k <= written)
      BY <1>2, <1>3, <1>12, <2>1
    <3> QED BY <1>8, <2>1, <3>1
  <2> QED BY <2>1
<1>15. TextIsTold'
  BY <1>1, <1>2, <1>8, <1>10, <1>12, <1>13, <1>14 DEF TextIsTold
<1> QED BY <1>1, <1>9, <1>15 DEF TextInv, TextComes, TextIsCut, TextIsAll, TextEnds

\* What is told stays as it is.
LEMMA TextStutter ==
  ASSUME TextInv, UNCHANGED textVars
  PROVE  TextInv'
<1>1. UNCHANGED <<buffer, text, suffix, pieces, pos, result, written>>
  BY DEF textVars
<1>2. /\ (Text!Fits)' = Text!Fits /\ CutAt' = CutAt /\ TextRest' = TextRest
      /\ (Text!Readable)' = Text!Readable
  BY <1>1 DEF Text!Fits, Text!Room, CutAt, Text!TextRoom, TextRest, Flat, Text!FlattenSeq, Text!Readable
<1>3. TextTyped' /\ TextIsTold'
  BY <1>1, <1>2 DEF TextInv, TextTyped, TextIsTold
<1>4. TextComes' /\ TextIsCut'
  BY <1>1, <1>2 DEF TextInv, TextComes, TextIsCut, Begun
<1>5. TextIsAll' /\ TextEnds'
  BY <1>1, <1>2 DEF TextInv, TextIsAll, TextEnds, Begun
<1> QED BY <1>3, <1>4, <1>5 DEF TextInv

\* Every step of the text keeps it so.
LEMMA TextStep ==
  ASSUME TextInv, [ContextNext]_contextVars, Text!TextAssumption
  PROVE  TextInv'
<1>1. Text!Next \/ UNCHANGED textVars
  BY DEF ContextNext, contextVars
<1>2. Text!Next => Text!TooSmall \/ Text!WritePiece \/ Text!AllWritten \/ Text!AppendSuffix \/ Text!Terminate \/ UNCHANGED textVars
  BY DEF Text!Next, Text!vars, textVars
<1> QED BY <1>1, <1>2, TooSmallStep, WritePieceStep, AllWrittenStep, AppendSuffixStep, TerminateStep, TextStutter

\* A client of C reads what is before the first null.
LEMMA ShownIsWhatWasTold ==
  ASSUME TextTyped, TextIsTold, Text!Done, Len(buffer) >= 2
  PROVE  /\ Len(Text!Shown) = written /\ \A i \in 1 .. written : Text!Shown[i] = buffer[i]
         /\ Text!Shown \in Seq(Bytes \cup {Old}) /\ Null \in Text!Range(buffer)
<1>1. /\ written \in Nat /\ Len(buffer) \in Nat /\ written + 1 <= Len(buffer) /\ buffer[written + 1] = Null
      /\ \A i \in 1 .. written : buffer[i] # Null
  BY TextSizes DEF TextTyped, TextIsTold, Text!Done
<1> DEFINE I == {i \in 1 .. Len(buffer) : buffer[i] = Null}
<1>2. written + 1 \in I /\ \A i \in I : written + 1 <= i
  <2>1. written + 1 \in I
    BY <1>1
  <2>2. ASSUME NEW i \in 1 .. Len(buffer), buffer[i] = Null
        PROVE  written + 1 <= i
    <3>1. i \notin 1 .. written
      BY <1>1, <2>2
    <3> QED BY <1>1, <3>1
  <2> QED BY <2>1, <2>2
<1>3. Text!SelectInSeq(buffer, LAMBDA b : b = Null) = written + 1
  <2>1. Text!SelectInSeq(buffer, LAMBDA b : b = Null) = IF I # {} THEN Text!Min(I) ELSE 0
    BY DEF Text!SelectInSeq
  <2>2. Text!Min(I) = written + 1
    <3>1. I \subseteq Nat
      BY <1>1
    <3> HIDE DEF I
    <3>2. \E x \in I : \A y \in I : x <= y
      BY <1>2
    <3>3. PICK m : m = Text!Min(I)
      OBVIOUS
    <3>4. m \in I /\ \A y \in I : m <= y
      BY <3>2, <3>3 DEF Text!Min
    <3>5. m <= written + 1 /\ written + 1 <= m /\ m \in Nat
      BY <1>2, <3>1, <3>4
    <3> QED BY <1>1, <3>3, <3>5
  <2> QED BY <1>2, <2>1, <2>2
<1>4. Text!Shown = SubSeq(buffer, 1, written)
  <2>1. (written + 1) - 1 = written
    BY <1>1
  <2> QED BY <1>3, <2>1 DEF Text!Shown
<1>5. buffer \in Seq(Bytes \cup {Old})
  BY DEF TextTyped
<1>6. /\ Len(Text!Shown) = written /\ \A i \in 1 .. written : Text!Shown[i] = buffer[i]
      /\ Text!Shown \in Seq(Bytes \cup {Old})
  BY <1>1, <1>4, <1>5
<1>7. Null \in Text!Range(buffer)
  <2>1. written + 1 \in DOMAIN buffer
    BY <1>1, <1>5
  <2> QED BY <1>1, <2>1 DEF Text!Range
<1> QED BY <1>6, <1>7

\* The text of an error is shown as it is told.
LEMMA ToldTextIsShown ==
  ASSUME TextInv
  PROVE  ErrorIsShown
<1>1. TextTyped /\ TextIsTold
  BY DEF TextInv
<1>2. SUFFICES ASSUME Text!Done, Len(buffer) >= 2
               PROVE  ErrorIsShown
  <2>1. ~(Text!Done /\ Len(buffer) >= 2) => ErrorIsShown
    BY DEF ErrorIsShown, Text!ToldIsShown, Text!ShownIsTheError, Text!CutOnlyWhenNeeded
  <2> QED BY <2>1
<1>3. /\ Len(Text!Shown) = written /\ \A i \in 1 .. written : Text!Shown[i] = buffer[i]
      /\ Text!Shown \in Seq(Bytes \cup {Old}) /\ Null \in Text!Range(buffer)
  BY <1>1, <1>2, ShownIsWhatWasTold
<1>4. /\ Len(text) \in Nat /\ CutAt \in Int /\ written \in Nat
      /\ \A i \in 1 .. written :
           /\ buffer[i] # Null /\ buffer[i] # Old
           /\ i <= CutAt => i <= Len(text) /\ buffer[i] = Text!Readable[i]
      /\ result = "told all" => written = Len(text) /\ Len(text) <= CutAt
      /\ result = "told truncated" => CutAt < Len(text) \/ CutAt <= 0
  BY <1>1, <1>2, TextSizes DEF TextTyped, TextIsTold, Text!Done
<1>11. Len(text) \in Nat /\ CutAt \in Int /\ written \in Nat
  BY <1>4
<1>5. text \in Seq(Bytes) /\ buffer \in Seq(Bytes \cup {Old})
  BY <1>1 DEF TextTyped
<1>6. Text!Readable = [i \in 1 .. Len(text) |-> IF text[i] = Null THEN Space ELSE text[i]]
  <2>1. DOMAIN text = 1 .. Len(text)
    BY <1>5
  <2> QED BY <2>1 DEF Text!Readable
<1>7. Text!Readable \in Seq(Bytes \cup {Space}) /\ Len(Text!Readable) = Len(text)
  <2>1. PICK n \in Nat : n = Len(text)
    BY <1>4
  <2>2. \A i \in 1 .. n : text[i] \in Bytes
    BY <1>5, <2>1
  <2>3. Text!Readable \in [1 .. n -> Bytes \cup {Space}]
    BY <1>6, <2>1, <2>2
  <2>4. Text!Readable \in Seq(Bytes \cup {Space}) /\ Len(Text!Readable) = n
    BY <2>3
  <2> QED BY <2>1, <2>4
<1>8. Text!ToldIsShown
  <2>1. Old \notin Text!Range(Text!Shown)
    <3>1. DOMAIN Text!Shown = 1 .. written
      BY <1>3
    <3> QED BY <1>3, <1>4, <3>1 DEF Text!Range
  <2> QED BY <1>3, <2>1 DEF Text!ToldIsShown
<1>9. Text!ShownIsTheError
  <2>1. ASSUME result = "told all"
        PROVE  Text!Shown = Text!Readable
    <3>1. written = Len(text) /\ Len(text) <= CutAt
      BY <1>4, <2>1
    <3>2. Len(Text!Shown) = Len(Text!Readable)
      BY <1>3, <1>7, <3>1
    <3>3. ASSUME NEW i \in 1 .. Len(Text!Shown)
          PROVE  Text!Shown[i] = Text!Readable[i]
      <4>0. Len(Text!Shown) = written
        BY <1>3
      <4>1. i \in 1 .. written /\ i <= CutAt
        BY <1>11, <3>1, <4>0
      <4>2. Text!Shown[i] = buffer[i]
        BY <1>3, <4>1
      <4>3. buffer[i] = Text!Readable[i]
        BY <1>4, <4>1
      <4> QED BY <4>2, <4>3
    <3> QED BY <1>3, <1>7, <3>2, <3>3
  <2>2. \A i \in DOMAIN Text!Shown : i <= Len(Text!Readable) => Text!Shown[i] = Text!Readable[i] \/ i > CutAt
    <3>1. DOMAIN Text!Shown = 1 .. written
      BY <1>3
    <3>2. ASSUME NEW i \in 1 .. written
          PROVE  Text!Shown[i] = Text!Readable[i] \/ i > CutAt
      <4>1. i <= CutAt \/ i > CutAt
        BY <1>11
      <4>2. Text!Shown[i] = buffer[i]
        BY <1>3
      <4>3. i <= CutAt => buffer[i] = Text!Readable[i]
        BY <1>4
      <4> QED BY <4>1, <4>2, <4>3
    <3> QED BY <3>1, <3>2
  <2> QED BY <2>1, <2>2 DEF Text!ShownIsTheError, CutAt
<1>10. Text!CutOnlyWhenNeeded
  <2>1. Len(text) <= CutAt /\ CutAt > 0 => ~(result = "told truncated")
    <3>1. result = "told truncated" => CutAt < Len(text) \/ CutAt <= 0
      BY <1>4, Zenon
    <3>2. ~(Len(text) <= CutAt /\ CutAt > 0 /\ (CutAt < Len(text) \/ CutAt <= 0))
      BY <1>11
    <3> QED BY <3>1, <3>2, Zenon
  <2>2. Len(text) <= CutAt /\ CutAt > 0 => result = "told all"
    BY <1>2, <2>1 DEF Text!Done
  <2> QED BY <2>2 DEF Text!CutOnlyWhenNeeded, CutAt
<1> QED BY <1>8, <1>9, <1>10 DEF ErrorIsShown

\* A client of C reads the beginning of the error and nothing else, as much as is
\* told, and all of it if that is told or if it fits, whatever the error, the suffix
\* and the buffer (errors.rs:871-952).
THEOREM ErrorsAreShown == ContextSpec => []ErrorIsShown
<1>1. Text!TextAssumption
  BY PartsAssumption
<1>2. ContextInit => TextInv
  BY <1>1, TextInitHolds DEF ContextInit
<1>3. TextInv /\ [ContextNext]_contextVars => TextInv'
  BY <1>1, TextStep
<1>4. TextInv => ErrorIsShown
  BY ToldTextIsShown
<1> QED BY <1>2, <1>3, <1>4, PTL DEF ContextSpec

-----------------------------------------------------------------------------
(* The types of all of them.                                                *)

\* The screen keeps its size.
LEMMA GifTypeHolds ==
  ASSUME GifInv, Gif!MoviesAssumption
  PROVE  Gif!TypeOK
<1>1. DOMAIN Gif!Frames = 1 .. Len(Gif!Frames)
  BY FramesAreSequence DEF GifInv
<1>2. decoder.last \cup decoder.next \subseteq DOMAIN Gif!Frames /\ decoder.at \in 0 .. Len(Gif!Frames)
  BY <1>1 DEF GifInv, IsAt
<1>3. DOMAIN decoder.screen = Gif!Cells
  <2>1. PICK b : /\ AreBefore(b, drawn)
                 /\ decoder.screen = IF drawn = <<>> THEN b[1] ELSE DrawnLast(b[Len(drawn)], drawn)
    BY DEF GifInv, Shows
  <2>2. Len(drawn) \in Nat /\ (drawn # <<>> <=> Len(drawn) # 0)
    <3>1. ASSUME NEW S, NEW s \in Seq(S)
          PROVE  Len(s) \in Nat /\ (s # <<>> <=> Len(s) # 0)
      OBVIOUS
    <3> QED BY <3>1 DEF GifInv, IsAfter
  <2>3. CASE drawn = <<>>
    BY <2>1, <2>3 DEF AreBefore, EmptyScreen
  <2>4. CASE drawn # <<>>
    <3>1. Len(drawn) \in 1 .. Len(drawn) + 1
      BY <2>2, <2>4
    <3>2. PICK s : s = b[Len(drawn)]
      OBVIOUS
    <3>3. s = [c \in Gif!Cells |-> s[c]]
      BY <2>1, <3>1, <3>2 DEF AreBefore
    <3>4. decoder.screen = Gif!Drawn(s, Gif!Frames[drawn[Len(drawn)]])
      BY <2>1, <2>4, <3>2 DEF DrawnLast
    <3>5. decoder.screen = [c \in Gif!Cells |-> decoder.screen[c]]
      BY <3>3, <3>4, LeftIsScreen
    <3> QED BY <3>5
  <2> QED BY <2>3, <2>4
<1> QED BY <1>2, <1>3 DEF GifInv, GifReply, Gif!TypeOK

\* Whatever is called, the states of a context, of its set of codecs, of its colour
\* transforms and of its GIF codec are of their types.
THEOREM ContextTypesStay == ContextSpec => []ContextTypeOK
<1>1. ContextInit => Init /\ part \in Parts
  BY DEF ContextInit
<1>2. [ContextNext]_contextVars => [Next]_vars
  BY DEF ContextNext, contextVars
<1>3. part \in Parts /\ [ContextNext]_contextVars => (part \in Parts)'
  BY DEF ContextNext, contextVars
<1>4. SetInv => Set!TypeOK
  BY DEF SetInv, Set!TypeOK
<1>5. TransformRest => Transforms!TypeOK
  <2> SUFFICES ASSUME TransformRest
               PROVE  Transforms!TypeOK
    OBVIOUS
  <2>1. pc \in [Threads -> {"idle", "measure", "look", "insert", "get", "apply", "panicked", "lost"}]
    BY DEF TransformRest, TransformTypes
  <2> QED BY <2>1 DEF TransformRest, TransformTypes, Transforms!TypeOK, Transforms!Keys
<1>6. GifInv => Gif!TypeOK
  BY GifTypeHolds, PartsAssumption
<1>7. ContextSpec => []TypeOK
  <2>1. ContextSpec => Spec
    BY <1>1, <1>2, PTL DEF ContextSpec, Spec
  <2> QED BY <2>1, ContextTypeCorrect, PTL
<1>8. ContextSpec => [](part \in Parts)
  BY <1>1, <1>3, PTL DEF ContextSpec
<1>9. part \in Parts /\ TypeOK /\ Set!TypeOK /\ Transforms!TypeOK /\ Gif!TypeOK => ContextTypeOK
  BY DEF ContextTypeOK
<1> QED BY <1>4, <1>5, <1>6, <1>7, <1>8, <1>9, SetHolds, TransformsHold, GifHolds, PTL
=============================================================================
