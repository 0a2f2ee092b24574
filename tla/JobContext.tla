------------------------------ MODULE JobContext ------------------------------
(***************************************************************************)
(* A context and its clients: what the library's C functions               *)
(* (imageflow_abi/src/lib.rs) do to the io and codecs of a context         *)
(* (imageflow_core/src/context.rs, io.rs, codecs/mod.rs, parsing.rs) and   *)
(* to the error it shows (OutwardErrorBuffer of errors.rs).  A client of   *)
(* the C functions is stopped when it goes on after an error; one that     *)
(* calls the Rust methods is not.                                          *)
(***************************************************************************)
EXTENDS ErrorStatus

CONSTANTS Guarded,   \* whether the client goes through the C functions
          IoIds,     \* io_id, for inputs and outputs
          Inputs,    \* kinds of bytes given as an input: see AddInput
          Jobs,      \* what is to be executed: see Execute
          IoLists,   \* the "io" of a build message: see AddAll
          MaxCodecs  \* bound on the codecs of a context

ASSUME ContextAssumption ==
  /\ Guarded \in BOOLEAN /\ MaxCodecs \in Nat
  /\ Jobs \subseteq [from : IoIds, to : IoIds, encoder : STRING, graph : {"valid", "invalid", "panics"}]
  /\ IoLists \subseteq Seq([id : IoIds, io : STRING])

VARIABLES
  phase,     \* "ready", "terminating", "destroyed", or "aborted": the process has ended
  codecs,    \* Context.codecs
  cError,    \* the category of the error the C context remembers, or "Ok"
  outward,   \* Context.outward_error
  response,  \* history: the last call, its HTTP status if it has a response, and whether it failed
  cleared    \* history: whether a panic was cleared

vars == <<phase, codecs, cError, outward, response, cleared>>

NoAnswer == 0
Kinds == {"placeholder", "decoder", "encoder"}
Clean == [category |-> "Ok", error |-> FALSE, panic |-> FALSE]

Init ==
  /\ phase = "ready" /\ codecs = <<>> /\ cError = "Ok" /\ outward = Clean
  /\ response = [call |-> "create", status |-> NoAnswer, failed |-> FALSE] /\ cleared = FALSE

-----------------------------------------------------------------------------
(* What a call does is a chain of steps on [codecs, cError, why]; the first *)
(* that fails ends it.  why is "Ok", the category of a FlowError, "panic"   *)
(* or "crash".                                                              *)
Start == [codecs |-> codecs, cError |-> cError, why |-> "Ok"]
Then(done, Step(_)) == IF done.why = "Ok" THEN Step(done) ELSE done

Fails(s, why) == [s EXCEPT !.why = why]
FailsWith(s, kind) == Fails(s, KindCategory[kind])
(* cerror!: C raises an error, unless one stands, and the first is told.    *)
FailsInC(s, category) ==
  LET told == IF s.cError = "Ok" THEN category ELSE s.cError
  IN  [s EXCEPT !.cError = told, !.why = told]

(* Context.io_id_list, which nothing is ever put into.                      *)
IoIdList == {}
CheckIoId(s, id) == IF id \in IoIdList THEN FailsWith(s, "DuplicateIoId") ELSE s

NoCodec == 0
(* Context::get_codec: the first with the id.                               *)
GetLastCodec(s, id) ==   \* variant: the search goes from the end
  LET with == {i \in DOMAIN s.codecs : s.codecs[i].id = id}
  IN  IF with = {} THEN NoCodec ELSE CHOOSE i \in with : \A j \in with : j <= i
GetCodec(s, id) ==
  LET with == {i \in DOMAIN s.codecs : s.codecs[i].id = id}
  IN  IF with = {} THEN NoCodec ELSE CHOOSE i \in with : \A j \in with : i <= j

(* The io is made; IoProxy::wrap_classic tells of one that is not.          *)
Wrapped(s, input) ==
  IF input = "no_memory" THEN FailsWith(FailsInC(s, "OutOfMemory"), "AllocationFailed") ELSE s

(* CodecInstanceContainer::create: the first bytes tell what decoder it is. *)
Recognised(s, input) ==
  CASE input = "unknown" -> FailsInC(s, "InternalError")
    [] input = "short"   -> FailsInC(s, "IoError")
    [] OTHER -> s

(* Context::add_io: the codec is in the set before its decoder is           *)
(* initialized.  usable: a decoder is initialized, a placeholder has its io.*)
AddCodec(s, id, kind, usable) == [s EXCEPT !.codecs = Append(@, [id |-> id, kind |-> kind, usable |-> usable])]
Initialized(s, input) == IF input = "malformed" THEN FailsInC(s, "ImageMalformed") ELSE s
AddIo(s, id, input) ==
  LET add(c) == Initialized(AddCodec(c, id, "decoder", input # "malformed"), input)
  IN  Then(Recognised(s, input), add)

AddInput(s, id, input) ==
  LET wrap(c) == Wrapped(c, input)
      add(c)  == AddIo(c, id, input)
  IN  Then(Then(CheckIoId(s, id), wrap), add)

AddOutput(s, id) ==
  LET add(c) == AddCodec(c, id, "placeholder", TRUE)
  IN  Then(CheckIoId(s, id), add)

(* IoTranslator::add_all: objects [id, io], added up to the first that      *)
(* fails; base64, hex and urls are unwrapped.                               *)
AddObject(s, o) ==
  CASE o.io = "output"      -> AddOutput(s, o.id)
    [] o.io = "placeholder" -> FailsWith(s, "GraphInvalid")
    [] o.io = "not_base64"  -> Fails(s, "panic")
    [] OTHER                -> AddInput(s, o.id, o.io)
AddAll(s, objects) ==
  LET upto[i \in 0 .. Len(objects)] ==
        IF i = 0 THEN s ELSE LET add(c) == AddObject(c, objects[i]) IN Then(upto[i - 1], add)
  IN  upto[Len(objects)]

(* A decoder is asked for something: its image, its information.            *)
UseDecoder(s, id) ==
  LET i == GetCodec(s, id)
  IN  CASE i = NoCodec -> FailsWith(s, "IoIdNotFound")
        [] i # NoCodec /\ s.codecs[i].kind # "decoder" -> FailsWith(s, "InvalidArgument")
        [] i # NoCodec /\ s.codecs[i].kind = "decoder" -> IF s.codecs[i].usable THEN s ELSE Fails(s, "crash")

(* CodecInstanceContainer::write_frame: a placeholder gives its io up for   *)
(* the encoder it becomes, before that encoder exists.                      *)
WriteFrame(s, id, encoder) ==
  LET i == GetCodec(s, id)
      become(c) == IF encoder = "not_created" THEN FailsWith([c EXCEPT !.codecs[i].usable = FALSE], "GifEncodingError")
                   ELSE [c EXCEPT !.codecs[i].kind = "encoder"]
      write(c)  == IF encoder = "fails" THEN FailsInC(c, "IoError") ELSE c
  IN  CASE i = NoCodec -> FailsWith(s, "IoIdNotFound")
        [] i # NoCodec /\ s.codecs[i].kind = "placeholder" ->
             IF s.codecs[i].usable THEN Then(become(s), write) ELSE Fails(s, "panic")
        [] i # NoCodec /\ s.codecs[i].kind = "encoder" -> write(s)
        [] i # NoCodec /\ s.codecs[i].kind = "decoder" -> FailsWith(s, "MethodNotImplemented")

(* Context::execute_1, of a job that reads one io and writes another; the   *)
(* engine may fail for reasons of its own.                                  *)
Execute(s, job) ==
  LET read(c)  == UseDecoder(c, job.from)
      write(c) == WriteFrame(c, job.to, job.encoder)
  IN  CASE job.graph = "invalid" -> FailsWith(s, "GraphInvalid")
        [] job.graph = "panics"  -> Fails(s, "panic")
        [] job.graph = "valid"   -> Then(Then(s, read), write)

(* Context::get_output_buffer_slice.  Without writes there is no buffer.    *)
OutputBuffer(s, id) ==
  LET i == GetCodec(s, id)
  IN  CASE i = NoCodec -> FailsWith(s, "IoIdNotFound")
        [] i # NoCodec /\ s.codecs[i].kind = "encoder" -> s
        [] i # NoCodec /\ s.codecs[i].kind = "placeholder" /\ s.codecs[i].usable -> FailsWith(s, "MethodNotImplemented")
        [] OTHER -> Fails(s, "panic")   \* "Not an output buffer"

-----------------------------------------------------------------------------
(* OutwardErrorBuffer                                                       *)
HasError(buffer) == buffer.category # "Ok"
TrySetError(buffer, category) ==
  IF buffer.error THEN buffer ELSE [buffer EXCEPT !.category = category, !.error = TRUE]
TrySetPanicApart(buffer) ==   \* variant: a panic is not one of the categories
  IF buffer.panic THEN buffer ELSE [buffer EXCEPT !.category = "Panic", !.panic = TRUE]
TrySetPanicError(buffer) ==
  IF buffer.panic THEN buffer ELSE [buffer EXCEPT !.category = "InternalError", !.panic = TRUE]
RecoverableAlways(buffer) == TRUE   \* variant: every error can be recovered from
Recoverable(buffer) == ~buffer.error   \* FlowError::recoverable is false

HandledErrors(buffer, why) ==   \* variant: a panic is caught and forgotten
  IF why \in {"Ok", "crash", "panic"} THEN buffer ELSE TrySetError(buffer, why)
(* handle_result!                                                           *)
Handled(buffer, why) ==
  CASE why \in {"Ok", "crash"} -> buffer
    [] why = "panic" -> TrySetPanicError(buffer)
    [] OTHER -> TrySetError(buffer, why)

(* context_ready!                                                           *)
MayCall == phase = "ready" /\ (Guarded => ~HasError(outward))

(* The end of a call.  The methods of Context, without the C functions      *)
(* around them, return their error or unwind.                               *)
Finish(call, s, status) ==
  /\ Len(s.codecs) <= MaxCodecs
  /\ codecs' = s.codecs /\ cError' = s.cError
  /\ phase' = IF s.why = "crash" THEN "aborted" ELSE phase
  /\ outward' = IF Guarded THEN Handled(outward, s.why) ELSE outward
  /\ response' = [call |-> call, status |-> status, failed |-> s.why # "Ok"]
  /\ UNCHANGED cleared

ArgumentFails == [Start EXCEPT !.why = KindCategory["NullArgument"]]   \* or InvalidArgument

AddInputBuffer ==
  /\ MayCall
  /\ \/ Guarded /\ Finish("add_input", ArgumentFails, NoAnswer)
     \/ \E id \in IoIds, input \in Inputs : Finish("add_input", AddInput(Start, id, input), NoAnswer)

AddOutputBuffer ==
  MayCall /\ \E id \in IoIds : Finish("add_output", AddOutput(Start, id), NoAnswer)

GetOutputBuffer ==
  MayCall /\ \E id \in IoIds : Finish("get_output", OutputBuffer(Start, id), NoAnswer)

(* imageflow_context_send_json.  Endpoints answer a result; the answer is   *)
(* then put into memory of the context, which may fail, and that error is   *)
(* then the one that is kept.                                               *)
StatusFor(why) == IF why = "Ok" THEN 200 ELSE HttpStatus(why)
Answered(call, s, status) ==
  IF s.why \in {"panic", "crash"} THEN Finish(call, s, NoAnswer)
  ELSE \/ Finish(call, s, status)
       \/ Guarded /\ Finish(call, FailsWith(FailsInC(s, "OutOfMemory"), "AllocationFailed"), NoAnswer)

SendJson ==
  /\ MayCall
  /\ \/ Guarded /\ Finish("send_json", ArgumentFails, NoAnswer)
     \/ Answered("unknown_method", FailsWith(Start, "InvalidMessageEndpoint"), 404)
     \/ Answered("brew_coffee", Start, 418)
     \/ Answered("send_json", FailsWith(Start, "InvalidJson"), HttpStatus("InvalidJson"))
     \/ \E id \in IoIds :   \* get_image_info and tell_decoder
          LET s == UseDecoder(Start, id) IN Answered("send_json", s, IF s.why = "crash" THEN NoAnswer ELSE StatusFor(s.why))
     \/ \E job \in Jobs, objects \in IoLists \cup {<<>>} :   \* execute and build
          LET run(c) == Execute(c, job)
              s == IF job.graph = "invalid" THEN Execute(Start, job) ELSE Then(AddAll(Start, objects), run)
          IN  Answered("send_json", s, IF s.why \in {"panic", "crash"} THEN NoAnswer ELSE StatusFor(s.why))

(* imageflow_context_memory_allocate, when the heap has nothing left, and   *)
(* imageflow_context_memory_free of something it never gave: C remembers an *)
(* error, the outward error does not.                                       *)
FailingMemory ==
  /\ MayCall
  /\ \E category \in {"OutOfMemory", "InternalError"} :
       Finish("memory", [FailsInC(Start, category) EXCEPT !.why = "Ok"], NoAnswer)

(* Calls that are allowed in an error state, with an argument they refuse:  *)
(* imageflow_json_response_read of no response.                             *)
ReadNoResponse ==
  Guarded /\ phase = "ready" /\ Finish("read_response", ArgumentFails, NoAnswer)

TryClear ==
  /\ Guarded /\ phase = "ready" /\ Recoverable(outward)
  /\ outward' = [outward EXCEPT !.error = FALSE, !.category = "Ok"]
  /\ response' = [call |-> "try_clear", status |-> NoAnswer, failed |-> FALSE]
  /\ cleared' = (cleared \/ outward.panic)
  /\ UNCHANGED <<phase, codecs, cError>>

(* A client that goes on after an error ends the process.                   *)
Misuse ==
  /\ Guarded /\ phase = "ready" /\ HasError(outward)
  /\ phase' = "aborted"
  /\ UNCHANGED <<codecs, cError, outward, response, cleared>>

(* imageflow_context_begin_terminate, then destroy.                         *)
BeginTerminate ==
  /\ phase = "ready"
  /\ phase' = "terminating" /\ codecs' = <<>>
  /\ UNCHANGED <<cError, outward, response, cleared>>
Destroy ==
  /\ phase \in {"ready", "terminating"}
  /\ phase' = "destroyed" /\ codecs' = <<>>
  /\ UNCHANGED <<cError, outward, response, cleared>>

Next ==
  \/ AddInputBuffer \/ AddOutputBuffer \/ GetOutputBuffer \/ SendJson \/ FailingMemory
  \/ ReadNoResponse \/ TryClear \/ Misuse \/ BeginTerminate \/ Destroy

Spec == Init /\ [][Next]_vars

-----------------------------------------------------------------------------
TypeOK ==
  /\ phase \in {"ready", "terminating", "destroyed", "aborted"}
  /\ codecs \in Seq([id : IoIds, kind : Kinds, usable : BOOLEAN]) /\ Len(codecs) <= MaxCodecs
  /\ cError \in Category /\ outward \in [category : Category, error : BOOLEAN, panic : BOOLEAN]
  /\ response.failed \in BOOLEAN /\ cleared \in BOOLEAN

(* A codec that a failed call left behind half made is never used: the      *)
(* error that call ended with cannot be cleared (context.rs:112,            *)
(* codecs/mod.rs:368, errors.rs:361-363).                                   *)
BrokenIsUnreachable ==
  (\E i \in DOMAIN codecs : ~codecs[i].usable) /\ phase = "ready" => outward.error /\ HasError(outward)

(* No order of calls, with whatever arguments, makes a decoder run before   *)
(* it is initialized; the process ends by misuse only (lib.rs:106-107).     *)
OnlyMisuseAborts == [][phase' = "aborted" => HasError(outward)]_vars

(* An error, once shown, is shown until the context goes, as the same       *)
(* error.                                                                   *)
ErrorsStick == [][outward.error => outward' = outward \/ (outward'.error /\ outward'.category = outward.category)]_vars

(* "Call imageflow_context_has_error() to see if this succeeded": unless a  *)
(* panic was cleared, every failed call is seen (lib.rs:520).               *)
FailureIsSeen == Guarded /\ response.failed /\ ~cleared => HasError(outward)

(* What an io_id stands for never changes: it is the first codec given      *)
(* under it, whatever calls and failures come after (context.rs:176-193).   *)
IdsKeepTheirCodec ==
  [][\A id \in IoIds : LET i == GetCodec(Start, id)
                       IN  i # NoCodec /\ codecs' # <<>> => GetCodec(Start, id)' = i]_vars

(* A codec only ever goes from placeholder to encoder, and an encoder has   *)
(* taken an io: no output is lost by a job that fails before it writes.     *)
CodecsProgress ==
  [][\A i \in DOMAIN codecs :
       codecs' # <<>> =>
         /\ codecs'[i].id = codecs[i].id
         /\ codecs[i].kind # "placeholder" => codecs'[i] = codecs[i]
         /\ codecs'[i].kind = "encoder" => codecs[i].usable]_vars

(* "Returns true if the context is in an error state" and "You should call  *)
(* imageflow_context_has_error() to see if this succeeded"                  *)
(* (lib.rs:313, 520).                                                       *)
EveryFailureIsSeen == Guarded /\ response.failed => HasError(outward)
=============================================================================
