----------------------------- MODULE CErrorBuffer -----------------------------
(***************************************************************************)
(* The error a C context remembers (c_components/lib/context.c), raised    *)
(* from C and from Rust (CErrorProxy of imageflow_core/src/errors.rs), and *)
(* how it is reported: nobody clears it between two failing calls, so the  *)
(* first error must survive whatever comes after it.                       *)
(***************************************************************************)
EXTENDS ErrorStatus

CONSTANTS Statuses,   \* the status codes to raise, 0 among them
          Messages,   \* lengths of the messages to raise with, 0 for none
          Locations,  \* places in the code, each with the length of its line in a stack trace
          Rooms       \* sizes of buffers to write a report to

ErrorBufferAssumption ==
  /\ Statuses \subseteq Nat /\ Messages \subseteq Nat
  /\ \A l \in Locations : l.size \in Nat \ {0}
  /\ Rooms \subseteq Nat

Capacity == 8        \* callstack_capacity
ReportSize == 2048   \* of CErrorProxy::get_error_and_stacktrace

VARIABLES
  reason,   \* error.reason
  message,  \* error.message, by its length
  included, \* error.status_included_in_message
  locked,   \* error.locked
  stack,    \* error.callstack
  first,    \* history: the first error raised since the last was cleared, or <<>>
  others    \* history: whether another was raised after it

vars == <<reason, message, included, locked, stack, first, others>>

NoError == 0

Cleared == reason = NoError /\ message = 0 /\ included = FALSE /\ locked = FALSE /\ stack = <<>>

(* flow_context_initialize                                                 *)
Init == Cleared /\ first = <<>> /\ others = FALSE

(* flow_context_clear_error                                                *)
ClearError ==
  /\ reason' = NoError /\ message' = 0 /\ included' = FALSE /\ locked' = FALSE /\ stack' = <<>>
  /\ first' = <<>> /\ others' = FALSE

(* flow_context_add_to_callstack.  A frame also means that the message no  *)
(* longer speaks for itself.                                               *)
WithFrame(frames, isLocked, why, l) ==
  IF Len(frames) < Capacity /\ ~isLocked /\ why # NoError THEN Append(frames, l) ELSE frames

AddToCallstack(l) ==
  /\ stack' = WithFrame(stack, locked, reason, l)
  /\ included' = (included /\ stack' = stack)
  /\ UNCHANGED <<reason, message, locked, first, others>>

Known(status) == IF status = NoError THEN OtherError ELSE status

(* Any error raised while another stands locks that one.                   *)
Lock == locked' = TRUE /\ UNCHANGED <<reason, message, included, stack>>

Remembered(e) ==
  \/ first = <<>> /\ first' = e /\ UNCHANGED others
  \/ first # <<>> /\ others' = TRUE /\ UNCHANGED first

(* FLOW_error: flow_context_raise_error, with a message or none.           *)
RaiseErrorOver(status, m, l) ==   \* variant: the last error wins
  /\ reason' = Known(status) /\ message' = m /\ stack' = <<l>> /\ Remembered(<<Known(status), m>>)
  /\ UNCHANGED <<included, locked>>
RaiseError(status, m, l) ==
  /\ \/ reason # NoError /\ Lock
     \/ /\ reason = NoError
        /\ reason' = Known(status)
        /\ message' = IF m = 0 THEN message ELSE m
        /\ stack' = WithFrame(stack, locked, reason', l)
        /\ included' = (included /\ stack' = stack)
        /\ UNCHANGED locked
  /\ Remembered(<<Known(status), m>>)

(* CErrorProxy::raise_error, of an error of some category: the message is  *)
(* the whole error.                                                        *)
RaiseFromRust(category, m) ==
  /\ \/ reason # NoError /\ Lock
     \/ /\ reason = NoError
        /\ reason' = Known(StatusOf(category)) /\ message' = m /\ included' = TRUE
        /\ UNCHANGED <<locked, stack>>
  /\ Remembered(<<Known(StatusOf(category)), m, category>>)

Next ==
  \/ ClearError
  \/ \E l \in Locations : AddToCallstack(l)
  \/ \E s \in Statuses, m \in Messages, l \in Locations : RaiseError(s, m, l)
  \/ \E c \in Category \ {"Ok"}, m \in Messages \ {0} : RaiseFromRust(c, m)

Spec == Init /\ [][Next]_vars

-----------------------------------------------------------------------------
(* The report.  flow_snprintf answers -1 for what does not fit with its    *)
(* terminating null.                                                       *)
Nothing == -1
Printed(room, length) == IF room = 0 \/ length >= room THEN Nothing ELSE length

StatusLength == 12   \* of "CError %d: %s", however it is printed

(* flow_context_error_message                                              *)
MessageLength ==
  IF reason = NoError THEN 8
  ELSE IF included THEN (IF message = 0 THEN 40 ELSE message)
  ELSE IF message = 0 THEN StatusLength ELSE StatusLength + 3 + message

(* flow_context_stacktrace: a line for each frame.                         *)
TraceInto(room) ==
  LET after[i \in 0 .. Len(stack)] ==
        IF i = 0 THEN 0
        ELSE LET so_far == after[i - 1]
             IN  IF so_far # Nothing /\ Printed(room - so_far, stack[i].size) # Nothing
                 THEN so_far + stack[i].size ELSE Nothing
  IN  after[Len(stack)]

(* flow_context_error_and_stacktrace: the message, a line end if there are *)
(* frames, and the trace; all of it or -1.                                 *)
ErrorAndStacktrace(room) ==
  LET told  == Printed(room, MessageLength)
      break == IF stack = <<>> THEN 0 ELSE Printed(room - told, 1)
      trace == TraceInto(room - told - break)
  IN  IF Nothing \in {told, break, trace} THEN Nothing ELSE told + break + trace

(* CErrorProxy::require, and the category of the error cerror! makes.      *)
Required == IF CategoryOf(reason) = "Ok" THEN "InternalError" ELSE CategoryOf(reason)

(* CErrorProxy::get_error_and_stacktrace panics if it does not fit.  Out   *)
(* of memory is told without a message.                                    *)
Reported ==
  IF CategoryOf(reason) \in {"OutOfMemory", "Ok"} THEN "status"
  ELSE IF ErrorAndStacktrace(ReportSize) = Nothing THEN "panic" ELSE "text"

-----------------------------------------------------------------------------
TypeOK ==
  /\ reason \in Nat /\ message \in Nat
  /\ included \in BOOLEAN /\ locked \in BOOLEAN
  /\ stack \in Seq(Locations) /\ Len(stack) <= Capacity

(* The error that stands is the first one raised since the last clear,     *)
(* with its own message, whatever was raised after it (context.c:51-54).   *)
FirstErrorStands ==
  IF first = <<>> THEN Cleared
  ELSE reason = first[1] /\ message = first[2] /\ locked = others

(* The trace is the first error's: once another error came it only goes    *)
(* with the error (context.c:92-93).                                       *)
TraceOfTheFirst == [][locked /\ locked' => stack' = stack]_vars

(* What is written of the report fits the buffer with its null, and is     *)
(* the message, the line end and the frames (context.c:180-213).           *)
ReportFits ==
  \A room \in Rooms :
    LET lines[i \in 0 .. Len(stack)] == IF i = 0 THEN 0 ELSE lines[i - 1] + stack[i].size
        whole == MessageLength + (IF stack = <<>> THEN 0 ELSE 1) + lines[Len(stack)]
    IN  ErrorAndStacktrace(room) = IF whole < room THEN whole ELSE Nothing

(* An error is reported as what was raised, even through C: the category   *)
(* of an error in Rust survives the C status code (errors.rs:542-567).     *)
CategoriesSurvive == Len(first) = 3 => CategoryOf(reason) = first[3]

(* An error with frames as long as the code's can be told: its report fits *)
(* the room that is made for it (errors.rs:1025-1034).                     *)
ErrorsCanBeTold == Reported # "panic"

(* No error ends a process or a request as a success, a process seeing the *)
(* low eight bits of its code (errors.rs:570-622).                         *)
NoErrorIsSuccess ==
  reason # NoError => ExitCode(CategoryOf(reason)) % 256 # 0 /\ HttpStatus(CategoryOf(reason)) >= 400
=============================================================================
