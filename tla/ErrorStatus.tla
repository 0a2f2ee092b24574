------------------------------ MODULE ErrorStatus ------------------------------
(***************************************************************************)
(* What an error is called on its way out: the status codes of the C       *)
(* components (c_components/imageflow.h), the categories of                *)
(* imageflow_core/src/errors.rs, and the numbers a client of the library   *)
(* or of a process sees.                                                   *)
(***************************************************************************)
EXTENDS Integers, Sequences

(* ErrorCategory, in its order: the first is 0.                            *)
Categories ==
  <<"Ok", "OutOfMemory", "ArgumentInvalid", "InvalidJson", "ImageMalformed", "ImageTypeNotSupported",
    "NodeArgumentInvalid", "GraphInvalid", "ActionNotSupported", "ActionForbidden", "AuthorizationRequired",
    "LicenseError", "PrimaryResourceNotFound", "SecondaryResourceNotFound", "UpstreamTimeout", "UpstreamError",
    "IoError", "NoSolutionFound", "InternalError", "Unknown", "Custom">>

Category == {Categories[i] : i \in DOMAIN Categories}
Number(c) == (CHOOSE i \in DOMAIN Categories : Categories[i] = c) - 1

(* ErrorCategory::last: the one with the greatest number that is turned    *)
(* back into a category.                                                   *)
Last == "Unknown"

FirstRustError == 200
OtherError == 1024

(* ErrorCategory::from_c_error_code and CStatus::from: the category a C    *)
(* status stands for.                                                      *)
CategoryOf(status) ==
  CASE status - FirstRustError \in 0 .. Number(Last) -> Categories[status - FirstRustError + 1]
    [] status = 0 -> "Ok"
    [] status = 10 -> "OutOfMemory"
    [] status = 20 -> "IoError"
    [] status \in {30, 40, 50, 51, 52, 53, 54, 61, 90} -> "InternalError"
    [] status = 60 -> "ImageMalformed"
    [] status > OtherError -> "Custom"
    [] OTHER -> "Unknown"

(* ErrorCategory::to_c_error_code                                          *)
StatusOf(c) ==
  CASE c = "Ok" -> 0 [] c = "Custom" -> OtherError + 1 [] c = "Unknown" -> OtherError
    [] c = "OutOfMemory" -> 10 [] c = "IoError" -> 20 [] c = "InternalError" -> 30 [] c = "ImageMalformed" -> 60
    [] OTHER -> FirstRustError + Number(c)

(* ErrorKind::category: the category of an error made in Rust.             *)
KindCategory ==
  [AllocationFailed |-> "OutOfMemory",
   GraphInvalid |-> "GraphInvalid", GraphCyclic |-> "GraphInvalid", InvalidNodeConnections |-> "GraphInvalid",
   NullArgument |-> "ArgumentInvalid", InvalidArgument |-> "ArgumentInvalid",
   InvalidCoordinates |-> "ArgumentInvalid", InvalidMessageEndpoint |-> "ArgumentInvalid",
   IoIdNotFound |-> "ArgumentInvalid", ItemNotFound |-> "ArgumentInvalid", DuplicateIoId |-> "ArgumentInvalid",
   LayoutError |-> "ArgumentInvalid", InvalidNodeParams |-> "ArgumentInvalid",
   FailedBorrow |-> "InternalError", NodeParamsMismatch |-> "InternalError", BitmapPointerNull |-> "InternalError",
   MethodNotImplemented |-> "InternalError", ValidationNotImplemented |-> "InternalError",
   InvalidOperation |-> "InternalError", InternalError |-> "InternalError", InvalidState |-> "InternalError",
   GifDecodingError |-> "ImageMalformed", ColorProfileError |-> "ImageMalformed",
   DecodingIoError |-> "IoError", EncodingIoError |-> "IoError", GifEncodingError |-> "InternalError",
   InvalidJson |-> "InvalidJson"]

(* ErrorCategory::process_exit_code                                        *)
ExitCode(c) ==
  CASE c = "Ok" -> 0
    [] c \in {"ArgumentInvalid", "GraphInvalid", "ActionNotSupported", "NodeArgumentInvalid"} -> 64
    [] c \in {"InvalidJson", "ImageMalformed", "ImageTypeNotSupported"} -> 65
    [] c \in {"SecondaryResourceNotFound", "PrimaryResourceNotFound"} -> 66
    [] c \in {"UpstreamError", "UpstreamTimeout"} -> 69
    [] c \in {"InternalError", "NoSolutionFound", "Custom", "Unknown"} -> 70
    [] c = "OutOfMemory" -> 71
    [] c = "IoError" -> 74
    [] c = "ActionForbidden" -> 77
    [] c = "LicenseError" -> 402
    [] c = "AuthorizationRequired" -> 401

(* ErrorCategory::http_status_code                                         *)
HttpStatus(c) ==
  CASE c = "Ok" -> 200
    [] c \in {"ArgumentInvalid", "GraphInvalid", "NodeArgumentInvalid", "ActionNotSupported", "InvalidJson",
              "ImageMalformed", "ImageTypeNotSupported"} -> 400
    [] c = "AuthorizationRequired" -> 401
    [] c = "LicenseError" -> 402
    [] c = "ActionForbidden" -> 403
    [] c = "PrimaryResourceNotFound" -> 404
    [] c \in {"SecondaryResourceNotFound", "InternalError", "Unknown", "NoSolutionFound", "Custom", "IoError"} -> 500
    [] c = "UpstreamError" -> 502
    [] c = "OutOfMemory" -> 503
    [] c = "UpstreamTimeout" -> 504
=============================================================================
