-------------------------------- MODULE Codes --------------------------------
(***************************************************************************)
(* The codes of errors, their names on the wire, and what they have to do  *)
(* with the status of HTTP: code.ts and the two http-status.ts of          *)
(* connect-core, and code.ts of the legacy connect-web.                    *)
(***************************************************************************)
EXTENDS Functions, TLC

Code ==
  [Canceled |-> 1, Unknown |-> 2, InvalidArgument |-> 3, DeadlineExceeded |-> 4,
   NotFound |-> 5, AlreadyExists |-> 6, PermissionDenied |-> 7, ResourceExhausted |-> 8,
   FailedPrecondition |-> 9, Aborted |-> 10, OutOfRange |-> 11, Unimplemented |-> 12,
   Internal |-> 13, Unavailable |-> 14, DataLoss |-> 15, Unauthenticated |-> 16]

CodeValues == Range(Code)

\* The snake case of a name.
Snake ==
  [Canceled |-> "canceled", Unknown |-> "unknown", InvalidArgument |-> "invalid_argument",
   DeadlineExceeded |-> "deadline_exceeded", NotFound |-> "not_found",
   AlreadyExists |-> "already_exists", PermissionDenied |-> "permission_denied",
   ResourceExhausted |-> "resource_exhausted", FailedPrecondition |-> "failed_precondition",
   Aborted |-> "aborted", OutOfRange |-> "out_of_range", Unimplemented |-> "unimplemented",
   Internal |-> "internal", Unavailable |-> "unavailable", DataLoss |-> "data_loss",
   Unauthenticated |-> "unauthenticated"]

CodeToString(code) == Snake[CHOOSE name \in DOMAIN Code : Code[name] = code]

StringToCode == [string \in {CodeToString(c) : c \in CodeValues} |->
                   CHOOSE c \in CodeValues : CodeToString(c) = string]

\* 0, "undefined", for what is no code.
CodeFromString(string) ==
  IF string \in DOMAIN StringToCode THEN StringToCode[string] ELSE 0

\* The legacy package has a copy of the table, and of both functions.
LegacyCode == Code
LegacyCodeToString(code) == Snake[CHOOSE name \in DOMAIN LegacyCode : LegacyCode[name] = code]
LegacyCodeFromString(string) ==
  LET codes == {c \in Range(LegacyCode) : LegacyCodeToString(c) = string}
  IN IF codes = {} THEN 0 ELSE CHOOSE c \in codes : TRUE

-----------------------------------------------------------------------------
(* The status of HTTP                                                      *)

Otherwise(table, key, default) == IF key \in DOMAIN table THEN table[key] ELSE default

\* What all three protocols take an HTTP status for
CommonHttpStatus ==
  401 :> Code.Unauthenticated @@ 403 :> Code.PermissionDenied @@ 404 :> Code.Unimplemented
  @@ 429 :> Code.Unavailable @@ 502 :> Code.Unavailable @@ 503 :> Code.Unavailable
  @@ 504 :> Code.Unavailable

CodeFromConnectStatus(status) ==
  Otherwise(400 :> Code.InvalidArgument @@ 408 :> Code.DeadlineExceeded @@ 409 :> Code.Aborted
            @@ 412 :> Code.FailedPrecondition @@ 413 :> Code.ResourceExhausted
            @@ 415 :> Code.Internal @@ 431 :> Code.ResourceExhausted @@ CommonHttpStatus,
            status, Code.Unknown)

\* 0, "null", for 200.
CodeFromGrpcStatus(status) ==
  Otherwise(200 :> 0 @@ 400 :> Code.Internal @@ CommonHttpStatus, status, Code.Unknown)

\* Any other code has the status of Unknown: 500.
CodeToHttpStatus(code) ==
  CASE code \in {Code.InvalidArgument, Code.OutOfRange} -> 400
    [] code = Code.Unauthenticated -> 401
    [] code = Code.PermissionDenied -> 403
    [] code \in {Code.NotFound, Code.Unimplemented} -> 404
    [] code \in {Code.Canceled, Code.DeadlineExceeded} -> 408
    [] code \in {Code.AlreadyExists, Code.Aborted} -> 409
    [] code = Code.FailedPrecondition -> 412
    [] code = Code.ResourceExhausted -> 429
    [] code = Code.Unavailable -> 503
    [] OTHER -> 500

LegacyCodeFromConnectStatus(status) == CodeFromConnectStatus(status)
LegacyCodeFromGrpcWebStatus(status) == CodeFromGrpcStatus(status)
=============================================================================
