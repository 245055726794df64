---------------------------- MODULE ConnectErrors ----------------------------
(***************************************************************************)
(* Errors, and what they are on the wire: connect-error.ts, error-json.ts, *)
(* end-stream.ts and trailer-status.ts of connect-core, node-error.ts of   *)
(* connect-node, and connect-error.ts of the legacy connect-web.           *)
(*                                                                         *)
(* A message is a name for the text of it.  A detail is a message of the   *)
(* caller's (is = "message") or what arrived of one (is = "incoming"); its *)
(* json is what toJson() gives: an object, a scalar (as for a Duration),   *)
(* or nothing because it throws (as for an Any of unknown type).           *)
(***************************************************************************)
EXTENDS Codes, Metadata

NewError(message, code, metadata, details) ==
  [message |-> message, code |-> code, metadata |-> metadata, details |-> details]

SimpleError(message, code) == NewError(message, code, NoHeaders, << >>)

LegacyNewError(message, code, metadata) == NewError(message, code, metadata, << >>)

\* createMessage(): what is shown of an error
ShownMessage(error) ==
  <<CodeToString(error.code)>> \o IF error.message = "" THEN << >> ELSE <<error.message>>

LegacyShownMessage(error) == ShownMessage(error)

\* connectErrorDetails(): the details of a type the registry knows
ErrorDetails(error, registry) ==
  LET Known(d) == d.type \in registry /\ (d.is = "incoming" => d.value = "good")
      known == Selected(error.details, {n \in DOMAIN error.details : Known(error.details[n])})
  IN [n \in 1..Len(known) |-> known[n].type]

LegacyErrorDetails(error, registry) == ErrorDetails(error, registry)

\* A reason to fail is a ConnectError, an Error (AbortError or not), or a value.
FromReason(reason, code) ==
  CASE reason.is = "ConnectError" -> reason.error
    [] reason.is = "AbortError" -> SimpleError(reason.message, Code.Canceled)
    [] OTHER -> SimpleError(reason.message, code)

\* The given code is for values that are no Error.
LegacyFromReason(reason, code) ==
  FromReason(reason, IF reason.is = "Error" THEN Code.Unknown ELSE code)

\* The properties of an error of Node.js and of its causes, each once.
ErrorChain(reason) == IF reason.is = "value" THEN << >> ELSE reason.chain

NodeProps(error) == [code |-> error.code, syscall |-> error.syscall]

FromNodeReason(reason) ==
  LET props == {NodeProps(ErrorChain(reason)[n]) : n \in DOMAIN ErrorChain(reason)}
      gone == {"ERR_STREAM_WRITE_AFTER_END", "ERR_STREAM_DESTROYED", "ERR_HTTP2_INVALID_STREAM"}
  IN FromReason(reason,
       CASE \E p \in props : p.code \in gone -> Code.Aborted
         [] \E p \in props : p.syscall = "getaddrinfo" /\ p.code \in {"ENOTFOUND", "EAI_AGAIN"} ->
              Code.Unavailable
         [] OTHER -> Code.Internal)

-----------------------------------------------------------------------------
(* JSON, for Connect                                                       *)

ParseError == SimpleError("cannot decode", Code.InvalidArgument)
LegacyParseError == SimpleError("cannot decode", LegacyCode.Internal)

Absent == "<absent>"
NoString == "<not a string>"

\* What toJson() throws for is left out of "debug".
DetailToJson(detail) ==
  [type |-> detail.type, value |-> detail.value,
   debug |-> IF detail.is = "message" /\ detail.json = "throws" THEN Absent ELSE detail.json]

ErrorToJson(error) ==
  [is |-> "object",
   code |-> CodeToString(error.code),
   message |-> IF error.message = "" THEN Absent ELSE error.message,
   msg |-> Absent,
   details |-> [n \in DOMAIN error.details |-> DetailToJson(error.details[n])]]

\* "debug" has to be an object if it is there.
DetailParses(detail) ==
  /\ NoString \notin {detail.type, detail.value}
  /\ detail.debug \in {Absent, "object"}

DetailFromJson(detail) ==
  [is |-> "incoming", type |-> detail.type, value |-> detail.value, json |-> detail.debug]

ErrorFromJson(json, metadata) ==
  IF \/ json.is # "object"
     \/ CodeFromString(json.code) = 0
     \/ json.message = NoString
     \/ \E n \in DOMAIN json.details : ~DetailParses(json.details[n])
    THEN Raise(ParseError)
    ELSE Return(NewError(IF json.message = Absent THEN "" ELSE json.message,
                         CodeFromString(json.code), metadata,
                         [n \in DOMAIN json.details |-> DetailFromJson(json.details[n])]))

\* It also takes "msg" for the message, and does not look at "debug".
LegacyErrorFromJson(json, metadata) ==
  LET text == IF json.is = "object" /\ json.message = Absent THEN json.msg ELSE json.message
  IN IF \/ json.is # "object"
        \/ LegacyCodeFromString(json.code) = 0
        \/ text = NoString
        \/ \E n \in DOMAIN json.details :
             NoString \in {json.details[n].type, json.details[n].value}
       THEN Raise(LegacyParseError)
       ELSE Return(NewError(IF text = Absent THEN "" ELSE text,
                            LegacyCodeFromString(json.code), metadata,
                            [n \in DOMAIN json.details |-> DetailFromJson(json.details[n])]))

\* errors: none, or one.
EndStreamToJson(metadata, errors) ==
  IF errors = << >>
    THEN [is |-> "object", metadata |-> metadata, errors |-> << >>]
    ELSE [is |-> "object", metadata |-> AppendHeaders(metadata, errors[1].metadata),
          errors |-> <<ErrorToJson(errors[1])>>]

\* Whatever is wrong with it, parse() of createEndStreamSerialization() raises an
\* InvalidArgument.
EndStreamFromJson(json) ==
  IF json.is # "object" THEN Raise(ParseError)
  ELSE IF json.errors = << >> THEN Return([metadata |-> json.metadata, errors |-> << >>])
  ELSE LET error == ErrorFromJson(json.errors[1], json.metadata)
       IN IF error.raised THEN Raise(ParseError)
          ELSE Return([metadata |-> json.metadata, errors |-> <<error.value>>])

LegacyEndStreamFromJson(json) ==
  IF json.is # "object" THEN Raise(LegacyParseError)
  ELSE IF json.errors = << >> THEN Return([metadata |-> json.metadata, errors |-> << >>])
  ELSE LET error == LegacyErrorFromJson(json.errors[1], json.metadata)
       IN IF error.raised THEN error
          ELSE Return([metadata |-> json.metadata, errors |-> <<error.value>>])

-----------------------------------------------------------------------------
(* Trailers, for gRPC and gRPC-web                                         *)

\* encodeURIComponent(), and its inverse: plain text stays as it is.
EncodeMessage(message) == <<"%", message>>
DecodeMessage(value) == Last(value)

EncodeBinaryHeader(status) == <<status>>

\* A value that is no base64, or that does not parse as the message.
DecodeBinaryHeader(value) ==
  IF value[1].parses THEN Return(value[1]) ELSE Raise(SimpleError("data loss", Code.DataLoss))

LegacyDecodeBinaryHeader(value) == DecodeBinaryHeader(value)

\* Mutant: the details are not packed.
SetTrailerStatus_NoDetails(target, errors) ==
  IF errors = << >> THEN Set(target, "grpc-status", <<0>>)
  ELSE Set(Set(target, "grpc-status", <<errors[1].code>>),
           "grpc-message", EncodeMessage(errors[1].message))

\* The metadata of the error is not sent.
SetTrailerStatus(target, errors) ==
  IF errors = << >> THEN Set(target, "grpc-status", <<0>>)
  ELSE LET error == errors[1]
           text == Set(Set(target, "grpc-status", <<error.code>>),
                       "grpc-message", EncodeMessage(error.message))
           packed == [n \in DOMAIN error.details |->
                        [type |-> error.details[n].type, value |-> error.details[n].value]]
       IN SetIf(packed # << >>, text, "grpc-status-details-bin",
                EncodeBinaryHeader([parses |-> TRUE, code |-> error.code,
                                    message |-> error.message, details |-> packed]))

Unpack(details) ==
  [n \in DOMAIN details |->
     [is |-> "incoming", type |-> details[n].type, value |-> details[n].value, json |-> Absent]]

\* The errors of a trailer, none or one; it is an error if the details do not parse.
StatusFromDetails(header) ==
  LET status == DecodeBinaryHeader(header["grpc-status-details-bin"])
  IN IF status.raised THEN <<status.error>>
     ELSE IF status.value.code = 0 THEN << >>
     ELSE <<NewError(status.value.message, status.value.code, header, Unpack(status.value.details))>>

MessageOf(header) == IF Has(header, "grpc-message") THEN DecodeMessage(header["grpc-message"]) ELSE ""

FindTrailerError(header) ==
  CASE Has(header, "grpc-status-details-bin") -> StatusFromDetails(header)
    [] ~Has(header, "grpc-status-details-bin") /\ Has(header, "grpc-status") ->
         LET status == header["grpc-status"]
         IN CASE status = <<0>> -> << >>
              [] status[1] \in CodeValues ->
                   <<NewError(MessageOf(header), status[1], header, << >>)>>
              [] OTHER -> <<SimpleError("invalid grpc-status", Code.Internal)>>
    [] OTHER -> << >>

\* Raises the error of a trailer.
ValidateTrailer(trailer) ==
  LET errors == FindTrailerError(trailer)
  IN IF errors = << >> THEN Return(trailer) ELSE Raise(errors[1])
=============================================================================
