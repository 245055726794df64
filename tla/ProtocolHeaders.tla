--------------------------- MODULE ProtocolHeaders ---------------------------
(***************************************************************************)
(* What the three protocols say in headers: the content types, headers of  *)
(* a request, timeouts, compression, and what a client concludes from the  *)
(* header of a response (protocol-connect, protocol-grpc, protocol-grpc-   *)
(* web and compression.ts of connect-core).                                *)
(***************************************************************************)
EXTENDS Payloads

\* Numbers of up to ten digits are below.  TLC has no number as large: a model puts a
\* smaller one in its place.
CONSTANT ElevenDigits

ASSUME DigitsAssumption == ElevenDigits \in Nat

Get(header, field) == IF Has(header, field) THEN header[field] ELSE << >>

-----------------------------------------------------------------------------
(* Content types                                                           *)

\* What is matched by contentTypeRegExp of each protocol, and how
ConnectTypes ==
  [type \in {"application/proto", "application/json", "application/json; charset=utf-8",
             "application/connect+proto", "application/connect+json"} |->
     [stream |-> type \in {"application/connect+proto", "application/connect+json"},
      binary |-> type \in {"application/proto", "application/connect+proto"}]]

GrpcTypes ==
  [type \in {"application/grpc", "application/grpc+proto", "application/grpc+json"} |->
     [binary |-> type # "application/grpc+json"]]

GrpcWebTypes ==
  [type \in {"application/grpc-web", "application/grpc-web+proto", "application/grpc-web+json",
             "application/grpc-web-text"} |->
     [text |-> type = "application/grpc-web-text", binary |-> type # "application/grpc-web+json"]]

\* parseContentType(): none, or one.  A field that was set twice matches nothing.
ParseType(types, mimeType) ==
  IF Len(mimeType) = 1 /\ mimeType[1] \in DOMAIN types THEN <<types[mimeType[1]]>> ELSE << >>

ParseConnectType(mimeType) == ParseType(ConnectTypes, mimeType)
ParseGrpcType(mimeType) == ParseType(GrpcTypes, mimeType)
ParseGrpcWebType(mimeType) == ParseType(GrpcWebTypes, mimeType)

ConnectType(stream, binary) ==
  CASE stream -> IF binary THEN <<"application/connect+proto">> ELSE <<"application/connect+json">>
    [] OTHER -> IF binary THEN <<"application/proto">> ELSE <<"application/json">>

GrpcType(binary) == IF binary THEN <<"application/grpc+proto">> ELSE <<"application/grpc+json">>

GrpcWebType(binary) ==
  IF binary THEN <<"application/grpc-web+proto">> ELSE <<"application/grpc-web+json">>

-----------------------------------------------------------------------------
(* Headers of a request                                                    *)

NoTimeout == -1

\* Mutant: in whole seconds.
GrpcTimeout_Seconds(timeoutMs) == <<timeoutMs \div 1000, "S">>

ConnectTimeout(timeoutMs) == <<timeoutMs>>
GrpcTimeout(timeoutMs) == <<timeoutMs, "m">>

ConnectRequestHeader(stream, binary, timeoutMs, header) ==
  Set(Set(SetIf(timeoutMs # NoTimeout, header, "connect-timeout-ms", ConnectTimeout(timeoutMs)),
          "content-type", ConnectType(stream, binary)), "connect-protocol-version", <<"1">>)

GrpcRequestHeader(binary, timeoutMs, header) ==
  Set(Set(SetIf(timeoutMs # NoTimeout, header, "grpc-timeout", GrpcTimeout(timeoutMs)),
          "content-type", GrpcType(binary)), "te", <<"trailers">>)

GrpcWebRequestHeader(binary, timeoutMs, header) ==
  Set(Set(SetIf(timeoutMs # NoTimeout, header, "grpc-timeout", GrpcTimeout(timeoutMs)),
          "content-type", GrpcWebType(binary)), "x-grpc-web", <<"1">>)

\* send: the name of a compression, or "identity"; accept: names
WithCompression(header, sendField, send, acceptField, accept) ==
  SetIf(accept # << >>, SetIf(send # "identity", header, sendField, <<send>>), acceptField, accept)

ConnectEncoding(stream) == IF stream THEN "connect-content-encoding" ELSE "content-encoding"
ConnectAcceptEncoding(stream) == IF stream THEN "connect-accept-encoding" ELSE "accept-encoding"

ConnectRequestHeaderWithCompression(stream, binary, timeoutMs, header, accept, send) ==
  WithCompression(ConnectRequestHeader(stream, binary, timeoutMs, header),
                  ConnectEncoding(stream), send, ConnectAcceptEncoding(stream), accept)

GrpcRequestHeaderWithCompression(binary, timeoutMs, header, accept, send) ==
  WithCompression(GrpcRequestHeader(binary, timeoutMs, header),
                  "grpc-encoding", send, "grpc-accept-encoding", accept)

GrpcWebRequestHeaderWithCompression(binary, timeoutMs, header, accept, send) ==
  WithCompression(GrpcWebRequestHeader(binary, timeoutMs, header),
                  "grpc-encoding", send, "grpc-accept-encoding", accept)

\* parseTimeout(): up to ten digits for Connect, eight and a unit for gRPC.
Unit == [H |-> 3600000, M |-> 60000, S |-> 1000, m |-> 1]

ConnectParseTimeout(value) ==
  CASE value = << >> -> Return(NoTimeout)
    [] value # << >> /\ value[1] < ElevenDigits -> Return(value[1])
    [] OTHER -> Raise(SimpleError("invalid connect timeout", Code.InvalidArgument))

\* Numbers of up to eight digits are below.
NineDigits == 100000000

GrpcParseTimeout(value) ==
  CASE value = << >> -> Return(NoTimeout)
    [] value # << >> /\ value[1] < NineDigits -> Return(value[1] * Unit[value[2]])
    [] OTHER -> Raise(SimpleError("invalid grpc timeout", Code.InvalidArgument))

-----------------------------------------------------------------------------
(* The compression of a call, as a server chooses it                       *)

\* The first of the acceptable ones that is available
Preferred(available, accepted) ==
  LET found == Selected(accepted, {n \in DOMAIN accepted : Contains(available, accepted[n])})
  IN IF found = << >> THEN "identity" ELSE found[1]

\* errors: none, or one.  Without a word on what is acceptable, the response is
\* compressed as the request is.
CompressionNegotiate(available, header, sendField, acceptField) ==
  LET requested == IF Has(header, sendField) THEN header[sendField] ELSE <<"identity">>
      known == requested = <<"identity">> \/ (Len(requested) = 1 /\ Contains(available, requested[1]))
      request == IF known THEN requested[1] ELSE "identity"
  IN [request |-> request,
      response |-> IF Get(header, acceptField) = << >> THEN request
                   ELSE Preferred(available, header[acceptField]),
      errors |-> IF known THEN << >>
                 ELSE <<NewError("unknown compression", Code.Unimplemented,
                                 Field(acceptField, available), << >>)>>]

-----------------------------------------------------------------------------
(* The header of a response, as a client takes it                          *)

HttpError(status, code) == SimpleError("HTTP status", code)

UnexpectedType == SimpleError("unexpected content type", Code.Internal)

\* Returns isConnectUnaryError.
ConnectValidateResponse(stream, binary, status, header) ==
  LET parsed == ParseConnectType(Get(header, "content-type"))
  IN CASE status # 200 /\ parsed = << >> -> Raise(HttpError(status, CodeFromConnectStatus(status)))
       [] status # 200 /\ ~stream /\ parsed = <<[stream |-> FALSE, binary |-> FALSE]>> -> Return(TRUE)
       [] parsed = <<[stream |-> stream, binary |-> binary]>>
          /\ ~(status # 200 /\ ~stream /\ ~binary) -> Return(FALSE)
       [] OTHER -> Raise(UnexpectedType)

\* The compression of a response: one that was asked for, or none.
ResponseCompression(header, field, accept) ==
  LET encoding == IF Has(header, field) THEN header[field] ELSE <<"identity">>
  IN IF encoding = <<"identity">> \/ (Len(encoding) = 1 /\ Contains(accept, encoding[1]))
       THEN Return(encoding[1])
       ELSE Raise(SimpleError("unsupported response encoding", Code.InvalidArgument))

\* The encoding comes first for Connect, and last for the others.
ConnectValidateResponseWithCompression(stream, binary, accept, status, header) ==
  LET compression == ResponseCompression(header, ConnectEncoding(stream), accept)
      valid == ConnectValidateResponse(stream, binary, status, header)
  IN CASE compression.raised -> compression
       [] ~compression.raised /\ valid.raised -> valid
       [] OTHER -> Return([compression |-> compression.value, isConnectUnaryError |-> valid.value])

\* Returns foundStatus.
GrpcHeaderStatus(header) ==
  LET errors == FindTrailerError(header)
  IN IF errors = << >> THEN Return(Has(header, "grpc-status")) ELSE Raise(errors[1])

GrpcStatusError(status, header) ==
  SimpleError(IF Has(header, "grpc-message") THEN MessageOf(header) ELSE "HTTP status",
              CodeFromGrpcStatus(status))

GrpcValidateResponse(binary, status, header) ==
  CASE CodeFromGrpcStatus(status) # 0 -> Raise(GrpcStatusError(status, header))
    [] /\ CodeFromGrpcStatus(status) = 0
       /\ ParseGrpcType(Get(header, "content-type")) # <<[binary |-> binary]>> -> Raise(UnexpectedType)
    [] OTHER -> GrpcHeaderStatus(header)

GrpcWebValidateResponse(binary, status, header) ==
  LET parsed == ParseGrpcWebType(Get(header, "content-type"))
  IN CASE CodeFromGrpcStatus(status) # 0 -> Raise(GrpcStatusError(status, header))
       [] CodeFromGrpcStatus(status) = 0 /\ (parsed = << >> \/ parsed[1].binary # binary) ->
            Raise(UnexpectedType)
       [] /\ CodeFromGrpcStatus(status) = 0
          /\ parsed = <<[text |-> TRUE, binary |-> binary]>> ->
            Raise(SimpleError("grpc-web-text is not supported", Code.InvalidArgument))
       [] OTHER -> GrpcHeaderStatus(header)

GrpcValidateResponseWithCompression(binary, accept, status, header) ==
  LET found == GrpcValidateResponse(binary, status, header)
      compression == ResponseCompression(header, "grpc-encoding", accept)
  IN CASE found.raised -> found
       [] ~found.raised /\ compression.raised -> compression
       [] OTHER -> Return([compression |-> compression.value, foundStatus |-> found.value])

GrpcWebValidateResponseWithCompression(binary, accept, status, header) ==
  LET found == GrpcWebValidateResponse(binary, status, header)
      compression == ResponseCompression(header, "grpc-encoding", accept)
  IN CASE found.raised -> found
       [] ~found.raised /\ compression.raised -> compression
       [] OTHER -> Return([compression |-> compression.value, foundStatus |-> found.value])
=============================================================================
