------------------------------- MODULE Handlers -------------------------------
(***************************************************************************)
(* What a server of this repository answers to the whole of a request:     *)
(* handler.ts, the handlers of the three protocols, implementation.ts and  *)
(* node-universal-handler.ts of connect-node.  ServerCall has the steps in *)
(* which it does so.                                                       *)
(*                                                                         *)
(* A server s has: protocols, prefix (of its paths), accept, compressMin-  *)
(* Bytes, readMaxBytes, writeMaxBytes.  A request q has: httpVersion,      *)
(* method, path, header, body.  An implementation has: is, the header it   *)
(* sets at first and the one it sets after its first message (late),       *)
(* trailer, outputs, and the reasons it fails for, none or one.            *)
(***************************************************************************)
EXTENDS Transports

\* given: what the implementation got to see, for the record
Respond(status, header, body, trailer, given) ==
  [status |-> status, header |-> header, body |-> body, trailer |-> trailer, given |-> given]

\* The responses of universal.ts without a body
Refuse(status) == Respond(status, NoHeaders, BareBody(EmptyData), NoHeaders, << >>)
NotFound == 404
MethodNotAllowed == 405
UnsupportedMediaType == 415
VersionNotSupported == 505

-----------------------------------------------------------------------------
(* implementation.ts                                                       *)

\* The methods that are missing get an implementation that throws.
UnimplementService(impl) ==
  IF impl.is = "function" THEN impl
  ELSE [is |-> "function", header |-> NoHeaders, late |-> NoHeaders, trailer |-> NoHeaders,
        outputs |-> << >>,
        failure |-> <<[is |-> "ConnectError", error |-> SimpleError("not implemented", Code.Unimplemented)]>>]

CreateImplSpec(kind, impl) == [kind |-> kind, impl |-> UnimplementService(impl)]

\* The header and trailer a response starts with
CreateHandlerContext(header, trailer) == [header |-> header, trailer |-> trailer]

\* Only errors of this repository are shown to a client.
HandlerError(reason) ==
  IF reason.is = "ConnectError" THEN reason.error ELSE SimpleError("internal error", Code.Internal)

NormalizeOutput(output) ==
  IF output.is = "message" THEN Return(output)
  ELSE Raise(SimpleError("failed to normalize", Code.Internal))

TakesOne(kind) == kind \in {"unary", "serverStreaming"}
ReturnsOne(kind) == kind \in {"unary", "clientStreaming"}

\* given: what the implementation was called with, or nothing.  That of a stream
\* reads its input to the end, and fails with the error of it.
InvokeImplementation(spec, header, input) ==
  LET outputs == Through(
        [items |-> CASE ~ReturnsOne(spec.kind) -> spec.impl.outputs
                     [] ReturnsOne(spec.kind) /\ spec.impl.failure = << >> -> FirstOf(spec.impl.outputs)
                     [] OTHER -> << >>,
         errors |-> [n \in DOMAIN spec.impl.failure |-> HandlerError(spec.impl.failure[n])]],
        NormalizeOutput)
      Invoked(inputs, items, errors) ==
        [given |-> <<[header |-> header, inputs |-> inputs]>>, items |-> items, errors |-> errors]
      first == FirstOf(input.items)
  IN CASE ~TakesOne(spec.kind) /\ input.errors = << >> ->
            Invoked(input.items, outputs.items, outputs.errors)
       [] ~TakesOne(spec.kind) /\ input.errors # << >> -> Invoked(input.items, << >>, input.errors)
       [] TakesOne(spec.kind) /\ first = << >> ->
            [given |-> << >>, items |-> << >>,
             errors |-> IF input.errors # << >> THEN input.errors
                        ELSE <<SimpleError("missing input message", Code.InvalidArgument)>>]
       [] OTHER ->
            Invoked(first, outputs.items,
                    CASE outputs.errors # << >> -> outputs.errors
                      [] outputs.errors = << >> /\ input.items # first ->
                           <<SimpleError("extra input message", Code.InvalidArgument)>>
                      [] OTHER -> input.errors)

-----------------------------------------------------------------------------
(* What the handlers have in common                                        *)

\* The implementation sets the headers of its context.  They go out with the first
\* chunk of a body that is streamed: what it sets later is lost.
HeaderAtFirstChunk(header, spec, invoked) ==
  CASE invoked.given = << >> -> header
    [] invoked.given # << >> /\ ~ReturnsOne(spec.kind) /\ spec.impl.outputs # << >> ->
         SetAll(header, spec.impl.header)
    [] OTHER -> SetAll(SetAll(header, spec.impl.header), spec.impl.late)

TrailerAtEnd(trailer, impl, invoked) ==
  IF invoked.given = << >> THEN trailer ELSE SetAll(trailer, impl.trailer)

\* From the bytes of a request to messages.  An error of compressionNegotiate() is
\* raised before anything is read.
Inputs(s, q, compression, binary, endFlag) ==
  TransformParseEnvelope(
    TransformDecompressEnvelope(
      TransformPrepend(TransformSplitEnvelope(q.body, s.readMaxBytes), compression.errors),
      compression.request, s.readMaxBytes),
    binary, endFlag)

Body(stream) == EncodeEnvelopes(stream.items)

-----------------------------------------------------------------------------
(* connect-handler.ts                                                      *)

\* From the bytes of a unary request to its message
UnaryInput(s, q, compression, binary) ==
  LET bytes == Through(TransformPrepend(Stream(<<q.body>>), compression.errors),
                 LAMBDA body : TransformReadAllBytes(body, s.readMaxBytes,
                   IF Has(q.header, "content-length") THEN q.header["content-length"][1] ELSE -1))
      WrapInEnvelope(data) ==
        Return(Envelope(IF compression.request = "identity" THEN {} ELSE {"compressed"}, data))
  IN TransformParseEnvelope(
       TransformDecompressEnvelope(Through(bytes, WrapInEnvelope), compression.request, s.readMaxBytes),
       binary, "none")

\* An error takes the place of the message, with its metadata as headers.
UnaryErrorHeader(header, error) ==
  SetAll(Set(header, "content-type", ConnectType(FALSE, FALSE)), error.metadata)

HandleConnectUnary(s, spec, q) ==
  LET type == ParseConnectType(Get(q.header, "content-type"))
      binary == type[1].binary
      context == CreateHandlerContext(Field("content-type", ConnectType(FALSE, binary)), NoHeaders)
      compression == CompressionNegotiate(s.accept, q.header, "content-encoding", "accept-encoding")
      invoked == InvokeImplementation(spec, q.header, UnaryInput(s, q, compression, binary))
      outputs == TransformSerializeEnvelope(invoked, binary, s.writeMaxBytes)
      failed == outputs.errors # << >>
      sent == TransformCompressEnvelope(
                TransformCatch(outputs, <<Envelope({}, ErrorToJsonBytes(outputs.errors[1]))>>),
                compression.response, s.compressMinBytes).items
      set == HeaderAtFirstChunk(context.header, spec, invoked)
      header == SetIf("compressed" \in sent[1].flags,
                      IF failed THEN UnaryErrorHeader(set, outputs.errors[1]) ELSE set,
                      "content-encoding", <<compression.response>>)
  IN CASE type = << >> -> Refuse(UnsupportedMediaType)
       [] type # << >> /\ type[1].stream -> Refuse(UnsupportedMediaType)
       [] type # << >> /\ ~type[1].stream /\ q.method # "POST" -> Refuse(MethodNotAllowed)
       [] OTHER -> Respond(IF failed THEN CodeToHttpStatus(outputs.errors[1].code) ELSE 200,
                           TrailerMux(header, TrailerAtEnd(context.trailer, spec.impl, invoked)),
                           BareBody(sent[1].data), NoHeaders, invoked.given)

HandleConnectStream(s, spec, q) ==
  LET type == ParseConnectType(Get(q.header, "content-type"))
      binary == type[1].binary
      compression == CompressionNegotiate(s.accept, q.header, "connect-content-encoding",
                                          "connect-accept-encoding")
      context == CreateHandlerContext(
                   SetIf(compression.response # "identity", Field("content-type", ConnectType(TRUE, binary)),
                         "connect-content-encoding", <<compression.response>>), NoHeaders)
      invoked == InvokeImplementation(spec, q.header, Inputs(s, q, compression, binary, "end"))
      outputs == TransformSerializeEnvelope(invoked, binary, s.writeMaxBytes)
      end == [metadata |-> TrailerAtEnd(context.trailer, spec.impl, invoked), errors |-> outputs.errors]
      sent == TransformCompressEnvelope(
                TransformCatchFinally(outputs, <<Envelope({"end"}, EndStreamSerialize(end))>>),
                compression.response, s.compressMinBytes)
  IN CASE type = << >> -> Refuse(UnsupportedMediaType)
       [] type # << >> /\ ~type[1].stream -> Refuse(UnsupportedMediaType)
       [] type # << >> /\ type[1].stream /\ q.method # "POST" -> Refuse(MethodNotAllowed)
       [] OTHER -> Respond(200, HeaderAtFirstChunk(context.header, spec, invoked), Body(sent), NoHeaders, invoked.given)

-----------------------------------------------------------------------------
(* grpc-handler.ts and grpc-web-handler.ts                                 *)

GrpcStatusOk == Field("grpc-status", <<0>>)

HandleGrpc(s, spec, q) ==
  LET type == ParseGrpcType(Get(q.header, "content-type"))
      binary == type[1].binary
      compression == CompressionNegotiate(s.accept, q.header, "grpc-encoding", "grpc-accept-encoding")
      context == CreateHandlerContext(
                   SetIf(compression.response # "identity", Field("content-type", GrpcType(binary)),
                         "grpc-encoding", <<compression.response>>), GrpcStatusOk)
      invoked == InvokeImplementation(spec, q.header, Inputs(s, q, compression, binary, "none"))
      sent == TransformCompressEnvelope(
                TransformSerializeEnvelope(invoked, binary, s.writeMaxBytes),
                compression.response, s.compressMinBytes)
      trailer == TrailerAtEnd(context.trailer, spec.impl, invoked)
  IN CASE type = << >> -> Refuse(UnsupportedMediaType)
       [] type # << >> /\ q.method # "POST" -> Refuse(MethodNotAllowed)
       [] OTHER -> Respond(200, HeaderAtFirstChunk(context.header, spec, invoked), Body(sent),
                           IF sent.errors = << >> THEN trailer ELSE SetTrailerStatus(trailer, sent.errors),
                           invoked.given)

\* Mutant: takes a request in base64 for bytes.
GrpcWebAccepts_Text(type) == type # << >>
GrpcWebAccepts(type) == type # << >> /\ ~type[1].text

HandleGrpcWeb(s, spec, q) ==
  LET type == ParseGrpcWebType(Get(q.header, "content-type"))
      binary == type[1].binary
      compression == CompressionNegotiate(s.accept, q.header, "grpc-encoding", "grpc-accept-encoding")
      context == CreateHandlerContext(
                   SetIf(compression.response # "identity", Field("content-type", GrpcWebType(binary)),
                         "grpc-encoding", <<compression.response>>), GrpcStatusOk)
      invoked == InvokeImplementation(spec, q.header, Inputs(s, q, compression, binary, "trailer"))
      outputs == TransformSerializeEnvelope(invoked, binary, s.writeMaxBytes)
      trailer == TrailerAtEnd(context.trailer, spec.impl, invoked)
      ended == IF outputs.errors = << >> THEN trailer ELSE SetTrailerStatus(trailer, outputs.errors)
      sent == TransformCompressEnvelope(
                TransformCatchFinally(outputs,
                  <<Envelope({"trailer"}, LinesData(TrailerSerialize(ended)))>>),
                compression.response, s.compressMinBytes)
  IN CASE ~GrpcWebAccepts(type) -> Refuse(UnsupportedMediaType)
       [] GrpcWebAccepts(type) /\ q.method # "POST" -> Refuse(MethodNotAllowed)
       [] OTHER -> Respond(200, HeaderAtFirstChunk(context.header, spec, invoked), Body(sent), NoHeaders, invoked.given)

-----------------------------------------------------------------------------
(* handler.ts                                                              *)

\* What the factories of the protocols say of a handler
ConnectFact(kind) ==
  [types |-> {t \in DOMAIN ConnectTypes : ConnectTypes[t].stream = (kind # "unary")},
   methods |-> {"POST"}, path |-> CreateMethodUrl(<<"/">>, "method")]
GrpcFact(kind) ==
  [types |-> DOMAIN GrpcTypes, methods |-> {"POST"}, path |-> CreateMethodUrl(<<"/">>, "method")]
GrpcWebFact(kind) ==
  [types |-> DOMAIN GrpcWebTypes, methods |-> {"POST"}, path |-> CreateMethodUrl(<<"/">>, "method")]

Fact(protocol, kind) ==
  CASE protocol = "grpc" -> GrpcFact(kind)
    [] protocol = "grpc-web" -> GrpcWebFact(kind)
    [] protocol = "connect" -> ConnectFact(kind)

\* The protocols of a handler, in the order in which they are tried
InternalHandlerOptions(s) ==
  LET known == <<"grpc", "grpc-web", "connect">>
      protocols == Selected(known, {n \in DOMAIN known : known[n] \in s.protocols})
  IN IF protocols = << >> \/ ~ValidLimits(s)
       THEN Raise(SimpleError("cannot create handler", Code.InvalidArgument))
       ELSE Return(protocols)

Handle(protocol, s, spec, q) ==
  CASE protocol = "grpc" -> HandleGrpc(s, spec, q)
    [] protocol = "grpc-web" -> HandleGrpcWeb(s, spec, q)
    [] protocol = "connect" /\ spec.kind = "unary" -> HandleConnectUnary(s, spec, q)
    [] OTHER -> HandleConnectStream(s, spec, q)

ContentType(q) == IF Len(Get(q.header, "content-type")) = 1 THEN q.header["content-type"][1] ELSE ""

ProtocolNegotiatingHandler(s, spec, q) ==
  LET protocols == InternalHandlerOptions(s).value
      typed == Selected(protocols, {n \in DOMAIN protocols :
                 ContentType(q) \in Fact(protocols[n], spec.kind).types})
      matching == Selected(typed, {n \in DOMAIN typed :
                    q.method \in Fact(typed[n], spec.kind).methods})
      halfDuplex == spec.kind = "biDiStreaming" /\ q.httpVersion = "1.1"
  IN CASE halfDuplex ->
            [Refuse(VersionNotSupported) EXCEPT !.header = Field("connection", <<"close">>)]
       [] ~halfDuplex /\ matching # << >> -> Handle(matching[1], s, spec, q)
       [] ~halfDuplex /\ matching = << >> /\ typed # << >> -> Refuse(MethodNotAllowed)
       [] OTHER -> Refuse(UnsupportedMediaType)

MergeHandlers(s, spec, q) ==
  IF q.path = s.prefix \o CreateMethodUrl(<<"/">>, "method")
    THEN ProtocolNegotiatingHandler(s, spec, q)
    ELSE Refuse(NotFound)

-----------------------------------------------------------------------------
(* node-universal-handler.ts                                               *)

UniversalRequestFromNode(q) == [q EXCEPT !.header = NodeHeaderToWebHeader(@)]

UniversalResponseToNode(response, pseudo) ==
  [response EXCEPT !.header = WebHeaderToNodeHeaders(@, pseudo),
                   !.trailer = WebHeaderToNodeHeaders(@, NoHeaders)]

NodeHandler(s, spec, q) ==
  UniversalResponseToNode(MergeHandlers(s, spec, UniversalRequestFromNode(q)),
                          IF q.httpVersion = "2" THEN Field(":status", <<"status">>) ELSE NoHeaders)
=============================================================================
