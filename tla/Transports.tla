------------------------------ MODULE Transports ------------------------------
(***************************************************************************)
(* What the transports of this repository send for a call: connect-node    *)
(* for Node.js, connect-web-next and the legacy connect-web for browsers.  *)
(* Responses has what they make of the answer.                             *)
(*                                                                         *)
(* A call c has: kind, timeout, header, inputs, interceptors, and the      *)
(* options of its transport: c.client.                                     *)
(***************************************************************************)
EXTENDS ProtocolHeaders

IsStream(c) == c.kind # "unary"

Request(header, body) == Return([header |-> header, body |-> body])

\* A text that is thrown is no Error.
Thrown(code) == FromReason([is |-> "value", message |-> "thrown"], code)

\* A transport may be given a base URL with a slash at its end.
CreateMethodUrl(base, method) ==
  (IF base # << >> /\ Last(base) = "/" THEN Front(base) ELSE base) \o <<"/", method>>

LegacyMethodUrl(base, method) == CreateMethodUrl(base, method)

-----------------------------------------------------------------------------
(* Interceptors                                                            *)

\* Mutant: the last one is the outermost.
ApplyInterceptors_Unreversed(interceptors) ==
  FoldLeft(LAMBDA next, i : <<i>> \o next, << >>, interceptors)

\* The order in which a request passes them.
ApplyInterceptors(interceptors) ==
  FoldLeft(LAMBDA next, i : <<i>> \o next, << >>, Reverse(interceptors))

\* An interceptor of the model appends its name to the header.
RunUnary(interceptors, header) ==
  SetIf(interceptors # << >>, header, "x-seen", ApplyInterceptors(interceptors))

RunStreaming(interceptors, header) == RunUnary(interceptors, header)
LegacyRunUnary(interceptors, header) == RunUnary(interceptors, header)
LegacyRunServerStream(interceptors, header) == RunStreaming(interceptors, header)

-----------------------------------------------------------------------------
(* Requests from Node.js                                                   *)

\* The limit on what is written is not looked at, and "more than" is not "at least".
NodeConnectUnaryRequest(c) ==
  LET o == c.client
      data == ClientSerialize(c.inputs[1], o.binary)
      header == RunUnary(c.interceptors,
        ConnectRequestHeaderWithCompression(FALSE, o.binary, c.timeout, c.header, o.accept, o.send))
  IN CASE data.raised -> data
       [] ~data.raised /\ o.send # "identity" /\ Size(data.value) > o.compressMinBytes ->
            Request(Set(header, "content-encoding", <<o.send>>), BareBody(Compress(data.value, o.send)))
       [] OTHER -> Request(Without(header, {"content-encoding"}), BareBody(data.value))

\* The messages of a stream of envelopes that were joined
Joined(stream) ==
  EncodeEnvelopes([n \in DOMAIN stream.items |-> stream.items[n].envelopes[1]])

\* The pipe of every request that is a sequence of envelopes.  An error in it
\* fails the request.
Upload(c, header) ==
  LET o == c.client
      body == TransformJoinEnvelopes(TransformCompressEnvelope(
                TransformSerializeEnvelope(TransformNormalizeMessage(Stream(c.inputs)), o.binary, o.writeMaxBytes),
                o.send, o.compressMinBytes))
  IN IF body.errors = << >> THEN Request(header, Joined(body)) ELSE Raise(body.errors[1])

NodeConnectStreamRequest(c) ==
  Upload(c, RunStreaming(c.interceptors,
    ConnectRequestHeaderWithCompression(TRUE, c.client.binary, c.timeout, c.header,
                                        c.client.accept, c.client.send)))

NodeGrpcUnaryRequest(c) ==
  Upload(c, RunUnary(c.interceptors,
    GrpcRequestHeaderWithCompression(c.client.binary, c.timeout, c.header, c.client.accept, c.client.send)))

NodeGrpcStreamRequest(c) ==
  Upload(c, RunStreaming(c.interceptors,
    GrpcRequestHeaderWithCompression(c.client.binary, c.timeout, c.header, c.client.accept, c.client.send)))

NodeGrpcWebUnaryRequest(c) ==
  Upload(c, RunUnary(c.interceptors,
    GrpcWebRequestHeaderWithCompression(c.client.binary, c.timeout, c.header, c.client.accept, c.client.send)))

NodeGrpcWebStreamRequest(c) ==
  Upload(c, RunStreaming(c.interceptors,
    GrpcWebRequestHeaderWithCompression(c.client.binary, c.timeout, c.header, c.client.accept, c.client.send)))

-----------------------------------------------------------------------------
(* Requests from browsers: one message, not compressed, and no limits.     *)

\* fetch() knows how long the body is, and what it can decode.
Fetched(request) ==
  IF request.raised THEN request
  ELSE LET body == request.value.body
       IN Return([request.value EXCEPT !.header =
            SetIf(body.is = "bare", Set(@, "accept-encoding", <<Gzip, "deflate", Brotli>>),
                  "content-length", <<Size(body.data)>>)])

\* The function of createRequestBody()
Enveloped(data) == EncodeEnvelope(Envelope({}, data))

WebBody(c, enveloped) ==
  Then(ClientSerialize(c.inputs[1], c.client.binary),
       LAMBDA data : Return(IF enveloped THEN Enveloped(data) ELSE BareBody(data)))

WebRequest(header, body) ==
  Fetched(IF body.raised THEN body ELSE Request(header, body.value))

WebConnectUnaryRequest(c) ==
  WebRequest(RunUnary(c.interceptors, ConnectRequestHeader(FALSE, c.client.binary, c.timeout, c.header)),
             WebBody(c, FALSE))

WebConnectRequestBody(c) ==
  IF c.inputs = << >> THEN Raise(Thrown(Code.Internal)) ELSE WebBody(c, TRUE)

WebConnectStreamRequest(c) ==
  WebRequest(RunStreaming(c.interceptors, ConnectRequestHeader(TRUE, c.client.binary, c.timeout, c.header)),
             WebConnectRequestBody(c))

WebGrpcWebUnaryRequest(c) ==
  WebRequest(RunUnary(c.interceptors, GrpcWebRequestHeader(c.client.binary, c.timeout, c.header)),
             WebBody(c, TRUE))

WebGrpcWebRequestBody(c) ==
  IF c.inputs = << >> THEN Raise(Thrown(Code.Unknown)) ELSE WebBody(c, TRUE)

WebGrpcWebStreamRequest(c) ==
  WebRequest(RunStreaming(c.interceptors, GrpcWebRequestHeader(c.client.binary, c.timeout, c.header)),
             WebGrpcWebRequestBody(c))

\* The legacy transports have headers and bodies of their own.  A stream of Connect
\* ends with an empty envelope, and gRPC-web has no JSON.
LegacyConnectHeader(stream, binary, timeoutMs, header) ==
  ConnectRequestHeader(stream, binary, timeoutMs, header)

\* What toJsonString() throws is an Error.
LegacyConnectBody(c) ==
  IF c.inputs[1].any /\ ~c.client.binary
    THEN Raise(LegacyFromReason([is |-> "Error", message |-> "serialize json"], Code.Internal))
    ELSE Then(ClientSerialize(c.inputs[1], c.client.binary), LAMBDA data :
           Return(IF IsStream(c) THEN EncodeEnvelopes(<<Envelope({}, data), Envelope({"end"}, EmptyData)>>)
                  ELSE BareBody(data)))

LegacyConnectUnaryRequest(c) ==
  WebRequest(LegacyRunUnary(c.interceptors, LegacyConnectHeader(FALSE, c.client.binary, c.timeout, c.header)),
             LegacyConnectBody(c))

LegacyConnectStreamRequest(c) ==
  WebRequest(LegacyRunServerStream(c.interceptors,
               LegacyConnectHeader(TRUE, c.client.binary, c.timeout, c.header)),
             LegacyConnectBody(c))

LegacyGrpcWebHeader(timeoutMs, header) ==
  Set(GrpcWebRequestHeader(TRUE, timeoutMs, header), "x-user-agent", <<"@bufbuild/connect-web">>)

LegacyGrpcWebBody(c) == Return(Enveloped(BinarySerialize(c.inputs[1]).value))

LegacyGrpcWebUnaryRequest(c) ==
  WebRequest(LegacyRunUnary(c.interceptors, LegacyGrpcWebHeader(c.timeout, c.header)), LegacyGrpcWebBody(c))

LegacyGrpcWebStreamRequest(c) ==
  WebRequest(LegacyRunServerStream(c.interceptors, LegacyGrpcWebHeader(c.timeout, c.header)),
             LegacyGrpcWebBody(c))
=============================================================================
