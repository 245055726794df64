------------------------------- MODULE Exchange -------------------------------
(***************************************************************************)
(* One call with everything that is in it: headers, bodies, compression,   *)
(* limits, errors.  A client of this repository, or a foreign one, sends a *)
(* request, a server of this repository answers it, and what arrives of    *)
(* the answer - through a proxy, perhaps - becomes messages, metadata and  *)
(* an error.  How the parts of it interleave is left to Call.              *)
(***************************************************************************)
EXTENDS Responses, Handlers

CONSTANTS
  Calls,        \* what the clients of a model call, how, and with what options
  Foreign,      \* requests of other clients
  Replacements, \* responses of a proxy
  Reasons       \* for a connection to fail

IsSequence(s) == s \in Seq(ToSet(s))

\* What is a message, or can be parsed as one, has as many bytes as the message.
IsData(data) ==
  /\ DOMAIN data = {"content", "format", "plain", "zip"}
  /\ data.content.is = "message" \/ data.format = "proto" => data.content.size = data.plain

IsBody(body) ==
  \/ body.is = "bare" /\ IsData(body.data)
  \/ /\ body.is = "envelopes" /\ DOMAIN body = {"is", "envelopes"} /\ IsSequence(body.envelopes)
     /\ \A n \in DOMAIN body.envelopes : IsData(body.envelopes[n].data)

Uncompressed(data) == [data EXCEPT !.zip = "identity"]

HasStatus(envelope) ==
  Has(TrailerDeserialize(Uncompressed(envelope.data)).value, "grpc-status")

\* Where the protocols say how a response ends: in its header, or in the last of its
\* envelopes.  The trailer of gRPC is the third place.  A response without an end may
\* have part of one, a trailer without a status, or bytes in the place of it.
Endless(r) ==
  /\ ~Has(r.header, "grpc-status")
  /\ r.body.is = "envelopes" =>
       \A n \in DOMAIN r.body.envelopes :
         LET e == r.body.envelopes[n]
         IN /\ "end" \in e.flags => e.data.content.is # "json"
            /\ "trailer" \in e.flags => IsShort(e) \/ ~HasStatus(e)

\* What has an Any has at least the URL of its type.
IsMessage(m) ==
  m = Message(m.size, m.any) /\ m.size \in Nat /\ m.any \in BOOLEAN /\ (m.any => m.size > 0)

\* There is no transport for gRPC in a browser.  A caller leaves it to the transport
\* to tell the timeout, an implementation leaves it to the handler to tell the status,
\* and one that has one message to return returns it, or fails.  A Headers object has
\* finitely many fields.  A method that takes one message is called with one, and the
\* legacy package has no other.
ASSUME CallsAssumption ==
  \A c \in Calls :
    /\ c.platform \in {"node", "web", "legacy"}
    /\ c.protocol \in {"connect", "grpc-web"} \cup (IF c.platform = "node" THEN {"grpc"} ELSE {})
    /\ c.timeout \in Nat \cup {NoTimeout}
    /\ DOMAIN c.header \cap {"connect-timeout-ms", "grpc-timeout"} = {}
    /\ IsSequence(c.inputs) /\ IsSequence(c.impl.outputs) /\ IsSequence(c.impl.failure)
    /\ \A n \in DOMAIN c.inputs : IsMessage(c.inputs[n])
    /\ \A n \in DOMAIN c.impl.outputs :
         c.impl.outputs[n].is = "message" => IsMessage(c.impl.outputs[n])
    /\ TakesOne(c.kind) => DOMAIN c.inputs = {1}
    /\ c.platform = "legacy" => TakesOne(c.kind)
    /\ ReturnsOne(c.kind) /\ c.impl.failure = << >> => c.impl.outputs # << >>
    /\ IsSequence(c.server.accept) /\ IsFiniteSet(DOMAIN c.impl.trailer)
    /\ "grpc-status" \notin DOMAIN c.impl.header \cup DOMAIN c.impl.late
    /\ "grpc-status-details-bin" \notin DOMAIN c.impl.trailer

\* A proxy that makes a response up does not know how to end it.
ASSUME WireAssumption ==
  /\ \A q \in Foreign :
       /\ DOMAIN q = {"httpVersion", "method", "path", "header", "body"} /\ IsBody(q.body)
       /\ \A f \in DOMAIN q.header : IsSequence(q.header[f])
  /\ \A r \in Replacements :
       /\ DOMAIN r = {"status", "header", "body", "trailer", "given"}
       /\ IsBody(r.body) /\ Endless(r)

\* The fields that tell the type and the compression of a request do not begin with a
\* colon.
ASSUME FieldAssumption ==
  \A f \in {"content-type", "content-encoding", "connect-content-encoding", "grpc-encoding"} :
    ~IsPseudo(f)

VARIABLES
  call, pc,
  request,   \* none, or one
  response,  \* none, or one
  tampered,  \* whether the response is another one than the server has sent
  answer     \* what the caller has got: none, or one

vars == <<call, pc, request, response, tampered, answer>>

\* The transport of a call
MakeRequest(c) ==
  LET unary == c.kind = "unary"
  IN CASE c.platform = "node" /\ c.protocol = "connect" ->
            IF unary THEN NodeConnectUnaryRequest(c) ELSE NodeConnectStreamRequest(c)
       [] c.platform = "node" /\ c.protocol = "grpc" ->
            IF unary THEN NodeGrpcUnaryRequest(c) ELSE NodeGrpcStreamRequest(c)
       [] c.platform = "node" /\ c.protocol = "grpc-web" ->
            IF unary THEN NodeGrpcWebUnaryRequest(c) ELSE NodeGrpcWebStreamRequest(c)
       [] c.platform = "web" /\ c.protocol = "connect" ->
            IF unary THEN WebConnectUnaryRequest(c) ELSE WebConnectStreamRequest(c)
       [] c.platform = "web" /\ c.protocol = "grpc-web" ->
            IF unary THEN WebGrpcWebUnaryRequest(c) ELSE WebGrpcWebStreamRequest(c)
       [] c.platform = "legacy" /\ c.protocol = "connect" ->
            IF unary THEN LegacyConnectUnaryRequest(c) ELSE LegacyConnectStreamRequest(c)
       [] c.platform = "legacy" /\ c.protocol = "grpc-web" ->
            IF unary THEN LegacyGrpcWebUnaryRequest(c) ELSE LegacyGrpcWebStreamRequest(c)

ReadResponse(c, r) ==
  LET unary == c.kind = "unary"
  IN CASE c.platform = "node" /\ c.protocol = "connect" ->
            IF unary THEN NodeConnectUnaryResponse(c, r) ELSE NodeConnectStreamResponse(c, r)
       [] c.platform = "node" /\ c.protocol = "grpc" ->
            IF unary THEN NodeGrpcUnaryResponse(c, r) ELSE NodeGrpcStreamResponse(c, r)
       [] c.platform = "node" /\ c.protocol = "grpc-web" ->
            IF unary THEN NodeGrpcWebUnaryResponse(c, r) ELSE NodeGrpcWebStreamResponse(c, r)
       [] c.platform = "web" /\ c.protocol = "connect" ->
            IF unary THEN WebConnectUnaryResponse(c, r) ELSE WebConnectStreamResponse(c, r)
       [] c.platform = "web" /\ c.protocol = "grpc-web" ->
            IF unary THEN WebGrpcWebUnaryResponse(c, r) ELSE WebGrpcWebStreamResponse(c, r)
       [] c.platform = "legacy" /\ c.protocol = "connect" ->
            IF unary THEN LegacyConnectUnaryResponse(c, r) ELSE LegacyConnectStreamResponse(c, r)
       [] c.platform = "legacy" /\ c.protocol = "grpc-web" ->
            IF unary THEN LegacyGrpcWebUnaryResponse(c, r) ELSE LegacyGrpcWebStreamResponse(c, r)

\* The client of Node.js keeps the pseudo-headers to itself, fetch() decodes the body.
Received(c, r) ==
  IF c.platform = "node"
    THEN [r EXCEPT !.header = NodeHeaderToWebHeader(@), !.trailer = NodeHeaderToWebHeader(@)]
    ELSE [r EXCEPT !.header = NodeHeaderToWebHeader(@), !.trailer = NoHeaders,
                   !.body = IF @.is = "bare" /\ Get(r.header, "content-encoding") = <<@.data.zip>>
                              THEN BareBody([@.data EXCEPT !.zip = "identity"]) ELSE @]

\* A transport for browsers makes a ConnectError of what fetch() throws.
Lost(c, reason) ==
  CASE c.platform = "node" -> FromNodeReason(reason)
    [] c.platform = "web" -> FromReason(reason, Code.Internal)
    [] c.platform = "legacy" -> LegacyFromReason(reason, Code.Internal)

-----------------------------------------------------------------------------

Init ==
  /\ call \in Calls
  /\ pc = "start" /\ request = << >> /\ response = << >> /\ tampered = FALSE /\ answer = << >>

Settle(a) == pc' = "done" /\ answer' = <<a>>

\* The constructors check the options.  A request that cannot be made fails.
Send ==
  /\ pc = "start"
  /\ LET made == MakeRequest(call)
         valid == ValidLimits(call.client) /\ ~InternalHandlerOptions(call.server).raised
         pseudo == IF call.httpVersion = "2" THEN Field(":method", <<"POST">>) ELSE NoHeaders
     IN CASE ~valid -> Settle(Failed(SimpleError("invalid options", Code.Internal))) /\ UNCHANGED request
          [] valid /\ made.raised -> Settle(Failed(made.error)) /\ UNCHANGED request
          [] OTHER ->
               /\ request' = <<[httpVersion |-> call.httpVersion, method |-> "POST",
                                path |-> (IF call.platform = "legacy" THEN LegacyMethodUrl(call.base, "method")
                                         ELSE CreateMethodUrl(call.base, "method")),
                                header |-> WebHeaderToNodeHeaders(made.value.header, pseudo),
                                body |-> made.value.body]>>
               /\ pc' = "sent" /\ UNCHANGED answer
  /\ UNCHANGED <<call, response, tampered>>

\* What another client sends to the same server, if its options do not keep it from
\* being created
ForeignSends ==
  /\ pc = "start" /\ call.foreign /\ ~InternalHandlerOptions(call.server).raised
  /\ request' \in {<<q>> : q \in Foreign} /\ pc' = "foreign"
  /\ UNCHANGED <<call, response, tampered, answer>>

Serve ==
  /\ pc \in {"sent", "foreign"}
  /\ response' = <<NodeHandler(call.server, CreateImplSpec(call.kind, call.impl), request[1])>>
  /\ pc' = (IF pc = "sent" THEN "served" ELSE "done")
  /\ UNCHANGED <<call, request, tampered, answer>>

\* What may be left of data: no bytes, bytes that are nothing, a shorter message of the
\* binary format, the first lines.  Part of a JSON object is none, and a line that is
\* cut is as good as lost.
PartsOf(data) ==
  LET content == data.content
      sizes == IF content.is = "message" THEN 1..(Size(data) - 1) ELSE {1}
      garbage == {Data([is |-> "garbage"], "none", size) : size \in sizes}
      Shorter(any) == {Data(Message(size, any), "proto", size) : size \in sizes}
      messages == IF content.is # "message" \/ data.format # "proto" \/ data.zip # "identity" THEN {}
                  ELSE Shorter(FALSE) \cup Shorter(content.any)
      lines == IF content.is # "lines" THEN {}
               ELSE {LinesData(SubSeq(content.lines, 1, n)) : n \in 0..Len(content.lines)}
  IN IF Size(data) = 0 THEN {} ELSE {EmptyData} \cup garbage \cup messages \cup lines

\* The first of some envelopes, and part of the next one, or none of it.  A cut within
\* the header of an envelope is an error to every reader.
CutBodies(body) ==
  LET Cut(n) == {<< >>} \cup {<<Truncated(body.envelopes[n], part)>> : part \in PartsOf(body.envelopes[n].data)}
  IN IF body.is = "bare" THEN {BareBody(part) : part \in PartsOf(body.data)}
     ELSE UNION {{EncodeEnvelopes(SubSeq(body.envelopes, 1, n - 1) \o rest) : rest \in Cut(n)} :
                   n \in DOMAIN body.envelopes}

\* Another response takes the place of it, or it loses its trailers, or the end of
\* its body, from any byte on.  A response that has its status in the header has no body.
Proxy ==
  /\ pc = "served" /\ call.proxied /\ ~tampered
  /\ \/ \E r \in Replacements : response' = <<r>>
     \/ /\ response[1].trailer # NoHeaders
        /\ response' = <<[response[1] EXCEPT !.trailer = NoHeaders]>>
     \/ /\ ~Has(response[1].header, "grpc-status")
        /\ \E body \in CutBodies(response[1].body) : response' = <<[response[1] EXCEPT !.body = body]>>
  /\ tampered' = TRUE
  /\ UNCHANGED <<call, pc, request, answer>>

ConnectionFails ==
  /\ pc = "sent" /\ call.proxied
  /\ \E reason \in Reasons : Settle(Failed(Lost(call, reason)))
  /\ UNCHANGED <<call, request, response, tampered>>

Read ==
  /\ pc = "served"
  /\ Settle(ReadResponse(call, Received(call, response[1])))
  /\ UNCHANGED <<call, request, response, tampered>>

Next == Send \/ ForeignSends \/ Serve \/ Proxy \/ ConnectionFails \/ Read

Spec == Init /\ [][Next]_vars

-----------------------------------------------------------------------------
(* What is said of an exchange.  Fields that are set by several are left   *)
(* to have the values of all of them.                                      *)

Carries(header, part) ==
  \A f \in DOMAIN part : Has(header, f) /\ ToSet(part[f]) \subseteq ToSet(header[f])

Answered == pc = "done" /\ answer # << >>
Genuine == Answered /\ response # << >> /\ ~tampered
Success == answer[1].errors = << >>

\* Bytes a message may have on its way, compressed or not
Fits(message, limits) == {message.size, Zipped[message.size]} \subseteq 0..Min(limits)

IsMessageOf(c, m, limits) ==
  m.is = "message" /\ (m.any => c.client.binary) /\ Fits(m, limits)

\* Whether nothing stands in the way of a call
Deliverable(c) ==
  LET limits == {c.client.writeMaxBytes, c.client.readMaxBytes, c.server.writeMaxBytes, c.server.readMaxBytes}
  IN /\ ValidLimits(c.client) /\ ValidLimits(c.server)
     /\ c.protocol \in c.server.protocols
     /\ c.base \in {c.server.prefix, c.server.prefix \o <<"/">>}
     /\ ~(c.kind = "biDiStreaming" /\ c.httpVersion = "1.1")
     /\ \A n \in DOMAIN c.inputs : IsMessageOf(c, c.inputs[n], limits)
     /\ \A n \in DOMAIN c.impl.outputs : IsMessageOf(c, c.impl.outputs[n], limits)
     /\ c.client.send \in {"identity"} \cup (ToSet(c.server.accept) \cap ToSet(c.client.accept))
     /\ c.impl.is = "function"

\* What a server and a client of this repository say to each other arrives: the
\* implementation gets the messages and the header of the caller, with what its
\* interceptors have added in their order, and the caller gets the messages, the
\* header and the trailer of the implementation, over every protocol, transport and
\* format, compressed by either side or not.  A call that nothing stands in the way
\* of succeeds, and one that succeeds has not failed at the server.
\* A header that is set after the first message of a stream is lost.
Fidelity ==
  /\ Genuine /\ Deliverable(call) /\ call.impl.failure = << >> => Success
  /\ Genuine /\ Success =>
       LET given == response[1].given[1]
           streams == ~ReturnsOne(call.kind) /\ call.impl.outputs # << >>
       IN /\ call.impl.is = "function" /\ call.impl.failure = << >>
          /\ given.inputs = call.inputs
          /\ Carries(given.header, call.header)
          /\ call.interceptors # << >> => given.header["x-seen"] = call.interceptors
          /\ answer[1].messages = call.impl.outputs
          /\ Carries(answer[1].header, call.impl.header)
          /\ Carries(answer[1].header, IF streams THEN NoHeaders ELSE call.impl.late)
          /\ Carries(answer[1].trailer, call.impl.trailer)

\* No message is made up, lost before another one, or given out of order, even if a
\* call fails in the middle of it: an implementation has got a beginning of what its
\* caller has sent, and the caller a beginning of what it has returned, whatever the
\* formats, encodings and limits of both sides are.
MessagesArrive ==
  /\ ~tampered /\ response # << >> /\ (pc = "served" \/ Answered) /\ response[1].given # << >> =>
       IsPrefix(response[1].given[1].inputs, call.inputs)
  /\ Genuine => IsPrefix(answer[1].messages, call.impl.outputs)

\* An error of Connect's unary methods is sent with its metadata as headers: those
\* that describe the body take the place of the right ones.
Overwrites(error) == DOMAIN error.metadata \cap {"content-type", "content-encoding"} # {}

Scalar(error) == \E n \in DOMAIN error.details : error.details[n].json = "scalar"

\* The caller gets the error an implementation has failed with, after the messages
\* that preceded it: its code and its message, as they are shown, its details, and -
\* with Connect - its metadata, next to the trailer.  What is no ConnectError is not
\* shown.
ArrivesAs(error) ==
  LET got == answer[1].errors[1]
      connect == call.protocol = "connect"
      legacy == call.platform = "legacy"
  IN /\ ~Success
     /\ (IF legacy THEN LegacyShownMessage(got) ELSE ShownMessage(got)) = ShownMessage(error)
     /\ (IF legacy THEN LegacyErrorDetails(got, {"known"}) ELSE ErrorDetails(got, {"known"}))
          = ErrorDetails(error, {"known"})
     /\ connect => Carries(got.metadata, error.metadata)
     /\ Carries(got.metadata, call.impl.trailer)
     /\ ~ReturnsOne(call.kind) => answer[1].messages = call.impl.outputs

\* ArrivesAs, but for two kinds of errors of Connect: the ones that overwrite the
\* headers of their body, and the ones with a detail whose JSON is no object.
ErrorSurvives ==
  Genuine /\ Deliverable(call) /\ call.impl.failure # << >> =>
    LET error == HandlerError(call.impl.failure[1])
    IN \/ ArrivesAs(error)
       \/ call.protocol = "connect" /\ (Scalar(error) \/ (call.kind = "unary" /\ Overwrites(error)))

\* "An optional JSON representation of the detail" is allowed to be any JSON value:
\* an error that has one arrives like any other.
AnyDebugArrives ==
  Genuine /\ Deliverable(call) /\ call.impl.failure # << >> =>
    LET error == HandlerError(call.impl.failure[1])
    IN Scalar(error) => ArrivesAs(error)

\* What ends a response of gRPC-web for a client without telling a status: a trailer that
\* has none, or, for browsers, what has come of a trailer.
PassesForEnd(c, envelope) ==
  /\ "trailer" \in envelope.flags
  /\ IF IsShort(envelope) THEN c.platform # "node" ELSE ~HasStatus(envelope)

\* When a client cannot tell that a body has no end.  Connect's unary methods have nothing
\* but the body, and an empty one is an empty message of the binary format; gRPC without
\* its trailer is not asked for a status; the legacy transport for gRPC-web misses no
\* trailer in a stream that has no message; and no client of gRPC-web misses a status
\* in a trailer, nor do those for browsers miss the rest of a trailer.
IsTakenForWhole(c, body, messages) ==
  \/ /\ c.protocol = "connect" /\ c.kind = "unary"
     /\ ~Parse(Uncompressed(BodyData(body)), c.client.binary).raised
  \/ c.protocol = "grpc"
  \/ c.platform = "legacy" /\ c.protocol = "grpc-web" /\ IsStream(c) /\ messages = << >>
  \/ /\ c.protocol = "grpc-web" /\ body.is = "envelopes"
     /\ \E n \in DOMAIN body.envelopes : PassesForEnd(c, body.envelopes[n])

\* A response that a proxy made up, or that was cut short, is not taken for a success
\* by a protocol that declares its end, but for the cases of IsTakenForWhole.
NoForgedSuccess ==
  Answered /\ tampered /\ Success =>
    IsTakenForWhole(call, response[1].body, answer[1].messages)

\* No message that is larger than a limit passes it, on the wire or in memory: not
\* to an implementation, not from it, and not to or from a client of Node.js.  The
\* unary client of Connect does not look at writeMaxBytes.
LimitsHold ==
  LET node == call.platform = "node"
      Within(messages, limit) == \A n \in DOMAIN messages : messages[n].size <= limit
      Sent(body, limit) ==
        \A n \in DOMAIN body.envelopes :
          LET content == body.envelopes[n].data.content
          IN content.is = "message" => content.size <= limit
  IN /\ response # << >> /\ ~tampered =>
          /\ response[1].given # << >> =>
               Within(response[1].given[1].inputs, call.server.readMaxBytes)
          /\ response[1].body.is = "envelopes" => Sent(response[1].body, call.server.writeMaxBytes)
     /\ node /\ pc = "sent" /\ request[1].body.is = "envelopes" =>
          Sent(request[1].body, call.client.writeMaxBytes)
     /\ Answered /\ node => Within(answer[1].messages, call.client.readMaxBytes)

\* A deadline means the same to both sides: what a client writes, a server of the
\* protocol reads as the same time, or refuses.  gRPC allows eight digits, and a client
\* that counts in milliseconds needs a ninth after 27 hours; Connect allows ten.
DeadlineIsUnderstood ==
  request # << >> /\ pc = "sent" =>
    LET header == request[1].header
        read == IF call.protocol = "connect" THEN ConnectParseTimeout(Get(header, "connect-timeout-ms"))
                ELSE GrpcParseTimeout(Get(header, "grpc-timeout"))
    IN \/ read = Return(call.timeout)
       \/ call.protocol = "connect" /\ call.timeout >= ElevenDigits /\ read.raised
       \/ call.protocol # "connect" /\ call.timeout >= NineDigits /\ read.raised

\* Whether a response tells of a failure, in any of the ways the protocols have
SaysError(r) ==
  LET Tells(envelope) ==
        \/ "end" \in envelope.flags /\ EndStreamParse(Uncompressed(envelope.data)).value.errors # << >>
        \/ /\ "trailer" \in envelope.flags
           /\ FindTrailerError(TrailerDeserialize(Uncompressed(envelope.data)).value) # << >>
  IN \/ r.status \in 400..599
     \/ FindTrailerError(r.trailer) # << >>
     \/ r.body.is = "envelopes" /\ r.body.envelopes # << >> /\ Tells(Last(r.body.envelopes))

\* Whether a protocol has a content type for a method
Speaks(c, protocol, type) ==
  CASE protocol = "connect" ->
         type \in DOMAIN ConnectTypes /\ ConnectTypes[type].stream = IsStream(c)
    [] protocol = "grpc" -> type \in DOMAIN GrpcTypes
    [] protocol = "grpc-web" -> type \in DOMAIN GrpcWebTypes /\ ~GrpcWebTypes[type].text

IsRight(c, q) ==
  /\ \E protocol \in c.server.protocols : Speaks(c, protocol, ContentType(q))
  /\ q.method = "POST" /\ q.path = c.server.prefix \o <<"/", "method">>
  /\ ~(c.kind = "biDiStreaming" /\ q.httpVersion = "1.1")

KnowsEncoding(c, q) ==
  LET field == IF ContentType(q) \in DOMAIN ConnectTypes THEN ConnectEncoding(IsStream(c))
               ELSE "grpc-encoding"
  IN Get(q.header, field) \in {<< >>, <<"identity">>} \cup {<<a>> : a \in ToSet(c.server.accept)}

\* Whoever sends it, a request reaches an implementation only if the server speaks
\* its protocol, and its method, path and HTTP version are right, and no message of
\* it does if the server does not know its encoding.  The client of a request that
\* does not get there is told so.
UnderstoodOrRefused ==
  pc = "done" /\ answer = << >> =>
    LET q == request[1]
        r == response[1]
    IN /\ r.given # << >> => IsRight(call, q)
       /\ r.given # << >> /\ r.given[1].inputs # << >> => KnowsEncoding(call, q)
       /\ ~IsRight(call, q) \/ ~KnowsEncoding(call, q) => SaysError(r)
=============================================================================
