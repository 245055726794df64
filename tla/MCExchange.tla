------------------------------ MODULE MCExchange ------------------------------
(***************************************************************************)
(* Calls for TLC.  Each family varies what belongs together, for every     *)
(* caller; everything else is as in Plain.  Zipped makes one message       *)
(* longer, and one shorter.  The least timeout that is too long for        *)
(* Connect is a number of TLC.                                             *)
(***************************************************************************)
EXTENDS Exchange

MCElevenDigits == 1000000000

MCZipped == 0 :> 1 @@ 1 :> 1 @@ 2 :> 3 @@ 3 :> 1

CallersOf(platform, protocols, kinds, formats) ==
  [platform : {platform}, protocol : protocols, kind : kinds, binary : formats]

Kinds == {"unary", "serverStreaming", "clientStreaming", "biDiStreaming"}
WebKinds == {"unary", "serverStreaming"}

Callers ==
  CallersOf("node", {"connect", "grpc", "grpc-web"}, Kinds, BOOLEAN)
  \cup CallersOf("web", {"connect", "grpc-web"}, WebKinds, BOOLEAN)
  \cup CallersOf("legacy", {"connect"}, WebKinds, BOOLEAN)
  \cup CallersOf("legacy", {"grpc-web"}, WebKinds, {TRUE})

Limits(read, write) == [readMaxBytes |-> read, writeMaxBytes |-> write]

Peer(accept, minBytes, limits) == [accept |-> accept, compressMinBytes |-> minBytes] @@ limits

Free == Peer(<<Gzip, Brotli>>, 2, Limits(Unlimited, Unlimited))

Plain(caller) ==
  [protocol |-> caller.protocol, platform |-> caller.platform, kind |-> caller.kind,
   client |-> [binary |-> caller.binary, send |-> "identity"] @@ Free,
   timeout |-> NoTimeout, header |-> NoHeaders,
   inputs |-> <<Message(1, FALSE)>>, interceptors |-> << >>, base |-> << >>, httpVersion |-> "2",
   server |-> [protocols |-> {"connect", "grpc", "grpc-web"}, prefix |-> << >>] @@ Free,
   impl |-> [is |-> "function", header |-> NoHeaders, late |-> NoHeaders, trailer |-> NoHeaders,
             outputs |-> <<Message(2, FALSE)>>, failure |-> << >>],
   foreign |-> FALSE, proxied |-> FALSE]

\* What is sent: a message of a size, in a stream between two others
Messages(one, size) ==
  IF one THEN <<Message(size, FALSE)>> ELSE <<Message(2, FALSE), Message(size, FALSE), Message(1, FALSE)>>

Filled(c, in, out) ==
  [c EXCEPT !.inputs = Messages(TakesOne(c.kind), in), !.impl.outputs = Messages(ReturnsOne(c.kind), out)]

-----------------------------------------------------------------------------
(* The families                                                            *)

\* Compression: who sends and takes what, and from which size on
Compressions(c) ==
  LET node == c.platform = "node"
      Takers == {<< >>, <<Gzip>>, <<Brotli, Gzip>>}
  IN {Filled([c EXCEPT !.client.send = send, !.client.accept = take, !.client.compressMinBytes = min,
                       !.server.accept = others, !.server.compressMinBytes = min], size, 3 - size) :
        send \in IF node THEN {"identity", Gzip} ELSE {"identity"},
        take \in IF node THEN Takers ELSE {<< >>}, others \in Takers, min \in {0, 3}, size \in {0, 3}}

\* A limit, above and below the size of a message, before and after compression
Limited(c) ==
  LET node == c.platform = "node"
      none == Limits(Unlimited, Unlimited)
      low == {Limits(2, Unlimited), Limits(Unlimited, 2)}
      limits == ({none} \X low) \cup IF node THEN low \X {none} ELSE {}
  IN {Filled([c EXCEPT !.client = l[1] @@ @, !.server = l[2] @@ @,
                       !.client.send = send, !.client.compressMinBytes = 0], in, out) :
        l \in limits, send \in IF node THEN {"identity", Gzip} ELSE {"identity"}, in, out \in 2..3}

\* Errors
Detail(json) == [is |-> "message", type |-> "known", value |-> "good", json |-> json]
Details == {<< >>, <<Detail("object")>>, <<Detail("throws"), Detail("object")>>, <<Detail("scalar")>>}

Errors ==
  {NewError("text", code, NoHeaders, << >>) : code \in CodeValues}
  \cup {NewError("", Code.Aborted, metadata, details) : details \in Details,
          metadata \in {NoHeaders, "x-e" :> <<1, 2>>, "x-t" :> <<3>>,
                        "content-encoding" :> <<Gzip>>, "content-type" :> <<"application/proto">>}}

Failures ==
  {[is |-> "ConnectError", error |-> e] : e \in Errors}
  \cup {[is |-> is, message |-> "secret", chain |-> << >>] : is \in {"Error", "AbortError", "value"}}

Failing(c) ==
  {[c EXCEPT !.impl.failure = <<f>>, !.impl.trailer = "x-t" :> <<4>>, !.impl.outputs = o] :
     f \in Failures, o \in IF ReturnsOne(c.kind) THEN {<< >>} ELSE {<< >>, <<Message(2, FALSE)>>}}
  \cup {[c EXCEPT !.impl.is = "missing"]}
  \cup {[c EXCEPT !.impl.outputs = <<[is |-> "value"]>>]}
  \cup {[c EXCEPT !.inputs = <<Message(1, TRUE)>>], [c EXCEPT !.impl.outputs = <<Message(1, TRUE)>>]}

\* Headers, interceptors and timeouts
WithMetadata(c) ==
  {[c EXCEPT !.timeout = timeout] : timeout \in {1, 99999999, 100000000, MCElevenDigits}}
  \cup
  {[c EXCEPT !.header = given, !.impl.header = "x-h" :> <<1>>, !.impl.late = late,
             !.impl.trailer = trailer, !.interceptors = interceptors] :
     given \in {NoHeaders, "x-a" :> <<1, 2>>}, late \in {NoHeaders, "x-l" :> <<1>>},
     trailer \in {NoHeaders, "x-h" :> <<2>>}, interceptors \in {<< >>, <<"i">>, <<"i", "j">>}}

\* Paths, protocols and versions of HTTP, and options that are refused
Addressed(c) ==
  {[c EXCEPT !.base = base, !.server.prefix = prefix] :
     base \in {<< >>, <<"/">>, <<"/", "p">>, <<"/", "p", "/">>}, prefix \in {<< >>, <<"/", "p">>}}
  \cup {[c EXCEPT !.server.protocols = protocols, !.httpVersion = version] :
          protocols \in SUBSET {"connect", "grpc", "grpc-web"}, version \in {"1.1", "2"}}
  \cup {[c EXCEPT !.client.readMaxBytes = 0], [c EXCEPT !.server.writeMaxBytes = Unlimited + 1]}

\* Calls through a proxy, and streams without a message
Proxied(c) ==
  {[c EXCEPT !.proxied = TRUE, !.impl.failure = failure, !.impl.trailer = "x-t" :> <<4>>] :
     failure \in {<< >>, <<[is |-> "ConnectError", error |-> SimpleError("text", Code.Aborted)]>>}}
  \cup IF ReturnsOne(c.kind) THEN {} ELSE {[c EXCEPT !.impl.outputs = << >>]}
  \cup IF TakesOne(c.kind) THEN {} ELSE {[c EXCEPT !.inputs = << >>]}

\* Servers that get requests of other clients
Open(c) == {[c EXCEPT !.foreign = TRUE, !.server.protocols = protocols] :
              protocols \in {{"connect"}, {"grpc", "grpc-web", "connect"}}}

Servers == {Plain(caller) : caller \in CallersOf("node", {"connect"}, Kinds, {TRUE})}

MCCalls ==
  LET Family(F(_)) == UNION {F(Plain(caller)) : caller \in Callers}
  IN Family(Compressions) \cup Family(Limited) \cup Family(Failing) \cup Family(WithMetadata)
     \cup Family(Addressed) \cup Family(Proxied) \cup UNION {Open(server) : server \in Servers}

-----------------------------------------------------------------------------
(* Other clients, proxies, and networks                                    *)

AllTypes == DOMAIN ConnectTypes \cup DOMAIN GrpcTypes \cup DOMAIN GrpcWebTypes \cup {"text/plain"}

OneMessage == EncodeEnvelope(Envelope({}, Data(Message(2, FALSE), "proto", 2)))

Bodies ==
  {BareBody(EmptyData), BareBody(Data([is |-> "garbage"], "none", 2)),
   BareBody(Data(Message(2, FALSE), "proto", 2)), BareBody(Data(Message(2, FALSE), "json", 2)),
   EncodeEnvelopes(<< >>),
   OneMessage,
   EncodeEnvelopes(<<Envelope({}, Data(Message(2, FALSE), "proto", 2)),
                     Envelope({}, Data(Message(1, FALSE), "proto", 1))>>),
   EncodeEnvelope(Envelope({"compressed"}, Data(Message(2, FALSE), "proto", 2))),
   EncodeEnvelope(Truncated(Envelope({}, Data(Message(2, FALSE), "proto", 2)), EmptyData)),
   EncodeEnvelopes(<<Envelope({}, Data(Message(2, FALSE), "proto", 2)),
                     Envelope({"trailer"}, LinesData(<<<<"x-t", <<4>>>>>>))>>),
   EncodeEnvelopes(<<Envelope({}, Data(Message(2, FALSE), "proto", 2)),
                     Envelope({"end"}, Data([is |-> "garbage"], "none", 1))>>)}

ForeignRequest(version, method, path, header, body) ==
  [httpVersion |-> version, method |-> method, path |-> path, header |-> header, body |-> body]

MCForeign ==
  {ForeignRequest("2", "POST", <<"/", "method">>, "content-type" :> <<type>> @@ more, body) :
     type \in AllTypes, body \in Bodies,
     more \in {NoHeaders, "content-encoding" :> <<Gzip>>, "grpc-encoding" :> <<"unknown">>,
               "connect-content-encoding" :> <<"unknown">>, "content-length" :> <<1>>}}
  \cup
  {ForeignRequest(version, method, <<"/", name>>, "content-type" :> <<type>>, OneMessage) :
     version \in {"1.1", "2"}, method \in {"POST", "GET"}, name \in {"method", "other"}, type \in AllTypes}

MCReplacements ==
  {[status |-> status, header |-> "content-type" :> <<type>>, body |-> body, trailer |-> NoHeaders,
    given |-> << >>] :
      status \in {200, 503}, body \in Bodies,
      type \in {"text/html", "application/proto", "application/json", "application/grpc+proto",
                "application/connect+proto", "application/grpc-web+proto"}}

Cause(code, syscall) == [code |-> code, syscall |-> syscall]
MCReasons ==
  {[is |-> "value", message |-> "m", chain |-> << >>]}
  \cup {[is |-> is, message |-> "m", chain |-> chain] :
          is \in {"Error", "AbortError"},
          chain \in {<< >>, <<Cause("ENOTFOUND", "getaddrinfo")>>, <<Cause("ECONNRESET", "read")>>,
                     <<Cause("", ""), Cause("ERR_STREAM_DESTROYED", "")>>}}
=============================================================================
