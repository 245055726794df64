# connect-web in TLA+

connect-web is a TypeScript implementation of three RPC protocols (Connect,
gRPC, gRPC-web): a core of asynchronous iterables, clients for browsers and
Node.js, and servers for Node.js. Almost everything that can go wrong in it
goes wrong between two awaits, or between two parties: a reader that throws
while its source is busy, a server that answers before it has read the
request, a stream that ends within a message, a trailer that contradicts a
header. This directory models that part of the code, checks it with TLC, and
proves with TLAPS what its invariants say for every value of the constants.

Paths below are relative to `src/packages/`. `PROJECT.json` maps every
definition to the lines it stands for.

## 1. The system

| Component | State it keeps | Operations | What makes it correct | Hard behaviour |
|---|---|---|---|---|
| writable iterable, `connect-core/src/async-iterable.ts` | queue, waiting reader, error, closed | `write`, `close`, `next`, `throw` | FIFO; each producer's promise tells the fate of its payload; nothing after done | overlapping calls in any order, throw with queued or pending calls |
| pipelines, same file | abort state, next in flight, generators | `pipe`, `pipeTo`, `Abortable.abort`, transforms | an error downstream reaches the source once, and only if asked for; back pressure | abort during a next in flight, microtask order, transforms that fail |
| envelopes, `envelope.ts` and `transformSplitEnvelope` | byte buffer, header | append, peek, shift, end | the messages do not depend on the chunks | chunks that split a prefix, truncated streams, limits |
| Node.js client, `connect-node/src/private/node-universal-client.ts` | sentinel, upload, response iterable, session | connect, write, read, fail | done means complete; no failure is lost; resources are released | upload and download fail independently, early responses |
| client transports (`connect-node`, `connect-web-next`), `promise-client.ts` | what was read of the response | validate header, read messages, end and trailer | success only if declared and complete | any order of messages, ends and statuses |
| handlers, `implementation.ts`, `node-universal-handler.ts` | where the lazy pipe stands, trailers | refuse, read input, call, write, declare | the status tells the truth, once and last | failures at any point of a stream, extra messages, lost connections |
| HTTP/2 session holder, same file as the Node.js client | last session, keepOpen | connect, reuse, close | a client that keeps its session has one; its errors reach the requests on it | requests that connect side by side, sessions that are idle |
| callback client, `callback-client.ts` | abort signal | call, cancel | the end is told once, and is the true one | cancel against result, callbacks that throw |
| errors, codes, headers, serialization, compression | none | pure functions | what is said at one end is understood at the other | three protocols, each with forms of its own for the same thing |
| negotiation, `handler.ts` | none | choose a protocol, a path, a format, an encoding | a request is understood or refused | overlapping content types, foreign clients |
| legacy browser package, `connect-web` | none | the same, written anew | agrees with the servers of `connect-node` | its own copies of everything |

How they interact: a promise client calls a transport; the transport runs the
request through `pipe()` into a universal client, which lets `pipeTo()` pull
it into the HTTP request; the response iterable is pulled back through a
second `pipe()` by the caller. At the server a handler builds one lazy pipe
from request body to response body, in the middle of which
`transformInvokeImplementation()` calls user code; a loop in
`node-universal-handler.ts` pulls that pipe and writes. There are no threads:
the actors are the promises that Node.js, the network, user code and the
microtask queue settle, in orders nobody chooses.

`PROJECT.json` lists every component with its status and, under "hazards",
what in this code is hard to test, each at its line with the properties that
would catch it.

## 2. The modules

| Module | Models | Correspondence |
|---|---|---|
| `RendezvousChannel` | abstract | what a writable iterable promises: what was taken on, what was handed over, what each producer was told |
| `WritableIterable` | `createWritableIterable()` | `queue`, `queueResolve`, `error`, `closed` are the variables of the closure; `sent` and `read` are the promises it returns; `accepted` and `handed` are histories. Each method runs without an await, so each is one action |
| `Pipeline` | `pipe()`, `pipeTo()`, `makeIterableAbortable()` | `inFlight` is `resultPromise`, `abort` the promise of `abort()`, `gen` the generator of `pipe()`, `chain` the transforms, `src` the source's iterator, `result` the promise of `pipeTo()`. An action is what runs between two awaits |
| `NodeClient` | one request of `createNodeHttp1Client` or `createNodeHttp2Client` | `sentinel`, `upload` (the promise of `pipeTo()`), `sink` (the loop of `sinkRequest()`), `reader` (the response iterable); events of Node.js are actions |
| `Framing` | abstract | reading enveloped messages from bytes, whatever the chunks |
| `EnvelopeReaders` | `transformSplitEnvelope()`, `createEnvelopeReadableStream()` | the buffer is an interval of positions of the stream; `header` is the one `pull()` remembers |
| `ClientCall` | the response readers of five transports and the promise client | `pc` is what the transport awaits; frames are messages, ends, or garbled |
| `ServerCall` | three handlers, `transformInvokeImplementation()`, `universalResponseToNodeResponse()` | `pc` is where the lazy pipe stands; `failure` is what the catching transform is given |
| `Rpc` | abstract | what a call promises its caller |
| `Call` | `ClientCall` and `ServerCall` over a connection that may be lost | both are instantiated, sharing request and response |
| `Codes` | `code.ts`, both `http-status.ts`, the legacy `code.ts` | tables are functions |
| `Metadata` | `http-headers.ts`, `trailer-mux.ts`, `trailer.ts`, `node-universal-header.ts` | a `Headers` object is a function from fields to the values that were appended |
| `ConnectErrors` | `connect-error.ts`, `error-json.ts`, `end-stream.ts`, `trailer-status.ts`, `node-error.ts`, the legacy `connect-error.ts` | an operation that can throw returns a value or raises an error (`Return`, `Raise`, `Then`) |
| `Payloads` | `serialization.ts`, `compression.ts`, `envelope.ts`, the transforms and `readAllBytes()` of `async-iterable.ts` | a stream is its items and the errors it ends with, none or one; a transform is an operator on streams |
| `ProtocolHeaders` | `content-type.ts`, `create-request-header.ts`, `parse-timeout.ts`, `validate-response.ts` of the protocols | what is written to a header and concluded from it |
| `Transports` | the requests of seven transports, `interceptor.ts`, `create-method-url.ts` | one operator for each transport and kind of call |
| `Responses` | what the same transports make of a response | one operator for each; `Answer` is what the caller gets |
| `Handlers` | `handler.ts`, `implementation.ts`, three handlers, `node-universal-handler.ts` | from a request to a response, with what the implementation was given |
| `Exchange` | a request, its way to a handler, and the answer | each party's part is one action; the interleaving within is that of `Call` |
| `H2Sessions` | `createNodeHttp2Client()` with several requests | `lastSession` is the holder's; a session is named for the request that connects it |
| `CallbackClient` | `callback-client.ts`, over `H2Sessions` | `run` is where the promise chain stands, `events` the callbacks of the user |
| `AsyncIterable_proofs`, `NodeClient_proofs`, `ServerCall_proofs`, `ClientCall_proofs`, `Call_proofs`, `CallbackClient_proofs`, `EnvelopeReaders_proofs`, `Exchange_proofs` | - | the theorems about a module, with its inductive invariant (section 4); `AsyncIterable_proofs` is about `WritableIterable` and `Pipeline` |
| `MCWritableIterable`, `MCExchange`, `MCCallbackClient` | - | model values and inputs; the other modules have only numbers as constants and are checked directly |

Compositions and refinements: `WritableIterable` implements
`RendezvousChannel`, `EnvelopeReaders` implements `Framing` (with the one
exception below), `Call` composes `ServerCall` and `ClientCall` and implements
`Rpc`. `Exchange` composes `Handlers`, `Transports` and `Responses`, which build
on the modules of data; `CallbackClient` extends `H2Sessions`. `NodeClient`
takes from `Pipeline` how a body that `pipe()` made reacts to an abort, and `ServerCall` and `ClientCall` take from it that a pipe is
lazy and from `Framing` that frames arrive whole. `Exchange` takes from `Call`
that the parts of a call, interleaved in any order, amount to a request, a
response, and what is read of it.

The process modules have the control of the code and leave out what is in a
message, the data modules have what is in it and leave out the interleaving:
`ClientCall` asks when a response is a success, `Responses` with which header,
trailer and error.

A process module has a type invariant `TypeOK` (in `WritableIterable`
`WritableTypeOK`: one module of proofs extends it and `Pipeline`). The runs spend their properties
on more than that; adding `INVARIANT TypeOK` to a configuration checks it, and
for all of them it is proved.

Operators named `X_Something` that stand before a definition `X`, under a comment
that starts with "Mutant", are plausible bugs of that code. They are not
part of the specifications: with `X` replaced by one of them, the property
that `PROJECT.json` names for it is violated, which shows that the property
depends on what the code does.

## 3. The runs

| Run | Bounds | Shows |
|---|---|---|
| `writable` | 3 writes, a close, 5 reads; any consumer and one that awaits each `next()` | FIFO, truthful promises, refinement of `RendezvousChannel`; with the second consumer every write is answered, no read is orphaned but one that the consumer's own `throw()` met, and the reader comes to an end |
| `pipeline` | 3 chunks, 5 kinds of source, both options, `pipe` and `pipeTo` | errors downstream reach the source, once and for a reason; back pressure; calls settle |
| `node_client` | 2 chunks each way, HTTP/1 and HTTP/2, both session options | done means complete, unless the stream is reset without an error; failures are seen and end the upload |
| `envelopes` | 3 messages of length 0 to 2, every cut, every chunking, every limit | both readers read what was framed, and end |
| `client_call` | 4 frames | success only if declared and complete; an error of the server is passed on |
| `server_call` | 2 request frames, 2 messages | the status tells the truth; exactly one input where one is due; every call is answered |
| `call` | 2 messages each way | the two peers refine `Rpc`, the client finds no fault with the server's responses, and the call comes to an end |
| `exchange` | the families of `MCExchange`: compression, limits, errors, metadata, addresses, proxies, foreign requests, for each of 38 callers | what is sent arrives, and in order even if the call fails; errors survive; limits hold; what a proxy made up, or cut after any byte, is not a success; what is not understood is refused |
| `callbacks` | 2 requests, 1 message, two callbacks that may throw, an error that the server declares (`Faults`) | one session is kept, its errors reach its requests, it is given back; the user hears of the end once, and the truth |
| `node_client_violation`, `envelopes_violation`, `exchange_violation` | as above or smaller | three places where the code does not do what a comment or a type says (section 6) |

Why the bounds are enough. The behaviour of a writable iterable depends on
whether its queue is empty, and on the order of two payloads: three writes and
a close give a queue of several elements behind a waiting reader, more reads
than payloads make readers wait. A pipeline holds at most one chunk, and
`pipe()` is in the same state after each: with three chunks every state of
abort is reached before the first, between two, and after the last. An envelope
reader forgets a message when it has shifted it; three messages with lengths
that include 0 put every boundary inside a chunk, at its edge, and across
chunks. A response reader remembers whether it has seen a message and an end:
four frames allow any two of both and something after them. What of an exchange
depends on a size depends on whether it is above one limit or two, before and
after compression: messages of 0 to 3 bytes, one of which `Zipped` makes longer
and one shorter, give every order of size, compressed size and limit
(`Unlimited` stands for 0xffffffff). Its families vary together what the code
reads together, and everything else is as in `Plain`; their product would repeat
the same paths. Two requests are enough for a session to be shared, reused,
overtaken, or idle; the callbacks that may throw are one that is called before
the end and one that is the end, the other callbacks being called at the same
places. `Faults` has only the code Canceled in the run: it is both of what is
told apart, an error of the user's own cancellation if there was one, and any
other error if there was none. An error of another code that the server declares on a
call that was canceled is left to the theorems, which hold for any `Faults`.

A connection that is cut leaves the first bytes of a body (`CutBodies`). Which ones
the readers can tell apart: whole envelopes are lost; of an envelope there is part
of the payload (`PartsOf`), no bytes included; a bare body is shorter. A part of a message
is garbage, or a shorter message where the format is binary; part of a JSON object is
garbage; of a trailer there are its first lines, and a line that is cut is taken
for lost. A cut within the five bytes of an envelope's header is an error to both readers
(`EnvelopeReaders` has it), and is left out here. A bare body that is read as envelopes
fails; one that is long enough to be read as a header stands for an envelope that
promises more than there is, which is among the others. A response that has
grpc-status in its header has no body to cut.

`ElevenDigits` stands for 10000000000, the least timeout that is too long for
Connect. TLC has integers of 32 bits, so that it is 1000000000 in the run; the
theorem holds for any value.

Deadlock is not checked where a call, a pipeline or a stream comes to an end,
which is the purpose of all of them; that they do come to an end is stated as
liveness instead.

### Fairness

- `WritableIterable`: the consumer pulls while it may (the loops of `pipe()`,
  `sinkRequest()` and the handlers do), the producer closes in the end. Nothing
  is assumed of `throw()`, and it may come while a read pends, as a transform that
pulls again makes it come.
- `Pipeline`: reactions are microtasks and always run. The source is assumed
  to settle each call it gets; the sink settles once its input has ended or
  failed. The consumer need not call anything.
- `NodeClient`: Node.js connects or fails, calls the callbacks of writes, the
  server responds and finishes, the body settles each `next()`, the reader
  keeps reading unless it leaves. No error, reset or close is assumed to come,
with an error event or without.
  Callbacks of an HTTP/1 request whose response is over are not assumed either.
- `EnvelopeReaders`: the source delivers all its bytes and ends, with any
  number of empty chunks between; strong fairness, since scanning alternates
  with reading.
- `CallbackClient`: a connection is made or fails, the server answers and comes
  to an end, a stream that is aborted or on a failed session fails, promises that
  have settled are handled (`Progress`, one fairness for all of these together, since
  an error that is declared may come in the place of each). Nobody has to cancel, no
  session has to fail, and no error has to be declared.
- `Exchange` needs none: it has no liveness.
- `ServerCall`, `Call`: the server runs, the implementation comes to an end
  when nothing else is left, the client ends its request or the connection is
  lost. Compression errors, write errors and losses may come and need not.

## 4. What is proved

Each proof module states the inductive invariant of its model as a conjunction
of named parts (`IInv`; `IndInv` for `WritableIterable`, `PipelineInv` for
`Pipeline`, `Inv` for `Exchange`), proves `Invariance == Spec => []IInv` with a
step for each action, and derives the rest from it.

| Module | Theorem | States |
|---|---|---|
| `AsyncIterable_proofs` | `NoReaderBesideQueue`, `DeliveredInOrder`, `PromisesTellTheTruth` | the safety invariants of the run `writable`, for any consumer |
| | `NothingAfterDone` | done is the last payload that is accepted |
| | `ReaderIsRemembered` | `NoOrphanRead`, for a consumer that awaits each `next()`, whenever it throws |
| | `ThrowEndsTheStream` | the action property `ThrowIsFinal` (no run checks it, the theorem does) |
| | `Implementation` | `WritableIterable` implements `RendezvousChannel` |
| | `DownstreamErrorIsPropagated`, `SourceIsToldOnce`, `SourceIsPulled` | the safety invariants of the run `pipeline` |
| | `AbortIsFinal` | the answer of `abort()` does not change |
| `NodeClient_proofs` | `EndOfResponse`, `RejectionStopsTheUpload` | `DoneMeansComplete`, and the action property `NoPullAfterRejection` (no run checks it, the theorem does) |
| | `FailedUploadEndsTheBody` | what safety there is in `FailureEndsUpload`: an upload rejects only for a rejected sentinel, with the body told or over |
| `ServerCall_proofs` | `StatusIsTrue`, `OneInputIsTaken`, `EverythingIsWritten` | the safety invariants of the run `server_call` |
| `ClientCall_proofs` | `SuccessWasDeclared`, `SuccessHasAll`, `FailureArrives` | those of the run `client_call` |
| `Call_proofs` | `Implementation` | `Call` implements `Rpc` |
| | `PeersUnderstand` | `NoFalseAlarm`: a server of this repository gives its client no reason to report a violation of the protocol, but by a refusal |
| `CallbackClient_proofs` | `OneSessionIsKept`, `CallsCloseOnce`, `CallbacksTellTheTruth` | the safety invariants of the run `callbacks` |
| | `SessionErrorsArrive` | the action property `ErrorReachesItsRequests` |
| `EnvelopeReaders_proofs` | `ReadersImplementFraming` | `ReadsTheFrames`: `EnvelopeReaders` implements `Framing`, but for a stream that ends within a payload |
| | `ErrorsAreExplained` | `ErrorIsExplained`, the safety in `ReadingEnds` |
| | `WholeMessages` | `transformSplitEnvelope()` yields nothing but whole messages, within the limit, in order |
| `Exchange_proofs` | `DeadlineIsReadAsSent`, `NothingExceedsALimit`, `CutResponsesAreFailures`, `RequestsAreUnderstood` | `DeadlineIsUnderstood`, `LimitsHold`, `NoForgedSuccess` and `UnderstoodOrRefused`, of the run `exchange` |
| | `MessagesArriveInOrder` | `MessagesArrive`, of the same run: both sides get a beginning of what the other has sent |
| | `CodesArrive` | `codeFromString()` is the inverse of `codeToString()`, in both packages |
| | `ErrorsArriveAsJson`, `ErrorsArriveAtTheEnd`, `ErrorsArriveInTrailers` | an error is read with the code, message and details it was written with, in each of the three forms it takes, for both packages; the exception is a detail with scalar JSON (section 6), in the forms that have JSON |

`TypeCorrect` (in `AsyncIterable_proofs` `WritableTypeCorrect` and
`PipelineTypeCorrect`, as for `Invariance`) is type correctness; in
`Call_proofs` it is a part of `IInv`, and in `Exchange_proofs` what is needed of
types is a part of `Inv`. The theorems hold for any sets of writes, reads and
requests, any number of chunks, frames and messages, and messages of any length;
those of `Exchange_proofs` for any headers, limits, encodings and sizes as well,
for all of the transports and handlers, and for whatever other clients and
proxies send.

### The arguments

`WritableIterable`. `InOrder` (what was accepted is what was handed over
followed by the queue) is not inductive: to know that a payload which is shifted
resolves the right promise, and only that, one needs that the queue holds no
call twice (`QueuedOnce`) and that pending promises are exactly the queued calls
(`SentTellsTheTruth`); that no step accepts after done needs that done is not
sent before close (`UnclosedHasNoDone`); and after throw the invariant falls
back on the empty queue (`ThrowEmptiesQueue`). `NoOrphanRead` needs the
discipline of the consumer and is proved by a second induction on top: a read
pends alone, so that it is the one that is remembered, also past a `throw()` that
comes while a transform has called `next()` again. The
refinement maps each action to `Offer`, `Rendezvous`, `Take`, `TurnAway` or
`Break`, or to a stutter (a reader that begins to wait).

`Pipeline`. That a settled `throw()` has reached the source depends on what
each party waits for: `SourceInv` says what a source in each state has in
flight, `DemandInv` for whom the chain of transforms waits, `ReasonInv` on whose
behalf `abort()` was called and how often it told the source, `AbortInv` where
the call of `throw()` is while the abort lasts (with the source, or queued
behind a `next()`).

`NodeClient`. `ConnInv` orders the stages (nothing streams before a connection,
nothing is read before a response), `EndInv` is what a reader that has met the
end knows - all data, or a stream that was reset with no error (`ReadReset`) -, `UploadInv` ties the loop of `sinkRequest()` to the body it pulls.

`ServerCall`. What a response declares is true because of what each stage of
the lazy pipe has and has not seen. `PhaseInv` says what the loop has in hand,
`OutputInv` how many messages there are before, during and after the
implementation, `FramesInv` that the frames are those messages (less the one in
hand, and the one that failed to serialize) up to the verdict, `DeclaredInv`
what status and trailers say once it is over. `InputInv` is the reason for
`OneInput`: of what was read, nothing but ends of stream comes before the
message, and nothing else after it, until the request has ended.

`ClientCall`. The peer is any server, so `ResponseInv` says only what the
protocols let it put where. `ReaderInv` has that what was accepted is what was
read of messages, in order; `EndInv` that `ended` remembers the end that was
read, a gRPC-web trailer without a status (`noStatus`) included; `SuccessInv` and `FailureInv` keep, past the step that settles, why it
settled so.

`Call`. The client's side of the invariant (`ClientInv`) says that it has
accepted as many messages as it has read frames before the end; the server's
side (`CountInv`, `FramesInv`, `StatusInv`) that the n-th frame is the n-th
message, that a frame, status or trailer with the outcome comes after all of
them and is true, and that only a lost connection makes the response shorter
than that; `VerdictInv` that a response which is not cut ends with the verdict,
where the protocol has a frame for it. Together they give `delivered < yielded` when a message is read, and
`delivered = yielded` when success is (`SuccessIsJust`). The refinement maps
`ImplYields` to `Yield`, the step of the server at which its fate is sealed to
`Finish` (a failure of any kind, a refusal, or the way to `final`), the client's
steps to `Deliver`, `Succeed`, `Report` and `Lose`, and everything else to a
stutter, the loss of the connection included: the caller does not know of it
yet. The model leaves aside a rejection without a reason where the protocol
marks the end; it breaks the promise of `Rpc`, see section 6.

`CallbackClient`. The invariant of the sessions (`SessionInv`) is proved for
every step of a session, whoever makes it (`SessionStep`), and used for the
steps of the callback client and of the other clients. Its core is
`ListenerInv`: as long as a request is open, it listens to exactly the session
it is on, or connects. `RunInv` says what has been called, and what has thrown,
at each point of the promise chain, and that it has raised an error only for a
request that was rejected or for one that is declared on a sound one (`fault`).

`EnvelopeReaders`. The buffer of a reader is an interval of positions. `PlaceInv`
says that it starts where an envelope does (`Whole`), or that a truncated payload
has been passed on and the buffer is empty (`Truncated`); `HeaderInv` that the
header that is remembered is that of the envelope at the front. Then a scan that
finds an envelope in the buffer is an `Emit` of `Framing`, and one that does not a
stutter. What this needs of the positions - each envelope starts behind the one
before it, and between two starts there is all of an envelope (`StartsStepwise`,
`StartsGrow`) - is proved by induction over the number of the envelope. The
induction is over a set of numbers (`SetInduction`, from the well-foundedness of
`<`): the induction rules of the library are about a predicate, which the provers
cannot instantiate. It also shows that the recursive function behind `Start`
exists (`StartsExists`).

`Exchange`. Each action is a whole program of pure operations, so the induction
over steps is short and the lemmas are many. `RequestInv` says that a request has
the timeout of its call and a body of data, `ResponseInv` that a response is what
a server has made (`Served`: what the implementation was given is within the
limit, what is sent in envelopes is within the other one, and there is one end,
the last of them), or what a proxy has left of it (`Tampered`: there is no end that
is whole and tells a status),
`AnswerInv` that an answer is within the limit of the client.
Timeouts: that no other field is written to that of the timeout goes through each
step of `createRequestHeader()` and of the transports (`ConnectTimed`, `GrpcTimed`,
`StaysTimed`, and a lemma for each transport). What is read is the same number up to
nine digits in gRPC and eleven in Connect, from where it is an error.
Limits: a lemma for each transform says what it keeps of its items
(`DecompressedItems`, `ParsedItems`, `SerializedItems`, ...), and the pipes of
handlers and transports compose them. The point at which it could fail is
`Decompress`, after which data may be larger than before: `Within` says of data
that it fits if it is not compressed, and holds again after each step that looks
at the limit.
Forged success: a server ends a response once and last (`EndsOnce`), so that what
`CutBodies` leaves has no whole end (`CutShort`), and part of an end stream message is no
JSON (`NoJson`); then each transport for a protocol that
declares its end misses it (`Unended`, `Unfinished`, `EndIsMissed`,
`TrailerIsMissed`), unless something else was an error before. What is left are the
four cases of `IsTakenForWhole`, among them a trailer that tells no status
(`Trailerless` is the body that has none).
Understood or refused: a handler that cannot read the encoding of a request puts the
error before its input (`NothingIsRead`), so that an implementation sees no message
(`NothingIsInvoked`), and each handler tells the error where its protocol does
(`ConnectUnaryRefuses`, `ConnectStreamRefuses`, `GrpcRefuses`, `GrpcWebRefuses`), in
a form that a client reads as an error: its code has a string that is read as a code
(`CodeIsRead`, `EndStreamTells`), its status is none that means success
(`StatusOfError`, `StatusTells`), and the trailer of gRPC-web, a line for each
field, is parsed to the same fields (`TrailerArrives`). The handler that is found
for a request is the right one (`NegotiationSorts`). `ForeignInv` is what a server
has before it when it answers.
`Selected`, the filter of the streams, is a recursive function, and that it exists,
keeps the order and loses nothing (`SelectionExists`, `SelectedElements`) is proved
by induction over a set of numbers, as for `EnvelopeReaders`; so is what `TrailerParse`
makes of lines (`ParsingExists`, `ParsedTrailer`).
Messages in order: `ArrivalInv` is proved by a second induction, on top of `Inv`. It
says that the n-th item of a body bears the n-th message its sender was given, until
something fails (`Asked` of a request, `Passed` of a response), in whatever form it is:
serialized, compressed, in an envelope. Each transform keeps this, or ends, and the data
of a message is read as that message (`Bears`) or not at all (`Unreadable`). The end of a stream is no message: it comes last and is
flagged (`WithEnd`), so that no transport takes one for the other. A handler gives an
implementation what it read (`Passes`), and each of the transports what is left of its
outputs.
Errors: what a reader shows of an error depends on its code, message and details only
(`SaysOf`). Each form of an error is written from these three and metadata
(`ErrorWritten`, `DetailsWritten`), and reading it needs that no two codes have the same
name (`CodesDiffer`).

Before a proof, TLC checked each `IInv` on the instance of the run; for
`ServerCall`, `ClientCall` and `Call` also that it is inductive, by starting
from all states that satisfy it with one message each way, or two frames.

### Assumptions

`WritableAssumption`: `Done` is no write and `None` is no read. The bounds are
natural numbers (`PipelineAssumption`, `NodeClientAssumption`); those of
`ServerCall` and `ClientCall` leave room for the one message of a unary call,
since they are limits of the model and not of the code. For `CallbackClient`
that `None` is no request, and `Mine` is one, `Throwing` are callbacks and `Faults` codes. `EnvelopeAssumption`: the bounds of
the messages are natural numbers. `CallsAssumption`: a call is one of a transport that exists; its
timeout is not set a second time among its headers; an implementation of a unary
or client-streaming method returns a message or fails, leaves it to the
handler to write grpc-status and grpc-status-details-bin, and sets finitely many
trailers; what callers and implementations send are messages; a method that takes one
message is called with one, and the legacy package has no other; the compressions of a
server are a list. The theorems about errors assume of an error what the code gives it
(`IsError`): a code of the table, a message that is a string, and details with a type and
a value that are strings. `WireAssumption`: what others
send has bodies of data, and headers with lists of values, and a proxy that makes up a response ends it in none of the ways of the
protocols (one that can is a server, and its success is a success): at most with a trailer that
has no status, part of one, or bytes that are no end stream message.
`DigitsAssumption`: `ElevenDigits` is a natural number.
`FieldAssumption`: the names of the fields that tell the type and the encoding of a
request do not begin with a colon, for the provers know of a string only whether it
equals another one. `PayloadAssumption`: compression makes of a size another one.
TLC evaluates all of them in the runs. `Call_proofs` assumes nothing.

### Only model-checked

- All liveness: `CallsSettle`, `FailureEndsUpload`, `FailureIsSeen`,
  `ResponseSettles`, `ReadingEnds`, `CallIsAnswered`, `CallSettles`,
  `SessionsAreReleased`, `CallsAreAnswered`, `WriteSettles`,
  `ReaderComesToAnEnd`. The prover has no rule for fairness.
- `Fidelity` and `ErrorSurvives` of `Exchange`, as a whole: that headers and trailers
  arrive rests, for `TrailerMux`, on prefixes of strings, which have no structure for
  the provers. The parts that do not are proved: the order of messages
  (`MessagesArriveInOrder`), and the three conversions of errors there and back
  (`ErrorsArriveAsJson`, `ErrorsArriveAtTheEnd`, `ErrorsArriveInTrailers`).

## 5. What is not modelled

- Protobuf, JSON and base64 themselves, zlib, regular expressions and URLs: a
  payload parses in the format it was serialized in and in no other, a content
  type is one of those the expressions tell apart, a path is a prefix and a
  method.
- Timeouts as time: nothing in this code enforces a deadline. The server has
  `parseTimeout()` but no handler calls it; `DeadlineIsUnderstood` is about what
  the client writes and what that function would read.
- The promise client and callback client of the legacy package, whose unary and
  server-streaming calls are those of `connect-core` but for how a stream is
  read; that a caller of a legacy transport reads a stream step by step, and that
  `read()` sets the trailer before it throws the error in it.
- The parts of `handler.ts` and `universal.ts` that hand on addresses, TLS, and
  the `Connection` header; `any-client.ts`, `transport-stub.ts`, and
  `transformAppend()`, which is exported and used by nothing.
- The code generator, the examples, the benchmark and the test programs.
- Node.js, browsers, the network: modelled as far as the code depends on them,
  as actions that may happen in any order. In particular a for-await loop that
  is left calls neither `return()` nor `throw()` in the code that is built
  (`async-iterable.spec.ts`, "should leave source dangling").
- That `write()` of `private/io.ts` can wait forever when a stream closes
  without an error: `WriteFails` in `ServerCall` is possible there, never
  promised.
- A stream that is reset without an error is in `NodeClient` only: in `H2Sessions` and
  `CallbackClient` a stream that fails reports an error, as an aborted signal does
  (an AbortError).

## 6. Where code and comments disagree

1. `sinkRequest()` wants to notify the request body when the server closes
   early. It notifies the generator that `pipeTo()` has put in between, which
   tells nobody; the body stays suspended (`node_client_violation`).
2. `createEnvelopeReadableStream()` passes on a truncated payload as a message
   if the stream ends within it; `transformSplitEnvelope()` raises an error
   (`envelopes_violation`).
3. `errorFromJson()` refuses a detail whose "debug" is a string, a number or a
   boolean, as `errorToJson()` writes it for a Timestamp, a Duration or a
   wrapper: the error is replaced by one of parsing (`exchange_violation`).

The properties state the following as it is. A comment may promise more, but
they describe no more than what the code does.

- `PipeOptions` promises that the consumer of `pipe()` can abort the source by
  `throw()`. After a transform has failed it cannot: the generator is over
  (`DownstreamErrorReachesSource`).
- `validateResponse()` of Connect accepts an HTTP error status if the content
  type is the expected one (`SuccessIsDeclared`, `NoForgedSuccess`).
- An implementation that rejects without a reason is declared a success by
  Connect streams and gRPC-web (`StatusTellsTheTruth`).
- A gRPC response without any grpc-status succeeds, and a gRPC stream with
  grpc-status 0 in its header ignores its trailers (`SuccessIsDeclared`,
  `NoForgedSuccess`). The legacy gRPC-web transport misses no trailer in a stream
  without a message.
- A gRPC-web trailer without grpc-status is a success to every client
  (`SuccessIsDeclared`, `NoForgedSuccess`), and those for browsers take part of a
  trailer for all of it, since `createEnvelopeReadableStream()` passes on what is
  truncated (`NoForgedSuccess`).
- A request on a socket that was kept alive hangs (`ResponseSettles`). So does one
  over HTTP/2 whose stream is reset with NO_ERROR or CANCEL, or closed with its
  session, before the headers: Node.js tells of this with "aborted" and "close", and
  `h2Request()` listens for "abort". After the headers, such a response body reads as
  one that is complete (`DoneMeansComplete`).
- `throw()` on a writable iterable leaves a pending `next()` pending for good, and
  `abort()` waits only for the `next()` that was in flight when it was called: a
  transform that has called `next()` again loses that one (`NoOrphanRead`,
  `ReaderComesToAnEnd`).
- An error that is relayed with the metadata of another response overwrites the
  content type and encoding of a Connect unary error (`Overwrites`). gRPC and
  gRPC-web do not send the metadata of an error.
- Headers that are set after the first message of a stream are lost
  (`Fidelity`).
- The unary Connect client ignores `writeMaxBytes` (`LimitsHold`).
- A timeout of more than eight digits in gRPC, or ten in Connect, is written and
  refused when it is read (`DeadlineIsUnderstood`).
- A server answers in the encoding of the request if the client accepts none: a
  client that sends compressed and accepts nothing refuses the answer
  (`Deliverable`).
- Two requests that connect side by side leave a session that is open and
  forgotten (`overtaken` in `KeepsOneSession`); an error on an idle session is
  uncaught (`ErrorReachesItsRequests`); the promise that `sentinel.finally()`
  returns has no handler.
- A callback of a unary call that throws keeps the callbacks after it from being
  called, and nobody hears of it but the process; a streaming call calls
  `onClose` a second time if it throws (`ClosesOnce`, `CallsAreAnswered`).

## 7. Plan

Done, in this order: `WritableIterable` with `RendezvousChannel` and its
proofs, `Pipeline`, `NodeClient`, `Framing` and `EnvelopeReaders`,
`ClientCall`, `ServerCall`, `Call` with `Rpc`; then the data modules from
`Codes` to `Handlers`, `Exchange`, `H2Sessions` and `CallbackClient`.

Then the proofs: `Pipeline`, `NodeClient`, `ServerCall`, `ClientCall`,
`CallbackClient` with `H2Sessions`, the refinement of `Rpc` by `Call` and that of
`Framing` by `EnvelopeReaders`. Every safety invariant and action property of a
process module that a run checks is a theorem, and so are five of the seven of
`Exchange`.

Next: that a success has all the messages and not only a beginning of them, as a
theorem (it is a part of `Fidelity`); a refinement of an abstract sentinel by `NodeClient`.

## 8. Running

In this directory: `tlc -config MCPipeline.cfg Pipeline.tla` checks a run
(`PROJECT.json` pairs modules and configurations), `tlapm
AsyncIterable_proofs.tla` checks the proofs of a module.
