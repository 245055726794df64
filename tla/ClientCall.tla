----------------------------- MODULE ClientCall -----------------------------
(***************************************************************************)
(* How a client makes sense of one response: the transports for Node.js    *)
(* (connect-node) and for browsers (connect-web-next), for each protocol   *)
(* and kind of method, and the promise client on top of them.              *)
(*                                                                         *)
(* The peer is any server.  Its response arrives through Framing and       *)
(* NodeClient, or the fetch API: here as whole frames.                     *)
(***************************************************************************)
EXTENDS SequencesExt, Integers

CONSTANT MaxFrames   \* bound: frames of a response

\* There is room for the one message of a unary call.
ASSUME ClientCallAssumption == MaxFrames \in Nat \ {0}

VARIABLES
  opt,       \* protocol, platform and kind of the call
  response,  \* what has arrived of the response
  pc,        \* of the transport: awaits "header", "errorBody", "body"; "settled"
  read,      \* how many frames it has read
  accepted,  \* the messages among them: given to the caller, or held for it
  ended,     \* what the EndStreamResponse, or gRPC-web trailer, said
  outcome    \* of the call

readerVars == <<pc, read, accepted, ended, outcome>>
vars == <<opt, response, readerVars>>

Kind == {"unary", "serverStreaming", "clientStreaming", "biDiStreaming"}

\* gRPC needs HTTP trailers, and streaming requests a streaming fetch(): browsers
\* have neither.
Option ==
  {o \in [protocol : {"connect", "grpc", "grpc-web"}, platform : {"node", "web"}, kind : Kind] :
     o.platform = "web" => o.protocol # "grpc" /\ o.kind \in {"unary", "serverStreaming"}}

\* "noStatus": a trailer of gRPC-web without grpc-status, in which
\* findTrailerError() finds no error.
Frame == {"message", "garbled", "ok", "noStatus", "error"}

\* "okStatus": with the header grpc-status: 0, a trailers-only response.
\* "rejected": an HTTP error, or content type, that no handler of the method sends.
\* "disguised": an HTTP error with the content type of a response.
\* trailers: the grpc-status in the HTTP trailers.
Response ==
  [status : {"none", "ok", "okStatus", "error", "rejected", "disguised"},
   frames : Seq(Frame),
   closed : {"no", "clean", "cut"},
   trailers : {"none", "ok", "error"}]

NoResponse == [status |-> "none", frames |-> << >>, closed |-> "no", trailers |-> "none"]

Outcome == {"open", "ok", "serverError", "protocolError", "lost"}

TypeOK ==
  /\ opt \in Option
  /\ response \in Response /\ Len(response.frames) <= MaxFrames
  /\ pc \in {"header", "errorBody", "body", "settled"}
  /\ read \in 0..Len(response.frames)
  /\ accepted \in Seq(1..read) /\ Len(accepted) <= MaxFrames
  /\ ended \in {"no", "ok", "noStatus", "error"}
  /\ outcome \in Outcome
  /\ pc = "settled" <=> outcome # "open"

Init ==
  /\ opt \in Option
  /\ response = NoResponse
  /\ pc = "header" /\ read = 0 /\ accepted = << >> /\ ended = "no" /\ outcome = "open"

Unary == opt.kind = "unary"

\* A Connect unary response is a bare message, or error, without envelopes.
Bare == opt.protocol = "connect" /\ Unary

\* The body says how the call ended, in its last envelope.
MarksEnd == opt.protocol # "grpc" /\ ~Bare

FoundStatus == response.status = "okStatus"

\* Streams of gRPC-web only: the unary functions ignore foundStatus.
TrailersOnly == opt.protocol = "grpc-web" /\ ~Unary /\ FoundStatus

Settle(o) == pc' = "settled" /\ outcome' = o

-----------------------------------------------------------------------------
(* The transport                                                           *)

\* validateResponse(), and findTrailerError() of the header.  A Connect error of
\* a unary method is in the body.  Connect looks at the HTTP status only if the
\* content type is not the expected one.
ReadHeader ==
  /\ pc = "header" /\ response.status # "none"
  /\ CASE response.status \in {"ok", "okStatus", "disguised"} ->
            pc' = "body" /\ UNCHANGED outcome
       [] response.status = "error" /\ Bare -> pc' = "errorBody" /\ UNCHANGED outcome
       [] response.status = "error" /\ ~Bare -> Settle("serverError")
       [] response.status = "rejected" -> Settle("protocolError")
  /\ UNCHANGED <<opt, response, read, accepted, ended>>

\* fetch(), or the client of node-universal-client, rejects.
LoseHeader ==
  /\ pc = "header" /\ response.status = "none" /\ response.closed = "cut"
  /\ Settle("lost")
  /\ UNCHANGED <<opt, response, read, accepted, ended>>

\* errorFromJson() of the whole body
ReadErrorBody ==
  /\ pc = "errorBody" /\ response.closed = "clean"
  /\ read' = 1
  /\ Settle(IF response.frames[1] = "error" THEN "serverError" ELSE "protocolError")
  /\ UNCHANGED <<opt, response, accepted, ended>>

HasFrame == pc = "body" /\ read < Len(response.frames)
Coming == response.frames[read + 1]

\* A message the stream readers do not expect after the end.  That of Connect for
\* browsers does not mind, nor do the unary functions.
AfterEnd == ended # "no" /\ ~Unary /\ ~(opt.protocol = "connect" /\ opt.platform = "web")

\* Mutant: takes any number of messages for a unary method.
ReadMessage_NotCounted ==
  /\ HasFrame /\ Coming = "message"
  /\ read' = read + 1
  /\ IF TrailersOnly \/ AfterEnd
       THEN Settle("protocolError") /\ UNCHANGED accepted
       ELSE accepted' = Append(accepted, read + 1) /\ UNCHANGED <<pc, outcome>>
  /\ UNCHANGED <<opt, response, ended>>

ReadMessage ==
  /\ HasFrame /\ Coming = "message"
  /\ read' = read + 1
  /\ IF TrailersOnly \/ AfterEnd \/ (Unary /\ accepted # << >>)
       THEN Settle("protocolError") /\ UNCHANGED accepted
       ELSE accepted' = Append(accepted, read + 1) /\ UNCHANGED <<pc, outcome>>
  /\ UNCHANGED <<opt, response, ended>>

\* The payload does not parse, does not decompress, or is too large.
ReadGarbled ==
  /\ HasFrame /\ Coming = "garbled"
  /\ read' = read + 1
  /\ Settle("protocolError")
  /\ UNCHANGED <<opt, response, accepted, ended>>

\* The reader of Connect for browsers takes several; unary functions of gRPC-web
\* look at the status only when the body ends.
ExtraEnd == ended # "no" /\ ~(opt.protocol = "connect" /\ opt.platform = "web")

ReadEnd ==
  /\ HasFrame /\ Coming \in {"ok", "noStatus", "error"}
  /\ read' = read + 1
  /\ CASE TrailersOnly \/ ExtraEnd -> Settle("protocolError") /\ UNCHANGED ended
       [] ~TrailersOnly /\ ~ExtraEnd /\ ~Unary /\ Coming = "error" ->
            Settle("serverError") /\ UNCHANGED ended
       [] OTHER -> ended' = Coming /\ UNCHANGED <<pc, outcome>>
  /\ UNCHANGED <<opt, response, accepted>>

\* Mutant: does not miss the end of the stream.
Verdict_Lenient ==
  CASE Bare -> "ok"
    [] MarksEnd /\ ended = "error" -> "serverError"
    [] opt.protocol = "grpc" /\ (Unary \/ ~FoundStatus) /\ response.trailers = "error" ->
         "serverError"
    [] OTHER -> "ok"

\* What the transport makes of the end of the body.
Verdict ==
  CASE Bare -> "ok"
    [] MarksEnd /\ ~TrailersOnly /\ ended = "no" -> "protocolError"
    [] MarksEnd /\ ended = "error" -> "serverError"
    [] opt.protocol = "grpc" /\ (Unary \/ ~FoundStatus) /\ response.trailers = "error" ->
         "serverError"
    [] OTHER -> "ok"

\* Mutant: misses the message before it looks at the status.
ReadClose_MessageFirst ==
  /\ pc = "body" /\ read = Len(response.frames) /\ response.closed = "clean"
  /\ Settle(IF opt.kind \in {"unary", "clientStreaming"} /\ accepted = << >>
              THEN "protocolError" ELSE Verdict)
  /\ UNCHANGED <<opt, response, read, accepted, ended>>

\* Unary functions, and createClientStreamingFn() on top of a stream, miss a
\* message only after the status.
ReadClose ==
  /\ pc = "body" /\ read = Len(response.frames) /\ response.closed = "clean"
  /\ Settle(IF /\ Verdict = "ok"
               /\ opt.kind \in {"unary", "clientStreaming"} /\ accepted = << >>
              THEN "protocolError" ELSE Verdict)
  /\ UNCHANGED <<opt, response, read, accepted, ended>>

\* Mutant: no error handler while a Connect error is read.
ReadCut_BodyOnly ==
  /\ pc = "body" /\ read = Len(response.frames) /\ response.closed = "cut"
  /\ Settle("lost")
  /\ UNCHANGED <<opt, response, read, accepted, ended>>

ReadCut ==
  /\ pc = "errorBody" \/ (pc = "body" /\ read = Len(response.frames))
  /\ response.closed = "cut"
  /\ Settle("lost")
  /\ UNCHANGED <<opt, response, read, accepted, ended>>

Reader ==
  \/ ReadHeader \/ LoseHeader \/ ReadErrorBody
  \/ ReadMessage \/ ReadGarbled \/ ReadEnd \/ ReadClose \/ ReadCut

\* What the caller has got: createClientStreamingFn() keeps the last message.
Received ==
  CASE opt.kind = "unary" -> IF outcome = "ok" THEN accepted ELSE << >>
    [] opt.kind = "clientStreaming" -> IF outcome = "ok" THEN <<Last(accepted)>> ELSE << >>
    [] OTHER -> accepted

-----------------------------------------------------------------------------
(* The peer                                                                *)

PeerResponds ==
  /\ response.status = "none" /\ response.closed = "no"
  /\ \E s \in {"ok", "okStatus", "error", "rejected", "disguised"} :
       /\ s = "okStatus" => opt.protocol # "connect"
       /\ s = "disguised" => opt.protocol = "connect"
       /\ response' = [response EXCEPT !.status = s]
  /\ UNCHANGED <<opt, readerVars>>

\* A bare body is one frame.
PeerSends ==
  /\ response.status # "none" /\ response.closed = "no"
  /\ Len(response.frames) < IF Bare THEN 1 ELSE MaxFrames
  /\ \E f \in Frame :
       /\ f = "noStatus" => opt.protocol = "grpc-web"
       /\ f \in {"ok", "error"} => MarksEnd \/ (Bare /\ response.status = "error" /\ f = "error")
       /\ response' = [response EXCEPT !.frames = Append(@, f)]
  /\ UNCHANGED <<opt, readerVars>>

PeerCloses ==
  /\ response.status # "none" /\ response.closed = "no"
  /\ Bare => response.frames # << >>
  /\ \E t \in {"none", "ok", "error"} :
       /\ t # "none" => opt.protocol = "grpc"
       /\ response' = [response EXCEPT !.closed = "clean", !.trailers = t]
  /\ UNCHANGED <<opt, readerVars>>

ConnectionLost ==
  /\ response.closed = "no"
  /\ response' = [response EXCEPT !.closed = "cut"]
  /\ UNCHANGED <<opt, readerVars>>

Peer == PeerResponds \/ PeerSends \/ PeerCloses \/ ConnectionLost

Next == Reader \/ Peer

Spec == Init /\ [][Next]_vars

-----------------------------------------------------------------------------
(* Properties                                                              *)

HasRead(f) == \E n \in 1..read : response.frames[n] = f
HasReadTwo(f) ==
  \E m, n \in 1..read : m < n /\ response.frames[m] = f /\ response.frames[n] = f

\* What the server said of the outcome, in all that the client read.
Declared ==
  [ok |-> \/ FoundStatus
          \/ HasRead("ok")
          \/ response.trailers = "ok"
          \/ Bare /\ response.status = "ok",
   error |-> \/ response.status = "error"
             \/ HasRead("error")
             \/ response.trailers = "error"]

\* A call succeeds only if the server declared success and no failure, with two
\* exceptions of gRPC: a response without any grpc-status succeeds, and a stream
\* with grpc-status 0 in its header does not look at its trailers; one of gRPC-web:
\* a trailer without grpc-status is a success too; and one of Connect: an HTTP
\* error with the content type of a success is taken for one.
SuccessIsDeclared ==
  outcome = "ok" =>
    /\ \/ Declared.ok
       \/ opt.protocol = "grpc"
       \/ opt.protocol = "grpc-web" /\ HasRead("noStatus")
       \/ Bare /\ response.status = "disguised"
    /\ ~Declared.error \/ (opt.protocol = "grpc" /\ ~Unary /\ FoundStatus)

\* A success is complete: the caller of a stream has every message the server
\* sent, the caller of a unary method the only one.
SuccessIsComplete ==
  outcome = "ok" =>
    /\ response.closed = "clean" /\ read = Len(response.frames)
    /\ Range(accepted) = {n \in 1..read : response.frames[n] = "message"}
    /\ \A i, j \in DOMAIN accepted : i < j => accepted[i] < accepted[j]
    /\ Unary => Len(accepted) = 1

\* A failure the server reports reaches the caller as that failure, not as a
\* violation of the protocol: an error that ends the messages, of any number,
\* of a stream, or that comes alone.
FailureIsPassedOn ==
  /\ outcome = "protocolError"
  /\ response.status = "ok" /\ ~Bare
  /\ Contains(response.frames, "error") \/ response.trailers = "error"
  => \/ HasRead("garbled") \/ HasRead("ok") \/ HasRead("noStatus") \/ HasReadTwo("error")
     \/ Unary /\ HasReadTwo("message")
=============================================================================
