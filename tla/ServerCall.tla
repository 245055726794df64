----------------------------- MODULE ServerCall -----------------------------
(***************************************************************************)
(* One call at the server: a handler of connect-node (connect-handler.ts,  *)
(* grpc-handler.ts, grpc-web-handler.ts), the user's implementation that   *)
(* transformInvokeImplementation() calls, and the loop of                  *)
(* universalResponseToNodeResponse() that pulls the response through the   *)
(* handler's pipe() and writes it.                                         *)
(*                                                                         *)
(* The pipe is lazy: only the loop, and the implementation by reading its  *)
(* input, make it move.  Of its transforms, the ones that catch errors and *)
(* the one that calls the implementation are steps here; Pipeline has how  *)
(* they hand each other elements.                                          *)
(***************************************************************************)
EXTENDS SequencesExt, Integers

CONSTANTS
  MaxIn,    \* bound: frames of the request
  MaxOut    \* bound: messages of the implementation

\* There is room for the one message of a unary call.
ASSUME ServerCallAssumption == MaxIn \in Nat \ {0} /\ MaxOut \in Nat \ {0}

VARIABLES
  opt,        \* protocol and kind of the call, and what its header asks for
  request,    \* what has arrived of the request
  pulled,     \* how many frames of it were read; -1: the reader has failed
  inputs,     \* how many messages the implementation was given
  pc,
  outputs,    \* how many messages the implementation has produced
  frame,      \* what the loop is writing
  failure,    \* what was raised; "undefined": a rejection without a reason
  response

vars == <<opt, request, pulled, inputs, pc, outputs, frame, failure, response>>

\* "refused": a content type or method for which there is an HTTP status.
\* "badEncoding": compressionNegotiate() returns an error.
Option ==
  [protocol : {"connect", "grpc", "grpc-web"},
   kind : {"unary", "serverStreaming", "clientStreaming", "biDiStreaming"},
   accept : {"yes", "refused", "badEncoding"}]

PC == {"handle", "input1", "impl", "write", "input2", "final", "close", "ended", "broken"}

TypeOK ==
  /\ opt \in Option
  /\ request \in [frames : Seq({"message", "garbled", "end"}), closed : {"no", "clean", "cut"}]
  /\ Len(request.frames) <= MaxIn
  /\ pulled \in -1..Len(request.frames)
  /\ inputs \in 0..Len(request.frames)
  /\ pc \in PC
  /\ outputs \in 0..MaxOut
  /\ frame \in {"none", "message", "ok", "error"}
  /\ failure \in {"none", "error", "undefined"}
  /\ response \in [status : {"none", "ok", "error", "rejected"},
                   frames : Seq({"message", "ok", "error"}),
                   closed : {"no", "clean", "cut"},
                   trailers : {"none", "ok", "error"}]
  /\ Len(response.frames) <= MaxOut + 1

NoRequest == [frames |-> << >>, closed |-> "no"]
NoResponse == [status |-> "none", frames |-> << >>, closed |-> "no", trailers |-> "none"]

Init ==
  /\ opt \in Option
  /\ request = NoRequest
  /\ pulled = 0 /\ inputs = 0 /\ pc = "handle" /\ outputs = 0
  /\ frame = "none" /\ failure = "none"
  /\ response = NoResponse

TakesOne == opt.kind \in {"unary", "serverStreaming"}
ReturnsOne == opt.kind \in {"unary", "clientStreaming"}

\* Connect unary: pipeTo() collects the response before any of it is written.
Bare == opt.protocol = "connect" /\ opt.kind = "unary"

MarksEnd == opt.protocol # "grpc" /\ ~Bare

-----------------------------------------------------------------------------
(* The handler, up to the first pull                                       *)

Handle ==
  /\ pc = "handle"
  /\ \/ /\ opt.accept = "refused" /\ response.closed = "no"
        /\ pc' = "ended"
        /\ response' = [response EXCEPT !.status = "rejected", !.closed = "clean"]
     \/ /\ opt.accept # "refused"
        /\ pc' = IF TakesOne THEN "input1" ELSE "impl"
        /\ UNCHANGED response
  /\ UNCHANGED <<opt, request, pulled, inputs, outputs, frame, failure>>

-----------------------------------------------------------------------------
(* Reading the request: transformPrepend() raises the compression error,   *)
(* transformSplitEnvelope() and the next two transforms reject what does   *)
(* not parse, and skip the end of a stream.                                *)

NextFrame == request.frames[pulled + 1]
\* transformReadAllBytes() gives a bare request when it has ended.
HasFrame ==
  /\ pulled # -1 /\ opt.accept = "yes" /\ pulled < Len(request.frames)
  /\ Bare => request.closed = "clean"
ReadAll == pulled = Len(request.frames)

GivesMessage == HasFrame /\ NextFrame = "message"
GivesError ==
  \/ pulled # -1 /\ opt.accept = "badEncoding"
  \/ HasFrame /\ NextFrame = "garbled"
  \/ pulled # -1 /\ (ReadAll \/ Bare) /\ request.closed = "cut"
\* A generator that has thrown is done.
GivesEnd == pulled = -1 \/ (opt.accept = "yes" /\ ReadAll /\ request.closed = "clean")

SkipEnd ==
  /\ pc \in {"input1", "impl", "input2"}
  /\ HasFrame /\ NextFrame = "end"
  /\ pulled' = pulled + 1
  /\ UNCHANGED <<opt, request, inputs, pc, outputs, frame, failure, response>>

Fail(reason) == failure' = reason /\ pc' = "final"

\* Mutant: waits for a message that the client does not send.
Input1_Waits ==
  /\ pc = "input1"
  /\ \/ GivesMessage /\ pulled' = pulled + 1 /\ inputs' = 1 /\ pc' = "impl" /\ UNCHANGED failure
     \/ GivesError /\ pulled' = -1 /\ Fail("error") /\ UNCHANGED inputs
  /\ UNCHANGED <<opt, request, outputs, frame, response>>

\* The one message of a unary or server-streaming method, without which the
\* implementation is not called.
Input1 ==
  /\ pc = "input1"
  /\ \/ /\ GivesMessage
        /\ pulled' = pulled + 1 /\ inputs' = 1 /\ pc' = "impl" /\ UNCHANGED failure
     \/ GivesError /\ pulled' = -1 /\ Fail("error") /\ UNCHANGED inputs
     \/ GivesEnd /\ Fail("error") /\ UNCHANGED <<pulled, inputs>>
  /\ UNCHANGED <<opt, request, outputs, frame, response>>

\* Mutant: does not look for another message.
Input2_Unchecked ==
  /\ pc = "input2" /\ pc' = "final"
  /\ UNCHANGED <<opt, request, pulled, inputs, outputs, frame, failure, response>>

\* After the implementation is through: there must be no other message.
Input2 ==
  /\ pc = "input2"
  /\ \/ GivesMessage /\ pulled' = pulled + 1 /\ Fail("error")
     \/ GivesError /\ pulled' = -1 /\ Fail("error")
     \/ GivesEnd /\ pc' = "final" /\ UNCHANGED <<pulled, failure>>
  /\ UNCHANGED <<opt, request, inputs, outputs, frame, response>>

-----------------------------------------------------------------------------
(* The implementation                                                      *)

\* It reads its input, and may let an error of it pass or handle it.
ImplReads ==
  /\ pc = "impl" /\ ~TakesOne
  /\ \/ GivesMessage /\ pulled' = pulled + 1 /\ inputs' = inputs + 1 /\ UNCHANGED <<pc, failure>>
     \/ GivesError /\ pulled' = -1 /\ UNCHANGED <<inputs, pc, failure>>
     \/ GivesError /\ pulled' = -1 /\ Fail("error") /\ UNCHANGED inputs
  /\ UNCHANGED <<opt, request, outputs, frame, response>>

ImplYields ==
  /\ pc = "impl"
  /\ outputs < IF ReturnsOne THEN 1 ELSE MaxOut
  /\ outputs' = outputs + 1
  /\ pc' = "write" /\ frame' = "message"
  /\ UNCHANGED <<opt, request, pulled, inputs, failure, response>>

ImplReturns ==
  /\ pc = "impl" /\ ~ReturnsOne
  /\ pc' = (IF TakesOne THEN "input2" ELSE "final")
  /\ UNCHANGED <<opt, request, pulled, inputs, outputs, frame, failure, response>>

ImplThrows ==
  /\ pc = "impl"
  /\ \E reason \in {"error", "undefined"} : Fail(reason)
  /\ UNCHANGED <<opt, request, pulled, inputs, outputs, frame, response>>

-----------------------------------------------------------------------------
(* The loop writes what the pipe gives.                                    *)

\* Mutant: leaves grpc-status: 0 of createHandlerContext() as it is.
Verdict_AlwaysOk == "ok"

\* What the function of transformCatchFinally(), or transformCatch(), makes of
\* the error.  The former cannot tell a missing reason from no error.
Verdict ==
  IF failure = "error" \/ (failure = "undefined" /\ ~MarksEnd) THEN "error" ELSE "ok"

AfterWrite ==
  CASE frame # "message" -> "close"
    [] frame = "message" /\ opt.kind = "unary" -> "input2"
    [] frame = "message" /\ opt.kind = "clientStreaming" -> "final"
    [] OTHER -> "impl"

\* The header goes out with the first chunk.
Write ==
  /\ pc = "write" /\ response.closed = "no"
  /\ pc' = AfterWrite /\ frame' = "none"
  /\ response' = IF Bare THEN response
                 ELSE [response EXCEPT !.status = "ok", !.frames = Append(@, frame)]
  /\ UNCHANGED <<opt, request, pulled, inputs, outputs, failure>>

\* Mutant: skips what does not serialize.
SerializeFails_Skips ==
  /\ pc = "write" /\ frame = "message"
  /\ pc' = AfterWrite /\ frame' = "none"
  /\ UNCHANGED <<opt, request, pulled, inputs, outputs, failure, response>>

\* The message is too large, or does not serialize: before transformCatch() and
\* transformCatchFinally().
SerializeFails ==
  /\ pc = "write" /\ frame = "message"
  /\ Fail("error") /\ frame' = "none"
  /\ UNCHANGED <<opt, request, pulled, inputs, outputs, response>>

\* Compression fails: after them, except for gRPC, where transformCatch() is last.
\* The loop rejects, nobody ends the response.
CompressFails ==
  /\ pc = "write" \/ (pc = "close" /\ Bare /\ Verdict = "error")
  /\ IF opt.protocol = "grpc" THEN Fail("error") /\ frame' = "none"
     ELSE pc' = "broken" /\ UNCHANGED <<failure, frame>>
  /\ UNCHANGED <<opt, request, pulled, inputs, outputs, response>>

\* write() rejects; it may also wait forever.
WriteFails ==
  /\ pc = "write" /\ response.closed = "cut"
  /\ pc' = "broken"
  /\ UNCHANGED <<opt, request, pulled, inputs, outputs, frame, failure, response>>

\* Mutant: transformAppend() in place of transformCatchFinally(): an error passes it by.
Final_OnSuccess ==
  /\ pc = "final"
  /\ IF MarksEnd /\ failure = "none"
       THEN pc' = "write" /\ frame' = Verdict
       ELSE pc' = "close" /\ UNCHANGED frame
  /\ UNCHANGED <<opt, request, pulled, inputs, outputs, failure, response>>

\* Where the body says how the call ended, transformCatchFinally() appends that.
Final ==
  /\ pc = "final"
  /\ IF MarksEnd
       THEN pc' = "write" /\ frame' = Verdict
       ELSE pc' = "close" /\ UNCHANGED frame
  /\ UNCHANGED <<opt, request, pulled, inputs, outputs, failure, response>>

\* The HTTP status of a bare response; the trailers of gRPC.
Close ==
  /\ pc = "close" /\ response.closed = "no"
  /\ pc' = "ended"
  /\ response' =
       CASE Bare -> [response EXCEPT !.status = Verdict, !.closed = "clean",
                                     !.frames = <<IF Verdict = "ok" THEN "message" ELSE "error">>]
         [] opt.protocol = "grpc" ->
              [response EXCEPT !.status = "ok", !.closed = "clean", !.trailers = Verdict]
         [] OTHER -> [response EXCEPT !.status = "ok", !.closed = "clean"]
  /\ UNCHANGED <<opt, request, pulled, inputs, outputs, frame, failure>>

Server ==
  \/ Handle \/ SkipEnd \/ Input1 \/ Input2
  \/ ImplReads \/ ImplYields \/ ImplReturns \/ ImplThrows
  \/ Write \/ SerializeFails \/ CompressFails \/ WriteFails \/ Final \/ Close

-----------------------------------------------------------------------------
(* The client, and the connection                                          *)

\* A bare request is one frame; gRPC has no envelope for the end of a stream.
ClientSends ==
  /\ request.closed = "no"
  /\ Len(request.frames) < IF Bare THEN 1 ELSE MaxIn
  /\ \E f \in {"message", "garbled", "end"} :
       /\ f = "end" => MarksEnd
       /\ request' = [request EXCEPT !.frames = Append(@, f)]
  /\ UNCHANGED <<opt, pulled, inputs, pc, outputs, frame, failure, response>>

ClientCloses ==
  /\ request.closed = "no"
  /\ Bare => request.frames # << >>
  /\ request' = [request EXCEPT !.closed = "clean"]
  /\ UNCHANGED <<opt, pulled, inputs, pc, outputs, frame, failure, response>>

ConnectionLost ==
  /\ request.closed = "no" \/ response.closed = "no"
  /\ request' = [request EXCEPT !.closed = IF @ = "no" THEN "cut" ELSE @]
  /\ response' = [response EXCEPT !.closed = IF @ = "no" THEN "cut" ELSE @]
  /\ UNCHANGED <<opt, pulled, inputs, pc, outputs, frame, failure>>

Client == ClientSends \/ ClientCloses

Next == Server \/ Client \/ ConnectionLost

Spec == Init /\ [][Next]_vars

\* The server runs, the implementation comes to an end if it has to, and the
\* client ends its request or the connection is lost.
FairSpec ==
  /\ Spec
  /\ WF_vars(Handle) /\ WF_vars(SkipEnd) /\ WF_vars(Input1) /\ WF_vars(Input2)
  /\ WF_vars(ImplYields \/ ImplReturns \/ ImplThrows)
  /\ WF_vars(Write) /\ WF_vars(Final) /\ WF_vars(Close)
  /\ WF_vars(request.closed = "no" /\ (ClientCloses \/ ConnectionLost))

-----------------------------------------------------------------------------
(* Properties                                                              *)

DeclaredOk ==
  CASE Bare -> response.status = "ok"
    [] MarksEnd -> Contains(response.frames, "ok")
    [] OTHER -> response.trailers = "ok"

DeclaredError ==
  CASE Bare -> response.status = "error"
    [] MarksEnd -> Contains(response.frames, "error")
    [] OTHER -> response.trailers = "error"

\* A response that ends says how the call went, once and last, and says so
\* rightly: any error of request, implementation or serialization is declared,
\* a success is not turned into one.  An implementation that rejects without a
\* reason is taken for a success by the two protocols that mark the end.
StatusTellsTheTruth ==
  pc = "ended" /\ opt.accept # "refused" =>
    /\ DeclaredOk # DeclaredError
    /\ failure = "none" => DeclaredOk
    /\ failure = "error" => DeclaredError
    /\ failure = "undefined" => DeclaredError \/ MarksEnd
    /\ MarksEnd => Last(response.frames) # "message"

\* A method that takes one message succeeds only if the request had exactly one,
\* all of it parsed, and ended; it is called at most once, with that message.
OneInput ==
  TakesOne /\ (DeclaredOk \/ outputs > 0) =>
    /\ inputs = 1
    /\ DeclaredOk /\ failure = "none" =>
         /\ request.closed = "clean"
         /\ \E n \in DOMAIN request.frames :
              /\ request.frames[n] = "message"
              /\ \A m \in DOMAIN request.frames \ {n} : request.frames[m] = "end"

\* All that the implementation produced goes out, and nothing but that, before a
\* success is declared.
AllIsWritten ==
  DeclaredOk =>
    {n \in DOMAIN response.frames : response.frames[n] = "message"} = 1..outputs

\* Every call is answered, unless the connection is lost or compression fails.
CallIsAnswered == <>(pc = "ended" \/ pc = "broken" \/ response.closed = "cut")
=============================================================================
