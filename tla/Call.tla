-------------------------------- MODULE Call --------------------------------
(***************************************************************************)
(* A call from a client of this repository to a server of it: ClientCall   *)
(* reads what ServerCall writes, over a connection that may be lost.       *)
(***************************************************************************)
EXTENDS SequencesExt, Integers

CONSTANTS
  MaxIn,    \* bound: messages of the request
  MaxOut    \* bound: messages of the implementation

VARIABLES
  opt, request, response,
  pulled, inputs, serverPc, outputs, frame, failure,   \* see ServerCall
  clientPc, read, accepted, ended, outcome             \* see ClientCall

serverVars == <<pulled, inputs, serverPc, outputs, frame, failure>>
clientVars == <<clientPc, read, accepted, ended, outcome>>
vars == <<opt, request, response, serverVars, clientVars>>

S == INSTANCE ServerCall WITH pc <- serverPc
C == INSTANCE ClientCall WITH pc <- clientPc, MaxFrames <- MaxOut + 1

Init ==
  /\ opt \in {o \in [protocol : {"connect", "grpc", "grpc-web"}, platform : {"node", "web"},
                     kind : C!Kind, accept : {"yes", "refused", "badEncoding"}] :
                o.platform = "web" => o.protocol # "grpc" /\ o.kind \in {"unary", "serverStreaming"}}
  /\ request = S!NoRequest /\ response = S!NoResponse
  /\ pulled = 0 /\ inputs = 0 /\ serverPc = "handle" /\ outputs = 0
  /\ frame = "none" /\ failure = "none"
  /\ clientPc = "header" /\ read = 0 /\ accepted = << >> /\ ended = "no" /\ outcome = "open"

\* An implementation does not reject without a reason: see StatusTellsTheTruth in
\* ServerCall for what happens if it does.
Server ==
  /\ S!Server
  /\ failure' = "undefined" => ~S!MarksEnd
  /\ UNCHANGED clientVars

Client == C!Reader /\ UNCHANGED <<request, serverVars>>

\* The client sends what serializes, and one message if the method takes one.
Send ==
  /\ request.closed = "no"
  /\ Len(request.frames) < IF S!TakesOne THEN 1 ELSE MaxIn
  /\ request' = [request EXCEPT !.frames = Append(@, "message")]
  /\ UNCHANGED <<opt, response, serverVars, clientVars>>

EndRequest ==
  /\ request.closed = "no"
  /\ S!TakesOne => request.frames # << >>
  /\ request' = [request EXCEPT !.closed = "clean"]
  /\ UNCHANGED <<opt, response, serverVars, clientVars>>

\* With the connection goes what the client has not read yet.
ConnectionLost ==
  /\ response.closed # "cut"
  /\ request' = [request EXCEPT !.closed = IF @ = "no" THEN "cut" ELSE @]
  /\ \E n \in read..Len(response.frames) :
       response' = [response EXCEPT !.closed = "cut", !.frames = SubSeq(@, 1, n),
                                    !.status = IF clientPc = "header" /\ n = 0 THEN "none" ELSE @,
                                    !.trailers = "none"]
  /\ UNCHANGED <<opt, serverVars, clientVars>>

Next == Server \/ Client \/ Send \/ EndRequest \/ ConnectionLost

Spec == Init /\ [][Next]_vars

\* Both run, and the implementation comes to an end.
FairSpec ==
  /\ Spec
  /\ WF_vars(Server /\ serverPc # "impl")
  /\ WF_vars(Server /\ serverPc = "impl" /\ serverPc' # "impl")
  /\ WF_vars(Client) /\ WF_vars(Send /\ S!TakesOne) /\ WF_vars(EndRequest)

-----------------------------------------------------------------------------
(* Properties                                                              *)

\* Where the call stands at the server.
Fate ==
  CASE failure # "none" \/ (serverPc = "ended" /\ opt.accept = "refused") -> "failed"
    [] failure = "none" /\ opt.accept # "refused"
       /\ (serverPc \in {"final", "close", "ended"} \/ frame = "ok") -> "ok"
    [] OTHER -> "running"

ClientOutcome ==
  CASE outcome = "serverError" -> "failed"
    [] outcome = "protocolError" -> "lost"
    [] OTHER -> outcome

R == INSTANCE Rpc WITH yielded <- outputs, fate <- Fate, delivered <- Len(accepted),
                       outcome <- ClientOutcome

\* Whatever is lost on the way, the caller gets what Rpc promises.
ImplementsRpc == R!Spec

\* The two understand each other: what the server sends in any of its states, to its
\* end or until it is cut, is no violation of the protocol to the client, and no unary
\* method succeeds without its message.  The exception is a request that is refused,
\* with an HTTP status the client does not know.
NoFalseAlarm == outcome = "protocolError" => opt.accept = "refused"

\* A call comes to an end, unless compression breaks the response.
CallSettles == <>(outcome # "open" \/ serverPc = "broken")
=============================================================================
