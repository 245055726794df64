---------------------------- MODULE CallbackClient ----------------------------
(***************************************************************************)
(* createCallbackClient (callback-client.ts of connect-core): a call whose *)
(* outcome is given to callbacks of the user, and that the user cancels.   *)
(* It goes through a transport for Node.js, where it shares the sessions   *)
(* of H2Sessions with the requests of other clients.                       *)
(***************************************************************************)
EXTENDS H2Sessions, Integers, SequencesExt

CONSTANTS
  Mine,         \* the request of the call
  MaxMessages,  \* bound: messages of a response
  Throwing,     \* bound: the callbacks of the user that may throw
  Faults        \* bound: the codes of an error, Canceled or another, that is no failed request's

Event == {"onHeader", "onResponse", "onTrailer", "success", "canceled", "failure"}
Closing == {"success", "canceled", "failure"}

ASSUME CallbackAssumption ==
  /\ Mine \in Request /\ MaxMessages \in Nat
  /\ Throwing \subseteq Event
  /\ Faults \subseteq {"error", "canceled"}

VARIABLES
  kind,        \* of the method
  run,         \* where the call is
  messages,    \* how many the server has sent
  fault,       \* the error of a call whose request did not fail
  events,      \* the callbacks of the user, in the order they were called
  threw,       \* the callbacks of the user that have thrown
  unhandled    \* whether the call ends with a rejection nobody handles

clientVars == <<kind, run, messages, fault, events, threw, unhandled>>
vars == <<sessionVars, clientVars>>

Responses == Cardinality({n \in DOMAIN events : events[n] = "onResponse"})

TypeOK ==
  /\ SessionTypeOK
  /\ kind \in {"unary", "serverStreaming"}
  /\ run \in {"none", "calling", "reading", "raised", "done"}
  /\ messages \in 0..MaxMessages
  /\ fault \in Faults \cup {"none"}
  /\ events \in Seq(Event) /\ threw \subseteq Event
  /\ unhandled \in BOOLEAN

Init ==
  /\ SessionInit
  /\ kind \in {"unary", "serverStreaming"}
  /\ run = "none" /\ messages = 0 /\ fault = "none" /\ events = << >> /\ threw = {}
  /\ unhandled = FALSE

-----------------------------------------------------------------------------
(* Callbacks of the user, which may throw                                  *)

\* Calls these, one after the other, unless one throws.
Invoke(callbacks) ==
  /\ events' = events \o callbacks
  /\ UNCHANGED threw

InvokeAndThrow(callbacks) ==
  /\ Last(callbacks) \in Throwing
  /\ events' = events \o callbacks
  /\ threw' = threw \cup {Last(callbacks)}

-----------------------------------------------------------------------------
(* What the calls have in common                                           *)

\* wrapSignal(): the transport gets a signal that follows the one of the user; one
\* that is aborted already is so at once.
WrapSignal ==
  \/ aborted' = aborted
  \/ aborted' = [aborted EXCEPT ![Mine] = TRUE]

Call ==
  /\ run = "none"
  /\ run' = "calling"
  /\ WrapSignal
  /\ UNCHANGED <<keepOpen, lastSession, session, listeners, sentinel, cause, on, server, released,
                 uncaught, overtaken, kind, messages, fault, events, threw, unhandled>>

\* The function a call returns, and the signal of the user
Cancel ==
  /\ run # "none"
  /\ Abort(Mine)
  /\ UNCHANGED clientVars

\* The promise of the transport, or of the message it reads, rejects because the
\* request has failed,
Raised ==
  /\ run \in {"calling", "reading"} /\ sentinel[Mine] = "rejected"
  /\ run' = "raised"
  /\ UNCHANGED <<sessionVars, kind, messages, fault, events, threw, unhandled>>

\* or although it has not: the server declares an error, of any code, in its header,
\* its body or at its end; the response is not a valid one; or an interceptor, or
\* the serialization of the message, throws before the request is made.
Faulted ==
  /\ run \in {"calling", "reading"}
  /\ \/ run = "calling" /\ sentinel[Mine] = "none" /\ UNCHANGED sessionVars
     \/ sentinel[Mine] = "open" /\ server[Mine] # "silent" /\ UNCHANGED sessionVars
     \/ ReadToTheEnd(Mine)
  /\ fault' \in Faults
  /\ run' = "raised"
  /\ UNCHANGED <<kind, messages, events, threw, unhandled>>

\* An error Canceled, of the request or of the server, after the user has canceled
CanceledByUser ==
  /\ aborted[Mine]
  /\ \/ fault = "canceled"
     \/ fault = "none" /\ sentinel[Mine] = "rejected" /\ cause[Mine] = "canceled"

-----------------------------------------------------------------------------
(* Unary                                                                   *)

AllOfUnary == <<"onHeader", "onTrailer", "success">>
SomeOfUnary == {<<"onHeader">>, <<"onHeader", "onTrailer">>, AllOfUnary}

\* Mutant: catch() in the place of the second handler of then().
UnaryFulfilled_ThenCatch ==
  /\ kind = "unary" /\ run = "calling" /\ server[Mine] = "finished"
  /\ ReadToTheEnd(Mine)
  /\ \/ Invoke(AllOfUnary) /\ run' = "done"
     \/ (\E callbacks \in SomeOfUnary : InvokeAndThrow(callbacks)) /\ run' = "raised"
  /\ UNCHANGED <<kind, messages, fault, unhandled>>

\* The first handler of then(): if a callback throws, the ones after it are not
\* called, and the rejection of then() has no handler.
UnaryFulfilled ==
  /\ kind = "unary" /\ run = "calling" /\ server[Mine] = "finished"
  /\ ReadToTheEnd(Mine)
  /\ \/ Invoke(AllOfUnary) /\ UNCHANGED unhandled
     \/ /\ \E callbacks \in SomeOfUnary : InvokeAndThrow(callbacks)
        /\ unhandled' = TRUE
  /\ run' = "done"
  /\ UNCHANGED <<kind, messages, fault>>

\* Mutant: passes on the error of a call that was canceled.
UnaryRejected_Always ==
  /\ kind = "unary" /\ run = "raised"
  /\ Invoke(<<"failure">>) /\ UNCHANGED unhandled
  /\ run' = "done"
  /\ UNCHANGED <<sessionVars, kind, messages, fault>>

\* The second handler: an error Canceled is dropped if the user has canceled.
UnaryRejected ==
  /\ kind = "unary" /\ run = "raised"
  /\ \/ CanceledByUser /\ UNCHANGED <<events, threw, unhandled>>
     \/ ~CanceledByUser /\ Invoke(<<"failure">>) /\ UNCHANGED unhandled
     \/ ~CanceledByUser /\ InvokeAndThrow(<<"failure">>) /\ unhandled' = TRUE
  /\ run' = "done"
  /\ UNCHANGED <<sessionVars, kind, messages, fault>>

-----------------------------------------------------------------------------
(* Server-streaming: run(), and run().catch()                              *)

StreamHeader ==
  /\ kind = "serverStreaming" /\ run = "calling"
  /\ server[Mine] # "silent" /\ sentinel[Mine] = "open"
  /\ \/ Invoke(<<"onHeader">>) /\ run' = "reading"
     \/ InvokeAndThrow(<<"onHeader">>) /\ run' = "raised"
  /\ UNCHANGED <<sessionVars, kind, messages, fault, unhandled>>

StreamMessage ==
  /\ run = "reading" /\ sentinel[Mine] = "open"
  /\ Responses < messages
  /\ \/ Invoke(<<"onResponse">>) /\ UNCHANGED run
     \/ InvokeAndThrow(<<"onResponse">>) /\ run' = "raised"
  /\ UNCHANGED <<sessionVars, kind, messages, fault, unhandled>>

\* onTrailer and onClose are called within run(), too.
StreamEnd ==
  /\ run = "reading" /\ Responses = messages
  /\ ReadToTheEnd(Mine)
  /\ \/ Invoke(<<"onTrailer", "success">>) /\ run' = "done"
     \/ InvokeAndThrow(<<"onTrailer">>) /\ run' = "raised"
     \/ InvokeAndThrow(<<"onTrailer", "success">>) /\ run' = "raised"
  /\ UNCHANGED <<kind, messages, fault, unhandled>>

\* Mutant: does not close a call that was canceled.
StreamCatch_Dropped ==
  /\ kind = "serverStreaming" /\ run = "raised"
  /\ IF threw = {} /\ CanceledByUser THEN UNCHANGED <<events, threw, unhandled>>
     ELSE Invoke(<<"failure">>) /\ UNCHANGED unhandled
  /\ run' = "done"
  /\ UNCHANGED <<sessionVars, kind, messages, fault>>

\* onClose(): with no error if the user has canceled.  What a callback of the user
\* has thrown arrives here, too, that of onClose() included.
StreamCatch ==
  /\ kind = "serverStreaming" /\ run = "raised"
  /\ LET close == IF threw = {} /\ CanceledByUser THEN <<"canceled">> ELSE <<"failure">>
     IN \/ Invoke(close) /\ UNCHANGED unhandled
        \/ InvokeAndThrow(close) /\ unhandled' = TRUE
  /\ run' = "done"
  /\ UNCHANGED <<sessionVars, kind, messages, fault>>

-----------------------------------------------------------------------------

\* The transport asks for a stream when it is called; the server sends messages.
Requested(r) ==
  /\ r = Mine => run = "calling"
  /\ H2Request(r) \/ (r = Mine /\ OtherOrigin(r))
  /\ UNCHANGED clientVars

ServerSends ==
  /\ kind = "serverStreaming" /\ Usable(Mine) /\ server[Mine] = "headers"
  /\ messages < MaxMessages
  /\ messages' = messages + 1
  /\ UNCHANGED <<sessionVars, kind, run, fault, events, threw, unhandled>>

\* Other clients read their responses, or leave them.
OtherReads(r) == r # Mine /\ ReadToTheEnd(r) /\ UNCHANGED clientVars

Handled ==
  \/ Raised \/ UnaryFulfilled \/ UnaryRejected
  \/ StreamHeader \/ StreamMessage \/ StreamEnd \/ StreamCatch

Network(r) ==
  (Dialed(r) \/ ServerActs(r) \/ SessionEvent(r) \/ StreamEvent(r) \/ SentinelFinally(r))
  /\ UNCHANGED clientVars

Next ==
  \/ Call \/ Cancel \/ ServerSends \/ Handled \/ Faulted
  \/ \E r \in Request : Requested(r) \/ OtherReads(r) \/ Network(r)

Spec == Init /\ [][Next]_vars

\* A connection is made or fails, a server answers and comes to an end, Node.js
\* delivers what is due, and the promises that have settled are handled.  Nobody has
\* to call, to cancel, or to fail.  Each of these steps is taken a bounded number of
\* times, so that fairness of all together is fairness of each.
Progress ==
  \/ Handled
  \/ \E r \in Request :
       \/ Requested(r)
       \/ /\ Dialed(r) \/ ServerActs(r) \/ StreamMustFail(r) \/ SentinelFinally(r)
          /\ UNCHANGED clientVars

FairSpec == Spec /\ WF_vars(Progress)

-----------------------------------------------------------------------------
(* Properties                                                              *)

\* The user hears of the end of a call once, with the error or without, and of
\* nothing after it.  A streaming call closes again if onClose itself throws.
ClosesOnce ==
  \A n \in DOMAIN events : events[n] \in Closing =>
    \/ n = Len(events)
    \/ /\ n = Len(events) - 1
       /\ kind = "serverStreaming" /\ "success" \in threw
       /\ events[n] = "success" /\ Last(events) = "failure"

\* "Success" is said of a call whose response has been read to its end, with all of
\* its messages and no error.  A streaming call is closed without an error otherwise
\* only if the user has canceled and the error is Canceled.  And if no callback threw,
\* a failure is one of the request that is not due to the user's cancel, or an error
\* of the server or of the transport.
OutcomeIsTrue ==
  /\ "success" \in Range(events) =>
       sentinel[Mine] = "resolved" /\ Responses = messages /\ fault = "none"
  /\ "canceled" \in Range(events) =>
       aborted[Mine] /\ (fault = "canceled" \/ (fault = "none" /\ cause[Mine] = "canceled"))
  /\ "failure" \in Range(events) /\ threw \subseteq {"failure"} =>
       fault # "none" \/ (sentinel[Mine] = "rejected" /\ cause[Mine] # "canceled")

\* Every call that is made comes to an end that the user hears of, if the connection,
\* the server and the callbacks do: a canceled call of a unary method is silent, and a
\* callback of a unary method that throws keeps the ones after it from being called.
CallsAreAnswered ==
  <>[](run # "none" =>
         \/ Range(events) \cap Closing # {}
         \/ kind = "unary" /\ (threw # {} \/ CanceledByUser))
=============================================================================
