------------------------------ MODULE H2Sessions ------------------------------
(***************************************************************************)
(* Requests that share the session holder of createNodeHttp2Client (node-  *)
(* universal-client.ts of connect-node).  NodeClient has what happens      *)
(* within one request; here it is its sentinel, its stream, and the        *)
(* session they are on.  A session is named for the request that connects. *)
(***************************************************************************)
EXTENDS FiniteSets

CONSTANTS Request, None

ASSUME SessionsAssumption == None \notin Request

VARIABLES
  keepOpen,     \* keepSessionOpen
  lastSession,
  session,
  listeners,    \* whose sentinels listen to the errors of a session
  sentinel,
  cause,        \* why it is rejected
  on,           \* the session that a request has its stream on
  server,       \* what it has sent on the stream
  released,     \* whether the callback of sentinel.finally() has run
  aborted,      \* the signal of a request
  uncaught,     \* errors that no listener was there for
  overtaken     \* sessions that another one was connecting beside, for the record

sessionVars == <<keepOpen, lastSession, session, listeners, sentinel, cause, on, server,
                 released, aborted, uncaught, overtaken>>

SessionTypeOK ==
  /\ keepOpen \in BOOLEAN
  /\ lastSession \in Request \cup {None}
  /\ session \in [Request -> {"none", "connecting", "open", "closing", "closed", "failed"}]
  /\ listeners \in [Request -> SUBSET Request]
  /\ sentinel \in [Request -> {"none", "open", "resolved", "rejected"}]
  /\ cause \in [Request -> {"none", "internal", "error", "canceled"}]
  /\ on \in [Request -> Request \cup {None}]
  /\ server \in [Request -> {"silent", "headers", "finished"}]
  /\ released \in [Request -> BOOLEAN] /\ aborted \in [Request -> BOOLEAN]
  /\ uncaught \subseteq Request /\ overtaken \subseteq Request

SessionInit ==
  /\ keepOpen \in BOOLEAN
  /\ lastSession = None
  /\ session = [r \in Request |-> "none"]
  /\ listeners = [r \in Request |-> {}]
  /\ sentinel = [r \in Request |-> "none"]
  /\ cause = [r \in Request |-> "none"]
  /\ on = [r \in Request |-> None]
  /\ server = [r \in Request |-> "silent"]
  /\ released = [r \in Request |-> FALSE]
  /\ aborted = [r \in Request |-> FALSE]
  /\ uncaught = {}
  /\ overtaken = {}

\* A request that has its stream, and is not over
Active(r) == on[r] # None /\ sentinel[r] = "open"
ActiveOn(s) == {r \in Request : Active(r) /\ on[r] = s}

\* The first of resolve() and reject() decides.
RejectAll(requests, reason) ==
  LET open == {r \in requests : sentinel[r] = "open"}
  IN /\ sentinel' = [r \in Request |-> IF r \in open THEN "rejected" ELSE sentinel[r]]
     /\ cause' = [r \in Request |-> IF r \in open THEN reason ELSE cause[r]]

-----------------------------------------------------------------------------
(* h2Request                                                               *)

\* The URL of the request is one of another origin.
OtherOrigin(r) ==
  /\ sentinel[r] = "none"
  /\ sentinel' = [sentinel EXCEPT ![r] = "rejected"]
  /\ cause' = [cause EXCEPT ![r] = "internal"]
  /\ UNCHANGED <<keepOpen, lastSession, session, listeners, on, server, released, aborted, uncaught,
                 overtaken>>

\* Mutant: does not look whether a session is there.
Reusable_Never == FALSE

Reusable == keepOpen /\ lastSession # None /\ session[lastSession] = "open"

\* Mutant: listens only to a session it has connected itself.
H2ConnectedSession_OwnErrors(r, s) ==
  /\ lastSession' = s
  /\ on' = [on EXCEPT ![r] = s]
  /\ listeners' = [listeners EXCEPT ![s] = @ \cup ({r} \cap {s})]

\* A stream of its own; sentinel.reject takes the place of h2SessionConnectError.
H2ConnectedSession(r, s) ==
  /\ lastSession' = s
  /\ on' = [on EXCEPT ![r] = s]
  /\ listeners' = [listeners EXCEPT ![s] = @ \cup {r}]

H2Request(r) ==
  /\ sentinel[r] = "none"
  /\ sentinel' = [sentinel EXCEPT ![r] = "open"]
  /\ \/ /\ Reusable
        /\ H2ConnectedSession(r, lastSession)
        /\ UNCHANGED <<session, overtaken>>
     \/ /\ ~Reusable
        /\ LET connecting == {s \in Request : session[s] = "connecting"}
           IN overtaken' = overtaken \cup IF connecting = {} THEN {} ELSE connecting \cup {r}
        /\ session' = [session EXCEPT ![r] = "connecting"]
        /\ listeners' = [listeners EXCEPT ![r] = {r}]
        /\ UNCHANGED <<lastSession, on>>
  /\ UNCHANGED <<keepOpen, cause, server, released, aborted, uncaught>>

Connects(r) ==
  /\ session[r] = "connecting"
  /\ session' = [session EXCEPT ![r] = "open"]
  /\ H2ConnectedSession(r, r)
  /\ UNCHANGED <<keepOpen, sentinel, cause, server, released, aborted, uncaught, overtaken>>

ConnectFails(r) ==
  /\ session[r] = "connecting"
  /\ session' = [session EXCEPT ![r] = "failed"]
  /\ RejectAll({r}, "error")
  /\ UNCHANGED <<keepOpen, lastSession, listeners, on, server, released, aborted, uncaught, overtaken>>

\* Mutant: then() in the place of finally().
SentinelFinally_OnlyThen(r) ==
  /\ sentinel[r] = "resolved" /\ on[r] # None /\ ~released[r]
  /\ released' = [released EXCEPT ![r] = TRUE]
  /\ listeners' = [listeners EXCEPT ![on[r]] = @ \ {r}]
  /\ session' = IF ~keepOpen /\ session[on[r]] = "open" THEN [session EXCEPT ![on[r]] = "closing"] ELSE session
  /\ UNCHANGED <<keepOpen, lastSession, sentinel, cause, on, server, aborted, uncaught, overtaken>>

\* sentinel.finally(): the session is closed once its streams are.
SentinelFinally(r) ==
  /\ sentinel[r] \in {"resolved", "rejected"} /\ on[r] # None /\ ~released[r]
  /\ released' = [released EXCEPT ![r] = TRUE]
  /\ listeners' = [listeners EXCEPT ![on[r]] = @ \ {r}]
  /\ session' = IF ~keepOpen /\ session[on[r]] = "open" THEN [session EXCEPT ![on[r]] = "closing"] ELSE session
  /\ UNCHANGED <<keepOpen, lastSession, sentinel, cause, on, server, aborted, uncaught, overtaken>>

-----------------------------------------------------------------------------
(* Sessions and streams, of Node.js and the network                        *)

\* A GOAWAY without an error
PeerCloses(s) ==
  /\ session[s] = "open"
  /\ session' = [session EXCEPT ![s] = "closing"]
  /\ UNCHANGED <<keepOpen, lastSession, listeners, sentinel, cause, on, server, released, aborted,
                 uncaught, overtaken>>

SessionCloses(s) ==
  /\ session[s] = "closing" /\ ActiveOn(s) = {}
  /\ session' = [session EXCEPT ![s] = "closed"]
  /\ UNCHANGED <<keepOpen, lastSession, listeners, sentinel, cause, on, server, released, aborted,
                 uncaught, overtaken>>

\* The "error" event of a session, which throws if nobody listens
SessionFails(s) ==
  /\ session[s] \in {"open", "closing"}
  /\ session' = [session EXCEPT ![s] = "failed"]
  /\ RejectAll(listeners[s], "error")
  /\ uncaught' = uncaught \cup IF listeners[s] = {} THEN {s} ELSE {}
  /\ UNCHANGED <<keepOpen, lastSession, listeners, on, server, released, aborted, overtaken>>

\* The "error" event of a stream that is reset, or is on a session that has failed
StreamFails(r) ==
  /\ Active(r)
  /\ RejectAll({r}, "error")
  /\ UNCHANGED <<keepOpen, lastSession, session, listeners, on, server, released, aborted, uncaught,
                 overtaken>>

\* The signal is an option of the stream: it has no effect on a session that is
\* still connecting.
StreamAborts(r) ==
  /\ Active(r) /\ aborted[r]
  /\ RejectAll({r}, "canceled")
  /\ UNCHANGED <<keepOpen, lastSession, session, listeners, on, server, released, aborted, uncaught,
                 overtaken>>

Usable(r) == Active(r) /\ session[on[r]] \in {"open", "closing"}

ServerResponds(r) ==
  /\ Usable(r) /\ server[r] = "silent"
  /\ server' = [server EXCEPT ![r] = "headers"]
  /\ UNCHANGED <<keepOpen, lastSession, session, listeners, sentinel, cause, on, released, aborted,
                 uncaught, overtaken>>

ServerFinishes(r) ==
  /\ Usable(r) /\ server[r] = "headers"
  /\ server' = [server EXCEPT ![r] = "finished"]
  /\ UNCHANGED <<keepOpen, lastSession, session, listeners, sentinel, cause, on, released, aborted,
                 uncaught, overtaken>>

\* The next() of the response iterable that is done
ReadToTheEnd(r) ==
  /\ Active(r) /\ server[r] = "finished"
  /\ sentinel' = [sentinel EXCEPT ![r] = "resolved"]
  /\ UNCHANGED <<keepOpen, lastSession, session, listeners, cause, on, server, released, aborted,
                 uncaught, overtaken>>

Abort(r) ==
  /\ ~aborted[r]
  /\ aborted' = [aborted EXCEPT ![r] = TRUE]
  /\ UNCHANGED <<keepOpen, lastSession, session, listeners, sentinel, cause, on, server, released,
                 uncaught, overtaken>>

Dialed(r) == Connects(r) \/ ConnectFails(r)
ServerActs(r) == ServerResponds(r) \/ ServerFinishes(r)
SessionEvent(s) == PeerCloses(s) \/ SessionCloses(s) \/ SessionFails(s)

\* A stream of a session that has failed fails.
StreamEvent(r) == StreamFails(r) \/ StreamAborts(r)
StreamMustFail(r) == StreamAborts(r) \/ (~Usable(r) /\ StreamFails(r))

-----------------------------------------------------------------------------
(* Properties                                                              *)

\* A client that keeps its session open has one: any other that is open was
\* connecting while another one was, and lastSession has forgotten it.
KeepsOneSession ==
  keepOpen => \A s \in Request : session[s] = "open" /\ s # lastSession => s \in overtaken

\* An error of a session rejects the requests that are active on it, no others, and
\* it is uncaught only if there are none: a session that is idle, kept or about to
\* close, has no listener.
ErrorReachesItsRequests ==
  [][\A s \in Request : session[s] \in {"open", "closing"} /\ session'[s] = "failed" =>
       /\ {r \in Request : sentinel[r] = "open" /\ sentinel'[r] = "rejected"} = ActiveOn(s)
       /\ s \in uncaught' => ActiveOn(s) = {}]_sessionVars

\* The session of a client that does not keep it is given back, for good, when its
\* request has succeeded or failed.
SessionsAreReleased ==
  ~keepOpen =>
    <>[](\A r \in Request :
           sentinel[r] \in {"resolved", "rejected"} => session[r] \notin {"connecting", "open"})
=============================================================================
