------------------------ MODULE CallbackClient_proofs ------------------------
(***************************************************************************)
(* Proofs about CallbackClient and the sessions of H2Sessions it shares,   *)
(* for any number of requests and of messages: the type invariants, what   *)
(* the sessions keep, and what the callbacks of the user are told.         *)
(***************************************************************************)
EXTENDS CallbackClient, SequenceTheorems, FiniteSetTheorems, TLAPS

-----------------------------------------------------------------------------
(* Sequences                                                               *)

\* What follows a sequence leaves its elements where they are.
LEMMA ConcatBounds ==
  ASSUME NEW S, NEW s \in Seq(S), NEW t \in Seq(S)
  PROVE  /\ s \o t \in Seq(S)
         /\ Len(s) \in Nat /\ Len(t) \in Nat /\ Len(s \o t) = Len(s) + Len(t)
         /\ DOMAIN s = 1..Len(s) /\ DOMAIN (s \o t) = 1..(Len(s) + Len(t))
         /\ \A i \in 1..Len(s) : (s \o t)[i] = s[i]
         /\ \A i \in 1..Len(t) : (s \o t)[Len(s) + i] = t[i]
         /\ Range(s \o t) = Range(s) \cup Range(t)
         /\ \A e : e \notin Range(t) =>
              {n \in DOMAIN (s \o t) : (s \o t)[n] = e} = {n \in DOMAIN s : s[n] = e}
<1>1. /\ s \o t \in Seq(S) /\ Len(s \o t) = Len(s) + Len(t)
      /\ \A i \in 1..(Len(s) + Len(t)) :
           (s \o t)[i] = IF i <= Len(s) THEN s[i] ELSE t[i - Len(s)]
  BY ConcatProperties
<1>2. /\ Len(s) \in Nat /\ Len(t) \in Nat
      /\ DOMAIN s = 1..Len(s) /\ DOMAIN t = 1..Len(t)
      /\ DOMAIN (s \o t) = 1..(Len(s) + Len(t))
  BY <1>1, LenProperties
<1>3. \A i \in 1..Len(s) : (s \o t)[i] = s[i]
  BY <1>1, <1>2
<1>4. \A i \in 1..Len(t) : (s \o t)[Len(s) + i] = t[i]
  <2>1. SUFFICES ASSUME NEW i \in 1..Len(t)
                 PROVE  (s \o t)[Len(s) + i] = t[i]
    OBVIOUS
  <2>2. /\ Len(s) + i \in 1..(Len(s) + Len(t)) /\ ~(Len(s) + i <= Len(s))
        /\ (Len(s) + i) - Len(s) = i
    BY <1>2
  <2>3. QED
    BY <1>1, <2>2
<1>5. \A n \in 1..(Len(s) + Len(t)) :
        n \in 1..Len(s) \/ \E i \in 1..Len(t) : n = Len(s) + i
  <2>1. SUFFICES ASSUME NEW n \in 1..(Len(s) + Len(t)), n \notin 1..Len(s)
                 PROVE  \E i \in 1..Len(t) : n = Len(s) + i
    OBVIOUS
  <2>2. n - Len(s) \in 1..Len(t) /\ n = Len(s) + (n - Len(s))
    BY <1>2, <2>1
  <2>3. QED
    BY <2>2
<1>6. /\ \A i \in 1..Len(s) : i \in 1..(Len(s) + Len(t))
      /\ \A i \in 1..Len(t) : Len(s) + i \in 1..(Len(s) + Len(t))
  BY <1>2
<1>7. Range(s \o t) = Range(s) \cup Range(t)
  <2>1. ASSUME NEW e \in Range(s \o t)
        PROVE  e \in Range(s) \cup Range(t)
    <3>1. PICK n \in 1..(Len(s) + Len(t)) : e = (s \o t)[n]
      BY <1>2 DEF Range
    <3>2. CASE n \in 1..Len(s)
      BY <1>2, <1>3, <3>1, <3>2 DEF Range
    <3>3. CASE \E i \in 1..Len(t) : n = Len(s) + i
      BY <1>2, <1>4, <3>1, <3>3 DEF Range
    <3>4. QED
      BY <1>5, <3>2, <3>3
  <2>2. \A e \in Range(s) : e \in Range(s \o t)
    BY <1>2, <1>3, <1>6, Zenon DEF Range
  <2>3. \A e \in Range(t) : e \in Range(s \o t)
    BY <1>2, <1>4, <1>6, Zenon DEF Range
  <2>4. QED
    BY <2>1, <2>2, <2>3
<1>8. ASSUME NEW e, e \notin Range(t)
      PROVE  {n \in DOMAIN (s \o t) : (s \o t)[n] = e} = {n \in DOMAIN s : s[n] = e}
  <2>1. \A i \in 1..Len(t) : t[i] # e
    BY <1>2, <1>8, Zenon DEF Range
  <2>2. \A n \in 1..(Len(s) + Len(t)) :
          (s \o t)[n] = e <=> n \in 1..Len(s) /\ s[n] = e
    BY <1>3, <1>4, <1>5, <2>1, Zenon
  <2>3. QED
    BY <1>2, <1>6, <2>2
<1>9. QED
  BY <1>1, <1>2, <1>3, <1>4, <1>7, <1>8

-----------------------------------------------------------------------------
(* The inductive invariant of the sessions.                                *)

\* A session that is connecting, or open but forgotten, has been beside another one.
OneSessionInv ==
  keepOpen =>
    /\ KeepsOneSession
    /\ \A s, t \in Request :
         s # t /\ session[s] = "connecting" /\ session[t] \in {"connecting", "open"} =>
           t \in overtaken

\* A request has made nothing before it is made, is on no session while it connects its own,
\* and is on one that has been connected.
RequestInv ==
  \A r \in Request :
    /\ sentinel[r] = "none" => session[r] = "none" /\ on[r] = None
    /\ session[r] = "connecting" => sentinel[r] = "open" /\ on[r] = None
    /\ on[r] # None => session[on[r]] \notin {"none", "connecting"}
    /\ cause[r] = "canceled" => aborted[r]

\* The sentinels that listen to a session, until they settle, are those of the requests on it,
\* and of the one that connects it.
ListenerInv ==
  \A r, s \in Request :
    /\ sentinel[r] = "none" => r \notin listeners[s]
    /\ sentinel[r] = "open" =>
         (r \in listeners[s] <=> on[r] = s \/ (r = s /\ session[s] = "connecting"))

\* A session without a listener fails once.
UncaughtInv == \A s \in uncaught : session[s] = "failed"

SessionInv == SessionTypeOK /\ OneSessionInv /\ RequestInv /\ ListenerInv /\ UncaughtInv

-----------------------------------------------------------------------------
(* The inductive invariant of the callbacks.                               *)

Told(e) == e \in Range(events)

\* What has been called and has thrown at each point of a call.
RunInv ==
  /\ run \in {"none", "calling", "reading"} =>
       fault = "none" /\ threw = {} /\ \A e \in Closing : ~Told(e)
  /\ kind = "unary" =>
       /\ run # "reading" /\ messages = 0
       /\ run # "done" => events = << >> /\ threw = {}
       /\ ~Told("onResponse")
  /\ run = "raised" =>
       /\ threw = {} => fault # "none" \/ sentinel[Mine] = "rejected"
       /\ "failure" \notin threw /\ ~Told("failure") /\ ~Told("canceled")
       /\ \A n \in DOMAIN events : events[n] \in Closing =>
            n = Len(events) /\ events[n] = "success" /\ "success" \in threw
  /\ Told("success") => sentinel[Mine] = "resolved" /\ fault = "none"
  /\ Told("success") => Responses = messages
  /\ Told("canceled") => CanceledByUser
  /\ Told("failure") /\ threw \subseteq {"failure"} =>
       fault # "none" \/ (sentinel[Mine] = "rejected" /\ cause[Mine] # "canceled")

IInv == TypeOK /\ SessionInv /\ RunInv /\ ClosesOnce

-----------------------------------------------------------------------------
(* The steps of the sessions, whoever makes them.                          *)

SessionStep(r) ==
  \/ OtherOrigin(r) \/ H2Request(r) \/ Connects(r) \/ ConnectFails(r) \/ SentinelFinally(r)
  \/ PeerCloses(r) \/ SessionCloses(r) \/ SessionFails(r) \/ StreamFails(r) \/ StreamAborts(r)
  \/ ServerResponds(r) \/ ServerFinishes(r) \/ ReadToTheEnd(r) \/ Abort(r)

\* Every step of a call, or of another client, is one of them or leaves the sessions alone.
LEMMA SessionSteps ==
  SessionTypeOK /\ Next =>
    UNCHANGED sessionVars \/ \E r \in Request : SessionStep(r)
<1> SUFFICES ASSUME SessionTypeOK, Next
             PROVE  UNCHANGED sessionVars \/ \E r \in Request : SessionStep(r)
  OBVIOUS
<1>1. Mine \in Request
  BY CallbackAssumption
<1>2. CASE Call
  <2>1. CASE aborted' = aborted
    BY <1>2, <2>1 DEF Call, sessionVars
  <2>2. CASE aborted' = [aborted EXCEPT ![Mine] = TRUE] /\ aborted[Mine]
    <3>1. aborted' = aborted
      BY <1>1, <2>2 DEF SessionTypeOK
    <3>2. QED
      BY <1>2, <3>1 DEF Call, sessionVars
  <2>3. CASE aborted' = [aborted EXCEPT ![Mine] = TRUE] /\ ~aborted[Mine]
    <3>1. Abort(Mine)
      BY <1>2, <2>3 DEF Call, Abort
    <3>2. QED
      BY <1>1, <3>1 DEF SessionStep
  <2>4. QED
    BY <1>2, <2>1, <2>2, <2>3 DEF Call, WrapSignal
<1>3. CASE Cancel
  BY <1>1, <1>3 DEF Cancel, SessionStep
<1>4. CASE ServerSends
  BY <1>4 DEF ServerSends
<1>5. CASE Handled
  <2>1. UNCHANGED sessionVars \/ ReadToTheEnd(Mine)
    BY <1>5 DEF Handled, Raised, UnaryFulfilled, UnaryRejected, StreamHeader, StreamMessage,
                StreamEnd, StreamCatch
  <2>2. QED
    BY <1>1, <2>1 DEF SessionStep
<1>6. ASSUME NEW r \in Request, Requested(r) \/ OtherReads(r) \/ Network(r)
      PROVE  SessionStep(r)
  BY <1>6 DEF Requested, OtherReads, Network, Dialed, ServerActs, SessionEvent, StreamEvent,
              SessionStep
<1>7. CASE Faulted
  BY <1>1, <1>7 DEF Faulted, SessionStep
<1>8. QED
  BY <1>2, <1>3, <1>4, <1>5, <1>6, <1>7 DEF Next

LEMMA SessionTypeNext ==
  \A r \in Request : SessionTypeOK /\ SessionStep(r) => SessionTypeOK'
<1> SUFFICES ASSUME NEW r \in Request, SessionTypeOK, SessionStep(r)
             PROVE  SessionTypeOK'
  OBVIOUS
<1> USE DEF SessionTypeOK
<1>1. CASE OtherOrigin(r)
  BY <1>1 DEF OtherOrigin
<1>2. CASE H2Request(r)
  <2>1. overtaken' \subseteq Request
    BY <1>2 DEF H2Request
  <2>2. CASE Reusable
    <3>1. lastSession \in Request
      BY <2>2 DEF Reusable
    <3>2. QED
      BY <1>2, <2>1, <2>2, <3>1 DEF H2Request, H2ConnectedSession
  <2>3. CASE ~Reusable
    BY <1>2, <2>1, <2>3 DEF H2Request
  <2>4. QED
    BY <2>2, <2>3
<1>3. CASE Connects(r)
  BY <1>3 DEF Connects, H2ConnectedSession
<1>4. CASE ConnectFails(r)
  BY <1>4 DEF ConnectFails, RejectAll
<1>5. CASE SentinelFinally(r)
  <2>1. on[r] \in Request
    BY <1>5 DEF SentinelFinally
  <2>2. QED
    BY <1>5, <2>1 DEF SentinelFinally
<1>6. CASE PeerCloses(r)
  BY <1>6 DEF PeerCloses
<1>7. CASE SessionCloses(r)
  BY <1>7 DEF SessionCloses
<1>8. CASE SessionFails(r)
  BY <1>8 DEF SessionFails, RejectAll
<1>9. CASE StreamFails(r)
  BY <1>9 DEF StreamFails, RejectAll
<1>10. CASE StreamAborts(r)
  BY <1>10 DEF StreamAborts, RejectAll
<1>11. CASE ServerResponds(r)
  BY <1>11 DEF ServerResponds
<1>12. CASE ServerFinishes(r)
  BY <1>12 DEF ServerFinishes
<1>13. CASE ReadToTheEnd(r)
  BY <1>13 DEF ReadToTheEnd
<1>14. CASE Abort(r)
  BY <1>14 DEF Abort
<1>15. QED
  BY <1>1, <1>2, <1>3, <1>4, <1>5, <1>6, <1>7, <1>8, <1>9, <1>10, <1>11, <1>12, <1>13, <1>14
     DEF SessionStep

\* A session is connecting only from its request on, and is not opened again.
LEMMA SessionMoves ==
  \A r \in Request : SessionTypeOK /\ SessionStep(r) =>
    /\ keepOpen' = keepOpen /\ overtaken \subseteq overtaken'
    /\ \A s \in Request :
         session'[s] = session[s] \/ session'[s] \in {"closing", "closed", "failed"}
         \/ (s = r /\ (Connects(r) \/ (H2Request(r) /\ ~Reusable)))
    /\ lastSession' = lastSession \/ Connects(r)
<1> SUFFICES ASSUME NEW r \in Request, SessionTypeOK, SessionStep(r)
             PROVE  /\ keepOpen' = keepOpen /\ overtaken \subseteq overtaken'
                    /\ \A s \in Request :
                         session'[s] = session[s] \/ session'[s] \in {"closing", "closed", "failed"}
                         \/ (s = r /\ (Connects(r) \/ (H2Request(r) /\ ~Reusable)))
                    /\ lastSession' = lastSession \/ Connects(r)
  OBVIOUS
<1> USE DEF SessionTypeOK
<1>1. CASE H2Request(r)
  BY <1>1 DEF H2Request, H2ConnectedSession
<1>2. CASE Connects(r)
  BY <1>2 DEF Connects, H2ConnectedSession
<1>3. CASE ConnectFails(r) \/ PeerCloses(r) \/ SessionCloses(r) \/ SessionFails(r)
  BY <1>3 DEF ConnectFails, PeerCloses, SessionCloses, SessionFails
<1>4. CASE SentinelFinally(r)
  BY <1>4 DEF SentinelFinally
<1>5. CASE OtherOrigin(r) \/ StreamFails(r) \/ StreamAborts(r) \/ ServerResponds(r)
           \/ ServerFinishes(r) \/ ReadToTheEnd(r) \/ Abort(r)
  BY <1>5 DEF OtherOrigin, StreamFails, StreamAborts, ServerResponds, ServerFinishes,
              ReadToTheEnd, Abort
<1>6. QED
  BY <1>1, <1>2, <1>3, <1>4, <1>5 DEF SessionStep

LEMMA OneSessionNext ==
  \A r \in Request : SessionInv /\ SessionStep(r) => OneSessionInv'
<1> SUFFICES ASSUME NEW r \in Request, SessionInv, SessionStep(r), keepOpen
             PROVE  /\ \A s \in Request :
                         session'[s] = "open" /\ s # lastSession' => s \in overtaken'
                    /\ \A s, t \in Request :
                         s # t /\ session'[s] = "connecting" /\ session'[t] \in {"connecting", "open"}
                           => t \in overtaken'
  BY SessionMoves DEF SessionInv, OneSessionInv, KeepsOneSession
<1>1. /\ overtaken \subseteq overtaken'
      /\ \A s \in Request :
           session'[s] = session[s] \/ session'[s] \in {"closing", "closed", "failed"}
           \/ (s = r /\ (Connects(r) \/ (H2Request(r) /\ ~Reusable)))
      /\ lastSession' = lastSession \/ Connects(r)
  BY SessionMoves DEF SessionInv
<1>2. /\ \A s \in Request : session[s] = "open" /\ s # lastSession => s \in overtaken
      /\ \A s, t \in Request :
           s # t /\ session[s] = "connecting" /\ session[t] \in {"connecting", "open"} =>
             t \in overtaken
  BY DEF SessionInv, OneSessionInv, KeepsOneSession
<1>3. CASE Connects(r)
  <2>1. /\ session[r] = "connecting" /\ lastSession' = r
        /\ session'[r] = "open" /\ \A s \in Request \ {r} : session'[s] = session[s]
    BY <1>3 DEF Connects, H2ConnectedSession, SessionInv, SessionTypeOK
  <2>2. QED
    BY <1>1, <1>2, <2>1
<1>4. CASE H2Request(r) /\ ~Reusable
  <2>1. /\ session'[r] = "connecting" /\ \A s \in Request \ {r} : session'[s] = session[s]
        /\ lastSession' = lastSession
        /\ \A s \in Request : session[s] = "connecting" => r \in overtaken' /\ s \in overtaken'
    BY <1>4 DEF H2Request, SessionInv, SessionTypeOK
  <2>2. \A t \in Request : session[t] = "open" => t \in overtaken
    BY <1>2, <1>4, SessionsAssumption DEF Reusable
  <2>3. QED
    BY <1>1, <1>2, <2>1, <2>2
<1>5. CASE ~Connects(r) /\ ~(H2Request(r) /\ ~Reusable)
  BY <1>1, <1>2, <1>5
<1>6. QED
  BY <1>3, <1>4, <1>5

LEMMA RequestNext ==
  \A r \in Request : SessionInv /\ SessionStep(r) => RequestInv'
<1> SUFFICES ASSUME NEW r \in Request, SessionInv, SessionStep(r), NEW q \in Request
             PROVE  /\ sentinel'[q] = "none" => session'[q] = "none" /\ on'[q] = None
                    /\ session'[q] = "connecting" => sentinel'[q] = "open" /\ on'[q] = None
                    /\ on'[q] # None => session'[on'[q]] \notin {"none", "connecting"}
                    /\ cause'[q] = "canceled" => aborted'[q]
  BY DEF RequestInv
<1> USE SessionsAssumption DEF SessionInv, SessionTypeOK, RequestInv, ListenerInv
<1>1. CASE OtherOrigin(r)
  BY <1>1 DEF OtherOrigin
<1>2. CASE H2Request(r)
  BY <1>2 DEF H2Request, H2ConnectedSession, Reusable
<1>3. CASE Connects(r)
  BY <1>3 DEF Connects, H2ConnectedSession
<1>4. CASE ConnectFails(r)
  BY <1>4 DEF ConnectFails, RejectAll
<1>5. CASE SentinelFinally(r)
  BY <1>5 DEF SentinelFinally
<1>6. CASE PeerCloses(r)
  BY <1>6 DEF PeerCloses
<1>7. CASE SessionCloses(r)
  BY <1>7 DEF SessionCloses
<1>8. CASE SessionFails(r)
  BY <1>8 DEF SessionFails, RejectAll
<1>9. CASE StreamFails(r)
  BY <1>9 DEF StreamFails, RejectAll, Active
<1>10. CASE StreamAborts(r)
  BY <1>10 DEF StreamAborts, RejectAll, Active
<1>11. CASE ServerResponds(r)
  BY <1>11 DEF ServerResponds
<1>12. CASE ServerFinishes(r)
  BY <1>12 DEF ServerFinishes
<1>13. CASE ReadToTheEnd(r)
  BY <1>13 DEF ReadToTheEnd, Active
<1>14. CASE Abort(r)
  BY <1>14 DEF Abort
<1>15. QED
  BY <1>1, <1>2, <1>3, <1>4, <1>5, <1>6, <1>7, <1>8, <1>9, <1>10, <1>11, <1>12, <1>13, <1>14
     DEF SessionStep

LEMMA ListenerNext ==
  \A r \in Request : SessionInv /\ SessionStep(r) => ListenerInv'
<1> SUFFICES ASSUME NEW r \in Request, SessionInv, SessionStep(r),
                    NEW q \in Request, NEW s \in Request
             PROVE  /\ sentinel'[q] = "none" => q \notin listeners'[s]
                    /\ sentinel'[q] = "open" =>
                         (q \in listeners'[s] <=>
                            on'[q] = s \/ (q = s /\ session'[s] = "connecting"))
  BY DEF ListenerInv
<1> USE SessionsAssumption DEF SessionInv, SessionTypeOK, RequestInv, ListenerInv
<1>1. CASE OtherOrigin(r)
  BY <1>1 DEF OtherOrigin
<1>2. CASE H2Request(r)
  BY <1>2 DEF H2Request, H2ConnectedSession, Reusable
<1>3. CASE Connects(r)
  BY <1>3 DEF Connects, H2ConnectedSession
<1>4. CASE ConnectFails(r)
  BY <1>4 DEF ConnectFails, RejectAll
<1>5. CASE SentinelFinally(r)
  BY <1>5 DEF SentinelFinally
<1>6. CASE PeerCloses(r)
  BY <1>6 DEF PeerCloses
<1>7. CASE SessionCloses(r)
  BY <1>7 DEF SessionCloses
<1>8. CASE SessionFails(r)
  BY <1>8 DEF SessionFails, RejectAll
<1>9. CASE StreamFails(r)
  BY <1>9 DEF StreamFails, RejectAll, Active
<1>10. CASE StreamAborts(r)
  BY <1>10 DEF StreamAborts, RejectAll, Active
<1>11. CASE ServerResponds(r)
  BY <1>11 DEF ServerResponds
<1>12. CASE ServerFinishes(r)
  BY <1>12 DEF ServerFinishes
<1>13. CASE ReadToTheEnd(r)
  BY <1>13 DEF ReadToTheEnd, Active
<1>14. CASE Abort(r)
  BY <1>14 DEF Abort
<1>15. QED
  BY <1>1, <1>2, <1>3, <1>4, <1>5, <1>6, <1>7, <1>8, <1>9, <1>10, <1>11, <1>12, <1>13, <1>14
     DEF SessionStep

LEMMA UncaughtNext ==
  \A r \in Request : SessionInv /\ SessionStep(r) => UncaughtInv'
<1> SUFFICES ASSUME NEW r \in Request, SessionInv, SessionStep(r), NEW q \in uncaught'
             PROVE  session'[q] = "failed"
  BY DEF UncaughtInv
<1> USE SessionsAssumption DEF SessionInv, SessionTypeOK, RequestInv, UncaughtInv
<1>1. CASE OtherOrigin(r)
  BY <1>1 DEF OtherOrigin
<1>2. CASE H2Request(r)
  BY <1>2 DEF H2Request, H2ConnectedSession, Reusable
<1>3. CASE Connects(r)
  BY <1>3 DEF Connects, H2ConnectedSession
<1>4. CASE ConnectFails(r)
  BY <1>4 DEF ConnectFails, RejectAll
<1>5. CASE SentinelFinally(r)
  BY <1>5 DEF SentinelFinally
<1>6. CASE PeerCloses(r)
  BY <1>6 DEF PeerCloses
<1>7. CASE SessionCloses(r)
  BY <1>7 DEF SessionCloses
<1>8. CASE SessionFails(r)
  BY <1>8 DEF SessionFails, RejectAll
<1>9. CASE StreamFails(r)
  BY <1>9 DEF StreamFails, RejectAll, Active
<1>10. CASE StreamAborts(r)
  BY <1>10 DEF StreamAborts, RejectAll, Active
<1>11. CASE ServerResponds(r)
  BY <1>11 DEF ServerResponds
<1>12. CASE ServerFinishes(r)
  BY <1>12 DEF ServerFinishes
<1>13. CASE ReadToTheEnd(r)
  BY <1>13 DEF ReadToTheEnd, Active
<1>14. CASE Abort(r)
  BY <1>14 DEF Abort
<1>15. QED
  BY <1>1, <1>2, <1>3, <1>4, <1>5, <1>6, <1>7, <1>8, <1>9, <1>10, <1>11, <1>12, <1>13, <1>14
     DEF SessionStep

LEMMA SessionNext ==
  SessionInv /\ [Next]_vars => SessionInv'
<1> SUFFICES ASSUME SessionInv, [Next]_vars
             PROVE  SessionInv'
  OBVIOUS
<1>1. CASE UNCHANGED sessionVars
  BY <1>1 DEF SessionInv, SessionTypeOK, OneSessionInv, KeepsOneSession, RequestInv, ListenerInv,
              UncaughtInv, sessionVars
<1>2. ASSUME NEW r \in Request, SessionStep(r)
      PROVE  SessionInv'
  <2>1. SessionTypeOK'
    BY <1>2, SessionTypeNext DEF SessionInv
  <2>2. QED
    BY <1>2, <2>1, OneSessionNext, RequestNext, ListenerNext, UncaughtNext DEF SessionInv
<1>3. CASE UNCHANGED vars
  BY <1>1, <1>3 DEF vars, sessionVars
<1>4. QED
  BY <1>1, <1>2, <1>3, SessionSteps DEF SessionInv

LEMMA SessionStart == SessionInit => SessionInv
BY SessionsAssumption DEF SessionInit, SessionInv, SessionTypeOK, OneSessionInv, KeepsOneSession,
                          RequestInv, ListenerInv, UncaughtInv

\* What is settled stays so, and a signal stays aborted.
LEMMA Settled ==
  SessionTypeOK /\ Next =>
    /\ sentinel[Mine] \in {"resolved", "rejected"} =>
         sentinel'[Mine] = sentinel[Mine] /\ cause'[Mine] = cause[Mine]
    /\ aborted[Mine] => aborted'[Mine]
<1> SUFFICES ASSUME SessionTypeOK, Next
             PROVE  /\ sentinel[Mine] \in {"resolved", "rejected"} =>
                         sentinel'[Mine] = sentinel[Mine] /\ cause'[Mine] = cause[Mine]
                    /\ aborted[Mine] => aborted'[Mine]
  OBVIOUS
<1> USE CallbackAssumption DEF SessionTypeOK
<1>1. CASE UNCHANGED sessionVars
  BY <1>1 DEF sessionVars
<1>2. ASSUME NEW r \in Request, SessionStep(r)
      PROVE  /\ sentinel[Mine] \in {"resolved", "rejected"} =>
                  sentinel'[Mine] = sentinel[Mine] /\ cause'[Mine] = cause[Mine]
             /\ aborted[Mine] => aborted'[Mine]
  <2>1. CASE OtherOrigin(r) \/ H2Request(r) \/ ReadToTheEnd(r)
    BY <2>1 DEF OtherOrigin, H2Request, ReadToTheEnd, Active
  <2>2. CASE ConnectFails(r) \/ SessionFails(r) \/ StreamFails(r) \/ StreamAborts(r)
    BY <2>2 DEF ConnectFails, SessionFails, StreamFails, StreamAborts, RejectAll
  <2>3. CASE Connects(r) \/ SentinelFinally(r) \/ PeerCloses(r) \/ SessionCloses(r)
             \/ ServerResponds(r) \/ ServerFinishes(r) \/ Abort(r)
    BY <2>3 DEF Connects, SentinelFinally, PeerCloses, SessionCloses, ServerResponds,
                ServerFinishes, Abort
  <2>4. QED
    BY <1>2, <2>1, <2>2, <2>3 DEF SessionStep
<1>3. QED
  BY <1>1, <1>2, SessionSteps

-----------------------------------------------------------------------------
(* The callbacks.                                                          *)

\* What a list of callbacks adds to those that have been called.
LEMMA Invoked ==
  \A callbacks \in Seq(Event) : events \in Seq(Event) /\ events' = events \o callbacks =>
    /\ events' \in Seq(Event)
    /\ Len(events) \in Nat /\ Len(callbacks) \in Nat
    /\ Len(events') = Len(events) + Len(callbacks)
    /\ DOMAIN events = 1..Len(events) /\ DOMAIN events' = 1..(Len(events) + Len(callbacks))
    /\ \A i \in 1..Len(events) : events'[i] = events[i]
    /\ \A i \in 1..Len(callbacks) : events'[Len(events) + i] = callbacks[i]
    /\ Range(events') = Range(events) \cup Range(callbacks)
    /\ "onResponse" \notin Range(callbacks) => Responses' = Responses
<1> SUFFICES ASSUME NEW callbacks \in Seq(Event), events \in Seq(Event),
                    events' = events \o callbacks,
                    "onResponse" \notin Range(callbacks)
             PROVE  Responses' = Responses
  BY ConcatBounds
<1>1. {n \in DOMAIN events' : events'[n] = "onResponse"}
        = {n \in DOMAIN events : events[n] = "onResponse"}
  BY ConcatBounds
<1>2. QED
  BY <1>1 DEF Responses

\* The lists there are.
LEMMA Lists ==
  /\ \A e \in Event : /\ <<e>> \in Seq(Event) /\ Len(<<e>>) = 1
                      /\ Range(<<e>>) = {e} /\ Last(<<e>>) = e
  /\ \A d, e \in Event : /\ <<d, e>> \in Seq(Event) /\ Len(<<d, e>>) = 2
                         /\ Range(<<d, e>>) = {d, e} /\ Last(<<d, e>>) = e
  /\ /\ AllOfUnary \in Seq(Event) /\ Len(AllOfUnary) = 3 /\ Last(AllOfUnary) = "success"
     /\ Range(AllOfUnary) = {"onHeader", "onTrailer", "success"}
<1>1. ASSUME NEW e \in Event
      PROVE  <<e>> \in Seq(Event) /\ Len(<<e>>) = 1 /\ Range(<<e>>) = {e} /\ Last(<<e>>) = e
  <2>1. DOMAIN <<e>> = {1} /\ <<e>>[1] = e
    OBVIOUS
  <2>2. Range(<<e>>) = {e}
    BY <2>1 DEF Range
  <2>3. QED
    BY <2>2 DEF Last
<1>2. ASSUME NEW d \in Event, NEW e \in Event
      PROVE  /\ <<d, e>> \in Seq(Event) /\ Len(<<d, e>>) = 2
             /\ Range(<<d, e>>) = {d, e} /\ Last(<<d, e>>) = e
  <2>1. DOMAIN <<d, e>> = {1, 2} /\ <<d, e>>[1] = d /\ <<d, e>>[2] = e
    OBVIOUS
  <2>2. Range(<<d, e>>) = {d, e}
    BY <2>1 DEF Range
  <2>3. QED
    BY <2>2 DEF Last
<1>3. /\ AllOfUnary \in Seq(Event) /\ Len(AllOfUnary) = 3 /\ Last(AllOfUnary) = "success"
      /\ Range(AllOfUnary) = {"onHeader", "onTrailer", "success"}
  <2>1. /\ DOMAIN AllOfUnary = {1, 2, 3} /\ AllOfUnary[1] = "onHeader"
        /\ AllOfUnary[2] = "onTrailer" /\ AllOfUnary[3] = "success"
    BY DEF AllOfUnary
  <2>2. Range(AllOfUnary) = {"onHeader", "onTrailer", "success"}
    BY <2>1 DEF Range
  <2>3. AllOfUnary \in Seq(Event) /\ Len(AllOfUnary) = 3
    BY DEF AllOfUnary, Event
  <2>4. QED
    BY <2>1, <2>2, <2>3 DEF Last
<1>4. QED
  BY <1>1, <1>2, <1>3

LEMMA CallState ==
  IInv =>
    /\ SessionTypeOK /\ SessionInv /\ RunInv /\ ClosesOnce
    /\ kind \in {"unary", "serverStreaming"}
    /\ run \in {"none", "calling", "reading", "raised", "done"}
    /\ messages \in 0..MaxMessages /\ unhandled \in BOOLEAN
    /\ fault \in Faults \cup {"none"} /\ "none" \notin Faults
    /\ events \in Seq(Event) /\ threw \subseteq Event
    /\ Mine \in Request
    /\ sentinel[Mine] \in {"none", "open", "resolved", "rejected"}
    /\ cause[Mine] = "canceled" => aborted[Mine]
BY CallbackAssumption DEF IInv, TypeOK, SessionInv, SessionTypeOK, RequestInv

\* A step that calls no callback.
LEMMA SilentNext ==
  IInv /\ Next /\ UNCHANGED <<kind, messages, events, threw, unhandled>> /\
  (\/ fault' = fault /\ (run' = run \/ (run = "none" /\ run' = "calling"))
   \/ /\ run \in {"calling", "reading"} /\ run' = "raised"
      /\ fault' \in Faults \/ (fault' = fault /\ sentinel[Mine] = "rejected")) =>
    RunInv' /\ ClosesOnce'
<1> SUFFICES ASSUME IInv, Next, UNCHANGED <<kind, messages, events, threw, unhandled>>,
                    \/ fault' = fault /\ (run' = run \/ (run = "none" /\ run' = "calling"))
                    \/ /\ run \in {"calling", "reading"} /\ run' = "raised"
                       /\ fault' \in Faults \/ (fault' = fault /\ sentinel[Mine] = "rejected")
             PROVE  RunInv' /\ ClosesOnce'
  OBVIOUS
<1>1. /\ sentinel[Mine] \in {"resolved", "rejected"} =>
           sentinel'[Mine] = sentinel[Mine] /\ cause'[Mine] = cause[Mine]
      /\ aborted[Mine] => aborted'[Mine]
  BY CallState, Settled
<1>2. Responses' = Responses
  BY DEF Responses
<1>3. ClosesOnce'
  BY CallState DEF ClosesOnce
<1>4. run \in {"none", "calling", "reading"} => \A n \in DOMAIN events : events[n] \notin Closing
  BY CallState DEF RunInv, Told, Range
<1>5. RunInv'
  BY <1>1, <1>2, <1>4, CallState DEF RunInv, Told, Closing, CanceledByUser
<1>6. QED
  BY <1>3, <1>5

LEMMA UnaryFulfilledNext ==
  IInv /\ Next /\ UnaryFulfilled =>
    RunInv' /\ ClosesOnce' /\ events' \in Seq(Event) /\ threw' \subseteq Event
<1> SUFFICES ASSUME IInv, Next, UnaryFulfilled
             PROVE  RunInv' /\ ClosesOnce' /\ events' \in Seq(Event) /\ threw' \subseteq Event
  OBVIOUS
<1>1. /\ kind = "unary" /\ kind' = kind /\ run = "calling" /\ run' = "done"
      /\ messages = 0 /\ messages' = 0 /\ events = << >> /\ threw = {}
      /\ sentinel'[Mine] = "resolved" /\ fault = "none" /\ fault' = fault
  BY CallState DEF UnaryFulfilled, RunInv, ReadToTheEnd, SessionTypeOK
<1>2. PICK callbacks \in SomeOfUnary :
        /\ events' = events \o callbacks
        /\ threw' = threw \/ threw' = threw \cup {Last(callbacks)}
  BY DEF UnaryFulfilled, Invoke, InvokeAndThrow, SomeOfUnary
<1>3. /\ callbacks \in Seq(Event) /\ Len(callbacks) \in 1..3
      /\ Range(callbacks) \subseteq {"onHeader", "onTrailer", "success"}
      /\ \A n \in 1..Len(callbacks) : callbacks[n] \in Closing => n = Len(callbacks)
      /\ Last(callbacks) \in Range(callbacks)
  <2>1. CASE callbacks = <<"onHeader">>
    BY <2>1, Lists DEF Event, Closing
  <2>2. CASE callbacks = <<"onHeader", "onTrailer">>
    BY <2>2, Lists DEF Event, Closing
  <2>3. CASE callbacks = AllOfUnary
    <3>1. AllOfUnary[1] = "onHeader" /\ AllOfUnary[2] = "onTrailer"
      BY DEF AllOfUnary
    <3>2. QED
      BY <2>3, <3>1, Lists DEF Closing
  <2>4. QED
    BY <2>1, <2>2, <2>3 DEF SomeOfUnary
<1>4. /\ events' \in Seq(Event) /\ Len(events') = Len(callbacks)
      /\ DOMAIN events' = 1..Len(callbacks)
      /\ \A n \in 1..Len(callbacks) : events'[n] = callbacks[n]
      /\ Range(events') = Range(callbacks)
  <2>1. Len(events) = 0 /\ Range(events) = {}
    BY <1>1, EmptySeq DEF Range
  <2>2. events \in Seq(Event)
    BY CallState
  <2>3. QED
    BY <1>2, <1>3, <2>1, <2>2, Invoked
<1>5. threw' \subseteq Event
  BY <1>1, <1>2, <1>3 DEF Event
<1>6. ClosesOnce'
  BY <1>3, <1>4 DEF ClosesOnce
<1>7. Responses' = 0
  <2>1. {n \in DOMAIN events' : events'[n] = "onResponse"} = {}
    BY <1>3, <1>4 DEF Range
  <2>2. QED
    BY <2>1, FS_EmptySet DEF Responses
<1>8. RunInv'
  <2>1. ~Told("onResponse")' /\ ~Told("canceled")' /\ ~Told("failure")'
    <3>1. \A e \in {"onResponse", "canceled", "failure"} : e \notin Range(events')
      BY <1>3, <1>4
    <3>2. QED
      BY <3>1 DEF Told
  <2>2. Responses' = messages'
    BY <1>1, <1>7
  <2>3. QED
    BY <1>1, <2>1, <2>2 DEF RunInv
<1>9. QED
  BY <1>4, <1>5, <1>6, <1>8

LEMMA UnaryRejectedNext ==
  IInv /\ Next /\ UnaryRejected =>
    RunInv' /\ ClosesOnce' /\ events' \in Seq(Event) /\ threw' \subseteq Event
<1> SUFFICES ASSUME IInv, Next, UnaryRejected
             PROVE  RunInv' /\ ClosesOnce' /\ events' \in Seq(Event) /\ threw' \subseteq Event
  OBVIOUS
<1>1. /\ kind = "unary" /\ kind' = kind /\ run = "raised" /\ run' = "done"
      /\ messages' = messages /\ messages = 0 /\ events = << >> /\ threw = {}
      /\ fault # "none" \/ sentinel[Mine] = "rejected"
      /\ sentinel' = sentinel /\ cause' = cause /\ aborted' = aborted /\ fault' = fault
  BY CallState DEF UnaryRejected, RunInv, sessionVars
<1>2. CASE events' = events /\ threw' = threw
  <2>1. Range(events') = {} /\ DOMAIN events' = {}
    BY <1>1, <1>2 DEF Range
  <2>2. RunInv' /\ ClosesOnce'
    BY <1>1, <1>2, <2>1 DEF RunInv, ClosesOnce, Told
  <2>3. QED
    BY <1>2, <2>2, CallState
<1>3. CASE ~CanceledByUser /\ events' = events \o <<"failure">>
           /\ threw' \in {threw, threw \cup {"failure"}}
  <2>1. events' \in Seq(Event) /\ Len(events') = 1 /\ DOMAIN events' = 1..1
        /\ Range(events') = {"failure"}
    <3>1. Len(events) = 0 /\ Range(events) = {} /\ events \in Seq(Event) /\ "failure" \in Event
      BY <1>1, EmptySeq, CallState DEF Range, Event
    <3>2. QED
      BY <1>3, <3>1, Lists, Invoked
  <2>2. fault # "none" \/ cause[Mine] # "canceled"
    BY <1>1, <1>3, CallState DEF CanceledByUser
  <2>3. ClosesOnce'
    BY <2>1 DEF ClosesOnce
  <2>4. RunInv'
    BY <1>1, <1>3, <2>1, <2>2 DEF RunInv, Told
  <2>5. QED
    BY <1>1, <1>3, <2>1, <2>3, <2>4 DEF Event
<1>4. QED
  BY <1>2, <1>3, Lists DEF UnaryRejected, Invoke, InvokeAndThrow, Event

\* A callback of a stream that does not close it.
LEMMA StreamNext ==
  IInv /\ Next /\ (StreamHeader \/ StreamMessage) =>
    RunInv' /\ ClosesOnce' /\ events' \in Seq(Event) /\ threw' \subseteq Event
<1> SUFFICES ASSUME IInv, Next, StreamHeader \/ StreamMessage
             PROVE  RunInv' /\ ClosesOnce' /\ events' \in Seq(Event) /\ threw' \subseteq Event
  OBVIOUS
<1>1. /\ kind = "serverStreaming" /\ kind' = kind /\ run \in {"calling", "reading"}
      /\ messages' = messages /\ threw = {} /\ \A e \in Closing : ~Told(e)
      /\ fault = "none" /\ fault' = "none"
  BY CallState DEF StreamHeader, StreamMessage, RunInv
<1>2. PICK e \in {"onHeader", "onResponse"} :
        /\ events' = events \o <<e>>
        /\ \/ threw' = threw /\ run' = "reading"
           \/ threw' = threw \cup {e} /\ run' = "raised"
  BY Lists DEF StreamHeader, StreamMessage, Invoke, InvokeAndThrow, Event
<1>3. events' \in Seq(Event) /\ Range(events') = Range(events) \cup {e}
  <2>1. e \in Event
    BY <1>2 DEF Event
  <2>2. <<e>> \in Seq(Event) /\ Range(<<e>>) = {e} /\ events \in Seq(Event)
    BY <2>1, CallState, Lists
  <2>3. QED
    BY <1>2, <2>2, Invoked
<1>4. \A c \in Closing : c \notin Range(events')
  BY <1>1, <1>2, <1>3 DEF Closing, Told
<1>5. \A n \in DOMAIN events' : events'[n] \notin Closing
  BY <1>4 DEF Range
<1>6. ClosesOnce'
  BY <1>5 DEF ClosesOnce
<1>7. RunInv'
  BY <1>1, <1>2, <1>4, <1>5 DEF RunInv, Told, Closing
<1>8. QED
  BY <1>1, <1>2, <1>3, <1>6, <1>7 DEF Event

LEMMA StreamEndNext ==
  IInv /\ Next /\ StreamEnd =>
    RunInv' /\ ClosesOnce' /\ events' \in Seq(Event) /\ threw' \subseteq Event
<1> SUFFICES ASSUME IInv, Next, StreamEnd
             PROVE  RunInv' /\ ClosesOnce' /\ events' \in Seq(Event) /\ threw' \subseteq Event
  OBVIOUS
<1>1. /\ kind = "serverStreaming" /\ kind' = kind /\ run = "reading"
      /\ messages' = messages /\ Responses = messages
      /\ threw = {} /\ \A e \in Closing : ~Told(e)
      /\ sentinel'[Mine] = "resolved" /\ fault = "none" /\ fault' = fault
  BY CallState DEF StreamEnd, RunInv, ReadToTheEnd, SessionTypeOK
<1>2. \A n \in DOMAIN events : events[n] \notin Closing
  BY <1>1 DEF Told, Range
<1>3. CASE events' = events \o <<"onTrailer">> /\ threw' = {"onTrailer"} /\ run' = "raised"
  <2>1. events' \in Seq(Event) /\ Range(events') = Range(events) \cup {"onTrailer"}
    <3>1. /\ <<"onTrailer">> \in Seq(Event) /\ Range(<<"onTrailer">>) = {"onTrailer"}
          /\ events \in Seq(Event)
      BY CallState, Lists DEF Event
    <3>2. QED
      BY <1>3, <3>1, Invoked
  <2>2. \A c \in Closing : c \notin Range(events')
    BY <1>1, <2>1 DEF Closing, Told
  <2>3. \A n \in DOMAIN events' : events'[n] \notin Closing
    BY <2>2 DEF Range
  <2>4. ClosesOnce'
    BY <2>3 DEF ClosesOnce
  <2>5. RunInv'
    BY <1>1, <1>3, <2>2, <2>3 DEF RunInv, Told, Closing
  <2>6. QED
    BY <1>3, <2>1, <2>4, <2>5 DEF Event
<1>4. CASE /\ events' = events \o <<"onTrailer", "success">>
           /\ \/ threw' = {} /\ run' = "done"
              \/ threw' = {"success"} /\ run' = "raised"
  <2>1. /\ events' \in Seq(Event) /\ Range(events') = Range(events) \cup {"onTrailer", "success"}
        /\ Responses' = Responses
        /\ Len(events) \in Nat /\ Len(events') = Len(events) + 2
        /\ DOMAIN events = 1..Len(events) /\ DOMAIN events' = 1..(Len(events) + 2)
        /\ \A i \in 1..Len(events) : events'[i] = events[i]
        /\ \A i \in 1..2 : events'[Len(events) + i] = <<"onTrailer", "success">>[i]
    <3>1. /\ <<"onTrailer", "success">> \in Seq(Event) /\ Len(<<"onTrailer", "success">>) = 2
          /\ Range(<<"onTrailer", "success">>) = {"onTrailer", "success"}
          /\ events \in Seq(Event)
      BY CallState, Lists DEF Event
    <3>2. "onResponse" \notin Range(<<"onTrailer", "success">>)
      BY <3>1
    <3>3. QED
      BY <1>4, <3>1, <3>2, Invoked
  <2>2. events'[Len(events) + 1] = "onTrailer" /\ events'[Len(events) + 2] = "success"
    <3>1. 1 \in 1..2 /\ 2 \in 1..2
      OBVIOUS
    <3>2. QED
      BY <2>1, <3>1
  <2>3. \A n \in DOMAIN events' :
          n \in DOMAIN events \/ n = Len(events) + 1 \/ n = Len(events) + 2
    BY <2>1
  <2>4. \A n \in DOMAIN events' : events'[n] \in Closing =>
          n = Len(events') /\ events'[n] = "success"
    BY <1>2, <2>1, <2>2, <2>3 DEF Closing
  <2>5. ClosesOnce'
    BY <2>4 DEF ClosesOnce
  <2>6. ~Told("canceled")' /\ ~Told("failure")'
    BY <1>1, <2>1 DEF Told, Closing
  <2>7. RunInv'
    BY <1>1, <1>4, <2>1, <2>4, <2>6 DEF RunInv
  <2>8. QED
    BY <1>4, <2>1, <2>5, <2>7 DEF Event
<1>5. QED
  BY <1>1, <1>3, <1>4, Lists DEF StreamEnd, Invoke, InvokeAndThrow, Event

LEMMA StreamCatchNext ==
  IInv /\ Next /\ StreamCatch =>
    RunInv' /\ ClosesOnce' /\ events' \in Seq(Event) /\ threw' \subseteq Event
<1> SUFFICES ASSUME IInv, Next, StreamCatch
             PROVE  RunInv' /\ ClosesOnce' /\ events' \in Seq(Event) /\ threw' \subseteq Event
  OBVIOUS
<1>1. /\ kind = "serverStreaming" /\ kind' = kind /\ run = "raised" /\ run' = "done"
      /\ messages' = messages /\ sentinel' = sentinel /\ cause' = cause /\ aborted' = aborted
      /\ fault' = fault
      /\ threw = {} => fault # "none" \/ sentinel[Mine] = "rejected"
      /\ "failure" \notin threw /\ ~Told("failure") /\ ~Told("canceled")
      /\ \A n \in DOMAIN events : events[n] \in Closing =>
           n = Len(events) /\ events[n] = "success" /\ "success" \in threw
      /\ Told("success") =>
           sentinel[Mine] = "resolved" /\ fault = "none" /\ Responses = messages
  BY CallState DEF StreamCatch, RunInv, sessionVars
<1>2. PICK e \in {"canceled", "failure"} :
        /\ e = IF threw = {} /\ CanceledByUser THEN "canceled" ELSE "failure"
        /\ events' = events \o <<e>>
        /\ threw' \in {threw, threw \cup {e}}
  BY Lists DEF StreamCatch, Invoke, InvokeAndThrow, Event
<1>3. /\ events' \in Seq(Event) /\ Range(events') = Range(events) \cup {e}
      /\ Responses' = Responses
      /\ Len(events) \in Nat /\ Len(events') = Len(events) + 1
      /\ DOMAIN events = 1..Len(events) /\ DOMAIN events' = 1..(Len(events) + 1)
      /\ \A i \in 1..Len(events) : events'[i] = events[i]
      /\ events'[Len(events) + 1] = e
  <2>1. <<e>> \in Seq(Event) /\ Len(<<e>>) = 1 /\ Range(<<e>>) = {e} /\ <<e>>[1] = e
    BY <1>2, Lists DEF Event
  <2>2. 1 \in 1..Len(<<e>>)
    BY <2>1
  <2>3. QED
    BY <1>2, <2>1, <2>2, CallState, Invoked
<1>4. ClosesOnce'
  <2>1. SUFFICES ASSUME NEW n \in DOMAIN events', events'[n] \in Closing, n # Len(events')
                 PROVE  /\ n = Len(events') - 1
                        /\ kind' = "serverStreaming" /\ "success" \in threw'
                        /\ events'[n] = "success" /\ Last(events') = "failure"
    BY DEF ClosesOnce, Last
  <2>2. n \in 1..Len(events) /\ events'[n] = events[n]
    BY <1>3, <2>1
  <2>3. n = Len(events) /\ events[n] = "success" /\ "success" \in threw
    BY <1>1, <1>3, <2>1, <2>2
  <2>4. n = Len(events') - 1 /\ Last(events') = e
    BY <1>3, <2>3 DEF Last
  <2>5. e = "failure" /\ "success" \in threw'
    BY <1>2, <2>3
  <2>6. QED
    BY <1>1, <2>2, <2>3, <2>4, <2>5
<1>5. RunInv'
  <2>1. Told("success")' => Told("success")
    BY <1>2, <1>3 DEF Told
  <2>2. Told("canceled")' => CanceledByUser'
    <3>1. CanceledByUser' = CanceledByUser
      BY <1>1 DEF CanceledByUser
    <3>2. Told("canceled")' => e = "canceled"
      BY <1>1, <1>3 DEF Told
    <3>3. QED
      BY <1>2, <3>1, <3>2
  <2>3. Told("failure")' /\ threw' \subseteq {"failure"} =>
          fault # "none" \/ (sentinel[Mine] = "rejected" /\ cause[Mine] # "canceled")
    <3>1. SUFFICES ASSUME Told("failure")', threw' \subseteq {"failure"}
                   PROVE  fault # "none" \/ (sentinel[Mine] = "rejected" /\ cause[Mine] # "canceled")
      OBVIOUS
    <3>2. e = "failure" /\ threw = {}
      BY <1>1, <1>2, <1>3, <3>1 DEF Told
    <3>3. QED
      BY <1>1, <1>2, <3>2, CallState DEF CanceledByUser
  <2>4. QED
    BY <1>1, <1>3, <2>1, <2>2, <2>3 DEF RunInv
<1>6. threw' \subseteq Event
  BY <1>2, CallState DEF Event
<1>7. QED
  BY <1>3, <1>4, <1>5, <1>6

LEMMA ServerSendsNext ==
  IInv /\ ServerSends => RunInv' /\ ClosesOnce' /\ messages' \in 0..MaxMessages
<1> SUFFICES ASSUME IInv, ServerSends
             PROVE  RunInv' /\ ClosesOnce' /\ messages' \in 0..MaxMessages
  OBVIOUS
<1>1. /\ UNCHANGED <<sessionVars, kind, run, fault, events, threw, unhandled>>
      /\ kind = "serverStreaming" /\ ~Told("success")
      /\ messages' = messages + 1 /\ messages < MaxMessages
  BY CallState DEF ServerSends, Usable, Active, RunInv
<1>2. ClosesOnce'
  BY <1>1, CallState DEF ClosesOnce
<1>3. Responses' = Responses
  BY <1>1 DEF Responses
<1>4. RunInv'
  BY <1>1, <1>3, CallState DEF RunInv, Told, sessionVars, CanceledByUser
<1>5. messages' \in 0..MaxMessages
  BY <1>1, CallState, CallbackAssumption
<1>6. QED
  BY <1>2, <1>4, <1>5

LEMMA InitInv == Init => IInv
<1> SUFFICES ASSUME Init
             PROVE  IInv
  OBVIOUS
<1>1. SessionInv
  BY SessionStart DEF Init
<1>2. /\ kind \in {"unary", "serverStreaming"}
      /\ run = "none" /\ messages = 0 /\ fault = "none"
      /\ events = << >> /\ threw = {} /\ unhandled = FALSE
  BY DEF Init
<1>3. DOMAIN events = {} /\ Range(events) = {} /\ events \in Seq(Event)
  BY <1>2, EmptySeq DEF Range
<1>4. TypeOK
  <2>1. messages \in 0..MaxMessages
    BY <1>2, CallbackAssumption
  <2>2. QED
    BY <1>1, <1>2, <1>3, <2>1 DEF TypeOK, SessionInv
<1>5. RunInv
  BY <1>2, <1>3 DEF RunInv, Told
<1>6. ClosesOnce
  BY <1>3 DEF ClosesOnce
<1>7. QED
  BY <1>1, <1>4, <1>5, <1>6 DEF IInv

LEMMA NextInv == IInv /\ [Next]_vars => IInv'
<1> SUFFICES ASSUME IInv, [Next]_vars
             PROVE  IInv'
  OBVIOUS
<1>1. SessionInv' /\ SessionTypeOK'
  BY CallState, SessionNext DEF SessionInv
<1>2. SUFFICES /\ RunInv' /\ ClosesOnce'
               /\ kind' = kind /\ run' \in {"none", "calling", "reading", "raised", "done"}
               /\ messages' \in 0..MaxMessages /\ unhandled' \in BOOLEAN
               /\ fault' \in Faults \cup {"none"}
               /\ events' \in Seq(Event) /\ threw' \subseteq Event
  BY <1>1, CallState DEF IInv, TypeOK
<1>3. CASE UNCHANGED vars
  <2>1. Responses' = Responses
    BY <1>3 DEF vars, clientVars, Responses
  <2>2. QED
    BY <1>3, <2>1, CallState DEF vars, clientVars, sessionVars, RunInv, ClosesOnce, Told,
                                   CanceledByUser
<1>4. CASE Next
  <2>1. CASE Call
    BY <1>4, <2>1, CallState, SilentNext DEF Call
  <2>2. CASE Cancel \/ \E r \in Request : Requested(r) \/ OtherReads(r) \/ Network(r)
    <3>1. UNCHANGED clientVars
      BY <2>2 DEF Cancel, Requested, OtherReads, Network
    <3>2. QED
      BY <1>4, <3>1, CallState, SilentNext DEF clientVars
  <2>3. CASE ServerSends
    BY <2>3, CallState, ServerSendsNext DEF ServerSends
  <2>4. CASE Raised \/ Faulted
    BY <1>4, <2>4, CallState, SilentNext DEF Raised, Faulted
  <2>5. CASE UnaryFulfilled
    <3>1. /\ kind' = kind /\ messages' = messages /\ run' = "done"
          /\ unhandled' \in {unhandled, TRUE} /\ fault' = fault
      BY <2>5 DEF UnaryFulfilled
    <3>2. QED
      BY <1>4, <2>5, <3>1, CallState, UnaryFulfilledNext
  <2>6. CASE UnaryRejected
    <3>1. /\ kind' = kind /\ messages' = messages /\ run' = "done"
          /\ unhandled' \in {unhandled, TRUE} /\ fault' = fault
      BY <2>6 DEF UnaryRejected
    <3>2. QED
      BY <1>4, <2>6, <3>1, CallState, UnaryRejectedNext
  <2>7. CASE StreamHeader \/ StreamMessage
    <3>1. /\ kind' = kind /\ messages' = messages /\ run' \in {run, "reading", "raised"}
          /\ unhandled' = unhandled /\ fault' = fault
      BY <2>7 DEF StreamHeader, StreamMessage
    <3>2. QED
      BY <1>4, <2>7, <3>1, CallState, StreamNext
  <2>8. CASE StreamEnd
    <3>1. /\ kind' = kind /\ messages' = messages /\ run' \in {"done", "raised"}
          /\ unhandled' = unhandled /\ fault' = fault
      BY <2>8 DEF StreamEnd
    <3>2. QED
      BY <1>4, <2>8, <3>1, CallState, StreamEndNext
  <2>9. CASE StreamCatch
    <3>1. /\ kind' = kind /\ messages' = messages /\ run' = "done"
          /\ unhandled' \in {unhandled, TRUE} /\ fault' = fault
      BY <2>9 DEF StreamCatch
    <3>2. QED
      BY <1>4, <2>9, <3>1, CallState, StreamCatchNext
  <2>10. QED
    BY <1>4, <2>1, <2>2, <2>3, <2>4, <2>5, <2>6, <2>7, <2>8, <2>9 DEF Next, Handled
<1>5. QED
  BY <1>3, <1>4

\* What holds in every reachable state of a call with callbacks, and of the sessions that it
\* shares with other requests.
THEOREM Invariance == Spec => []IInv
BY InitInv, NextInv, PTL DEF Spec

-----------------------------------------------------------------------------
(* What follows from it.                                                   *)

\* Every variable of the call and of the sessions keeps its type.
THEOREM TypeCorrect == Spec => []TypeOK
<1>1. IInv => TypeOK
  BY DEF IInv
<1>2. QED
  BY <1>1, Invariance, PTL

\* With keepSessionOpen there is one open session, but for those that were connecting
\* beside another one: however many requests there are, and whatever fails.
THEOREM OneSessionIsKept == Spec => []KeepsOneSession
<1>1. IInv => KeepsOneSession
  BY DEF IInv, SessionInv, OneSessionInv, KeepsOneSession
<1>2. QED
  BY <1>1, Invariance, PTL

\* The error of a session rejects the requests that are active on it and no others, and is
\* uncaught only if there are none: the listeners are neither lost nor left behind.
THEOREM SessionErrorsArrive == Spec => ErrorReachesItsRequests
<1>1. IInv /\ [Next]_vars =>
        [\A s \in Request : session[s] \in {"open", "closing"} /\ session'[s] = "failed" =>
           /\ {r \in Request : sentinel[r] = "open" /\ sentinel'[r] = "rejected"} = ActiveOn(s)
           /\ s \in uncaught' => ActiveOn(s) = {}]_sessionVars
  <2> SUFFICES ASSUME IInv, [Next]_vars, NEW s \in Request, sessionVars' # sessionVars,
                      session[s] \in {"open", "closing"}, session'[s] = "failed"
               PROVE  /\ {r \in Request : sentinel[r] = "open" /\ sentinel'[r] = "rejected"}
                           = ActiveOn(s)
                      /\ s \in uncaught' => ActiveOn(s) = {}
    OBVIOUS
  <2> USE DEF SessionTypeOK
  <2>1. SessionInv /\ SessionTypeOK
    BY CallState
  <2>2. PICK r \in Request : SessionStep(r)
    BY <2>1, SessionSteps DEF vars, sessionVars
  <2>3. SessionFails(r) /\ r = s
    BY <2>1, <2>2 DEF SessionStep, OtherOrigin, H2Request, H2ConnectedSession, Connects,
       ConnectFails, SentinelFinally, PeerCloses, SessionCloses, SessionFails, StreamFails,
       StreamAborts, ServerResponds, ServerFinishes, ReadToTheEnd, Abort
  <2>4. {q \in listeners[s] : sentinel[q] = "open"} = ActiveOn(s)
    BY <2>1, SessionsAssumption DEF SessionInv, ListenerInv, RequestInv, ActiveOn, Active
  <2>5. {q \in Request : sentinel[q] = "open" /\ sentinel'[q] = "rejected"} = ActiveOn(s)
    BY <2>1, <2>3, <2>4 DEF SessionFails, RejectAll
  <2>6. s \notin uncaught
    BY <2>1 DEF SessionInv, UncaughtInv
  <2>7. s \in uncaught' => ActiveOn(s) = {}
    BY <2>3, <2>4, <2>6 DEF SessionFails
  <2>8. QED
    BY <2>5, <2>7
<1>2. QED
  BY <1>1, Invariance, PTL DEF Spec, ErrorReachesItsRequests

\* The user hears of the end of a call once, and of nothing after it, unless onClose of a
\* streaming call throws: run().catch() calls it again.
THEOREM CallsCloseOnce == Spec => []ClosesOnce
<1>1. IInv => ClosesOnce
  BY DEF IInv
<1>2. QED
  BY <1>1, Invariance, PTL

\* What the callbacks are told is true: success only of a response that was read to its end,
\* with all of its messages and no error declared or found; the silent close only of a call the
\* user has canceled and whose error is Canceled; and a failure only of a request that failed
\* otherwise, or of an error of the server or the transport, if no callback threw one.
THEOREM CallbacksTellTheTruth == Spec => []OutcomeIsTrue
<1>1. IInv => OutcomeIsTrue
  BY CallState DEF RunInv, OutcomeIsTrue, Told, CanceledByUser
<1>2. QED
  BY <1>1, Invariance, PTL
=============================================================================
