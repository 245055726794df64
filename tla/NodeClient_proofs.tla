-------------------------- MODULE NodeClient_proofs --------------------------
(***************************************************************************)
(* Proofs about NodeClient for bodies of any length: its type invariant,   *)
(* what the end of the response means, and what the sentinel keeps         *)
(* sinkRequest() from doing.                                               *)
(***************************************************************************)
EXTENDS NodeClient, TLAPS

-----------------------------------------------------------------------------
(* The inductive invariant.                                                *)

\* Until the connection stands, nothing has failed and nothing is under way.
ConnInv ==
  /\ conn \in {"connecting", "assigned"} => sentinel = "open"
  /\ conn # "connected" => stream = "none" /\ body = "idle" /\ sink = "none"
  /\ stream = "none" => server = "silent" /\ upload = "none"
  /\ server = "silent" => reader = "none"

\* A reader that has met the end of the stream has all of it: the server cannot
\* send after that, or after a reset, and only the sentinel is left to decide.
EndInv ==
  /\ reader \in {"ending", "done"} => taken = data /\ (server = "finished" \/ stream = "aborted")
  /\ reader = "done" => sentinel = "resolved"

\* The body is pulled by the loop of sinkRequest() only.  An upload that rejects
\* does so because of the sentinel, and after the loop has given up the body.
UploadInv ==
  /\ body = "pulling" <=> sink = "pulling"
  /\ upload \in {"aborting", "rejected"} => sentinel = "rejected"
  /\ upload = "rejected" => body \in {"told", "ended"}
  /\ body = "told" => upload = "rejected"

IInv == TypeOK /\ ConnInv /\ EndInv /\ UploadInv

-----------------------------------------------------------------------------
(* It is an invariant.                                                     *)

LEMMA InitInv == Init => IInv
<1> SUFFICES ASSUME Init
             PROVE  IInv
  OBVIOUS
<1>1. chunks \in 0..MaxChunks /\ data \in 0..MaxData /\ taken \in 0..data
  BY NodeClientAssumption DEF Init
<1>2. TypeOK
  BY <1>1 DEF Init, TypeOK
<1>3. ConnInv /\ EndInv /\ UploadInv
  BY DEF Init, ConnInv, EndInv, UploadInv
<1>4. QED
  BY <1>2, <1>3 DEF IInv

LEMMA NextInv == IInv /\ [Next]_vars => IInv'
<1> SUFFICES ASSUME IInv, [Next]_vars
             PROVE  IInv'
  OBVIOUS
<1> USE NodeClientAssumption DEF IInv, TypeOK, ConnInv, EndInv, UploadInv
<1>1. CASE Connect
  BY <1>1 DEF Connect, upVars, downVars
<1>2. CASE ConnectFails
  BY <1>2 DEF ConnectFails, Reject, upVars, downVars
<1>3. CASE ReuseSocket
  BY <1>3 DEF ReuseSocket, upVars, downVars
<1>4. CASE StreamFails
  BY <1>4 DEF StreamFails, Reject, upVars, downVars
<1>5. CASE StreamCloses
  BY <1>5 DEF StreamCloses, upVars, downVars
<1>6. CASE SentinelFinally
  BY <1>6 DEF SentinelFinally, upVars, downVars
<1>7. CASE BodyYields
  BY <1>7 DEF BodyYields, upVars, downVars
<1>8. CASE BodyEnds
  BY <1>8 DEF BodyEnds, upVars, downVars
<1>9. CASE BodyFails
  BY <1>9 DEF BodyFails, Reject, upVars, downVars
<1>10. CASE WriteOk
  BY <1>10 DEF WriteOk, upVars, downVars
<1>11. CASE WriteAfterEnd
  BY <1>11 DEF WriteAfterEnd, upVars, downVars
<1>12. CASE WriteFails
  BY <1>12 DEF WriteFails, Reject, upVars, downVars
<1>13. CASE EndFlushed
  BY <1>13 DEF EndFlushed, upVars, downVars
<1>14. CASE SinkRejects
  BY <1>14 DEF SinkRejects, upVars, downVars
<1>15. CASE UploadAborted
  BY <1>15 DEF UploadAborted, upVars, downVars
<1>16. CASE ServerResponds
  BY <1>16 DEF ServerResponds, upVars, downVars
<1>17. CASE ServerSends
  BY <1>17 DEF ServerSends, upVars, downVars
<1>18. CASE ServerFinishes
  BY <1>18 DEF ServerFinishes, upVars, downVars
<1>19. CASE ReaderNext
  BY <1>19 DEF ReaderNext, upVars, downVars
<1>20. CASE ReadData
  BY <1>20 DEF ReadData, upVars, downVars
<1>21. CASE ReadEnd
  BY <1>21 DEF ReadEnd, upVars, downVars
<1>22. CASE ReadDone
  BY <1>22 DEF ReadDone, Resolve, upVars, downVars
<1>23. CASE ReadError
  BY <1>23 DEF ReadError, upVars, downVars
<1>24. CASE ReaderThrows
  BY <1>24 DEF ReaderThrows, Reject, upVars, downVars
<1>25. CASE ReaderLeaves
  BY <1>25 DEF ReaderLeaves, upVars, downVars
<1>26. CASE StreamAborts
  BY <1>26 DEF StreamAborts, upVars, downVars
<1>27. CASE ReadReset
  BY <1>27 DEF ReadReset, upVars, downVars
<1>28. CASE UNCHANGED vars
  BY <1>28 DEF vars, upVars, downVars
<1>29. QED
  BY <1>1, <1>2, <1>3, <1>4, <1>5, <1>6, <1>7, <1>8, <1>9, <1>10, <1>11, <1>12, <1>13,
     <1>14, <1>15, <1>16, <1>17, <1>18, <1>19, <1>20, <1>21, <1>22, <1>23, <1>24, <1>25, <1>26,
     <1>27, <1>28
     DEF Next, Dial, BodySettles, WriteSettles, ServerActs, ReadSettles

\* The inductive invariant holds: what the theorems below rest on.
THEOREM Invariance == Spec => []IInv
<1>1. Init => IInv
  BY InitInv
<1>2. IInv /\ [Next]_vars => IInv'
  BY NextInv
<1>3. QED
  BY <1>1, <1>2, PTL DEF Spec

-----------------------------------------------------------------------------
(* What it implies.                                                        *)

\* The state of connection, sentinel, upload, stream and reader has its type.
THEOREM TypeCorrect == Spec => []TypeOK
<1>1. IInv => TypeOK
  BY DEF IInv
<1>2. QED
  BY <1>1, Invariance, PTL

\* The response iterable ends for a reader only when it has given all that the server
\* sent, and no error came before: an error that comes while next() awaits the
\* sentinel makes it throw.  A reset that is no error to Node.js ends it early.
THEOREM EndOfResponse == Spec => []DoneMeansComplete
<1>1. IInv => DoneMeansComplete
  BY DEF IInv, EndInv, DoneMeansComplete
<1>2. QED
  BY <1>1, Invariance, PTL

\* sinkRequest() does not call next() of the body once the sentinel is rejected: no
\* connection is made after a rejection, and the loop looks at the sentinel first.
THEOREM RejectionStopsTheUpload == Spec => NoPullAfterRejection
<1>1. IInv /\ [Next]_vars => [sentinel = "rejected" /\ body # "pulling" => body' # "pulling"]_vars
  <2> SUFFICES ASSUME IInv, Next, sentinel = "rejected", body # "pulling"
               PROVE  body' # "pulling"
    BY DEF vars
  <2>1. CASE Dial
    BY <2>1 DEF Dial, Connect, ConnectFails, IInv, ConnInv, upVars
  <2>2. CASE BodySettles
    BY <2>2 DEF BodySettles, BodyYields, BodyEnds, BodyFails
  <2>3. CASE WriteSettles
    BY <2>3 DEF WriteSettles, WriteOk, WriteAfterEnd, WriteFails, EndFlushed
  <2>4. CASE ReuseSocket \/ StreamFails \/ StreamAborts \/ StreamCloses \/ SentinelFinally
    BY <2>4 DEF ReuseSocket, StreamFails, StreamAborts, StreamCloses, SentinelFinally, upVars
  <2>5. CASE SinkRejects \/ UploadAborted
    BY <2>5 DEF SinkRejects, UploadAborted
  <2>6. CASE ServerActs \/ ReaderNext \/ ReadSettles \/ ReaderThrows \/ ReaderLeaves
    BY <2>6 DEF ServerActs, ServerResponds, ServerSends, ServerFinishes, ReaderNext, ReadSettles,
                ReadData, ReadEnd, ReadReset, ReadDone, ReadError, ReaderThrows, ReaderLeaves, upVars
  <2>7. QED
    BY <2>1, <2>2, <2>3, <2>4, <2>5, <2>6 DEF Next
<1>2. QED
  BY <1>1, Invariance, PTL DEF Spec, NoPullAfterRejection

\* pipeTo() rejects an upload only for a rejected sentinel, and only when the body has
\* been told or is over: no request body is left suspended by a failed upload.
THEOREM FailedUploadEndsTheBody ==
  Spec => [](upload = "rejected" => sentinel = "rejected" /\ body \in {"told", "ended"})
<1>1. IInv => (upload = "rejected" => sentinel = "rejected" /\ body \in {"told", "ended"})
  BY DEF IInv, UploadInv
<1>2. QED
  BY <1>1, Invariance, PTL
=============================================================================
