----------------------------- MODULE NodeClient -----------------------------
(***************************************************************************)
(* One request of createNodeHttp1Client or createNodeHttp2Client           *)
(* (connect-node/src/private/node-universal-client.ts): the sentinel that  *)
(* joins connection, upload and download, sinkRequest() under pipeTo(),    *)
(* and the response iterable under its reader.                             *)
(*                                                                         *)
(* The request body is a generator that rethrows (that is how pipe() with  *)
(* propagateDownStreamError behaves, see Pipeline).  Sockets, streams and  *)
(* the server are Node.js and the network: they do what they like.         *)
(***************************************************************************)
EXTENDS Naturals

CONSTANTS
  MaxChunks,   \* bound: chunks of the request body
  MaxData      \* bound: chunks of the response body

ASSUME NodeClientAssumption == MaxChunks \in Nat /\ MaxData \in Nat

VARIABLES
  opt,            \* HTTP version, and keepSessionOpen of the HTTP/2 client
  conn,           \* "assigned": an HTTP/1 socket that was connected before
  session,        \* the HTTP/2 session
  sentinel,
  response,       \* the promise the client function returns
  body,           \* the iterator of the request body
  chunks,         \* how many chunks it yielded
  sink,           \* where the loop of sinkRequest() is
  upload,         \* the promise of pipeTo()
  stream,         \* the request, its stream
  writableEnded,
  server,         \* what the server has sent
  data,           \* how many chunks of the response it has sent
  taken,          \* how many of them the reader has got
  reader          \* the consumer of the response body

upVars == <<body, chunks, sink, upload>>
downVars == <<server, data, taken, reader>>
vars == <<opt, conn, session, sentinel, response, upVars, stream, writableEnded, downVars>>

TypeOK ==
  /\ opt \in [version : {1, 2}, keepOpen : BOOLEAN]
  /\ conn \in {"connecting", "connected", "assigned", "failed"}
  /\ session \in {"none", "open", "closing"}
  /\ sentinel \in {"open", "resolved", "rejected"}
  /\ response \in {"pending", "resolved", "rejected"}
  /\ body \in {"idle", "pulling", "ended", "told"}
  /\ chunks \in 0..MaxChunks
  /\ sink \in {"none", "pulling", "writing", "ending", "ended", "stopped", "notified"}
  /\ upload \in {"none", "open", "aborting", "resolved", "rejected"}
  /\ stream \in {"none", "open", "closed", "aborted", "destroyed"}
  /\ writableEnded \in BOOLEAN
  /\ server \in {"silent", "headers", "finished"}
  /\ data \in 0..MaxData /\ taken \in 0..data
  /\ reader \in {"none", "idle", "awaiting", "ending", "done", "errored", "threw", "left"}

Init ==
  /\ opt \in [version : {1, 2}, keepOpen : BOOLEAN]
  /\ conn = "connecting" /\ session = "none"
  /\ sentinel = "open" /\ response = "pending"
  /\ body = "idle" /\ chunks = 0 /\ sink = "none" /\ upload = "none"
  /\ stream = "none" /\ writableEnded = FALSE
  /\ server = "silent" /\ data = 0 /\ taken = 0 /\ reader = "none"

-----------------------------------------------------------------------------
(* The sentinel: the first call of resolve() or reject() decides.          *)

\* Mutant: no sentinel.catch() rejects the promise of the client.
Reject_Unseen ==
  /\ sentinel' = IF sentinel = "open" THEN "rejected" ELSE sentinel
  /\ UNCHANGED response

\* sentinel.catch() rejects the promise of the client function; the other
\* reactions to a rejection are steps of their own.
Reject ==
  /\ sentinel' = IF sentinel = "open" THEN "rejected" ELSE sentinel
  /\ response' = IF sentinel = "open" /\ response = "pending" THEN "rejected" ELSE response

Resolve == sentinel' = IF sentinel = "open" THEN "resolved" ELSE sentinel

\* sentinel.finally() of h2ConnectedSession.
SentinelFinally ==
  /\ sentinel # "open" /\ session = "open" /\ ~opt.keepOpen
  /\ session' = "closing"
  /\ UNCHANGED <<opt, conn, sentinel, response, upVars, stream, writableEnded, downVars>>

-----------------------------------------------------------------------------
(* The connection.  onStream and onRequest start the upload, whose sink    *)
(* pulls the body at once.                                                 *)

Connect ==
  /\ conn = "connecting"
  /\ conn' = "connected"
  /\ session' = IF opt.version = 2 THEN "open" ELSE "none"
  /\ stream' = "open"
  /\ body' = "pulling" /\ sink' = "pulling" /\ upload' = "open"
  /\ UNCHANGED <<opt, sentinel, response, chunks, writableEnded, downVars>>

\* Mutant: nobody listens to the errors of the socket or session.
ConnectFails_Unheard ==
  /\ conn \in {"connecting", "assigned"}
  /\ conn' = "failed"
  /\ UNCHANGED <<opt, session, sentinel, response, upVars, stream, writableEnded, downVars>>

\* The socket or session cannot connect; for HTTP/1, also the signal aborts.
ConnectFails ==
  /\ conn \in {"connecting", "assigned"}
  /\ conn' = "failed"
  /\ Reject
  /\ UNCHANGED <<opt, session, upVars, stream, writableEnded, downVars>>

\* h1Request starts the upload on "connect", an event that a socket the agent
\* keeps alive does not emit again.
ReuseSocket ==
  /\ opt.version = 1 /\ conn = "connecting"
  /\ conn' = "assigned"
  /\ UNCHANGED <<opt, session, sentinel, response, upVars, stream, writableEnded, downVars>>

\* An "error" event: the connection breaks, the signal aborts, the peer resets
\* the stream with the code of an error, or an HTTP/1 socket closes too early.
StreamFails ==
  /\ stream = "open"
  /\ stream' = "destroyed"
  /\ Reject
  /\ UNCHANGED <<opt, conn, session, upVars, writableEnded, downVars>>

\* The peer resets an HTTP/2 stream with NO_ERROR or CANCEL, or closes the session
\* in good order: Node.js ends the client's side and emits "aborted" and "close".
\* The code listens for "abort", which is never emitted: the sentinel stays open.
StreamAborts ==
  /\ opt.version = 2 /\ stream = "open"
  /\ stream' = "aborted" /\ writableEnded' = TRUE
  /\ UNCHANGED <<opt, conn, session, sentinel, response, upVars, downVars>>

\* Both sides are done, or the server is and closes without an error: then
\* Node.js ends the client's side of an HTTP/2 stream.
StreamCloses ==
  /\ stream = "open" /\ server = "finished"
  /\ stream' = "closed" /\ writableEnded' = (writableEnded \/ opt.version = 2)
  /\ UNCHANGED <<opt, conn, session, sentinel, response, upVars, downVars>>

-----------------------------------------------------------------------------
(* sinkRequest() and the body it pulls.  A rejected sentinel does not keep *)
(* it from writing the chunk it awaited, only from pulling another one.    *)

BodyYields ==
  /\ body = "pulling" /\ chunks < MaxChunks
  /\ body' = "idle" /\ chunks' = chunks + 1
  /\ sink' = "writing"
  /\ UNCHANGED <<opt, conn, session, sentinel, response, upload, stream, writableEnded, downVars>>

BodyEnds ==
  /\ body = "pulling"
  /\ body' = "ended" /\ sink' = "ending" /\ writableEnded' = TRUE
  /\ UNCHANGED <<opt, conn, session, sentinel, response, chunks, upload, stream, downVars>>

BodyFails ==
  /\ body = "pulling"
  /\ body' = "ended" /\ sink' = "stopped"
  /\ Reject
  /\ UNCHANGED <<opt, conn, session, chunks, upload, stream, writableEnded, downVars>>

WriteOk ==
  /\ sink = "writing" /\ stream = "open" /\ ~writableEnded
  /\ \/ sentinel = "rejected" /\ sink' = "stopped" /\ UNCHANGED body
     \/ sentinel # "rejected" /\ sink' = "pulling" /\ body' = "pulling"
  /\ UNCHANGED <<opt, conn, session, sentinel, response, chunks, upload, stream, writableEnded,
                 downVars>>

\* ERR_STREAM_WRITE_AFTER_END: it.throw() ends the generator that pipeTo() put
\* between the body and the sink, which has no handler at its yield.
WriteAfterEnd ==
  /\ sink = "writing" /\ writableEnded
  /\ sink' = "notified"
  /\ UNCHANGED <<opt, conn, session, sentinel, response, body, chunks, upload, stream,
                 writableEnded, downVars>>

WriteFails ==
  /\ sink = "writing" /\ stream \in {"closed", "aborted", "destroyed"}
  /\ sink' = "stopped"
  /\ Reject
  /\ UNCHANGED <<opt, conn, session, body, chunks, upload, stream, writableEnded, downVars>>

\* The callback of request.end() resolves the sink, unless it has rejected.
EndFlushed ==
  /\ sink = "ending"
  /\ sink' = "ended"
  /\ upload' = IF upload = "open" THEN "resolved" ELSE upload
  /\ UNCHANGED <<opt, conn, session, sentinel, response, body, chunks, stream, writableEnded,
                 downVars>>

\* Mutant: pipeTo() without propagateDownStreamError.
SinkRejects_Only ==
  /\ upload = "open" /\ sentinel = "rejected"
  /\ upload' = "rejected"
  /\ UNCHANGED <<opt, conn, session, sentinel, response, body, chunks, sink, stream,
                 writableEnded, downVars>>

\* sentinel.catch(reject) rejects the sink, and pipeTo() aborts the body.
SinkRejects ==
  /\ upload = "open" /\ sentinel = "rejected"
  /\ upload' = "aborting"
  /\ UNCHANGED <<opt, conn, session, sentinel, response, body, chunks, sink, stream,
                 writableEnded, downVars>>

\* abort() waits for the next() in flight; a body that is over just rejects.
UploadAborted ==
  /\ upload = "aborting" /\ body # "pulling"
  /\ body' = IF body = "idle" THEN "told" ELSE body
  /\ upload' = "rejected"
  /\ UNCHANGED <<opt, conn, session, sentinel, response, chunks, sink, stream, writableEnded,
                 downVars>>

-----------------------------------------------------------------------------
(* The server, and the reader of the response iterable.                    *)

ServerResponds ==
  /\ stream = "open" /\ server = "silent"
  /\ server' = "headers"
  /\ response' = IF response = "pending" THEN "resolved" ELSE response
  /\ reader' = IF response = "pending" THEN "idle" ELSE reader
  /\ UNCHANGED <<opt, conn, session, sentinel, upVars, stream, writableEnded, data, taken>>

ServerSends ==
  /\ stream = "open" /\ server = "headers" /\ data < MaxData
  /\ data' = data + 1
  /\ UNCHANGED <<opt, conn, session, sentinel, response, upVars, stream, writableEnded, server,
                 taken, reader>>

ServerFinishes ==
  /\ stream = "open" /\ server = "headers"
  /\ server' = "finished"
  /\ UNCHANGED <<opt, conn, session, sentinel, response, upVars, stream, writableEnded, data,
                 taken, reader>>

ReaderNext ==
  /\ reader = "idle"
  /\ reader' = "awaiting"
  /\ UNCHANGED <<opt, conn, session, sentinel, response, upVars, stream, writableEnded, server,
                 data, taken>>

\* sentinel.race(): the stream has a chunk before the sentinel settles.
ReadData ==
  /\ reader = "awaiting" /\ sentinel = "open" /\ taken < data
  /\ taken' = taken + 1
  /\ reader' = "idle"
  /\ UNCHANGED <<opt, conn, session, sentinel, response, upVars, stream, writableEnded, server,
                 data>>

\* sentinel.race(): the end of the stream comes first; the rest of next() runs
\* in a later microtask.
ReadEnd ==
  /\ reader = "awaiting" /\ sentinel = "open"
  /\ server = "finished" /\ taken = data /\ stream # "destroyed"
  /\ reader' = "ending"
  /\ UNCHANGED <<opt, conn, session, sentinel, response, upVars, stream, writableEnded, server,
                 data, taken>>

\* The end of a stream that was reset: after NO_ERROR it reads like the end of a
\* response, after CANCEL it is an error, which no part but the reader hears of.
ReadReset ==
  /\ reader = "awaiting" /\ sentinel = "open" /\ stream = "aborted"
  /\ \/ taken = data /\ reader' = "ending"
     \/ reader' = "errored"
  /\ UNCHANGED <<opt, conn, session, sentinel, response, upVars, stream, writableEnded, server,
                 data, taken>>

\* Mutant: does not await the sentinel.
ReadDone_Unchecked ==
  /\ reader = "ending"
  /\ Resolve
  /\ reader' = "done"
  /\ UNCHANGED <<opt, conn, session, response, upVars, stream, writableEnded, server, data, taken>>

\* sentinel.resolve(); await sentinel; return the end.
ReadDone ==
  /\ reader = "ending"
  /\ Resolve
  /\ reader' = IF sentinel = "rejected" THEN "errored" ELSE "done"
  /\ UNCHANGED <<opt, conn, session, response, upVars, stream, writableEnded, server, data, taken>>

\* sentinel.race(): the sentinel comes first.
ReadError ==
  /\ reader = "awaiting" /\ sentinel = "rejected"
  /\ reader' = "errored"
  /\ UNCHANGED <<opt, conn, session, sentinel, response, upVars, stream, writableEnded, server,
                 data, taken>>

\* throw() of the response iterable: the reader cannot use what it got.
ReaderThrows ==
  /\ reader = "idle"
  /\ reader' = "threw"
  /\ Reject
  /\ UNCHANGED <<opt, conn, session, upVars, stream, writableEnded, server, data, taken>>

\* The response is not read (to the end): nothing tells the client.
ReaderLeaves ==
  /\ reader = "idle"
  /\ reader' = "left"
  /\ UNCHANGED <<opt, conn, session, sentinel, response, upVars, stream, writableEnded, server,
                 data, taken>>

-----------------------------------------------------------------------------

Dial == Connect \/ ConnectFails
BodySettles == BodyYields \/ BodyEnds \/ BodyFails
WriteSettles == WriteOk \/ WriteAfterEnd \/ WriteFails \/ EndFlushed
ServerActs == ServerResponds \/ ServerSends \/ ServerFinishes
ReadSettles == ReadData \/ ReadEnd \/ ReadReset \/ ReadDone \/ ReadError

Next ==
  \/ Dial \/ ReuseSocket \/ StreamFails \/ StreamAborts \/ StreamCloses
  \/ BodySettles \/ WriteSettles \/ SinkRejects \/ UploadAborted \/ SentinelFinally
  \/ ServerActs \/ ReaderNext \/ ReadSettles \/ ReaderThrows \/ ReaderLeaves

Spec == Init /\ [][Next]_vars

\* An HTTP/1 request whose response is over buffers what is written to it.
Answers == ~(opt.version = 1 /\ stream = "closed")

\* Node.js and the server make progress, the body settles each next(), and a
\* reader that does not leave keeps reading.  Neither a failure nor a reset nor
\* a close of the stream has to come.
FairSpec ==
  /\ Spec
  /\ WF_vars(conn = "connecting" /\ Dial) /\ WF_vars(BodySettles)
  /\ WF_vars(Answers /\ WriteSettles)
  /\ WF_vars(SinkRejects) /\ WF_vars(UploadAborted) /\ WF_vars(SentinelFinally)
  /\ WF_vars(ServerResponds) /\ WF_vars(ServerFinishes)
  /\ WF_vars(ReaderNext) /\ WF_vars(ReadSettles)

-----------------------------------------------------------------------------
(* Properties                                                              *)

\* A reader that is told "done" has all that came: no error of upload or connection
\* came before, the sentinel is resolved, and the response is whole.  The exception
\* is a stream reset with NO_ERROR: only the protocol can miss what is not there.
DoneMeansComplete ==
  reader = "done" => /\ sentinel = "resolved" /\ taken = data
                     /\ server = "finished" \/ stream = "aborted"

\* Once the sentinel is rejected, sinkRequest() does not ask the body for more.
NoPullAfterRejection ==
  [][sentinel = "rejected" /\ body # "pulling" => body' # "pulling"]_vars

\* A failure of any part ends the upload, and the body hears of it or is over.
FailureEndsUpload ==
  sentinel = "rejected" ~>
    upload \in {"none", "resolved", "rejected"} /\ (body = "idle" => upload = "none")

\* No failure is lost: the caller gets it from the promise of the client, or
\* from the response body, unless the reader has left or raised it.
FailureIsSeen ==
  sentinel = "rejected" ~> response = "rejected" \/ reader \in {"errored", "threw", "left"}

\* The promise of the client settles, with two exceptions: the request on a socket
\* that was connected before, and the HTTP/2 stream that is reset with NO_ERROR or
\* CANCEL, or closed with its session, before the server has sent headers.
ResetUnheard == stream = "aborted" /\ server = "silent"
ResponseSettles == <>(response # "pending" \/ conn = "assigned" \/ ResetUnheard)

\* sinkRequest(): "If the server responds and closes the connection before the
\* client has written the entire response body, [...] We do want to notify the
\* iterable of the error condition".
EarlyCloseNotifiesBody ==
  sink = "notified" /\ server = "finished" /\ reader = "done" ~> body \in {"told", "ended"}
=============================================================================
