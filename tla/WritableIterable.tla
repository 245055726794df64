-------------------------- MODULE WritableIterable --------------------------
(***************************************************************************)
(* createWritableIterable (connect-core/src/async-iterable.ts): the        *)
(* AsyncIterable a caller writes to.  Every method runs to its end without *)
(* an await, so each is one step here; what interleaves are the calls.     *)
(*                                                                         *)
(* A call of write() is named by a member of Write, the accepted call of   *)
(* close() by Done, a call of the iterator's next() by a member of Read.   *)
(* The payload of a call is the call itself.                               *)
(***************************************************************************)
EXTENDS SequencesExt, Naturals

CONSTANTS
  Write,        \* calls of write() the producers may make, in any order
  Read,         \* calls of next() the consumer may make, in any order
  Done,         \* the one call of close() that is not turned away
  None          \* "undefined"

ASSUME WritableAssumption ==
  /\ Done \notin Write
  /\ None \notin Read

VARIABLES
  queue,         \* the calls whose payload waits for a reader
  queueResolve,  \* the read whose promise the next payload resolves, or None
  error,         \* whether throw() has set the internal error
  closed,        \* isClosed()
  disciplined,   \* whether the consumer is a for-await, pipe() or an Abortable
  sent,          \* per call of write() or close(), its promise
  read,          \* per call of next(), its promise
  accepted,      \* history: the calls that were not turned away, in order
  handed         \* history: the payloads given to a reader, in order

state == <<queue, queueResolve, error, closed, disciplined>>
writableVars == <<queue, queueResolve, error, closed, disciplined, sent, read, accepted, handed>>

Call == Write \cup {Done}

SentState == {"idle", "pending", "resolved", "rejected", "refused"}
ReadState == {"idle", "pending", "value", "rejected"}

WritableTypeOK ==
  /\ queue \in Seq(Call)
  /\ queueResolve \in Read \cup {None}
  /\ error \in BOOLEAN
  /\ closed \in BOOLEAN
  /\ disciplined \in BOOLEAN
  /\ sent \in [Call -> SentState]
  /\ read \in [Read -> ReadState]
  /\ accepted \in Seq(Call)
  /\ handed \in Seq(Call)

WritableInit ==
  /\ queue = << >>
  /\ queueResolve = None
  /\ error = FALSE
  /\ closed = FALSE
  /\ disciplined \in BOOLEAN
  /\ sent = [c \in Call |-> "idle"]
  /\ read = [r \in Read |-> "idle"]
  /\ accepted = << >>
  /\ handed = << >>

-----------------------------------------------------------------------------
(* The producer's side.  process() has three outcomes.                     *)

\* The iterator was told to throw: the payload is turned away.
ProcessRejected(c) ==
  /\ error
  /\ sent' = [sent EXCEPT ![c] = "rejected"]
  /\ UNCHANGED <<disciplined, queue, queueResolve, read, accepted, handed>>

\* A reader waits: it gets the payload, and the producer is done at once.
ProcessHandOver(c) ==
  /\ ~error
  /\ queueResolve # None
  /\ read' = [read EXCEPT ![queueResolve] = "value"]
  /\ queueResolve' = None
  /\ sent' = [sent EXCEPT ![c] = "resolved"]
  /\ accepted' = Append(accepted, c)
  /\ handed' = Append(handed, c)
  /\ UNCHANGED <<disciplined, queue>>

\* No reader waits: the payload is queued, the producer's promise pends.
ProcessQueue(c) ==
  /\ ~error
  /\ queueResolve = None
  /\ queue' = Append(queue, c)
  /\ sent' = [sent EXCEPT ![c] = "pending"]
  /\ accepted' = Append(accepted, c)
  /\ UNCHANGED <<disciplined, queueResolve, read, handed>>

Process(c) == ProcessRejected(c) \/ ProcessHandOver(c) \/ ProcessQueue(c)

\* write() on a closed writable throws.
WriteRefused(c) ==
  /\ closed
  /\ sent' = [sent EXCEPT ![c] = "refused"]
  /\ UNCHANGED <<state, read, accepted, handed>>

WriteCall(c) ==
  /\ sent[c] = "idle"
  /\ \/ WriteRefused(c)
     \/ ~closed /\ Process(c) /\ UNCHANGED <<error, closed>>

\* Mutant: closes without a last element for the reader.
CloseCall_Silent == ~closed /\ closed' = TRUE /\ UNCHANGED <<disciplined, queue, queueResolve, error, sent, read, accepted, handed>>

\* A second close() throws and changes nothing, so it is no step.
CloseCall ==
  /\ ~closed
  /\ closed' = TRUE
  /\ Process(Done)
  /\ UNCHANGED error

-----------------------------------------------------------------------------
(* The consumer's side.                                                    *)

Waiting == {r \in Read : read[r] = "pending"}

Finished == Contains(handed, Done)

\* for-await, pipe() and makeIterableAbortable await the promise of one next()
\* before they call the next one, and call it no more once it gave done or
\* rejected.  abort() does not hold them back: a next() may follow throw().
MayPull ==
  disciplined => Waiting = {} /\ ~Finished /\ \A r \in Read : read[r] # "rejected"

\* abort() awaits the next() in flight before it calls throw(), and no other:
\* a transform that was given that read's value may have called next() again.
MayThrow == disciplined => Waiting = {} \/ \E r \in Read : read[r] = "value"

NextRejected(r) ==
  /\ error
  /\ read' = [read EXCEPT ![r] = "rejected"]
  /\ UNCHANGED <<state, sent, accepted, handed>>

\* Mutant: takes the newest element.
NextShift_Pops(r) ==
  /\ ~error /\ queue # << >>
  /\ queue' = Front(queue)
  /\ sent' = [sent EXCEPT ![Last(queue)] = "resolved"]
  /\ read' = [read EXCEPT ![r] = "value"]
  /\ handed' = Append(handed, Last(queue))
  /\ UNCHANGED <<disciplined, queueResolve, error, closed, accepted>>

\* queue.shift() finds an element: resolve its producer, return its payload.
NextShift(r) ==
  /\ ~error
  /\ queue # << >>
  /\ queue' = Tail(queue)
  /\ sent' = [sent EXCEPT ![Head(queue)] = "resolved"]
  /\ read' = [read EXCEPT ![r] = "value"]
  /\ handed' = Append(handed, Head(queue))
  /\ UNCHANGED <<disciplined, queueResolve, error, closed, accepted>>

\* Mutant: waits without a look into the queue.
NextWait_Blindly(r) ==
  /\ ~error
  /\ read' = [read EXCEPT ![r] = "pending"] /\ queueResolve' = r
  /\ UNCHANGED <<disciplined, queue, error, closed, sent, accepted, handed>>

\* Mutant: does not remember who waits.
NextWait_Forgotten(r) ==
  /\ ~error /\ queue = << >>
  /\ read' = [read EXCEPT ![r] = "pending"]
  /\ UNCHANGED <<disciplined, queue, queueResolve, error, closed, sent, accepted, handed>>

\* Nothing is queued: the promise pends, and replaces one that pended before.
NextWait(r) ==
  /\ ~error
  /\ queue = << >>
  /\ read' = [read EXCEPT ![r] = "pending"]
  /\ queueResolve' = r
  /\ UNCHANGED <<disciplined, queue, error, closed, sent, accepted, handed>>

NextCall(r) ==
  /\ read[r] = "idle"
  /\ MayPull
  /\ NextRejected(r) \/ NextShift(r) \/ NextWait(r)

\* Mutant: drops the queue without a word to its producers.
ThrowCall_Silent ==
  /\ MayThrow
  /\ error' = TRUE /\ queue' = << >>
  /\ UNCHANGED <<disciplined, queueResolve, closed, sent, read, accepted, handed>>

\* throw(e) rejects every queued producer.  It settles no pending read.
ThrowCall ==
  /\ MayThrow
  /\ error' = TRUE
  /\ sent' = [c \in Call |->
              IF Contains(queue, c) THEN "rejected" ELSE sent[c]]
  /\ queue' = << >>
  /\ UNCHANGED <<disciplined, queueResolve, closed, read, accepted, handed>>

-----------------------------------------------------------------------------

Pull == \E r \in Read : NextCall(r)

WritableNext ==
  \/ \E c \in Write : WriteCall(c)
  \/ CloseCall
  \/ Pull
  \/ ThrowCall

WritableSpec == WritableInit /\ [][WritableNext]_writableVars

\* The consumer keeps pulling while it may (a for-await loop, the loop of
\* sinkRequest or of a handler), and the producer closes in the end.  throw()
\* is under no fairness: nobody need abort.
FairWritableSpec == WritableSpec /\ WF_writableVars(Pull) /\ WF_writableVars(CloseCall)

-----------------------------------------------------------------------------
(* Properties                                                              *)

\* The writable is a FIFO channel that tells each producer the fate of its
\* payload (module RendezvousChannel): queue, waiting reader and the promises
\* of the readers are how it is done.
Channel == INSTANCE RendezvousChannel
             WITH promised <- accepted, told <- sent, broken <- error
ImplementsChannel == Channel!Spec

\* A reader never waits while a payload is queued: process() must serve and
\* forget the waiting reader, and next() must look into the queue first.
ReaderOrQueue == queueResolve # None => queue = << >>

\* Until throw(), what the producers were promised is what the readers got
\* followed by what is queued: nothing lost, doubled or overtaken.
InOrder == ~error => accepted = handed \o queue

\* A promise of write() or close() settles as its payload fares: it resolves
\* exactly when the payload was handed to a reader, pends exactly while it is
\* queued, and is rejected only by throw().
ResolvedIffHanded == \A c \in Call : sent[c] = "resolved" <=> Contains(handed, c)
PendingIffQueued == \A c \in Call : sent[c] = "pending" <=> Contains(queue, c)
RejectedByThrow == (\E c \in Call : sent[c] = "rejected") => error
SentTellsTheTruth == ResolvedIffHanded /\ PendingIffQueued /\ RejectedByThrow

\* close() ends the stream: no payload is accepted after it, so no reader sees
\* a value after done.
DoneIsLast ==
  \A i \in 1..Len(accepted) : accepted[i] = Done => i = Len(accepted) /\ closed

\* The read a disciplined consumer awaits is the one the iterable remembers, so
\* that the next write() or close() resolves it, and no read before it was
\* overwritten.  Only throw() can make it pend for good, because writes are
\* refused from then on: then a read was served before, and the consumer had
\* called next() again before the throw() that abort() put off.
NoOrphanRead ==
  disciplined => \A r \in Read : read[r] = "pending" =>
                   queueResolve = r /\ (error => \E s \in Read : read[s] = "value")

\* What throw() leaves: no producer waits any more, and nothing is handed over
\* or accepted from then on.
ThrowIsFinal ==
  [][error => /\ error'
              /\ UNCHANGED <<accepted, handed, queue>>
              /\ \A c \in Call : sent[c] # "pending" /\ sent'[c] # "pending"]_writableVars

\* Every producer that waits is answered, as long as a disciplined consumer pulls.
WriteSettles ==
  \A c \in Call : disciplined /\ sent[c] = "pending" ~> sent[c] # "pending"

\* A disciplined consumer of a writable that is closed in the end comes to the
\* end of the iteration: it is given done, or an error because it threw.  The one
\* exception is a read that throw() met (see NoOrphanRead): it pends for good.
ThrowMetRead == error /\ Waiting = {queueResolve}
ReaderComesToAnEnd ==
  disciplined => <>[](ThrowMetRead \/ (Waiting = {} /\ (Finished \/ error)))

-----------------------------------------------------------------------------
(* The inductive invariant: the properties above, and what they rest on.   *)

ThrowEmptiesQueue == error => queue = << >>
QueuedOnce == IsInjective(queue)
UnclosedHasNoDone == ~closed => sent[Done] = "idle"

IndInv ==
  /\ WritableTypeOK
  /\ ReaderOrQueue
  /\ InOrder
  /\ SentTellsTheTruth
  /\ DoneIsLast
  /\ ThrowEmptiesQueue
  /\ QueuedOnce
  /\ UnclosedHasNoDone
=============================================================================
