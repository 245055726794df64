------------------------------ MODULE Pipeline ------------------------------
(***************************************************************************)
(* pipe(), pipeTo() and makeIterableAbortable()                            *)
(* (connect-core/src/async-iterable.ts): a source, the Abortable around    *)
(* it, a chain of transforms, the generator of pipe(), and the consumer    *)
(* of pipe() or the sink of pipeTo().                                      *)
(*                                                                         *)
(* A step is what runs between two awaits.  What interleaves are the       *)
(* source, which settles a call whenever it likes, the microtasks that     *)
(* react to it, and the consumer.                                          *)
(***************************************************************************)
EXTENDS Naturals

CONSTANT MaxChunks   \* bound: what a source yields before it ends

ASSUME PipelineAssumption == MaxChunks \in Nat

\* The four ways an async function* handles an error raised at a yield (the
\* first two look the same from outside), the iterable that
\* createWritableIterable returns, and the response iterable of connect-node,
\* whose throw() ends the response and then throws instead of rejecting.
GeneratorKind == {"rethrows", "returns", "yields"}
Kind == GeneratorKind \cup {"writable", "nodeResponse"}

VARIABLES
  opt,          \* the call: to = pipeTo() or pipe(), its option, its source
  src,          \* the source's iterator
  chunks,       \* how many chunks it has yielded
  queuedThrow,  \* a throw() waits in the source generator behind a next()
  hung,         \* a next() of a writable source that nothing will settle
  told,         \* how often the source was asked to throw
  inFlight,     \* resultPromise is set
  abort,        \* the state of Abortable.abort()
  chain,        \* the transforms
  gen,          \* the generator of pipe()
  consumer,     \* the consumer of pipe(), or the sink
  result        \* the promise of pipeTo()

srcVars == <<src, chunks, queuedThrow, hung, told>>
vars == <<opt, srcVars, inFlight, abort, chain, gen, consumer, result>>

AbortSettled == {"completed", "caught", "rethrown", "thrown"}

TypeOK ==
  /\ opt \in [to : BOOLEAN, propagate : BOOLEAN, kind : Kind]
  /\ src \in {"fresh", "running", "suspended", "throwing", "ended"}
  /\ chunks \in 0..MaxChunks
  /\ queuedThrow \in BOOLEAN /\ hung \in BOOLEAN
  /\ told \in 0..2
  /\ inFlight \in BOOLEAN
  /\ abort \in {"none", "waiting", "due", "throwing"} \cup AbortSettled
  /\ chain \in {"idle", "pulling", "chunk", "done", "error", "over"}
  /\ chain = "pulling" <=> inFlight
  /\ gen \in {"fresh", "pulling", "yielded", "aborting", "ended"}
  /\ consumer \in {"idle", "awaiting", "done", "errored", "throwing", "threw", "bounced",
                   "left", "failed"}
  /\ result \in {"open", "aborting", "resolved", "rejected"}

Init ==
  /\ opt \in [to : BOOLEAN, propagate : BOOLEAN, kind : Kind]
  /\ src = "fresh" /\ chunks = 0 /\ queuedThrow = FALSE /\ hung = FALSE /\ told = 0
  /\ inFlight = FALSE /\ abort = "none"
  /\ chain = "idle" /\ gen = "fresh" /\ consumer = "idle" /\ result = "open"

-----------------------------------------------------------------------------
(* The source, external: user code or one of the two iterables above.      *)

\* inner.next() of the wrapper: a source that is busy with a throw, or over,
\* answers in a later step.
CallNext ==
  /\ inFlight' = TRUE
  /\ src' = IF src \in {"fresh", "suspended"} THEN "running" ELSE src
  /\ UNCHANGED <<chunks, queuedThrow, hung, told>>

\* inner.throw() of the wrapper, and what abort() makes of the outcome.  A
\* generator that has not started, or is over, rejects without running.
CallThrowOnGenerator ==
  /\ opt.kind \in GeneratorKind
  /\ \/ /\ src \in {"fresh", "ended"}
        /\ src' = "ended" /\ abort' = "rethrown" /\ UNCHANGED queuedThrow
     \/ /\ src = "suspended"
        /\ src' = "throwing" /\ abort' = "throwing" /\ UNCHANGED queuedThrow
     \/ /\ src = "running"
        /\ queuedThrow' = TRUE /\ abort' = "throwing" /\ UNCHANGED src
  /\ UNCHANGED hung

\* throw() of a writable answers at once and settles no pending next().
CallThrowOnWritable ==
  /\ opt.kind = "writable"
  /\ src' = "ended" /\ abort' = "completed"
  /\ hung' = (src = "running")
  /\ UNCHANGED queuedThrow

CallThrowOnNodeResponse ==
  /\ opt.kind = "nodeResponse"
  /\ src' = "ended" /\ abort' = "thrown"
  /\ UNCHANGED <<queuedThrow, hung>>

CallThrow ==
  /\ told' = told + 1
  /\ UNCHANGED chunks
  /\ CallThrowOnGenerator \/ CallThrowOnWritable \/ CallThrowOnNodeResponse

\* A next() settles: resultPromise is cleared, and f of abort() becomes due
\* behind the reaction of the transforms, which subscribed first.
Settle(how) ==
  /\ inFlight' = FALSE
  /\ chain' = how
  /\ UNCHANGED <<opt, gen, consumer, result>>

\* Mutant: nothing continues an abort() that waits for the next() in flight.
AbortDue_Never == abort

AbortDue == IF abort = "waiting" THEN "due" ELSE abort

SourceYields ==
  /\ src = "running" /\ chunks < MaxChunks
  /\ chunks' = chunks + 1
  /\ src' = IF queuedThrow THEN "throwing" ELSE "suspended"
  /\ queuedThrow' = FALSE
  /\ abort' = AbortDue
  /\ Settle("chunk")
  /\ UNCHANGED <<hung, told>>

SourceEnds ==
  /\ src = "running"
  /\ src' = "ended"
  /\ abort' = IF queuedThrow THEN "rethrown" ELSE AbortDue
  /\ queuedThrow' = FALSE
  /\ \E how \in {"done", "error"} : Settle(how)
  /\ UNCHANGED <<chunks, hung, told>>

\* A next() called on a source that is over: an error if it was told to throw
\* and is no generator.
SourceIsOver ==
  /\ src = "ended" /\ inFlight /\ ~hung
  /\ Settle(IF told > 0 /\ opt.kind \notin GeneratorKind THEN "error" ELSE "done")
  /\ abort' = AbortDue
  /\ UNCHANGED srcVars

\* The source handles the error.  One that yields a value for it goes on, and
\* runs if a next() is queued behind the throw().
SourceHandlesThrow ==
  /\ src = "throwing"
  /\ \/ opt.kind = "rethrows" /\ src' = "ended" /\ abort' = "rethrown"
     \/ opt.kind = "returns" /\ src' = "ended" /\ abort' = "completed"
     \/ /\ opt.kind = "yields"
        /\ src' = IF inFlight THEN "running" ELSE "suspended"
        /\ abort' = "caught"
  /\ UNCHANGED <<opt, chunks, queuedThrow, hung, told, inFlight, chain, gen, consumer, result>>

SourceSettles == SourceYields \/ SourceEnds \/ SourceIsOver \/ SourceHandlesThrow

-----------------------------------------------------------------------------
(* Abortable.abort()                                                       *)

\* The first abort() waits for a next() in flight, else throws at once; a later
\* one returns the state of the first.
Abort ==
  \/ /\ abort = "none" /\ inFlight
     /\ abort' = "waiting" /\ UNCHANGED srcVars
  \/ /\ abort = "none" /\ ~inFlight
     /\ CallThrow
  \/ /\ abort # "none"
     /\ UNCHANGED <<abort, srcVars>>

\* f, once the awaited next() has settled and the transforms have reacted to it:
\* they may have called next() again.
AbortRuns ==
  /\ abort = "due"
  /\ chain \notin {"chunk", "done", "error"}
  /\ CallThrow
  /\ UNCHANGED <<opt, inFlight, chain, gen, consumer, result>>

-----------------------------------------------------------------------------
(* The transforms and the generator of pipe().                             *)

\* What reaches the consumer that awaits a next() of pipe().
Deliver(what) ==
  consumer' = IF consumer = "awaiting" THEN what ELSE consumer

\* Mutant: asks for the next chunk ahead of the consumer.
ChainEmits_Prefetches ==
  /\ chain = "chunk"
  /\ chain' = "idle" /\ gen' = "yielded"
  /\ Deliver("idle")
  /\ CallNext
  /\ UNCHANGED <<opt, abort, result>>

\* A transform passes the chunk on, asks for another one (the splitting of
\* envelopes), or throws (a message that is too large).
ChainEmits ==
  /\ chain = "chunk"
  /\ chain' = "idle" /\ gen' = "yielded"
  /\ Deliver("idle")
  /\ UNCHANGED <<opt, srcVars, inFlight, abort, result>>

ChainPullsAgain ==
  /\ chain = "chunk"
  /\ chain' = "pulling"
  /\ CallNext
  /\ UNCHANGED <<opt, abort, gen, consumer, result>>

\* it.next() rejects outside the try of pipe(): its generator ends.
ChainFails ==
  /\ chain \in {"chunk", "done", "error"}
  /\ chain' = "over" /\ gen' = "ended"
  /\ Deliver("errored")
  /\ UNCHANGED <<opt, srcVars, inFlight, abort, result>>

\* transformAppend yields a value for the end of the source; transformCatch and
\* transformCatchFinally for an error too, of the source or of a transform behind
\* it that failed on a chunk: the chain is over then, the source suspended.
ChainEmitsLast ==
  /\ chain \in {"chunk", "done", "error"}
  /\ chain' = "over" /\ gen' = "yielded"
  /\ Deliver("idle")
  /\ UNCHANGED <<opt, srcVars, inFlight, abort, result>>

\* As above, without a value to yield.
ChainEnds ==
  /\ chain \in {"chunk", "done", "error"}
  /\ chain' = "over" /\ gen' = "ended"
  /\ Deliver("done")
  /\ UNCHANGED <<opt, srcVars, inFlight, abort, result>>

ChainReacts == ChainEmits \/ ChainPullsAgain \/ ChainFails \/ ChainEmitsLast \/ ChainEnds

\* Mutant: does not await abort().
PipeRethrows_AtOnce ==
  /\ gen = "aborting"
  /\ gen' = "ended" /\ consumer' = "threw"
  /\ UNCHANGED <<opt, srcVars, inFlight, abort, chain, result>>

\* pipe() was aborting for a throw() at its yield, and rethrows.
PipeRethrows ==
  /\ gen = "aborting" /\ abort \in AbortSettled
  /\ gen' = "ended" /\ consumer' = "threw"
  /\ UNCHANGED <<opt, srcVars, inFlight, abort, chain, result>>

-----------------------------------------------------------------------------
(* The consumer of pipe(), and the sink of pipeTo().                       *)

ConsumerNext ==
  /\ consumer = "idle" /\ gen \in {"fresh", "yielded"}
  /\ \/ /\ chain = "idle"
        /\ CallNext
        /\ chain' = "pulling" /\ gen' = "pulling" /\ consumer' = "awaiting"
     \/ /\ chain = "over"
        /\ gen' = "ended" /\ consumer' = "done"
        /\ UNCHANGED <<srcVars, inFlight, chain>>
  /\ UNCHANGED <<opt, abort, result>>

\* throw() on the generator of pipe().  At its yield, and with the option, the
\* handler aborts the source.  A generator that has not started, or has ended
\* because a transform failed, rejects without running.
ConsumerThrow ==
  /\ ~opt.to
  /\ \/ /\ consumer = "idle" /\ gen = "yielded" /\ opt.propagate
        /\ gen' = "aborting" /\ consumer' = "throwing"
        /\ Abort
     \/ /\ consumer = "idle" /\ gen = "yielded" /\ ~opt.propagate
        /\ gen' = "ended" /\ consumer' = "threw"
        /\ UNCHANGED <<abort, srcVars>>
     \/ /\ consumer \in {"idle", "errored"} /\ gen \in {"fresh", "ended"}
        /\ gen' = "ended" /\ consumer' = "bounced"
        /\ UNCHANGED <<abort, srcVars>>
  /\ UNCHANGED <<opt, inFlight, chain, result>>

\* A for-await whose body breaks or throws calls neither throw() nor return()
\* in the code that is built (async-iterable.spec.ts, "should leave source
\* dangling").
ConsumerLeaves ==
  /\ ~opt.to /\ consumer = "idle"
  /\ consumer' = "left"
  /\ UNCHANGED <<opt, srcVars, inFlight, abort, chain, gen, result>>

\* Mutant: ignores propagateDownStreamError.
SinkRejects_Always ==
  /\ opt.to /\ result = "open"
  /\ consumer \in {"idle", "awaiting", "errored", "done"}
  /\ consumer' = "failed" /\ result' = "aborting" /\ Abort
  /\ UNCHANGED <<opt, inFlight, chain, gen>>

\* The promise of the sink rejects: for an error of its own, at any time, or
\* for the error its next() gave.
SinkRejects ==
  /\ opt.to /\ result = "open"
  /\ consumer \in {"idle", "awaiting", "errored", "done"}
  /\ consumer' = "failed"
  /\ \/ opt.propagate /\ result' = "aborting" /\ Abort
     \/ ~opt.propagate /\ result' = "rejected" /\ UNCHANGED <<abort, srcVars>>
  /\ UNCHANGED <<opt, inFlight, chain, gen>>

SinkResolves ==
  /\ opt.to /\ result = "open" /\ consumer = "done"
  /\ result' = "resolved"
  /\ UNCHANGED <<opt, srcVars, inFlight, abort, chain, gen, consumer>>

PipeToRejects ==
  /\ result = "aborting" /\ abort \in AbortSettled
  /\ result' = "rejected"
  /\ UNCHANGED <<opt, srcVars, inFlight, abort, chain, gen, consumer>>

SinkEnds == consumer \in {"errored", "done"} /\ (SinkRejects \/ SinkResolves)

Next ==
  \/ SourceSettles \/ AbortRuns \/ ChainReacts
  \/ PipeRethrows \/ PipeToRejects
  \/ ConsumerNext \/ ConsumerThrow \/ ConsumerLeaves
  \/ SinkRejects \/ SinkResolves

Spec == Init /\ [][Next]_vars

\* Reactions are microtasks.  The source is assumed to settle the calls it got;
\* a sink whose next() gave done or an error settles.
FairSpec ==
  /\ Spec
  /\ WF_vars(SourceSettles) /\ WF_vars(AbortRuns) /\ WF_vars(ChainReacts)
  /\ WF_vars(PipeRethrows) /\ WF_vars(PipeToRejects) /\ WF_vars(SinkEnds)

-----------------------------------------------------------------------------
(* Properties                                                              *)

\* The source is over, or is one that answers an error with another value (the
\* limitation makeIterableAbortable documents).
SourceWasAborted == src = "ended" \/ (opt.kind = "yields" /\ told = 1)

\* With propagateDownStreamError, the error a consumer throws at a yield of
\* pipe() and any rejection of the sink of pipeTo() have reached the source by
\* the time throw() or pipeTo() settles.
DownstreamErrorReachesSource ==
  opt.propagate /\ (consumer = "threw" \/ result = "rejected") => SourceWasAborted

\* A source hears of an error at most once, and only of one that a consumer or
\* a sink raised with the option set.
ToldOnceForAReason ==
  /\ told <= 1
  /\ told = 1 => /\ opt.propagate
                 /\ consumer \in {"throwing", "threw", "failed"}

\* Backpressure: the source runs only while the consumer waits for it, or a sink
\* has failed while it waited.
SourceRunsOnDemand ==
  src = "running" => consumer \in {"awaiting", "failed"}

\* A call of next() or throw() on the iterable of pipe() settles, and pipeTo()
\* settles once its sink has rejected.
CallsSettle ==
  /\ consumer = "awaiting" ~> consumer # "awaiting"
  /\ consumer = "throwing" ~> consumer = "threw"
  /\ consumer = "failed" ~> result = "rejected"
=============================================================================
