------------------------- MODULE AsyncIterable_proofs -------------------------
(***************************************************************************)
(* Proofs about the two modules that model async-iterable.ts.  First       *)
(* WritableIterable, for any producers and readers: its safety properties, *)
(* and that it implements RendezvousChannel.  Then Pipeline, for a source  *)
(* of any length: its type invariant and its three safety invariants, from *)
(* one inductive invariant.                                                *)
(***************************************************************************)
EXTENDS WritableIterable, Pipeline, SequenceTheorems, TLAPS

-----------------------------------------------------------------------------
(* Facts about sequences.                                                  *)

\* What is appended to the queue is appended to "handed, then queued".
LEMMA AppendBehind ==
  ASSUME NEW S, NEW h \in Seq(S), NEW q \in Seq(S), NEW c \in S
  PROVE  Append(h \o q, c) = h \o Append(q, c)
<1>1. <<c>> \in Seq(S)
  OBVIOUS
<1>2. h \o q \in Seq(S)
  BY ConcatProperties
<1>3. Append(h \o q, c) = (h \o q) \o <<c>>
  BY <1>2, AppendIsConcat
<1>4. Append(q, c) = q \o <<c>>
  BY AppendIsConcat
<1>5. QED
  BY <1>1, <1>3, <1>4, ConcatAssociative

\* Moving the head of the queue to the end of what was handed over keeps
\* their concatenation.
LEMMA ShiftHead ==
  ASSUME NEW S, NEW h \in Seq(S), NEW q \in Seq(S), q # << >>
  PROVE  /\ Append(h, Head(q)) \o Tail(q) = h \o q
         /\ Len(h) < Len(h \o q)
         /\ (h \o q)[Len(h) + 1] = Head(q)
<1>1. /\ Head(q) \in S
      /\ Tail(q) \in Seq(S)
      /\ Len(Tail(q)) = Len(q) - 1
      /\ \A i \in 1..Len(Tail(q)) : Tail(q)[i] = q[i+1]
  BY HeadTailProperties
<1>2. Len(q) \in Nat \ {0} /\ Len(h) \in Nat
  BY EmptySeq, LenProperties
<1>3. /\ h \o q \in Seq(S)
      /\ Len(h \o q) = Len(h) + Len(q)
      /\ \A i \in 1..Len(h) + Len(q) :
           (h \o q)[i] = IF i <= Len(h) THEN h[i] ELSE q[i - Len(h)]
  BY ConcatProperties
<1>4. q[1] = Head(q)
  OBVIOUS
<1>5. (h \o q)[Len(h) + 1] = Head(q)
  BY <1>2, <1>3, <1>4
<1> DEFINE ha == Append(h, Head(q))
           t == Tail(q)
<1>6. /\ ha \in Seq(S)
      /\ Len(ha) = Len(h) + 1
      /\ \A i \in 1..Len(h) : ha[i] = h[i]
      /\ ha[Len(h) + 1] = Head(q)
  BY <1>1, AppendProperties
<1>7. /\ ha \o t \in Seq(S)
      /\ Len(ha \o t) = Len(ha) + Len(t)
      /\ \A i \in 1..Len(ha) + Len(t) :
           (ha \o t)[i] = IF i <= Len(ha) THEN ha[i] ELSE t[i - Len(ha)]
  BY <1>1, <1>6, ConcatProperties
<1>8. Len(ha \o t) = Len(h \o q)
  BY <1>1, <1>2, <1>3, <1>6, <1>7
<1>9. ASSUME NEW i \in 1..Len(ha \o t)
      PROVE  (ha \o t)[i] = (h \o q)[i]
  <2> HIDE DEF ha, t
  <2>1. i \in 1..Len(h) + Len(q) /\ i \in 1..Len(ha) + Len(t)
    BY <1>1, <1>2, <1>3, <1>6, <1>7 DEF t
  <2>2. CASE i <= Len(h)
    BY <2>1, <2>2, <1>2, <1>3, <1>6, <1>7
  <2>3. CASE i = Len(h) + 1
    BY <2>1, <2>3, <1>2, <1>3, <1>4, <1>6, <1>7
  <2>4. CASE i > Len(h) + 1
    <3>1. i - Len(ha) \in 1..Len(t) /\ i - Len(h) \in 1..Len(q)
      BY <2>1, <2>4, <1>1, <1>2, <1>6 DEF t
    <3>2. (ha \o t)[i] = t[i - Len(ha)]
      BY <2>1, <2>4, <1>6, <1>7, <1>2
    <3>3. t[i - Len(ha)] = q[i - Len(ha) + 1]
      BY <3>1, <1>1 DEF t
    <3>4. i - Len(ha) + 1 = i - Len(h)
      BY <2>1, <1>2, <1>6
    <3>5. QED
      BY <3>2, <3>3, <3>4, <2>1, <2>4, <1>2, <1>3
  <2>5. QED
    BY <2>1, <2>2, <2>3, <2>4, <1>2
<1>10. ha \o t = h \o q
  <2> HIDE DEF ha, t
  <2> QED
    BY <1>3, <1>7, <1>8, <1>9, SeqEqual
<1>11. QED
  BY <1>2, <1>3, <1>5, <1>10

\* What a sequence contains after an append, and after its head is taken.
LEMMA ContainsAppend ==
  ASSUME NEW S, NEW s \in Seq(S), NEW c \in S
  PROVE  /\ \A d : Contains(Append(s, c), d) <=> d = c \/ Contains(s, d)
         /\ IsInjective(s) /\ ~Contains(s, c) => IsInjective(Append(s, c))
<1>1. /\ Len(s) \in Nat
      /\ DOMAIN s = 1..Len(s)
      /\ Append(s, c) \in Seq(S)
      /\ Len(Append(s, c)) = Len(s) + 1
      /\ \A i \in 1..Len(s) : Append(s, c)[i] = s[i]
      /\ Append(s, c)[Len(s) + 1] = c
  BY AppendProperties, LenProperties
<1>2. DOMAIN Append(s, c) = 1..(Len(s) + 1)
  BY <1>1, LenProperties
<1>3. \A d : Contains(Append(s, c), d) <=> d = c \/ Contains(s, d)
  BY <1>1 DEF Contains
<1>4. IsInjective(s) /\ ~Contains(s, c) => IsInjective(Append(s, c))
  BY <1>1, <1>2 DEF Contains, IsInjective
<1>5. QED
  BY <1>3, <1>4

LEMMA ContainsTail ==
  ASSUME NEW S, NEW s \in Seq(S), s # << >>, IsInjective(s)
  PROVE  /\ Head(s) \in S /\ Tail(s) \in Seq(S)
         /\ \A d : Contains(Tail(s), d) <=> d # Head(s) /\ Contains(s, d)
         /\ Contains(s, Head(s))
         /\ IsInjective(Tail(s))
<1>1. /\ Head(s) \in S
      /\ Tail(s) \in Seq(S)
      /\ Len(Tail(s)) = Len(s) - 1
      /\ \A i \in 1..Len(Tail(s)) : Tail(s)[i] = s[i+1]
  BY HeadTailProperties
<1>2. Len(s) \in Nat \ {0} /\ DOMAIN s = 1..Len(s)
  BY EmptySeq, LenProperties
<1>3. s[1] = Head(s)
  OBVIOUS
<1>4. DOMAIN Tail(s) = 1..(Len(s) - 1)
  BY <1>1, LenProperties
<1>5. ASSUME NEW d PROVE Contains(Tail(s), d) => d # Head(s) /\ Contains(s, d)
  <2>1. SUFFICES ASSUME NEW i \in 1..Len(Tail(s)), Tail(s)[i] = d
                 PROVE  d # Head(s) /\ Contains(s, d)
    BY DEF Contains
  <2>2. i + 1 \in 1..Len(s) /\ s[i+1] = d /\ 1 \in 1..Len(s) /\ i + 1 # 1
    BY <1>1, <1>2, <2>1
  <2>3. QED
    BY <1>2, <1>3, <2>2 DEF Contains, IsInjective
<1>6. ASSUME NEW d PROVE d # Head(s) /\ Contains(s, d) => Contains(Tail(s), d)
  <2>1. SUFFICES ASSUME NEW i \in 1..Len(s), s[i] = d, d # Head(s)
                 PROVE  Contains(Tail(s), d)
    BY DEF Contains
  <2>2. i - 1 \in 1..Len(Tail(s)) /\ Tail(s)[i-1] = d
    BY <1>1, <1>2, <1>3, <2>1
  <2>3. QED
    BY <2>2 DEF Contains
<1>7. Contains(s, Head(s))
  BY <1>2, <1>3 DEF Contains
<1>8. IsInjective(Tail(s))
  <2>1. SUFFICES ASSUME NEW a \in 1..(Len(s)-1), NEW b \in 1..(Len(s)-1),
                        Tail(s)[a] = Tail(s)[b]
                 PROVE  a = b
    BY <1>4 DEF IsInjective
  <2>2. a + 1 \in 1..Len(s) /\ b + 1 \in 1..Len(s) /\ s[a+1] = s[b+1]
    BY <1>1, <1>2, <2>1
  <2>3. a + 1 = b + 1
    BY <1>2, <2>2 DEF IsInjective
  <2>4. QED
    BY <2>3, <1>2
<1>9. QED
  BY <1>1, <1>5, <1>6, <1>7, <1>8

LEMMA ContainsEmpty == IsInjective(<< >>) /\ \A c : ~Contains(<< >>, c)
  BY DEF Contains, IsInjective

-----------------------------------------------------------------------------
(* The inductive invariant.                                                *)

LEMMA WritableInitInv == WritableInit => IndInv
<1> SUFFICES ASSUME WritableInit PROVE IndInv
  OBVIOUS
<1>1. WritableTypeOK
  <2>1. << >> \in Seq(Call)
    OBVIOUS
  <2>2. sent \in [Call -> SentState] /\ read \in [Read -> ReadState]
    BY DEF WritableInit, SentState, ReadState
  <2>3. QED
    BY <2>1, <2>2 DEF WritableInit, WritableTypeOK
<1>2. ReaderOrQueue /\ ThrowEmptiesQueue
  BY DEF WritableInit, ReaderOrQueue, ThrowEmptiesQueue
<1>3. InOrder
  <2>1. << >> \in Seq(Call)
    OBVIOUS
  <2>2. QED
    BY <2>1, ConcatEmptySeq DEF WritableInit, InOrder
<1>4. SentTellsTheTruth
  BY ContainsEmpty DEF WritableInit, SentTellsTheTruth, ResolvedIffHanded, PendingIffQueued,
                       RejectedByThrow
<1>5. DoneIsLast
  BY DEF WritableInit, DoneIsLast
<1>6. QueuedOnce
  BY ContainsEmpty DEF WritableInit, QueuedOnce
<1>7. UnclosedHasNoDone
  BY DEF WritableInit, UnclosedHasNoDone, Call
<1>8. QED
  BY <1>1, <1>2, <1>3, <1>4, <1>5, <1>6, <1>7 DEF IndInv

\* process() keeps the invariant when it is given a payload that was not sent
\* before, by write() or by the close() that sets closed.
LEMMA ProcessKeepsIndInv ==
  ASSUME IndInv, NEW c \in Call, sent[c] = "idle", ~closed,
         closed' \in BOOLEAN, closed' <=> c = Done, UNCHANGED error, Process(c)
  PROVE  IndInv'
<1> USE DEF IndInv
<1>0. Done \in Call /\ sent[Done] = "idle"
  BY DEF Call, UnclosedHasNoDone
<1>1. CASE ProcessRejected(c)
  <2> USE <1>1 DEF ProcessRejected
  <2>1. WritableTypeOK'
    BY DEF WritableTypeOK, SentState
  <2>2. ReaderOrQueue' /\ InOrder' /\ ThrowEmptiesQueue' /\ QueuedOnce'
    BY DEF ReaderOrQueue, InOrder, ThrowEmptiesQueue, QueuedOnce
  <2>3. SentTellsTheTruth'
    BY DEF SentTellsTheTruth, ResolvedIffHanded, PendingIffQueued, RejectedByThrow, WritableTypeOK
  <2>4. DoneIsLast'
    BY DEF DoneIsLast
  <2>5. UnclosedHasNoDone'
    BY <1>0 DEF UnclosedHasNoDone, WritableTypeOK
  <2>6. QED
    BY <2>1, <2>2, <2>3, <2>4, <2>5
<1>2. ASSUME accepted' = Append(accepted, c)
      PROVE  DoneIsLast' /\ accepted' \in Seq(Call)
  <2>1. /\ Len(accepted) \in Nat
        /\ accepted' \in Seq(Call)
        /\ Len(accepted') = Len(accepted) + 1
        /\ \A i \in 1..Len(accepted) : accepted'[i] = accepted[i]
        /\ accepted'[Len(accepted) + 1] = c
    BY <1>2, AppendProperties, LenProperties DEF WritableTypeOK
  <2>2. \A i \in 1..Len(accepted) : accepted[i] # Done
    BY DEF DoneIsLast
  <2>3. QED
    BY <2>1, <2>2 DEF DoneIsLast
<1>3. ASSUME ~error PROVE Append(accepted, c) = handed \o Append(queue, c)
  <2>1. handed \in Seq(Call) /\ queue \in Seq(Call) /\ accepted = handed \o queue
    BY <1>3 DEF InOrder, WritableTypeOK
  <2>2. Append(handed \o queue, c) = handed \o Append(queue, c)
    BY <2>1, AppendBehind
  <2>3. QED
    BY <2>1, <2>2
<1>4. CASE ProcessHandOver(c)
  <2> USE <1>4 DEF ProcessHandOver
  <2>1. handed' \in Seq(Call) /\ \A d : Contains(handed', d) <=> d = c \/ Contains(handed, d)
    BY ContainsAppend, AppendProperties DEF WritableTypeOK
  <2>2. WritableTypeOK'
    BY <2>1, <1>2 DEF WritableTypeOK, SentState, ReadState
  <2>3. queue = << >>
    BY DEF ReaderOrQueue
  <2>4. InOrder'
    <3>1. accepted = handed
      BY <2>3, ConcatEmptySeq DEF InOrder, WritableTypeOK
    <3>2. QED
      BY <2>1, <2>3, <3>1, ConcatEmptySeq DEF InOrder
  <2>5. SentTellsTheTruth'
    BY <2>1, <2>3, ContainsEmpty
       DEF SentTellsTheTruth, ResolvedIffHanded, PendingIffQueued, RejectedByThrow, WritableTypeOK
  <2>6. ReaderOrQueue' /\ ThrowEmptiesQueue' /\ QueuedOnce'
    BY DEF ReaderOrQueue, ThrowEmptiesQueue, QueuedOnce
  <2>7. UnclosedHasNoDone'
    BY <1>0 DEF UnclosedHasNoDone, WritableTypeOK
  <2>8. QED
    BY <1>2, <2>2, <2>4, <2>5, <2>6, <2>7
<1>5. CASE ProcessQueue(c)
  <2> USE <1>5 DEF ProcessQueue
  <2>1. ~Contains(queue, c)
    BY DEF SentTellsTheTruth, PendingIffQueued
  <2>2. /\ queue' \in Seq(Call)
        /\ \A d : Contains(queue', d) <=> d = c \/ Contains(queue, d)
        /\ QueuedOnce'
    BY <2>1, ContainsAppend, AppendProperties DEF QueuedOnce, WritableTypeOK
  <2>3. WritableTypeOK'
    BY <2>2, <1>2 DEF WritableTypeOK, SentState
  <2>4. InOrder'
    BY <1>3 DEF InOrder
  <2>5. SentTellsTheTruth'
    <3>1. ResolvedIffHanded'
      BY DEF SentTellsTheTruth, ResolvedIffHanded, WritableTypeOK
    <3>2. PendingIffQueued' /\ RejectedByThrow'
      BY <2>2 DEF SentTellsTheTruth, PendingIffQueued, RejectedByThrow, WritableTypeOK
    <3>3. QED
      BY <3>1, <3>2 DEF SentTellsTheTruth
  <2>6. ReaderOrQueue' /\ ThrowEmptiesQueue'
    BY DEF ReaderOrQueue, ThrowEmptiesQueue
  <2>7. UnclosedHasNoDone'
    BY <1>0 DEF UnclosedHasNoDone, WritableTypeOK
  <2>8. QED
    BY <1>2, <2>2, <2>3, <2>4, <2>5, <2>6, <2>7
<1>6. QED
  BY <1>1, <1>4, <1>5 DEF Process

\* A next() that finds a queued payload keeps the invariant.
LEMMA NextShiftKeepsIndInv ==
  ASSUME IndInv, NEW r \in Read, NextShift(r)
  PROVE  IndInv'
<1> USE DEF IndInv, NextShift
<1> DEFINE c == Head(queue)
<1>1. queue \in Seq(Call) /\ queue # << >> /\ IsInjective(queue)
  BY DEF WritableTypeOK, QueuedOnce
<1>2. /\ c \in Call /\ queue' \in Seq(Call)
      /\ \A d : Contains(queue', d) <=> d # c /\ Contains(queue, d)
      /\ Contains(queue, c)
      /\ QueuedOnce'
  BY <1>1, ContainsTail DEF QueuedOnce
<1>3. /\ handed' \in Seq(Call)
      /\ \A d : Contains(handed', d) <=> d = c \/ Contains(handed, d)
  BY <1>2, ContainsAppend, AppendProperties DEF WritableTypeOK
<1>4. WritableTypeOK'
  BY <1>2, <1>3 DEF WritableTypeOK, SentState, ReadState
<1>5. queueResolve = None
  BY <1>1 DEF ReaderOrQueue
<1>6. InOrder'
  <2>1. handed \in Seq(Call) /\ accepted = handed \o queue
    BY DEF WritableTypeOK, InOrder
  <2>2. Append(handed, Head(queue)) \o Tail(queue) = handed \o queue
    BY <1>1, <2>1, ShiftHead
  <2>3. QED
    BY <2>1, <2>2 DEF InOrder
<1>7. SentTellsTheTruth'
  <2>1. sent' = [sent EXCEPT ![c] = "resolved"] /\ UNCHANGED error
    OBVIOUS
  <2>2. ResolvedIffHanded'
    BY <2>1, <1>2, <1>3 DEF SentTellsTheTruth, ResolvedIffHanded, WritableTypeOK
  <2>3. PendingIffQueued' /\ RejectedByThrow'
    BY <2>1, <1>2 DEF SentTellsTheTruth, PendingIffQueued, RejectedByThrow, WritableTypeOK
  <2>4. QED
    BY <2>2, <2>3 DEF SentTellsTheTruth
<1>8. ReaderOrQueue' /\ ThrowEmptiesQueue' /\ DoneIsLast'
  BY <1>5 DEF ReaderOrQueue, ThrowEmptiesQueue, DoneIsLast
<1>9. UnclosedHasNoDone'
  <2>1. sent[c] = "pending"
    BY <1>2 DEF SentTellsTheTruth, PendingIffQueued
  <2>2. QED
    BY <1>2, <2>1 DEF UnclosedHasNoDone, WritableTypeOK
<1>10. QED
  BY <1>2, <1>4, <1>6, <1>7, <1>8, <1>9

\* throw() keeps the invariant.
LEMMA ThrowKeepsIndInv == IndInv /\ ThrowCall => IndInv'
<1> SUFFICES ASSUME IndInv, ThrowCall PROVE IndInv'
  OBVIOUS
<1> USE DEF IndInv, ThrowCall
<1>1. WritableTypeOK'
  <2>1. << >> \in Seq(Call)
    OBVIOUS
  <2>2. sent' \in [Call -> SentState]
    BY DEF WritableTypeOK, SentState
  <2>3. QED
    BY <2>1, <2>2 DEF WritableTypeOK
<1>2. ReaderOrQueue' /\ InOrder' /\ ThrowEmptiesQueue' /\ DoneIsLast'
  BY DEF ReaderOrQueue, InOrder, ThrowEmptiesQueue, DoneIsLast
<1>3. QueuedOnce'
  BY ContainsEmpty DEF QueuedOnce
<1>4. SentTellsTheTruth'
  BY ContainsEmpty
     DEF SentTellsTheTruth, ResolvedIffHanded, PendingIffQueued, RejectedByThrow, WritableTypeOK
<1>5. UnclosedHasNoDone'
  BY DEF UnclosedHasNoDone, SentTellsTheTruth, PendingIffQueued, Call
<1>6. QED
  BY <1>1, <1>2, <1>3, <1>4, <1>5

\* Every step keeps the invariant.
LEMMA WritableNextInv == IndInv /\ [WritableNext]_writableVars => IndInv'
<1> SUFFICES ASSUME IndInv, [WritableNext]_writableVars PROVE IndInv'
  OBVIOUS
<1>1. ASSUME NEW c \in Write, WriteCall(c) PROVE IndInv'
  <2>0. c \in Call /\ c # Done
    BY WritableAssumption DEF Call
  <2>1. CASE WriteRefused(c)
    <3> USE <1>1, <2>1, <2>0 DEF IndInv, WriteCall, WriteRefused, state
    <3>1. WritableTypeOK'
      BY DEF WritableTypeOK, SentState
    <3>2. SentTellsTheTruth'
      BY DEF SentTellsTheTruth, ResolvedIffHanded, PendingIffQueued, RejectedByThrow, WritableTypeOK
    <3>3. /\ ReaderOrQueue' /\ InOrder' /\ DoneIsLast'
          /\ ThrowEmptiesQueue' /\ QueuedOnce' /\ UnclosedHasNoDone'
      BY DEF ReaderOrQueue, InOrder, DoneIsLast, ThrowEmptiesQueue, QueuedOnce,
             UnclosedHasNoDone
    <3>4. QED
      BY <3>1, <3>2, <3>3
  <2>2. CASE ~closed /\ Process(c) /\ UNCHANGED <<error, closed>>
    BY <1>1, <2>0, <2>2, ProcessKeepsIndInv DEF WriteCall, IndInv, WritableTypeOK
  <2>3. QED
    BY <1>1, <2>1, <2>2 DEF WriteCall
<1>2. CASE CloseCall
  <2>1. Done \in Call /\ sent[Done] = "idle"
    BY <1>2 DEF CloseCall, Call, IndInv, UnclosedHasNoDone
  <2>2. QED
    BY <1>2, <2>1, ProcessKeepsIndInv DEF CloseCall
<1>3. ASSUME NEW r \in Read, NextCall(r) PROVE IndInv'
  <2>1. CASE NextRejected(r)
    BY <2>1
       DEF NextRejected, state, IndInv, WritableTypeOK, ReadState, ReaderOrQueue, InOrder,
           SentTellsTheTruth, ResolvedIffHanded, PendingIffQueued, RejectedByThrow,
           DoneIsLast, ThrowEmptiesQueue, QueuedOnce, UnclosedHasNoDone
  <2>2. CASE NextShift(r)
    BY <2>2, NextShiftKeepsIndInv
  <2>3. CASE NextWait(r)
    BY <2>3
       DEF NextWait, IndInv, WritableTypeOK, ReadState, ReaderOrQueue, InOrder,
           SentTellsTheTruth, ResolvedIffHanded, PendingIffQueued, RejectedByThrow,
           DoneIsLast, ThrowEmptiesQueue, QueuedOnce, UnclosedHasNoDone
  <2>4. QED
    BY <1>3, <2>1, <2>2, <2>3 DEF NextCall
<1>4. CASE ThrowCall
  BY <1>4, ThrowKeepsIndInv
<1>5. CASE UNCHANGED writableVars
  BY <1>5
     DEF writableVars, IndInv, WritableTypeOK, ReaderOrQueue, InOrder, SentTellsTheTruth,
         ResolvedIffHanded, PendingIffQueued, RejectedByThrow,
         DoneIsLast, ThrowEmptiesQueue, QueuedOnce, UnclosedHasNoDone
<1>6. QED
  BY <1>1, <1>2, <1>3, <1>4, <1>5 DEF WritableNext, Pull

\* The invariant holds in every state of every behaviour.
THEOREM WritableInvariance == WritableSpec => []IndInv
  BY WritableInitInv, WritableNextInv, PTL DEF WritableSpec

\* Every variable keeps its type, whatever calls are made in whatever order.
THEOREM WritableTypeCorrect == WritableSpec => []WritableTypeOK
  BY WritableInvariance, PTL DEF IndInv

\* A reader never waits beside a queued payload.
THEOREM NoReaderBesideQueue == WritableSpec => []ReaderOrQueue
  BY WritableInvariance, PTL DEF IndInv

\* Until throw(), the readers get what was accepted, in order, each once.
THEOREM DeliveredInOrder == WritableSpec => []InOrder
  BY WritableInvariance, PTL DEF IndInv

\* The promise of each write() and of close() tells what became of its payload.
THEOREM PromisesTellTheTruth == WritableSpec => []SentTellsTheTruth
  BY WritableInvariance, PTL DEF IndInv

\* Nothing is accepted after close().
THEOREM NothingAfterDone == WritableSpec => []DoneIsLast
  BY WritableInvariance, PTL DEF IndInv

-----------------------------------------------------------------------------
(* The reader's promises, and what throw() leaves.                         *)

\* A consumer that awaits each next() is never forgotten: the promise it
\* awaits is the one that the next write() or close() resolves.  That writes may
\* be refused by then, because throw() met the read, is in the property.
THEOREM ReaderIsRemembered == WritableSpec => []NoOrphanRead
<1>1. WritableInit => NoOrphanRead
  BY DEF WritableInit, NoOrphanRead
<1>2. IndInv /\ NoOrphanRead /\ [WritableNext]_writableVars => NoOrphanRead'
  <2>0. [WritableNext]_writableVars => UNCHANGED disciplined
    BY DEF WritableNext, Pull, WriteCall, WriteRefused, CloseCall, Process, ProcessRejected,
           ProcessHandOver, ProcessQueue, NextCall, NextRejected, NextShift, NextWait,
           ThrowCall, state, writableVars
  <2> DEFINE Kept == \A r \in Read : read'[r] = "pending" =>
                       queueResolve' = r /\ (error' => \E s \in Read : read'[s] = "value")
  <2> SUFFICES ASSUME WritableTypeOK, NoOrphanRead, [WritableNext]_writableVars, disciplined
               PROVE  Kept
    BY <2>0 DEF NoOrphanRead, IndInv
  <2> USE DEF NoOrphanRead
  <2>1. ASSUME NEW c, Process(c), UNCHANGED error
        PROVE  Kept
    BY <2>1 DEF Process, ProcessRejected, ProcessHandOver, ProcessQueue, WritableTypeOK
  <2>2. ASSUME NEW c \in Write, WriteCall(c)
        PROVE  Kept
    BY <2>1, <2>2 DEF WriteCall, WriteRefused, state
  <2>3. CASE CloseCall
    BY <2>1, <2>3 DEF CloseCall
  <2>4. ASSUME NEW r \in Read, NextCall(r)
        PROVE  Kept
    <3>1. \A s \in Read : read[s] # "pending"
      BY <2>4 DEF NextCall, MayPull, Waiting
    <3>2. QED
      BY <2>4, <3>1 DEF NextCall, NextRejected, NextShift, NextWait, WritableTypeOK
  <2>5. CASE ThrowCall
    BY <2>5 DEF ThrowCall, MayThrow, Waiting
  <2>6. CASE UNCHANGED writableVars
    BY <2>6 DEF writableVars
  <2>7. QED
    BY <2>2, <2>3, <2>4, <2>5, <2>6 DEF WritableNext, Pull
<1>3. QED
  BY <1>1, <1>2, WritableInvariance, PTL DEF WritableSpec

\* From throw() on, no producer waits and nothing is accepted or handed over.
THEOREM ThrowEndsTheStream == WritableSpec => ThrowIsFinal
<1> DEFINE Final == error => /\ error'
                             /\ UNCHANGED <<accepted, handed, queue>>
                             /\ \A c \in Call : sent[c] # "pending" /\ sent'[c] # "pending"
<1>1. IndInv /\ IndInv' /\ [WritableNext]_writableVars => Final
  <2> SUFFICES ASSUME IndInv, IndInv', [WritableNext]_writableVars, error PROVE Final
    OBVIOUS
  <2>1. queue = << >> /\ \A c \in Call : sent[c] # "pending"
    BY ContainsEmpty DEF IndInv, ThrowEmptiesQueue, SentTellsTheTruth, PendingIffQueued
  <2>2. error' /\ UNCHANGED <<accepted, handed, queue>>
    BY <2>1
       DEF WritableNext, Pull, WriteCall, WriteRefused, CloseCall, Process, ProcessRejected,
           ProcessHandOver, ProcessQueue, NextCall, NextRejected, NextShift, NextWait,
           ThrowCall, state, writableVars
  <2>3. \A c \in Call : sent'[c] # "pending"
    BY <2>1, <2>2, ContainsEmpty DEF IndInv, SentTellsTheTruth, PendingIffQueued
  <2>4. QED
    BY <2>1, <2>2, <2>3
<1>2. QED
  BY <1>1, WritableInvariance, WritableNextInv, PTL DEF WritableSpec, ThrowIsFinal

-----------------------------------------------------------------------------
(* The writable implements the abstract channel.                           *)

\* process() offers the payload, hands it over at once, or turns it away.
LEMMA ProcessRefines ==
  ASSUME IndInv, NEW c \in Call, sent[c] = "idle", ~closed,
         closed' \in BOOLEAN, closed' <=> c = Done, UNCHANGED error, Process(c)
  PROVE  Channel!Next
<1>0. c \in Channel!Call
  BY DEF Channel!Call, Call
<1>1. CASE ProcessRejected(c)
  <2>1. closed' = (closed \/ c = Done)
    BY DEF IndInv, WritableTypeOK
  <2>2. Channel!TurnAway(c)
    BY <1>1, <2>1 DEF ProcessRejected, Channel!TurnAway
  <2>3. QED
    BY <1>0, <2>2 DEF Channel!Next
<1>2. ASSUME ~error, accepted' = Append(accepted, c) PROVE Channel!TakeOn(c)
  <2>1. closed' = (c = Done)
    BY DEF IndInv, WritableTypeOK
  <2>2. QED
    BY <1>2, <2>1 DEF Channel!TakeOn
<1>3. CASE ProcessHandOver(c)
  <2>1. queue = << >>
    BY <1>3 DEF ProcessHandOver, IndInv, ReaderOrQueue
  <2>2. handed = accepted
    BY <1>3, <2>1, ConcatEmptySeq DEF ProcessHandOver, IndInv, InOrder, WritableTypeOK
  <2>3. Channel!Rendezvous(c)
    BY <1>2, <1>3, <2>2 DEF ProcessHandOver, Channel!Rendezvous
  <2>4. QED
    BY <1>0, <2>3 DEF Channel!Next
<1>4. CASE ProcessQueue(c)
  <2>1. Channel!Offer(c)
    BY <1>2, <1>4 DEF ProcessQueue, Channel!Offer
  <2>2. QED
    BY <1>0, <2>1 DEF Channel!Next
<1>5. QED
  BY <1>1, <1>3, <1>4 DEF Process

\* Every behaviour of the writable is one of the channel.
THEOREM Implementation == WritableSpec => ImplementsChannel
<1>1. WritableInit => Channel!Init
  BY DEF WritableInit, Channel!Init, Channel!Call, Call
<1>2. IndInv /\ [WritableNext]_writableVars => [Channel!Next]_(Channel!vars)
  <2> SUFFICES ASSUME IndInv, [WritableNext]_writableVars
               PROVE  Channel!Next \/ UNCHANGED Channel!vars
    OBVIOUS
  <2>1. ASSUME NEW c \in Write, WriteCall(c) PROVE Channel!Next
    <3>0. c \in Call /\ c \in Channel!Call /\ c # Done
      BY WritableAssumption DEF Call, Channel!Call
    <3>1. CASE WriteRefused(c)
      <4>1. closed' = (closed \/ c = Done)
        BY <3>0, <3>1 DEF WriteRefused, state, IndInv, WritableTypeOK
      <4>2. Channel!TurnAway(c)
        BY <2>1, <3>1, <4>1 DEF WriteCall, WriteRefused, state, Channel!TurnAway
      <4>3. QED
        BY <3>0, <4>2 DEF Channel!Next
    <3>2. CASE ~closed /\ Process(c) /\ UNCHANGED <<error, closed>>
      BY <2>1, <3>0, <3>2, ProcessRefines DEF WriteCall, IndInv, WritableTypeOK
    <3>3. QED
      BY <2>1, <3>1, <3>2 DEF WriteCall
  <2>2. CASE CloseCall
    <3>1. Done \in Call /\ sent[Done] = "idle"
      BY <2>2 DEF CloseCall, Call, IndInv, UnclosedHasNoDone
    <3>2. QED
      BY <2>2, <3>1, ProcessRefines DEF CloseCall
  <2>3. ASSUME NEW r \in Read, NextCall(r) PROVE Channel!Next \/ UNCHANGED Channel!vars
    <3>1. CASE NextRejected(r)
      BY <3>1 DEF NextRejected, state, Channel!vars
    <3>2. CASE NextShift(r)
      <4>1. /\ ~error
            /\ handed \in Seq(Call) /\ queue \in Seq(Call) /\ queue # << >>
            /\ accepted = handed \o queue
        BY <3>2 DEF NextShift, IndInv, WritableTypeOK, InOrder
      <4>2. Len(handed) < Len(accepted) /\ accepted[Len(handed) + 1] = Head(queue)
        BY <4>1, ShiftHead
      <4>3. Channel!Take
        BY <3>2, <4>1, <4>2 DEF NextShift, Channel!Take
      <4>4. QED
        BY <4>3 DEF Channel!Next
    <3>3. CASE NextWait(r)
      BY <3>3 DEF NextWait, Channel!vars
    <3>4. QED
      BY <2>3, <3>1, <3>2, <3>3 DEF NextCall
  <2>4. CASE ThrowCall
    <3>1. \A c \in Call : sent[c] = "pending" <=> Contains(queue, c)
      BY DEF IndInv, SentTellsTheTruth, PendingIffQueued
    <3>2. sent' = [c \in Channel!Call |-> IF sent[c] = "pending" THEN "rejected" ELSE sent[c]]
      BY <2>4, <3>1 DEF ThrowCall, Call, Channel!Call
    <3>3. Channel!Break
      BY <2>4, <3>2 DEF ThrowCall, Channel!Break
    <3>4. QED
      BY <3>3 DEF Channel!Next
  <2>5. CASE UNCHANGED writableVars
    BY <2>5 DEF writableVars, Channel!vars
  <2>6. QED
    BY <2>1, <2>2, <2>3, <2>4, <2>5 DEF WritableNext, Pull
<1>3. QED
  BY <1>1, <1>2, WritableInvariance, PTL DEF WritableSpec, Channel!Spec, ImplementsChannel

-----------------------------------------------------------------------------
(* Pipeline: the inductive invariant.                                      *)

\* The source runs for a next() in flight only, and a next() in flight never
\* finds it suspended.
SourceInv ==
  /\ src = "running" => inFlight
  /\ inFlight => src \in {"running", "throwing", "ended"}

\* The generator of pipe() pulls while the chain has not passed on what it got,
\* and only for a consumer that waits, or a sink that has failed since.
DemandInv ==
  /\ gen = "pulling" <=> chain \in {"pulling", "chunk", "done", "error"}
  /\ gen = "pulling" => consumer \in {"awaiting", "failed"}
  /\ gen = "aborting" => opt.propagate /\ consumer = "throwing"

\* abort() is called for the error of a consumer or a sink, with the option.
ReasonInv ==
  /\ abort # "none" => opt.propagate /\ consumer \in {"throwing", "threw", "failed"}
  /\ result \in {"aborting", "rejected"} => consumer = "failed"
  /\ told = IF abort \in {"none", "waiting", "due"} THEN 0 ELSE 1

\* Where abort() is with a source: a throw() it has called is handled by the
\* source, queued behind a next(), or has ended the source, but for a source
\* that answers it with a value.
AbortInv ==
  /\ opt.propagate /\ (consumer = "threw" \/ result = "rejected") => abort \in AbortSettled
  /\ queuedThrow => src = "running" /\ abort = "throwing"
  /\ src = "throwing" => abort = "throwing"
  /\ abort = "throwing" => src = "throwing" \/ queuedThrow
  /\ abort \in {"completed", "rethrown", "thrown"} => src = "ended"
  /\ abort = "caught" => opt.kind = "yields"

PipelineInv == TypeOK /\ SourceInv /\ DemandInv /\ ReasonInv /\ AbortInv

-----------------------------------------------------------------------------
(* It is an invariant.                                                     *)

LEMMA PipelineInitInv == Init => PipelineInv
<1>1. Init => TypeOK
  <2> SUFFICES ASSUME Init PROVE TypeOK
    OBVIOUS
  <2>1. chunks \in 0..MaxChunks /\ told \in 0..2
    BY PipelineAssumption DEF Init
  <2> QED
    BY <2>1 DEF Init, TypeOK
<1>2. Init => SourceInv /\ DemandInv /\ ReasonInv /\ AbortInv
  BY DEF Init, SourceInv, DemandInv, ReasonInv, AbortInv, AbortSettled
<1> QED
  BY <1>1, <1>2 DEF PipelineInv

\* Each step preserves it.
LEMMA PipelineNextInv == PipelineInv /\ [Next]_vars => PipelineInv'
<1> SUFFICES ASSUME PipelineInv, [Next]_vars
             PROVE  PipelineInv'
  OBVIOUS
<1> USE PipelineAssumption DEF PipelineInv, TypeOK, SourceInv, DemandInv, ReasonInv, AbortInv,
                               AbortSettled
<1>1. CASE SourceYields
  <2>1. chunks' \in 0..MaxChunks
    BY <1>1 DEF SourceYields, Settle, AbortDue
  <2>2. TypeOK'
    BY <2>1, <1>1 DEF SourceYields, Settle, AbortDue
  <2>3. SourceInv'
    BY <1>1 DEF SourceYields, Settle, AbortDue
  <2>4. DemandInv'
    BY <1>1 DEF SourceYields, Settle, AbortDue
  <2>5. ReasonInv'
    BY <1>1 DEF SourceYields, Settle, AbortDue
  <2>6. AbortInv'
    BY <1>1 DEF SourceYields, Settle, AbortDue
  <2>7. QED
    BY <2>2, <2>3, <2>4, <2>5, <2>6
<1>2. CASE SourceEnds
  BY <1>2 DEF SourceEnds, Settle, AbortDue
<1>3. CASE SourceIsOver
  BY <1>3 DEF SourceIsOver, Settle, AbortDue, srcVars
<1>4. CASE SourceHandlesThrow
  BY <1>4 DEF SourceHandlesThrow
<1>5. CASE AbortRuns
  <2> USE DEF AbortRuns, CallThrow, CallThrowOnGenerator, CallThrowOnWritable,
              CallThrowOnNodeResponse, GeneratorKind, Kind
  <2>1. told' \in 0..2
    BY <1>5
  <2>2. TypeOK'
    <3>1. /\ src' \in {"fresh", "running", "suspended", "throwing", "ended"}
          /\ abort' \in {"none", "waiting", "due", "throwing"} \cup AbortSettled
      BY <1>5
    <3>2. queuedThrow' \in BOOLEAN /\ hung' \in BOOLEAN
      BY <1>5
    <3>3. /\ opt' = opt /\ chunks' = chunks /\ inFlight' = inFlight /\ chain' = chain
          /\ gen' = gen /\ consumer' = consumer /\ result' = result
      BY <1>5
    <3>4. QED
      BY <2>1, <3>1, <3>2, <3>3
  <2>3. SourceInv'
    BY <1>5
  <2>4. DemandInv'
    BY <1>5
  <2>5. ReasonInv'
    BY <1>5
  <2>6. AbortInv'
    BY <1>5
  <2>7. QED
    BY <2>2, <2>3, <2>4, <2>5, <2>6
<1>6. CASE ChainEmits
  BY <1>6 DEF ChainEmits, Deliver, srcVars
<1>7. CASE ChainPullsAgain
  BY <1>7 DEF ChainPullsAgain, CallNext
<1>8. CASE ChainFails
  BY <1>8 DEF ChainFails, Deliver, srcVars
<1>9. CASE ChainEmitsLast
  BY <1>9 DEF ChainEmitsLast, Deliver, srcVars
<1>10. CASE ChainEnds
  BY <1>10 DEF ChainEnds, Deliver, srcVars
<1>11. CASE PipeRethrows
  BY <1>11 DEF PipeRethrows, srcVars
<1>12. CASE PipeToRejects
  BY <1>12 DEF PipeToRejects, srcVars
<1>13. CASE ConsumerNext
  <2>1. CASE chain = "idle"
    BY <1>13, <2>1 DEF ConsumerNext, CallNext
  <2>2. CASE chain = "over"
    BY <1>13, <2>2 DEF ConsumerNext, srcVars
  <2>3. QED
    BY <1>13, <2>1, <2>2 DEF ConsumerNext
<1>14. CASE ConsumerThrow
  BY <1>14 DEF ConsumerThrow, Abort, CallThrow, CallThrowOnGenerator, CallThrowOnWritable,
               CallThrowOnNodeResponse, GeneratorKind, Kind, srcVars
<1>15. CASE ConsumerLeaves
  BY <1>15 DEF ConsumerLeaves, srcVars
<1>16. CASE SinkRejects
  BY <1>16 DEF SinkRejects, Abort, CallThrow, CallThrowOnGenerator, CallThrowOnWritable,
               CallThrowOnNodeResponse, GeneratorKind, Kind, srcVars
<1>17. CASE SinkResolves
  BY <1>17 DEF SinkResolves, srcVars
<1>18. CASE UNCHANGED vars
  BY <1>18 DEF vars, srcVars
<1>19. QED
  BY <1>1, <1>2, <1>3, <1>4, <1>5, <1>6, <1>7, <1>8, <1>9, <1>10, <1>11, <1>12, <1>13,
     <1>14, <1>15, <1>16, <1>17, <1>18 DEF Next, SourceSettles, ChainReacts

\* The inductive invariant holds: what the theorems below rest on.
THEOREM PipelineInvariance == Spec => []PipelineInv
<1>1. Init => PipelineInv
  BY PipelineInitInv
<1>2. PipelineInv /\ [Next]_vars => PipelineInv'
  BY PipelineNextInv
<1>3. QED
  BY <1>1, <1>2, PTL DEF Spec

-----------------------------------------------------------------------------
(* What it implies.                                                        *)

\* The state of source, Abortable, transforms, pipe() and consumer has its type,
\* and the last transform waits exactly while a next() is in flight.
THEOREM PipelineTypeCorrect == Spec => []TypeOK
<1>1. PipelineInv => TypeOK
  BY DEF PipelineInv
<1>2. QED
  BY <1>1, PipelineInvariance, PTL

\* With propagateDownStreamError, throw() and pipeTo() settle only after the error
\* has reached the source, however the call of throw() met the next() in flight.
THEOREM DownstreamErrorIsPropagated == Spec => []DownstreamErrorReachesSource
<1>1. PipelineInv => DownstreamErrorReachesSource
  <2>1. SUFFICES ASSUME PipelineInv, opt.propagate, consumer = "threw" \/ result = "rejected"
                 PROVE  SourceWasAborted
    BY DEF DownstreamErrorReachesSource
  <2>2. abort \in AbortSettled
    BY <2>1 DEF PipelineInv, AbortInv
  <2>3. CASE abort = "caught"
    BY <2>1, <2>3 DEF PipelineInv, AbortInv, ReasonInv, SourceWasAborted
  <2>4. CASE abort # "caught"
    BY <2>1, <2>2, <2>4 DEF PipelineInv, AbortInv, AbortSettled, SourceWasAborted
  <2>5. QED
    BY <2>3, <2>4
<1>2. QED
  BY <1>1, PipelineInvariance, PTL

\* A source is told to throw once at most, and only for an error of the consumer or
\* the sink, with the option set.
THEOREM SourceIsToldOnce == Spec => []ToldOnceForAReason
<1>1. PipelineInv => ToldOnceForAReason
  BY DEF PipelineInv, ReasonInv, ToldOnceForAReason
<1>2. QED
  BY <1>1, PipelineInvariance, PTL

\* The source runs only for a consumer that waits, or for a sink that failed while it
\* waited: transforms that ask again do so on behalf of one.
THEOREM SourceIsPulled == Spec => []SourceRunsOnDemand
<1>1. PipelineInv => SourceRunsOnDemand
  BY DEF PipelineInv, TypeOK, SourceInv, DemandInv, SourceRunsOnDemand
<1>2. QED
  BY <1>1, PipelineInvariance, PTL

\* What Abortable.abort() has answered is final: no later next(), throw() or second
\* abort() changes the state it returned.
THEOREM AbortIsFinal == Spec => [][(abort \in AbortSettled) => UNCHANGED abort]_vars
<1>1. PipelineInv /\ [Next]_vars => [(abort \in AbortSettled) => UNCHANGED abort]_vars
  <2> SUFFICES ASSUME PipelineInv, Next, abort \in AbortSettled
               PROVE  abort' = abort
    OBVIOUS
  <2> USE DEF PipelineInv, AbortInv, AbortSettled
  <2>1. CASE SourceSettles
    BY <2>1 DEF SourceSettles, SourceYields, SourceEnds, SourceIsOver, SourceHandlesThrow, AbortDue
  <2>2. CASE AbortRuns
    BY <2>2 DEF AbortRuns
  <2>3. CASE ChainReacts
    BY <2>3 DEF ChainReacts, ChainEmits, ChainPullsAgain, ChainFails, ChainEmitsLast, ChainEnds
  <2>4. CASE ConsumerThrow \/ SinkRejects
    BY <2>4 DEF ConsumerThrow, SinkRejects, Abort
  <2>5. CASE PipeRethrows \/ PipeToRejects \/ ConsumerNext \/ ConsumerLeaves \/ SinkResolves
    BY <2>5 DEF PipeRethrows, PipeToRejects, ConsumerNext, ConsumerLeaves, SinkResolves
  <2>6. QED
    BY <2>1, <2>2, <2>3, <2>4, <2>5 DEF Next
<1>2. QED
  BY <1>1, PipelineInvariance, PTL DEF Spec
=============================================================================
