-------------------------- MODULE EnvelopeReaders --------------------------
(***************************************************************************)
(* The two readers of enveloped messages in connect-core:                  *)
(* transformSplitEnvelope (async-iterable.ts), used with Node.js, and      *)
(* createEnvelopeReadableStream (envelope.ts), used in browsers.  Both     *)
(* keep a buffer to which they append chunks of any size.                  *)
(***************************************************************************)
EXTENDS Sequences, Integers

CONSTANTS
  MaxMessages,  \* bound: messages on the wire
  MaxLength     \* bound: length of a message

ASSUME EnvelopeAssumption == MaxMessages \in Nat /\ MaxLength \in Nat

VARIABLES
  reader,   \* which of the two
  wire,     \* what is sent, see Framing
  low,      \* the buffer holds the bytes from position low ...
  high,     \* ... up to before position high
  header,   \* the header that pull() has parsed, as the length it found, or -1
  pc,       \* "read": awaits a chunk, "scan": looks into the buffer
  emitted,
  outcome

vars == <<reader, wire, low, high, header, pc, emitted, outcome>>

Frame == INSTANCE Framing

Lengths == UNION {[1..n -> 0..MaxLength] : n \in 0..MaxMessages}

Outcome == {"open", "done", "too large", "incomplete"}

TypeOK ==
  /\ reader \in {"split", "stream"}
  /\ low \in Nat /\ high \in low..wire.cut
  /\ header \in -1..MaxLength
  /\ pc \in {"read", "scan"}
  /\ outcome \in Outcome
  /\ Len(emitted) <= MaxMessages

\* The stream may end anywhere.  createEnvelopeReadableStream has no limit.
Init ==
  /\ reader \in {"split", "stream"}
  /\ \E ls \in Lengths : \E cut \in 0..Frame!Total(ls), max \in 0..MaxLength :
       wire = [lengths |-> ls, cut |-> cut,
               max |-> IF reader = "split" THEN max ELSE MaxLength]
  /\ low = 0 /\ high = 0 /\ header = -1
  /\ pc = IF reader = "split" THEN "read" ELSE "scan"
  /\ emitted = << >> /\ outcome = "open"

Buffered == high - low

\* The length field at the front of the buffer.  The bytes of a payload, read as
\* a length, give anything: here 0.
PeekLength ==
  LET here == {n \in 1..Len(wire.lengths) : Frame!Start(wire.lengths, n) = low}
  IN  IF here = {} THEN 0 ELSE wire.lengths[CHOOSE n \in here : TRUE]

\* buffer.subarray(5, 5 + length), which stops at the end of the buffer.
Payload(length) ==
  [from |-> low + 5, to |-> IF low + 5 + length < high THEN low + 5 + length ELSE high]

Shift(length) ==
  /\ emitted' = Append(emitted, Payload(length))
  /\ low' = Payload(length).to

\* The next chunk of the source arrives, of any size, an empty one included.
Chunk ==
  /\ outcome = "open" /\ pc = "read"
  /\ high' \in high..wire.cut
  /\ pc' = "scan"
  /\ UNCHANGED <<reader, wire, low, header, emitted, outcome>>

-----------------------------------------------------------------------------
(* transformSplitEnvelope                                                  *)

SplitScans == reader = "split" /\ outcome = "open" /\ pc = "scan"

\* peekHeader() or shiftEnvelope() finds too few bytes.
SplitNeedsMore ==
  /\ SplitScans
  /\ Buffered < 5 \/ (PeekLength <= wire.max /\ Buffered < 5 + PeekLength)
  /\ pc' = "read"
  /\ UNCHANGED <<reader, wire, low, high, header, emitted, outcome>>

\* assertReadMaxBytes() is asked before the payload is there.
SplitTooLarge ==
  /\ SplitScans
  /\ Buffered >= 5 /\ PeekLength > wire.max
  /\ outcome' = "too large"
  /\ UNCHANGED <<reader, wire, low, high, header, pc, emitted>>

SplitYields ==
  /\ SplitScans
  /\ Buffered >= 5 /\ PeekLength <= wire.max /\ Buffered >= 5 + PeekLength
  /\ Shift(PeekLength)
  /\ UNCHANGED <<reader, wire, high, header, pc, outcome>>

\* Mutant: takes any end of the source for the end of the messages.
SplitEnd_Lenient ==
  /\ reader = "split" /\ outcome = "open" /\ pc = "read" /\ high = wire.cut
  /\ outcome' = "done"
  /\ UNCHANGED <<reader, wire, low, high, header, pc, emitted>>

\* Mutant: waits for the rest of an envelope that never comes.
SplitEnd_Waits == SplitEnd_Lenient /\ Buffered = 0

SplitEnd ==
  /\ reader = "split" /\ outcome = "open" /\ pc = "read" /\ high = wire.cut
  /\ outcome' = IF Buffered > 0 THEN "incomplete" ELSE "done"
  /\ UNCHANGED <<reader, wire, low, high, header, pc, emitted>>

-----------------------------------------------------------------------------
(* createEnvelopeReadableStream: one pull() for each envelope.             *)

StreamScans == reader = "stream" /\ outcome = "open" /\ pc = "scan"

Known == IF header = -1 /\ Buffered >= 5 THEN PeekLength ELSE header

StreamNeedsMore ==
  /\ StreamScans
  /\ Known = -1 \/ Buffered < 5 + Known
  /\ header' = Known
  /\ pc' = "read"
  /\ UNCHANGED <<reader, wire, low, high, emitted, outcome>>

StreamEnqueues ==
  /\ StreamScans
  /\ Known # -1 /\ Buffered >= 5 + Known
  /\ Shift(Known)
  /\ header' = -1
  /\ UNCHANGED <<reader, wire, high, pc, outcome>>

\* The source ends while pull() awaits a chunk.  With a header, what is there of
\* the payload is enqueued.
StreamEnd ==
  /\ reader = "stream" /\ outcome = "open" /\ pc = "read" /\ high = wire.cut
  /\ \/ /\ header = -1
        /\ outcome' = IF Buffered = 0 THEN "done" ELSE "incomplete"
        /\ UNCHANGED <<low, header, pc, emitted>>
     \/ /\ header # -1
        /\ Shift(header)
        /\ header' = -1 /\ pc' = "scan"
        /\ UNCHANGED outcome
  /\ UNCHANGED <<reader, wire, high>>

-----------------------------------------------------------------------------

Ending == SplitEnd \/ StreamEnd
Scanning == SplitNeedsMore \/ SplitTooLarge \/ SplitYields \/ StreamNeedsMore \/ StreamEnqueues

Next == Chunk \/ Scanning \/ Ending

Spec == Init /\ [][Next]_vars

\* The source delivers what it has, however many empty chunks it puts between,
\* and ends.
FairSpec ==
  /\ Spec
  /\ WF_vars(Scanning)
  /\ SF_vars(Chunk /\ high' > high) /\ SF_vars(Ending)

-----------------------------------------------------------------------------
(* Properties                                                              *)

\* The last envelope on the wire is whole, or was cut in its prefix.
CutInPayload ==
  \E n \in 1..Len(wire.lengths) :
    /\ Frame!Start(wire.lengths, n) + 5 <= wire.cut
    /\ wire.cut < Frame!Start(wire.lengths, n + 1)

\* Whatever the chunks, both readers read what was framed and end as Framing
\* says: transformSplitEnvelope always, createEnvelopeReadableStream unless the
\* stream ends within a payload.
ReadsTheFrames ==
  /\ Frame!Init
  /\ [][Frame!Next \/ (CutInPayload /\ StreamEnd)]_<<wire, emitted, outcome>>

\* An error is explained by the limit, or by a cut.
ErrorIsExplained ==
  /\ outcome = "too large" => \E n \in 1..Len(wire.lengths) : wire.lengths[n] > wire.max
  /\ outcome = "incomplete" => wire.cut < Frame!Total(wire.lengths)

\* Reading comes to an end, with an error only for a reason.
ReadingEnds == <>(outcome # "open") /\ []ErrorIsExplained

\* EnvelopedMessage.data: "Raw data of the message that was enveloped."
EmitsWhatWasEnveloped ==
  \A n \in 1..Len(emitted) : emitted[n] = Frame!Payload(wire.lengths, n)
=============================================================================
