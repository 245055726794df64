------------------------------ MODULE Framing ------------------------------
(***************************************************************************)
(* What reading enveloped messages from a stream of bytes means, whatever  *)
(* the chunks the bytes arrive in.  An envelope is a prefix of 5 bytes     *)
(* (flags, length) and a payload of that length.                           *)
(*                                                                         *)
(* A byte is named by its position in the stream, a payload by the         *)
(* interval of positions it occupies.                                      *)
(***************************************************************************)
EXTENDS Sequences, Integers

VARIABLES
  wire,     \* lengths: of the payloads the peer sent; cut: how many bytes of
            \* that arrive; max: readMaxBytes
  emitted,  \* the payloads that were read
  outcome

vars == <<wire, emitted, outcome>>

Prefix == 5

\* The positions at which the envelopes start, and the one behind the last.
Starts(lengths) ==
  LET at[n \in 1..(Len(lengths) + 1)] ==
        IF n = 1 THEN 0 ELSE at[n - 1] + Prefix + lengths[n - 1]
  IN at

Start(lengths, n) == Starts(lengths)[n]

Total(lengths) == Start(lengths, Len(lengths) + 1)

Payload(lengths, n) ==
  [from |-> Start(lengths, n) + Prefix, to |-> Start(lengths, n + 1)]

Init == emitted = << >> /\ outcome = "open"

NextStart == Start(wire.lengths, Len(emitted) + 1)

\* The prefix of the next envelope arrives.
NextIsKnown == Len(emitted) < Len(wire.lengths) /\ NextStart + Prefix <= wire.cut

NextLength == wire.lengths[Len(emitted) + 1]

\* The next envelope arrives as a whole and is small enough.
Emit ==
  /\ outcome = "open"
  /\ NextIsKnown /\ NextLength <= wire.max
  /\ NextStart + Prefix + NextLength <= wire.cut
  /\ emitted' = Append(emitted, Payload(wire.lengths, Len(emitted) + 1))
  /\ UNCHANGED <<wire, outcome>>

TooLarge ==
  /\ outcome = "open"
  /\ NextIsKnown /\ NextLength > wire.max
  /\ outcome' = "too large"
  /\ UNCHANGED <<wire, emitted>>

\* The stream ends between two envelopes, or in one.
End ==
  /\ outcome = "open"
  /\ \/ NextStart = wire.cut /\ outcome' = "done"
     \/ /\ NextStart < wire.cut
        /\ NextIsKnown => NextLength <= wire.max /\ NextStart + Prefix + NextLength > wire.cut
        /\ outcome' = "incomplete"
  /\ UNCHANGED <<wire, emitted>>

Next == Emit \/ TooLarge \/ End

Spec == Init /\ [][Next]_vars
=============================================================================
