------------------------ MODULE EnvelopeReaders_proofs ------------------------
(***************************************************************************)
(* Both readers of enveloped messages read what was framed, for any number *)
(* of messages of any length, every cut, and every way to cut the stream   *)
(* into chunks.                                                            *)
(***************************************************************************)
EXTENDS EnvelopeReaders, SequenceTheorems, WellFoundedInduction, TLAPS

-----------------------------------------------------------------------------
(* Where the envelopes start                                               *)

\* Induction over the natural numbers, for a set in place of a predicate.
LEMMA SetInduction ==
  ASSUME NEW S, 0 \in S, \A n \in Nat : n \in S => n + 1 \in S
  PROVE  Nat \subseteq S
<1>1. SUFFICES ASSUME Nat \ S # {}
               PROVE  FALSE
  OBVIOUS
<1>2. \E x \in Nat \ S : \A y \in Nat \ S : ~(<<y, x>> \in OpToRel(<, Nat))
  <2>1. Nat \ S \subseteq Nat /\ Nat \ S # {}
    BY <1>1
  <2>2. QED
    BY <2>1, NatLessThanWellFounded, WFMin
<1>3. PICK x \in Nat \ S : \A y \in Nat \ S : ~(y < x)
  BY <1>2 DEF OpToRel
<1>4. x - 1 \in Nat /\ x - 1 \in S
  BY <1>3
<1>5. QED
  BY <1>3, <1>4

\* The function that Starts() is defined by exists: it can be built up to any
\* position.
LEMMA StartsExists ==
  ASSUME NEW lengths, NEW k \in Nat
  PROVE  \E at : at = [n \in 1..(k + 1) |->
                         IF n = 1 THEN 0 ELSE at[n - 1] + Frame!Prefix + lengths[n - 1]]
<1> DEFINE Built(j) == \E at : at = [n \in 1..(j + 1) |->
                         IF n = 1 THEN 0 ELSE at[n - 1] + Frame!Prefix + lengths[n - 1]]
           S == {j \in Nat : Built(j)}
<1>1. 0 \in S
  <2>1. [n \in 1..1 |-> 0] = [n \in 1..(0 + 1) |->
           IF n = 1 THEN 0 ELSE [m \in 1..1 |-> 0][n - 1] + Frame!Prefix + lengths[n - 1]]
    OBVIOUS
  <2>2. QED
    BY <2>1
<1>2. ASSUME NEW j \in Nat, j \in S
      PROVE  j + 1 \in S
  <2>1. PICK at : at = [n \in 1..(j + 1) |->
                          IF n = 1 THEN 0 ELSE at[n - 1] + Frame!Prefix + lengths[n - 1]]
    BY <1>2
  <2> DEFINE more == [n \in 1..(j + 2) |->
                        IF n <= j + 1 THEN at[n] ELSE at[j + 1] + Frame!Prefix + lengths[j + 1]]
  <2>2. ASSUME NEW n \in 1..(j + 2)
        PROVE  more[n] = IF n = 1 THEN 0 ELSE more[n - 1] + Frame!Prefix + lengths[n - 1]
    <3>1. CASE n <= j + 1 /\ n = 1
      BY <2>1, <3>1
    <3>2. CASE n <= j + 1 /\ n # 1
      <4>1. n \in 1..(j + 1) /\ n - 1 \in 1..(j + 1) /\ n - 1 \in 1..(j + 2) /\ n - 1 <= j + 1
        BY <3>2
      <4>2. more[n] = at[n] /\ more[n - 1] = at[n - 1]
        BY <4>1
      <4>3. at[n] = at[n - 1] + Frame!Prefix + lengths[n - 1]
        BY <2>1, <3>2, <4>1
      <4>4. QED
        BY <3>2, <4>2, <4>3
    <3>3. CASE ~(n <= j + 1)
      <4>1. n = j + 2 /\ n - 1 = j + 1 /\ n # 1 /\ n - 1 \in 1..(j + 2) /\ n - 1 <= j + 1
        BY <3>3
      <4>2. more[n] = at[j + 1] + Frame!Prefix + lengths[j + 1] /\ more[n - 1] = at[j + 1]
        BY <3>3, <4>1
      <4>3. QED
        BY <4>1, <4>2
    <3>4. QED
      BY <3>1, <3>2, <3>3
  <2>3. more = [n \in 1..((j + 1) + 1) |->
                  IF n = 1 THEN 0 ELSE more[n - 1] + Frame!Prefix + lengths[n - 1]]
    <3>1. (j + 1) + 1 = j + 2
      OBVIOUS
    <3> HIDE DEF more
    <3>2. more = [n \in 1..(j + 2) |-> more[n]]
      BY DEF more
    <3>3. QED
      BY <2>2, <3>1, <3>2
  <2> HIDE DEF more
  <2>4. Built(j + 1)
    BY <2>3, Zenon
  <2> HIDE DEF Built
  <2>5. QED
    BY <2>4
<1>3. k \in S
  <2> HIDE DEF S
  <2>1. QED
    BY <1>1, <1>2, SetInduction
<1>4. QED
  BY <1>3

\* The first envelope starts at 0, and each one behind the one before it.
LEMMA StartsStepwise ==
  ASSUME NEW lengths \in Seq(Nat)
  PROVE  /\ Frame!Start(lengths, 1) = 0
         /\ \A n \in 1..Len(lengths) :
              Frame!Start(lengths, n + 1) = Frame!Start(lengths, n) + Frame!Prefix + lengths[n]
<1>1. Len(lengths) \in Nat
  OBVIOUS
<1>2. Frame!Starts(lengths) = [n \in 1..(Len(lengths) + 1) |->
        IF n = 1 THEN 0
        ELSE Frame!Starts(lengths)[n - 1] + Frame!Prefix + lengths[n - 1]]
  <2>1. \E at : at = [n \in 1..(Len(lengths) + 1) |->
                        IF n = 1 THEN 0 ELSE at[n - 1] + Frame!Prefix + lengths[n - 1]]
    BY <1>1, StartsExists
  <2>2. QED
    BY <2>1, Zenon DEF Frame!Starts
<1>3. 1 \in 1..(Len(lengths) + 1)
  BY <1>1
<1>4. ASSUME NEW n \in 1..Len(lengths)
      PROVE  Frame!Start(lengths, n + 1) = Frame!Start(lengths, n) + Frame!Prefix + lengths[n]
  <2>1. n + 1 \in 1..(Len(lengths) + 1) /\ n + 1 # 1 /\ (n + 1) - 1 = n
    BY <1>1
  <2>2. QED
    BY <1>2, <2>1 DEF Frame!Start
<1>5. QED
  BY <1>2, <1>3, <1>4 DEF Frame!Start

\* Starts are positions, and between two of them there is all of an envelope.
LEMMA StartsGrow ==
  ASSUME NEW lengths \in Seq(Nat)
  PROVE  /\ \A n \in 1..(Len(lengths) + 1) : Frame!Start(lengths, n) \in Nat
         /\ \A m \in 1..Len(lengths), n \in 1..(Len(lengths) + 1) :
              m < n => Frame!Start(lengths, m) + 5 + lengths[m] <= Frame!Start(lengths, n)
<1> DEFINE At(n) == Frame!Start(lengths, n)
<1> HIDE DEF At
<1>1. /\ Len(lengths) \in Nat
      /\ \A n \in 1..Len(lengths) : lengths[n] \in Nat
      /\ At(1) = 0
      /\ \A n \in 1..Len(lengths) : At(n + 1) = At(n) + 5 + lengths[n]
  BY StartsStepwise DEF At, Frame!Prefix
<1>2. \A n \in 1..(Len(lengths) + 1) : At(n) \in Nat
  <2> DEFINE S == {n \in Nat : n <= Len(lengths) => At(n + 1) \in Nat}
  <2>1. 0 \in S
    BY <1>1
  <2>2. ASSUME NEW n \in Nat, n \in S
        PROVE  n + 1 \in S
    <3>1. SUFFICES ASSUME n + 1 <= Len(lengths)
                   PROVE  At(n + 2) \in Nat
      OBVIOUS
    <3>2. n + 1 \in 1..Len(lengths) /\ At(n + 1) \in Nat /\ (n + 1) + 1 = n + 2
      BY <2>2, <3>1, <1>1
    <3>3. QED
      BY <1>1, <3>2
  <2> HIDE DEF S
  <2>3. Nat \subseteq S
    BY <2>1, <2>2, SetInduction
  <2>4. SUFFICES ASSUME NEW n \in 1..(Len(lengths) + 1)
                 PROVE  At(n) \in Nat
    OBVIOUS
  <2>5. n - 1 \in S /\ (n - 1) + 1 = n /\ n - 1 <= Len(lengths)
    BY <1>1, <2>3
  <2>6. QED
    BY <2>5 DEF S
<1>3. ASSUME NEW m \in 1..Len(lengths), NEW n \in 1..(Len(lengths) + 1), m < n
      PROVE  At(m) + 5 + lengths[m] <= At(n)
  <2> DEFINE S == {i \in Nat : m + 1 + i <= Len(lengths) + 1 =>
                                 At(m) + 5 + lengths[m] <= At(m + 1 + i)}
  <2>1. 0 \in S
    <3>1. m + 1 + 0 = m + 1 /\ m + 1 \in 1..(Len(lengths) + 1)
      BY <1>1
    <3>2. At(m) \in Nat /\ At(m + 1) = At(m) + 5 + lengths[m] /\ At(m + 1) \in Nat
      BY <1>1, <1>2, <3>1
    <3>3. QED
      BY <3>1, <3>2
  <2>2. ASSUME NEW i \in Nat, i \in S
        PROVE  i + 1 \in S
    <3>1. SUFFICES ASSUME m + 1 + (i + 1) <= Len(lengths) + 1
                   PROVE  At(m) + 5 + lengths[m] <= At(m + 1 + (i + 1))
      OBVIOUS
    <3>2. m + 1 + i \in 1..Len(lengths) /\ m + 1 + (i + 1) = (m + 1 + i) + 1
      BY <1>1, <3>1
    <3>3. At(m) + 5 + lengths[m] <= At(m + 1 + i)
      BY <1>1, <2>2, <3>2
    <3>4. At(m + 1 + (i + 1)) = At(m + 1 + i) + 5 + lengths[m + 1 + i]
      BY <1>1, <3>2
    <3>5. lengths[m + 1 + i] \in Nat /\ lengths[m] \in Nat /\ At(m) \in Nat
      BY <1>1, <1>2, <3>2
    <3>6. At(m + 1 + i) \in Nat
      <4>1. m + 1 + i \in 1..(Len(lengths) + 1)
        BY <1>1, <3>2
      <4>2. QED
        BY <1>2, <4>1
    <3>7. \A a, b, c, d \in Nat : a + 5 + b <= c => a + 5 + b <= c + 5 + d
      OBVIOUS
    <3>8. QED
      BY <3>3, <3>4, <3>5, <3>6, <3>7
  <2> HIDE DEF S
  <2>3. Nat \subseteq S
    BY <2>1, <2>2, SetInduction
  <2>4. n - m - 1 \in Nat /\ m + 1 + (n - m - 1) = n
    BY <1>1, <1>3
  <2>5. n - m - 1 \in S
    BY <2>3, <2>4
  <2>6. QED
    BY <1>1, <2>4, <2>5 DEF S
<1>4. QED
  BY <1>2, <1>3 DEF At

\* The length at the front of the buffer is that of the envelope that starts there.
LEMMA PeekFindsLength ==
  ASSUME wire.lengths \in Seq(Nat), NEW n \in 1..Len(wire.lengths),
         low = Frame!Start(wire.lengths, n)
  PROVE  PeekLength = wire.lengths[n]
<1> DEFINE here == {m \in 1..Len(wire.lengths) : Frame!Start(wire.lengths, m) = low}
<1>1. n \in here
  OBVIOUS
<1>2. ASSUME NEW m \in here
      PROVE  m = n
  <2>1. /\ m \in 1..Len(wire.lengths) /\ n \in 1..Len(wire.lengths)
        /\ m \in 1..(Len(wire.lengths) + 1) /\ n \in 1..(Len(wire.lengths) + 1)
        /\ wire.lengths[m] \in Nat /\ wire.lengths[n] \in Nat
    OBVIOUS
  <2>2. Frame!Start(wire.lengths, m) = low /\ Frame!Start(wire.lengths, n) = low
    OBVIOUS
  <2>3. low \in Nat
    BY <2>1, <2>2, StartsGrow
  <2>4. ~(m < n)
    <3>1. m < n => low + 5 + wire.lengths[m] <= low
      BY <2>1, <2>2, StartsGrow
    <3>2. QED
      BY <2>1, <2>3, <3>1
  <2>5. ~(n < m)
    <3>1. n < m => low + 5 + wire.lengths[n] <= low
      BY <2>1, <2>2, StartsGrow
    <3>2. QED
      BY <2>1, <2>3, <3>1
  <2>6. QED
    BY <2>1, <2>4, <2>5
<1>3. (CHOOSE m \in here : TRUE) = n
  BY <1>1, <1>2
<1>4. QED
  BY <1>1, <1>3 DEF PeekLength

-----------------------------------------------------------------------------
(* The inductive invariant                                                 *)

\* What is sent, and where it is cut.  createEnvelopeReadableStream has no limit.
WireInv ==
  /\ wire.lengths \in Seq(0..MaxLength) /\ Len(wire.lengths) <= MaxMessages
  /\ wire.cut \in 0..Frame!Total(wire.lengths)
  /\ wire.max \in 0..MaxLength
  /\ reader = "stream" => wire.max = MaxLength

\* The buffer, and what of the wire was emitted, n payloads of it as they were framed.
BufferInv ==
  /\ reader \in {"split", "stream"} /\ pc \in {"read", "scan"} /\ outcome \in Outcome
  /\ low \in Nat /\ high \in low..wire.cut
  /\ emitted \in Seq([from : Nat, to : Nat]) /\ Len(emitted) <= Len(wire.lengths)

Framed(n) == \A m \in 1..n : emitted[m] = Frame!Payload(wire.lengths, m)

\* The buffer begins where the next envelope starts ...
Whole == low = Frame!NextStart /\ Framed(Len(emitted))

\* ... unless the last payload was enqueued without its end: nothing is left then.
Truncated ==
  /\ reader = "stream" /\ CutInPayload
  /\ low = wire.cut /\ high = wire.cut /\ header = -1
  /\ emitted # << >> /\ Framed(Len(emitted) - 1)

PlaceInv == Whole \/ Truncated

\* The header that pull() remembers is that of the next envelope.
HeaderInv ==
  header = -1 \/
    /\ reader = "stream" /\ Whole
    /\ Len(emitted) < Len(wire.lengths) /\ header = Frame!NextLength
    /\ low + 5 <= high

\* A reader awaits a chunk because there is no prefix, or no payload, in the buffer.
ReadInv ==
  pc = "read" =>
    \/ Buffered < 5
    \/ /\ Whole /\ Len(emitted) < Len(wire.lengths)
       /\ Frame!NextLength <= wire.max /\ Buffered < 5 + Frame!NextLength
       /\ reader = "stream" => header = Frame!NextLength

IInv == WireInv /\ BufferInv /\ PlaceInv /\ HeaderInv /\ ReadInv /\ ErrorIsExplained

-----------------------------------------------------------------------------
(* What the invariant says of the next envelope                            *)

\* The types of what is used most.
LEMMA State ==
  ASSUME IInv
  PROVE  /\ wire.lengths \in Seq(Nat) /\ Len(wire.lengths) \in Nat
         /\ \A n \in 1..Len(wire.lengths) : wire.lengths[n] \in 0..MaxLength
         /\ wire.cut \in Nat /\ wire.max \in Nat /\ MaxLength \in Nat
         /\ Len(emitted) \in Nat /\ Len(emitted) <= Len(wire.lengths)
         /\ Frame!Total(wire.lengths) \in Nat /\ wire.cut <= Frame!Total(wire.lengths)
         /\ low \in Nat /\ high \in Nat /\ low <= high /\ high <= wire.cut
<1>1. /\ wire.lengths \in Seq(0..MaxLength) /\ MaxLength \in Nat
      /\ wire.max \in 0..MaxLength
      /\ emitted \in Seq([from : Nat, to : Nat]) /\ Len(emitted) <= Len(wire.lengths)
      /\ low \in Nat /\ high \in low..wire.cut
      /\ wire.cut \in 0..Frame!Total(wire.lengths)
  BY EnvelopeAssumption DEF IInv, WireInv, BufferInv
<1>2. wire.lengths \in Seq(Nat) /\ \A n \in 1..Len(wire.lengths) : wire.lengths[n] \in 0..MaxLength
  BY <1>1
<1>3. Len(wire.lengths) \in Nat /\ Len(emitted) \in Nat
  BY <1>1
<1>4. Frame!Total(wire.lengths) \in Nat
  <2>1. Len(wire.lengths) + 1 \in 1..(Len(wire.lengths) + 1)
    BY <1>3
  <2>2. QED
    BY <1>2, <2>1, StartsGrow DEF Frame!Total
<1>5. QED
  BY <1>1, <1>2, <1>3, <1>4

\* As long as there are envelopes, the next one is where the buffer begins.
LEMMA NextFrame ==
  ASSUME IInv, Whole, Len(emitted) < Len(wire.lengths)
  PROVE  /\ Frame!NextLength \in 0..MaxLength
         /\ PeekLength = Frame!NextLength
         /\ Frame!Start(wire.lengths, Len(emitted) + 2) = low + 5 + Frame!NextLength
         /\ Frame!Payload(wire.lengths, Len(emitted) + 1)
              = [from |-> low + 5, to |-> low + 5 + Frame!NextLength]
         /\ low + 5 + Frame!NextLength <= Frame!Total(wire.lengths)
<1> DEFINE n == Len(emitted) + 1
<1>1. /\ n \in 1..Len(wire.lengths) /\ n \in 1..(Len(wire.lengths) + 1)
      /\ n + 1 = Len(emitted) + 2 /\ Len(wire.lengths) + 1 \in 1..(Len(wire.lengths) + 1)
      /\ n < Len(wire.lengths) + 1
  BY State
<1>2. low = Frame!Start(wire.lengths, n) /\ Frame!NextLength = wire.lengths[n]
  BY DEF Whole, Frame!NextStart, Frame!NextLength
<1>3. Frame!NextLength \in 0..MaxLength
  BY <1>1, <1>2, State
<1>4. PeekLength = Frame!NextLength
  BY <1>1, <1>2, State, PeekFindsLength
<1>5. Frame!Start(wire.lengths, n + 1) = low + 5 + Frame!NextLength
  BY <1>1, <1>2, State, StartsStepwise DEF Frame!Prefix
<1>6. Frame!Payload(wire.lengths, n) = [from |-> low + 5, to |-> low + 5 + Frame!NextLength]
  BY <1>2, <1>5 DEF Frame!Payload, Frame!Prefix
<1>7. low + 5 + Frame!NextLength <= Frame!Total(wire.lengths)
  BY <1>1, <1>2, State, StartsGrow DEF Frame!Total
<1>8. QED
  BY <1>1, <1>3, <1>4, <1>5, <1>6, <1>7

\* There are envelopes as long as there are bytes.
LEMMA BytesLeft ==
  ASSUME IInv, Whole, low < wire.cut
  PROVE  Len(emitted) < Len(wire.lengths)
<1>1. SUFFICES ASSUME Len(emitted) = Len(wire.lengths)
               PROVE  FALSE
  BY State
<1>2. low = Frame!Total(wire.lengths)
  BY <1>1 DEF Whole, Frame!NextStart, Frame!Total
<1>3. QED
  BY <1>2, State

\* What is enqueued of an envelope is what was framed, if it is all there.
LEMMA EmitStep ==
  ASSUME IInv, Whole, outcome = "open",
         Len(emitted) < Len(wire.lengths), Frame!NextLength <= wire.max,
         Buffered >= 5 + Frame!NextLength,
         Shift(Frame!NextLength), header' = -1, pc' = "scan",
         UNCHANGED <<reader, wire, high, outcome>>
  PROVE  IInv' /\ Frame!Emit
<1> DEFINE n == Len(emitted) + 1
           length == Frame!NextLength
<1>1. /\ length \in Nat /\ low + 5 + length <= high
      /\ Frame!Start(wire.lengths, n + 1) = low + 5 + length
      /\ Frame!Payload(wire.lengths, n) = [from |-> low + 5, to |-> low + 5 + length]
      /\ n + 1 = Len(emitted) + 2 /\ n \in Nat /\ n <= Len(wire.lengths)
  <2>1. length \in Nat
    BY State, NextFrame
  <2>2. low + 5 + length <= high
    BY <2>1, State DEF Buffered
  <2>3. n + 1 = Len(emitted) + 2 /\ n \in Nat /\ n <= Len(wire.lengths)
    BY State
  <2>4. QED
    BY <2>1, <2>2, <2>3, NextFrame
<1> HIDE DEF length
<1>2. Payload(length) = Frame!Payload(wire.lengths, n) /\ Payload(length).to = low + 5 + length
  <2>1. (IF low + 5 + length < high THEN low + 5 + length ELSE high) = low + 5 + length
    <3>1. low \in Nat /\ high \in Nat
      BY State
    <3>2. \A a, b, c \in Nat : a + 5 + b <= c => (IF a + 5 + b < c THEN a + 5 + b ELSE c) = a + 5 + b
      OBVIOUS
    <3>3. QED
      BY <1>1, <3>1, <3>2
  <2>2. QED
    BY <1>1, <2>1 DEF Payload
<1>3. emitted' = Append(emitted, Frame!Payload(wire.lengths, n)) /\ low' = low + 5 + length
  BY <1>2 DEF Shift, length
<1>4. /\ emitted' \in Seq([from : Nat, to : Nat]) /\ Len(emitted') = n
      /\ \A m \in 1..Len(emitted) : emitted'[m] = emitted[m]
      /\ emitted'[n] = Frame!Payload(wire.lengths, n)
  <2>1. emitted \in Seq([from : Nat, to : Nat])
    BY DEF IInv, BufferInv
  <2>2. Frame!Payload(wire.lengths, n) \in [from : Nat, to : Nat]
    <3>1. low \in Nat
      BY State
    <3>2. low + 5 \in Nat /\ low + 5 + length \in Nat
      BY ONLY <1>1, <3>1
    <3>3. QED
      BY <1>1, <3>2
  <2>3. QED
    BY <1>3, <2>1, <2>2, AppendProperties
<1>5. Whole'
  <2>1. low' = Frame!NextStart'
    BY <1>1, <1>3, <1>4 DEF Frame!NextStart
  <2>2. \A m \in 1..n : m \in 1..Len(emitted) \/ m = n
    BY State
  <2>3. \A m \in 1..Len(emitted') : emitted'[m] = Frame!Payload(wire'.lengths, m)
    BY <1>4, <2>2 DEF Whole, Framed
  <2>4. QED
    BY <2>1, <2>3 DEF Whole, Framed
<1>6. Frame!Emit
  <2>1. low = Frame!NextStart
    BY DEF Whole
  <2>2. Frame!NextStart + 5 <= wire.cut /\ Frame!NextStart + 5 + length <= wire.cut
    BY <1>1, <2>1, State
  <2>3. QED
    BY <1>3, <2>2 DEF Frame!Emit, Frame!NextIsKnown, Frame!Prefix, length
<1>7. WireInv'
  BY DEF IInv, WireInv
<1>8. BufferInv'
  BY <1>1, <1>3, <1>4, State DEF IInv, BufferInv
<1>9. PlaceInv' /\ HeaderInv' /\ ReadInv' /\ ErrorIsExplained'
  BY <1>5 DEF IInv, PlaceInv, HeaderInv, ReadInv, ErrorIsExplained
<1>10. QED
  BY <1>6, <1>7, <1>8, <1>9 DEF IInv

-----------------------------------------------------------------------------
(* Each step keeps the invariant, and is a step of Framing or a stutter.   *)

Abstract == <<wire, emitted, outcome>>

\* More of the wire, in the buffer.
LEMMA ChunkStep ==
  ASSUME IInv, Chunk
  PROVE  IInv' /\ UNCHANGED Abstract
<1>1. /\ outcome = "open" /\ pc' = "scan" /\ high' \in high..wire.cut
      /\ UNCHANGED <<reader, wire, low, header, emitted, outcome>>
  BY DEF Chunk
<1>2. high' \in low..wire.cut /\ (high = wire.cut => high' = wire.cut) /\ high <= high'
  BY <1>1, State
<1>3. WireInv' /\ ReadInv' /\ ErrorIsExplained'
  BY <1>1 DEF IInv, WireInv, ReadInv, ErrorIsExplained
<1>4. BufferInv'
  BY <1>1, <1>2 DEF IInv, BufferInv
<1>5. PlaceInv'
  <2>1. Whole => Whole'
    BY <1>1 DEF Whole, Framed, Frame!NextStart
  <2>2. Truncated => Truncated'
    BY <1>1, <1>2 DEF Truncated, Framed, CutInPayload
  <2>3. QED
    BY <2>1, <2>2 DEF IInv, PlaceInv
<1>6. HeaderInv'
  <2>1. CASE header = -1
    BY <1>1, <2>1 DEF HeaderInv
  <2>2. CASE header # -1
    <3>1. /\ reader = "stream" /\ Whole
          /\ Len(emitted) < Len(wire.lengths) /\ header = Frame!NextLength
          /\ low + 5 <= high
      BY <2>2 DEF IInv, HeaderInv
    <3>2. low + 5 <= high'
      BY <1>1, <1>2, <3>1, State
    <3>3. Whole'
      BY <1>1, <3>1 DEF Whole, Framed, Frame!NextStart
    <3>4. QED
      BY <1>1, <3>1, <3>2, <3>3 DEF HeaderInv, Frame!NextLength
  <2>3. QED
    BY <2>1, <2>2
<1>7. QED
  BY <1>1, <1>3, <1>4, <1>5, <1>6 DEF IInv, Abstract

\* With a prefix in the buffer, the buffer is where an envelope starts.
LEMMA PrefixIsNext ==
  ASSUME IInv, Buffered >= 5
  PROVE  /\ Whole /\ Len(emitted) < Len(wire.lengths)
         /\ PeekLength = Frame!NextLength /\ Frame!NextLength \in 0..MaxLength
<1>1. low + 5 <= high /\ low < wire.cut
  BY State DEF Buffered
<1>2. Whole
  BY <1>1, State DEF IInv, PlaceInv, Truncated
<1>3. QED
  BY <1>1, <1>2, BytesLeft, NextFrame

\* transformSplitEnvelope has no header to remember.
LEMMA SplitHasNoHeader ==
  ASSUME IInv, reader = "split"
  PROVE  header = -1
BY DEF IInv, HeaderInv

\* A reader that goes back to await a chunk, with the header it knows.
LEMMA AwaitStep ==
  ASSUME IInv, outcome = "open", pc' = "read", HeaderInv', ReadInv',
         UNCHANGED <<reader, wire, low, high, emitted, outcome>>,
         header' = -1 \/ Whole
  PROVE  IInv' /\ UNCHANGED Abstract
<1>1. WireInv' /\ BufferInv' /\ ErrorIsExplained'
  BY DEF IInv, WireInv, BufferInv, ErrorIsExplained
<1>2. Whole => Whole'
  BY DEF Whole, Framed, Frame!NextStart
<1>3. PlaceInv'
  <2>1. ~Whole => Truncated'
    BY DEF IInv, PlaceInv, Truncated, Framed, CutInPayload
  <2>2. QED
    BY <1>2, <2>1 DEF PlaceInv
<1>4. QED
  BY <1>1, <1>3 DEF IInv, Abstract

\* It awaits a chunk for want of a prefix or a payload.
LEMMA SplitNeedsMoreStep ==
  ASSUME IInv, SplitNeedsMore
  PROVE  IInv' /\ UNCHANGED Abstract
<1>1. /\ reader = "split" /\ outcome = "open" /\ pc' = "read"
      /\ Buffered < 5 \/ (PeekLength <= wire.max /\ Buffered < 5 + PeekLength)
      /\ UNCHANGED <<reader, wire, low, high, header, emitted, outcome>>
  BY DEF SplitNeedsMore, SplitScans
<1>2. header' = -1
  BY <1>1, SplitHasNoHeader
<1>3. HeaderInv'
  BY <1>2 DEF HeaderInv
<1>4. ReadInv'
  <2>1. CASE Buffered < 5
    BY <1>1, <2>1 DEF ReadInv, Buffered
  <2>2. CASE ~(Buffered < 5)
    <3>1. Buffered >= 5
      BY <2>2, State DEF Buffered
    <3>2. Whole /\ Len(emitted) < Len(wire.lengths) /\ PeekLength = Frame!NextLength
      BY <3>1, PrefixIsNext
    <3>3. Whole'
      BY <1>1, <3>2 DEF Whole, Framed, Frame!NextStart
    <3>4. QED
      BY <1>1, <2>2, <3>2, <3>3 DEF ReadInv, Buffered, Frame!NextLength
  <2>3. QED
    BY <2>1, <2>2
<1>5. QED
  BY <1>1, <1>2, <1>3, <1>4, AwaitStep

\* An outcome that is explained disturbs nothing else.
LEMMA SettleStep ==
  ASSUME IInv, outcome' \in Outcome, ErrorIsExplained',
         UNCHANGED <<reader, wire, low, high, header, pc, emitted>>
  PROVE  IInv'
<1>1. WireInv' /\ BufferInv'
  BY DEF IInv, WireInv, BufferInv
<1>2. (Whole => Whole') /\ (Truncated => Truncated')
  BY DEF Whole, Framed, Frame!NextStart, Truncated, CutInPayload
<1>3. PlaceInv' /\ HeaderInv' /\ ReadInv'
  BY <1>2 DEF IInv, PlaceInv, HeaderInv, ReadInv, Buffered, Frame!NextLength
<1>4. QED
  BY <1>1, <1>3 DEF IInv

\* It refuses a length over the limit as Framing does.
LEMMA SplitTooLargeStep ==
  ASSUME IInv, SplitTooLarge
  PROVE  IInv' /\ Frame!TooLarge
<1>1. /\ outcome = "open" /\ outcome' = "too large"
      /\ Buffered >= 5 /\ PeekLength > wire.max
      /\ UNCHANGED <<reader, wire, low, high, header, pc, emitted>>
  BY DEF SplitTooLarge, SplitScans
<1>2. /\ Whole /\ Len(emitted) < Len(wire.lengths)
      /\ PeekLength = Frame!NextLength
  BY <1>1, PrefixIsNext
<1>3. Frame!TooLarge
  <2>1. low = Frame!NextStart
    BY <1>2 DEF Whole
  <2>2. low + 5 <= wire.cut
    <3>1. low \in Nat /\ high \in Nat /\ high <= wire.cut /\ wire.cut \in Nat /\ high - low >= 5
      BY <1>1, State DEF Buffered
    <3>2. QED
      BY ONLY <3>1
  <2>3. QED
    BY <1>1, <1>2, <2>1, <2>2 DEF Frame!TooLarge, Frame!NextIsKnown, Frame!Prefix
<1>4. ErrorIsExplained'
  <2>1. Len(emitted) + 1 \in 1..Len(wire.lengths)
    <3>1. Len(emitted) \in Nat /\ Len(wire.lengths) \in Nat
      BY State
    <3>2. QED
      BY ONLY <1>2, <3>1
  <2>2. wire.lengths[Len(emitted) + 1] > wire.max
    BY <1>1, <1>2 DEF Frame!NextLength
  <2>3. QED
    BY <1>1, <2>1, <2>2 DEF ErrorIsExplained
<1>5. QED
  BY <1>1, <1>3, <1>4, SettleStep DEF Outcome

\* It yields the next payload.
LEMMA SplitYieldsStep ==
  ASSUME IInv, SplitYields
  PROVE  IInv' /\ Frame!Emit
<1>1. /\ reader = "split" /\ outcome = "open" /\ pc = "scan"
      /\ Buffered >= 5 /\ PeekLength <= wire.max /\ Buffered >= 5 + PeekLength
      /\ Shift(PeekLength)
      /\ UNCHANGED <<reader, wire, high, header, pc, outcome>>
  BY DEF SplitYields, SplitScans
<1>2. /\ Whole /\ Len(emitted) < Len(wire.lengths)
      /\ PeekLength = Frame!NextLength
  BY <1>1, PrefixIsNext
<1>3. header' = -1 /\ pc' = "scan"
  BY <1>1, SplitHasNoHeader
<1>4. QED
  BY <1>1, <1>2, <1>3, EmitStep

\* The source ends without a payload that was begun: the outcome says if the
\* frames end there.
LEMMA EndStep ==
  ASSUME IInv, Whole, outcome = "open", pc = "read", high = wire.cut,
         reader = "stream" => header = -1,
         outcome' = IF Buffered > 0 THEN "incomplete" ELSE "done",
         UNCHANGED <<reader, wire, low, high, header, pc, emitted>>
  PROVE  IInv' /\ Frame!End
<1>1. low = Frame!NextStart
  BY DEF Whole
<1>2. CASE low = wire.cut
  <2>1. outcome' = "done"
    BY <1>2, State DEF Buffered
  <2>2. Frame!End
    BY <1>1, <1>2, <2>1 DEF Frame!End
  <2>3. ErrorIsExplained'
    BY <2>1 DEF ErrorIsExplained
  <2>4. QED
    BY <2>1, <2>2, <2>3, SettleStep DEF Outcome
<1>3. CASE low # wire.cut
  <2>1. low < wire.cut /\ outcome' = "incomplete"
    BY <1>3, State DEF Buffered
  <2>2. Len(emitted) < Len(wire.lengths)
    BY <2>1, BytesLeft
  <2>3. /\ Frame!NextLength \in Nat /\ low + 5 + Frame!NextLength <= Frame!Total(wire.lengths)
    BY <2>2, State, NextFrame
  <2>4. Frame!NextLength \in Nat /\ wire.cut < low + 5 + Frame!NextLength
        /\ (low + 5 <= wire.cut => Frame!NextLength <= wire.max)
    <3>1. \/ wire.cut - low < 5
          \/ Frame!NextLength <= wire.max /\ wire.cut - low < 5 + Frame!NextLength
      <4>1. ~(reader = "stream" /\ header = Frame!NextLength)
        BY <2>3
      <4>2. QED
        BY <4>1 DEF IInv, ReadInv, BufferInv, Buffered
    <3>2. low \in Nat /\ wire.cut \in Nat /\ Frame!NextLength \in Nat /\ wire.max \in Nat
      BY <2>3, State
    <3>3. QED
      BY ONLY <3>1, <3>2
  <2>5. Frame!End
    <3>1. low + Frame!Prefix = low + 5
      BY DEF Frame!Prefix
    <3>2. Frame!NextIsKnown =>
            Frame!NextLength <= wire.max
            /\ Frame!NextStart + Frame!Prefix + Frame!NextLength > wire.cut
      BY <1>1, <2>4, State DEF Frame!NextIsKnown, Frame!Prefix
    <3>3. QED
      BY <1>1, <2>1, <3>2 DEF Frame!End
  <2>6. ErrorIsExplained'
    <3>1. wire.cut < Frame!Total(wire.lengths)
      <4>1. low \in Nat /\ wire.cut \in Nat /\ Frame!Total(wire.lengths) \in Nat
        BY State
      <4>2. QED
        BY <2>3, <2>4, <4>1
    <3>2. QED
      BY <2>1, <3>1 DEF ErrorIsExplained
  <2>7. QED
    BY <2>1, <2>5, <2>6, SettleStep DEF Outcome
<1>4. QED
  BY <1>2, <1>3

\* transformSplitEnvelope ends as the frames do.
LEMMA SplitEndStep ==
  ASSUME IInv, SplitEnd
  PROVE  IInv' /\ Frame!End
<1>1. /\ reader = "split" /\ outcome = "open" /\ pc = "read" /\ high = wire.cut
      /\ outcome' = IF Buffered > 0 THEN "incomplete" ELSE "done"
      /\ UNCHANGED <<reader, wire, low, high, header, pc, emitted>>
  BY DEF SplitEnd
<1>2. Whole
  BY <1>1 DEF IInv, PlaceInv, Truncated
<1>3. QED
  BY <1>1, <1>2, EndStep

\* createEnvelopeReadableStream has no limit.
LEMMA StreamHasNoLimit ==
  ASSUME IInv, reader = "stream", Frame!NextLength \in 0..MaxLength
  PROVE  Frame!NextLength <= wire.max
BY State DEF IInv, WireInv

\* The header that pull() knows is the length of the next envelope.
LEMMA KnownIsNext ==
  ASSUME IInv, reader = "stream", Known # -1
  PROVE  /\ Whole /\ Len(emitted) < Len(wire.lengths) /\ low + 5 <= high
         /\ Known = Frame!NextLength /\ Frame!NextLength \in 0..MaxLength
         /\ Frame!NextLength <= wire.max
<1>1. CASE header # -1
  <2>1. /\ Whole /\ Len(emitted) < Len(wire.lengths) /\ low + 5 <= high
        /\ Known = Frame!NextLength
    BY <1>1 DEF IInv, HeaderInv, Known
  <2>2. QED
    BY <2>1, NextFrame, StreamHasNoLimit
<1>2. CASE header = -1
  <2>1. Buffered >= 5 /\ Known = PeekLength
    BY <1>2 DEF Known
  <2>2. low + 5 <= high
    BY <2>1, State DEF Buffered
  <2>3. QED
    BY <2>1, <2>2, PrefixIsNext, StreamHasNoLimit
<1>3. QED
  BY <1>1, <1>2

\* pull() awaits a chunk, and remembers the header it has seen.
LEMMA StreamNeedsMoreStep ==
  ASSUME IInv, StreamNeedsMore
  PROVE  IInv' /\ UNCHANGED Abstract
<1>1. /\ reader = "stream" /\ outcome = "open" /\ pc' = "read" /\ header' = Known
      /\ Known = -1 \/ Buffered < 5 + Known
      /\ UNCHANGED <<reader, wire, low, high, emitted, outcome>>
  BY DEF StreamNeedsMore, StreamScans
<1>2. CASE Known = -1
  <2>1. header' = -1
    BY <1>1, <1>2
  <2>2. HeaderInv'
    BY <2>1 DEF HeaderInv
  <2>3. Buffered < 5
    <3>1. CASE header = -1
      <4>1. Buffered >= 5 => PeekLength = -1
        BY <1>2, <3>1 DEF Known
      <4>2. Buffered >= 5 => PeekLength # -1
        BY PrefixIsNext
      <4>3. Buffered \in Int
        BY State DEF Buffered
      <4>4. QED
        BY <4>1, <4>2, <4>3
    <3>2. CASE header # -1
      BY <1>2, <3>2 DEF Known
    <3>3. QED
      BY <3>1, <3>2
  <2>4. ReadInv'
    BY <1>1, <2>3 DEF ReadInv, Buffered
  <2>5. QED
    BY <1>1, <2>1, <2>2, <2>4, AwaitStep
<1>3. CASE Known # -1
  <2>1. /\ Whole /\ Len(emitted) < Len(wire.lengths) /\ low + 5 <= high
        /\ Known = Frame!NextLength /\ Frame!NextLength <= wire.max
    BY <1>1, <1>3, KnownIsNext
  <2>2. Whole'
    BY <1>1, <2>1 DEF Whole, Framed, Frame!NextStart
  <2>3. HeaderInv'
    BY <1>1, <2>1, <2>2 DEF HeaderInv, Frame!NextLength
  <2>4. ReadInv'
    BY <1>1, <1>3, <2>1, <2>2 DEF ReadInv, Frame!NextLength, Buffered
  <2>5. QED
    BY <1>1, <2>1, <2>3, <2>4, AwaitStep
<1>4. QED
  BY <1>2, <1>3

\* pull() enqueues the next payload.
LEMMA StreamEnqueuesStep ==
  ASSUME IInv, StreamEnqueues
  PROVE  IInv' /\ Frame!Emit
<1>1. /\ reader = "stream" /\ outcome = "open" /\ pc = "scan"
      /\ Known # -1 /\ Buffered >= 5 + Known
      /\ Shift(Known) /\ header' = -1
      /\ UNCHANGED <<reader, wire, high, pc, outcome>>
  BY DEF StreamEnqueues, StreamScans
<1>2. /\ Whole /\ Len(emitted) < Len(wire.lengths)
      /\ Known = Frame!NextLength /\ Frame!NextLength <= wire.max
  BY <1>1, KnownIsNext
<1>3. pc' = "scan"
  BY <1>1
<1>4. QED
  BY <1>1, <1>2, <1>3, EmitStep

\* The end of the source within a payload: what is there is enqueued, and nothing is left.
LEMMA CutStep ==
  ASSUME IInv, reader = "stream", outcome = "open", pc = "read", high = wire.cut,
         header # -1, Shift(header), header' = -1, pc' = "scan",
         UNCHANGED <<reader, wire, high, outcome>>
  PROVE  IInv' /\ CutInPayload
<1> DEFINE n == Len(emitted) + 1
           length == Frame!NextLength
<1>1. /\ Whole /\ Len(emitted) < Len(wire.lengths) /\ header = length /\ low + 5 <= high
  BY DEF IInv, HeaderInv
<1>2. length \in Nat /\ Frame!Start(wire.lengths, n + 1) = low + 5 + length
  <2>1. length \in 0..MaxLength
    BY <1>1, NextFrame
  <2>2. n + 1 = Len(emitted) + 2
    BY State
  <2>3. QED
    BY <1>1, <2>1, <2>2, NextFrame
<1>3. high < low + 5 + length
  <2>1. Buffered < 5 \/ Buffered < 5 + length
    BY DEF IInv, ReadInv
  <2>2. low \in Nat /\ high \in Nat
    BY State
  <2>3. QED
    BY <1>1, <1>2, <2>1, <2>2 DEF Buffered
<1>4. CutInPayload
  <2>1. n \in 1..Len(wire.lengths)
    <3>1. Len(emitted) \in Nat /\ Len(wire.lengths) \in Nat
      BY State
    <3>2. QED
      BY <1>1, <3>1
  <2>2. low = Frame!Start(wire.lengths, n)
    BY <1>1 DEF Whole, Frame!NextStart
  <2>3. QED
    BY <1>1, <1>2, <1>3, <2>1, <2>2 DEF CutInPayload
<1> DEFINE rest == [from |-> low + 5, to |-> high]
<1>5. emitted' = Append(emitted, rest) /\ low' = high
  <2>1. Payload(header) = rest
    <3>1. low \in Nat /\ high \in Nat /\ length \in Nat /\ high < low + 5 + length
      BY <1>2, <1>3, State
    <3>2. ~(low + 5 + length < high)
      BY ONLY <3>1
    <3>3. QED
      BY <1>1, <3>2 DEF Payload
  <2>2. QED
    BY <2>1 DEF Shift
<1>6. /\ emitted' \in Seq([from : Nat, to : Nat]) /\ Len(emitted') = n
      /\ \A m \in 1..Len(emitted) : emitted'[m] = emitted[m]
  <2>1. emitted \in Seq([from : Nat, to : Nat])
    BY DEF IInv, BufferInv
  <2>2. low \in Nat /\ high \in Nat
    BY State
  <2>3. rest \in [from : Nat, to : Nat]
    <3>1. low + 5 \in Nat
      BY ONLY <2>2
    <3>2. QED
      BY <2>2, <3>1
  <2>4. QED
    BY <1>5, <2>1, <2>3, AppendProperties
<1> HIDE DEF rest, length
<1>7. Len(emitted) \in Nat /\ n - 1 = Len(emitted) /\ n <= Len(wire.lengths) /\ n # 0
  <2>1. Len(emitted) \in Nat /\ Len(wire.lengths) \in Nat
    BY State
  <2>2. QED
    BY <1>1, <2>1
<1>8. Truncated'
  <2>1. CutInPayload'
    BY <1>4 DEF CutInPayload
  <2>2. emitted' # << >>
    BY <1>6, <1>7
  <2>3. \A m \in 1..(Len(emitted') - 1) : emitted'[m] = Frame!Payload(wire'.lengths, m)
    BY <1>1, <1>6, <1>7 DEF Whole, Framed
  <2>4. QED
    BY <1>5, <2>1, <2>2, <2>3 DEF Truncated, Framed
<1>9. WireInv' /\ ErrorIsExplained'
  BY DEF IInv, WireInv, ErrorIsExplained
<1>10. BufferInv'
  <2>1. low' \in Nat /\ high' \in low'..wire'.cut
    BY <1>5, State
  <2>2. QED
    BY <1>6, <1>7, <2>1 DEF IInv, BufferInv
<1>11. PlaceInv' /\ HeaderInv' /\ ReadInv'
  BY <1>8 DEF PlaceInv, HeaderInv, ReadInv
<1>12. QED
  BY <1>4, <1>8, <1>9, <1>10, <1>11 DEF IInv

\* createEnvelopeReadableStream ends as the frames do, unless the end is within a payload.
LEMMA StreamEndStep ==
  ASSUME IInv, StreamEnd
  PROVE  IInv' /\ (Frame!End \/ CutInPayload)
<1>1. /\ reader = "stream" /\ outcome = "open" /\ pc = "read" /\ high = wire.cut
      /\ UNCHANGED <<reader, wire, high>>
  BY DEF StreamEnd
<1>2. CASE header # -1
  <2>1. Shift(header) /\ header' = -1 /\ pc' = "scan" /\ outcome' = outcome
    BY <1>2 DEF StreamEnd
  <2>2. QED
    BY <1>1, <1>2, <2>1, CutStep
<1>3. CASE header = -1
  <2>1. /\ outcome' = IF Buffered = 0 THEN "done" ELSE "incomplete"
        /\ UNCHANGED <<low, header, pc, emitted>>
    BY <1>3 DEF StreamEnd
  <2>2. outcome' = IF Buffered > 0 THEN "incomplete" ELSE "done"
    BY <2>1, State DEF Buffered
  <2>3. CASE Whole
    BY <1>1, <1>3, <2>1, <2>2, <2>3, EndStep
  <2>4. CASE Truncated
    <3>1. outcome' = "done"
      BY <2>1, <2>4, State DEF Truncated, Buffered
    <3>2. outcome' \in Outcome /\ ErrorIsExplained'
      BY <3>1 DEF ErrorIsExplained, Outcome
    <3>3. IInv'
      BY <1>1, <2>1, <3>2, SettleStep
    <3>4. QED
      BY <2>4, <3>3 DEF Truncated
  <2>5. QED
    BY <2>3, <2>4 DEF IInv, PlaceInv
<1>4. QED
  BY <1>2, <1>3

-----------------------------------------------------------------------------
(* The theorems                                                            *)

\* Nothing is read at first.
LEMMA InitInv ==
  ASSUME Init
  PROVE  IInv /\ Frame!Init
<1>1. PICK ls \in Lengths : \E cut \in 0..Frame!Total(ls), max \in 0..MaxLength :
        wire = [lengths |-> ls, cut |-> cut,
                max |-> IF reader = "split" THEN max ELSE MaxLength]
  BY DEF Init
<1>2. /\ reader \in {"split", "stream"} /\ low = 0 /\ high = 0 /\ header = -1
      /\ pc \in {"read", "scan"} /\ emitted = << >> /\ outcome = "open"
  BY DEF Init
<1>3. PICK cut \in 0..Frame!Total(ls), max \in 0..MaxLength :
        wire = [lengths |-> ls, cut |-> cut,
                max |-> IF reader = "split" THEN max ELSE MaxLength]
  BY <1>1
<1>4. ls \in Seq(0..MaxLength) /\ Len(ls) <= MaxMessages /\ Len(ls) \in Nat
  <2>1. PICK n \in 0..MaxMessages : ls \in [1..n -> 0..MaxLength]
    BY DEF Lengths
  <2>2. n \in Nat /\ n <= MaxMessages
    BY EnvelopeAssumption
  <2>3. ls \in Seq(0..MaxLength)
    BY <2>1, <2>2, SeqDef
  <2>4. Len(ls) = n
    BY <2>1, <2>2, <2>3, LenProperties
  <2>5. QED
    BY <2>2, <2>3, <2>4
<1>5. WireInv
  <2>1. wire.lengths = ls /\ wire.cut = cut /\ wire.max \in 0..MaxLength
        /\ (reader = "stream" => wire.max = MaxLength)
    BY <1>3, EnvelopeAssumption
  <2>2. QED
    BY <1>3, <1>4, <2>1 DEF WireInv
<1>6. ls \in Seq(Nat) /\ wire.lengths = ls /\ wire.cut \in Nat
  <2>1. ls \in Seq(Nat)
    <3>1. ls \in [1..Len(ls) -> 0..MaxLength]
      BY <1>4, LenProperties
    <3>2. ls \in [1..Len(ls) -> Nat]
      BY <3>1, EnvelopeAssumption
    <3>3. QED
      BY <1>4, <3>2, SeqDef
  <2>2. Frame!Total(ls) \in Nat
    BY <1>4, <2>1, StartsGrow DEF Frame!Total
  <2>3. QED
    BY <1>3, <2>1, <2>2
<1>7. Len(emitted) = 0 /\ emitted \in Seq([from : Nat, to : Nat])
  BY <1>2
<1>8. BufferInv
  BY <1>2, <1>4, <1>6, <1>7 DEF BufferInv, Outcome
<1>9. Whole
  BY <1>2, <1>6, <1>7, StartsStepwise DEF Whole, Framed, Frame!NextStart
<1>10. PlaceInv /\ HeaderInv /\ ReadInv /\ ErrorIsExplained
  BY <1>2, <1>9 DEF PlaceInv, HeaderInv, ReadInv, ErrorIsExplained, Buffered
<1>11. QED
  BY <1>2, <1>5, <1>8, <1>10 DEF IInv, Frame!Init

\* What a step is to Framing.
FrameStep == Frame!Next \/ (CutInPayload /\ StreamEnd)

\* One case for each action.
LEMMA NextInv ==
  ASSUME IInv, [Next]_vars
  PROVE  IInv' /\ [FrameStep]_Abstract
<1>1. CASE Chunk
  BY <1>1, ChunkStep
<1>2. CASE SplitNeedsMore
  BY <1>2, SplitNeedsMoreStep
<1>3. CASE SplitTooLarge
  BY <1>3, SplitTooLargeStep DEF Frame!Next, FrameStep
<1>4. CASE SplitYields
  BY <1>4, SplitYieldsStep DEF Frame!Next, FrameStep
<1>5. CASE StreamNeedsMore
  BY <1>5, StreamNeedsMoreStep
<1>6. CASE StreamEnqueues
  BY <1>6, StreamEnqueuesStep DEF Frame!Next, FrameStep
<1>7. CASE SplitEnd
  BY <1>7, SplitEndStep DEF Frame!Next, FrameStep
<1>8. CASE StreamEnd
  BY <1>8, StreamEndStep DEF Frame!Next, FrameStep
<1>9. CASE UNCHANGED vars
  <2>1. UNCHANGED <<reader, wire, low, high, header, pc, emitted, outcome>>
    BY <1>9 DEF vars
  <2>2. outcome' \in Outcome /\ ErrorIsExplained'
    BY <2>1 DEF IInv, BufferInv, ErrorIsExplained
  <2>3. QED
    BY <2>1, <2>2, SettleStep DEF Abstract
<1>10. QED
  BY <1>1, <1>2, <1>3, <1>4, <1>5, <1>6, <1>7, <1>8, <1>9 DEF Next, Scanning, Ending

\* The invariant holds for every number and length of messages.
THEOREM Invariance == Spec => []IInv
<1>1. Init => IInv
  BY InitInv
<1>2. IInv /\ [Next]_vars => IInv'
  BY NextInv
<1>3. QED
  BY <1>1, <1>2, PTL DEF Spec

\* The variables of the readers have their types: the header that pull()
\* remembers is never longer than a message.
THEOREM TypeCorrect == Spec => []TypeOK
<1>1. IInv => TypeOK
  <2>1. SUFFICES ASSUME IInv
                 PROVE  TypeOK
    OBVIOUS
  <2>2. header \in -1..MaxLength
    <3>1. CASE header = -1
      BY <3>1, EnvelopeAssumption
    <3>2. CASE header # -1
      <4>1. Whole /\ Len(emitted) < Len(wire.lengths) /\ header = Frame!NextLength
        BY <2>1, <3>2 DEF IInv, HeaderInv
      <4>2. QED
        BY <2>1, <4>1, NextFrame, EnvelopeAssumption
    <3>3. QED
      BY <3>1, <3>2
  <2>3. Len(emitted) <= MaxMessages
    <3>1. Len(wire.lengths) <= MaxMessages
      BY <2>1 DEF IInv, WireInv
    <3>2. QED
      BY <2>1, <3>1, State, EnvelopeAssumption
  <2>4. QED
    BY <2>1, <2>2, <2>3 DEF IInv, BufferInv, TypeOK
<1>2. QED
  BY <1>1, Invariance, PTL

\* Whatever the chunks a stream arrives in, both readers emit the payloads that
\* were framed, in order, and end with the outcome of the frames:
\* transformSplitEnvelope always, createEnvelopeReadableStream unless the stream
\* ends within a payload.
THEOREM ReadersImplementFraming == Spec => ReadsTheFrames
<1>1. Init => Frame!Init
  BY InitInv
<1>2. IInv /\ [Next]_vars
        => [Frame!Next \/ (CutInPayload /\ StreamEnd)]_<<wire, emitted, outcome>>
  BY NextInv DEF FrameStep, Abstract
<1>3. QED
  BY <1>1, <1>2, Invariance, PTL DEF Spec, ReadsTheFrames

\* A reader that gives up has a reason: a message over readMaxBytes on the wire,
\* or a stream that is cut before its end.
THEOREM ErrorsAreExplained == Spec => []ErrorIsExplained
<1>1. IInv => ErrorIsExplained
  BY DEF IInv
<1>2. QED
  BY <1>1, Invariance, PTL

\* What transformSplitEnvelope yields is what was enveloped, every byte of it;
\* createEnvelopeReadableStream may fall short of it in the last payload alone.
THEOREM WholeMessages ==
  Spec => [](\A n \in 1..Len(emitted) :
               emitted[n] = Frame!Payload(wire.lengths, n)
               \/ (reader = "stream" /\ CutInPayload /\ n = Len(emitted)))
<1> DEFINE Told == \A n \in 1..Len(emitted) :
                     emitted[n] = Frame!Payload(wire.lengths, n)
                     \/ (reader = "stream" /\ CutInPayload /\ n = Len(emitted))
<1>1. IInv => Told
  <2>1. SUFFICES ASSUME IInv, NEW n \in 1..Len(emitted), n # Len(emitted) \/ ~Truncated
                 PROVE  emitted[n] = Frame!Payload(wire.lengths, n)
    BY DEF Truncated
  <2>2. Len(emitted) \in Nat
    BY <2>1, State
  <2>3. CASE Whole
    BY <2>3 DEF Whole, Framed
  <2>4. CASE Truncated
    <3>1. n \in 1..(Len(emitted) - 1)
      BY <2>1, <2>2, <2>4
    <3>2. QED
      BY <2>4, <3>1 DEF Truncated, Framed
  <2>5. QED
    BY <2>1, <2>3, <2>4 DEF IInv, PlaceInv
<1> HIDE DEF Told
<1>2. Spec => []Told
  BY <1>1, Invariance, PTL
<1>3. QED
  BY <1>2 DEF Told
=============================================================================
