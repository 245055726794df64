-------------------------- MODULE ServerCall_proofs --------------------------
(***************************************************************************)
(* Proofs about ServerCall for requests and responses of any length: its   *)
(* type invariant, and the three safety invariants of a call at the        *)
(* server, from one inductive invariant.                                   *)
(***************************************************************************)
EXTENDS ServerCall, SequenceTheorems, TLAPS

-----------------------------------------------------------------------------
(* The inductive invariant.                                                *)

\* Where the call is before the implementation, while it or the loop is busy with
\* its messages, and after it.
Before == pc \in {"handle", "input1"}
During == pc \in {"impl", "input2"} \/ (pc = "write" /\ frame = "message")
Over == pc \in {"final", "close", "ended"} \/ (pc = "write" /\ frame # "message")

\* The verdict stands in the response of a protocol that marks the end.
Marked == MarksEnd /\ opt.accept # "refused" /\ pc \in {"close", "ended"}

\* What the loop has in hand, and who has been refused.
PhaseInv ==
  /\ pc = "write" => frame # "none"
  /\ pc \in PC \ {"write", "broken"} => frame = "none"
  /\ frame \in {"ok", "error"} => MarksEnd /\ frame = Verdict
  /\ opt.accept = "refused" => pc \in {"handle", "ended"} /\ outputs = 0 /\ inputs = 0
  /\ pc = "input1" => TakesOne
  /\ pc = "input2" => opt.kind \in {"unary", "serverStreaming"}

\* How many messages there are: none before the implementation is called, one at
\* most of a method that returns one, and that one unless the call has failed.
OutputInv ==
  /\ Before => outputs = 0
  /\ Before \/ During => failure = "none"
  /\ ReturnsOne => outputs <= 1
  /\ frame = "message" => outputs > 0
  /\ ReturnsOne /\ pc = "impl" => outputs = 0
  /\ ReturnsOne /\ failure = "none" /\ opt.accept # "refused" /\ (Over \/ pc = "input2") =>
       outputs = 1

\* The frames of the response, up to the verdict: the messages of the implementation,
\* without the one in hand, and without the one that failed to serialize.
Written == Len(response.frames) - IF Marked THEN 1 ELSE 0
InHand == IF frame = "message" THEN 1 ELSE 0
OnlyMessages == \A n \in 1..Written : response.frames[n] = "message"

FramesInv ==
  /\ Bare /\ pc # "ended" => response.frames = << >>
  /\ ~Bare => /\ OnlyMessages
              /\ Written + InHand <= outputs
              /\ failure # "error" => Written + InHand = outputs
  /\ Marked => /\ Len(response.frames) > 0
               /\ response.frames[Len(response.frames)] = Verdict

\* What is declared, and where.
DeclaredInv ==
  /\ pc # "ended" => response.trailers = "none" /\ response.status \in {"none", "ok"}
  /\ Bare /\ pc # "ended" => response.status = "none"
  /\ pc = "ended" /\ opt.accept = "refused" =>
       response.status = "rejected" /\ response.frames = << >> /\ response.trailers = "none"
  /\ pc = "ended" /\ opt.accept # "refused" =>
       /\ Bare => /\ response.status = Verdict
                  /\ response.frames = <<IF Verdict = "ok" THEN "message" ELSE "error">>
       /\ opt.protocol = "grpc" => response.trailers = Verdict

\* What a method that takes one message has read, until it has failed: frames without
\* a message before it is called, one with it, and in the end the whole request.
NothingRead == \A n \in 1..pulled : request.frames[n] = "end"

OneRead ==
  \E n \in 1..pulled :
    /\ request.frames[n] = "message"
    /\ \A m \in 1..pulled \ {n} : request.frames[m] = "end"

InputInv ==
  /\ pulled # -1 => inputs <= pulled
  /\ TakesOne =>
       /\ Before => inputs = 0
       /\ During => inputs = 1
       /\ outputs > 0 => inputs = 1
       /\ opt.accept # "refused" /\ Over /\ failure # "error" => inputs = 1
       /\ pulled = -1 => failure = "error"
       /\ opt.accept # "refused" /\ ~Before /\ failure # "error" => opt.accept = "yes"
       /\ failure = "none" /\ inputs = 0 => NothingRead
       /\ failure = "none" /\ inputs = 1 => OneRead
       /\ failure = "none" /\ opt.accept # "refused" /\ Over =>
            pulled = Len(request.frames) /\ request.closed = "clean"

IInv ==
  TypeOK /\ PhaseInv /\ OutputInv /\ FramesInv /\ DeclaredInv /\ InputInv

-----------------------------------------------------------------------------
(* It is an invariant.                                                     *)

\* What the types of request and response say of their frames.
LEMMA Frames ==
  TypeOK =>
    /\ request.frames \in Seq({"message", "garbled", "end"})
    /\ Len(request.frames) \in 0..MaxIn
    /\ DOMAIN request.frames = 1..Len(request.frames)
    /\ response.frames \in Seq({"message", "ok", "error"})
    /\ Len(response.frames) \in 0..(MaxOut + 1)
    /\ DOMAIN response.frames = 1..Len(response.frames)
    /\ response.frames = << >> <=> Len(response.frames) = 0
<1> HAVE TypeOK
<1>1. /\ request.frames \in Seq({"message", "garbled", "end"}) /\ Len(request.frames) <= MaxIn
      /\ response.frames \in Seq({"message", "ok", "error"}) /\ Len(response.frames) <= MaxOut + 1
  BY DEF TypeOK
<1>2. MaxIn \in Nat /\ MaxOut + 1 \in Nat
  BY ServerCallAssumption
<1>3. /\ Len(request.frames) \in Nat /\ DOMAIN request.frames = 1..Len(request.frames)
      /\ Len(response.frames) \in Nat /\ DOMAIN response.frames = 1..Len(response.frames)
      /\ response.frames = << >> <=> Len(response.frames) = 0
  BY <1>1, LenProperties, EmptySeq
<1>4. QED
  BY <1>1, <1>2, <1>3

\* What reading a frame, or having one sent, does to what has been read.
LEMMA ReadSame ==
  UNCHANGED <<request, pulled>> =>
    /\ NothingRead' <=> NothingRead
    /\ OneRead' <=> OneRead
BY DEF NothingRead, OneRead

LEMMA ReadAnother ==
  TypeOK /\ request' = request /\ pulled \in Nat /\ pulled' = pulled + 1 =>
    /\ request.frames[pulled + 1] = "end" /\ NothingRead => NothingRead'
    /\ request.frames[pulled + 1] = "end" /\ OneRead => OneRead'
    /\ request.frames[pulled + 1] = "message" /\ NothingRead => OneRead'
<1> HAVE TypeOK /\ request' = request /\ pulled \in Nat /\ pulled' = pulled + 1
<1> USE DEF NothingRead, OneRead
<1>1. 1..pulled' = 1..pulled \cup {pulled + 1} /\ pulled + 1 \notin 1..pulled
  OBVIOUS
<1>2. request.frames[pulled + 1] = "end" /\ NothingRead => NothingRead'
  BY <1>1
<1>3. ASSUME request.frames[pulled + 1] = "end", OneRead
      PROVE  OneRead'
  <2>1. PICK n \in 1..pulled :
               /\ request.frames[n] = "message"
               /\ \A m \in 1..pulled \ {n} : request.frames[m] = "end"
    BY <1>3
  <2>2. n \in 1..pulled' /\ \A m \in 1..pulled' \ {n} : request.frames[m] = "end"
    BY <1>1, <1>3, <2>1
  <2>3. QED
    BY <2>1, <2>2
<1>4. request.frames[pulled + 1] = "message" /\ NothingRead => OneRead'
  BY <1>1
<1>5. QED
  BY <1>2, <1>3, <1>4

LEMMA ReadAhead ==
  TypeOK /\ pulled' = pulled
  /\ (\A n \in 1..Len(request.frames) : request'.frames[n] = request.frames[n]) =>
    /\ NothingRead' <=> NothingRead
    /\ OneRead' <=> OneRead
<1> HAVE /\ TypeOK /\ pulled' = pulled
         /\ \A n \in 1..Len(request.frames) : request'.frames[n] = request.frames[n]
<1>1. Len(request.frames) \in Nat /\ pulled \in -1..Len(request.frames)
  BY Frames DEF TypeOK
<1>2. \A n \in 1..pulled : n \in 1..Len(request.frames)
  BY <1>1
<1>3. QED
  BY <1>2 DEF NothingRead, OneRead

\* The facts about the current state that the steps below share.
LEMMA State ==
  IInv =>
    /\ TypeOK /\ PhaseInv /\ OutputInv /\ FramesInv /\ DeclaredInv /\ InputInv
    /\ Len(request.frames) \in Nat /\ Len(response.frames) \in Nat
    /\ pulled \in -1..Len(request.frames) /\ inputs \in 0..Len(request.frames)
    /\ outputs \in 0..MaxOut /\ MaxOut \in Nat
    /\ pc \in PC
    /\ frame \in {"none", "message", "ok", "error"}
    /\ failure \in {"none", "error", "undefined"}
    /\ opt.protocol \in {"connect", "grpc", "grpc-web"}
    /\ opt.kind \in {"unary", "serverStreaming", "clientStreaming", "biDiStreaming"}
    /\ opt.accept \in {"yes", "refused", "badEncoding"}
<1> HAVE IInv
<1>1. TypeOK /\ PhaseInv /\ OutputInv /\ FramesInv /\ DeclaredInv /\ InputInv
  BY DEF IInv
<1>2. Len(request.frames) \in Nat /\ Len(response.frames) \in Nat
  BY <1>1, Frames, ServerCallAssumption
<1>3. /\ opt.protocol \in {"connect", "grpc", "grpc-web"}
      /\ opt.kind \in {"unary", "serverStreaming", "clientStreaming", "biDiStreaming"}
      /\ opt.accept \in {"yes", "refused", "badEncoding"}
  BY <1>1 DEF TypeOK, Option
<1>4. /\ pulled \in -1..Len(request.frames) /\ inputs \in 0..Len(request.frames)
      /\ outputs \in 0..MaxOut /\ pc \in PC
      /\ frame \in {"none", "message", "ok", "error"}
      /\ failure \in {"none", "error", "undefined"}
  BY <1>1 DEF TypeOK
<1>5. QED
  BY <1>1, <1>2, <1>3, <1>4, ServerCallAssumption

LEMMA PhaseNext == IInv /\ Next => PhaseInv'
<1> SUFFICES ASSUME IInv, Next
             PROVE  PhaseInv'
  OBVIOUS
<1> USE State DEF PhaseInv, PC, TakesOne, ReturnsOne, Bare, MarksEnd, Before, During, Over, Verdict
<1>1. CASE Handle
  BY <1>1 DEF Handle
<1>2. CASE SkipEnd
  BY <1>2 DEF SkipEnd, HasFrame, NextFrame
<1>3. CASE Input1
  BY <1>3 DEF Input1, HasFrame, NextFrame, ReadAll, GivesMessage, GivesError, GivesEnd, Fail
<1>4. CASE Input2
  BY <1>4 DEF Input2, HasFrame, NextFrame, ReadAll, GivesMessage, GivesError, GivesEnd, Fail
<1>5. CASE ImplReads
  BY <1>5 DEF ImplReads, HasFrame, NextFrame, ReadAll, GivesMessage, GivesError, GivesEnd, Fail
<1>6. CASE ImplYields
  BY <1>6 DEF ImplYields
<1>7. CASE ImplReturns
  BY <1>7 DEF ImplReturns
<1>8. CASE ImplThrows
  BY <1>8 DEF ImplThrows, Fail
<1>9. CASE Write
  BY <1>9 DEF Write, AfterWrite
<1>10. CASE SerializeFails
  BY <1>10 DEF SerializeFails, Fail
<1>11. CASE CompressFails
  BY <1>11 DEF CompressFails, Fail
<1>12. CASE WriteFails
  BY <1>12 DEF WriteFails
<1>13. CASE Final
  BY <1>13 DEF Final
<1>14. CASE Close
  BY <1>14 DEF Close
<1>15. CASE ClientSends
  BY <1>15 DEF ClientSends
<1>16. CASE ClientCloses
  BY <1>16 DEF ClientCloses
<1>17. CASE ConnectionLost
  BY <1>17 DEF ConnectionLost
<1>18. QED
  BY <1>1, <1>2, <1>3, <1>4, <1>5, <1>6, <1>7, <1>8, <1>9, <1>10, <1>11, <1>12, <1>13, <1>14,
     <1>15, <1>16, <1>17 DEF Next, Server, Client

LEMMA OutputNext == IInv /\ Next => OutputInv'
<1> SUFFICES ASSUME IInv, Next
             PROVE  OutputInv'
  OBVIOUS
<1> USE State DEF PhaseInv, OutputInv, PC, TakesOne, ReturnsOne, Bare, MarksEnd, Before, During,
      Over, Verdict
<1>1. CASE Handle
  BY <1>1 DEF Handle
<1>2. CASE SkipEnd
  BY <1>2 DEF SkipEnd, HasFrame, NextFrame
<1>3. CASE Input1
  BY <1>3 DEF Input1, HasFrame, NextFrame, ReadAll, GivesMessage, GivesError, GivesEnd, Fail
<1>4. CASE Input2
  BY <1>4 DEF Input2, HasFrame, NextFrame, ReadAll, GivesMessage, GivesError, GivesEnd, Fail
<1>5. CASE ImplReads
  BY <1>5 DEF ImplReads, HasFrame, NextFrame, ReadAll, GivesMessage, GivesError, GivesEnd, Fail
<1>6. CASE ImplYields
  BY <1>6 DEF ImplYields
<1>7. CASE ImplReturns
  BY <1>7 DEF ImplReturns
<1>8. CASE ImplThrows
  BY <1>8 DEF ImplThrows, Fail
<1>9. CASE Write
  BY <1>9 DEF Write, AfterWrite
<1>10. CASE SerializeFails
  BY <1>10 DEF SerializeFails, Fail
<1>11. CASE CompressFails
  BY <1>11 DEF CompressFails, Fail
<1>12. CASE WriteFails
  BY <1>12 DEF WriteFails
<1>13. CASE Final
  BY <1>13 DEF Final
<1>14. CASE Close
  BY <1>14 DEF Close
<1>15. CASE ClientSends
  BY <1>15 DEF ClientSends
<1>16. CASE ClientCloses
  BY <1>16 DEF ClientCloses
<1>17. CASE ConnectionLost
  BY <1>17 DEF ConnectionLost
<1>18. QED
  BY <1>1, <1>2, <1>3, <1>4, <1>5, <1>6, <1>7, <1>8, <1>9, <1>10, <1>11, <1>12, <1>13, <1>14,
     <1>15, <1>16, <1>17 DEF Next, Server, Client

LEMMA DeclaredNext == IInv /\ Next => DeclaredInv'
<1> SUFFICES ASSUME IInv, Next
             PROVE  DeclaredInv'
  OBVIOUS
<1> USE State DEF PhaseInv, FramesInv, DeclaredInv, PC, TakesOne, ReturnsOne, Bare, MarksEnd,
      Before, During, Over, Verdict
<1>1. CASE Handle
  <2>1. response.frames = << >>
    <3>1. CASE ~Bare
      <4>1. Written = Len(response.frames) /\ Written + InHand <= outputs /\ InHand = 0
        BY <1>1, <3>1 DEF Handle, Written, InHand, Marked
      <4>2. Len(response.frames) = 0
        BY <1>1, <4>1 DEF OutputInv, Handle
      <4>3. QED
        BY <4>2, Frames
    <3>2. QED
      BY <1>1, <3>1 DEF Handle
  <2>2. QED
    BY <1>1, <2>1 DEF Handle, TypeOK
<1>2. CASE SkipEnd
  BY <1>2 DEF SkipEnd, HasFrame, NextFrame
<1>3. CASE Input1
  BY <1>3 DEF Input1, HasFrame, NextFrame, ReadAll, GivesMessage, GivesError, GivesEnd, Fail
<1>4. CASE Input2
  BY <1>4 DEF Input2, HasFrame, NextFrame, ReadAll, GivesMessage, GivesError, GivesEnd, Fail
<1>5. CASE ImplReads
  BY <1>5 DEF ImplReads, HasFrame, NextFrame, ReadAll, GivesMessage, GivesError, GivesEnd, Fail
<1>6. CASE ImplYields
  BY <1>6 DEF ImplYields
<1>7. CASE ImplReturns
  BY <1>7 DEF ImplReturns
<1>8. CASE ImplThrows
  BY <1>8 DEF ImplThrows, Fail
<1>9. CASE Write
  BY <1>9 DEF Write, AfterWrite
<1>10. CASE SerializeFails
  BY <1>10 DEF SerializeFails, Fail
<1>11. CASE CompressFails
  BY <1>11 DEF CompressFails, Fail
<1>12. CASE WriteFails
  BY <1>12 DEF WriteFails
<1>13. CASE Final
  BY <1>13 DEF Final
<1>14. CASE Close
  BY <1>14 DEF Close
<1>15. CASE ClientSends
  BY <1>15 DEF ClientSends
<1>16. CASE ClientCloses
  BY <1>16 DEF ClientCloses
<1>17. CASE ConnectionLost
  BY <1>17 DEF ConnectionLost
<1>18. QED
  BY <1>1, <1>2, <1>3, <1>4, <1>5, <1>6, <1>7, <1>8, <1>9, <1>10, <1>11, <1>12, <1>13, <1>14,
     <1>15, <1>16, <1>17 DEF Next, Server, Client

LEMMA InputNext == IInv /\ Next => InputInv'
<1> SUFFICES ASSUME IInv, Next
             PROVE  InputInv'
  OBVIOUS
<1> USE State DEF PhaseInv, OutputInv, InputInv, PC, TakesOne, ReturnsOne, Bare, MarksEnd, Before,
      During, Over, Verdict
<1>1. CASE Handle
  BY <1>1, ReadSame DEF Handle
<1>2. CASE SkipEnd
  <2>1. /\ request' = request /\ pulled \in Nat /\ pulled' = pulled + 1
        /\ request.frames[pulled + 1] = "end"
    BY <1>2 DEF SkipEnd, HasFrame, NextFrame
  <2>2. (NothingRead => NothingRead') /\ (OneRead => OneRead')
    BY <2>1, ReadAnother
  <2>3. QED
    BY <1>2, <2>1, <2>2 DEF SkipEnd
<1>3. CASE Input1
  <2>1. CASE GivesMessage /\ pulled' = pulled + 1
    <3>1. /\ request' = request /\ pulled \in Nat
          /\ request.frames[pulled + 1] = "message" /\ opt.accept = "yes"
      BY <1>3, <2>1 DEF Input1, GivesMessage, HasFrame, NextFrame
    <3>2. NothingRead => OneRead'
      BY <2>1, <3>1, ReadAnother
    <3>3. QED
      BY <1>3, <2>1, <3>1, <3>2 DEF Input1, Fail
  <2>2. CASE ~(GivesMessage /\ pulled' = pulled + 1)
    BY <1>3, <2>2, ReadSame DEF Input1, Fail
  <2>3. QED
    BY <2>1, <2>2
<1>4. CASE Input2
  BY <1>4, ReadSame DEF Input2, HasFrame, NextFrame, ReadAll, GivesMessage, GivesError, GivesEnd,
     Fail
<1>5. CASE ImplReads
  BY <1>5, ReadSame DEF ImplReads, HasFrame, NextFrame, ReadAll, GivesMessage, GivesError,
     GivesEnd, Fail
<1>6. CASE ImplYields
  BY <1>6, ReadSame DEF ImplYields
<1>7. CASE ImplReturns
  BY <1>7, ReadSame DEF ImplReturns
<1>8. CASE ImplThrows
  BY <1>8, ReadSame DEF ImplThrows, Fail
<1>9. CASE Write
  BY <1>9, ReadSame DEF Write, AfterWrite
<1>10. CASE SerializeFails
  BY <1>10, ReadSame DEF SerializeFails, Fail
<1>11. CASE CompressFails
  BY <1>11, ReadSame DEF CompressFails, Fail
<1>12. CASE WriteFails
  BY <1>12, ReadSame DEF WriteFails
<1>13. CASE Final
  BY <1>13, ReadSame DEF Final
<1>14. CASE Close
  BY <1>14, ReadSame DEF Close
<1>15. CASE ClientSends
  <2>1. \A n \in 1..Len(request.frames) : request'.frames[n] = request.frames[n]
    <3>1. PICK f \in {"message", "garbled", "end"} : request'.frames = Append(request.frames, f)
      BY <1>15 DEF ClientSends, TypeOK
    <3>2. request.frames \in Seq({"message", "garbled", "end"})
      BY Frames
    <3>3. QED
      BY <3>1, <3>2, AppendProperties
  <2>2. QED
    BY <1>15, <2>1, ReadAhead DEF ClientSends
<1>16. CASE ClientCloses
  <2>1. request'.frames = request.frames /\ (request.closed = "clean" => request'.closed = "clean")
    BY <1>16 DEF ClientCloses, TypeOK
  <2>2. QED
    BY <1>16, <2>1, ReadAhead DEF ClientCloses
<1>17. CASE ConnectionLost
  <2>1. request'.frames = request.frames /\ (request.closed = "clean" => request'.closed = "clean")
    BY <1>17 DEF ConnectionLost, TypeOK
  <2>2. QED
    BY <1>17, <2>1, ReadAhead DEF ConnectionLost
<1>18. QED
  BY <1>1, <1>2, <1>3, <1>4, <1>5, <1>6, <1>7, <1>8, <1>9, <1>10, <1>11, <1>12, <1>13, <1>14,
     <1>15, <1>16, <1>17 DEF Next, Server, Client

\* A step that neither writes a frame nor moves to the verdict keeps the messages.
LEMMA FramesSame ==
  response'.frames = response.frames /\ (Marked' <=> Marked) =>
    /\ Written' = Written
    /\ OnlyMessages' <=> OnlyMessages
BY DEF Written, OnlyMessages

\* What the loop writes is one frame more.
LEMMA WriteAppends ==
  IInv /\ Write /\ ~Bare =>
    /\ response'.frames = Append(response.frames, frame)
    /\ response'.frames \in Seq({"message", "ok", "error"})
    /\ Len(response'.frames) = Len(response.frames) + 1
    /\ Len(response'.frames) <= MaxOut + 1
    /\ \A n \in 1..Len(response.frames) : response'.frames[n] = response.frames[n]
    /\ response'.frames[Len(response.frames) + 1] = frame
<1> HAVE IInv /\ Write /\ ~Bare
<1> USE State
<1>1. response.frames \in Seq({"message", "ok", "error"})
  BY Frames
<1>2. frame \in {"message", "ok", "error"}
  BY DEF Write, PhaseInv
<1>3. Len(response.frames) < MaxOut + 1
  <2>1. Written = Len(response.frames)
    BY DEF Write, Written, Marked
  <2>2. Written <= outputs
    <3>1. InHand \in {0, 1} /\ Written + InHand <= outputs
      BY DEF FramesInv, InHand
    <3>2. QED
      BY <2>1, <3>1
  <2>3. QED
    BY <2>1, <2>2
<1>4. response'.frames = Append(response.frames, frame)
  BY DEF Write, TypeOK
<1>5. MaxOut + 1 \in Nat /\ Len(response.frames) \in Nat
  BY Frames
<1>6. QED
  BY <1>1, <1>2, <1>3, <1>4, <1>5, AppendProperties

LEMMA FramesNext == IInv /\ Next => FramesInv'
<1> SUFFICES ASSUME IInv, Next
             PROVE  FramesInv'
  OBVIOUS
<1> USE State DEF Bare, MarksEnd
<1>1. Written \in Int
  BY DEF Written
<1>2. CASE Handle
  <2>1. response'.frames = response.frames /\ opt' = opt
    BY <1>2 DEF Handle, TypeOK
  <2>2. ~Marked /\ ~Marked' /\ InHand' = InHand /\ pc # "ended"
    BY <1>2 DEF Handle, Marked, InHand
  <2>3. QED
    BY <1>1, <1>2, <2>1, <2>2, FramesSame DEF Handle, FramesInv
<1>3. CASE SkipEnd
  <2>1. response'.frames = response.frames /\ opt' = opt /\ (Marked' <=> Marked)
    BY <1>3 DEF SkipEnd, Marked, PhaseInv
  <2>2. QED
    BY <1>1, <1>3, <2>1, FramesSame
       DEF SkipEnd, FramesInv, InHand, PhaseInv, OutputInv, Before, During, Marked, Verdict, PC
<1>4. CASE Input1
  <2>1. response'.frames = response.frames /\ opt' = opt /\ (Marked' <=> Marked)
    BY <1>4 DEF Input1, Fail, Marked, PhaseInv
  <2>2. QED
    BY <1>1, <1>4, <2>1, FramesSame
       DEF Input1, Fail, FramesInv, InHand, PhaseInv, OutputInv, Before, During, Marked, Verdict, PC
<1>5. CASE Input2
  <2>1. response'.frames = response.frames /\ opt' = opt /\ (Marked' <=> Marked)
    BY <1>5 DEF Input2, Fail, Marked, PhaseInv
  <2>2. QED
    BY <1>1, <1>5, <2>1, FramesSame
       DEF Input2, Fail, FramesInv, InHand, PhaseInv, OutputInv, Before, During, Marked, Verdict, PC
<1>6. CASE ImplReads
  <2>1. response'.frames = response.frames /\ opt' = opt /\ (Marked' <=> Marked)
    BY <1>6 DEF ImplReads, Fail, Marked, PhaseInv
  <2>2. QED
    BY <1>1, <1>6, <2>1, FramesSame
       DEF ImplReads, Fail, FramesInv, InHand, PhaseInv, OutputInv, Before, During, Marked,
             Verdict, PC
<1>7. CASE ImplYields
  <2>1. response'.frames = response.frames /\ opt' = opt /\ (Marked' <=> Marked)
    BY <1>7 DEF ImplYields, Marked, PhaseInv
  <2>2. QED
    BY <1>1, <1>7, <2>1, FramesSame
       DEF ImplYields, FramesInv, InHand, PhaseInv, OutputInv, Before, During, Marked, Verdict, PC
<1>8. CASE ImplReturns
  <2>1. response'.frames = response.frames /\ opt' = opt /\ (Marked' <=> Marked)
    BY <1>8 DEF ImplReturns, Marked, PhaseInv
  <2>2. QED
    BY <1>1, <1>8, <2>1, FramesSame
       DEF ImplReturns, FramesInv, InHand, PhaseInv, OutputInv, Before, During, Marked, Verdict, PC
<1>9. CASE ImplThrows
  <2>1. response'.frames = response.frames /\ opt' = opt /\ (Marked' <=> Marked)
    BY <1>9 DEF ImplThrows, Fail, Marked, PhaseInv
  <2>2. QED
    BY <1>1, <1>9, <2>1, FramesSame
       DEF ImplThrows, Fail, FramesInv, InHand, PhaseInv, OutputInv, Before, During, Marked,
             Verdict, PC
<1>10. CASE SerializeFails
  <2>1. response'.frames = response.frames /\ opt' = opt /\ (Marked' <=> Marked)
    BY <1>10 DEF SerializeFails, Fail, Marked, PhaseInv
  <2>2. QED
    BY <1>1, <1>10, <2>1, FramesSame
       DEF SerializeFails, Fail, FramesInv, InHand, PhaseInv, OutputInv, Before, During, Marked,
             Verdict, PC
<1>11. CASE CompressFails
  <2>1. response'.frames = response.frames /\ opt' = opt /\ (Marked' <=> Marked)
    BY <1>11 DEF CompressFails, Fail, Marked, PhaseInv
  <2>2. QED
    BY <1>1, <1>11, <2>1, FramesSame
       DEF CompressFails, Fail, FramesInv, InHand, PhaseInv, OutputInv, Before, During, Marked,
             Verdict, PC
<1>12. CASE WriteFails
  <2>1. response'.frames = response.frames /\ opt' = opt /\ (Marked' <=> Marked)
    BY <1>12 DEF WriteFails, Marked, PhaseInv
  <2>2. QED
    BY <1>1, <1>12, <2>1, FramesSame
       DEF WriteFails, FramesInv, InHand, PhaseInv, OutputInv, Before, During, Marked, Verdict, PC
<1>13. CASE Final
  <2>1. response'.frames = response.frames /\ opt' = opt /\ (Marked' <=> Marked)
    BY <1>13 DEF Final, Marked, PhaseInv
  <2>2. QED
    BY <1>1, <1>13, <2>1, FramesSame
       DEF Final, FramesInv, InHand, PhaseInv, OutputInv, Before, During, Marked, Verdict, PC
<1>14. CASE ClientSends
  <2>1. response'.frames = response.frames /\ opt' = opt /\ (Marked' <=> Marked)
    BY <1>14 DEF ClientSends, Marked, PhaseInv
  <2>2. QED
    BY <1>1, <1>14, <2>1, FramesSame
       DEF ClientSends, FramesInv, InHand, PhaseInv, OutputInv, Before, During, Marked, Verdict, PC
<1>15. CASE ClientCloses
  <2>1. response'.frames = response.frames /\ opt' = opt /\ (Marked' <=> Marked)
    BY <1>15 DEF ClientCloses, Marked, PhaseInv
  <2>2. QED
    BY <1>1, <1>15, <2>1, FramesSame
       DEF ClientCloses, FramesInv, InHand, PhaseInv, OutputInv, Before, During, Marked, Verdict, PC
<1>16. CASE ConnectionLost
  <2>1. response'.frames = response.frames
    BY <1>16 DEF ConnectionLost, TypeOK
  <2>2. Marked' <=> Marked
    BY <1>16 DEF ConnectionLost, Marked
  <2>3. QED
    BY <1>16, <2>1, <2>2, FramesSame DEF ConnectionLost, FramesInv, InHand, Verdict
<1>17. CASE Close
  <2>1. CASE Bare
    BY <1>17, <2>1 DEF Close, FramesInv, Marked
  <2>2. CASE ~Bare
    <3>1. response'.frames = response.frames
      BY <1>17, <2>2 DEF Close, TypeOK
    <3>2. Marked' <=> Marked
      BY <1>17 DEF Close, Marked
    <3>3. QED
      BY <1>17, <2>2, <3>1, <3>2, FramesSame DEF Close, FramesInv, InHand, Verdict
  <2>3. QED
    BY <2>1, <2>2
<1>18. CASE Write
  <2>1. CASE Bare
    BY <1>18, <2>1 DEF Write, AfterWrite, PhaseInv, FramesInv, Marked
  <2>2. CASE ~Bare /\ frame = "message"
    <3>1. ~Marked /\ ~Marked'
      BY <1>18, <2>2 DEF Write, AfterWrite, Marked
    <3>2. Written' = Written + 1 /\ InHand = 1 /\ InHand' = 0
      BY <1>18, <2>2, <3>1, WriteAppends DEF Write, Written, InHand
    <3>3. OnlyMessages'
      <4>1. Written = Len(response.frames) /\ Written' = Len(response.frames) + 1
        BY <1>18, <2>2, <3>1, WriteAppends DEF Written
      <4>2. \A n \in 1..Len(response.frames) : response'.frames[n] = "message"
        BY <1>18, <2>2, <4>1, WriteAppends DEF OnlyMessages, FramesInv
      <4>3. response'.frames[Len(response.frames) + 1] = "message"
        BY <1>18, <2>2, WriteAppends
      <4>4. 1..(Len(response.frames) + 1)
              = 1..Len(response.frames) \cup {Len(response.frames) + 1}
        OBVIOUS
      <4>5. QED
        BY <4>1, <4>2, <4>3, <4>4 DEF OnlyMessages
    <3>4. QED
      BY <1>1, <1>18, <2>2, <3>1, <3>2, <3>3 DEF Write, AfterWrite, FramesInv
  <2>3. CASE ~Bare /\ frame # "message"
    <3>1. MarksEnd /\ frame = Verdict /\ ~Marked /\ Marked'
      BY <1>18, <2>3 DEF Write, AfterWrite, Marked, PhaseInv
    <3>2. Written' = Written /\ InHand = 0 /\ InHand' = 0
      BY <1>18, <2>3, <3>1, WriteAppends DEF Write, Written, InHand
    <3>3. OnlyMessages'
      <4>1. Written = Len(response.frames) /\ Written' = Len(response.frames)
        BY <1>18, <2>3, <3>1, <3>2, WriteAppends DEF Written
      <4>2. \A n \in 1..Len(response.frames) : response'.frames[n] = "message"
        BY <1>18, <2>3, <4>1, WriteAppends DEF OnlyMessages, FramesInv
      <4>3. QED
        BY <4>1, <4>2 DEF OnlyMessages
    <3>4. Verdict' = Verdict
      BY <1>18 DEF Write, Verdict
    <3>5. QED
      BY <1>1, <1>18, <2>3, <3>1, <3>2, <3>3, <3>4, WriteAppends DEF Write, FramesInv
  <2>4. QED
    BY <2>1, <2>2, <2>3
<1>19. QED
  BY <1>2, <1>3, <1>4, <1>5, <1>6, <1>7, <1>8, <1>9, <1>10, <1>11, <1>12, <1>13, <1>14, <1>15,
     <1>16, <1>17, <1>18 DEF Next, Server, Client

\* The types of the next state, variable by variable.
LEMMA TypeNext == IInv /\ Next => TypeOK'
<1> SUFFICES ASSUME IInv, Next
             PROVE  TypeOK'
  OBVIOUS
<1>a. TypeOK /\ MaxIn \in Nat \ {0} /\ MaxOut \in Nat \ {0}
  BY State, ServerCallAssumption
<1>1. opt' = opt
  BY DEF Next, Server, Client, Handle, SkipEnd, Input1, Input2, ImplReads, ImplYields,
         ImplReturns, ImplThrows, Write, SerializeFails, CompressFails, WriteFails, Final,
         Close, ClientSends, ClientCloses, ConnectionLost
<1>2. pc' \in PC
  BY <1>a DEF TypeOK, PC, Next, Server, Client, Handle, SkipEnd, Input1, Input2, ImplReads,
         ImplYields, ImplReturns, ImplThrows, Write, AfterWrite, SerializeFails, CompressFails,
         WriteFails, Final, Close, ClientSends, ClientCloses, ConnectionLost, Fail
<1>3. frame' \in {"none", "message", "ok", "error"} /\ failure' \in {"none", "error", "undefined"}
  BY <1>a DEF TypeOK, Next, Server, Client, Handle, SkipEnd, Input1, Input2, ImplReads,
         ImplYields, ImplReturns, ImplThrows, Write, SerializeFails, CompressFails,
         WriteFails, Final, Verdict, Close, ClientSends, ClientCloses, ConnectionLost, Fail
<1>4. outputs' \in 0..MaxOut
  <2>1. outputs \in 0..MaxOut
    BY State
  <2>2. CASE ImplYields
    BY <1>a, <2>1, <2>2 DEF ImplYields
  <2>3. CASE ~ImplYields
    <3>1. outputs' = outputs
      BY <2>3 DEF Next, Server, Client, Handle, SkipEnd, Input1, Input2, ImplReads,
         ImplReturns, ImplThrows, Write, SerializeFails, CompressFails, WriteFails, Final,
         Close, ClientSends, ClientCloses, ConnectionLost
    <3>2. QED
      BY <2>1, <3>1
  <2>4. QED
    BY <2>2, <2>3
<1>5. /\ request' \in [frames : Seq({"message", "garbled", "end"}), closed : {"no", "clean", "cut"}]
      /\ Len(request'.frames) <= MaxIn
      /\ pulled' \in -1..Len(request'.frames)
      /\ inputs' \in 0..Len(request'.frames)
  <2>1. /\ request \in [frames : Seq({"message", "garbled", "end"}), closed : {"no", "clean", "cut"}]
        /\ pulled \in -1..Len(request.frames)
        /\ inputs \in 0..Len(request.frames)
        /\ Len(request.frames) \in 0..MaxIn
    BY <1>a, Frames DEF TypeOK
  <2>2. CASE ClientSends
    <3>1. PICK f \in {"message", "garbled", "end"} :
                 request' = [request EXCEPT !.frames = Append(@, f)]
      BY <2>2 DEF ClientSends
    <3>2. Len(request.frames) < MaxIn
      BY <1>a, <2>1, <2>2 DEF ClientSends
    <3>3. /\ Append(request.frames, f) \in Seq({"message", "garbled", "end"})
          /\ Len(Append(request.frames, f)) = Len(request.frames) + 1
      <4>1. request.frames \in Seq({"message", "garbled", "end"})
        BY <2>1
      <4>2. QED
        BY <4>1, AppendProperties
    <3>4. /\ request'.frames = Append(request.frames, f)
          /\ request' \in [frames : Seq({"message", "garbled", "end"}),
                           closed : {"no", "clean", "cut"}]
      BY <2>1, <3>1, <3>3
    <3>5. pulled' = pulled /\ inputs' = inputs
      BY <2>2 DEF ClientSends
    <3>6. /\ pulled' \in -1..Len(request'.frames) /\ inputs' \in 0..Len(request'.frames)
          /\ Len(request'.frames) <= MaxIn
      BY <1>a, <2>1, <3>2, <3>3, <3>4, <3>5
    <3>7. QED
      BY <3>4, <3>6
  <2>3. CASE ClientCloses \/ ConnectionLost
    <3>1. pulled' = pulled /\ inputs' = inputs
      BY <2>3 DEF ClientCloses, ConnectionLost
    <3>2. /\ request'.frames = request.frames
          /\ request' \in [frames : Seq({"message", "garbled", "end"}),
                           closed : {"no", "clean", "cut"}]
      BY <2>1, <2>3 DEF ClientCloses, ConnectionLost
    <3>3. QED
      BY <2>1, <3>1, <3>2
  <2>4. CASE Server
    <3>1. request' = request
      BY <2>4 DEF Server, Handle, SkipEnd, Input1, Input2, ImplReads, ImplYields, ImplReturns,
         ImplThrows, Write, SerializeFails, CompressFails, WriteFails, Final, Close
    <3>2. pulled' = pulled \/ pulled' = -1 \/ (pulled' = pulled + 1 /\ HasFrame)
      BY <2>4 DEF Server, Handle, SkipEnd, Input1, Input2, ImplReads, ImplYields, ImplReturns,
         ImplThrows, Write, SerializeFails, CompressFails, WriteFails, Final, Close, GivesMessage
    <3>3. pulled' \in -1..Len(request.frames)
      BY <2>1, <3>2 DEF HasFrame
    <3>4. inputs' = inputs \/ (HasFrame /\ inputs' = 1) \/ (HasFrame /\ inputs' = inputs + 1)
      BY <2>4 DEF Server, Handle, SkipEnd, Input1, Input2, ImplReads, ImplYields, ImplReturns,
         ImplThrows, Write, SerializeFails, CompressFails, WriteFails, Final, Close, GivesMessage
    <3>5. pulled # -1 => inputs <= pulled
      BY State DEF InputInv
    <3>6. inputs' \in 0..Len(request.frames)
      BY <2>1, <3>4, <3>5 DEF HasFrame
    <3>7. QED
      BY <2>1, <3>1, <3>3, <3>6
  <2>5. QED
    BY <2>2, <2>3, <2>4 DEF Next, Client
<1>6. /\ response' \in [status : {"none", "ok", "error", "rejected"},
                        frames : Seq({"message", "ok", "error"}),
                        closed : {"no", "clean", "cut"},
                        trailers : {"none", "ok", "error"}]
      /\ Len(response'.frames) <= MaxOut + 1
  <2>1. /\ response \in [status : {"none", "ok", "error", "rejected"},
                         frames : Seq({"message", "ok", "error"}),
                         closed : {"no", "clean", "cut"},
                         trailers : {"none", "ok", "error"}]
        /\ Len(response.frames) <= MaxOut + 1
    BY <1>a DEF TypeOK
  <2>2. CASE Handle \/ ConnectionLost
    BY <2>1, <2>2 DEF Handle, ConnectionLost
  <2>3. CASE Write
    <3>1. CASE Bare
      BY <2>1, <2>3, <3>1 DEF Write
    <3>2. CASE ~Bare
      <4>1. /\ response' = [response EXCEPT !.status = "ok", !.frames = Append(@, frame)]
            /\ Append(response.frames, frame) \in Seq({"message", "ok", "error"})
            /\ Len(Append(response.frames, frame)) <= MaxOut + 1
        BY <2>1, <2>3, <3>2, WriteAppends DEF Write
      <4>2. QED
        BY <2>1, <4>1
    <3>3. QED
      BY <3>1, <3>2
  <2>4. CASE Close
    <3>1. Verdict \in {"ok", "error"}
      BY DEF Verdict
    <3>2. /\ <<IF Verdict = "ok" THEN "message" ELSE "error">> \in Seq({"message", "ok", "error"})
          /\ Len(<<IF Verdict = "ok" THEN "message" ELSE "error">>) <= MaxOut + 1
      <4>1. \A e \in {"message", "ok", "error"} :
              <<e>> \in Seq({"message", "ok", "error"}) /\ Len(<<e>>) = 1
        OBVIOUS
      <4>2. QED
        BY <1>a, <4>1
    <3>3. QED
      BY <2>1, <2>4, <3>1, <3>2 DEF Close
  <2>5. CASE ~(Handle \/ ConnectionLost \/ Write \/ Close)
    <3>1. response' = response
      BY <2>5 DEF Next, Server, Client, SkipEnd, Input1, Input2, ImplReads, ImplYields,
         ImplReturns, ImplThrows, SerializeFails, CompressFails, WriteFails, Final,
         ClientSends, ClientCloses
    <3>2. QED
      BY <2>1, <3>1
  <2>6. QED
    BY <2>2, <2>3, <2>4, <2>5
<1>7. opt' \in Option
  BY <1>a, <1>1 DEF TypeOK
<1>8. QED
  BY <1>2, <1>3, <1>4, <1>5, <1>6, <1>7 DEF TypeOK

LEMMA InitInv == Init => IInv
<1> SUFFICES ASSUME Init
             PROVE  IInv
  OBVIOUS
<1> USE DEF Init
<1>1. /\ request.frames = << >> /\ response.frames = << >>
      /\ Len(request.frames) = 0 /\ Len(response.frames) = 0
  BY EmptySeq DEF NoRequest, NoResponse
<1>2. TypeOK
  <2>1. /\ << >> \in Seq({"message", "garbled", "end"}) /\ Len(request.frames) <= MaxIn
        /\ << >> \in Seq({"message", "ok", "error"}) /\ Len(response.frames) <= MaxOut + 1
    BY <1>1, ServerCallAssumption
  <2>2. pulled \in -1..Len(request.frames) /\ inputs \in 0..Len(request.frames)
    BY <1>1
  <2>3. outputs \in 0..MaxOut
    BY ServerCallAssumption
  <2>4. QED
    BY <2>1, <2>2, <2>3 DEF TypeOK, PC, NoRequest, NoResponse
<1>3. PhaseInv
  BY DEF PhaseInv, PC
<1>4. OutputInv
  BY DEF OutputInv, Before, During, Over
<1>5. FramesInv
  <2>1. ~Marked /\ Written = 0 /\ InHand = 0
    BY <1>1 DEF Marked, Written, InHand
  <2>2. OnlyMessages
    BY <2>1 DEF OnlyMessages
  <2>3. QED
    BY <1>1, <2>1, <2>2 DEF FramesInv
<1>6. DeclaredInv
  BY DEF DeclaredInv, NoResponse
<1>7. InputInv
  <2>1. NothingRead
    BY DEF NothingRead
  <2>2. QED
    BY <2>1 DEF InputInv, Before, During, Over
<1>8. QED
  BY <1>2, <1>3, <1>4, <1>5, <1>6, <1>7 DEF IInv

LEMMA NextInv == IInv /\ [Next]_vars => IInv'
<1> SUFFICES ASSUME IInv, [Next]_vars
             PROVE  IInv'
  OBVIOUS
<1>1. CASE Next
  BY <1>1, TypeNext, PhaseNext, OutputNext, FramesNext, DeclaredNext, InputNext DEF IInv
<1>2. CASE UNCHANGED vars
  BY <1>2 DEF IInv, TypeOK, PhaseInv, OutputInv, FramesInv, DeclaredInv, InputInv, vars,
       Before, During, Over, Marked, Written, InHand, OnlyMessages, NothingRead, OneRead,
       TakesOne, ReturnsOne, Bare, MarksEnd, Verdict
<1>3. QED
  BY <1>1, <1>2

\* What holds in every reachable state of a call at the server.
THEOREM Invariance == Spec => []IInv
BY InitInv, NextInv, PTL DEF Spec

-----------------------------------------------------------------------------
(* What follows from it.                                                   *)

\* Every variable keeps its type: neither the input nor the messages of the
\* implementation are counted beyond what was sent.
THEOREM TypeCorrect == Spec => []TypeOK
<1>1. IInv => TypeOK
  BY DEF IInv
<1>2. QED
  BY <1>1, Invariance, PTL

\* A success or an error is declared only by a verdict, and at the end.
LEMMA Declared ==
  IInv =>
    /\ DeclaredOk => opt.accept # "refused" /\ (pc = "ended" \/ Marked) /\ Verdict = "ok"
    /\ DeclaredError => opt.accept # "refused" /\ (pc = "ended" \/ Marked) /\ Verdict = "error"
    /\ pc = "ended" /\ opt.accept # "refused" =>
         /\ Verdict = "ok" => DeclaredOk
         /\ Verdict = "error" => DeclaredError
<1> HAVE IInv
<1> USE State
<1>1. CASE Bare
  BY <1>1 DEF DeclaredOk, DeclaredError, DeclaredInv, MarksEnd, Verdict
<1>2. CASE MarksEnd
  <2>1. ~Bare
    BY <1>2 DEF MarksEnd
  <2>2. ASSUME NEW v \in {"ok", "error"}, Contains(response.frames, v)
        PROVE  Marked /\ Verdict = v
    <3>1. PICK n \in 1..Len(response.frames) : response.frames[n] = v
      BY <2>2 DEF Contains
    <3>2. n \notin 1..Written
      BY <2>1, <2>2, <3>1 DEF FramesInv, OnlyMessages
    <3>3. Marked /\ n = Len(response.frames)
      BY <3>1, <3>2 DEF Written
    <3>4. QED
      BY <3>1, <3>3 DEF FramesInv
  <2>3. ASSUME Marked
        PROVE  Contains(response.frames, Verdict)
    <3>1. Len(response.frames) \in 1..Len(response.frames)
      BY <2>3 DEF FramesInv
    <3>2. QED
      BY <2>3, <3>1 DEF FramesInv, Contains
  <2>4. Marked => opt.accept # "refused"
    BY DEF Marked
  <2>5. pc = "ended" /\ opt.accept # "refused" => Marked
    BY <1>2 DEF Marked
  <2>6. (DeclaredOk <=> Contains(response.frames, "ok"))
        /\ (DeclaredError <=> Contains(response.frames, "error"))
    BY <1>2, <2>1 DEF DeclaredOk, DeclaredError
  <2>7. QED
    BY <2>2, <2>3, <2>4, <2>5, <2>6
<1>3. CASE ~Bare /\ ~MarksEnd
  BY <1>3 DEF DeclaredOk, DeclaredError, DeclaredInv, MarksEnd, Verdict
<1>4. QED
  BY <1>1, <1>2, <1>3

\* The response that ends says how the call went, once and last: an error wherever it
\* came from is declared, by transformCatchFinally(), transformCatch() or the status,
\* and a success is not turned into one.
THEOREM StatusIsTrue == Spec => []StatusTellsTheTruth
<1>1. IInv => StatusTellsTheTruth
  <2> SUFFICES ASSUME IInv, pc = "ended", opt.accept # "refused"
               PROVE  /\ DeclaredOk # DeclaredError
                      /\ failure = "none" => DeclaredOk
                      /\ failure = "error" => DeclaredError
                      /\ failure = "undefined" => DeclaredError \/ MarksEnd
                      /\ MarksEnd => Last(response.frames) # "message"
    BY DEF StatusTellsTheTruth
  <2>1. Verdict \in {"ok", "error"}
    BY DEF Verdict
  <2>2. (DeclaredOk <=> Verdict = "ok") /\ (DeclaredError <=> Verdict = "error")
    BY <2>1, Declared
  <2>3. DeclaredOk \in BOOLEAN /\ DeclaredError \in BOOLEAN
    BY DEF DeclaredOk, DeclaredError, Contains
  <2>4. DeclaredOk # DeclaredError
    BY <2>1, <2>2, <2>3
  <2>5. /\ failure = "none" => Verdict = "ok"
        /\ failure = "error" => Verdict = "error"
        /\ failure = "undefined" /\ ~MarksEnd => Verdict = "error"
    BY DEF Verdict
  <2>6. MarksEnd => Last(response.frames) # "message"
    BY <2>1, State DEF Last, FramesInv, Marked
  <2>7. QED
    BY <2>2, <2>4, <2>5, <2>6
<1>2. QED
  BY <1>1, Invariance, PTL

\* A method that takes one message is called with the one message of the request, and
\* succeeds only if the request, to its end, has no other and nothing that is garbled:
\* transformInvokeImplementation() looks for a second message before it is done.
THEOREM OneInputIsTaken == Spec => []OneInput
<1>1. IInv => OneInput
  <2> SUFFICES ASSUME IInv, TakesOne, DeclaredOk \/ outputs > 0
               PROVE  /\ inputs = 1
                      /\ DeclaredOk /\ failure = "none" =>
                           /\ request.closed = "clean"
                           /\ \E n \in DOMAIN request.frames :
                                /\ request.frames[n] = "message"
                                /\ \A m \in DOMAIN request.frames \ {n} :
                                     request.frames[m] = "end"
    BY DEF OneInput
  <2> USE State
  <2>1. ASSUME DeclaredOk
        PROVE  opt.accept # "refused" /\ Over /\ failure # "error"
    BY <2>1, Declared DEF Over, Marked, Verdict
  <2>2. inputs = 1
    BY <2>1 DEF InputInv
  <2>3. ASSUME DeclaredOk, failure = "none"
        PROVE  /\ request.closed = "clean"
               /\ OneRead /\ pulled = Len(request.frames)
    BY <2>1, <2>2, <2>3 DEF InputInv
  <2>4. DOMAIN request.frames = 1..Len(request.frames)
    BY Frames
  <2>5. QED
    BY <2>2, <2>3, <2>4 DEF OneRead
<1>2. QED
  BY <1>1, Invariance, PTL

\* Before a success is declared, every message of the implementation has gone out, in a
\* frame of its own, and no other message.
THEOREM EverythingIsWritten == Spec => []AllIsWritten
<1>1. IInv => AllIsWritten
  <2> SUFFICES ASSUME IInv, DeclaredOk
               PROVE  {n \in DOMAIN response.frames : response.frames[n] = "message"}
                        = 1..outputs
    BY DEF AllIsWritten
  <2> USE State
  <2>1. /\ opt.accept # "refused" /\ (pc = "ended" \/ Marked) /\ Verdict = "ok"
        /\ DOMAIN response.frames = 1..Len(response.frames)
    BY Declared, Frames
  <2>2. failure # "error" /\ pc \in {"close", "ended"}
    BY <2>1 DEF Verdict, Marked
  <2>3. CASE Bare
    <3>1. response.frames = <<"message">>
      BY <2>1, <2>3 DEF DeclaredInv, Marked, MarksEnd
    <3>2. failure = "none"
      BY <2>1, <2>3 DEF Verdict, MarksEnd
    <3>3. outputs = 1
      BY <2>1, <2>2, <2>3, <3>2 DEF OutputInv, ReturnsOne, Bare, Over
    <3>4. QED
      BY <3>1, <3>3
  <2>4. CASE ~Bare
    <3>1. Written = outputs /\ OnlyMessages
      <4>1. InHand = 0
        BY <2>2 DEF PhaseInv, PC, InHand
      <4>2. Written + InHand = outputs /\ OnlyMessages
        BY <2>2, <2>4 DEF FramesInv
      <4>3. Written \in Int
        BY DEF Written
      <4>4. QED
        BY <4>1, <4>2, <4>3
    <3>2. CASE Marked
      <4>1. /\ Written = Len(response.frames) - 1 /\ Len(response.frames) > 0
            /\ response.frames[Len(response.frames)] = "ok"
        BY <2>1, <3>2 DEF Written, FramesInv
      <4>2. 1..Len(response.frames) = 1..outputs \cup {Len(response.frames)}
        BY <3>1, <4>1
      <4>3. QED
        BY <2>1, <3>1, <4>1, <4>2 DEF OnlyMessages
    <3>3. CASE ~Marked
      <4>1. Written = Len(response.frames)
        BY <3>3 DEF Written
      <4>2. QED
        BY <2>1, <3>1, <4>1 DEF OnlyMessages
    <3>4. QED
      BY <3>2, <3>3
  <2>5. QED
    BY <2>3, <2>4
<1>2. QED
  BY <1>1, Invariance, PTL
=============================================================================
