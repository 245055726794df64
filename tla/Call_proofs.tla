----------------------------- MODULE Call_proofs -----------------------------
(***************************************************************************)
(* A call implements Rpc: the proof, step by step, for requests and        *)
(* responses of any length.                                                *)
(***************************************************************************)
EXTENDS Call, SequenceTheorems, TLAPS

-----------------------------------------------------------------------------
(* The inductive invariant.                                                *)

TypeOK ==
  /\ opt.protocol \in {"connect", "grpc", "grpc-web"} /\ opt.kind \in C!Kind
  /\ opt.accept \in {"yes", "refused", "badEncoding"}
  /\ serverPc \in S!PC
  /\ outputs \in Nat
  /\ frame \in {"none", "message", "ok", "error"}
  /\ failure \in {"none", "error", "undefined"}
  /\ response \in [status : {"none", "ok", "error", "rejected"},
                   frames : Seq({"message", "ok", "error"}),
                   closed : {"no", "clean", "cut"},
                   trailers : {"none", "ok", "error"}]
  /\ clientPc \in {"header", "errorBody", "body", "settled"}
  /\ read \in 0..Len(response.frames)
  /\ accepted \in Seq(Nat)
  /\ ended \in {"no", "ok", "error"}
  /\ outcome \in C!Outcome
  /\ clientPc = "settled" <=> outcome # "open"

\* Where the server is, and what it has in hand.
ServerInv ==
  /\ serverPc = "write" => frame # "none"
  /\ serverPc \in S!PC \ {"write", "broken"} => frame = "none"
  /\ frame \in {"ok", "error"} => S!MarksEnd /\ frame = S!Verdict
  /\ serverPc \in {"handle", "input1", "impl", "input2"} => failure = "none"
  /\ serverPc = "write" /\ frame = "message" => failure = "none"
  /\ failure = "undefined" => ~S!MarksEnd
  /\ opt.accept = "refused" => serverPc \in {"handle", "ended"} /\ failure = "none"
  /\ serverPc \in {"handle", "input1"} => outputs = 0
  /\ S!ReturnsOne =>
       /\ outputs <= 1
       /\ serverPc = "impl" => outputs = 0
       /\ serverPc \in {"write", "input2", "final", "close", "ended"}
            /\ failure = "none" /\ opt.accept # "refused" => outputs = 1

\* The verdict has been written.
Marked == S!MarksEnd /\ serverPc \in {"close", "ended"} /\ opt.accept # "refused"

\* How many frames there are, until the connection is lost and takes some of them.
Expected == outputs + (IF Marked THEN 1 ELSE 0) - (IF frame = "message" THEN 1 ELSE 0)

CountInv ==
  /\ S!Bare /\ serverPc # "ended" => response.frames = << >>
  /\ ~S!Bare =>
       /\ Len(response.frames) <= Expected
       /\ response.closed # "cut" /\ failure # "error" => Len(response.frames) = Expected

\* What they are: first the messages, then what tells of the outcome.
FramesInv ==
  \A n \in 1..Len(response.frames) :
    /\ response.frames[n] = "message" => n <= outputs
    /\ response.frames[n] = "ok" =>
         n = Len(response.frames) /\ n = outputs + 1 /\ Marked /\ failure = "none"
    /\ response.frames[n] = "error" =>
         n = Len(response.frames) /\ failure # "none" /\ (Marked \/ S!Bare)

\* The verdict ends a response that was not cut.
VerdictInv ==
  Marked /\ response.closed # "cut" =>
    Len(response.frames) > 0 /\ response.frames[Len(response.frames)] \in {"ok", "error"}

\* What status and trailers say.
StatusInv ==
  /\ response.closed = "clean" => serverPc = "ended"
  /\ opt.accept = "refused" => response.status \in {"none", "rejected"}
  /\ response.status = "rejected" => opt.accept = "refused"
  /\ S!Bare /\ serverPc # "ended" => response.status = "none"
  /\ response.status = "error" =>
       S!Bare /\ \A n \in 1..Len(response.frames) : response.frames[n] = "error"
  /\ S!Bare /\ response.status = "ok" => serverPc = "ended" /\ failure = "none"
  /\ S!Bare /\ response.closed = "clean" /\ opt.accept # "refused" => Len(response.frames) = 1
  /\ response.trailers = "ok" => failure = "none"
  /\ response.trailers = "error" => failure # "none"
  /\ response.closed = "clean" /\ opt.protocol = "grpc" /\ opt.accept # "refused" =>
       response.trailers # "none"
  /\ response.trailers # "none" => opt.protocol = "grpc" /\ response.closed = "clean"

\* What the client has read: messages, each of which it holds, and then the outcome.
ClientInv ==
  /\ clientPc \in {"header", "errorBody"} => read = 0 /\ accepted = << >> /\ ended = "no"
  /\ clientPc = "errorBody" => S!Bare /\ response.status = "error"
  /\ clientPc = "body" =>
       /\ response.status = "ok"
       /\ Len(accepted) = IF ended = "no" THEN read ELSE read - 1
       /\ ended # "no" => read > 0 /\ response.frames[read] = ended
       /\ ended = "no" /\ read > 0 => response.frames[read] = "message"

IInv ==
  /\ TypeOK /\ ServerInv /\ CountInv /\ FramesInv /\ VerdictInv /\ StatusInv
  /\ ClientInv /\ NoFalseAlarm

-----------------------------------------------------------------------------
(* The steps of the server.                                                *)

\* The handlers' steps that leave the response as it is.
Inside ==
  \/ S!SkipEnd \/ S!Input1 \/ S!Input2 \/ S!ImplReads \/ S!ImplYields \/ S!ImplReturns
  \/ S!ImplThrows \/ S!SerializeFails \/ S!CompressFails \/ S!WriteFails \/ S!Final

LEMMA ServerActions ==
  Server => UNCHANGED clientVars /\ (S!Handle \/ Inside \/ S!Write \/ S!Close)
BY DEF Server, S!Server, Inside

LEMMA ServerKeeps ==
  Server => opt' = opt /\ UNCHANGED clientVars
BY DEF Server, S!Server, S!Handle, S!SkipEnd, S!Input1, S!Input2, S!ImplReads, S!ImplYields,
   S!ImplReturns, S!ImplThrows, S!SerializeFails, S!CompressFails, S!WriteFails, S!Final,
   S!Write, S!Close

\* What becomes of the response, if it changes.
Rejects ==
  /\ S!Handle /\ opt.accept = "refused"
  /\ response' = [response EXCEPT !.status = "rejected", !.closed = "clean"]

Writes ==
  /\ S!Write /\ ~S!Bare /\ opt.accept # "refused"
  /\ response' = [response EXCEPT !.status = "ok", !.frames = Append(@, frame)]

ClosesBare ==
  /\ S!Close /\ S!Bare /\ response.frames = << >>
  /\ \E f \in {"message", "error"} :
       /\ f = "error" <=> failure # "none"
       /\ response' = [response EXCEPT !.status = IF f = "error" THEN "error" ELSE "ok",
                                       !.closed = "clean", !.frames = <<f>>]

ClosesStream ==
  /\ S!Close /\ ~S!Bare /\ opt.accept # "refused"
  /\ \E t \in {"none", "ok", "error"} :
       /\ t = "ok" => failure = "none"
       /\ t = "error" => failure # "none"
       /\ opt.protocol = "grpc" <=> t # "none"
       /\ response' = [response EXCEPT !.status = "ok", !.closed = "clean",
                                       !.trailers = IF t = "none" THEN @ ELSE t]

LEMMA ServerResponds ==
  IInv /\ Server => response' = response \/ Rejects \/ Writes \/ ClosesBare \/ ClosesStream
<1> SUFFICES ASSUME IInv, Server
             PROVE  response' = response \/ Rejects \/ Writes \/ ClosesBare \/ ClosesStream
  OBVIOUS
<1>1. CASE S!Handle
  BY <1>1 DEF S!Handle, Rejects
<1>2. CASE Inside
  BY <1>2 DEF Inside, S!SkipEnd, S!Input1, S!Input2, S!ImplReads, S!ImplYields,
     S!ImplReturns, S!ImplThrows, S!SerializeFails, S!CompressFails, S!WriteFails, S!Final
<1>3. CASE S!Write
  <2>1. opt.accept # "refused"
    BY <1>3 DEF IInv, ServerInv, S!Write
  <2>2. QED
    BY <1>3, <2>1 DEF S!Write, Writes
<1>4. CASE S!Close /\ S!Bare
  <2>1. response.frames = << >> /\ (S!Verdict = "error" <=> failure # "none")
        /\ S!Verdict \in {"ok", "error"}
    BY <1>4 DEF IInv, TypeOK, ServerInv, CountInv, S!Close, S!Verdict, S!MarksEnd
  <2>2. DEFINE f == IF S!Verdict = "ok" THEN "message" ELSE "error"
  <2>3. response' = [response EXCEPT !.status = S!Verdict, !.closed = "clean", !.frames = <<f>>]
    BY <1>4 DEF S!Close, S!Bare
  <2>4. f \in {"message", "error"} /\ (f = "error" <=> failure # "none")
        /\ S!Verdict = IF f = "error" THEN "error" ELSE "ok"
    BY <2>1
  <2>5. QED
    BY <1>4, <2>1, <2>3, <2>4 DEF ClosesBare
<1>5. CASE S!Close /\ ~S!Bare
  <2>1. opt.accept # "refused" /\ failure \in {"none", "error", "undefined"}
    BY <1>5 DEF IInv, TypeOK, ServerInv, S!Close
  <2>2. DEFINE t == IF opt.protocol = "grpc" THEN S!Verdict ELSE "none"
  <2>3. /\ t \in {"none", "ok", "error"} /\ (opt.protocol = "grpc" <=> t # "none")
        /\ t = "ok" => failure = "none"
        /\ t = "error" => failure # "none"
    BY <2>1 DEF S!Verdict, S!MarksEnd
  <2>4. response' = [response EXCEPT !.status = "ok", !.closed = "clean",
                                    !.trailers = IF t = "none" THEN @ ELSE t]
    <3>1. CASE opt.protocol = "grpc"
      BY <1>5, <2>3, <3>1 DEF S!Close
    <3>2. CASE opt.protocol # "grpc"
      <4>1. response' = [response EXCEPT !.status = "ok", !.closed = "clean"]
        BY <1>5, <3>2 DEF S!Close
      <4>2. QED
        BY <4>1, <3>2 DEF IInv, TypeOK
    <3>3. QED
      BY <3>1, <3>2
  <2>5. QED
    BY <1>5, <2>1, <2>3, <2>4 DEF ClosesStream
<1>6. QED
  BY <1>1, <1>2, <1>3, <1>4, <1>5, ServerActions

\* The request plays no part in what follows.
LEMMA ServerTypeOK ==
  IInv /\ Server => TypeOK'
<1> SUFFICES ASSUME IInv, Server
             PROVE  TypeOK'
  OBVIOUS
<1>0. TypeOK
  BY DEF IInv
<1>1. opt' = opt /\ UNCHANGED clientVars
  BY ServerKeeps
<1>2. /\ serverPc' \in S!PC /\ outputs' \in Nat
      /\ frame' \in {"none", "message", "ok", "error"}
      /\ failure' \in {"none", "error", "undefined"}
  <2>1. CASE S!Handle
    BY <1>0, <2>1 DEF TypeOK, S!Handle, S!PC
  <2>2. CASE S!Write
    BY <1>0, <2>2 DEF TypeOK, S!Write, S!AfterWrite, S!PC
  <2>3. CASE S!Close
    BY <1>0, <2>3 DEF TypeOK, S!Close, S!PC
  <2>4. CASE S!SkipEnd \/ S!Input1 \/ S!Input2
    BY <1>0, <2>4 DEF TypeOK, S!SkipEnd, S!Input1, S!Input2, S!Fail, S!PC
  <2>5. CASE S!ImplReads \/ S!ImplYields \/ S!ImplReturns \/ S!ImplThrows
    BY <1>0, <2>5 DEF TypeOK, S!ImplReads, S!ImplYields, S!ImplReturns, S!ImplThrows, S!Fail,
       S!PC
  <2>6. CASE S!SerializeFails \/ S!CompressFails \/ S!WriteFails \/ S!Final
    BY <1>0, <2>6 DEF TypeOK, S!SerializeFails, S!CompressFails, S!WriteFails, S!Final,
       S!Fail, S!PC,
       S!Verdict
  <2>7. QED
    BY <2>1, <2>2, <2>3, <2>4, <2>5, <2>6 DEF Server, S!Server
<1>3. /\ response' \in [status : {"none", "ok", "error", "rejected"},
                        frames : Seq({"message", "ok", "error"}),
                        closed : {"no", "clean", "cut"},
                        trailers : {"none", "ok", "error"}]
      /\ read \in 0..Len(response'.frames)
  <2>1. CASE response' = response
    BY <1>0, <2>1 DEF TypeOK
  <2>2. CASE Rejects
    BY <1>0, <2>2 DEF TypeOK, Rejects
  <2>3. CASE Writes
    <3>1. /\ frame \in {"message", "ok", "error"}
          /\ response.frames \in Seq({"message", "ok", "error"})
      BY <1>0, <2>3 DEF IInv, TypeOK, ServerInv, Writes, S!Write
    <3>2. /\ Append(response.frames, frame) \in Seq({"message", "ok", "error"})
          /\ Len(Append(response.frames, frame)) = Len(response.frames) + 1
          /\ Len(response.frames) \in Nat
      BY <3>1, AppendProperties, LenProperties
    <3>3. response'.frames = Append(response.frames, frame)
      BY <1>0, <2>3 DEF TypeOK, Writes
    <3>4. read \in 0..Len(response'.frames)
      BY <1>0, <3>2, <3>3 DEF TypeOK
    <3>5. QED
      BY <1>0, <2>3, <3>2, <3>4 DEF TypeOK, Writes
  <2>4. CASE ClosesBare
    <3>1. PICK f \in {"message", "error"} :
            response' = [response EXCEPT !.status = IF f = "error" THEN "error" ELSE "ok",
                                        !.closed = "clean", !.frames = <<f>>]
      BY <2>4 DEF ClosesBare
    <3>2. read = 0
      BY <1>0, <2>4 DEF TypeOK, ClosesBare
    <3>3. <<f>> \in Seq({"message", "ok", "error"}) /\ Len(<<f>>) = 1
      OBVIOUS
    <3>4. response'.frames = <<f>>
      BY <1>0, <3>1 DEF TypeOK
    <3>5. read \in 0..Len(response'.frames)
      BY <3>2, <3>3, <3>4
    <3>6. (IF f = "error" THEN "error" ELSE "ok") \in {"none", "ok", "error", "rejected"}
      OBVIOUS
    <3>7. QED
      BY <1>0, <3>1, <3>3, <3>5, <3>6 DEF TypeOK
  <2>5. CASE ClosesStream
    BY <1>0, <2>5 DEF TypeOK, ClosesStream
  <2>6. QED
    BY <2>1, <2>2, <2>3, <2>4, <2>5, ServerResponds
<1>4. QED
  BY <1>0, <1>1, <1>2, <1>3 DEF TypeOK, clientVars, S!PC

\* Where the server goes.
LEMMA ServerServerInv ==
  IInv /\ Server => ServerInv'
<1> SUFFICES ASSUME IInv, Server
             PROVE  ServerInv'
  OBVIOUS
<1>0. /\ TypeOK /\ ServerInv /\ opt' = opt
      /\ failure' = "undefined" => ~S!MarksEnd
  BY ServerKeeps DEF IInv, Server
<1>1. CASE S!Handle
  BY <1>0, <1>1 DEF TypeOK, ServerInv, S!Handle, S!PC, S!MarksEnd, S!Bare, S!Verdict,
     S!ReturnsOne
<1>2. CASE S!SkipEnd
  BY <1>0, <1>2 DEF TypeOK, ServerInv, S!SkipEnd, S!PC, S!MarksEnd, S!Bare, S!Verdict,
     S!ReturnsOne
<1>3. CASE S!Input1
  BY <1>0, <1>3 DEF TypeOK, ServerInv, S!Input1, S!Fail, S!PC, S!MarksEnd, S!Bare, S!Verdict,
     S!ReturnsOne
<1>4. CASE S!Input2
  BY <1>0, <1>4 DEF TypeOK, ServerInv, S!Input2, S!Fail, S!PC, S!MarksEnd, S!Bare, S!Verdict,
     S!ReturnsOne
<1>5. CASE S!ImplReads
  BY <1>0, <1>5 DEF TypeOK, ServerInv, S!ImplReads, S!Fail, S!PC, S!MarksEnd, S!Bare,
     S!Verdict, S!ReturnsOne
<1>6. CASE S!ImplYields
  BY <1>0, <1>6 DEF TypeOK, ServerInv, S!ImplYields, S!PC, S!MarksEnd, S!Bare, S!Verdict,
     S!ReturnsOne
<1>7. CASE S!ImplReturns
  BY <1>0, <1>7 DEF TypeOK, ServerInv, S!ImplReturns, S!PC, S!MarksEnd, S!Bare,
     S!Verdict, S!ReturnsOne
<1>8. CASE S!ImplThrows
  BY <1>0, <1>8 DEF TypeOK, ServerInv, S!ImplThrows, S!Fail, S!PC, S!MarksEnd, S!Bare,
     S!Verdict, S!ReturnsOne
<1>9. CASE S!Write
  BY <1>0, <1>9 DEF TypeOK, ServerInv, S!Write, S!AfterWrite, S!PC, S!MarksEnd, S!Bare,
     S!Verdict, S!ReturnsOne
<1>10. CASE S!SerializeFails
  BY <1>0, <1>10 DEF TypeOK, ServerInv, S!SerializeFails, S!Fail, S!PC, S!MarksEnd, S!Bare,
     S!Verdict, S!ReturnsOne
<1>11. CASE S!CompressFails
  BY <1>0, <1>11 DEF TypeOK, ServerInv, S!CompressFails, S!Fail, S!PC, S!MarksEnd, S!Bare,
     S!Verdict, S!ReturnsOne
<1>12. CASE S!WriteFails
  BY <1>0, <1>12 DEF TypeOK, ServerInv, S!WriteFails, S!PC, S!MarksEnd, S!Bare, S!Verdict,
     S!ReturnsOne
<1>13. CASE S!Final
  BY <1>0, <1>13 DEF TypeOK, ServerInv, S!Final, S!PC, S!MarksEnd, S!Bare, S!Verdict,
     S!ReturnsOne
<1>14. CASE S!Close
  BY <1>0, <1>14 DEF TypeOK, ServerInv, S!Close, S!PC, S!MarksEnd, S!Bare, S!Verdict,
     S!ReturnsOne
<1>15. QED
  BY <1>1, <1>2, <1>3, <1>4, <1>5, <1>6, <1>7, <1>8, <1>9, <1>10, <1>11, <1>12, <1>13, <1>14
     DEF Server, S!Server

\* The response after a write, and after a bare one.
LEMMA WritesFields ==
  TypeOK /\ Writes =>
    /\ Len(response.frames) \in Nat /\ Len(response'.frames) = Len(response.frames) + 1
    /\ response'.frames[Len(response.frames) + 1] = frame
    /\ \A n \in 1..Len(response.frames) : response'.frames[n] = response.frames[n]
    /\ response'.status = "ok"
    /\ response'.closed = response.closed /\ response'.trailers = response.trailers
<1> SUFFICES ASSUME TypeOK, Writes
             PROVE  /\ Len(response.frames) \in Nat
                    /\ Len(response'.frames) = Len(response.frames) + 1
                    /\ response'.frames[Len(response.frames) + 1] = frame
                    /\ \A n \in 1..Len(response.frames) : response'.frames[n] = response.frames[n]
                    /\ response'.status = "ok"
                    /\ response'.closed = response.closed
                    /\ response'.trailers = response.trailers
  OBVIOUS
<1>1. /\ response'.frames = Append(response.frames, frame)
      /\ response'.status = "ok"
      /\ response'.closed = response.closed /\ response'.trailers = response.trailers
  BY DEF TypeOK, Writes
<1>2. response.frames \in Seq({"message", "ok", "error"} \cup {frame})
  BY DEF TypeOK
<1>3. QED
  BY <1>1, <1>2, AppendProperties, LenProperties

LEMMA ClosesBareFields ==
  TypeOK /\ ClosesBare =>
    /\ Len(response'.frames) = 1
    /\ response'.frames[1] \in {"message", "error"}
    /\ response'.frames[1] = "error" <=> failure # "none"
    /\ response'.status = IF failure # "none" THEN "error" ELSE "ok"
    /\ response'.closed = "clean" /\ response'.trailers = response.trailers
<1> SUFFICES ASSUME TypeOK, ClosesBare
             PROVE  /\ Len(response'.frames) = 1
                    /\ response'.frames[1] \in {"message", "error"}
                    /\ response'.frames[1] = "error" <=> failure # "none"
                    /\ response'.status = IF failure # "none" THEN "error" ELSE "ok"
                    /\ response'.closed = "clean" /\ response'.trailers = response.trailers
  OBVIOUS
<1>1. PICK f \in {"message", "error"} :
        /\ f = "error" <=> failure # "none"
        /\ response' = [response EXCEPT !.status = IF f = "error" THEN "error" ELSE "ok",
                                        !.closed = "clean", !.frames = <<f>>]
  BY DEF ClosesBare
<1>2. /\ response'.frames = <<f>> /\ response'.status = IF f = "error" THEN "error" ELSE "ok"
      /\ response'.closed = "clean" /\ response'.trailers = response.trailers
  BY <1>1 DEF TypeOK
<1>3. Len(<<f>>) = 1 /\ <<f>>[1] = f
  OBVIOUS
<1>4. QED
  BY <1>1, <1>2, <1>3

\* How many frames there are.
LEMMA ServerCountInv ==
  IInv /\ Server => CountInv'
<1> SUFFICES ASSUME IInv, Server
             PROVE  CountInv'
  OBVIOUS
<1>0. TypeOK /\ ServerInv /\ CountInv /\ Len(response.frames) \in Nat /\ outputs \in Nat
  BY LenProperties DEF IInv, TypeOK
<1>1. CASE S!Handle
  BY <1>0, <1>1 DEF TypeOK, ServerInv, CountInv, Expected, Marked, S!Handle, S!MarksEnd, S!Bare
<1>2. CASE S!SkipEnd \/ S!Input1 \/ S!Input2
  BY <1>0, <1>2 DEF TypeOK, ServerInv, CountInv, Expected, Marked, S!SkipEnd, S!Input1,
     S!Input2,
     S!Fail, S!MarksEnd, S!Bare, S!PC
<1>3. CASE S!ImplReads \/ S!ImplYields \/ S!ImplReturns \/ S!ImplThrows
  BY <1>0, <1>3 DEF TypeOK, ServerInv, CountInv, Expected, Marked, S!ImplReads, S!ImplYields,
     S!ImplReturns, S!ImplThrows, S!Fail, S!MarksEnd, S!Bare, S!PC
<1>4. CASE S!SerializeFails \/ S!CompressFails \/ S!WriteFails \/ S!Final
  <2>1. response' = response /\ outputs' = outputs /\ opt' = opt
    BY <1>4 DEF S!SerializeFails, S!CompressFails, S!WriteFails, S!Final
  <2>2. CASE S!SerializeFails
    BY <1>0, <2>1, <2>2 DEF TypeOK, CountInv, Expected, Marked, S!SerializeFails, S!Fail,
       S!MarksEnd, S!Bare
  <2>3. CASE S!CompressFails
    BY <1>0, <2>1, <2>3 DEF TypeOK, ServerInv, CountInv, Expected, Marked, S!CompressFails,
       S!Fail, S!MarksEnd, S!Bare
  <2>4. CASE S!WriteFails
    BY <1>0, <2>1, <2>4 DEF TypeOK, CountInv, Expected, Marked, S!WriteFails, S!MarksEnd, S!Bare
  <2>5. CASE S!Final
    BY <1>0, <2>1, <2>5 DEF TypeOK, ServerInv, CountInv, Expected, Marked, S!Final, S!Verdict,
       S!MarksEnd, S!Bare, S!PC
  <2>6. QED
    BY <1>4, <2>2, <2>3, <2>4, <2>5
<1>5. CASE S!Write
  BY <1>0, <1>5 DEF TypeOK, ServerInv, CountInv, Expected, Marked, S!Write, S!AfterWrite,
     S!MarksEnd, S!Bare, S!PC
<1>6. CASE S!Close
  BY <1>0, <1>6 DEF TypeOK, ServerInv, CountInv, Expected, Marked, S!Close, S!MarksEnd,
     S!Bare, S!PC
<1>7. QED
  BY <1>1, <1>2, <1>3, <1>4, <1>5, <1>6 DEF Server, S!Server

\* Messages stay where they are, and nothing follows a verdict.
LEMMA ServerFramesInv ==
  IInv /\ Server => FramesInv'
<1> SUFFICES ASSUME IInv, Server
             PROVE  FramesInv'
  OBVIOUS
<1>0. TypeOK /\ ServerInv /\ CountInv /\ FramesInv /\ outputs \in Nat /\ outputs' \in Nat
      /\ Len(response.frames) \in Nat /\ opt' = opt
  BY LenProperties, ServerTypeOK, ServerKeeps DEF IInv, TypeOK
\* What a frame that is there already depends on.
<1>1. /\ outputs' >= outputs
      /\ Marked => outputs' = outputs /\ failure' = failure /\ Marked'
      /\ failure # "none" => failure' # "none"
  <2>1. CASE S!Handle \/ S!Write \/ S!Close
    BY <1>0, <2>1 DEF TypeOK, ServerInv, Marked, S!Handle, S!Write, S!Close, S!AfterWrite,
       S!MarksEnd, S!Bare
  <2>2. CASE S!SkipEnd \/ S!Input1 \/ S!Input2
    BY <1>0, <2>2 DEF TypeOK, Marked, S!SkipEnd, S!Input1, S!Input2, S!Fail, S!MarksEnd, S!Bare
  <2>3. CASE S!ImplReads \/ S!ImplYields \/ S!ImplReturns \/ S!ImplThrows
    BY <1>0, <2>3 DEF TypeOK, ServerInv, Marked, S!ImplReads, S!ImplYields, S!ImplReturns,
       S!ImplThrows, S!Fail, S!MarksEnd, S!Bare, S!PC
  <2>4. CASE S!SerializeFails \/ S!CompressFails \/ S!WriteFails \/ S!Final
    BY <1>0, <2>4 DEF TypeOK, ServerInv, Marked, S!SerializeFails, S!CompressFails,
       S!WriteFails, S!Final, S!Fail, S!MarksEnd, S!Bare, S!PC
  <2>5. QED
    BY <2>1, <2>2, <2>3, <2>4 DEF Server, S!Server
<1>2. S!Bare' = S!Bare
  BY <1>0 DEF S!Bare
<1>3. CASE response'.frames = response.frames
  <2>1. SUFFICES ASSUME NEW n \in 1..Len(response.frames)
                 PROVE  /\ response.frames[n] = "message" => n <= outputs'
                        /\ response.frames[n] = "ok" =>
                             /\ n = Len(response.frames) /\ n = outputs' + 1
                             /\ Marked' /\ failure' = "none"
                        /\ response.frames[n] = "error" =>
                             n = Len(response.frames) /\ failure' # "none" /\ (Marked' \/ S!Bare)
    BY <1>2, <1>3 DEF FramesInv
  <2>2. /\ response.frames[n] = "message" => n <= outputs
        /\ response.frames[n] = "ok" =>
             n = Len(response.frames) /\ n = outputs + 1 /\ Marked /\ failure = "none"
        /\ response.frames[n] = "error" =>
             n = Len(response.frames) /\ failure # "none" /\ (Marked \/ S!Bare)
    BY <1>0 DEF FramesInv
  <2>3. n <= outputs => n <= outputs'
    BY <1>0, <1>1
  <2>4. QED
    BY <1>1, <2>2, <2>3
<1>4. CASE Writes
  <2>1. /\ outputs' = outputs /\ failure' = failure /\ ~Marked /\ ~S!Bare
        /\ frame # "message" => S!MarksEnd /\ Marked' /\ frame \in {"ok", "error"}
        /\ frame = "ok" => failure = "none"
        /\ frame = "error" => failure # "none"
        /\ Len(response.frames) + 1 <= outputs + (IF frame = "message" THEN 0 ELSE 1)
        /\ failure # "error" /\ response.closed = "no" =>
             Len(response.frames) + 1 = outputs + (IF frame = "message" THEN 0 ELSE 1)
    BY <1>0, <1>4 DEF TypeOK, ServerInv, CountInv, Expected, Marked, Writes, S!Write,
       S!AfterWrite, S!Verdict, S!MarksEnd, S!Bare, S!PC
  <2>2. QED
    BY <1>0, <1>1, <1>2, <1>4, <2>1, WritesFields DEF FramesInv, Writes, S!Write
<1>5. CASE ClosesBare
  <2>1. outputs' = outputs /\ failure' = failure /\ S!Bare
        /\ (failure = "none" => outputs = 1)
    BY <1>0, <1>5 DEF TypeOK, ServerInv, ClosesBare, S!Close, S!Bare, S!ReturnsOne
  <2>2. QED
    <3>1. \A n \in 1..Len(response'.frames) : n = 1
      BY <1>0, <1>5, ClosesBareFields
    <3>2. /\ response'.frames[1] \in {"message", "error"}
          /\ response'.frames[1] = "error" <=> failure # "none"
          /\ Len(response'.frames) = 1
      BY <1>0, <1>5, ClosesBareFields
    <3>3. QED
      BY <1>2, <2>1, <3>1, <3>2 DEF FramesInv
<1>6. QED
  <2>1. CASE Rejects \/ ClosesStream
    BY <1>0, <1>3, <2>1 DEF TypeOK, Rejects, ClosesStream
  <2>2. QED
    BY <1>3, <1>4, <1>5, <2>1, ServerResponds

\* Nothing is written after the verdict, and the response is not closed without it.
LEMMA ServerVerdictInv ==
  IInv /\ Server => VerdictInv'
<1> SUFFICES ASSUME IInv, Server, Marked', response'.closed # "cut"
             PROVE  /\ Len(response'.frames) > 0
                    /\ response'.frames[Len(response'.frames)] \in {"ok", "error"}
  BY DEF VerdictInv
<1>0. TypeOK /\ ServerInv /\ VerdictInv /\ opt' = opt
  BY ServerKeeps DEF IInv, Server
<1>1. S!MarksEnd /\ ~S!Bare /\ opt.accept # "refused" /\ serverPc' \in {"close", "ended"}
  BY <1>0 DEF Marked, S!MarksEnd, S!Bare
<1>2. CASE S!Write
  <2>1. frame \in {"ok", "error"}
    BY <1>0, <1>1, <1>2 DEF TypeOK, ServerInv, S!Write, S!AfterWrite
  <2>2. response' = [response EXCEPT !.status = "ok", !.frames = Append(@, frame)]
    BY <1>1, <1>2 DEF S!Write
  <2>3. Writes
    BY <1>1, <1>2, <2>2 DEF Writes
  <2>4. QED
    BY <1>0, <2>1, <2>3, WritesFields
<1>3. CASE S!Close
  <2>1. Marked /\ response.closed # "cut"
    BY <1>1, <1>3 DEF Marked, S!Close
  <2>2. response'.frames = response.frames
    BY <1>0, <1>1, <1>3 DEF TypeOK, S!Close, S!MarksEnd
  <2>3. QED
    BY <1>0, <2>1, <2>2 DEF VerdictInv
<1>4. CASE S!Handle \/ Inside
  BY <1>0, <1>1, <1>4 DEF Inside, TypeOK, ServerInv, S!Handle, S!SkipEnd, S!Input1, S!Input2,
     S!ImplReads, S!ImplYields, S!ImplReturns, S!ImplThrows, S!SerializeFails,
     S!CompressFails, S!WriteFails, S!Final, S!Fail
<1>5. QED
  BY <1>2, <1>3, <1>4, ServerActions

\* Status and trailers tell the truth.
LEMMA ServerStatusInv ==
  IInv /\ Server => StatusInv'
<1> SUFFICES ASSUME IInv, Server
             PROVE  StatusInv'
  OBVIOUS
<1>0. /\ TypeOK /\ ServerInv /\ CountInv /\ FramesInv /\ StatusInv
      /\ TypeOK' /\ ServerInv' /\ opt' = opt /\ S!Bare' = S!Bare
  BY ServerTypeOK, ServerServerInv, ServerKeeps DEF IInv, S!Bare
<1>1. /\ serverPc # "ended"
      /\ failure # "none" => failure' # "none"
      /\ Rejects \/ ClosesBare \/ ClosesStream => serverPc' = "ended" /\ failure' = failure
  <2>1. CASE S!Handle \/ S!Write \/ S!Close
    BY <2>1 DEF Rejects, ClosesBare, ClosesStream, S!Handle, S!Write, S!Close
  <2>2. CASE Inside
    BY <2>2 DEF Inside, S!SkipEnd, S!Input1, S!Input2, S!ImplReads, S!ImplYields,
     S!ImplReturns, S!ImplThrows, S!SerializeFails, S!CompressFails, S!WriteFails, S!Final,
     S!Fail, Rejects, ClosesBare, ClosesStream, S!Handle, S!Close
  <2>3. QED
    BY <2>1, <2>2, ServerActions
<1>2. response.trailers = "none" /\ response.closed # "clean"
  BY <1>0, <1>1 DEF StatusInv
<1>3. CASE response' = response
  BY <1>0, <1>1, <1>2, <1>3 DEF StatusInv
<1>4. CASE Rejects
  BY <1>0, <1>1, <1>2, <1>4 DEF TypeOK, StatusInv, Rejects, S!Handle
<1>5. CASE Writes
  BY <1>0, <1>1, <1>2, <1>5, WritesFields DEF TypeOK, StatusInv, Writes
<1>6. CASE ClosesBare
  BY <1>0, <1>1, <1>2, <1>6, ClosesBareFields DEF TypeOK, ServerInv, StatusInv, ClosesBare,
     S!Close, S!Bare
<1>7. CASE ClosesStream
  BY <1>0, <1>1, <1>2, <1>7 DEF TypeOK, StatusInv, ClosesStream
<1>8. QED
  BY <1>3, <1>4, <1>5, <1>6, <1>7, ServerResponds

\* What the client has read is there still.
LEMMA ServerClientInv ==
  IInv /\ Server => ClientInv'
<1> SUFFICES ASSUME IInv, Server
             PROVE  ClientInv'
  OBVIOUS
<1>0. TypeOK /\ ServerInv /\ StatusInv /\ ClientInv /\ opt' = opt /\ S!Bare' = S!Bare
      /\ UNCHANGED clientVars
  BY ServerKeeps DEF IInv, S!Bare
<1>1. CASE response' = response
  BY <1>0, <1>1 DEF ClientInv, clientVars
<1>2. CASE Rejects
  BY <1>0, <1>2 DEF TypeOK, ClientInv, StatusInv, clientVars, Rejects, S!Handle
<1>3. CASE Writes
  BY <1>0, <1>3, WritesFields DEF TypeOK, ClientInv, clientVars, Writes
<1>4. CASE ClosesBare
  BY <1>0, <1>4 DEF TypeOK, ClientInv, StatusInv, clientVars, ClosesBare, S!Close
<1>5. CASE ClosesStream
  BY <1>0, <1>5 DEF TypeOK, ClientInv, clientVars, ClosesStream
<1>6. QED
  BY <1>1, <1>2, <1>3, <1>4, <1>5, ServerResponds

-----------------------------------------------------------------------------
(* The steps of the client, and of the connection.                         *)

LEMMA ClientKeeps ==
  Client => UNCHANGED <<opt, response, serverVars>>
BY DEF Client, C!Reader, C!ReadHeader, C!LoseHeader, C!ReadErrorBody, C!ReadMessage,
   C!ReadGarbled, C!ReadEnd, C!ReadClose, C!ReadCut

\* What comes next, of all a server of this repository writes.
LEMMA WhatComes ==
  IInv /\ C!HasFrame =>
    /\ read \in Nat /\ Len(response.frames) \in Nat /\ read + 1 \in 1..Len(response.frames)
    /\ C!Coming \in {"message", "ok", "error"}
    /\ ended = "no" /\ Len(accepted) = read
    /\ outcome = "open" /\ response.status = "ok" /\ opt.accept # "refused"
    /\ C!Coming = "message" => read + 1 <= outputs
    /\ C!Coming = "error" => failure # "none"
<1> SUFFICES ASSUME IInv, C!HasFrame
             PROVE  /\ read \in Nat /\ Len(response.frames) \in Nat
                    /\ read + 1 \in 1..Len(response.frames)
                    /\ C!Coming \in {"message", "ok", "error"}
                    /\ ended = "no" /\ Len(accepted) = read
                    /\ outcome = "open" /\ response.status = "ok" /\ opt.accept # "refused"
                    /\ C!Coming = "message" => read + 1 <= outputs
                    /\ C!Coming = "error" => failure # "none"
  OBVIOUS
<1>1. /\ clientPc = "body" /\ read < Len(response.frames) /\ outcome = "open"
      /\ response.status = "ok" /\ opt.accept # "refused"
  BY DEF C!HasFrame, IInv, TypeOK, ClientInv, StatusInv
<1>2. response.frames \in Seq({"message", "ok", "error"}) /\ read \in 0..Len(response.frames)
  BY DEF IInv, TypeOK
<1>3. Len(response.frames) \in Nat
  BY <1>2, LenProperties
<1>4. read \in Nat /\ read + 1 \in 1..Len(response.frames)
  BY <1>1, <1>2, <1>3
<1>5. C!Coming \in {"message", "ok", "error"}
  BY <1>2, <1>4, ElementOfSeq DEF C!Coming
<1>6. ended = "no"
  <2>1. SUFFICES ASSUME ended # "no"
                 PROVE  FALSE
    OBVIOUS
  <2>2. read > 0 /\ response.frames[read] = ended /\ ended \in {"ok", "error"}
    BY <1>1, <2>1 DEF IInv, TypeOK, ClientInv
  <2>3. read \in 1..Len(response.frames)
    BY <1>2, <1>3, <2>2
  <2>4. read = Len(response.frames)
    BY <2>2, <2>3 DEF IInv, FramesInv
  <2>5. QED
    BY <1>1, <1>3, <2>4
<1>7. Len(accepted) = read
  BY <1>1, <1>6 DEF IInv, ClientInv
<1>8. /\ C!Coming = "message" => read + 1 <= outputs
      /\ C!Coming = "error" => failure # "none"
  BY <1>4 DEF IInv, FramesInv, C!Coming
<1>9. QED
  BY <1>1, <1>3, <1>4, <1>5, <1>6, <1>7, <1>8

\* When the implementation counts as failed, and as successful.
HasFailed == failure # "none" \/ (serverPc = "ended" /\ opt.accept = "refused")

HasSucceeded ==
  /\ failure = "none" /\ opt.accept # "refused"
  /\ serverPc \in {"final", "close", "ended"} \/ frame = "ok"

\* A client that has read all of a clean response, and found no error in it, has
\* all that a successful implementation produced.
LEMMA SuccessIsJust ==
  IInv /\ C!ReadClose /\ C!Verdict = "ok" => HasSucceeded /\ ~HasFailed /\ Len(accepted) = outputs
<1> SUFFICES ASSUME IInv, C!ReadClose, C!Verdict = "ok"
             PROVE  HasSucceeded /\ ~HasFailed /\ Len(accepted) = outputs
  OBVIOUS
<1>0. /\ TypeOK /\ ServerInv /\ StatusInv
      /\ read \in Nat /\ outputs \in Nat /\ Len(response.frames) \in Nat
  BY LenProperties DEF IInv, TypeOK
<1>1. /\ read = Len(response.frames) /\ response.closed = "clean" /\ response.status = "ok"
      /\ Len(accepted) = IF ended = "no" THEN read ELSE read - 1
      /\ ended # "no" => read > 0 /\ response.frames[read] = ended
      /\ serverPc = "ended" /\ opt.accept # "refused" /\ frame = "none"
  BY <1>0 DEF IInv, ServerInv, StatusInv, ClientInv, C!ReadClose, S!PC
\* The verdict that ends the body.
<1>2. ended # "no" => /\ ended \in {"ok", "error"} /\ (S!MarksEnd \/ S!Bare)
                      /\ ended = "ok" => read = outputs + 1 /\ failure = "none" /\ S!MarksEnd
                      /\ ended = "error" => failure # "none"
  <2>1. SUFFICES ASSUME ended # "no"
                 PROVE  /\ ended \in {"ok", "error"} /\ (S!MarksEnd \/ S!Bare)
                        /\ ended = "ok" => read = outputs + 1 /\ failure = "none" /\ S!MarksEnd
                        /\ ended = "error" => failure # "none"
    OBVIOUS
  <2>2. read \in 1..Len(response.frames) /\ response.frames[read] = ended
    BY <1>0, <1>1, <2>1
  <2>3. ended \in {"ok", "error"}
    BY <1>0, <2>1 DEF TypeOK
  <2>4. QED
    BY <2>2, <2>3 DEF IInv, FramesInv, Marked
<1>3. CASE S!Bare
  <2>1. failure = "none" /\ outputs = 1 /\ read = 1
    BY <1>0, <1>1, <1>3 DEF ServerInv, StatusInv, S!Bare, S!ReturnsOne
  <2>2. ended = "no"
    BY <1>2, <1>3, <2>1 DEF S!MarksEnd
  <2>3. QED
    BY <1>1, <2>1, <2>2 DEF HasSucceeded, HasFailed
<1>4. CASE S!MarksEnd
  <2>1. ended # "no" /\ ended # "error"
    BY <1>1, <1>4 DEF S!MarksEnd, S!Bare, C!Verdict, C!MarksEnd, C!Bare, C!Unary,
       C!TrailersOnly,
       C!FoundStatus
  <2>2. read = outputs + 1 /\ failure = "none"
    BY <1>2, <2>1
  <2>3. read - 1 = outputs
    BY <1>0, <2>2
  <2>4. QED
    BY <1>1, <2>1, <2>2, <2>3 DEF HasSucceeded, HasFailed
<1>5. CASE ~S!Bare /\ ~S!MarksEnd
  <2>1. opt.protocol = "grpc" /\ ended = "no"
    BY <1>2, <1>5 DEF S!MarksEnd
  <2>2. response.trailers # "error"
    BY <1>1, <2>1 DEF C!Verdict, C!MarksEnd, C!Bare, C!FoundStatus
  <2>3. response.trailers = "ok"
    BY <1>0, <1>1, <2>1, <2>2 DEF TypeOK, StatusInv
  <2>4. failure = "none"
    BY <1>0, <2>3 DEF StatusInv
  <2>5. Len(response.frames) = outputs
    BY <1>0, <1>1, <1>5, <2>4 DEF IInv, CountInv, Expected, Marked
  <2>6. QED
    BY <1>1, <2>1, <2>4, <2>5 DEF HasSucceeded, HasFailed
<1>6. QED
  BY <1>3, <1>4, <1>5

\* A method that returns one message has it, and the body its verdict: the client
\* misses neither, and finds nothing that it does not expect.
LEMMA ClientUnderstands ==
  IInv /\ Client => NoFalseAlarm'
<1> SUFFICES ASSUME IInv, Client, outcome' = "protocolError"
             PROVE  opt.accept = "refused"
  BY ClientKeeps DEF NoFalseAlarm
<1>0. /\ TypeOK /\ ServerInv /\ StatusInv /\ ClientInv
      /\ read \in Nat /\ outputs \in Nat /\ Len(response.frames) \in Nat
  BY LenProperties DEF IInv, TypeOK
<1>1. CASE outcome = "protocolError"
  BY <1>1 DEF IInv, NoFalseAlarm
<1>2. CASE C!ReadHeader /\ outcome # "protocolError"
  <2>1. response.status \in {"ok", "error", "rejected"}
    BY <1>0, <1>2 DEF TypeOK, C!ReadHeader
  <2>2. response.status = "rejected"
    BY <1>2, <2>1 DEF C!ReadHeader, C!Settle
  <2>3. QED
    BY <1>0, <2>2 DEF StatusInv
<1>3. CASE C!ReadErrorBody
  <2>1. opt.accept = "refused" \/ response.frames[1] = "error"
    BY <1>0, <1>3 DEF StatusInv, ClientInv, C!ReadErrorBody
  <2>2. QED
    BY <1>3, <2>1 DEF C!ReadErrorBody, C!Settle
<1>4. CASE C!ReadMessage /\ outcome # "protocolError"
  <2>1. /\ C!Coming = "message" /\ C!HasFrame
        /\ C!TrailersOnly \/ C!AfterEnd \/ (C!Unary /\ accepted # << >>)
    BY <1>4 DEF C!ReadMessage, C!Settle
  <2>2. /\ ended = "no" /\ Len(accepted) = read /\ read + 1 <= outputs
        /\ response.status = "ok"
    BY <2>1, WhatComes
  <2>3. C!Unary /\ accepted # << >>
    BY <2>1, <2>2 DEF C!TrailersOnly, C!FoundStatus, C!AfterEnd
  <2>4. outputs <= 1
    BY <1>0, <2>3 DEF ServerInv, S!ReturnsOne, C!Unary
  <2>5. Len(accepted) # 0
    BY <1>0, <2>3, EmptySeq DEF TypeOK
  <2>6. QED
    BY <1>0, <2>2, <2>4, <2>5
<1>5. CASE C!ReadGarbled
  BY <1>5, WhatComes DEF C!ReadGarbled
<1>6. CASE C!ReadEnd /\ outcome # "protocolError"
  <2>1. ended = "no" /\ response.status = "ok"
    BY <1>6, WhatComes DEF C!ReadEnd
  <2>2. ~C!TrailersOnly /\ ~C!ExtraEnd
    BY <2>1 DEF C!TrailersOnly, C!FoundStatus, C!ExtraEnd
  <2>3. QED
    BY <1>6, <2>2 DEF C!ReadEnd, C!Settle
<1>7. CASE C!ReadClose
  <2>1. /\ read = Len(response.frames) /\ response.closed = "clean" /\ response.status = "ok"
        /\ serverPc = "ended" /\ opt.accept # "refused"
        /\ ended = "no" /\ read > 0 => response.frames[read] = "message"
    BY <1>0, <1>7 DEF ServerInv, StatusInv, ClientInv, C!ReadClose
  <2>2. CASE C!Verdict = "ok"
    <3>1. opt.kind \in {"unary", "clientStreaming"} /\ accepted = << >>
      BY <1>7, <2>2 DEF C!ReadClose, C!Settle
    <3>2. HasSucceeded /\ Len(accepted) = outputs
      BY <1>7, <2>2, SuccessIsJust
    <3>3. outputs = 1
      BY <1>0, <2>1, <3>1, <3>2 DEF ServerInv, HasSucceeded, S!ReturnsOne
    <3>4. QED
      BY <3>1, <3>2, <3>3
  <2>3. CASE C!Verdict = "protocolError"
    <3>1. S!MarksEnd /\ ended = "no"
      BY <2>3 DEF C!Verdict, C!MarksEnd, C!Bare, C!Unary, S!MarksEnd, S!Bare
    <3>2. Len(response.frames) > 0 /\ response.frames[Len(response.frames)] \in {"ok", "error"}
      BY <2>1, <3>1 DEF IInv, VerdictInv, Marked
    <3>3. QED
      BY <1>0, <2>1, <3>1, <3>2
  <2>4. QED
    BY <1>7, <2>2, <2>3 DEF C!ReadClose, C!Settle
<1>8. CASE C!LoseHeader \/ C!ReadCut
  BY <1>8 DEF C!LoseHeader, C!ReadCut, C!Settle
<1>9. QED
  BY <1>1, <1>2, <1>3, <1>4, <1>5, <1>6, <1>7, <1>8 DEF Client, C!Reader

LEMMA ClientIInv ==
  IInv /\ Client => IInv'
<1> SUFFICES ASSUME IInv, Client
             PROVE  IInv'
  OBVIOUS
<1>0. /\ TypeOK /\ ClientInv /\ Len(response.frames) \in Nat
      /\ opt' = opt /\ response' = response /\ UNCHANGED serverVars
  BY ClientKeeps, LenProperties DEF IInv, TypeOK
<1>1. ServerInv' /\ CountInv' /\ FramesInv' /\ VerdictInv' /\ StatusInv'
  BY <1>0 DEF IInv, ServerInv, CountInv, FramesInv, VerdictInv, StatusInv, Expected, Marked,
     serverVars, S!MarksEnd, S!Bare, S!Verdict, S!ReturnsOne
<1>2. /\ clientPc' \in {"header", "errorBody", "body", "settled"}
      /\ read' \in 0..Len(response.frames)
      /\ accepted' \in Seq(Nat)
      /\ ended' \in {"no", "ok", "error"}
      /\ outcome' \in C!Outcome
      /\ clientPc' = "settled" <=> outcome' # "open"
      /\ ClientInv'
  <2>1. CASE C!ReadHeader
    <3>1. read = 0 /\ accepted = << >> /\ ended = "no" /\ outcome = "open"
      BY <1>0, <2>1 DEF TypeOK, ClientInv, C!ReadHeader
    <3>2. UNCHANGED <<read, accepted, ended>>
      BY <2>1 DEF C!ReadHeader
    <3>3. \/ clientPc' = "body" /\ response.status = "ok" /\ outcome' = outcome
          \/ clientPc' = "errorBody" /\ response.status = "error" /\ S!Bare /\ outcome' = outcome
          \/ clientPc' = "settled" /\ outcome' \in {"serverError", "protocolError"}
      <4>1. response.status \in {"ok", "error", "rejected"}
        BY <1>0, <2>1 DEF TypeOK, C!ReadHeader
      <4>2. QED
        BY <2>1, <4>1 DEF C!ReadHeader, C!Settle, C!Bare, C!Unary, S!Bare
    <3>4. S!Bare' = S!Bare
      BY <1>0 DEF S!Bare
    <3>5. QED
      BY <1>0, <3>1, <3>2, <3>3, <3>4 DEF TypeOK, ClientInv, C!Outcome
  <2>2. CASE C!LoseHeader
    BY <1>0, <2>2 DEF TypeOK, ClientInv, C!LoseHeader, C!Settle, C!Outcome
  <2>3. CASE C!ReadErrorBody
    <3>1. opt.accept # "refused" /\ Len(response.frames) = 1
      BY <1>0, <2>3 DEF IInv, StatusInv, ClientInv, C!ReadErrorBody
    <3>2. QED
      BY <1>0, <2>3, <3>1 DEF TypeOK, ClientInv, C!ReadErrorBody, C!Settle, C!Outcome
  <2>4. CASE C!ReadMessage
    <3>1. /\ read \in Nat /\ read + 1 \in 1..Len(response.frames) /\ read' = read + 1
          /\ ended = "no" /\ Len(accepted) = read /\ outcome = "open" /\ response.status = "ok"
          /\ C!HasFrame
      BY <2>4, WhatComes DEF C!ReadMessage
    <3>2. /\ Append(accepted, read + 1) \in Seq(Nat)
          /\ Len(Append(accepted, read + 1)) = read + 1
          /\ response.frames[read + 1] = "message"
      BY <1>0, <2>4, <3>1, AppendProperties DEF TypeOK, C!ReadMessage, C!Coming
    <3>3. read' \in 0..Len(response.frames)
      BY <1>0, <3>1
    <3>4. CASE accepted' = Append(accepted, read + 1) /\ UNCHANGED <<clientPc, outcome>>
      BY <1>0, <2>4, <3>1, <3>2, <3>3, <3>4 DEF TypeOK, ClientInv, C!ReadMessage, C!HasFrame
    <3>5. CASE C!Settle("protocolError") /\ UNCHANGED accepted
      BY <1>0, <2>4, <3>1, <3>3, <3>5 DEF TypeOK, ClientInv, C!ReadMessage, C!Settle, C!Outcome
    <3>6. QED
      BY <2>4, <3>4, <3>5 DEF C!ReadMessage
  <2>5. CASE C!ReadGarbled
    BY <2>5, WhatComes DEF C!ReadGarbled
  <2>6. CASE C!ReadEnd
    <3>1. /\ read \in Nat /\ read + 1 \in 1..Len(response.frames) /\ read' = read + 1
          /\ ended = "no" /\ Len(accepted) = read /\ response.status = "ok"
          /\ C!HasFrame /\ accepted' = accepted
      BY <2>6, WhatComes DEF C!ReadEnd
    <3>2. read' \in 0..Len(response.frames) /\ read' > 0 /\ read' - 1 = read
      BY <1>0, <3>1
    <3>3. CASE UNCHANGED <<clientPc, outcome>> /\ ended' = C!Coming
      <4>1. ended' \in {"ok", "error"} /\ response.frames[read'] = ended'
        BY <2>6, <3>1, <3>3, WhatComes DEF C!ReadEnd, C!Coming
      <4>2. Len(accepted') = read' - 1
        BY <3>1, <3>2
      <4>3. clientPc' = "body"
        BY <3>1, <3>3 DEF C!HasFrame
      <4>4. QED
        BY <1>0, <3>1, <3>2, <3>3, <4>1, <4>2, <4>3 DEF TypeOK, ClientInv
    <3>4. CASE (C!Settle("protocolError") \/ C!Settle("serverError")) /\ UNCHANGED ended
      BY <1>0, <3>1, <3>2, <3>4 DEF TypeOK, ClientInv, C!Settle, C!Outcome
    <3>5. QED
      BY <2>6, <3>3, <3>4 DEF C!ReadEnd
  <2>7. CASE C!ReadClose \/ C!ReadCut
    BY <1>0, <2>7 DEF TypeOK, ClientInv, C!ReadClose, C!ReadCut, C!Settle, C!Outcome, C!Verdict
  <2>8. QED
    BY <2>1, <2>2, <2>3, <2>4, <2>5, <2>6, <2>7 DEF Client, C!Reader
<1>3. TypeOK'
  BY <1>0, <1>2 DEF TypeOK, serverVars
<1>4. NoFalseAlarm'
  BY <1>0, ClientUnderstands
<1>5. QED
  BY <1>1, <1>2, <1>3, <1>4 DEF IInv

\* What is lost of the response is its end.
LEMMA ConnectionLostIInv ==
  IInv /\ ConnectionLost => IInv'
<1> SUFFICES ASSUME IInv, ConnectionLost
             PROVE  IInv'
  OBVIOUS
<1>0. /\ TypeOK /\ response.frames \in Seq({"message", "ok", "error"})
      /\ Len(response.frames) \in Nat /\ read \in Nat
      /\ opt' = opt /\ UNCHANGED serverVars /\ UNCHANGED clientVars
  BY LenProperties DEF IInv, TypeOK, ConnectionLost
<1>1. PICK n \in read..Len(response.frames) :
        response' = [response EXCEPT !.closed = "cut", !.frames = SubSeq(@, 1, n),
                                     !.status = IF clientPc = "header" /\ n = 0 THEN "none" ELSE @,
                                     !.trailers = "none"]
  BY DEF ConnectionLost
<1>2. n \in Nat /\ read <= n /\ n <= Len(response.frames)
  BY <1>0, <1>1
<1>3. /\ response'.frames = SubSeq(response.frames, 1, n)
      /\ response'.closed = "cut" /\ response'.trailers = "none"
      /\ response'.status = IF clientPc = "header" /\ n = 0 THEN "none" ELSE response.status
  BY <1>0, <1>1 DEF TypeOK
<1>4. /\ response'.frames \in Seq({"message", "ok", "error"})
      /\ Len(response'.frames) = n
      /\ \A i \in 1..n : response'.frames[i] = response.frames[i]
  <2>1. /\ \A i \in 1..n : i \in 1..Len(response.frames)
        /\ 1 \in 1..(Len(response.frames) + 1) /\ n \in 0..Len(response.frames)
        /\ (IF 1 <= n THEN n - 1 + 1 ELSE 0) = n
        /\ n - 1 + 1 = n /\ \A i \in 1..n : 1 + i - 1 = i
    BY <1>0, <1>2
  <2>2. QED
    BY <1>0, <1>3, <2>1, SubSeqProperties
<1>5. TypeOK'
  <2>1. /\ response'.status \in {"none", "ok", "error", "rejected"}
        /\ read \in 0..Len(response'.frames)
    BY <1>0, <1>2, <1>3, <1>4 DEF TypeOK
  <2>2. response' \in [status : {"none", "ok", "error", "rejected"},
                       frames : Seq({"message", "ok", "error"}),
                       closed : {"no", "clean", "cut"},
                       trailers : {"none", "ok", "error"}]
    BY <1>0, <1>1, <1>3, <1>4, <2>1 DEF TypeOK
  <2>3. QED
    BY <1>0, <2>1, <2>2 DEF TypeOK, serverVars, clientVars
<1>6. ServerInv'
  BY <1>0 DEF IInv, ServerInv, serverVars, S!MarksEnd, S!Bare, S!Verdict, S!ReturnsOne
<1>7. Expected' = Expected /\ Marked' = Marked /\ S!Bare' = S!Bare
  BY <1>0 DEF Expected, Marked, serverVars, S!MarksEnd, S!Bare
<1>8. CountInv'
  <2>1. CASE S!Bare /\ serverPc # "ended"
    <3>1. n = 0
      BY <1>0, <1>2, <2>1 DEF IInv, CountInv
    <3>2. QED
      BY <1>0, <1>4, <1>7, <2>1, <3>1, EmptySeq DEF CountInv, serverVars
  <2>2. CASE ~S!Bare
    <3>1. Len(response.frames) <= Expected /\ Expected \in Int
      BY <1>0, <2>2 DEF IInv, CountInv, TypeOK, Expected
    <3>2. Len(response'.frames) <= Expected
      BY <1>0, <1>2, <1>4, <3>1
    <3>3. QED
      BY <1>3, <1>7, <2>2, <3>2 DEF CountInv
  <2>3. CASE S!Bare /\ serverPc = "ended"
    BY <1>0, <1>7, <2>3 DEF CountInv, serverVars
  <2>4. QED
    BY <2>1, <2>2, <2>3
<1>9. FramesInv'
  <2>1. SUFFICES ASSUME NEW i \in 1..n
                 PROVE  /\ response.frames[i] = "message" => i <= outputs
                        /\ response.frames[i] = "ok" =>
                             i = n /\ i = outputs + 1 /\ Marked /\ failure = "none"
                        /\ response.frames[i] = "error" =>
                             i = n /\ failure # "none" /\ (Marked \/ S!Bare)
    BY <1>0, <1>4, <1>7 DEF FramesInv, serverVars
  <2>2. i \in 1..Len(response.frames) /\ (i = Len(response.frames) => i = n)
    BY <1>0, <1>2
  <2>3. QED
    BY <2>2 DEF IInv, FramesInv
<1>10. StatusInv'
  <2>1. /\ response'.status \in {"none", response.status}
        /\ \A i \in 1..n : i \in 1..Len(response.frames)
    BY <1>0, <1>2, <1>3
  <2>2. QED
    BY <1>0, <1>3, <1>4, <1>7, <2>1 DEF IInv, StatusInv, serverVars
<1>11. ClientInv'
  <2>1. read > 0 => response'.frames[read] = response.frames[read]
    BY <1>0, <1>2, <1>4
  <2>2. clientPc # "header" => response'.status = response.status
    BY <1>3
  <2>3. QED
    BY <1>0, <1>7, <2>1, <2>2 DEF IInv, ClientInv, clientVars
<1>12. VerdictInv' /\ NoFalseAlarm'
  BY <1>0, <1>3 DEF IInv, VerdictInv, NoFalseAlarm, clientVars
<1>13. QED
  BY <1>5, <1>6, <1>8, <1>9, <1>10, <1>11, <1>12 DEF IInv

LEMMA InitIInv ==
  Init => IInv
<1> SUFFICES ASSUME Init
             PROVE  IInv
  OBVIOUS
<1>1. /\ opt.protocol \in {"connect", "grpc", "grpc-web"} /\ opt.kind \in C!Kind
      /\ opt.accept \in {"yes", "refused", "badEncoding"}
  BY DEF Init
<1>2. response.frames = << >> /\ Len(response.frames) = 0 /\ accepted = << >>
  BY DEF Init, S!NoResponse
<1>3. TypeOK
  BY <1>1, <1>2 DEF Init, TypeOK, S!NoResponse, S!PC, C!Outcome
<1>4. ServerInv /\ CountInv /\ FramesInv
  BY <1>2 DEF Init, ServerInv, CountInv, FramesInv, Expected, Marked, S!MarksEnd, S!PC
<1>5. VerdictInv /\ StatusInv /\ ClientInv /\ NoFalseAlarm
  BY <1>2 DEF Init, VerdictInv, Marked, StatusInv, ClientInv, NoFalseAlarm, S!NoResponse
<1>6. QED
  BY <1>3, <1>4, <1>5 DEF IInv

LEMMA NextIInv ==
  IInv /\ [Next]_vars => IInv'
<1> SUFFICES ASSUME IInv, [Next]_vars
             PROVE  IInv'
  OBVIOUS
<1>1. CASE Server
  <2>1. NoFalseAlarm'
    BY <1>1, ServerKeeps DEF IInv, NoFalseAlarm, clientVars
  <2>2. QED
    BY <1>1, <2>1, ServerTypeOK, ServerServerInv, ServerCountInv, ServerFramesInv,
       ServerVerdictInv, ServerStatusInv, ServerClientInv DEF IInv
<1>2. CASE Client
  BY <1>2, ClientIInv
<1>3. CASE ConnectionLost
  BY <1>3, ConnectionLostIInv
<1>4. CASE Send \/ EndRequest \/ UNCHANGED vars
  <2>1. opt' = opt /\ response' = response /\ UNCHANGED serverVars /\ UNCHANGED clientVars
    BY <1>4 DEF Send, EndRequest, vars
  <2>2. TypeOK' /\ ServerInv'
    BY <2>1 DEF IInv, TypeOK, ServerInv, serverVars, clientVars, S!MarksEnd, S!Bare, S!Verdict,
       S!ReturnsOne
  <2>3. CountInv' /\ FramesInv' /\ VerdictInv' /\ StatusInv'
    BY <2>1 DEF IInv, CountInv, FramesInv, VerdictInv, StatusInv, Expected, Marked, serverVars,
       S!MarksEnd, S!Bare
  <2>4. ClientInv' /\ NoFalseAlarm'
    BY <2>1 DEF IInv, ClientInv, NoFalseAlarm, clientVars, S!Bare
  <2>5. QED
    BY <2>2, <2>3, <2>4 DEF IInv
<1>5. QED
  BY <1>1, <1>2, <1>3, <1>4 DEF Next

\* All of a call's bookkeeping holds at every moment.
THEOREM Invariance == Spec => []IInv
BY InitIInv, NextIInv, PTL DEF Spec

-----------------------------------------------------------------------------
(* The refinement.                                                         *)

LEMMA FateCases ==
  /\ HasFailed => Fate = "failed"
  /\ HasSucceeded => Fate = "ok"
  /\ ~HasFailed /\ ~HasSucceeded => Fate = "running"
BY DEF Fate, HasFailed, HasSucceeded

LEMMA FateCasesNext ==
  /\ HasFailed' => Fate' = "failed"
  /\ HasSucceeded' => Fate' = "ok"
  /\ ~HasFailed' /\ ~HasSucceeded' => Fate' = "running"
BY DEF Fate, HasFailed, HasSucceeded

\* The implementation yields while it runs, and comes to its end once.
LEMMA ServerRefines ==
  IInv /\ Server => R!Yield \/ R!Finish \/ UNCHANGED R!vars
<1> SUFFICES ASSUME IInv, Server
             PROVE  R!Yield \/ R!Finish \/ UNCHANGED R!vars
  OBVIOUS
<1>0. TypeOK /\ ServerInv /\ opt' = opt
      /\ Len(accepted)' = Len(accepted) /\ ClientOutcome' = ClientOutcome
  BY ServerKeeps DEF IInv, ClientOutcome, clientVars
<1>1. CASE S!ImplYields
  <2>1. outputs' = outputs + 1 /\ ~HasFailed /\ ~HasSucceeded /\ ~HasFailed' /\ ~HasSucceeded'
    BY <1>0, <1>1 DEF TypeOK, ServerInv, S!ImplYields, S!PC, HasFailed, HasSucceeded
  <2>2. QED
    BY <1>0, <2>1, FateCases, FateCasesNext DEF R!Yield
<1>2. CASE ~S!ImplYields
  <2>1. /\ outputs' = outputs
        /\ HasFailed => HasFailed'
        /\ HasSucceeded => HasSucceeded'
    <3>1. CASE S!Handle \/ S!Write \/ S!Close
      BY <1>0, <3>1 DEF TypeOK, ServerInv, S!Handle, S!Write, S!AfterWrite, S!Close, S!PC,
         HasFailed, HasSucceeded
    <3>2. CASE S!SkipEnd \/ S!Input1 \/ S!Input2
      BY <1>0, <3>2 DEF TypeOK, ServerInv, S!SkipEnd, S!Input1, S!Input2, S!Fail, S!PC,
         HasFailed, HasSucceeded
    <3>3. CASE S!ImplReads \/ S!ImplReturns \/ S!ImplThrows
      BY <1>0, <3>3 DEF TypeOK, ServerInv, S!ImplReads, S!ImplReturns, S!ImplThrows, S!Fail,
         S!PC, HasFailed, HasSucceeded
    <3>4. CASE S!SerializeFails \/ S!WriteFails
      BY <1>0, <3>4 DEF TypeOK, ServerInv, S!SerializeFails, S!WriteFails, S!Fail, S!PC,
         HasFailed, HasSucceeded
    <3>5. CASE S!CompressFails \/ S!Final
      BY <1>0, <3>5 DEF TypeOK, ServerInv, S!CompressFails, S!Final, S!Verdict, S!Fail, S!PC,
         S!MarksEnd, S!Bare, HasFailed, HasSucceeded
    <3>6. QED
      BY <1>2, <3>1, <3>2, <3>3, <3>4, <3>5 DEF Server, S!Server
  <2>2. CASE HasFailed \/ HasSucceeded \/ (~HasFailed' /\ ~HasSucceeded')
    <3>1. Fate' = Fate
      BY <2>1, <2>2, FateCases, FateCasesNext DEF HasFailed, HasSucceeded
    <3>2. QED
      BY <1>0, <2>1, <3>1 DEF R!vars
  <2>3. CASE ~HasFailed /\ ~HasSucceeded /\ (HasFailed' \/ HasSucceeded')
    <3>1. Fate = "running" /\ Fate' \in {"ok", "failed"}
      BY <2>3, FateCases, FateCasesNext
    <3>2. QED
      BY <1>0, <2>1, <3>1 DEF R!Finish
  <2>4. QED
    BY <2>2, <2>3
<1>3. QED
  BY <1>1, <1>2

\* A client that is told of an error is told of one of the implementation.
LEMMA ReportIsJust ==
  IInv /\ Client /\ outcome' = "serverError" /\ outcome # outcome' => failure # "none"
<1> SUFFICES ASSUME IInv, Client, outcome' = "serverError", outcome # outcome'
             PROVE  failure # "none"
  OBVIOUS
<1>0. TypeOK /\ StatusInv /\ ClientInv
  BY DEF IInv
<1>1. CASE C!ReadHeader
  <2>1. response.status = "error" => C!Bare
    BY <1>0 DEF StatusInv, C!Bare, C!Unary, S!Bare
  <2>2. CASE response.status = "error"
    BY <1>1, <2>1, <2>2 DEF C!ReadHeader
  <2>3. CASE response.status # "error"
    <3>1. response.status \in {"ok", "rejected"}
      BY <1>0, <1>1, <2>3 DEF TypeOK, C!ReadHeader
    <3>2. QED
      BY <1>1, <3>1 DEF C!ReadHeader, C!Settle
  <2>4. QED
    BY <2>2, <2>3
<1>2. CASE C!ReadErrorBody
  <2>1. Len(response.frames) = 1 /\ response.frames[1] = "error"
    BY <1>0, <1>2 DEF StatusInv, ClientInv, C!ReadErrorBody, C!Settle
  <2>2. QED
    BY <2>1 DEF IInv, FramesInv
<1>3. CASE C!ReadEnd
  <2>1. C!Coming = "error"
    BY <1>3 DEF C!ReadEnd, C!Settle
  <2>2. QED
    BY <1>3, <2>1, WhatComes DEF C!ReadEnd
<1>4. CASE C!ReadClose
  <2>1. C!Verdict = "serverError"
    BY <1>4 DEF C!ReadClose, C!Settle
  <2>2. ended = "error" \/ response.trailers = "error"
    BY <2>1 DEF C!Verdict
  <2>3. CASE ended = "error"
    <3>1. Len(response.frames) \in Nat /\ read = Len(response.frames) /\ read > 0
          /\ response.frames[read] = "error"
      BY <1>0, <1>4, <2>3, LenProperties DEF TypeOK, ClientInv, C!ReadClose
    <3>2. QED
      BY <3>1 DEF IInv, FramesInv
  <2>4. QED
    BY <1>0, <2>2, <2>3 DEF StatusInv
<1>5. CASE C!LoseHeader \/ C!ReadMessage \/ C!ReadGarbled \/ C!ReadCut
  BY <1>5 DEF C!LoseHeader, C!ReadMessage, C!ReadGarbled, C!ReadCut, C!Settle
<1>6. QED
  BY <1>1, <1>2, <1>3, <1>4, <1>5 DEF Client, C!Reader

\* Fate is a matter of the server.
LEMMA FateStays ==
  opt' = opt /\ UNCHANGED serverVars => Fate' = Fate /\ outputs' = outputs
BY FateCases, FateCasesNext DEF HasFailed, HasSucceeded, serverVars

LEMMA ClientRefines ==
  IInv /\ Client => R!Deliver \/ R!Succeed \/ R!Report \/ R!Lose \/ UNCHANGED R!vars
<1> SUFFICES ASSUME IInv, Client
             PROVE  R!Deliver \/ R!Succeed \/ R!Report \/ R!Lose \/ UNCHANGED R!vars
  OBVIOUS
<1>0. Fate' = Fate /\ outputs' = outputs
  BY ClientKeeps, FateStays
<1>1. CASE C!ReadMessage /\ accepted' # accepted
  <2>1. /\ accepted' = Append(accepted, read + 1) /\ outcome' = outcome
        /\ outcome = "open" /\ Len(accepted) < outputs
    <3>1. C!Coming = "message" /\ C!HasFrame
      BY <1>1 DEF C!ReadMessage
    <3>2. Len(accepted) = read /\ read + 1 <= outputs /\ outcome = "open" /\ read \in Nat
          /\ outputs \in Nat
      BY <3>1, WhatComes DEF IInv, TypeOK
    <3>3. Len(accepted) < outputs
      BY <3>2
    <3>4. QED
      BY <1>1, <3>2, <3>3 DEF C!ReadMessage
  <2>2. accepted \in Seq(Nat) /\ read + 1 \in Nat
    BY DEF IInv, TypeOK
  <2>3. Len(accepted') = Len(accepted) + 1
    BY <2>1, <2>2, AppendProperties
  <2>4. ClientOutcome = "open" /\ ClientOutcome' = "open"
    BY <2>1 DEF ClientOutcome
  <2>5. R!Deliver
    BY <1>0, <2>1, <2>3, <2>4 DEF R!Deliver
  <2>6. QED
    BY <2>5
<1>2. CASE outcome' # outcome
  <2>1. outcome = "open" /\ accepted' = accepted
    <3>1. clientPc # "settled"
      BY <1>2 DEF Client, C!Reader, C!ReadHeader, C!LoseHeader, C!ReadErrorBody, C!ReadMessage,
         C!ReadGarbled, C!ReadEnd, C!ReadClose, C!ReadCut, C!HasFrame
    <3>2. accepted' = accepted
      BY <1>2 DEF Client, C!Reader, C!ReadHeader, C!LoseHeader, C!ReadErrorBody, C!ReadMessage,
         C!ReadGarbled, C!ReadEnd, C!ReadClose, C!ReadCut
    <3>3. QED
      BY <3>1, <3>2 DEF IInv, TypeOK
  <2>2. ClientOutcome = "open"
    BY <2>1 DEF ClientOutcome
  <2>3. outcome' \in {"ok", "serverError", "protocolError", "lost"}
    BY <1>2, <2>1, ClientIInv DEF IInv, TypeOK, C!Outcome
  <2>4. CASE outcome' = "ok"
    <3>1. C!ReadClose /\ C!Verdict = "ok"
      <4>1. ~C!ReadHeader
        <5>1. response.status \in {"none", "ok", "error", "rejected"}
          BY DEF IInv, TypeOK
        <5>2. QED
          BY <1>2, <2>4, <5>1 DEF C!ReadHeader, C!Settle
      <4>2. ~C!LoseHeader /\ ~C!ReadErrorBody /\ ~C!ReadCut
        BY <1>2, <2>4 DEF C!LoseHeader, C!ReadErrorBody, C!ReadCut, C!Settle
      <4>3. ~C!ReadMessage /\ ~C!ReadGarbled /\ ~C!ReadEnd
        BY <1>2, <2>4 DEF C!ReadMessage, C!ReadGarbled, C!ReadEnd, C!Settle
      <4>4. C!ReadClose
        BY <4>1, <4>2, <4>3 DEF Client, C!Reader
      <4>5. QED
        BY <2>4, <4>4 DEF C!ReadClose, C!Settle
    <3>2. Fate = "ok" /\ Len(accepted) = outputs
      BY <3>1, SuccessIsJust, FateCases
    <3>3. ClientOutcome' = "ok"
      BY <2>4 DEF ClientOutcome
    <3>4. R!Succeed
      BY <1>0, <2>1, <2>2, <3>2, <3>3 DEF R!Succeed
    <3>5. QED
      BY <3>4
  <2>5. CASE outcome' = "serverError"
    <3>1. Fate = "failed"
      BY <1>2, <2>5, ReportIsJust, FateCases DEF HasFailed
    <3>2. ClientOutcome' = "failed"
      BY <2>5 DEF ClientOutcome
    <3>3. R!Report
      BY <1>0, <2>1, <2>2, <3>1, <3>2 DEF R!Report
    <3>4. QED
      BY <3>3
  <2>6. CASE outcome' \in {"protocolError", "lost"}
    <3>1. ClientOutcome' = "lost"
      BY <2>6 DEF ClientOutcome
    <3>2. R!Lose
      BY <1>0, <2>1, <2>2, <3>1 DEF R!Lose
    <3>3. QED
      BY <3>2
  <2>7. QED
    BY <2>3, <2>4, <2>5, <2>6
<1>3. CASE accepted' = accepted /\ outcome' = outcome
  BY <1>0, <1>3 DEF R!vars, ClientOutcome
<1>4. accepted' = accepted \/ C!ReadMessage
  BY DEF Client, C!Reader, C!ReadHeader, C!LoseHeader, C!ReadErrorBody, C!ReadGarbled,
     C!ReadEnd, C!ReadClose, C!ReadCut
<1>5. QED
  BY <1>1, <1>2, <1>3, <1>4

LEMMA StepRefines ==
  IInv /\ [Next]_vars => [R!Next]_(R!vars)
<1> SUFFICES ASSUME IInv, [Next]_vars
             PROVE  R!Next \/ UNCHANGED R!vars
  BY DEF R!Next
<1>1. CASE Server
  BY <1>1, ServerRefines DEF R!Next
<1>2. CASE Client
  BY <1>2, ClientRefines DEF R!Next
<1>3. CASE Send \/ EndRequest \/ ConnectionLost \/ UNCHANGED vars
  <2>1. opt' = opt /\ UNCHANGED serverVars /\ UNCHANGED clientVars
    BY <1>3 DEF Send, EndRequest, ConnectionLost, vars
  <2>2. QED
    BY <2>1, FateStays DEF R!vars, ClientOutcome, clientVars
<1>4. QED
  BY <1>1, <1>2, <1>3 DEF Next

\* The client of this repository finds no fault with a server of this repository.
THEOREM PeersUnderstand == Spec => []NoFalseAlarm
<1>1. IInv => NoFalseAlarm
  BY DEF IInv
<1>2. QED
  BY <1>1, Invariance, PTL

\* Whatever is lost on the way, the caller gets what Rpc promises: no message of
\* which the implementation knows nothing, none left out, success only when it has
\* succeeded and all of its messages have come, its error only when it has failed.
THEOREM Implementation == Spec => ImplementsRpc
<1>1. Init => R!Init
  <2>1. SUFFICES ASSUME Init
                 PROVE  R!Init
    OBVIOUS
  <2>2. ~HasFailed /\ ~HasSucceeded
    BY <2>1 DEF Init, HasFailed, HasSucceeded
  <2>3. Len(accepted) = 0 /\ outputs = 0 /\ ClientOutcome = "open"
    BY <2>1 DEF Init, ClientOutcome
  <2>4. QED
    BY <2>2, <2>3, FateCases DEF R!Init
<1>2. QED
  BY <1>1, StepRefines, Invariance, PTL DEF Spec, ImplementsRpc, R!Spec
=============================================================================
