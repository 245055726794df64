-------------------------- MODULE ClientCall_proofs --------------------------
(***************************************************************************)
(* Proofs about ClientCall for responses of any length, from any server:   *)
(* its type invariant, and the three safety invariants of what a client    *)
(* makes of a response, from one inductive invariant.                      *)
(***************************************************************************)
EXTENDS ClientCall, SequenceTheorems, TLAPS

-----------------------------------------------------------------------------
(* The inductive invariant.                                                *)

Sent(f) == \E n \in 1..Len(response.frames) : response.frames[n] = f

\* What any server may send: the end of a stream is marked only where the protocol has
\* a frame for it, and trailers come last.
ResponseInv ==
  /\ response.trailers # "none" => opt.protocol = "grpc" /\ response.closed = "clean"
  /\ Sent("ok") \/ Sent("error") => MarksEnd \/ (Bare /\ response.status = "error")
  /\ Sent("noStatus") => opt.protocol = "grpc-web"
  /\ Bare /\ response.closed = "clean" => response.frames # << >>

\* The reader is in the body, or through with it.
InBody == pc = "body" \/ outcome = "ok"

Ordered == \A i, j \in DOMAIN accepted : i < j => accepted[i] < accepted[j]
MessagesRead == {n \in 1..read : response.frames[n] = "message"}

\* Where the reader is, and what it has.
ReaderInv ==
  /\ pc \in {"header", "errorBody"} => read = 0 /\ ended = "no" /\ accepted = << >>
  /\ pc = "errorBody" => Bare /\ response.status = "error"
  /\ InBody => response.status \in {"ok", "okStatus", "disguised"}
  /\ Len(accepted) <= read
  /\ InBody => Ordered /\ Range(accepted) = MessagesRead
  /\ Unary => Len(accepted) <= 1

\* What it remembers of the end of the stream is what it has read of it.
EndInv ==
  /\ ended = "ok" => HasRead("ok")
  /\ ended = "noStatus" => HasRead("noStatus")
  /\ ended = "error" => HasRead("error") /\ Unary
  /\ InBody /\ ended = "no" => ~HasRead("ok") /\ ~HasRead("noStatus") /\ ~HasRead("error")
  /\ InBody /\ ended \in {"ok", "noStatus"} => ~HasRead("error")

\* It has settled with a success only for a complete response with that verdict.
SuccessInv ==
  outcome = "ok" =>
    /\ response.closed = "clean" /\ read = Len(response.frames)
    /\ Verdict = "ok"
    /\ Unary => accepted # << >>

\* It has settled with a violation of the protocol only for a reason, which in a
\* complete response may be that something is missing.
FailureInv ==
  outcome = "protocolError" =>
    /\ response.status # "none"
    /\ response.status = "ok" /\ ~Bare =>
         \/ HasRead("garbled") \/ HasRead("ok") \/ HasRead("noStatus") \/ HasReadTwo("error")
         \/ Unary /\ HasReadTwo("message")
         \/ response.closed = "clean" /\ ~Sent("error") /\ response.trailers # "error"

IInv == TypeOK /\ ResponseInv /\ ReaderInv /\ EndInv /\ SuccessInv /\ FailureInv

-----------------------------------------------------------------------------
(* Facts that the steps below share.                                       *)

\* What an append does to the elements of a sequence.
LEMMA AppendRange ==
  ASSUME NEW S, NEW s \in Seq(S), NEW e \in S
  PROVE  Range(Append(s, e)) = Range(s) \cup {e}
<1>1. Len(s) \in Nat /\ DOMAIN s = 1..Len(s)
  BY LenProperties
<1>2. /\ Append(s, e) \in Seq(S)
      /\ Len(Append(s, e)) = Len(s) + 1
      /\ \A i \in 1..Len(s) : Append(s, e)[i] = s[i]
      /\ Append(s, e)[Len(s) + 1] = e
  BY AppendProperties
<1>3. DOMAIN Append(s, e) = DOMAIN s \cup {Len(s) + 1}
  <2>1. DOMAIN Append(s, e) = 1..(Len(s) + 1)
    BY <1>2, LenProperties
  <2>2. 1..(Len(s) + 1) = 1..Len(s) \cup {Len(s) + 1}
    BY <1>1
  <2>3. QED
    BY <1>1, <2>1, <2>2
<1>4. QED
  BY <1>1, <1>2, <1>3, Zenon DEF Range

\* A sequence of some is a sequence of more.
LEMMA SeqWidens ==
  ASSUME NEW S, NEW T, S \subseteq T, NEW s \in Seq(S)
  PROVE  s \in Seq(T)
OBVIOUS

\* What the type of the response says of its frames.
LEMMA Frames ==
  TypeOK =>
    /\ response.frames \in Seq(Frame)
    /\ Len(response.frames) \in 0..MaxFrames
    /\ response.frames = << >> <=> Len(response.frames) = 0
    /\ \A n \in 1..Len(response.frames) : response.frames[n] \in Frame
    /\ MaxFrames \in Nat
<1> HAVE TypeOK
<1>1. response.frames \in Seq(Frame) /\ Len(response.frames) <= MaxFrames /\ MaxFrames \in Nat
  BY ClientCallAssumption DEF TypeOK, Response
<1>2. QED
  BY <1>1, LenProperties, ElementOfSeq, EmptySeq

LEMMA State ==
  IInv =>
    /\ TypeOK /\ ResponseInv /\ ReaderInv /\ EndInv /\ SuccessInv /\ FailureInv
    /\ Len(response.frames) \in 0..MaxFrames /\ MaxFrames \in Nat
    /\ read \in 0..Len(response.frames)
    /\ accepted \in Seq(1..read) /\ Len(accepted) <= MaxFrames
    /\ Len(accepted) \in Nat /\ DOMAIN accepted = 1..Len(accepted)
    /\ accepted = << >> <=> Len(accepted) = 0
    /\ \A i \in 1..Len(accepted) : accepted[i] \in 1..read
    /\ opt.protocol \in {"connect", "grpc", "grpc-web"}
    /\ response.status \in {"none", "ok", "okStatus", "error", "rejected", "disguised"}
    /\ response.closed \in {"no", "clean", "cut"}
    /\ response.trailers \in {"none", "ok", "error"}
    /\ pc \in {"header", "errorBody", "body", "settled"}
    /\ ended \in {"no", "ok", "noStatus", "error"}
    /\ outcome \in Outcome
    /\ pc = "settled" <=> outcome # "open"
<1> HAVE IInv
<1>1. TypeOK /\ ResponseInv /\ ReaderInv /\ EndInv /\ SuccessInv /\ FailureInv
  BY DEF IInv
<1>2. Len(response.frames) \in 0..MaxFrames /\ MaxFrames \in Nat
  BY <1>1, Frames
<1>3. /\ read \in 0..Len(response.frames) /\ accepted \in Seq(1..read)
      /\ Len(accepted) <= MaxFrames
      /\ pc \in {"header", "errorBody", "body", "settled"}
      /\ ended \in {"no", "ok", "noStatus", "error"} /\ outcome \in Outcome
      /\ pc = "settled" <=> outcome # "open"
  BY <1>1 DEF TypeOK
<1>4. /\ opt.protocol \in {"connect", "grpc", "grpc-web"}
      /\ response.status \in {"none", "ok", "okStatus", "error", "rejected", "disguised"}
      /\ response.closed \in {"no", "clean", "cut"}
      /\ response.trailers \in {"none", "ok", "error"}
  BY <1>1 DEF TypeOK, Option, Response
<1>5. /\ Len(accepted) \in Nat /\ DOMAIN accepted = 1..Len(accepted)
      /\ accepted = << >> <=> Len(accepted) = 0
      /\ \A i \in 1..Len(accepted) : accepted[i] \in 1..read
  BY <1>3, LenProperties, ElementOfSeq, EmptySeq
<1>6. QED
  BY <1>1, <1>2, <1>3, <1>4, <1>5

\* What has been read stays as it is, whatever follows it.
LEMMA ReadSame ==
  read' = read /\ (\A n \in 1..read : response'.frames[n] = response.frames[n]) =>
    /\ HasRead("garbled")' <=> HasRead("garbled")
    /\ HasRead("ok")' <=> HasRead("ok")
    /\ HasRead("noStatus")' <=> HasRead("noStatus")
    /\ HasRead("error")' <=> HasRead("error")
    /\ HasReadTwo("error")' <=> HasReadTwo("error")
    /\ HasReadTwo("message")' <=> HasReadTwo("message")
    /\ MessagesRead' = MessagesRead
BY DEF HasRead, HasReadTwo, MessagesRead

\* What another frame adds to it.
LEMMA ReadAnother ==
  response' = response /\ read \in Nat /\ read' = read + 1 =>
    /\ HasRead("garbled")' <=> HasRead("garbled") \/ Coming = "garbled"
    /\ HasRead("ok")' <=> HasRead("ok") \/ Coming = "ok"
    /\ HasRead("noStatus")' <=> HasRead("noStatus") \/ Coming = "noStatus"
    /\ HasRead("error")' <=> HasRead("error") \/ Coming = "error"
    /\ HasRead("error") /\ Coming = "error" => HasReadTwo("error")'
    /\ \A n \in MessagesRead : Coming = "message" => HasReadTwo("message")'
    /\ MessagesRead' = IF Coming = "message" THEN MessagesRead \cup {read + 1}
                       ELSE MessagesRead
<1> HAVE response' = response /\ read \in Nat /\ read' = read + 1
<1>1. /\ 1..read' = 1..read \cup {read + 1} /\ read + 1 \notin 1..read
      /\ \A n \in 1..read : n < read + 1
  OBVIOUS
<1>2. /\ HasRead("garbled")' <=> HasRead("garbled") \/ Coming = "garbled"
      /\ HasRead("ok")' <=> HasRead("ok") \/ Coming = "ok"
      /\ HasRead("noStatus")' <=> HasRead("noStatus") \/ Coming = "noStatus"
      /\ HasRead("error")' <=> HasRead("error") \/ Coming = "error"
  BY <1>1 DEF HasRead, Coming
<1>3. /\ HasRead("error") /\ Coming = "error" => HasReadTwo("error")'
      /\ \A n \in MessagesRead : Coming = "message" => HasReadTwo("message")'
  BY <1>1 DEF HasRead, HasReadTwo, MessagesRead, Coming
<1>4. MessagesRead' = IF Coming = "message" THEN MessagesRead \cup {read + 1} ELSE MessagesRead
  BY <1>1 DEF MessagesRead, Coming
<1>5. QED
  BY <1>2, <1>3, <1>4

\* What the peer does leaves the reader alone, and adds to the response until it has closed.
LEMMA PeerAdds ==
  IInv /\ Peer =>
    /\ UNCHANGED <<opt, readerVars>>
    /\ response' \in Response
    /\ response.closed = "no"
    /\ response.status # "none" => response'.status = response.status
    /\ Len(response'.frames) >= Len(response.frames) /\ Len(response'.frames) <= MaxFrames
    /\ \A n \in 1..Len(response.frames) : response'.frames[n] = response.frames[n]
    /\ ResponseInv'
<1> SUFFICES ASSUME IInv, Peer
             PROVE  /\ UNCHANGED <<opt, readerVars>>
                    /\ response' \in Response
                    /\ response.closed = "no"
                    /\ response.status # "none" => response'.status = response.status
                    /\ Len(response'.frames) >= Len(response.frames)
                    /\ Len(response'.frames) <= MaxFrames
                    /\ \A n \in 1..Len(response.frames) :
                         response'.frames[n] = response.frames[n]
                    /\ ResponseInv'
  OBVIOUS
<1>1. UNCHANGED <<opt, readerVars>> /\ response.closed = "no"
  BY DEF Peer, PeerResponds, PeerSends, PeerCloses, ConnectionLost
<1>2. response \in Response /\ ResponseInv
  BY State DEF TypeOK
<1>3. ~PeerSends => response'.frames = response.frames /\ response' \in Response
  BY <1>2 DEF Peer, PeerResponds, PeerCloses, ConnectionLost, Response
<1>4. CASE PeerResponds
  <2>1. /\ response'.trailers = response.trailers /\ response'.closed = response.closed
        /\ response'.frames = response.frames /\ response.status = "none"
    BY <1>2, <1>4 DEF PeerResponds, Response
  <2>2. /\ (Sent("ok")' <=> Sent("ok")) /\ (Sent("error")' <=> Sent("error"))
        /\ Sent("noStatus")' <=> Sent("noStatus")
    BY <2>1 DEF Sent
  <2>3. ResponseInv'
    BY <1>1, <1>2, <2>1, <2>2 DEF ResponseInv, MarksEnd, Bare, Unary
  <2>4. QED
    BY <1>1, <1>3, <1>4, <2>1, <2>3, State DEF PeerResponds, PeerSends
<1>5. CASE PeerSends
  <2>1. PICK f \in Frame :
          /\ f = "noStatus" => opt.protocol = "grpc-web"
          /\ f \in {"ok", "error"} =>
               MarksEnd \/ (Bare /\ response.status = "error" /\ f = "error")
          /\ response' = [response EXCEPT !.frames = Append(@, f)]
    BY <1>5 DEF PeerSends
  <2>2. Len(response.frames) < MaxFrames
    BY <1>5, State, ClientCallAssumption DEF PeerSends
  <2>3. /\ Append(response.frames, f) \in Seq(Frame)
        /\ Len(Append(response.frames, f)) = Len(response.frames) + 1
        /\ \A n \in 1..Len(response.frames) :
             Append(response.frames, f)[n] = response.frames[n]
        /\ Append(response.frames, f)[Len(response.frames) + 1] = f
    BY <2>1, State, Frames, AppendProperties
  <2>4. /\ response'.frames = Append(response.frames, f)
        /\ response'.trailers = response.trailers /\ response'.closed = response.closed
        /\ response'.status = response.status
        /\ response' \in Response
    BY <1>2, <2>1, <2>3 DEF Response
  <2>5. 1..Len(response'.frames) = 1..Len(response.frames) \cup {Len(response.frames) + 1}
    BY <2>3, <2>4, State
  <2>6. /\ Sent("ok")' => Sent("ok") \/ f = "ok"
        /\ Sent("noStatus")' => Sent("noStatus") \/ f = "noStatus"
        /\ Sent("error")' => Sent("error") \/ f = "error"
    BY <2>3, <2>4, <2>5 DEF Sent
  <2>7. ResponseInv'
    BY <1>1, <1>2, <2>1, <2>4, <2>6 DEF ResponseInv, MarksEnd, Bare, Unary
  <2>8. Len(response'.frames) >= Len(response.frames) /\ Len(response'.frames) <= MaxFrames
    BY <2>2, <2>3, <2>4, State
  <2>9. \A n \in 1..Len(response.frames) : response'.frames[n] = response.frames[n]
    BY <2>3, <2>4
  <2>10. QED
    BY <1>1, <2>4, <2>7, <2>8, <2>9
<1>6. CASE PeerCloses \/ ConnectionLost
  <2>1. /\ response'.frames = response.frames /\ response'.status = response.status
        /\ response'.trailers # "none" /\ response'.trailers # response.trailers =>
             opt.protocol = "grpc" /\ response'.closed = "clean"
        /\ response'.closed = "clean" /\ Bare => response.frames # << >>
    BY <1>2, <1>6 DEF PeerCloses, ConnectionLost, Response
  <2>2. /\ (Sent("ok")' <=> Sent("ok")) /\ (Sent("error")' <=> Sent("error"))
        /\ Sent("noStatus")' <=> Sent("noStatus")
    BY <2>1 DEF Sent
  <2>3. ResponseInv'
    BY <1>1, <1>2, <2>1, <2>2 DEF ResponseInv, MarksEnd, Bare, Unary
  <2>4. response' \in Response
    BY <1>2, <1>6 DEF PeerCloses, ConnectionLost, Response
  <2>5. QED
    BY <1>1, <2>1, <2>3, <2>4, State
<1>7. QED
  BY <1>4, <1>5, <1>6 DEF Peer

\* The reader leaves the response alone, and so all that is known of it.
LEMMA ReaderKeeps ==
  IInv /\ Reader => UNCHANGED <<opt, response>> /\ ResponseInv'
<1> SUFFICES ASSUME IInv, Reader
             PROVE  UNCHANGED <<opt, response>> /\ ResponseInv'
  OBVIOUS
<1>1. UNCHANGED <<opt, response>>
  BY DEF Reader, ReadHeader, LoseHeader, ReadErrorBody, ReadMessage, ReadGarbled, ReadEnd,
         ReadClose, ReadCut
<1>2. QED
  BY <1>1, State DEF ResponseInv, Sent, MarksEnd, Bare, Unary

-----------------------------------------------------------------------------
(* It is an invariant.                                                     *)

\* What was accepted stays in place when another frame is read.
LEMMA ReadFurther ==
  ASSUME IInv, read' = read \/ read' = read + 1
  PROVE  accepted \in Seq(1..read')
<1>1. 1..read \subseteq 1..read'
  BY State
<1>2. accepted \in Seq(1..read)
  BY State
<1>3. QED
  BY <1>1, <1>2, SeqWidens

LEMMA TypeNext == IInv /\ Next => TypeOK'
<1> SUFFICES ASSUME IInv, Next
             PROVE  TypeOK'
  OBVIOUS
<1> USE State
<1>1. CASE Peer
  <2>1. /\ UNCHANGED <<opt, readerVars>> /\ response' \in Response
        /\ Len(response'.frames) >= Len(response.frames) /\ Len(response'.frames) <= MaxFrames
    BY <1>1, PeerAdds
  <2>2. Len(response'.frames) \in Nat
    <3>1. response'.frames \in Seq(Frame)
      BY <2>1 DEF Response
    <3>2. QED
      BY <3>1, LenProperties
  <2>3. read' \in 0..Len(response'.frames)
    BY <2>1, <2>2 DEF readerVars
  <2>4. QED
    BY <2>1, <2>3 DEF TypeOK, readerVars
<1>2. CASE Reader
  <2>1. UNCHANGED <<opt, response>>
    BY <1>2, ReaderKeeps
  <2>2. /\ pc' \in {"header", "errorBody", "body", "settled"}
        /\ ended' \in {"no", "ok", "noStatus", "error"} /\ outcome' \in Outcome
        /\ pc' = "settled" <=> outcome' # "open"
    BY <1>2 DEF Reader, ReadHeader, LoseHeader, ReadErrorBody, ReadMessage, ReadGarbled, ReadEnd,
                ReadClose, ReadCut, Settle, Outcome, Verdict, HasFrame
  <2>3. CASE ReadMessage
    <3>1. read' = read + 1 /\ read < Len(response.frames)
      BY <2>3 DEF ReadMessage, HasFrame
    <3>2. read' \in 0..Len(response.frames) /\ Len(accepted) < MaxFrames
      BY <3>1 DEF ReaderInv
    <3>3. accepted \in Seq(1..read')
      BY <3>1, ReadFurther
    <3>4. accepted' = accepted \/ accepted' = Append(accepted, read')
      BY <2>3 DEF ReadMessage
    <3>5. read' \in 1..read'
      BY <3>1
    <3>6. /\ Append(accepted, read') \in Seq(1..read')
          /\ Len(Append(accepted, read')) = Len(accepted) + 1
      BY <3>3, <3>5, AppendProperties
    <3>7. accepted' \in Seq(1..read') /\ Len(accepted') <= MaxFrames
      <4>1. Len(accepted) \in Nat /\ MaxFrames \in Nat
        OBVIOUS
      <4>2. Len(accepted) <= MaxFrames /\ Len(accepted) + 1 <= MaxFrames
        BY ONLY <3>2, <4>1
      <4>3. QED
        BY <3>3, <3>4, <3>6, <4>2, Zenon
    <3>8. QED
      BY <2>1, <2>2, <3>2, <3>7 DEF TypeOK
  <2>4. CASE ~ReadMessage
    <3>1. accepted' = accepted
      BY <1>2, <2>4 DEF Reader, ReadHeader, LoseHeader, ReadErrorBody, ReadGarbled, ReadEnd,
                        ReadClose, ReadCut
    <3>2. read' = read \/ (read' = read + 1 /\ read < Len(response.frames))
      <4>1. CASE ReadErrorBody
        BY <4>1 DEF ReadErrorBody, ReaderInv, ResponseInv
      <4>2. CASE ~ReadErrorBody
        BY <1>2, <2>4, <4>2 DEF Reader, ReadHeader, LoseHeader, ReadGarbled, ReadEnd,
                        ReadClose, ReadCut, HasFrame
      <4>3. QED
        BY <4>1, <4>2
    <3>3. read' \in 0..Len(response.frames)
      BY <3>2
    <3>4. accepted' \in Seq(1..read')
      BY <3>1, <3>2, ReadFurther
    <3>5. QED
      BY <2>1, <2>2, <3>1, <3>3, <3>4 DEF TypeOK
  <2>5. QED
    BY <2>3, <2>4
<1>3. QED
  BY <1>1, <1>2 DEF Next

\* What the peer sends does not change what has been read.
LEMMA PeerKeepsRead ==
  IInv /\ Peer =>
    /\ UNCHANGED <<opt, readerVars>>
    /\ response.closed = "no"
    /\ response.status # "none" => response'.status = response.status
    /\ HasRead("garbled")' <=> HasRead("garbled")
    /\ HasRead("ok")' <=> HasRead("ok")
    /\ HasRead("noStatus")' <=> HasRead("noStatus")
    /\ HasRead("error")' <=> HasRead("error")
    /\ HasReadTwo("error")' <=> HasReadTwo("error")
    /\ HasReadTwo("message")' <=> HasReadTwo("message")
    /\ MessagesRead' = MessagesRead
<1> SUFFICES ASSUME IInv, Peer
             PROVE  /\ read' = read
                    /\ \A n \in 1..read : response'.frames[n] = response.frames[n]
  BY PeerAdds, ReadSame DEF readerVars
<1>1. \A n \in 1..read : n \in 1..Len(response.frames)
  BY State
<1>2. QED
  BY <1>1, PeerAdds DEF readerVars

LEMMA ReaderNext == IInv /\ Next => ReaderInv'
<1> SUFFICES ASSUME IInv, Next
             PROVE  ReaderInv'
  OBVIOUS
<1> USE State DEF ReaderInv, InBody, Bare, Unary
<1>1. CASE Peer
  BY <1>1, PeerKeepsRead DEF readerVars, Ordered
<1>2. CASE ReadHeader
  <2>1. MessagesRead' = MessagesRead /\ MessagesRead = {}
    BY <1>2 DEF ReadHeader, MessagesRead
  <2>2. Range(accepted) = {} /\ Ordered'
    BY <1>2 DEF ReadHeader, Range, Ordered
  <2>3. QED
    BY <1>2, <2>1, <2>2 DEF ReadHeader, Settle
<1>3. CASE LoseHeader
  BY <1>3 DEF LoseHeader, Settle
<1>4. CASE ReadErrorBody
  BY <1>4 DEF ReadErrorBody, Settle
<1>5. CASE ReadMessage
  <2>1. /\ response' = response /\ opt' = opt /\ pc = "body" /\ outcome = "open"
        /\ read' = read + 1 /\ Coming = "message"
    BY <1>5 DEF ReadMessage, HasFrame
  <2>2. CASE pc' = "settled"
    <3>1. accepted' = accepted /\ outcome' = "protocolError"
      BY <1>5, <2>1, <2>2 DEF ReadMessage, Settle
    <3>2. Len(accepted') <= read'
      BY <2>1, <3>1
    <3>3. QED
      BY <2>1, <2>2, <3>1, <3>2
  <2>3. CASE pc' # "settled"
    <3>1. /\ accepted' = Append(accepted, read + 1) /\ pc' = pc /\ outcome' = outcome
          /\ Unary => accepted = << >>
      BY <1>5, <2>1, <2>3 DEF ReadMessage, Settle
    <3>2. MessagesRead' = MessagesRead \cup {read + 1}
      BY <2>1, ReadAnother
    <3>a. accepted \in Seq(1..(read + 1)) /\ read + 1 \in 1..(read + 1)
      BY <2>1, ReadFurther
    <3>3. Range(accepted') = Range(accepted) \cup {read + 1}
      BY <3>1, <3>a, AppendRange
    <3>4. /\ Len(accepted') = Len(accepted) + 1 /\ DOMAIN accepted' = 1..(Len(accepted) + 1)
          /\ \A i \in 1..Len(accepted) : accepted'[i] = accepted[i]
          /\ accepted'[Len(accepted) + 1] = read + 1
      BY <3>1, <3>a, AppendProperties, LenProperties
    <3>5. Ordered'
      <4>1. Ordered /\ \A i \in 1..Len(accepted) : accepted[i] \in Int /\ accepted[i] < read + 1
        BY <2>1
      <4>2. Len(accepted) \in Nat /\ read + 1 \in Int /\ DOMAIN accepted = 1..Len(accepted)
        OBVIOUS
      <4>3. SUFFICES ASSUME NEW i \in 1..(Len(accepted) + 1), NEW j \in 1..(Len(accepted) + 1),
                            i < j
                     PROVE  accepted'[i] < accepted'[j]
        BY <3>4 DEF Ordered
      <4>4. i \in 1..Len(accepted)
        BY ONLY <4>2, <4>3
      <4>5. j \in 1..Len(accepted) \/ j = Len(accepted) + 1
        BY ONLY <4>2, <4>3
      <4>6. QED
        BY ONLY <3>4, <4>1, <4>2, <4>3, <4>4, <4>5 DEF Ordered
    <3>6. Len(accepted') <= read' /\ (Unary => Len(accepted') <= 1)
      BY <2>1, <3>1, <3>4
    <3>7. QED
      BY <2>1, <3>1, <3>2, <3>3, <3>5, <3>6
  <2>4. QED
    BY <2>2, <2>3
<1>6. CASE ReadGarbled
  BY <1>6 DEF ReadGarbled, Settle, HasFrame
<1>7. CASE ReadEnd
  <2>1. /\ response' = response /\ opt' = opt /\ accepted' = accepted
        /\ read' = read + 1 /\ Coming # "message" /\ pc = "body"
    BY <1>7 DEF ReadEnd, HasFrame
  <2>2. MessagesRead' = MessagesRead
    BY <2>1, ReadAnother
  <2>3. Len(accepted') <= read' /\ (Ordered' <=> Ordered)
    BY <2>1 DEF Ordered
  <2>4. pc' \in {"body", "settled"} /\ outcome' # "ok"
    BY <1>7, <2>1 DEF ReadEnd, Settle
  <2>5. QED
    BY <2>1, <2>2, <2>3, <2>4
<1>8. CASE ReadClose
  <2>1. MessagesRead' = MessagesRead /\ (Ordered' <=> Ordered)
    BY <1>8 DEF ReadClose, MessagesRead, Ordered
  <2>2. QED
    BY <1>8, <2>1 DEF ReadClose, Settle
<1>9. CASE ReadCut
  BY <1>9 DEF ReadCut, Settle
<1>10. QED
  BY <1>1, <1>2, <1>3, <1>4, <1>5, <1>6, <1>7, <1>8, <1>9 DEF Next, Reader

LEMMA EndNext == IInv /\ Next => EndInv'
<1> SUFFICES ASSUME IInv, Next
             PROVE  EndInv'
  OBVIOUS
<1> USE State DEF EndInv, InBody, Unary
<1>1. CASE Peer
  BY <1>1, PeerKeepsRead DEF readerVars
<1>2. CASE ReadHeader
  <2>1. ~HasRead("ok")' /\ ~HasRead("noStatus")' /\ ~HasRead("error")'
    BY <1>2 DEF ReadHeader, ReaderInv, HasRead
  <2>2. QED
    BY <1>2, <2>1 DEF ReadHeader, ReaderInv
<1>3. CASE LoseHeader
  BY <1>3 DEF LoseHeader, Settle, ReaderInv
<1>4. CASE ReadErrorBody
  BY <1>4 DEF ReadErrorBody, Settle, ReaderInv
<1>5. CASE ReadMessage
  <2>1. /\ response' = response /\ opt' = opt /\ ended' = ended /\ pc = "body"
        /\ read' = read + 1 /\ Coming = "message"
    BY <1>5 DEF ReadMessage, HasFrame
  <2>2. /\ (HasRead("ok")' <=> HasRead("ok")) /\ (HasRead("error")' <=> HasRead("error"))
        /\ HasRead("noStatus")' <=> HasRead("noStatus")
    BY <2>1, ReadAnother
  <2>3. QED
    BY <2>1, <2>2
<1>6. CASE ReadGarbled
  <2>1. /\ response' = response /\ opt' = opt /\ ended' = ended /\ pc = "body"
        /\ read' = read + 1 /\ Coming = "garbled"
    BY <1>6 DEF ReadGarbled, HasFrame
  <2>2. /\ (HasRead("ok")' <=> HasRead("ok")) /\ (HasRead("error")' <=> HasRead("error"))
        /\ HasRead("noStatus")' <=> HasRead("noStatus")
    BY <2>1, ReadAnother
  <2>3. QED
    BY <2>1, <2>2
<1>7. CASE ReadEnd
  <2>1. /\ response' = response /\ opt' = opt /\ pc = "body" /\ outcome = "open"
        /\ read' = read + 1 /\ Coming \in {"ok", "noStatus", "error"}
    BY <1>7 DEF ReadEnd, HasFrame
  <2>2. /\ HasRead("ok")' <=> HasRead("ok") \/ Coming = "ok"
        /\ HasRead("noStatus")' <=> HasRead("noStatus") \/ Coming = "noStatus"
        /\ HasRead("error")' <=> HasRead("error") \/ Coming = "error"
    BY <2>1, ReadAnother
  <2>3. MarksEnd
    <3>1. Sent("ok") \/ Sent("noStatus") \/ Sent("error")
      BY <1>7, <2>1 DEF ReadEnd, HasFrame, Coming, Sent
    <3>2. QED
      BY <2>1, <3>1 DEF ResponseInv, ReaderInv, MarksEnd, Bare
  <2>4. CASE pc' = "settled"
    BY <1>7, <2>1, <2>2, <2>4 DEF ReadEnd, Settle
  <2>5. CASE pc' # "settled"
    <3>1. /\ ended' = Coming /\ pc' = pc /\ outcome' = outcome
          /\ ~TrailersOnly /\ ~ExtraEnd /\ (Coming = "error" => Unary)
      BY <1>7, <2>1, <2>5 DEF ReadEnd, Settle
    <3>2. ended = "error" => Coming = "error"
      BY <2>3, <3>1 DEF ExtraEnd, MarksEnd, Bare
    <3>3. ~HasRead("error") \/ ended = "error"
      BY <2>1
    <3>4. QED
      BY <2>1, <2>2, <3>1, <3>2, <3>3
  <2>6. QED
    BY <2>4, <2>5
<1>8. CASE ReadClose
  <2>1. /\ (HasRead("ok")' <=> HasRead("ok")) /\ (HasRead("error")' <=> HasRead("error"))
        /\ HasRead("noStatus")' <=> HasRead("noStatus")
    BY <1>8 DEF ReadClose, HasRead
  <2>2. QED
    BY <1>8, <2>1 DEF ReadClose, Settle
<1>9. CASE ReadCut
  <2>1. /\ (HasRead("ok")' <=> HasRead("ok")) /\ (HasRead("error")' <=> HasRead("error"))
        /\ HasRead("noStatus")' <=> HasRead("noStatus")
    BY <1>9 DEF ReadCut, HasRead
  <2>2. QED
    BY <1>9, <2>1 DEF ReadCut, Settle
<1>10. QED
  BY <1>1, <1>2, <1>3, <1>4, <1>5, <1>6, <1>7, <1>8, <1>9 DEF Next, Reader

\* Only the end of the body makes a success, which no step after it touches.
LEMMA SuccessNext == IInv /\ Next => SuccessInv'
<1> SUFFICES ASSUME IInv, Next, outcome' = "ok"
             PROVE  /\ response'.closed = "clean" /\ read' = Len(response'.frames)
                    /\ Verdict' = "ok"
                    /\ Unary' => accepted' # << >>
  BY DEF SuccessInv
<1> USE State DEF SuccessInv, Unary
<1>1. CASE Peer
  BY <1>1, PeerKeepsRead DEF readerVars
<1>2. CASE Reader
  <2>1. ReadClose
    BY <1>2 DEF Reader, ReadHeader, LoseHeader, ReadErrorBody, ReadMessage, ReadGarbled, ReadEnd,
                ReadCut, Settle, HasFrame
  <2>2. Verdict' = Verdict
    BY <2>1 DEF ReadClose, Verdict, Bare, MarksEnd, TrailersOnly, FoundStatus
  <2>3. QED
    BY <2>1, <2>2 DEF ReadClose, Settle
<1>3. QED
  BY <1>1, <1>2 DEF Next

LEMMA FailureNext == IInv /\ Next => FailureInv'
<1> SUFFICES ASSUME IInv, Next, outcome' = "protocolError"
             PROVE  /\ response'.status # "none"
                    /\ response'.status = "ok" /\ ~Bare' =>
                         \/ HasRead("garbled")' \/ HasRead("ok")' \/ HasRead("noStatus")'
                         \/ HasReadTwo("error")'
                         \/ Unary' /\ HasReadTwo("message")'
                         \/ /\ response'.closed = "clean" /\ ~Sent("error")'
                            /\ response'.trailers # "error"
  BY DEF FailureInv
<1> USE State DEF Bare, Unary
<1>1. CASE Peer
  BY <1>1, PeerKeepsRead DEF readerVars, FailureInv
<1>2. CASE Reader
  <2>1. response' = response /\ opt' = opt
    BY <1>2, ReaderKeeps
  <2>2. CASE ReadHeader
    BY <2>1, <2>2 DEF ReadHeader, Settle
  <2>3. CASE LoseHeader \/ ReadCut
    BY <2>3 DEF LoseHeader, ReadCut, Settle
  <2>4. CASE ReadErrorBody
    BY <2>1, <2>4 DEF ReadErrorBody, ReaderInv
  <2>5. CASE ReadMessage
    <3>1. /\ pc = "body" /\ read' = read + 1 /\ Coming = "message"
          /\ TrailersOnly \/ AfterEnd \/ (Unary /\ accepted # << >>)
      BY <2>5 DEF ReadMessage, HasFrame
    <3>2. response.status \in {"ok", "okStatus", "disguised"}
      BY <3>1 DEF ReaderInv, InBody
    <3>3. CASE TrailersOnly
      BY <2>1, <3>2, <3>3 DEF TrailersOnly, FoundStatus
    <3>4. CASE AfterEnd
      <4>1. HasRead("ok") \/ HasRead("noStatus")
        BY <3>4 DEF AfterEnd, EndInv
      <4>2. HasRead("ok")' \/ HasRead("noStatus")'
        BY <2>1, <3>1, <4>1, ReadAnother
      <4>3. QED
        BY <2>1, <3>2, <4>2
    <3>5. CASE Unary /\ accepted # << >>
      <4>1. Range(accepted) = MessagesRead /\ 1 \in DOMAIN accepted
        BY <3>1, <3>5 DEF ReaderInv, InBody
      <4>2. accepted[1] \in MessagesRead
        BY <4>1 DEF Range
      <4>3. HasReadTwo("message")'
        BY <2>1, <3>1, <4>2, ReadAnother
      <4>4. QED
        BY <2>1, <3>2, <3>5, <4>3
    <3>6. QED
      BY <3>1, <3>3, <3>4, <3>5
  <2>6. CASE ReadGarbled
    <3>1. pc = "body" /\ read' = read + 1 /\ Coming = "garbled"
      BY <2>6 DEF ReadGarbled, HasFrame
    <3>2. HasRead("garbled")' /\ response.status # "none"
      BY <2>1, <3>1, ReadAnother DEF ReaderInv, InBody
    <3>3. QED
      BY <2>1, <3>2
  <2>7. CASE ReadEnd
    <3>1. /\ pc = "body" /\ read' = read + 1 /\ Coming \in {"ok", "noStatus", "error"}
          /\ TrailersOnly \/ ExtraEnd
      BY <2>7 DEF ReadEnd, HasFrame, Settle
    <3>2. response.status \in {"ok", "okStatus", "disguised"}
      BY <3>1 DEF ReaderInv, InBody
    <3>3. CASE TrailersOnly
      BY <2>1, <3>2, <3>3 DEF TrailersOnly, FoundStatus
    <3>4. CASE ExtraEnd
      <4>1. HasRead("ok") \/ HasRead("noStatus") \/ HasRead("error")
        BY <3>4 DEF ExtraEnd, EndInv
      <4>2. HasRead("ok")' \/ HasRead("noStatus")' \/ HasReadTwo("error")'
        BY <2>1, <3>1, <4>1, ReadAnother
      <4>3. QED
        BY <2>1, <3>2, <4>2
    <3>5. QED
      BY <3>1, <3>3, <3>4
  <2>8. CASE ReadClose
    <3>1. /\ pc = "body" /\ read = Len(response.frames) /\ response.closed = "clean"
          /\ Verdict = "protocolError" \/ Verdict = "ok"
          /\ read' = read
      BY <2>8 DEF ReadClose, Settle
    <3>2. response.status \in {"ok", "okStatus", "disguised"}
      BY <3>1 DEF ReaderInv, InBody
    <3>3. (HasRead("ok")' <=> HasRead("ok")) /\ (HasRead("noStatus")' <=> HasRead("noStatus"))
      BY <2>1, <3>1, ReadSame
    <3>4. (Sent("error")' <=> HasRead("error")) /\ (Sent("error") <=> HasRead("error"))
      BY <2>1, <3>1 DEF Sent, HasRead
    <3>5. ASSUME response.status = "ok", ~Bare, ~HasRead("ok"), ~HasRead("noStatus")
          PROVE  ~HasRead("error") /\ response.trailers # "error"
      <4>1. CASE MarksEnd
        <5>1. ~TrailersOnly /\ ended \notin {"ok", "noStatus"}
          BY <3>5 DEF TrailersOnly, FoundStatus, EndInv
        <5>2. ended # "error"
          BY <3>1, <3>5, <4>1, <5>1 DEF Verdict, MarksEnd
        <5>3. QED
          BY <3>1, <4>1, <5>1, <5>2 DEF EndInv, InBody, ResponseInv, MarksEnd
      <4>2. CASE ~MarksEnd
        <5>1. ~HasRead("error")
          BY <3>4, <3>5, <4>2 DEF ResponseInv
        <5>2. response.trailers # "error"
          BY <3>1, <3>5, <4>2 DEF Verdict, MarksEnd, TrailersOnly, FoundStatus
        <5>3. QED
          BY <5>1, <5>2
      <4>3. QED
        BY <4>1, <4>2
    <3>6. QED
      BY <2>1, <3>1, <3>2, <3>3, <3>4, <3>5
  <2>9. QED
    BY <1>2, <2>2, <2>3, <2>4, <2>5, <2>6, <2>7, <2>8 DEF Reader
<1>3. QED
  BY <1>1, <1>2 DEF Next

LEMMA InitInv == Init => IInv
<1> SUFFICES ASSUME Init
             PROVE  IInv
  OBVIOUS
<1> USE DEF Init
<1>1. response.frames = << >> /\ Len(response.frames) = 0 /\ Len(accepted) = 0 /\ read = 0
  BY EmptySeq DEF NoResponse
<1>2. TypeOK
  <2>1. /\ << >> \in Seq(Frame) /\ accepted \in Seq(1..read)
        /\ Len(response.frames) <= MaxFrames /\ Len(accepted) <= MaxFrames
    BY <1>1, ClientCallAssumption
  <2>2. read \in 0..Len(response.frames)
    BY <1>1
  <2>3. response \in Response
    BY <2>1 DEF NoResponse, Response
  <2>4. QED
    BY <2>1, <2>2, <2>3 DEF TypeOK, Outcome
<1>3. ~Sent("ok") /\ ~Sent("noStatus") /\ ~Sent("error")
  BY <1>1 DEF Sent
<1>4. ResponseInv
  BY <1>3 DEF ResponseInv, NoResponse
<1>5. ReaderInv
  BY <1>1 DEF ReaderInv, InBody
<1>6. EndInv /\ SuccessInv /\ FailureInv
  BY DEF EndInv, InBody, SuccessInv, FailureInv
<1>7. QED
  BY <1>2, <1>4, <1>5, <1>6 DEF IInv

LEMMA NextInv == IInv /\ [Next]_vars => IInv'
<1> SUFFICES ASSUME IInv, [Next]_vars
             PROVE  IInv'
  OBVIOUS
<1>1. CASE Next
  <2>1. ResponseInv'
    BY <1>1, PeerAdds, ReaderKeeps DEF Next
  <2>2. QED
    BY <1>1, <2>1, TypeNext, ReaderNext, EndNext, SuccessNext, FailureNext DEF IInv
<1>2. CASE UNCHANGED vars
  BY <1>2 DEF IInv, TypeOK, ResponseInv, ReaderInv, EndInv, SuccessInv, FailureInv, vars,
       readerVars, InBody, Ordered, MessagesRead, Sent, HasRead, HasReadTwo, Verdict,
       MarksEnd, Bare, Unary, TrailersOnly, FoundStatus
<1>3. QED
  BY <1>1, <1>2

\* What holds in every reachable state of a client that reads a response.
THEOREM Invariance == Spec => []IInv
BY InitInv, NextInv, PTL DEF Spec

-----------------------------------------------------------------------------
(* What follows from it.                                                   *)

\* Every variable keeps its type: the reader is never beyond the response, and what it
\* accepts are frames that it has read.
THEOREM TypeCorrect == Spec => []TypeOK
<1>1. IInv => TypeOK
  BY DEF IInv
<1>2. QED
  BY <1>1, Invariance, PTL

\* Whatever a server sends, a call succeeds only if it has declared success, and no
\* failure, with the exceptions that SuccessIsDeclared names.
THEOREM SuccessWasDeclared == Spec => []SuccessIsDeclared
<1>1. IInv => SuccessIsDeclared
  <2> SUFFICES ASSUME IInv, outcome = "ok"
               PROVE  /\ \/ Declared.ok \/ opt.protocol = "grpc"
                         \/ opt.protocol = "grpc-web" /\ HasRead("noStatus")
                         \/ Bare /\ response.status = "disguised"
                      /\ ~Declared.error \/ (opt.protocol = "grpc" /\ ~Unary /\ FoundStatus)
    BY DEF SuccessIsDeclared
  <2> USE State
  <2>1. /\ response.status \in {"ok", "okStatus", "disguised"}
        /\ Verdict = "ok" /\ read = Len(response.frames)
    BY DEF SuccessInv, ReaderInv, InBody
  <2>2. /\ (Sent("error") <=> HasRead("error")) /\ (Sent("ok") <=> HasRead("ok"))
        /\ Sent("noStatus") <=> HasRead("noStatus")
    BY <2>1 DEF Sent, HasRead
  <2>3. /\ Declared.ok <=> \/ FoundStatus \/ HasRead("ok") \/ response.trailers = "ok"
                           \/ Bare /\ response.status = "ok"
        /\ Declared.error <=> \/ response.status = "error" \/ HasRead("error")
                              \/ response.trailers = "error"
    BY DEF Declared
  <2>4. CASE Bare
    <3>1. ~HasRead("error") /\ response.trailers # "error"
      BY <2>1, <2>2, <2>4 DEF ResponseInv, MarksEnd, Bare
    <3>2. response.status = "okStatus" => FoundStatus
      BY DEF FoundStatus
    <3>3. QED
      BY <2>1, <2>3, <2>4, <3>1, <3>2
  <2>5. CASE MarksEnd
    <3>1. /\ opt.protocol # "grpc" /\ ended # "error"
          /\ ended \in {"ok", "noStatus"} \/ FoundStatus
      BY <2>1, <2>5 DEF Verdict, MarksEnd, TrailersOnly
    <3>2. ~HasRead("error") /\ response.trailers # "error"
      BY <3>1 DEF EndInv, InBody, ResponseInv
    <3>3. /\ ended = "ok" => HasRead("ok")
          /\ ended = "noStatus" => opt.protocol = "grpc-web" /\ HasRead("noStatus")
      BY <2>2 DEF EndInv, ResponseInv
    <3>4. QED
      BY <2>1, <2>3, <3>1, <3>2, <3>3
  <2>6. CASE ~Bare /\ ~MarksEnd
    <3>1. opt.protocol = "grpc" /\ ~HasRead("error")
      BY <2>2, <2>6 DEF MarksEnd, ResponseInv
    <3>2. response.trailers = "error" => ~Unary /\ FoundStatus
      BY <2>1, <2>6, <3>1 DEF Verdict, MarksEnd, Bare
    <3>3. QED
      BY <2>1, <2>3, <3>1, <3>2
  <2>7. QED
    BY <2>4, <2>5, <2>6
<1>2. QED
  BY <1>1, Invariance, PTL

\* A success is complete: the messages that the caller gets are those of the response, each
\* of them once and in their order, and a unary method has exactly one.
THEOREM SuccessHasAll == Spec => []SuccessIsComplete
<1>1. IInv => SuccessIsComplete
  <2> SUFFICES ASSUME IInv, outcome = "ok"
               PROVE  /\ response.closed = "clean" /\ read = Len(response.frames)
                      /\ Range(accepted) = {n \in 1..read : response.frames[n] = "message"}
                      /\ \A i, j \in DOMAIN accepted : i < j => accepted[i] < accepted[j]
                      /\ Unary => Len(accepted) = 1
    BY DEF SuccessIsComplete
  <2> USE State
  <2>1. /\ response.closed = "clean" /\ read = Len(response.frames)
        /\ Ordered /\ Range(accepted) = MessagesRead
    BY DEF SuccessInv, ReaderInv, InBody
  <2>2. Unary => Len(accepted) <= 1 /\ accepted # << >>
    BY DEF SuccessInv, ReaderInv
  <2>3. Unary => Len(accepted) = 1
    BY <2>2
  <2>4. QED
    BY <2>1, <2>3 DEF Ordered, MessagesRead
<1>2. QED
  BY <1>1, Invariance, PTL

\* A failure that the server reports in order is not taken for a violation of the protocol.
THEOREM FailureArrives == Spec => []FailureIsPassedOn
<1>1. IInv => FailureIsPassedOn
  <2> SUFFICES ASSUME IInv, outcome = "protocolError", response.status = "ok", ~Bare,
                      Contains(response.frames, "error") \/ response.trailers = "error"
               PROVE  \/ HasRead("garbled") \/ HasRead("ok") \/ HasRead("noStatus") \/ HasReadTwo("error")
                      \/ Unary /\ HasReadTwo("message")
    BY DEF FailureIsPassedOn
  <2>1. Sent("error") \/ response.trailers = "error"
    BY DEF Contains, Sent
  <2>2. QED
    BY <2>1, State DEF FailureInv
<1>2. QED
  BY <1>1, Invariance, PTL
=============================================================================
