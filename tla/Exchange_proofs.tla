--------------------------- MODULE Exchange_proofs ---------------------------
(***************************************************************************)
(* What holds of an exchange for any calls, any requests of other clients, *)
(* and any responses of proxies.                                           *)
(***************************************************************************)
EXTENDS Exchange, SequenceTheorems, FiniteSetTheorems, WellFoundedInduction, TLAPS

-----------------------------------------------------------------------------
(* Operations that may fail                                                *)

LEMMA Outcomes ==
  ASSUME NEW v
  PROVE  /\ Return(v).raised = FALSE /\ Return(v).value = v
         /\ Raise(v).raised = TRUE /\ Raise(v).error = v
BY DEF Return, Raise

-----------------------------------------------------------------------------
(* Sequences                                                               *)

LEMMA SequenceFacts ==
  ASSUME NEW s, IsSequence(s)
  PROVE  /\ Len(s) \in Nat /\ DOMAIN s = 1..Len(s)
         /\ s = [n \in 1..Len(s) |-> s[n]]
         /\ s = << >> <=> DOMAIN s = {}
<1>1. s \in Seq(ToSet(s))
  BY DEF IsSequence
<1>2. Len(s) \in Nat /\ DOMAIN s = 1..Len(s) /\ s \in [1..Len(s) -> ToSet(s)]
  BY <1>1, LenProperties
<1>3. s = << >> <=> Len(s) = 0
  BY <1>1, EmptySeq
<1>4. QED
  BY <1>2, <1>3

\* A function on 1..k is a sequence of k elements.
LEMMA BuiltSequence ==
  ASSUME NEW k \in Nat, NEW s, s = [n \in 1..k |-> s[n]]
  PROVE  IsSequence(s) /\ Len(s) = k /\ DOMAIN s = 1..k
<1>1. DOMAIN s = 1..k
  BY Zenon
<1>2. s \in [1..k -> ToSet(s)]
  BY <1>1 DEF ToSet
<1>3. s \in Seq(ToSet(s))
  BY <1>2, SeqDef
<1>4. Len(s) \in Nat /\ 1..Len(s) = 1..k
  BY <1>1, <1>3, LenProperties
<1>5. QED
  BY <1>1, <1>3, <1>4 DEF IsSequence

\* A function on the places of a sequence is a sequence.
LEMMA MappedSequence ==
  ASSUME NEW s, IsSequence(s), NEW r, r = [n \in DOMAIN s |-> r[n]]
  PROVE  IsSequence(r) /\ DOMAIN r = DOMAIN s
BY SequenceFacts, BuiltSequence

\* <<x>> is a sequence.
LEMMA SingletonSequence ==
  ASSUME NEW x
  PROVE  IsSequence(<<x>>) /\ DOMAIN <<x>> = {1} /\ <<x>>[1] = x /\ <<x>> # << >>
<1>1. <<x>> = [n \in 1..1 |-> <<x>>[n]] /\ 1..1 = {1}
  OBVIOUS
<1>2. QED
  BY <1>1, BuiltSequence

\* << >> is a sequence.
LEMMA EmptySequence == IsSequence(<< >>) /\ DOMAIN << >> = {}
<1>1. << >> = [n \in 1..0 |-> << >>[n]] /\ 1..0 = {}
  OBVIOUS
<1>2. QED
  BY <1>1, BuiltSequence

\* What s \o t consists of.
LEMMA Concatenation ==
  ASSUME NEW s, IsSequence(s), NEW t, IsSequence(t)
  PROVE  /\ IsSequence(s \o t) /\ Len(s \o t) = Len(s) + Len(t)
         /\ \A n \in DOMAIN (s \o t) :
              \/ n \in DOMAIN s /\ (s \o t)[n] = s[n]
              \/ n - Len(s) \in DOMAIN t /\ (s \o t)[n] = t[n - Len(s)]
<1> DEFINE S == ToSet(s) \cup ToSet(t)
<1>1. s \in Seq(S) /\ t \in Seq(S)
  <2>1. s \in [1..Len(s) -> S] /\ t \in [1..Len(t) -> S]
    BY SequenceFacts DEF ToSet
  <2>2. QED
    BY <2>1, SequenceFacts, SeqDef
<1> HIDE DEF S
<1>2. /\ s \o t \in Seq(S) /\ Len(s \o t) = Len(s) + Len(t)
      /\ \A n \in 1 .. Len(s) + Len(t) :
           (s \o t)[n] = IF n <= Len(s) THEN s[n] ELSE t[n - Len(s)]
  BY <1>1, ConcatProperties
<1>3. Len(s) \in Nat /\ DOMAIN s = 1..Len(s) /\ Len(t) \in Nat /\ DOMAIN t = 1..Len(t)
  BY SequenceFacts
<1>4. DOMAIN (s \o t) = 1..(Len(s) + Len(t))
  BY <1>2, LenProperties
<1>5. IsSequence(s \o t)
  <2>1. s \o t \in [1..Len(s \o t) -> S]
    BY <1>2, LenProperties
  <2>2. s \o t = [n \in 1..(Len(s) + Len(t)) |-> (s \o t)[n]]
    BY <1>2, <2>1
  <2>3. Len(s) + Len(t) \in Nat
    BY <1>3
  <2>4. QED
    BY <2>2, <2>3, BuiltSequence
<1>6. QED
  BY <1>2, <1>3, <1>4, <1>5

\* Min of a set of natural numbers is its least element.
LEMMA LeastIsMin ==
  ASSUME NEW k \in Nat, NEW S \in SUBSET (1..k), S # {}
  PROVE  Min(S) \in S /\ \A n \in S : Min(S) <= n
<1>1. \E x \in S : \A y \in S : ~(<<y, x>> \in OpToRel(<, Nat))
  <2>1. S \subseteq Nat
    OBVIOUS
  <2>2. QED
    BY <2>1, NatLessThanWellFounded, WFMin
<1>2. PICK x \in S : \A y \in S : ~(<<y, x>> \in OpToRel(<, Nat))
  BY <1>1
<1>3. ASSUME NEW y \in S
      PROVE  x <= y
  <2>1. y \in Nat /\ x \in Nat
    OBVIOUS
  <2>2. ~(y < x)
    BY <1>2, <2>1 DEF OpToRel
  <2>3. QED
    BY <2>1, <2>2
<1>4. QED
  BY <1>3 DEF Min

\* Induction over the natural numbers, for a set in place of a predicate.
LEMMA SetInduction ==
  ASSUME NEW S, 0 \in S, \A n \in Nat : n \in S => n + 1 \in S
  PROVE  Nat \subseteq S
<1>1. SUFFICES ASSUME Nat \ S # {}
               PROVE  FALSE
  OBVIOUS
<1>2. \E x \in Nat \ S : \A y \in Nat \ S : ~(<<y, x>> \in OpToRel(<, Nat))
  <2>1. Nat \ S \subseteq Nat /\ Nat \ S # {}
    BY <1>1
  <2>2. QED
    BY <2>1, NatLessThanWellFounded, WFMin
<1>3. PICK x \in Nat \ S : \A y \in Nat \ S : ~(y < x)
  BY <1>2 DEF OpToRel
<1>4. x - 1 \in Nat /\ x - 1 \in S
  BY <1>3
<1>5. QED
  BY <1>3, <1>4

\* The function that Selected() is defined by exists.
Selects(upTo, s, places, k) ==
  upTo = [n \in 0..k |->
            IF n = 0 THEN << >>
            ELSE IF n \in places THEN Append(upTo[n - 1], s[n]) ELSE upTo[n - 1]]

\* The recursive function of Selected exists, and is given by its equations.
LEMMA SelectionExists ==
  ASSUME NEW s, NEW places, NEW k \in Nat
  PROVE  \E upTo : Selects(upTo, s, places, k)
<1> DEFINE Built(j) == \E upTo : Selects(upTo, s, places, j)
           S == {j \in Nat : Built(j)}
<1>1. 0 \in S
  <2> DEFINE nothing == [n \in 0..0 |-> << >>]
  <2>1. nothing = [n \in 0..0 |->
           IF n = 0 THEN << >>
           ELSE IF n \in places THEN Append(nothing[n - 1], s[n]) ELSE nothing[n - 1]]
    OBVIOUS
  <2> HIDE DEF nothing
  <2>2. Built(0)
    BY <2>1, Zenon DEF Selects
  <2> HIDE DEF Built
  <2>3. QED
    BY <2>2
<1>2. ASSUME NEW j \in Nat, j \in S
      PROVE  j + 1 \in S
  <2>1. PICK at : at = [n \in 0..j |->
                          IF n = 0 THEN << >>
                          ELSE IF n \in places THEN Append(at[n - 1], s[n]) ELSE at[n - 1]]
    BY <1>2, Zenon DEF Selects
  <2> DEFINE more == [n \in 0..(j + 1) |->
                        IF n <= j THEN at[n]
                        ELSE IF n \in places THEN Append(at[j], s[n]) ELSE at[j]]
  <2>2. ASSUME NEW n \in 0..(j + 1)
        PROVE  more[n] = IF n = 0 THEN << >>
                         ELSE IF n \in places THEN Append(more[n - 1], s[n]) ELSE more[n - 1]
    <3>1. CASE n = 0
      <4>1. n <= j /\ n \in 0..j
        BY <3>1
      <4>2. QED
        BY <2>1, <3>1, <4>1
    <3>2. CASE n <= j /\ n # 0
      <4>1. n \in 0..j /\ n - 1 \in 0..j /\ n - 1 \in 0..(j + 1) /\ n - 1 <= j
        BY <3>2
      <4>2. more[n] = at[n] /\ more[n - 1] = at[n - 1]
        BY <4>1
      <4>3. at[n] = IF n \in places THEN Append(at[n - 1], s[n]) ELSE at[n - 1]
        BY <2>1, <3>2, <4>1
      <4>4. QED
        BY <3>2, <4>2, <4>3
    <3>3. CASE ~(n <= j)
      <4>1. n = j + 1 /\ n - 1 = j /\ n # 0 /\ n - 1 \in 0..(j + 1) /\ n - 1 <= j
        BY <3>3
      <4>2. more[n] = (IF n \in places THEN Append(at[j], s[n]) ELSE at[j]) /\ more[n - 1] = at[j]
        BY <3>3, <4>1
      <4>3. QED
        BY <4>1, <4>2
    <3>4. QED
      BY <3>1, <3>2, <3>3
  <2>3. more = [n \in 0..(j + 1) |->
                  IF n = 0 THEN << >>
                  ELSE IF n \in places THEN Append(more[n - 1], s[n]) ELSE more[n - 1]]
    <3> HIDE DEF more
    <3>1. more = [n \in 0..(j + 1) |-> more[n]]
      BY DEF more
    <3>2. QED
      BY <2>2, <3>1
  <2> HIDE DEF more
  <2>4. Built(j + 1)
    BY <2>3, Zenon DEF Selects
  <2> HIDE DEF Built
  <2>5. QED
    BY <2>4
<1> HIDE DEF Built
<1>3. k \in S
  <2> HIDE DEF S
  <2>1. QED
    BY <1>1, <1>2, SetInduction
<1>4. QED
  BY <1>3 DEF Built

\* What is selected comes from the places, and there is nothing only if there are
\* none.
LEMMA SelectedElements ==
  ASSUME NEW s, IsSequence(s), NEW places
  PROVE  /\ IsSequence(Selected(s, places))
         /\ \A k \in DOMAIN Selected(s, places) :
              \E n \in DOMAIN s \cap places : Selected(s, places)[k] = s[n]
         /\ Selected(s, places) = << >> <=> DOMAIN s \cap places = {}
<1>1. Len(s) \in Nat /\ DOMAIN s = 1..Len(s)
  BY SequenceFacts
<1>2. PICK upTo : /\ upTo = [n \in 0..Len(s) |->
                       IF n = 0 THEN << >>
                       ELSE IF n \in places THEN Append(upTo[n - 1], s[n]) ELSE upTo[n - 1]]
                  /\ Selected(s, places) = upTo[Len(s)]
  <2>1. \E upTo : Selects(upTo, s, places, Len(s))
    BY <1>1, SelectionExists
  <2>2. QED
    BY <2>1, Zenon DEF Selects, Selected
<1> DEFINE From(n) == {s[m] : m \in (1..n) \cap places}
           S == {n \in Nat : n <= Len(s) =>
                   /\ upTo[n] \in Seq(From(n))
                   /\ upTo[n] = << >> <=> (1..n) \cap places = {}}
<1>3. 0 \in S
  BY <1>1, <1>2
<1>4. ASSUME NEW n \in Nat, n \in S
      PROVE  n + 1 \in S
  <2>1. SUFFICES ASSUME n + 1 <= Len(s)
                 PROVE  /\ upTo[n + 1] \in Seq(From(n + 1))
                        /\ upTo[n + 1] = << >> <=> (1..(n + 1)) \cap places = {}
    OBVIOUS
  <2>2. upTo[n] \in Seq(From(n)) /\ (upTo[n] = << >> <=> (1..n) \cap places = {})
    BY <1>1, <1>4, <2>1
  <2>3. n + 1 \in 0..Len(s) /\ n + 1 # 0 /\ (n + 1) - 1 = n
    BY <1>1, <2>1
  <2>4. upTo[n + 1] = IF n + 1 \in places THEN Append(upTo[n], s[n + 1]) ELSE upTo[n]
    BY <1>2, <2>3
  <2>5. From(n) \subseteq From(n + 1)
    OBVIOUS
  <2>6. upTo[n] \in Seq(From(n + 1))
    <3> HIDE DEF From
    <3>1. QED
      BY <2>2, <2>5, SeqDef
  <2>7. CASE n + 1 \in places
    <3>1. s[n + 1] \in From(n + 1)
      BY <2>7
    <3>2. (1..(n + 1)) \cap places # {}
      BY <2>7
    <3> HIDE DEF From
    <3>3. /\ Append(upTo[n], s[n + 1]) \in Seq(From(n + 1))
          /\ Append(upTo[n], s[n + 1]) # << >>
      BY <2>6, <3>1, AppendProperties
    <3>4. QED
      BY <2>4, <2>7, <3>2, <3>3
  <2>8. CASE n + 1 \notin places
    <3>1. (1..(n + 1)) \cap places = (1..n) \cap places
      BY <2>8
    <3> HIDE DEF From
    <3>2. QED
      BY <2>2, <2>4, <2>6, <2>8, <3>1
  <2>9. QED
    BY <2>7, <2>8
<1>5. upTo[Len(s)] \in Seq(From(Len(s))) /\ (upTo[Len(s)] = << >> <=> (1..Len(s)) \cap places = {})
  <2>1. Len(s) \in S
    <3> HIDE DEF S
    <3>1. QED
      BY <1>1, <1>3, <1>4, SetInduction
  <2>2. QED
    BY <1>1, <2>1
<1> HIDE DEF From
<1>6. LET t == Selected(s, places)
      IN t \in [1..Len(t) -> From(Len(s))] /\ DOMAIN t = 1..Len(t) /\ Len(t) \in Nat
  BY <1>2, <1>5, LenProperties
<1>7. IsSequence(Selected(s, places))
  BY <1>6, BuiltSequence
<1>8. \A k \in DOMAIN Selected(s, places) :
        \E n \in DOMAIN s \cap places : Selected(s, places)[k] = s[n]
  BY <1>1, <1>6 DEF From
<1>9. QED
  BY <1>1, <1>2, <1>5, <1>7, <1>8

-----------------------------------------------------------------------------
(* Streams                                                                 *)

\* What is yielded are the values of results, all of them if no error follows.
LEMMA YieldedItems ==
  ASSUME NEW results, IsSequence(results), NEW errors
  PROVE  LET out == Yielded(results, errors)
         IN /\ IsSequence(out.items) /\ DOMAIN out = {"items", "errors"}
            /\ \A n \in DOMAIN out.items :
                 n \in DOMAIN results /\ ~results[n].raised /\ out.items[n] = results[n].value
            /\ out.errors = << >> => DOMAIN out.items = DOMAIN results /\ errors = << >>
            /\ (\A n \in DOMAIN results : ~results[n].raised) =>
                 DOMAIN out.items = DOMAIN results /\ out.errors = errors
<1> DEFINE bad == {n \in DOMAIN results : results[n].raised}
           good == IF bad = {} THEN Len(results) ELSE Min(bad) - 1
           items == [n \in 1..good |-> results[n].value]
           raised == IF bad = {} THEN errors ELSE <<results[Min(bad)].error>>
<1>1. Yielded(results, errors) = [items |-> items, errors |-> raised]
  BY DEF Yielded
<1>2. Len(results) \in Nat /\ DOMAIN results = 1..Len(results)
  BY SequenceFacts
<1>3. good \in Nat /\ 1..good \subseteq DOMAIN results \ bad
  <2>1. CASE bad = {}
    BY <1>2, <2>1
  <2>2. CASE bad # {}
    <3>1. bad \in SUBSET (1..Len(results))
      BY <1>2
    <3> HIDE DEF bad
    <3>2. Min(bad) \in bad /\ \A n \in bad : Min(bad) <= n
      BY <1>2, <2>2, <3>1, LeastIsMin
    <3>3. good = Min(bad) - 1 /\ Min(bad) \in 1..Len(results)
      BY <2>2, <3>1, <3>2
    <3> HIDE DEF good
    <3>4. good \in Nat
      BY <1>2, <3>3
    <3>5. ASSUME NEW n \in 1..good
          PROVE  n \in DOMAIN results /\ n \notin bad
      <4>1. n < Min(bad) /\ n \in 1..Len(results)
        BY <1>2, <3>3
      <4>2. QED
        BY <1>2, <3>2, <3>3, <4>1
    <3>6. QED
      BY <3>4, <3>5
  <2>3. QED
    BY <2>1, <2>2
<1>4. \A n \in 1..good : n \in DOMAIN results /\ ~results[n].raised /\ items[n] = results[n].value
  BY <1>3
<1>5. raised = << >> => errors = << >> /\ 1..good = DOMAIN results
  BY <1>2
<1>6. bad = {} => raised = errors /\ 1..good = DOMAIN results
  BY <1>2
<1>7. items = [n \in 1..good |-> items[n]]
  OBVIOUS
<1> HIDE DEF good, items, raised
<1>8. IsSequence(items) /\ DOMAIN items = 1..good
  BY <1>3, <1>7, BuiltSequence
<1>9. QED
  BY <1>1, <1>4, <1>5, <1>6, <1>8

\* The results of a transform are those of the items of its source.
LEMMA ThroughItems ==
  ASSUME NEW stream, IsSequence(stream.items),
         NEW results, results = [n \in DOMAIN stream.items |-> results[n]],
         NEW out, out = Yielded(results, stream.errors)
  PROVE  /\ IsSequence(out.items) /\ DOMAIN out = {"items", "errors"}
         /\ \A n \in DOMAIN out.items :
              n \in DOMAIN stream.items /\ ~results[n].raised /\ out.items[n] = results[n].value
         /\ out.errors = << >> => DOMAIN out.items = DOMAIN stream.items /\ stream.errors = << >>
         /\ (\A n \in DOMAIN stream.items : ~results[n].raised) =>
              DOMAIN out.items = DOMAIN stream.items /\ out.errors = stream.errors
<1>1. IsSequence(results) /\ DOMAIN results = DOMAIN stream.items
  BY MappedSequence
<1>2. LET made == Yielded(results, stream.errors)
      IN /\ IsSequence(made.items) /\ DOMAIN made = {"items", "errors"}
         /\ \A n \in DOMAIN made.items :
              n \in DOMAIN results /\ ~results[n].raised /\ made.items[n] = results[n].value
         /\ made.errors = << >> => DOMAIN made.items = DOMAIN results /\ stream.errors = << >>
         /\ (\A n \in DOMAIN results : ~results[n].raised) =>
              DOMAIN made.items = DOMAIN results /\ made.errors = stream.errors
  BY <1>1, YieldedItems, ZenonT(60)
<1>3. QED
  BY <1>1, <1>2

-----------------------------------------------------------------------------
(* Headers                                                                 *)

\* set() sets its field, and leaves the others alone.
LEMMA SetHeader ==
  ASSUME NEW header, NEW field, NEW value, NEW f
  PROVE  Get(Set(header, field, value), f) = IF f = field THEN value ELSE Get(header, f)
BY DEF Get, Set, Has

\* Other fields are left alone by the operations on headers.
LEMMA SetIfHeader ==
  ASSUME NEW condition, NEW header, NEW field, NEW value, NEW f, f # field
  PROVE  Get(SetIf(condition, header, field, value), f) = Get(header, f)
BY SetHeader DEF SetIf

\* A field that is not among the new ones keeps its value.
LEMMA SetAllHeader ==
  ASSUME NEW base, NEW more, NEW f, ~Has(more, f)
  PROVE  Get(SetAll(base, more), f) = Get(base, f)
BY DEF Get, SetAll, Has

\* A field that is not deleted keeps its value.
LEMMA WithoutHeader ==
  ASSUME NEW header, NEW fields, NEW f, f \notin fields
  PROVE  Get(Without(header, fields), f) = Get(header, f)
BY DEF Get, Without, Has, Restrict

\* createRequestHeaderWithCompression() sets two fields more.
LEMMA WithCompressionHeader ==
  ASSUME NEW header, NEW sendField, NEW send, NEW acceptField, NEW accept, NEW f,
         f \notin {sendField, acceptField}
  PROVE  Get(WithCompression(header, sendField, send, acceptField, accept), f) = Get(header, f)
BY SetIfHeader DEF WithCompression

\* The interceptors of the model set one field.
LEMMA RunUnaryHeader ==
  ASSUME NEW interceptors, NEW header, NEW f, f # "x-seen"
  PROVE  Get(RunUnary(interceptors, header), f) = Get(header, f)
BY SetIfHeader DEF RunUnary

-----------------------------------------------------------------------------
(* Timeouts                                                                *)

TimeoutField(c) == IF c.protocol = "connect" THEN "connect-timeout-ms" ELSE "grpc-timeout"

\* The header of a request has the timeout of a call, in the field of its protocol.
Timed(c, header) ==
  Get(header, TimeoutField(c)) =
    CASE c.timeout = NoTimeout -> << >>
      [] c.timeout # NoTimeout /\ c.protocol = "connect" -> ConnectTimeout(c.timeout)
      [] OTHER -> GrpcTimeout(c.timeout)

\* createRequestHeader() of Connect writes the timeout.
LEMMA ConnectTimed ==
  ASSUME NEW c \in Calls, c.protocol = "connect", NEW stream, NEW binary
  PROVE  Timed(c, ConnectRequestHeader(stream, binary, c.timeout, c.header))
<1>1. Get(c.header, "connect-timeout-ms") = << >>
  BY CallsAssumption DEF Get, Has
<1>2. Get(SetIf(c.timeout # NoTimeout, c.header, "connect-timeout-ms", ConnectTimeout(c.timeout)),
          "connect-timeout-ms")
        = IF c.timeout = NoTimeout THEN << >> ELSE ConnectTimeout(c.timeout)
  BY <1>1, SetHeader DEF SetIf
<1>3. QED
  BY <1>2, SetHeader DEF Timed, TimeoutField, ConnectRequestHeader

\* createRequestHeader() of gRPC and gRPC-web writes the timeout, which nothing else touches.
LEMMA GrpcTimed ==
  ASSUME NEW c \in Calls, c.protocol # "connect", NEW binary
  PROVE  /\ Timed(c, GrpcRequestHeader(binary, c.timeout, c.header))
         /\ Timed(c, GrpcWebRequestHeader(binary, c.timeout, c.header))
<1>1. Get(c.header, "grpc-timeout") = << >>
  BY CallsAssumption DEF Get, Has
<1>2. Get(SetIf(c.timeout # NoTimeout, c.header, "grpc-timeout", GrpcTimeout(c.timeout)), "grpc-timeout")
        = IF c.timeout = NoTimeout THEN << >> ELSE GrpcTimeout(c.timeout)
  BY <1>1, SetHeader DEF SetIf
<1>3. QED
  BY <1>2, SetHeader DEF Timed, TimeoutField, GrpcRequestHeader, GrpcWebRequestHeader

\* Nothing that is set after it, compression and interceptors included, touches it.
LEMMA StaysTimed ==
  ASSUME NEW c, NEW header, Timed(c, header)
  PROVE  /\ \A interceptors : Timed(c, RunUnary(interceptors, header))
         /\ \A fields : fields \cap {"connect-timeout-ms", "grpc-timeout"} = {} =>
              Timed(c, Without(header, fields))
         /\ \A field, value : field \notin {"connect-timeout-ms", "grpc-timeout"} =>
              /\ Timed(c, Set(header, field, value))
              /\ \A condition : Timed(c, SetIf(condition, header, field, value))
         /\ \A sendField, send, acceptField, accept :
              {sendField, acceptField} \cap {"connect-timeout-ms", "grpc-timeout"} = {} =>
              Timed(c, WithCompression(header, sendField, send, acceptField, accept))
         /\ \A more : DOMAIN more \cap {"connect-timeout-ms", "grpc-timeout"} = {} =>
              Timed(c, SetAll(header, more))
<1>1. TimeoutField(c) \in {"connect-timeout-ms", "grpc-timeout"} /\ TimeoutField(c) # "x-seen"
  BY DEF TimeoutField
<1>2. \A interceptors : Timed(c, RunUnary(interceptors, header))
  BY <1>1, RunUnaryHeader DEF Timed
<1>3. \A fields : fields \cap {"connect-timeout-ms", "grpc-timeout"} = {} =>
        Timed(c, Without(header, fields))
  BY <1>1, WithoutHeader DEF Timed
<1>4. \A field, value : field \notin {"connect-timeout-ms", "grpc-timeout"} =>
        /\ Timed(c, Set(header, field, value))
        /\ \A condition : Timed(c, SetIf(condition, header, field, value))
  BY <1>1, SetHeader, SetIfHeader DEF Timed
<1>5. \A sendField, send, acceptField, accept :
        {sendField, acceptField} \cap {"connect-timeout-ms", "grpc-timeout"} = {} =>
        Timed(c, WithCompression(header, sendField, send, acceptField, accept))
  <2>1. SUFFICES ASSUME NEW sendField, NEW send, NEW acceptField, NEW accept,
                        {sendField, acceptField} \cap {"connect-timeout-ms", "grpc-timeout"} = {}
                 PROVE  Timed(c, WithCompression(header, sendField, send, acceptField, accept))
    OBVIOUS
  <2>2. TimeoutField(c) \notin {sendField, acceptField}
    BY <1>1, <2>1
  <2>3. QED
    BY <2>2, WithCompressionHeader DEF Timed
<1>6. \A more : DOMAIN more \cap {"connect-timeout-ms", "grpc-timeout"} = {} =>
        Timed(c, SetAll(header, more))
  BY <1>1, SetAllHeader DEF Timed, Has
<1>7. QED
  BY <1>2, <1>3, <1>4, <1>5, <1>6

\* What each transport sends, if it sends anything, has the header it was made with.
LEMMA UploadHeader ==
  ASSUME NEW c, NEW header, ~Upload(c, header).raised
  PROVE  Upload(c, header).value.header = header
BY DEF Upload, Request, Return, Raise

\* Neither do the browser transports lose the timeout on the way to fetch().
LEMMA WebRequestTimed ==
  ASSUME NEW c, NEW header, Timed(c, header), NEW body, ~WebRequest(header, body).raised
  PROVE  Timed(c, WebRequest(header, body).value.header)
<1> DEFINE sent == Set(header, "accept-encoding", <<Gzip, "deflate", Brotli>>)
           length == <<Size(body.value.data)>>
<1>1. ~body.raised
  BY DEF WebRequest, Fetched
<1>2. WebRequest(header, body).value.header
        = SetIf(body.value.is = "bare", sent, "content-length", length)
  BY <1>1 DEF WebRequest, Fetched, Request, Return
<1>3. Timed(c, sent)
  BY StaysTimed
<1> HIDE DEF sent, length
<1>4. Timed(c, SetIf(body.value.is = "bare", sent, "content-length", length))
  BY <1>3, StaysTimed
<1>5. QED
  BY <1>2, <1>4

\* The requests of createConnectTransport() of connect-node
LEMMA NodeConnectTimed ==
  ASSUME NEW c \in Calls, c.protocol = "connect"
  PROVE  /\ ~NodeConnectUnaryRequest(c).raised =>
              Timed(c, NodeConnectUnaryRequest(c).value.header)
         /\ ~NodeConnectStreamRequest(c).raised =>
              Timed(c, NodeConnectStreamRequest(c).value.header)
<1> DEFINE Header(stream) ==
             RunUnary(c.interceptors, ConnectRequestHeaderWithCompression(
               stream, c.client.binary, c.timeout, c.header, c.client.accept, c.client.send))
<1>1. ASSUME NEW stream
      PROVE  Timed(c, Header(stream))
  <2>1. {ConnectEncoding(stream), ConnectAcceptEncoding(stream)}
          \cap {"connect-timeout-ms", "grpc-timeout"} = {}
    BY DEF ConnectEncoding, ConnectAcceptEncoding
  <2>2. Timed(c, ConnectRequestHeader(stream, c.client.binary, c.timeout, c.header))
    BY ConnectTimed
  <2>3. Timed(c, ConnectRequestHeaderWithCompression(
                   stream, c.client.binary, c.timeout, c.header, c.client.accept, c.client.send))
    BY <2>1, <2>2, StaysTimed DEF ConnectRequestHeaderWithCompression
  <2>4. QED
    BY <2>3, StaysTimed
<1>2. \/ NodeConnectUnaryRequest(c).raised
      \/ NodeConnectUnaryRequest(c).value.header
           \in {Set(Header(FALSE), "content-encoding", <<c.client.send>>),
                Without(Header(FALSE), {"content-encoding"})}
  BY DEF NodeConnectUnaryRequest, Request, Return, Raise
<1>3. NodeConnectStreamRequest(c) = Upload(c, Header(TRUE))
  BY DEF NodeConnectStreamRequest, RunStreaming
<1> HIDE DEF Header
<1>4. /\ Timed(c, Set(Header(FALSE), "content-encoding", <<c.client.send>>))
      /\ Timed(c, Without(Header(FALSE), {"content-encoding"}))
  <2>1. {"content-encoding"} \cap {"connect-timeout-ms", "grpc-timeout"} = {}
    OBVIOUS
  <2>2. QED
    BY <1>1, <2>1, StaysTimed
<1>5. QED
  BY <1>1, <1>2, <1>3, <1>4, UploadHeader

\* The requests of createGrpcTransport() and createGrpcWebTransport() of connect-node
LEMMA NodeGrpcTimed ==
  ASSUME NEW c \in Calls, c.protocol # "connect",
         NEW made \in {NodeGrpcUnaryRequest(c), NodeGrpcStreamRequest(c),
                           NodeGrpcWebUnaryRequest(c), NodeGrpcWebStreamRequest(c)},
         ~made.raised
  PROVE  Timed(c, made.value.header)
<1> DEFINE Header(base) ==
             RunUnary(c.interceptors, WithCompression(
               base, "grpc-encoding", c.client.send, "grpc-accept-encoding", c.client.accept))
           grpc == Header(GrpcRequestHeader(c.client.binary, c.timeout, c.header))
           web == Header(GrpcWebRequestHeader(c.client.binary, c.timeout, c.header))
<1>1. ASSUME NEW base, Timed(c, base)
      PROVE  Timed(c, Header(base))
  <2>1. {"grpc-encoding", "grpc-accept-encoding"} \cap {"connect-timeout-ms", "grpc-timeout"} = {}
    OBVIOUS
  <2>2. QED
    BY <1>1, <2>1, StaysTimed
<1>2. made \in {Upload(c, grpc), Upload(c, web)}
  BY DEF NodeGrpcUnaryRequest, NodeGrpcStreamRequest, NodeGrpcWebUnaryRequest,
         NodeGrpcWebStreamRequest, RunStreaming, GrpcRequestHeaderWithCompression,
         GrpcWebRequestHeaderWithCompression
<1> HIDE DEF Header
<1>3. Timed(c, grpc) /\ Timed(c, web)
  BY <1>1, GrpcTimed
<1> HIDE DEF grpc, web
<1>4. QED
  BY <1>2, <1>3, UploadHeader

\* The requests of both createConnectTransport() for browsers
LEMMA WebConnectTimed ==
  ASSUME NEW c \in Calls, c.protocol = "connect",
         NEW made \in {WebConnectUnaryRequest(c), WebConnectStreamRequest(c),
                       LegacyConnectUnaryRequest(c), LegacyConnectStreamRequest(c)},
         ~made.raised
  PROVE  Timed(c, made.value.header)
<1> DEFINE Header(stream) == RunUnary(c.interceptors,
             ConnectRequestHeader(stream, c.client.binary, c.timeout, c.header))
<1>1. Timed(c, Header(TRUE)) /\ Timed(c, Header(FALSE))
  BY ConnectTimed, StaysTimed
<1>2. made \in {WebRequest(Header(FALSE), WebBody(c, FALSE)),
                WebRequest(Header(TRUE), WebConnectRequestBody(c)),
                WebRequest(Header(FALSE), LegacyConnectBody(c)),
                WebRequest(Header(TRUE), LegacyConnectBody(c))}
  BY DEF WebConnectUnaryRequest, WebConnectStreamRequest, LegacyConnectUnaryRequest,
         LegacyConnectStreamRequest, RunStreaming, LegacyRunUnary, LegacyRunServerStream,
         LegacyConnectHeader
<1> HIDE DEF Header
<1>3. QED
  BY <1>1, <1>2, WebRequestTimed

\* The requests of both createGrpcWebTransport() for browsers
LEMMA WebGrpcWebTimed ==
  ASSUME NEW c \in Calls, c.protocol # "connect",
         NEW made \in {WebGrpcWebUnaryRequest(c), WebGrpcWebStreamRequest(c),
                       LegacyGrpcWebUnaryRequest(c), LegacyGrpcWebStreamRequest(c)},
         ~made.raised
  PROVE  Timed(c, made.value.header)
<1> DEFINE next == RunUnary(c.interceptors,
                     GrpcWebRequestHeader(c.client.binary, c.timeout, c.header))
           agent == Set(GrpcWebRequestHeader(TRUE, c.timeout, c.header),
                        "x-user-agent", <<"@bufbuild/connect-web">>)
           legacy == RunUnary(c.interceptors, agent)
<1>1. Timed(c, next)
  BY GrpcTimed, StaysTimed
<1>2. Timed(c, legacy)
  <2>1. Timed(c, agent)
    BY GrpcTimed, StaysTimed
  <2> HIDE DEF agent
  <2>2. QED
    BY <2>1, StaysTimed
<1>3. made \in {WebRequest(next, WebBody(c, TRUE)), WebRequest(next, WebGrpcWebRequestBody(c)),
                WebRequest(legacy, LegacyGrpcWebBody(c))}
  BY DEF WebGrpcWebUnaryRequest, WebGrpcWebStreamRequest, LegacyGrpcWebUnaryRequest,
         LegacyGrpcWebStreamRequest, RunStreaming, LegacyRunUnary, LegacyRunServerStream,
         LegacyGrpcWebHeader
<1> HIDE DEF next, legacy
<1>4. QED
  BY <1>1, <1>2, <1>3, WebRequestTimed

\* Whatever the transport, a request has the timeout of its call.
LEMMA RequestTimed ==
  ASSUME NEW c \in Calls, ~MakeRequest(c).raised
  PROVE  Timed(c, MakeRequest(c).value.header)
<1>1. CASE c.protocol = "connect"
  <2>1. MakeRequest(c) \in
          {NodeConnectUnaryRequest(c), NodeConnectStreamRequest(c),
           WebConnectUnaryRequest(c), WebConnectStreamRequest(c),
           LegacyConnectUnaryRequest(c), LegacyConnectStreamRequest(c)}
    BY <1>1, CallsAssumption DEF MakeRequest
  <2>2. QED
    BY <1>1, <2>1, NodeConnectTimed, WebConnectTimed
<1>2. CASE c.protocol # "connect"
  <2>1. MakeRequest(c) \in
          {NodeGrpcUnaryRequest(c), NodeGrpcStreamRequest(c),
           NodeGrpcWebUnaryRequest(c), NodeGrpcWebStreamRequest(c),
           WebGrpcWebUnaryRequest(c), WebGrpcWebStreamRequest(c),
           LegacyGrpcWebUnaryRequest(c), LegacyGrpcWebStreamRequest(c)}
    BY <1>2, CallsAssumption DEF MakeRequest
  <2>2. QED
    BY <1>2, <2>1, NodeGrpcTimed, WebGrpcWebTimed
<1>3. QED
  BY <1>1, <1>2

\* What is read of a header with the timeout of a call
Understood(c, header) ==
  LET read == IF c.protocol = "connect" THEN ConnectParseTimeout(Get(header, "connect-timeout-ms"))
              ELSE GrpcParseTimeout(Get(header, "grpc-timeout"))
  IN \/ read = Return(c.timeout)
     \/ c.protocol = "connect" /\ c.timeout >= ElevenDigits /\ read.raised
     \/ c.protocol # "connect" /\ c.timeout >= NineDigits /\ read.raised

\* parseTimeout() is the inverse of what is written, up to ten digits, or eight for gRPC.
LEMMA TimeoutIsRead ==
  ASSUME NEW c \in Calls, NEW header, Timed(c, header)
  PROVE  Understood(c, header)
<1>1. c.timeout \in Nat \cup {-1}
  BY CallsAssumption DEF NoTimeout
<1>2. CASE c.timeout = NoTimeout
  BY <1>2 DEF Timed, TimeoutField, Understood, ConnectParseTimeout, GrpcParseTimeout
<1>3. CASE c.timeout # NoTimeout /\ c.protocol = "connect"
  <2>1. Get(header, "connect-timeout-ms") = <<c.timeout>>
    BY <1>3 DEF Timed, TimeoutField, ConnectTimeout
  <2> DEFINE value == <<c.timeout>>
             error == SimpleError("invalid connect timeout", Code.InvalidArgument)
  <2>2. /\ value # << >> /\ value[1] = c.timeout
        /\ c.timeout < ElevenDigits \/ c.timeout >= ElevenDigits
    BY <1>1, <1>3, DigitsAssumption DEF NoTimeout
  <2> HIDE DEF value, error
  <2>3. ConnectParseTimeout(value) = IF c.timeout < ElevenDigits THEN Return(c.timeout) ELSE Raise(error)
    BY <2>2 DEF ConnectParseTimeout, error
  <2>4. Raise(error).raised
    BY Outcomes, Zenon
  <2>5. QED
    BY <1>3, <2>1, <2>2, <2>3, <2>4 DEF Understood, value
<1>4. CASE c.timeout # NoTimeout /\ c.protocol # "connect"
  <2>1. Get(header, "grpc-timeout") = <<c.timeout, "m">>
    BY <1>4 DEF Timed, TimeoutField, GrpcTimeout
  <2>2. Unit["m"] = 1
    BY DEF Unit
  <2>3. c.timeout \in Nat /\ NineDigits \in Nat
    BY <1>1, <1>4 DEF NoTimeout, NineDigits
  <2>4. GrpcParseTimeout(<<c.timeout, "m">>)
          = IF c.timeout < NineDigits THEN Return(c.timeout)
            ELSE Raise(SimpleError("invalid grpc timeout", Code.InvalidArgument))
    <3> DEFINE value == <<c.timeout, "m">>
    <3>1. value # << >> /\ value[1] = c.timeout /\ value[2] = "m"
      OBVIOUS
    <3> HIDE DEF value
    <3>2. c.timeout * Unit["m"] = c.timeout
      BY <2>2, <2>3
    <3>3. GrpcParseTimeout(value)
            = IF c.timeout < NineDigits THEN Return(c.timeout)
              ELSE Raise(SimpleError("invalid grpc timeout", Code.InvalidArgument))
      BY <3>1, <3>2, <2>3 DEF GrpcParseTimeout
    <3>4. QED
      BY <3>3 DEF value
  <2>5. CASE c.timeout < NineDigits
    BY <1>4, <2>1, <2>4, <2>5 DEF Understood
  <2>6. CASE ~(c.timeout < NineDigits)
    <3>1. c.timeout >= NineDigits
      BY <2>3, <2>6
    <3>2. GrpcParseTimeout(<<c.timeout, "m">>).raised
      <4>1. GrpcParseTimeout(<<c.timeout, "m">>)
              = Raise(SimpleError("invalid grpc timeout", Code.InvalidArgument))
        BY <2>4, <2>6, Zenon
      <4>2. QED
        BY <4>1, Outcomes, Zenon
    <3>3. QED
      BY <1>4, <2>1, <3>1, <3>2 DEF Understood
  <2>7. QED
    BY <2>5, <2>6
<1>5. QED
  BY <1>2, <1>3, <1>4

-----------------------------------------------------------------------------
(* Limits on what is read                                                  *)

\* An envelope that is read counts for no more than the limit, once it is not
\* compressed.
Within(data, max) == IsData(data) /\ (data.zip = "identity" => data.plain <= max)

\* Messages that were read with a limit
AllWithin(messages, max) == \A n \in DOMAIN messages : messages[n].size <= max

\* A message is not larger than the data it is parsed from.
LEMMA ParsedWithin ==
  ASSUME NEW data, NEW binary, NEW max, Within(data, max), ~Parse(data, binary).raised
  PROVE  Parse(data, binary).value.size <= max
<1>1. data.zip = "identity" /\ Parse(data, binary).value.size = data.plain
  <2>1. CASE binary
    BY <2>1 DEF Parse, BinaryParse, Return, Raise, Within, IsData, Message
  <2>2. CASE ~binary
    BY <2>2 DEF Parse, JsonParse, Return, Raise, Within, IsData
  <2>3. QED
    BY <2>1, <2>2
<1>2. QED
  BY <1>1 DEF Within

\* decompress() looks at the limit.
LEMMA DecompressedWithin ==
  ASSUME NEW data, IsData(data), NEW compression, NEW max, ~Decompress(data, compression, max).raised
  PROVE  Within(Decompress(data, compression, max).value, max)
<1>1. /\ data.plain <= max
      /\ Decompress(data, compression, max).value = [data EXCEPT !.zip = "identity"]
  BY DEF Decompress, Return, Raise, WithinReadMax
<1>2. QED
  BY <1>1 DEF Within, IsData

\* transformSplitEnvelope() looks at the limit, and passes no short envelope on.
LEMMA SplitWithin ==
  ASSUME NEW body, IsBody(body), NEW max
  PROVE  LET out == TransformSplitEnvelope(body, max)
         IN /\ IsSequence(out.items)
            /\ \A n \in DOMAIN out.items :
                 /\ body.is = "envelopes" /\ n \in DOMAIN body.envelopes
                 /\ out.items[n] = body.envelopes[n] /\ ~IsShort(out.items[n])
                 /\ Within(out.items[n].data, max)
<1> DEFINE source == CASE body.is = "envelopes" -> Stream(body.envelopes)
                       [] body.is = "bare" /\ Size(body.data) = 0 -> Stream(<< >>)
                       [] OTHER -> [items |-> << >>,
                                    errors |-> <<SimpleError("premature end", Code.InvalidArgument)>>]
           promised(e) == IF IsShort(e) THEN e.promised ELSE Size(e.data)
           Split(e) == CASE ~WithinReadMax(max, promised(e)) -> Raise(TooLarge)
                         [] WithinReadMax(max, promised(e)) /\ IsShort(e) ->
                              Raise(SimpleError("promised other bytes", Code.InvalidArgument))
                         [] OTHER -> Return(e)
           results == [n \in DOMAIN source.items |-> Split(source.items[n])]
<1>1. source.items = IF body.is = "envelopes" THEN body.envelopes ELSE << >>
  BY DEF Stream
<1> HIDE DEF source
<1>2. IsSequence(source.items)
  BY <1>1, EmptySequence DEF IsBody
<1>3. TransformSplitEnvelope(body, max) = Yielded(results, source.errors)
  BY DEF TransformSplitEnvelope, Through, source
<1>4. results = [n \in DOMAIN source.items |-> results[n]]
  OBVIOUS
<1>5. \A n \in DOMAIN source.items : ~results[n].raised =>
        /\ results[n].value = source.items[n] /\ ~IsShort(source.items[n])
        /\ Size(source.items[n].data) <= max
  <2>1. ASSUME NEW e, ~Split(e).raised
        PROVE  Split(e).value = e /\ ~IsShort(e) /\ Size(e.data) <= max
    BY <2>1, Outcomes DEF WithinReadMax
  <2> HIDE DEF Split
  <2>2. QED
    BY <2>1
<1> HIDE DEF results
<1> DEFINE out == TransformSplitEnvelope(body, max)
<1> HIDE DEF out
<1>6. /\ IsSequence(out.items)
      /\ \A n \in DOMAIN out.items :
           n \in DOMAIN source.items /\ ~results[n].raised /\ out.items[n] = results[n].value
  BY <1>2, <1>3, <1>4, ThroughItems DEF out
<1>7. ASSUME NEW n \in DOMAIN out.items
      PROVE  /\ body.is = "envelopes" /\ n \in DOMAIN body.envelopes
             /\ out.items[n] = body.envelopes[n] /\ ~IsShort(out.items[n])
             /\ Within(out.items[n].data, max)
  <2>1. /\ n \in DOMAIN source.items /\ out.items[n] = source.items[n]
        /\ ~IsShort(source.items[n]) /\ Size(source.items[n].data) <= max
    BY <1>5, <1>6
  <2>2. body.is = "envelopes" /\ n \in DOMAIN body.envelopes /\ out.items[n] = body.envelopes[n]
    BY <1>1, <2>1, EmptySequence
  <2>3. IsData(out.items[n].data) /\ Size(out.items[n].data) <= max
    BY <2>1, <2>2 DEF IsBody
  <2>4. QED
    BY <2>1, <2>2, <2>3 DEF Within, Size
<1>8. QED
  BY <1>6, <1>7 DEF out

-----------------------------------------------------------------------------
(* The deadline                                                            *)

\* What Send writes, the pseudo-headers of Node.js included, has the timeout.
LEMMA SentTimed ==
  ASSUME call \in Calls, Send, pc' = "sent"
  PROVE  /\ request' # << >> => Timed(call, request'[1].header)
         /\ call' = call
<1> DEFINE pseudo == IF call.httpVersion = "2" THEN Field(":method", <<"POST">>) ELSE NoHeaders
           header == MakeRequest(call).value.header
<1>1. /\ ~MakeRequest(call).raised
      /\ request'[1].header = WebHeaderToNodeHeaders(header, pseudo)
      /\ call' = call
  BY DEF Send, Settle
<1>2. DOMAIN pseudo \cap {"connect-timeout-ms", "grpc-timeout"} = {}
  BY DEF Field, Set, NoHeaders
<1>3. Timed(call, header)
  BY <1>1, RequestTimed
<1> HIDE DEF pseudo, header
<1>4. Timed(call, SetAll(header, pseudo))
  BY <1>2, <1>3, StaysTimed
<1>5. QED
  BY <1>1, <1>4 DEF WebHeaderToNodeHeaders

\* Whatever a client sends, a server of its protocol reads the timeout of the call,
\* or refuses what has nine digits - eleven, for Connect.  Nothing but Send makes a request that is on its
\* way.
THEOREM DeadlineIsReadAsSent == Spec => []DeadlineIsUnderstood
<1> DEFINE Inv == call \in Calls /\ DeadlineIsUnderstood
<1>1. Init => Inv
  BY DEF Init, DeadlineIsUnderstood
<1>2. Inv /\ [Next]_vars => Inv'
  <2>1. SUFFICES ASSUME Inv, [Next]_vars
                 PROVE  Inv'
    OBVIOUS
  <2>2. CASE Send /\ pc' = "sent"
    <3>1. call' \in Calls /\ (request' # << >> => Timed(call', request'[1].header))
      BY <2>1, <2>2, SentTimed
    <3>2. request' # << >> => Understood(call', request'[1].header)
      BY <3>1, TimeoutIsRead
    <3>3. QED
      BY <3>1, <3>2 DEF DeadlineIsUnderstood, Understood
  <2>3. CASE Send /\ pc' # "sent"
    BY <2>1, <2>3 DEF Send, DeadlineIsUnderstood
  <2>4. CASE ForeignSends \/ Serve \/ Proxy \/ ConnectionFails \/ Read
    BY <2>1, <2>4 DEF ForeignSends, Serve, Proxy, ConnectionFails, Read, Settle, DeadlineIsUnderstood
  <2>5. CASE UNCHANGED vars
    BY <2>1, <2>5 DEF vars, DeadlineIsUnderstood
  <2>6. QED
    BY <2>1, <2>2, <2>3, <2>4, <2>5 DEF Next
<1>3. QED
  BY <1>1, <1>2, PTL DEF Spec

-----------------------------------------------------------------------------
(* What is read, transform by transform                                    *)

LEMMA DecompressedItems ==
  ASSUME NEW stream, IsSequence(stream.items), NEW compression, NEW max,
         NEW out, out = TransformDecompressEnvelope(stream, compression, max)
  PROVE  /\ IsSequence(out.items)
         /\ \A n \in DOMAIN out.items :
              /\ n \in DOMAIN stream.items
              /\ out.items[n].flags = stream.items[n].flags \ {"compressed"}
              /\ Within(stream.items[n].data, max) =>
                   /\ Within(out.items[n].data, max)
                   /\ out.items[n].data.content = stream.items[n].data.content
<1> DEFINE results == [n \in DOMAIN stream.items |->
                         EnvelopeDecompress(stream.items[n], compression, max)]
<1>1. out = Yielded(results, stream.errors)
  BY DEF TransformDecompressEnvelope, Through
<1>2. results = [n \in DOMAIN stream.items |-> results[n]]
  OBVIOUS
<1>3. \A n \in DOMAIN stream.items : results[n] = EnvelopeDecompress(stream.items[n], compression, max)
  OBVIOUS
<1> HIDE DEF results
<1>4. /\ IsSequence(out.items)
      /\ \A n \in DOMAIN out.items :
           n \in DOMAIN stream.items /\ ~results[n].raised /\ out.items[n] = results[n].value
  BY <1>1, <1>2, ThroughItems
<1>5. ASSUME NEW e, ~EnvelopeDecompress(e, compression, max).raised
      PROVE  LET value == EnvelopeDecompress(e, compression, max).value
             IN /\ value.flags = e.flags \ {"compressed"}
                /\ Within(e.data, max) =>
                     Within(value.data, max) /\ value.data.content = e.data.content
  <2>1. CASE "compressed" \notin e.flags
    <3>1. EnvelopeDecompress(e, compression, max).value = e
      BY <2>1, Outcomes DEF EnvelopeDecompress
    <3>2. QED
      BY <2>1, <3>1
  <2>2. CASE "compressed" \in e.flags
    <3>1. /\ ~Decompress(e.data, compression, max).raised
          /\ EnvelopeDecompress(e, compression, max).value
               = Envelope(e.flags \ {"compressed"}, Decompress(e.data, compression, max).value)
      BY <1>5, <2>2, Outcomes DEF EnvelopeDecompress
    <3>2. IsData(e.data) => Decompress(e.data, compression, max).value.content = e.data.content
      <4>1. Decompress(e.data, compression, max).value = [e.data EXCEPT !.zip = "identity"]
        BY <3>1, Outcomes DEF Decompress
      <4>2. QED
        BY <4>1 DEF IsData
    <3>3. QED
      BY <3>1, <3>2, DecompressedWithin DEF Envelope, Within
  <2>3. QED
    BY <2>1, <2>2
<1>6. QED
  BY <1>3, <1>4, <1>5

\* transformParseEnvelope() yields no message that is larger than its envelope.
LEMMA ParsedItems ==
  ASSUME NEW stream, IsSequence(stream.items), NEW binary, NEW endFlag, NEW max,
         \A n \in DOMAIN stream.items : Within(stream.items[n].data, max),
         NEW out, out = TransformParseEnvelope(stream, binary, endFlag)
  PROVE  IsSequence(out.items) /\ AllWithin(out.items, max)
<1> DEFINE places == {n \in DOMAIN stream.items : endFlag \notin stream.items[n].flags}
           source == [stream EXCEPT !.items = Selected(@, places)]
           results == [n \in DOMAIN source.items |-> Parse(source.items[n].data, binary)]
<1>1. out = Yielded(results, source.errors)
  BY DEF TransformParseEnvelope, Through
<1>2. results = [n \in DOMAIN source.items |-> results[n]]
  OBVIOUS
<1>3. \A n \in DOMAIN source.items : results[n] = Parse(source.items[n].data, binary)
  OBVIOUS
<1>4. source.items = Selected(stream.items, places)
  OBVIOUS
<1> HIDE DEF results, source, places
<1>5. /\ IsSequence(source.items)
      /\ \A n \in DOMAIN source.items : Within(source.items[n].data, max)
  BY <1>4, SelectedElements
<1>6. /\ IsSequence(out.items)
      /\ \A n \in DOMAIN out.items :
           n \in DOMAIN source.items /\ ~results[n].raised /\ out.items[n] = results[n].value
  BY <1>1, <1>2, <1>5, ThroughItems
<1>7. QED
  BY <1>3, <1>5, <1>6, ParsedWithin DEF AllWithin

\* The same of the messages, with ends among them
ParsedFrom(items, envelopes, endFlag, max) ==
  \A n \in DOMAIN items :
    /\ n \in DOMAIN envelopes /\ items[n].end = (endFlag \in envelopes[n].flags)
    /\ ~items[n].end /\ Within(envelopes[n].data, max) => items[n].value.size <= max
    /\ items[n].end /\ endFlag = "end" => ~EndStreamParse(envelopes[n].data).raised

LEMMA ParsedAndEndItems ==
  ASSUME NEW stream, IsSequence(stream.items), NEW binary, NEW endFlag, NEW max,
         NEW out, out = TransformParseEnvelopeAndEnd(stream, binary, endFlag)
  PROVE  IsSequence(out.items) /\ ParsedFrom(out.items, stream.items, endFlag, max)
<1> DEFINE EndParse(data) == IF endFlag = "end" THEN EndStreamParse(data) ELSE TrailerDeserialize(data)
           Value(e) == IF endFlag \in e.flags THEN EndParse(e.data) ELSE Parse(e.data, binary)
           Parsed(e) == IF Value(e).raised THEN Value(e)
                        ELSE Return([end |-> endFlag \in e.flags, value |-> Value(e).value])
           results == [n \in DOMAIN stream.items |-> Parsed(stream.items[n])]
<1>1. out = Yielded(results, stream.errors)
  BY DEF TransformParseEnvelopeAndEnd, Through
<1>2. results = [n \in DOMAIN stream.items |-> results[n]]
  OBVIOUS
<1>3. \A n \in DOMAIN stream.items : results[n] = Parsed(stream.items[n])
  OBVIOUS
<1> HIDE DEF results
<1>4. /\ IsSequence(out.items)
      /\ \A n \in DOMAIN out.items :
           n \in DOMAIN stream.items /\ ~results[n].raised /\ out.items[n] = results[n].value
  BY <1>1, <1>2, ThroughItems
<1>5. ASSUME NEW e, ~Parsed(e).raised
      PROVE  /\ Parsed(e).value.end = (endFlag \in e.flags)
             /\ ~Parsed(e).value.end /\ Within(e.data, max) => Parsed(e).value.value.size <= max
             /\ endFlag \in e.flags /\ endFlag = "end" => ~EndStreamParse(e.data).raised
  <2>1. ~Value(e).raised
    BY <1>5
  <2>2. endFlag \in e.flags /\ endFlag = "end" => ~EndStreamParse(e.data).raised
    BY <2>1
  <2> HIDE DEF Value
  <2>3. Parsed(e).value = [end |-> endFlag \in e.flags, value |-> Value(e).value]
    BY <2>1, Outcomes
  <2>4. endFlag \notin e.flags => Value(e) = Parse(e.data, binary)
    BY DEF Value
  <2> HIDE DEF Parsed
  <2>5. Parsed(e).value.end = (endFlag \in e.flags) /\ Parsed(e).value.value = Value(e).value
    BY <2>3
  <2>6. QED
    BY <2>1, <2>2, <2>4, <2>5, ParsedWithin
<1> HIDE DEF Parsed
<1>6. \A n \in DOMAIN out.items : n \in DOMAIN stream.items /\ ~Parsed(stream.items[n]).raised
                                  /\ out.items[n] = Parsed(stream.items[n]).value
  BY <1>3, <1>4
<1>7. QED
  BY <1>4, <1>5, <1>6, Zenon DEF ParsedFrom

-----------------------------------------------------------------------------
(* What is sent, transform by transform                                    *)

\* A message in an envelope is no larger than the limit.  The end of a stream is no
\* message.
Limited(envelope, max) ==
  /\ IsData(envelope.data)
  /\ envelope.data.content.is = "message" => envelope.data.content.size <= max

\* What compresses an envelope gets none that is compressed.
Sendable(envelope, max) == "compressed" \notin envelope.flags /\ Limited(envelope, max)
AllSendable(envelopes, max) == \A n \in DOMAIN envelopes : Sendable(envelopes[n], max)

\* The envelopes of messages have no flags before they are compressed.
AllUnflagged(envelopes) == \A n \in DOMAIN envelopes : envelopes[n].flags = {}

\* Whether an envelope is compressed changes on its way, but no other flag of it.
SameFlags(a, b) == \A flag : flag # "compressed" => (flag \in a.flags <=> flag \in b.flags)

SameLength(a, b) == Len(a) = Len(b)

\* transformNormalizeMessage() yields as many as it gets.
LEMMA NormalizedItems ==
  ASSUME NEW stream, IsSequence(stream.items)
  PROVE  IsSequence(TransformNormalizeMessage(stream).items)
<1> DEFINE results == [n \in DOMAIN stream.items |->
                         Return(Message(stream.items[n].size, stream.items[n].any))]
           out == TransformNormalizeMessage(stream)
<1>1. out = Yielded(results, stream.errors)
  BY DEF TransformNormalizeMessage, Through
<1>2. results = [n \in DOMAIN stream.items |-> results[n]]
  OBVIOUS
<1> HIDE DEF results, out
<1>3. IsSequence(out.items)
  BY <1>1, <1>2, ThroughItems
<1>4. QED
  BY <1>3 DEF out

\* What serialize() returns is the data of the message.
LEMMA SerializedData ==
  ASSUME NEW message, NEW binary, ~Serialize(message, binary).raised
  PROVE  LET data == Serialize(message, binary).value
         IN IsData(data) /\ Size(data) = message.size /\ data.content = message
BY DEF Serialize, BinarySerialize, JsonSerialize, Return, Raise, Data, IsData, Size

\* transformSerializeEnvelope() yields unflagged envelopes within the limit.
LEMMA SerializedItems ==
  ASSUME NEW stream, IsSequence(stream.items), NEW binary, NEW max,
         NEW out, out = TransformSerializeEnvelope(stream, binary, max)
  PROVE  /\ IsSequence(out.items)
         /\ \A n \in DOMAIN out.items : out.items[n].flags = {} /\ Sendable(out.items[n], max)
         /\ out.errors = << >> => DOMAIN out.items = DOMAIN stream.items /\ stream.errors = << >>
<1> DEFINE Serialized(message) ==
             LET data == Serialize(message, binary)
             IN CASE data.raised -> data
                  [] ~data.raised /\ ~WithinWriteMax(max, Size(data.value)) -> Raise(TooLarge)
                  [] OTHER -> Return(Envelope({}, data.value))
           results == [n \in DOMAIN stream.items |-> Serialized(stream.items[n])]
<1>1. out = Yielded(results, stream.errors)
  BY DEF TransformSerializeEnvelope, Through
<1>2. results = [n \in DOMAIN stream.items |-> results[n]]
  OBVIOUS
<1>3. \A n \in DOMAIN stream.items : results[n] = Serialized(stream.items[n])
  OBVIOUS
<1> HIDE DEF results
<1>4. /\ IsSequence(out.items)
      /\ \A n \in DOMAIN out.items :
           n \in DOMAIN stream.items /\ ~results[n].raised /\ out.items[n] = results[n].value
      /\ out.errors = << >> => DOMAIN out.items = DOMAIN stream.items /\ stream.errors = << >>
  BY <1>1, <1>2, ThroughItems
<1>5. ASSUME NEW message, ~Serialized(message).raised
      PROVE  Serialized(message).value.flags = {} /\ Sendable(Serialized(message).value, max)
  <2> DEFINE data == Serialize(message, binary)
  <2>1. ~data.raised /\ Size(data.value) <= max /\ Serialized(message) = Return(Envelope({}, data.value))
    BY <1>5, Outcomes DEF WithinWriteMax
  <2>2. IsData(data.value) /\ Size(data.value) = message.size /\ data.value.content = message
    BY <2>1, SerializedData
  <2> HIDE DEF data, Serialized
  <2>3. Serialized(message).value = Envelope({}, data.value)
    BY <2>1, Outcomes
  <2>4. Envelope({}, data.value).flags = {} /\ Envelope({}, data.value).data = data.value
    BY DEF Envelope
  <2>5. QED
    BY <2>1, <2>2, <2>3, <2>4 DEF Sendable, Limited
<1> HIDE DEF Serialized
<1>6. QED
  BY <1>3, <1>4, <1>5

\* Nothing that is sendable fails to be compressed.
LEMMA CompressedItems ==
  ASSUME NEW stream, IsSequence(stream.items), NEW compression, NEW minBytes, NEW max,
         AllSendable(stream.items, max),
         NEW out, out = TransformCompressEnvelope(stream, compression, minBytes)
  PROVE  /\ IsSequence(out.items)
         /\ SameLength(out.items, stream.items)
         /\ \A n \in DOMAIN out.items :
              Limited(out.items[n], max) /\ SameFlags(out.items[n], stream.items[n])
         /\ out.errors = stream.errors
<1> DEFINE results == [n \in DOMAIN stream.items |->
                         EnvelopeCompress(stream.items[n], compression, minBytes)]
<1>1. out = Yielded(results, stream.errors)
  BY DEF TransformCompressEnvelope, Through
<1>2. results = [n \in DOMAIN stream.items |-> results[n]]
  OBVIOUS
<1>3. \A n \in DOMAIN stream.items :
        results[n] = EnvelopeCompress(stream.items[n], compression, minBytes)
  OBVIOUS
<1> HIDE DEF results
<1>4. ASSUME NEW e, Sendable(e, max)
      PROVE  LET result == EnvelopeCompress(e, compression, minBytes)
             IN /\ ~result.raised /\ Limited(result.value, max)
                /\ SameFlags(result.value, e)
  <2> DEFINE zipped == Envelope(e.flags \cup {"compressed"}, Compress(e.data, compression))
  <2>1. EnvelopeCompress(e, compression, minBytes) \in {Return(zipped), Return(e)}
    BY <1>4 DEF EnvelopeCompress, Sendable
  <2>2. Limited(e, max) /\ SameFlags(e, e)
    BY <1>4 DEF Sendable, SameFlags
  <2>3. Limited(zipped, max) /\ SameFlags(zipped, e)
    BY <2>2 DEF Limited, IsData, Compress, Envelope, SameFlags
  <2> HIDE DEF zipped
  <2>4. QED
    BY <2>1, <2>2, <2>3, Outcomes
<1>5. \A n \in DOMAIN stream.items :
        /\ ~results[n].raised /\ Limited(results[n].value, max)
        /\ SameFlags(results[n].value, stream.items[n])
  BY <1>3, <1>4 DEF AllSendable
<1>6. /\ IsSequence(out.items)
      /\ \A n \in DOMAIN out.items :
           n \in DOMAIN stream.items /\ ~results[n].raised /\ out.items[n] = results[n].value
  BY <1>1, <1>2, ThroughItems
<1>7. DOMAIN out.items = DOMAIN stream.items /\ out.errors = stream.errors
  <2>1. \A n \in DOMAIN stream.items : ~results[n].raised
    BY <1>5
  <2>2. QED
    BY <1>1, <1>2, <2>1, ThroughItems
<1>8. SameLength(out.items, stream.items)
  BY <1>6, <1>7, SequenceFacts DEF SameLength
<1>9. QED
  BY <1>5, <1>6, <1>7, <1>8

\* The body of what was joined has the envelopes that were sent.
LEMMA JoinedBody ==
  ASSUME NEW stream, IsSequence(stream.items), NEW max,
         \A n \in DOMAIN stream.items : Limited(stream.items[n], max),
         NEW body, body = Joined(TransformJoinEnvelopes(stream))
  PROVE  /\ body.is = "envelopes" /\ DOMAIN body = {"is", "envelopes"} /\ IsSequence(body.envelopes)
         /\ \A n \in DOMAIN body.envelopes : Limited(body.envelopes[n], max)
<1> DEFINE results == [n \in DOMAIN stream.items |-> Return(EncodeEnvelope(stream.items[n]))]
           out == TransformJoinEnvelopes(stream)
<1>1. out = Yielded(results, stream.errors)
  BY DEF TransformJoinEnvelopes, Through
<1>2. results = [n \in DOMAIN stream.items |-> results[n]]
  OBVIOUS
<1>3. \A n \in DOMAIN stream.items : results[n] = Return(EncodeEnvelope(stream.items[n]))
  OBVIOUS
<1> HIDE DEF results, out
<1>4. /\ IsSequence(out.items)
      /\ \A n \in DOMAIN out.items : n \in DOMAIN stream.items /\ out.items[n] = results[n].value
  BY <1>1, <1>2, ThroughItems
<1>5. body = EncodeEnvelopes([n \in DOMAIN out.items |-> out.items[n].envelopes[1]])
  BY DEF Joined, out
<1>6. ASSUME NEW e
      PROVE  Return(EncodeEnvelope(e)).value.envelopes[1] = e
  <2>1. EncodeEnvelope(e).envelopes = <<e>> /\ <<e>>[1] = e
    BY DEF EncodeEnvelope, EncodeEnvelopes
  <2>2. QED
    BY <2>1, Outcomes
<1>7. /\ body.is = "envelopes" /\ DOMAIN body = {"is", "envelopes"}
      /\ body.envelopes = [n \in DOMAIN out.items |-> body.envelopes[n]]
      /\ \A n \in DOMAIN out.items : body.envelopes[n] = stream.items[n]
  BY <1>3, <1>4, <1>5, <1>6 DEF EncodeEnvelopes
<1>8. IsSequence(body.envelopes) /\ DOMAIN body.envelopes = DOMAIN out.items
  BY <1>4, <1>7, MappedSequence
<1>9. QED
  BY <1>4, <1>7, <1>8

-----------------------------------------------------------------------------
(* The bodies of requests                                                  *)

BodyLimited(body, max) ==
  body.is = "envelopes" => \A n \in DOMAIN body.envelopes : Limited(body.envelopes[n], max)

\* The body of a streaming request of connect-node has envelopes within the limit.
LEMMA UploadBody ==
  ASSUME NEW c \in Calls, NEW header, ~Upload(c, header).raised
  PROVE  LET body == Upload(c, header).value.body
         IN IsBody(body) /\ BodyLimited(body, c.client.writeMaxBytes)
<1> DEFINE o == c.client
           normalized == TransformNormalizeMessage(Stream(c.inputs))
           serialized == TransformSerializeEnvelope(normalized, o.binary, o.writeMaxBytes)
           compressed == TransformCompressEnvelope(serialized, o.send, o.compressMinBytes)
           body == Joined(TransformJoinEnvelopes(compressed))
<1>1. Upload(c, header).value.body = body
  BY DEF Upload, Request, Return, Raise
<1>2. IsSequence(normalized.items)
  <2>1. IsSequence(Stream(c.inputs).items)
    BY CallsAssumption DEF Stream
  <2>2. QED
    BY <2>1, NormalizedItems
<1> HIDE DEF normalized
<1>3. IsSequence(serialized.items) /\ AllSendable(serialized.items, o.writeMaxBytes)
  BY <1>2, SerializedItems DEF AllSendable
<1> HIDE DEF serialized
<1>4. /\ IsSequence(compressed.items)
      /\ \A n \in DOMAIN compressed.items : Limited(compressed.items[n], o.writeMaxBytes)
  BY <1>3, CompressedItems
<1> HIDE DEF compressed
<1>5. /\ body.is = "envelopes" /\ DOMAIN body = {"is", "envelopes"} /\ IsSequence(body.envelopes)
      /\ \A n \in DOMAIN body.envelopes : Limited(body.envelopes[n], o.writeMaxBytes)
  BY <1>4, JoinedBody
<1> HIDE DEF body
<1>6. QED
  BY <1>1, <1>5 DEF IsBody, BodyLimited, Limited

\* The body of a unary request of Connect is bare.
LEMMA NodeConnectUnaryBody ==
  ASSUME NEW c, ~NodeConnectUnaryRequest(c).raised
  PROVE  LET body == NodeConnectUnaryRequest(c).value.body
         IN body.is = "bare" /\ IsBody(body)
<1> DEFINE data == Serialize(c.inputs[1], c.client.binary)
<1>1. /\ ~data.raised
      /\ NodeConnectUnaryRequest(c).value.body
           \in {BareBody(Compress(data.value, c.client.send)), BareBody(data.value)}
  BY DEF NodeConnectUnaryRequest, ClientSerialize, Request, Return, Raise
<1>2. IsData(data.value)
  BY <1>1, SerializedData
<1> HIDE DEF data
<1>3. IsData(Compress(data.value, c.client.send))
  BY <1>2 DEF IsData, Compress
<1>4. QED
  BY <1>1, <1>2, <1>3 DEF BareBody, IsBody

\* The bodies of connect-web-next
WebOnly(c) == {WebBody(c, TRUE), WebBody(c, FALSE), WebConnectRequestBody(c), WebGrpcWebRequestBody(c)}

\* What browsers send for a message: data of it, in an envelope or not
LEMMA WebBodyValues ==
  ASSUME NEW c, NEW body \in {WebBody(c, TRUE), WebBody(c, FALSE), WebConnectRequestBody(c),
                              WebGrpcWebRequestBody(c), LegacyConnectBody(c), LegacyGrpcWebBody(c)},
         ~body.raised
  PROVE  LET data == Serialize(c.inputs[1], c.client.binary)
             end == Envelope({"end"}, EmptyData)
         IN \/ ~data.raised /\ body.value \in {Enveloped(data.value), BareBody(data.value)}
            \/ /\ ~data.raised /\ body \notin WebOnly(c)
               /\ body.value = EncodeEnvelopes(<<Envelope({}, data.value), end>>)
            \/ body.value = Enveloped(BinarySerialize(c.inputs[1]).value)
<1> DEFINE data == Serialize(c.inputs[1], c.client.binary)
           binary == BinarySerialize(c.inputs[1])
           end == Envelope({"end"}, EmptyData)
<1>1. ASSUME NEW enveloped, ~WebBody(c, enveloped).raised
      PROVE  ~data.raised /\ WebBody(c, enveloped).value \in {Enveloped(data.value), BareBody(data.value)}
  <2>1. WebBody(c, enveloped)
          = IF data.raised THEN data
            ELSE Return(IF enveloped THEN Enveloped(data.value) ELSE BareBody(data.value))
    BY DEF WebBody, Then, ClientSerialize
  <2> HIDE DEF data
  <2>2. QED
    BY <1>1, <2>1, Outcomes
<1>2. ASSUME ~LegacyConnectBody(c).raised
      PROVE  /\ ~data.raised
             /\ LegacyConnectBody(c).value \in {BareBody(data.value),
                                               EncodeEnvelopes(<<Envelope({}, data.value), end>>)}
  <2>1. LegacyConnectBody(c)
          = IF c.inputs[1].any /\ ~c.client.binary
            THEN Raise(LegacyFromReason([is |-> "Error", message |-> "serialize json"], Code.Internal))
            ELSE IF data.raised THEN data
            ELSE Return(IF IsStream(c) THEN EncodeEnvelopes(<<Envelope({}, data.value), end>>)
                        ELSE BareBody(data.value))
    BY DEF LegacyConnectBody, Then, ClientSerialize
  <2> HIDE DEF data
  <2>2. QED
    BY <1>2, <2>1, Outcomes
<1>3. LegacyGrpcWebBody(c).value = Enveloped(binary.value)
  BY DEF LegacyGrpcWebBody, Return
<1>4. ~WebConnectRequestBody(c).raised => WebConnectRequestBody(c) = WebBody(c, TRUE)
  BY DEF WebConnectRequestBody, Raise
<1>5. ~WebGrpcWebRequestBody(c).raised => WebGrpcWebRequestBody(c) = WebBody(c, TRUE)
  BY DEF WebGrpcWebRequestBody, Raise
<1> HIDE DEF data, binary, end
<1>6. \/ ~data.raised /\ body.value \in {Enveloped(data.value), BareBody(data.value)}
      \/ /\ ~data.raised /\ body \notin WebOnly(c)
         /\ body.value = EncodeEnvelopes(<<Envelope({}, data.value), end>>)
      \/ body.value = Enveloped(binary.value)
  BY <1>1, <1>2, <1>3, <1>4, <1>5 DEF WebOnly
<1>7. QED
  BY <1>6 DEF data, binary, end

\* The bodies that browsers send, which know no limit
LEMMA WebBodies ==
  ASSUME NEW c, NEW body \in {WebBody(c, TRUE), WebBody(c, FALSE), WebConnectRequestBody(c),
                              WebGrpcWebRequestBody(c), LegacyConnectBody(c), LegacyGrpcWebBody(c)},
         ~body.raised
  PROVE  IsBody(body.value)
<1> DEFINE data == Serialize(c.inputs[1], c.client.binary)
           binary == BinarySerialize(c.inputs[1])
           end == Envelope({"end"}, EmptyData)
<1>1. \/ ~data.raised /\ body.value \in {Enveloped(data.value), BareBody(data.value),
                                        EncodeEnvelopes(<<Envelope({}, data.value), end>>)}
      \/ body.value = Enveloped(binary.value)
  BY WebBodyValues, Zenon
<1>2. ~data.raised => IsData(data.value)
  BY SerializedData
<1>3. IsData(binary.value)
  BY DEF BinarySerialize, Data, IsData, Return
<1>4. IsData(EmptyData)
  BY DEF EmptyData, Data, IsData
<1> HIDE DEF data, binary
<1>5. ASSUME NEW d, IsData(d)
      PROVE  IsBody(Enveloped(d)) /\ IsBody(BareBody(d))
  <2>1. IsSequence(<<Envelope({}, d)>>) /\ DOMAIN <<Envelope({}, d)>> = {1}
    BY SingletonSequence
  <2>2. QED
    BY <1>5, <2>1 DEF IsBody, Enveloped, BareBody, EncodeEnvelope, EncodeEnvelopes, Envelope
<1>6. ASSUME NEW d, IsData(d)
      PROVE  IsBody(EncodeEnvelopes(<<Envelope({}, d), end>>))
  <2> DEFINE both == <<Envelope({}, d), end>>
  <2>1. both = [n \in 1..2 |-> both[n]] /\ both[1].data = d /\ both[2].data = EmptyData
    BY DEF Envelope
  <2> HIDE DEF both, end
  <2>2. IsSequence(both) /\ DOMAIN both = 1..2
    BY <2>1, BuiltSequence
  <2>3. \A n \in DOMAIN both : IsData(both[n].data)
    BY <1>4, <1>6, <2>1, <2>2
  <2>4. QED
    BY <2>2, <2>3 DEF IsBody, EncodeEnvelopes, both
<1>7. QED
  BY <1>1, <1>2, <1>3, <1>5, <1>6

\* The body of a request from a browser is data, or envelopes of data.
LEMMA WebRequestBody ==
  ASSUME NEW header, NEW body, ~WebRequest(header, body).raised
  PROVE  ~body.raised /\ WebRequest(header, body).value.body = body.value
<1>1. ~body.raised
  BY DEF WebRequest, Fetched
<1>2. QED
  BY <1>1 DEF WebRequest, Fetched, Request, Return

\* What a transport sends is a body, and a transport for Node.js knows a limit.
LEMMA RequestBody ==
  ASSUME NEW c \in Calls, ~MakeRequest(c).raised
  PROVE  LET body == MakeRequest(c).value.body
         IN IsBody(body) /\ (c.platform = "node" => BodyLimited(body, c.client.writeMaxBytes))
<1>1. CASE c.platform = "node"
  <2>1. \/ MakeRequest(c) = NodeConnectUnaryRequest(c)
        \/ \E header : MakeRequest(c) = Upload(c, header)
    BY <1>1, CallsAssumption DEF MakeRequest, NodeConnectStreamRequest, NodeGrpcUnaryRequest,
         NodeGrpcStreamRequest, NodeGrpcWebUnaryRequest, NodeGrpcWebStreamRequest
  <2>2. QED
    BY <2>1, NodeConnectUnaryBody, UploadBody DEF BodyLimited
<1>2. CASE c.platform # "node"
  <2>1. \E header : \E body \in {WebBody(c, TRUE), WebBody(c, FALSE), WebConnectRequestBody(c),
                                 WebGrpcWebRequestBody(c), LegacyConnectBody(c), LegacyGrpcWebBody(c)} :
          MakeRequest(c) = WebRequest(header, body)
    BY <1>2, CallsAssumption DEF MakeRequest, WebConnectUnaryRequest, WebConnectStreamRequest,
         WebGrpcWebUnaryRequest, WebGrpcWebStreamRequest, LegacyConnectUnaryRequest,
         LegacyConnectStreamRequest, LegacyGrpcWebUnaryRequest, LegacyGrpcWebStreamRequest
  <2>2. PICK header : \E body \in {WebBody(c, TRUE), WebBody(c, FALSE), WebConnectRequestBody(c),
                                 WebGrpcWebRequestBody(c), LegacyConnectBody(c), LegacyGrpcWebBody(c)} :
          MakeRequest(c) = WebRequest(header, body)
    BY <2>1
  <2>3. PICK body \in {WebBody(c, TRUE), WebBody(c, FALSE), WebConnectRequestBody(c),
                       WebGrpcWebRequestBody(c), LegacyConnectBody(c), LegacyGrpcWebBody(c)} :
          MakeRequest(c) = WebRequest(header, body)
    BY <2>2
  <2>4. ~body.raised /\ MakeRequest(c).value.body = body.value
    BY <2>3, WebRequestBody
  <2>5. IsBody(body.value)
    BY <2>4, WebBodies
  <2>6. QED
    BY <1>2, <2>4, <2>5
<1>3. QED
  BY <1>1, <1>2

-----------------------------------------------------------------------------
(* What a handler reads                                                    *)

LEMMA ReadWithin ==
  ASSUME NEW body, IsBody(body), NEW max, NEW hint,
         ~TransformReadAllBytes(body, max, hint).raised
  PROVE  Within(TransformReadAllBytes(body, max, hint).value, max)
<1> DEFINE data == BodyData(body)
<1>1. IsData(data)
  BY DEF BodyData, IsBody, IsData, Data
<1> HIDE DEF data
<1>2. TransformReadAllBytes(body, max, hint) = ReadAllBytes(data, max, hint)
  BY DEF TransformReadAllBytes, data
<1>3. ReadAllBytes(data, max, hint).value = data /\ Size(data) <= max
  <2>1. CASE HintIsUsable(hint)
    <3>1. ReadAllBytes(data, max, hint)
            = IF ~(hint <= max) THEN Raise(TooLarge)
              ELSE IF Size(data) # hint THEN Raise(SimpleError("promised other bytes", Code.InvalidArgument))
              ELSE Return(data)
      BY <2>1 DEF ReadAllBytes, WithinReadMax
    <3>2. ~ReadAllBytes(data, max, hint).raised
      BY <1>2
    <3>3. hint <= max /\ Size(data) = hint /\ ReadAllBytes(data, max, hint) = Return(data)
      BY <3>1, <3>2, Outcomes
    <3>4. QED
      BY <3>3, Outcomes
  <2>2. CASE ~HintIsUsable(hint)
    <3>1. Size(data) <= max /\ ReadAllBytes(data, max, hint) = Return(data)
      BY <1>2, <2>2 DEF ReadAllBytes, WithinReadMax, Raise
    <3>2. QED
      BY <3>1, Outcomes
  <2>3. QED
    BY <2>1, <2>2
<1>4. QED
  BY <1>1, <1>2, <1>3 DEF Within, Size

\* transformPrepend() adds no items.
LEMMA PrependedItems ==
  ASSUME NEW stream, IsSequence(stream.items), NEW errors
  PROVE  LET out == TransformPrepend(stream, errors)
         IN IsSequence(out.items) /\ \A n \in DOMAIN out.items :
              n \in DOMAIN stream.items /\ out.items[n] = stream.items[n]
<1>1. TransformPrepend(stream, errors).items \in {stream.items, << >>}
  BY DEF TransformPrepend
<1>2. QED
  BY <1>1, EmptySequence

\* The inputs of a streaming method are within the limit of the server.
LEMMA InputsWithin ==
  ASSUME NEW s, NEW q, IsBody(q.body), NEW compression, NEW binary, NEW endFlag
  PROVE  LET input == Inputs(s, q, compression, binary, endFlag)
         IN IsSequence(input.items) /\ AllWithin(input.items, s.readMaxBytes)
<1> DEFINE max == s.readMaxBytes
           split == TransformSplitEnvelope(q.body, max)
           prepended == TransformPrepend(split, compression.errors)
           decompressed == TransformDecompressEnvelope(prepended, compression.request, max)
<1>1. IsSequence(split.items) /\ \A n \in DOMAIN split.items : Within(split.items[n].data, max)
  BY SplitWithin
<1> HIDE DEF split
<1>2. IsSequence(prepended.items) /\ \A n \in DOMAIN prepended.items : Within(prepended.items[n].data, max)
  BY <1>1, PrependedItems
<1> HIDE DEF prepended
<1>3. /\ IsSequence(decompressed.items)
      /\ \A n \in DOMAIN decompressed.items : Within(decompressed.items[n].data, max)
  BY <1>2, DecompressedItems
<1>4. Inputs(s, q, compression, binary, endFlag) = TransformParseEnvelope(decompressed, binary, endFlag)
  BY DEF Inputs, prepended, split
<1> HIDE DEF decompressed
<1>5. QED
  BY <1>3, <1>4, ParsedItems

\* The input of a unary Connect method is within the limit of the server.
LEMMA UnaryInputWithin ==
  ASSUME NEW s, NEW q, IsBody(q.body), NEW compression, NEW binary
  PROVE  LET input == UnaryInput(s, q, compression, binary)
         IN IsSequence(input.items) /\ AllWithin(input.items, s.readMaxBytes)
<1> DEFINE max == s.readMaxBytes
           hint == IF Has(q.header, "content-length") THEN q.header["content-length"][1] ELSE -1
           flags == IF compression.request = "identity" THEN {} ELSE {"compressed"}
           source == TransformPrepend(Stream(<<q.body>>), compression.errors)
           read == [n \in DOMAIN source.items |-> TransformReadAllBytes(source.items[n], max, hint)]
           bytes == Yielded(read, source.errors)
           wrapped == [n \in DOMAIN bytes.items |-> Return(Envelope(flags, bytes.items[n]))]
           envelopes == Yielded(wrapped, bytes.errors)
           decompressed == TransformDecompressEnvelope(envelopes, compression.request, max)
<1>1. UnaryInput(s, q, compression, binary) = TransformParseEnvelope(decompressed, binary, "none")
  BY DEF UnaryInput, Through
<1>2. IsSequence(source.items) /\ \A n \in DOMAIN source.items : IsBody(source.items[n])
  <2>1. IsSequence(Stream(<<q.body>>).items) /\ \A n \in DOMAIN Stream(<<q.body>>).items :
          IsBody(Stream(<<q.body>>).items[n])
    BY SingletonSequence DEF Stream
  <2>2. QED
    BY <2>1, PrependedItems
<1> HIDE DEF source, hint, flags
<1>3. IsSequence(bytes.items) /\ \A n \in DOMAIN bytes.items : Within(bytes.items[n], max)
  <2>1. read = [n \in DOMAIN source.items |-> read[n]]
    OBVIOUS
  <2>2. \A n \in DOMAIN source.items : read[n] = TransformReadAllBytes(source.items[n], max, hint)
    OBVIOUS
  <2> HIDE DEF read
  <2>3. /\ IsSequence(bytes.items)
        /\ \A n \in DOMAIN bytes.items :
             n \in DOMAIN source.items /\ ~read[n].raised /\ bytes.items[n] = read[n].value
    BY <1>2, <2>1, ThroughItems
  <2>4. QED
    BY <1>2, <2>2, <2>3, ReadWithin
<1> HIDE DEF bytes
<1>4. IsSequence(envelopes.items) /\ \A n \in DOMAIN envelopes.items : Within(envelopes.items[n].data, max)
  <2>1. wrapped = [n \in DOMAIN bytes.items |-> wrapped[n]]
    OBVIOUS
  <2>2. \A n \in DOMAIN bytes.items : wrapped[n].value.data = bytes.items[n]
    BY DEF Return, Envelope
  <2> HIDE DEF wrapped
  <2>3. /\ IsSequence(envelopes.items)
        /\ \A n \in DOMAIN envelopes.items :
             n \in DOMAIN bytes.items /\ envelopes.items[n] = wrapped[n].value
    BY <1>3, <2>1, ThroughItems
  <2>4. QED
    BY <1>3, <2>2, <2>3
<1> HIDE DEF envelopes
<1>5. /\ IsSequence(decompressed.items)
      /\ \A n \in DOMAIN decompressed.items : Within(decompressed.items[n].data, max)
  BY <1>4, DecompressedItems
<1> HIDE DEF decompressed
<1>6. QED
  BY <1>1, <1>5, ParsedItems

-----------------------------------------------------------------------------
(* What a handler answers                                                  *)

\* An implementation as CallsAssumption has it, or the one that throws
Implements(spec) ==
  /\ IsSequence(spec.impl.outputs) /\ IsSequence(spec.impl.failure)
  /\ ReturnsOne(spec.kind) /\ spec.impl.failure = << >> => spec.impl.outputs # << >>
  /\ "grpc-status" \notin DOMAIN spec.impl.header \cup DOMAIN spec.impl.late

\* createImplSpec() keeps the implementation's outputs and header.
LEMMA SpecImplements ==
  ASSUME NEW c \in Calls
  PROVE  Implements(CreateImplSpec(c.kind, c.impl)) /\ CreateImplSpec(c.kind, c.impl).kind = c.kind
<1> DEFINE failure == [is |-> "ConnectError", error |-> SimpleError("not implemented", Code.Unimplemented)]
           missing == [is |-> "function", header |-> NoHeaders, late |-> NoHeaders, trailer |-> NoHeaders,
                       outputs |-> << >>, failure |-> <<failure>>]
<1>1. UnimplementService(c.impl) \in {c.impl, missing}
  BY DEF UnimplementService
<1>2. /\ missing.outputs = << >> /\ missing.failure = <<failure>>
      /\ missing.header = NoHeaders /\ missing.late = NoHeaders
  OBVIOUS
<1> HIDE DEF failure, missing
<1>3. IsSequence(missing.outputs) /\ IsSequence(missing.failure) /\ missing.failure # << >>
  BY <1>2, EmptySequence, SingletonSequence
<1>4. "grpc-status" \notin DOMAIN missing.header \cup DOMAIN missing.late
  BY <1>2, EmptySequence DEF NoHeaders
<1>5. QED
  BY <1>1, <1>3, <1>4, CallsAssumption DEF Implements, CreateImplSpec

\* What an implementation is called with is what was read.  One that has a message to
\* return gives the handler that message, or an error.
LEMMA InvokedWith ==
  ASSUME NEW spec, Implements(spec), NEW header, NEW input, IsSequence(input.items), NEW max,
         AllWithin(input.items, max),
         NEW out, out = InvokeImplementation(spec, header, input)
  PROVE  /\ out.given # << >> => AllWithin(out.given[1].inputs, max)
         /\ IsSequence(out.items)
         /\ ReturnsOne(spec.kind) => out.items # << >> \/ out.errors # << >>
<1> DEFINE source ==
             [items |-> CASE ~ReturnsOne(spec.kind) -> spec.impl.outputs
                          [] ReturnsOne(spec.kind) /\ spec.impl.failure = << >> -> FirstOf(spec.impl.outputs)
                          [] OTHER -> << >>,
              errors |-> [n \in DOMAIN spec.impl.failure |-> HandlerError(spec.impl.failure[n])]]
           results == [n \in DOMAIN source.items |-> NormalizeOutput(source.items[n])]
           outputs == Yielded(results, source.errors)
           Invoked(inputs, items, errors) ==
             [given |-> <<[header |-> header, inputs |-> inputs]>>, items |-> items, errors |-> errors]
           first == FirstOf(input.items)
           extra == SimpleError("extra input message", Code.InvalidArgument)
           none == SimpleError("missing input message", Code.InvalidArgument)
<1>1. \/ /\ input.errors = << >>
         /\ out = Invoked(input.items, outputs.items, outputs.errors)
      \/ /\ input.errors # << >>
         /\ out = Invoked(input.items, << >>, input.errors)
      \/ /\ out.given = << >> /\ out.items = << >> /\ out.errors # << >>
      \/ /\ first # << >>
         /\ \E errors : /\ outputs.errors # << >> => errors # << >>
                        /\ out = Invoked(first, outputs.items, errors)
  <2>1. <<none>> # << >>
    BY SingletonSequence, SMTT(30)
  <2> HIDE DEF first, none, extra
  <2>2. out = CASE ~TakesOne(spec.kind) /\ input.errors = << >> ->
                     Invoked(input.items, outputs.items, outputs.errors)
                [] ~TakesOne(spec.kind) /\ input.errors # << >> -> Invoked(input.items, << >>, input.errors)
                [] TakesOne(spec.kind) /\ first = << >> ->
                     [given |-> << >>, items |-> << >>,
                      errors |-> IF input.errors # << >> THEN input.errors ELSE <<none>>]
                [] OTHER ->
                     Invoked(first, outputs.items,
                             CASE outputs.errors # << >> -> outputs.errors
                               [] outputs.errors = << >> /\ input.items # first -> <<extra>>
                               [] OTHER -> input.errors)
    BY DEF InvokeImplementation, Through, first, none, extra
  <2> HIDE DEF outputs, Invoked
  <2>3. CASE ~TakesOne(spec.kind)
    BY <2>2, <2>3
  <2>4. CASE TakesOne(spec.kind) /\ first = << >>
    BY <2>1, <2>2, <2>4
  <2>5. CASE TakesOne(spec.kind) /\ first # << >>
    BY <2>2, <2>5
  <2>6. QED
    BY <2>3, <2>4, <2>5
<1>2. /\ IsSequence(source.items)
      /\ ReturnsOne(spec.kind) => source.items # << >> \/ source.errors # << >>
  <2>1. IsSequence(FirstOf(spec.impl.outputs)) /\ (spec.impl.outputs # << >> => FirstOf(spec.impl.outputs) # << >>)
    BY EmptySequence, SingletonSequence DEF FirstOf
  <2>2. spec.impl.failure # << >> => source.errors # << >>
    <3>1. DOMAIN source.errors = DOMAIN spec.impl.failure
      OBVIOUS
    <3>2. spec.impl.failure # << >> => DOMAIN spec.impl.failure # {}
      BY SequenceFacts DEF Implements
    <3> HIDE DEF source
    <3>3. QED
      BY <3>1, <3>2, EmptySequence
  <2>3. source.items = IF ~ReturnsOne(spec.kind) THEN spec.impl.outputs
                       ELSE IF spec.impl.failure = << >> THEN FirstOf(spec.impl.outputs) ELSE << >>
    OBVIOUS
  <2> HIDE DEF source
  <2>4. QED
    BY <2>1, <2>2, <2>3, EmptySequence DEF Implements
<1>3. /\ IsSequence(outputs.items)
      /\ ReturnsOne(spec.kind) => outputs.items # << >> \/ outputs.errors # << >>
  <2>1. results = [n \in DOMAIN source.items |-> results[n]]
    OBVIOUS
  <2> HIDE DEF results, source
  <2>2. /\ IsSequence(outputs.items)
        /\ outputs.errors = << >> => DOMAIN outputs.items = DOMAIN source.items /\ source.errors = << >>
    BY <1>2, <2>1, ThroughItems
  <2>3. /\ source.items = << >> <=> DOMAIN source.items = {}
        /\ outputs.items = << >> <=> DOMAIN outputs.items = {}
    BY <1>2, <2>2, SequenceFacts
  <2> HIDE DEF outputs
  <2>4. QED
    BY <1>2, <2>2, <2>3
<1>4. AllWithin(first, max) /\ AllWithin(input.items, max)
  <2>1. CASE input.items = << >>
    BY <2>1, EmptySequence DEF FirstOf, AllWithin
  <2>2. CASE input.items # << >>
    <3>1. 1 \in DOMAIN input.items
      BY <2>2, SequenceFacts
    <3>2. first = <<input.items[1]>>
      BY <2>2 DEF FirstOf
    <3>3. DOMAIN first = {1} /\ first[1] = input.items[1]
      BY <3>2, SingletonSequence
    <3> HIDE DEF first
    <3>4. QED
      BY <3>1, <3>3 DEF AllWithin
  <2>3. QED
    BY <2>1, <2>2
<1>5. \A inputs, items, errors :
        /\ Invoked(inputs, items, errors).given[1].inputs = inputs
        /\ Invoked(inputs, items, errors).items = items
        /\ Invoked(inputs, items, errors).errors = errors
  OBVIOUS
<1> HIDE DEF first, outputs, Invoked
<1>6. QED
  BY <1>1, <1>3, <1>4, <1>5, EmptySequence

\* The end of a response comes last, and once: in the header of a body that is bare,
\* in the last envelope, or in the trailer.
Final(envelope) == envelope.flags \cap {"end", "trailer"} # {}

EndsOnce(r) ==
  /\ r.body.is = "bare" => r.trailer = NoHeaders
  /\ r.body.is = "envelopes" =>
       /\ ~Has(r.header, "grpc-status")
       /\ \A n \in DOMAIN r.body.envelopes :
            Final(r.body.envelopes[n]) =>
              n = Len(r.body.envelopes) /\ r.trailer = NoHeaders

\* A response of a server
Served(r, s) ==
  /\ DOMAIN r = {"status", "header", "body", "trailer", "given"}
  /\ IsBody(r.body) /\ BodyLimited(r.body, s.writeMaxBytes)
  /\ r.given # << >> => AllWithin(r.given[1].inputs, s.readMaxBytes)
  /\ EndsOnce(r)

\* A refusal has no body and gives the implementation nothing.
LEMMA RefusalServed ==
  ASSUME NEW s, NEW status, NEW header
  PROVE  Served(Refuse(status), s) /\ Served([Refuse(status) EXCEPT !.header = header], s)
<1>1. IsData(EmptyData)
  BY DEF EmptyData, Data, IsData
<1>2. /\ BareBody(EmptyData).is = "bare" /\ IsBody(BareBody(EmptyData))
      /\ BodyLimited(BareBody(EmptyData), s.writeMaxBytes)
  BY <1>1 DEF BareBody, IsBody, BodyLimited
<1>3. QED
  BY <1>2 DEF Refuse, Respond, Served, EndsOnce

\* What an envelope with the end of it makes of a stream
LEMMA EndedItems ==
  ASSUME NEW items, IsSequence(items), NEW max,
         AllSendable(items, max), AllUnflagged(items),
         NEW end, Sendable(end, max), NEW compression, NEW minBytes,
         NEW sent, sent = TransformCompressEnvelope(Stream(items \o <<end>>), compression, minBytes).items
  PROVE  /\ IsSequence(sent) /\ sent # << >>
         /\ \A n \in DOMAIN sent :
              Limited(sent[n], max) /\ (Final(sent[n]) => n = Len(sent))
<1> DEFINE stream == Stream(items \o <<end>>)
           out == TransformCompressEnvelope(stream, compression, minBytes)
<1>1. IsSequence(<<end>>) /\ DOMAIN <<end>> = {1} /\ <<end>>[1] = end
  BY SingletonSequence
<1>2. Len(<<end>>) = 1
  OBVIOUS
<1>3. /\ IsSequence(items \o <<end>>) /\ Len(items \o <<end>>) = Len(items) + 1
      /\ \A n \in DOMAIN (items \o <<end>>) :
           \/ n \in DOMAIN items /\ (items \o <<end>>)[n] = items[n]
           \/ n - Len(items) = 1 /\ (items \o <<end>>)[n] = end
  BY <1>1, <1>2, Concatenation
<1>4. stream.items = items \o <<end>>
  BY DEF Stream
<1>5. Len(items) \in Nat
  BY SequenceFacts
<1>6. IsSequence(stream.items) /\ AllSendable(stream.items, max)
  BY <1>3, <1>4 DEF AllSendable
<1>7. /\ IsSequence(sent) /\ SameLength(sent, stream.items)
      /\ \A n \in DOMAIN sent :
           Limited(sent[n], max) /\ SameFlags(sent[n], stream.items[n])
  <2>1. sent = out.items
    OBVIOUS
  <2>2. out = TransformCompressEnvelope(stream, compression, minBytes)
    OBVIOUS
  <2> HIDE DEF stream, out
  <2>3. /\ IsSequence(out.items) /\ SameLength(out.items, stream.items)
        /\ \A n \in DOMAIN out.items :
             Limited(out.items[n], max) /\ SameFlags(out.items[n], stream.items[n])
    BY <1>6, <2>2, CompressedItems
  <2>4. QED
    BY <2>1, <2>3
<1> HIDE DEF stream, out
<1>8. DOMAIN sent = DOMAIN stream.items /\ Len(sent) = Len(items) + 1 /\ sent # << >>
  <2>1. DOMAIN stream.items = 1..Len(stream.items) /\ Len(stream.items) = Len(items) + 1
    BY <1>3, <1>4, SequenceFacts
  <2>2. DOMAIN sent = 1..Len(sent) /\ (sent = << >> <=> DOMAIN sent = {})
    BY <1>7, SequenceFacts
  <2>3. QED
    BY <1>5, <1>7, <2>1, <2>2 DEF SameLength
<1>9. ASSUME NEW n \in DOMAIN sent, Final(sent[n])
      PROVE  n = Len(sent)
  <2>1. stream.items[n].flags # {}
    BY <1>7, <1>9 DEF Final, SameFlags
  <2>2. n - Len(items) = 1
    BY <1>3, <1>4, <1>8, <1>9, <2>1 DEF AllUnflagged
  <2>3. n \in 1..Len(sent)
    BY <1>7, <1>9, SequenceFacts
  <2>4. QED
    BY <1>5, <1>8, <2>2, <2>3
<1>10. QED
  BY <1>7, <1>8, <1>9

\* The response header of an implementation has no grpc-status.
LEMMA HeaderWithoutStatus ==
  ASSUME NEW spec, Implements(spec), NEW header, ~Has(header, "grpc-status"), NEW invoked
  PROVE  ~Has(HeaderAtFirstChunk(header, spec, invoked), "grpc-status")
BY DEF HeaderAtFirstChunk, SetAll, Has, Implements

\* The handlers that stream know the status from the end alone.
LEMMA ContextWithoutStatus ==
  ASSUME NEW condition, NEW type, NEW field, field # "grpc-status", NEW value
  PROVE  ~Has(SetIf(condition, Field("content-type", type), field, value), "grpc-status")
BY DEF SetIf, Field, Set, Has, NoHeaders

\* A response with envelopes and a trailer
LEMMA StreamServed ==
  ASSUME NEW s, NEW header, ~Has(header, "grpc-status"), NEW given,
         given # << >> => AllWithin(given[1].inputs, s.readMaxBytes),
         NEW items, IsSequence(items), NEW trailer,
         \A n \in DOMAIN items :
           /\ Limited(items[n], s.writeMaxBytes)
           /\ Final(items[n]) => n = Len(items) /\ trailer = NoHeaders,
         NEW sent, sent.items = items
  PROVE  Served(Respond(200, header, Body(sent), trailer, given), s)
<1> DEFINE body == Body(sent)
<1>1. body.is = "envelopes" /\ DOMAIN body = {"is", "envelopes"} /\ body.envelopes = items
  BY DEF Body, EncodeEnvelopes
<1> HIDE DEF body
<1>2. IsBody(body) /\ BodyLimited(body, s.writeMaxBytes)
  BY <1>1 DEF IsBody, BodyLimited, Limited
<1>3. QED
  BY <1>1, <1>2 DEF Respond, Served, EndsOnce, body

\* What a handler serializes of what it has invoked
LEMMA OutputsServed ==
  ASSUME NEW invoked, IsSequence(invoked.items), NEW binary, NEW max,
         NEW out, out = TransformSerializeEnvelope(invoked, binary, max)
  PROVE  /\ IsSequence(out.items) /\ AllSendable(out.items, max)
         /\ AllUnflagged(out.items)
BY SerializedItems DEF AllSendable, AllUnflagged

\* What the handler of gRPC answers
LEMMA GrpcServed ==
  ASSUME NEW s, NEW spec, Implements(spec), NEW q, IsBody(q.body)
  PROVE  Served(HandleGrpc(s, spec, q), s)
<1> DEFINE type == ParseGrpcType(Get(q.header, "content-type"))
           binary == type[1].binary
           compression == CompressionNegotiate(s.accept, q.header, "grpc-encoding", "grpc-accept-encoding")
           context == CreateHandlerContext(
                        SetIf(compression.response # "identity", Field("content-type", GrpcType(binary)),
                              "grpc-encoding", <<compression.response>>), GrpcStatusOk)
           input == Inputs(s, q, compression, binary, "none")
           invoked == InvokeImplementation(spec, q.header, input)
           outputs == TransformSerializeEnvelope(invoked, binary, s.writeMaxBytes)
           sent == TransformCompressEnvelope(outputs, compression.response, s.compressMinBytes)
           started == TrailerAtEnd(context.trailer, spec.impl, invoked)
           trailer == IF sent.errors = << >> THEN started ELSE SetTrailerStatus(started, sent.errors)
           header == HeaderAtFirstChunk(context.header, spec, invoked)
<1>1. HandleGrpc(s, spec, q) \in {Refuse(UnsupportedMediaType), Refuse(MethodNotAllowed),
                                  Respond(200, header, Body(sent), trailer, invoked.given)}
  BY DEF HandleGrpc
<1>2. ~Has(header, "grpc-status")
  <2>1. ~Has(context.header, "grpc-status")
    BY ContextWithoutStatus DEF CreateHandlerContext
  <2> HIDE DEF context, invoked
  <2>2. QED
    BY <2>1, HeaderWithoutStatus
<1> HIDE DEF trailer, header, context, type, compression
<1>3. IsSequence(input.items) /\ AllWithin(input.items, s.readMaxBytes)
  BY InputsWithin
<1> HIDE DEF input
<1>4. /\ invoked.given # << >> => AllWithin(invoked.given[1].inputs, s.readMaxBytes)
      /\ IsSequence(invoked.items)
  BY <1>3, InvokedWith
<1> HIDE DEF invoked
<1>5. /\ IsSequence(outputs.items) /\ AllSendable(outputs.items, s.writeMaxBytes)
      /\ AllUnflagged(outputs.items)
  BY <1>4, OutputsServed
<1> HIDE DEF outputs
<1>6. /\ IsSequence(sent.items) /\ SameLength(sent.items, outputs.items)
      /\ \A n \in DOMAIN sent.items :
           Limited(sent.items[n], s.writeMaxBytes) /\ SameFlags(sent.items[n], outputs.items[n])
  BY <1>5, CompressedItems
<1> HIDE DEF sent
<1>7. \A n \in DOMAIN sent.items : ~Final(sent.items[n])
  BY <1>5, <1>6, SequenceFacts DEF SameFlags, SameLength, Final, AllUnflagged
<1>8. Served(Respond(200, header, Body(sent), trailer, invoked.given), s)
  <2> DEFINE items == sent.items
  <2>1. /\ IsSequence(items) /\ sent.items = items
        /\ \A n \in DOMAIN items :
             /\ Limited(items[n], s.writeMaxBytes)
             /\ Final(items[n]) => n = Len(items) /\ trailer = NoHeaders
    BY <1>6, <1>7
  <2> HIDE DEF items
  <2>2. QED
    BY <1>2, <1>4, <2>1, StreamServed, ZenonT(60)
<1>9. QED
  BY <1>1, <1>8, RefusalServed

\* What a stream with an end in its last envelope makes of what was invoked
LEMMA EndedServed ==
  ASSUME NEW s, NEW invoked, IsSequence(invoked.items),
         invoked.given # << >> => AllWithin(invoked.given[1].inputs, s.readMaxBytes),
         NEW header, ~Has(header, "grpc-status"), NEW binary, NEW compression,
         NEW outputs, outputs = TransformSerializeEnvelope(invoked, binary, s.writeMaxBytes),
         NEW end, Sendable(end, s.writeMaxBytes),
         NEW sent, sent = TransformCompressEnvelope(TransformCatchFinally(outputs, <<end>>),
                                                    compression, s.compressMinBytes)
  PROVE  Served(Respond(200, header, Body(sent), NoHeaders, invoked.given), s)
<1> DEFINE items == sent.items
<1>1. /\ IsSequence(outputs.items) /\ AllSendable(outputs.items, s.writeMaxBytes)
      /\ AllUnflagged(outputs.items)
  BY OutputsServed
<1>2. items = TransformCompressEnvelope(Stream(outputs.items \o <<end>>),
                                        compression, s.compressMinBytes).items
  BY DEF TransformCatchFinally
<1> HIDE DEF items
<1>3. /\ IsSequence(items)
      /\ \A n \in DOMAIN items :
           /\ Limited(items[n], s.writeMaxBytes)
           /\ Final(items[n]) => n = Len(items)
  BY <1>1, <1>2, EndedItems
<1>4. QED
  BY <1>3, StreamServed, ZenonT(60) DEF items

\* What the handler of gRPC-web answers
LEMMA GrpcWebServed ==
  ASSUME NEW s, NEW spec, Implements(spec), NEW q, IsBody(q.body)
  PROVE  Served(HandleGrpcWeb(s, spec, q), s)
<1> DEFINE type == ParseGrpcWebType(Get(q.header, "content-type"))
           binary == type[1].binary
           compression == CompressionNegotiate(s.accept, q.header, "grpc-encoding", "grpc-accept-encoding")
           context == CreateHandlerContext(
                        SetIf(compression.response # "identity", Field("content-type", GrpcWebType(binary)),
                              "grpc-encoding", <<compression.response>>), GrpcStatusOk)
           input == Inputs(s, q, compression, binary, "trailer")
           invoked == InvokeImplementation(spec, q.header, input)
           outputs == TransformSerializeEnvelope(invoked, binary, s.writeMaxBytes)
           trailer == TrailerAtEnd(context.trailer, spec.impl, invoked)
           ended == IF outputs.errors = << >> THEN trailer ELSE SetTrailerStatus(trailer, outputs.errors)
           end == Envelope({"trailer"}, LinesData(TrailerSerialize(ended)))
           sent == TransformCompressEnvelope(TransformCatchFinally(outputs, <<end>>),
                                             compression.response, s.compressMinBytes)
           header == HeaderAtFirstChunk(context.header, spec, invoked)
<1>1. HandleGrpcWeb(s, spec, q) \in {Refuse(UnsupportedMediaType), Refuse(MethodNotAllowed),
                                     Respond(200, header, Body(sent), NoHeaders, invoked.given)}
  BY DEF HandleGrpcWeb
<1>2. ~Has(header, "grpc-status")
  <2>1. ~Has(context.header, "grpc-status")
    BY ContextWithoutStatus DEF CreateHandlerContext
  <2> HIDE DEF context, invoked
  <2>2. QED
    BY <2>1, HeaderWithoutStatus
<1>3. Sendable(end, s.writeMaxBytes)
  <2> HIDE DEF ended
  <2>1. QED
    BY DEF Sendable, Limited, Envelope, LinesData, Data, IsData
<1> HIDE DEF end, header, context, type, compression
<1>4. IsSequence(input.items) /\ AllWithin(input.items, s.readMaxBytes)
  BY InputsWithin
<1> HIDE DEF input
<1>5. /\ invoked.given # << >> => AllWithin(invoked.given[1].inputs, s.readMaxBytes)
      /\ IsSequence(invoked.items)
  BY <1>4, InvokedWith
<1> HIDE DEF invoked
<1>6. Served(Respond(200, header, Body(sent), NoHeaders, invoked.given), s)
  BY <1>2, <1>3, <1>5, EndedServed, ZenonT(60)
<1> HIDE DEF sent
<1>7. QED
  BY <1>1, <1>6, RefusalServed

\* What the handler of Connect answers, for a streaming method
LEMMA ConnectStreamServed ==
  ASSUME NEW s, NEW spec, Implements(spec), NEW q, IsBody(q.body)
  PROVE  Served(HandleConnectStream(s, spec, q), s)
<1> DEFINE type == ParseConnectType(Get(q.header, "content-type"))
           binary == type[1].binary
           compression == CompressionNegotiate(s.accept, q.header, "connect-content-encoding",
                                               "connect-accept-encoding")
           context == CreateHandlerContext(
                        SetIf(compression.response # "identity",
                              Field("content-type", ConnectType(TRUE, binary)),
                              "connect-content-encoding", <<compression.response>>), NoHeaders)
           input == Inputs(s, q, compression, binary, "end")
           invoked == InvokeImplementation(spec, q.header, input)
           outputs == TransformSerializeEnvelope(invoked, binary, s.writeMaxBytes)
           said == [metadata |-> TrailerAtEnd(context.trailer, spec.impl, invoked),
                    errors |-> outputs.errors]
           end == Envelope({"end"}, EndStreamSerialize(said))
           sent == TransformCompressEnvelope(TransformCatchFinally(outputs, <<end>>),
                                             compression.response, s.compressMinBytes)
           header == HeaderAtFirstChunk(context.header, spec, invoked)
<1>1. HandleConnectStream(s, spec, q) \in {Refuse(UnsupportedMediaType), Refuse(MethodNotAllowed),
                                           Respond(200, header, Body(sent), NoHeaders, invoked.given)}
  BY DEF HandleConnectStream
<1>2. ~Has(header, "grpc-status")
  <2>1. ~Has(context.header, "grpc-status")
    BY ContextWithoutStatus DEF CreateHandlerContext
  <2> HIDE DEF context, invoked
  <2>2. QED
    BY <2>1, HeaderWithoutStatus
<1>3. Sendable(end, s.writeMaxBytes)
  <2> HIDE DEF said
  <2>1. QED
    BY DEF Sendable, Limited, Envelope, EndStreamSerialize, JsonData, Data, IsData
<1> HIDE DEF end, header, context, type, compression
<1>4. IsSequence(input.items) /\ AllWithin(input.items, s.readMaxBytes)
  BY InputsWithin
<1> HIDE DEF input
<1>5. /\ invoked.given # << >> => AllWithin(invoked.given[1].inputs, s.readMaxBytes)
      /\ IsSequence(invoked.items)
  BY <1>4, InvokedWith
<1> HIDE DEF invoked
<1>6. Served(Respond(200, header, Body(sent), NoHeaders, invoked.given), s)
  BY <1>2, <1>3, <1>5, EndedServed, ZenonT(60)
<1> HIDE DEF sent
<1>7. QED
  BY <1>1, <1>6, RefusalServed

\* A unary handler of Connect has one envelope at least: that of a message, or that of
\* an error.
LEMMA UnarySent ==
  ASSUME NEW invoked, IsSequence(invoked.items), invoked.items # << >> \/ invoked.errors # << >>,
         NEW binary, NEW max,
         NEW outputs, outputs = TransformSerializeEnvelope(invoked, binary, max),
         NEW compression, NEW minBytes, NEW caught,
         caught = TransformCatch(outputs, <<Envelope({}, ErrorToJsonBytes(outputs.errors[1]))>>),
         NEW sent, sent = TransformCompressEnvelope(caught, compression, minBytes).items
  PROVE  1 \in DOMAIN sent /\ IsData(sent[1].data)
<1> DEFINE end == Envelope({}, ErrorToJsonBytes(outputs.errors[1]))
<1>1. IsSequence(outputs.items) /\ AllSendable(outputs.items, max) /\ AllUnflagged(outputs.items)
  BY OutputsServed
<1>2. outputs.errors = << >> => outputs.items # << >>
  <2>1. outputs.errors = << >> =>
          DOMAIN outputs.items = DOMAIN invoked.items /\ invoked.errors = << >>
    BY SerializedItems
  <2>2. /\ outputs.items = << >> <=> DOMAIN outputs.items = {}
        /\ invoked.items = << >> <=> DOMAIN invoked.items = {}
    BY <1>1, SequenceFacts
  <2>3. QED
    BY <2>1, <2>2
<1>3. Sendable(end, max)
  BY DEF Sendable, Limited, Envelope, ErrorToJsonBytes, JsonData, Data, IsData
<1>4. caught = IF outputs.errors = << >> THEN outputs ELSE Stream(outputs.items \o <<end>>)
  BY DEF TransformCatch
<1> HIDE DEF end
<1>5. IsSequence(sent) /\ sent # << >> /\ \A n \in DOMAIN sent : Limited(sent[n], max)
  <2>1. CASE outputs.errors = << >>
    <3> DEFINE out == TransformCompressEnvelope(outputs, compression, minBytes)
    <3>1. sent = out.items
      BY <1>4, <2>1
    <3> HIDE DEF out
    <3>2. /\ IsSequence(out.items) /\ SameLength(out.items, outputs.items)
          /\ \A n \in DOMAIN out.items : Limited(out.items[n], max)
      BY <1>1, CompressedItems DEF out
    <3>3. out.items # << >>
      <4>1. DOMAIN outputs.items # {} /\ DOMAIN outputs.items = 1..Len(outputs.items)
        BY <1>1, <1>2, <2>1, SequenceFacts
      <4>2. DOMAIN out.items = 1..Len(out.items)
        BY <3>2, SequenceFacts
      <4>3. QED
        BY <3>2, <4>1, <4>2, EmptySequence DEF SameLength
    <3>4. QED
      BY <3>1, <3>2, <3>3
  <2>2. CASE outputs.errors # << >>
    <3>1. sent = TransformCompressEnvelope(Stream(outputs.items \o <<end>>), compression, minBytes).items
      BY <1>4, <2>2
    <3>2. QED
      BY <1>1, <1>3, <3>1, EndedItems
  <2>3. QED
    BY <2>1, <2>2
<1>6. 1 \in DOMAIN sent
  BY <1>5, SequenceFacts
<1>7. QED
  BY <1>5, <1>6 DEF Limited

\* What the handler of Connect answers, for a unary method
LEMMA ConnectUnaryServed ==
  ASSUME NEW s, NEW spec, Implements(spec), ReturnsOne(spec.kind), NEW q, IsBody(q.body)
  PROVE  Served(HandleConnectUnary(s, spec, q), s)
<1> DEFINE type == ParseConnectType(Get(q.header, "content-type"))
           binary == type[1].binary
           compression == CompressionNegotiate(s.accept, q.header, "content-encoding", "accept-encoding")
           input == UnaryInput(s, q, compression, binary)
           invoked == InvokeImplementation(spec, q.header, input)
           outputs == TransformSerializeEnvelope(invoked, binary, s.writeMaxBytes)
           caught == TransformCatch(outputs, <<Envelope({}, ErrorToJsonBytes(outputs.errors[1]))>>)
           sent == TransformCompressEnvelope(caught, compression.response, s.compressMinBytes).items
           Answered200(status, header) ==
             Respond(status, header, BareBody(sent[1].data), NoHeaders, invoked.given)
<1>1. \/ HandleConnectUnary(s, spec, q) \in {Refuse(UnsupportedMediaType), Refuse(MethodNotAllowed)}
      \/ \E status, header : HandleConnectUnary(s, spec, q) = Answered200(status, header)
  BY ZenonT(60) DEF HandleConnectUnary
<1> HIDE DEF type, compression
<1>2. IsSequence(input.items) /\ AllWithin(input.items, s.readMaxBytes)
  BY UnaryInputWithin
<1> HIDE DEF input
<1>3. /\ invoked.given # << >> => AllWithin(invoked.given[1].inputs, s.readMaxBytes)
      /\ IsSequence(invoked.items)
      /\ invoked.items # << >> \/ invoked.errors # << >>
  BY <1>2, InvokedWith
<1> HIDE DEF invoked
<1>4. IsData(sent[1].data)
  BY <1>3, UnarySent
<1> HIDE DEF sent
<1>5. \A status, header : Served(Answered200(status, header), s)
  <2>1. /\ BareBody(sent[1].data).is = "bare" /\ IsBody(BareBody(sent[1].data))
        /\ BodyLimited(BareBody(sent[1].data), s.writeMaxBytes)
    BY <1>4 DEF BareBody, IsBody, BodyLimited
  <2>2. QED
    BY <1>3, <2>1 DEF Respond, Served, EndsOnce
<1> HIDE DEF Answered200
<1>6. QED
  BY <1>1, <1>5, RefusalServed

\* Whatever a server gets, what it sends is a response.
LEMMA HandlerServed ==
  ASSUME NEW s, NEW spec, Implements(spec), NEW q, IsBody(q.body), "body" \in DOMAIN q
  PROVE  Served(NodeHandler(s, spec, q), s)
<1> DEFINE received == UniversalRequestFromNode(q)
           merged == MergeHandlers(s, spec, received)
           pseudo == IF q.httpVersion = "2" THEN Field(":status", <<"status">>) ELSE NoHeaders
<1>1. IsBody(received.body)
  BY DEF UniversalRequestFromNode
<1> HIDE DEF received
<1>2. \A protocol : Served(Handle(protocol, s, spec, received), s)
  BY <1>1, GrpcServed, GrpcWebServed, ConnectStreamServed, ConnectUnaryServed DEF Handle, ReturnsOne
<1>3. Served(ProtocolNegotiatingHandler(s, spec, received), s)
  <2>1. \/ \E status : ProtocolNegotiatingHandler(s, spec, received) = Refuse(status)
        \/ \E header : ProtocolNegotiatingHandler(s, spec, received)
                         = [Refuse(VersionNotSupported) EXCEPT !.header = header]
        \/ \E protocol : ProtocolNegotiatingHandler(s, spec, received)
                           = Handle(protocol, s, spec, received)
    BY Zenon DEF ProtocolNegotiatingHandler
  <2> DEFINE negotiated == ProtocolNegotiatingHandler(s, spec, received)
  <2> HIDE DEF negotiated
  <2>2. ASSUME NEW status, negotiated = Refuse(status)
        PROVE  Served(negotiated, s)
    BY <2>2, RefusalServed
  <2>3. ASSUME NEW header, negotiated = [Refuse(VersionNotSupported) EXCEPT !.header = header]
        PROVE  Served(negotiated, s)
    BY <2>3, RefusalServed
  <2>4. ASSUME NEW protocol, negotiated = Handle(protocol, s, spec, received)
        PROVE  Served(negotiated, s)
    BY <1>2, <2>4
  <2>5. Served(negotiated, s)
    BY <2>1, <2>2, <2>3, <2>4 DEF negotiated
  <2>6. QED
    BY <2>5 DEF negotiated
<1>4. Served(merged, s)
  BY <1>3, RefusalServed DEF MergeHandlers
<1> HIDE DEF merged
<1>5. NodeHandler(s, spec, q)
        = [merged EXCEPT !.header = SetAll(@, pseudo), !.trailer = SetAll(@, NoHeaders)]
  BY DEF NodeHandler, UniversalResponseToNode, WebHeaderToNodeHeaders, merged, received
<1>6. ~Has(pseudo, "grpc-status")
  BY EmptySequence DEF Has, Field, Set, NoHeaders
<1>7. /\ ~Has(merged.header, "grpc-status") => ~Has(SetAll(merged.header, pseudo), "grpc-status")
      /\ SetAll(NoHeaders, NoHeaders) = NoHeaders
  <2>1. ~Has(merged.header, "grpc-status") => ~Has(SetAll(merged.header, pseudo), "grpc-status")
    BY <1>6 DEF SetAll, Has
  <2>2. SetAll(NoHeaders, NoHeaders) = << >>
    <3> DEFINE both == SetAll(NoHeaders, NoHeaders)
    <3>1. both = [n \in {} |-> both[n]] /\ 1..0 = {}
      BY EmptySequence DEF SetAll, NoHeaders
    <3> HIDE DEF both
    <3>2. IsSequence(both) /\ DOMAIN both = {}
      BY <3>1, BuiltSequence
    <3>3. QED
      BY <3>2, SequenceFacts DEF both
  <2>3. QED
    BY <2>1, <2>2 DEF NoHeaders
<1> HIDE DEF pseudo
<1>8. QED
  BY <1>4, <1>5, <1>7 DEF Served, EndsOnce

-----------------------------------------------------------------------------
(* What a client for Node.js reads                                         *)

\* The items of a stream with ends among them
ItemsWithin(items, max) == \A n \in DOMAIN items : ~items[n].end => items[n].value.size <= max

\* The envelopes a client reads are within its limit.
DownloadedFrom(items, body, max) ==
  \A n \in DOMAIN items :
    /\ Within(items[n].data, max)
    /\ body.is = "envelopes" /\ n \in DOMAIN body.envelopes /\ ~IsShort(body.envelopes[n])
    /\ \A flag \in items[n].flags : flag \in body.envelopes[n].flags
    /\ items[n].data.content = body.envelopes[n].data.content

LEMMA DownloadItems ==
  ASSUME NEW c, NEW r, IsBody(r.body), NEW compression, NEW out, out = Download(c, r, compression)
  PROVE  IsSequence(out.items) /\ DownloadedFrom(out.items, r.body, c.client.readMaxBytes)
<1> DEFINE split == TransformSplitEnvelope(r.body, c.client.readMaxBytes)
<1>1. out = TransformDecompressEnvelope(split, compression, c.client.readMaxBytes)
  BY DEF Download
<1>2. /\ IsSequence(split.items)
      /\ \A n \in DOMAIN split.items :
           /\ r.body.is = "envelopes" /\ n \in DOMAIN r.body.envelopes
           /\ split.items[n] = r.body.envelopes[n] /\ ~IsShort(split.items[n])
           /\ Within(split.items[n].data, c.client.readMaxBytes)
  BY SplitWithin
<1> HIDE DEF split
<1>3. /\ IsSequence(out.items)
      /\ \A n \in DOMAIN out.items :
           /\ n \in DOMAIN split.items
           /\ out.items[n].flags = split.items[n].flags \ {"compressed"}
           /\ Within(split.items[n].data, c.client.readMaxBytes) =>
                /\ Within(out.items[n].data, c.client.readMaxBytes)
                /\ out.items[n].data.content = split.items[n].data.content
  BY <1>1, <1>2, DecompressedItems
<1>4. QED
  BY <1>2, <1>3 DEF DownloadedFrom

\* The messages a client parses are within its limit.
LEMMA DownloadParsed ==
  ASSUME NEW c, NEW r, IsBody(r.body), NEW compression, NEW binary, NEW flag
  PROVE  /\ LET parsed == TransformParseEnvelope(Download(c, r, compression), binary, flag)
            IN IsSequence(parsed.items) /\ AllWithin(parsed.items, c.client.readMaxBytes)
         /\ LET parsed == TransformParseEnvelopeAndEnd(Download(c, r, compression), binary, flag)
            IN IsSequence(parsed.items) /\ ItemsWithin(parsed.items, c.client.readMaxBytes)
<1> DEFINE out == Download(c, r, compression)
           parsed == TransformParseEnvelopeAndEnd(out, binary, flag)
<1>1. IsSequence(out.items) /\ \A n \in DOMAIN out.items : Within(out.items[n].data, c.client.readMaxBytes)
  BY DownloadItems DEF DownloadedFrom
<1> HIDE DEF out
<1>2. LET items == TransformParseEnvelope(out, binary, flag).items
      IN IsSequence(items) /\ AllWithin(items, c.client.readMaxBytes)
  BY <1>1, ParsedItems
<1>3. IsSequence(parsed.items) /\ ParsedFrom(parsed.items, out.items, flag, c.client.readMaxBytes)
  BY <1>1, ParsedAndEndItems
<1> HIDE DEF parsed
<1>4. ItemsWithin(parsed.items, c.client.readMaxBytes)
  BY <1>1, <1>3 DEF ItemsWithin, ParsedFrom
<1>5. QED
  BY <1>2, <1>3, <1>4 DEF out, parsed

\* A failure has no messages.
LEMMA FailedWithin ==
  ASSUME NEW error, NEW max
  PROVE  AllWithin(Failed(error).messages, max)
BY EmptySequence DEF Failed, Answer, AllWithin

\* The messages among some items are within a limit if the items are.
LEMMA MessageValuesWithin ==
  ASSUME NEW items, IsSequence(items), NEW max, ItemsWithin(items, max)
  PROVE  AllWithin(MessageValues(items), max)
<1> DEFINE places == DOMAIN items \ Ends(items)
           selected == Selected(items, places)
<1>1. \A n \in places : n \in DOMAIN items /\ ~items[n].end
  BY DEF Ends
<1> HIDE DEF places
<1>2. \A k \in DOMAIN selected : \E n \in DOMAIN items \cap places : selected[k] = items[n]
  BY SelectedElements
<1>3. MessageValues(items) = [k \in DOMAIN selected |-> selected[k].value]
  BY DEF MessageValues, Values, places
<1> HIDE DEF selected
<1>4. QED
  BY <1>1, <1>2, <1>3 DEF AllWithin, ItemsWithin

\* There is no end among the items that precede the first.
LEMMA EndedMessagesWithin ==
  ASSUME NEW items, IsSequence(items), NEW max, ItemsWithin(items, max)
  PROVE  LET first == IF Ends(items) = {} THEN Len(items) + 1 ELSE Min(Ends(items))
         IN AllWithin(Values(SubSeq(items, 1, first - 1)), max)
<1> DEFINE ends == Ends(items)
           first == IF ends = {} THEN Len(items) + 1 ELSE Min(ends)
           before == SubSeq(items, 1, first - 1)
<1>1. Len(items) \in Nat /\ DOMAIN items = 1..Len(items)
  BY SequenceFacts
<1>2. ends \in SUBSET (1..Len(items)) /\ \A n \in DOMAIN items : items[n].end => n \in ends
  BY <1>1 DEF Ends
<1> HIDE DEF ends
<1>3. /\ first \in 1..(Len(items) + 1)
      /\ \A n \in 1..(first - 1) : n \in DOMAIN items /\ n \notin ends
  <2>1. CASE ends = {}
    BY <1>1, <2>1
  <2>2. CASE ends # {}
    <3>1. Min(ends) \in ends /\ \A n \in ends : Min(ends) <= n
      BY <1>1, <1>2, <2>2, LeastIsMin
    <3>2. first = Min(ends) /\ first \in 1..Len(items)
      BY <1>2, <2>2, <3>1
    <3> HIDE DEF first
    <3>3. ASSUME NEW n \in 1..(first - 1)
          PROVE  n \in DOMAIN items /\ n \notin ends
      <4>1. n \in 1..Len(items) /\ n < first
        BY <1>1, <3>2
      <4>2. QED
        BY <1>1, <3>1, <3>2, <4>1
    <3>4. QED
      BY <1>1, <3>2, <3>3
  <2>3. QED
    BY <2>1, <2>2
<1> HIDE DEF first
<1>4. \A k \in DOMAIN before : k \in 1..(first - 1) /\ before[k] = items[k]
  <2>1. first - 1 \in Int /\ 1 \in Int /\ \A n \in 1..(first - 1) : items[n] \in ToSet(items)
    BY <1>1, <1>3 DEF ToSet
  <2>2. /\ before \in Seq(ToSet(items))
        /\ Len(before) = IF 1 <= first - 1 THEN (first - 1) - 1 + 1 ELSE 0
        /\ \A i \in 1..((first - 1) - 1 + 1) : before[i] = items[1 + i - 1]
    BY <2>1, SubSeqProperties
  <2>3. DOMAIN before = 1..Len(before)
    BY <2>2, LenProperties
  <2> HIDE DEF before
  <2>4. QED
    BY <1>1, <1>3, <2>2, <2>3
<1> HIDE DEF before
<1>5. \A k \in DOMAIN before : before[k].value.size <= max
  BY <1>2, <1>3, <1>4 DEF ItemsWithin
<1>6. AllWithin(Values(before), max)
  BY <1>5 DEF AllWithin, Values
<1>7. QED
  BY <1>6 DEF before, first, ends

\* An answer with messages up to the end is within the limit.
LEMMA EndedAnswerWithin ==
  ASSUME NEW r, NEW parsed, IsSequence(parsed.items), NEW max, ItemsWithin(parsed.items, max),
         NEW end, NEW violation
  PROVE  AllWithin(EndedAnswer(r, parsed, end, violation).messages, max)
<1> DEFINE first == IF Ends(parsed.items) = {} THEN Len(parsed.items) + 1 ELSE Min(Ends(parsed.items))
           messages == Values(SubSeq(parsed.items, 1, first - 1))
<1>1. AllWithin(messages, max)
  BY EndedMessagesWithin
<1>2. EndedAnswer(r, parsed, end, violation).messages = messages
  BY DEF EndedAnswer, Answer
<1> HIDE DEF messages
<1>3. QED
  BY <1>1, <1>2

\* An answer with one message is within the limit.
LEMMA UnaryGrpcWebAnswerWithin ==
  ASSUME NEW r, NEW parsed, IsSequence(parsed.items), NEW max, ItemsWithin(parsed.items, max),
         NEW violation
  PROVE  LET result == UnaryGrpcWebAnswer(r, parsed, violation)
         IN ~result.raised => AllWithin(result.value.messages, max)
<1> DEFINE messages == MessageValues(parsed.items)
           trailers == EndValues(parsed.items)
           valid == ValidateTrailer(trailers[1])
           result == UnaryGrpcWebAnswer(r, parsed, violation)
<1>1. AllWithin(messages, max)
  BY MessageValuesWithin
<1>2. \/ \E error : result = Raise(error)
      \/ valid.raised /\ result = valid
      \/ result = Return(Answer(r.header, messages, valid.value, << >>))
  BY DEF UnaryGrpcWebAnswer, Then
<1>3. Answer(r.header, messages, valid.value, << >>).messages = messages
  BY DEF Answer
<1> HIDE DEF messages, trailers, valid, result
<1>4. ~result.raised => AllWithin(result.value.messages, max)
  BY <1>1, <1>2, <1>3, Outcomes
<1>5. QED
  BY <1>4 DEF result

\* What a reader settles on is an error or the answer it has returned.
LEMMA SettledWithin ==
  ASSUME NEW result, NEW max, ~result.raised => AllWithin(result.value.messages, max)
  PROVE  AllWithin(Settled(result).messages, max)
BY FailedWithin DEF Settled

\* The unary answers of createConnectTransport() are within the limit.
LEMMA NodeConnectUnaryWithin ==
  ASSUME NEW c, NEW r, IsBody(r.body)
  PROVE  AllWithin(NodeConnectUnaryResponse(c, r).messages, c.client.readMaxBytes)
<1> DEFINE o == c.client
           max == o.readMaxBytes
           demuxed == TrailerDemux(r.header)
           valid == ConnectValidateResponseWithCompression(FALSE, o.binary, o.accept, r.status, r.header)
           read == TransformReadAllBytes(r.body, max, LengthHint(r.header))
           data == IF valid.value.compression = "identity" THEN Return(read.value)
                   ELSE Decompress(read.value, valid.value.compression, max)
           error == RaiseFrom(ErrorFromJson(ToJson(data.value), AppendHeaders(demuxed.header, demuxed.trailer)))
           message == Parse(data.value, o.binary)
           success == Answer(demuxed.header, <<message.value>>, demuxed.trailer, << >>)
           result == IF valid.raised THEN valid
                     ELSE IF read.raised THEN read
                     ELSE IF data.raised THEN data
                     ELSE IF valid.value.isConnectUnaryError THEN error
                     ELSE IF message.raised THEN message
                     ELSE Return(success)
<1>1. NodeConnectUnaryResponse(c, r) = Settled(result)
  BY Outcomes, Zenon DEF NodeConnectUnaryResponse, Then
<1>2. ~read.raised => Within(read.value, max)
  BY ReadWithin
<1>3. ~read.raised /\ ~data.raised => Within(data.value, max)
  <2> HIDE DEF valid, read
  <2>1. CASE valid.value.compression = "identity"
    BY <1>2, <2>1, Outcomes, Zenon
  <2>2. CASE valid.value.compression # "identity"
    BY <1>2, <2>2, DecompressedWithin DEF Within
  <2>3. QED
    BY <2>1, <2>2
<1>4. error.raised
  BY Outcomes, Zenon DEF RaiseFrom
<1> HIDE DEF valid, read, data, error
<1>5. ~read.raised /\ ~data.raised /\ ~message.raised => AllWithin(success.messages, max)
  <2>1. success.messages = <<message.value>>
    BY DEF Answer
  <2>2. DOMAIN <<message.value>> = {1} /\ <<message.value>>[1] = message.value
    BY SingletonSequence
  <2> HIDE DEF success
  <2>3. ~read.raised /\ ~data.raised /\ ~message.raised => message.value.size <= max
    BY <1>3, ParsedWithin
  <2> HIDE DEF message
  <2>4. QED
    BY <2>1, <2>2, <2>3 DEF AllWithin
<1> HIDE DEF message, success
<1>6. ~result.raised => AllWithin(result.value.messages, max)
  BY <1>4, <1>5, Outcomes
<1> HIDE DEF result
<1>7. QED
  BY <1>1, <1>6, SettledWithin, SMTT(30)

\* The streams of createConnectTransport() are within the limit.
LEMMA NodeConnectStreamWithin ==
  ASSUME NEW c, NEW r, IsBody(r.body)
  PROVE  AllWithin(NodeConnectStreamResponse(c, r).messages, c.client.readMaxBytes)
<1> DEFINE valid == ConnectValidateResponseWithCompression(
                      TRUE, c.client.binary, c.client.accept, r.status, r.header)
           parsed == TransformParseEnvelopeAndEnd(
                       Download(c, r, valid.value.compression), c.client.binary, "end")
           success == EndedAnswer(r, parsed, ConnectEnd(FirstEnd(parsed)), ProtocolError)
           result == IF valid.raised THEN valid ELSE Return(success)
<1>1. NodeConnectStreamResponse(c, r) = Settled(result)
  BY DEF NodeConnectStreamResponse, Then
<1> HIDE DEF valid
<1>2. IsSequence(parsed.items) /\ ItemsWithin(parsed.items, c.client.readMaxBytes)
  BY DownloadParsed
<1> HIDE DEF parsed
<1>3. AllWithin(success.messages, c.client.readMaxBytes)
  BY <1>2, EndedAnswerWithin
<1> HIDE DEF success
<1>4. ~result.raised => AllWithin(result.value.messages, c.client.readMaxBytes)
  BY <1>3, Outcomes
<1> HIDE DEF result
<1>5. QED
  BY <1>1, <1>4, SettledWithin

\* The answers of createGrpcTransport() are within the limit.
LEMMA NodeGrpcWithin ==
  ASSUME NEW c, NEW r, IsBody(r.body)
  PROVE  /\ AllWithin(NodeGrpcUnaryResponse(c, r).messages, c.client.readMaxBytes)
         /\ AllWithin(NodeGrpcStreamResponse(c, r).messages, c.client.readMaxBytes)
<1> DEFINE max == c.client.readMaxBytes
           valid == GrpcValidateResponseWithCompression(c.client.binary, c.client.accept, r.status, r.header)
           parsed == TransformParseEnvelope(
                       Download(c, r, valid.value.compression), c.client.binary, "none")
           trailer == ValidateTrailer(r.trailer)
           unary == CASE Len(parsed.items) > 1 -> Raise(ProtocolError)
                      [] Len(parsed.items) <= 1 /\ parsed.errors # << >> -> Raise(parsed.errors[1])
                      [] OTHER -> IF trailer.raised THEN trailer
                                  ELSE IF parsed.items = << >> THEN Raise(ProtocolError)
                                  ELSE Return(Answer(r.header, parsed.items, trailer.value, << >>))
           errors == IF parsed.errors # << >> \/ valid.value.foundStatus THEN parsed.errors
                     ELSE FindTrailerError(r.trailer)
           stream == Return(Answer(r.header, parsed.items, r.trailer, errors))
<1>1. /\ NodeGrpcUnaryResponse(c, r) = Settled(IF valid.raised THEN valid ELSE unary)
      /\ NodeGrpcStreamResponse(c, r) = Settled(IF valid.raised THEN valid ELSE stream)
  BY DEF NodeGrpcUnaryResponse, NodeGrpcStreamResponse, Then
<1> HIDE DEF valid
<1>2. AllWithin(parsed.items, max)
  BY DownloadParsed
<1> HIDE DEF parsed, trailer, errors
<1>3. AllWithin(stream.value.messages, max)
  BY <1>2 DEF Return, Answer
<1>4. ~unary.raised => AllWithin(unary.value.messages, max)
  BY <1>2 DEF Return, Raise, Answer
<1> HIDE DEF unary, stream
<1>5. /\ AllWithin(Settled(IF valid.raised THEN valid ELSE unary).messages, max)
      /\ AllWithin(Settled(IF valid.raised THEN valid ELSE stream).messages, max)
  BY <1>3, <1>4, SettledWithin
<1>6. QED
  BY <1>1, <1>5

\* The answers of createGrpcWebTransport() are within the limit.
LEMMA NodeGrpcWebWithin ==
  ASSUME NEW c, NEW r, IsBody(r.body)
  PROVE  /\ AllWithin(NodeGrpcWebUnaryResponse(c, r).messages, c.client.readMaxBytes)
         /\ AllWithin(NodeGrpcWebStreamResponse(c, r).messages, c.client.readMaxBytes)
<1> DEFINE max == c.client.readMaxBytes
           valid == GrpcWebValidateResponseWithCompression(
                      c.client.binary, c.client.accept, r.status, r.header)
           parsed == TransformParseEnvelopeAndEnd(
                       Download(c, r, valid.value.compression), c.client.binary, "trailer")
           unary == UnaryGrpcWebAnswer(r, parsed, ProtocolError)
           only == TrailersOnlyAnswer(r, parsed, ProtocolError)
           ended == EndedAnswer(r, parsed, ValidateTrailer(FirstEnd(parsed)), ProtocolError)
           stream == Return(IF valid.value.foundStatus THEN only ELSE ended)
<1>1. /\ NodeGrpcWebUnaryResponse(c, r) = Settled(IF valid.raised THEN valid ELSE unary)
      /\ NodeGrpcWebStreamResponse(c, r) = Settled(IF valid.raised THEN valid ELSE stream)
  BY DEF NodeGrpcWebUnaryResponse, NodeGrpcWebStreamResponse, Then
<1> HIDE DEF valid
<1>2. IsSequence(parsed.items) /\ ItemsWithin(parsed.items, max)
  BY DownloadParsed
<1> HIDE DEF parsed
<1>3. ~unary.raised => AllWithin(unary.value.messages, max)
  BY <1>2, UnaryGrpcWebAnswerWithin
<1>4. AllWithin(only.messages, max)
  BY EmptySequence DEF TrailersOnlyAnswer, Answer, AllWithin
<1>5. AllWithin(ended.messages, max)
  BY <1>2, EndedAnswerWithin
<1> HIDE DEF unary, only, ended
<1>6. AllWithin(stream.value.messages, max)
  BY <1>4, <1>5, Outcomes
<1> HIDE DEF stream
<1>7. /\ AllWithin(Settled(IF valid.raised THEN valid ELSE unary).messages, max)
      /\ AllWithin(Settled(IF valid.raised THEN valid ELSE stream).messages, max)
  BY <1>3, <1>6, SettledWithin
<1>8. QED
  BY <1>1, <1>7

\* Whatever the protocol, what a client for Node.js gives its caller is within limits.
LEMMA ReadResponseWithin ==
  ASSUME NEW c \in Calls, c.platform = "node", NEW r, IsBody(r.body)
  PROVE  AllWithin(ReadResponse(c, r).messages, c.client.readMaxBytes)
<1>1. ReadResponse(c, r) \in
        {NodeConnectUnaryResponse(c, r), NodeConnectStreamResponse(c, r),
         NodeGrpcUnaryResponse(c, r), NodeGrpcStreamResponse(c, r),
         NodeGrpcWebUnaryResponse(c, r), NodeGrpcWebStreamResponse(c, r)}
  BY CallsAssumption DEF ReadResponse
<1>2. QED
  BY <1>1, NodeConnectUnaryWithin, NodeConnectStreamWithin, NodeGrpcWithin, NodeGrpcWebWithin

-----------------------------------------------------------------------------
(* The invariant                                                           *)

\* A response that a proxy has made up, or made of another
Tampered(r) ==
  DOMAIN r = {"status", "header", "body", "trailer", "given"} /\ IsBody(r.body) /\ Endless(r)

RequestInv ==
  /\ pc \in {"sent", "foreign"} => "body" \in DOMAIN request[1] /\ IsBody(request[1].body)
  /\ pc = "sent" /\ call.platform = "node" => BodyLimited(request[1].body, call.client.writeMaxBytes)

ResponseInv ==
  /\ tampered \in BOOLEAN
  /\ pc \in {"start", "sent", "foreign"} => response = << >> /\ ~tampered
  /\ pc = "served" => response # << >>
  /\ response # << >> =>
       IF tampered THEN Tampered(response[1]) ELSE Served(response[1], call.server)

AnswerInv ==
  answer # << >> /\ call.platform = "node" => AllWithin(answer[1].messages, call.client.readMaxBytes)

Inv == call \in Calls /\ RequestInv /\ ResponseInv /\ AnswerInv

\* Initially nothing is on its way.
LEMMA InitInv == Init => Inv
<1>1. SUFFICES ASSUME Init
               PROVE  Inv
  OBVIOUS
<1>2. call \in Calls /\ pc = "start" /\ response = << >> /\ tampered = FALSE /\ answer = << >>
  BY <1>1 DEF Init
<1>3. QED
  BY <1>2 DEF Inv, RequestInv, ResponseInv, AnswerInv

\* Send makes a request with the timeout, and envelopes within the limit.
LEMMA SendInv ==
  ASSUME Inv, Send
  PROVE  Inv'
<1>1. /\ pc = "start" /\ call' = call /\ response' = response /\ tampered' = tampered
      /\ call \in Calls /\ response = << >> /\ ~tampered /\ tampered \in BOOLEAN
  BY DEF Send, Inv, ResponseInv
<1>2. \/ pc' = "done" /\ \E error : answer' = <<Failed(error)>>
      \/ /\ pc' = "sent" /\ answer' = answer /\ ~MakeRequest(call).raised
         /\ "body" \in DOMAIN request'[1] /\ request'[1].body = MakeRequest(call).value.body
  <2> DEFINE made == MakeRequest(call)
             valid == ValidLimits(call.client) /\ ~InternalHandlerOptions(call.server).raised
             sent(h) == [httpVersion |-> call.httpVersion, method |-> "POST",
                         path |-> (IF call.platform = "legacy" THEN LegacyMethodUrl(call.base, "method")
                                  ELSE CreateMethodUrl(call.base, "method")),
                         header |-> h, body |-> made.value.body]
  <2>1. \/ pc' = "done" /\ \E error : answer' = <<Failed(error)>>
        \/ /\ pc' = "sent" /\ answer' = answer /\ ~made.raised
           /\ \E h : request' = <<sent(h)>>
    <3>1. CASE ~valid
      BY <3>1 DEF Send, Settle
    <3>2. CASE valid /\ made.raised
      BY <3>2 DEF Send, Settle
    <3>3. CASE valid /\ ~made.raised
      BY <3>3 DEF Send
    <3>4. QED
      BY <3>1, <3>2, <3>3
  <2>2. \A h : "body" \in DOMAIN sent(h) /\ sent(h).body = made.value.body
    OBVIOUS
  <2> HIDE DEF sent
  <2>3. \A h : <<sent(h)>>[1] = sent(h)
    OBVIOUS
  <2>4. QED
    BY <2>1, <2>2, <2>3
<1>3. RequestInv'
  BY <1>1, <1>2, RequestBody DEF RequestInv
<1>4. ResponseInv'
  BY <1>1, <1>2 DEF ResponseInv
<1>5. AnswerInv'
  <2>1. \A error : <<Failed(error)>>[1] = Failed(error)
    OBVIOUS
  <2>2. QED
    BY <1>1, <1>2, <2>1, FailedWithin DEF AnswerInv, Inv
<1>6. QED
  BY <1>1, <1>3, <1>4, <1>5 DEF Inv

\* A foreign request has a body, whatever else.
LEMMA ForeignSendsInv ==
  ASSUME Inv, ForeignSends
  PROVE  Inv'
<1>1. PICK q \in Foreign : request' = <<q>>
  BY DEF ForeignSends
<1>2. /\ pc = "start" /\ pc' = "foreign" /\ call' = call /\ response' = response
      /\ tampered' = tampered /\ answer' = answer /\ request'[1] = q
  BY <1>1 DEF ForeignSends
<1>3. "body" \in DOMAIN q /\ IsBody(q.body)
  BY WireAssumption
<1>4. QED
  BY <1>2, <1>3 DEF Inv, RequestInv, ResponseInv, AnswerInv

\* The server gives the implementation what is within its limit, and ends its response once.
LEMMA ServeInv ==
  ASSUME Inv, Serve
  PROVE  Inv'
<1> DEFINE r == NodeHandler(call.server, CreateImplSpec(call.kind, call.impl), request[1])
<1>1. /\ pc \in {"sent", "foreign"} /\ response' = <<r>> /\ pc' \in {"served", "done"}
      /\ call' = call /\ request' = request /\ tampered' = tampered /\ answer' = answer
  BY DEF Serve
<1>2. Served(r, call.server)
  <2>1. "body" \in DOMAIN request[1] /\ IsBody(request[1].body)
    BY <1>1 DEF Inv, RequestInv
  <2>2. Implements(CreateImplSpec(call.kind, call.impl))
    BY SpecImplements DEF Inv
  <2>3. QED
    BY <2>1, <2>2, HandlerServed
<1> HIDE DEF r
<1>3. response' # << >> /\ response'[1] = r
  BY <1>1, SingletonSequence
<1>4. RequestInv' /\ AnswerInv'
  BY <1>1 DEF Inv, RequestInv, AnswerInv
<1>5. ResponseInv'
  BY <1>1, <1>2, <1>3 DEF Inv, ResponseInv
<1>6. QED
  BY <1>1, <1>4, <1>5 DEF Inv

\* What is left of data is data, and no JSON.
LEMMA PartIsData ==
  ASSUME NEW data, NEW part \in PartsOf(data)
  PROVE  IsData(part) /\ part.content.is # "json"
<1>1. \/ part = EmptyData
      \/ \E size : part = Data([is |-> "garbage"], "none", size)
      \/ \E size, any : part = Data(Message(size, any), "proto", size)
      \/ \E lines : part = LinesData(lines)
  <2> DEFINE content == data.content
             sizes == IF content.is = "message" THEN 1..(Size(data) - 1) ELSE {1}
             garbage == {Data([is |-> "garbage"], "none", size) : size \in sizes}
             Shorter(any) == {Data(Message(size, any), "proto", size) : size \in sizes}
             messages == IF content.is # "message" \/ data.format # "proto" \/ data.zip # "identity"
                           THEN {} ELSE Shorter(FALSE) \cup Shorter(content.any)
             first == {LinesData(SubSeq(content.lines, 1, n)) : n \in 0..Len(content.lines)}
             told == IF content.is # "lines" THEN {} ELSE first
             parts == {EmptyData} \cup garbage \cup messages \cup told
  <2>0. PartsOf(data) = IF Size(data) = 0 THEN {} ELSE parts
    BY DEF PartsOf
  <2>2. part \in first => \E lines : part = LinesData(lines)
    OBVIOUS
  <2>3. part \in garbage => \E size : part = Data([is |-> "garbage"], "none", size)
    OBVIOUS
  <2>4. \A any : part \in Shorter(any) => \E size : part = Data(Message(size, any), "proto", size)
    OBVIOUS
  <2> HIDE DEF garbage, Shorter, first
  <2>5. \/ part = EmptyData \/ part \in garbage \/ part \in first
        \/ \E any : part \in Shorter(any)
    BY <2>0
  <2>6. QED
    BY <2>2, <2>3, <2>4, <2>5
<1>2. CASE part = EmptyData
  BY <1>2 DEF EmptyData, Data, IsData
<1>3. CASE \E size : part = Data([is |-> "garbage"], "none", size)
  BY <1>3 DEF Data, IsData
<1>4. CASE \E size, any : part = Data(Message(size, any), "proto", size)
  BY <1>4 DEF Data, Message, IsData
<1>5. CASE \E lines : part = LinesData(lines)
  BY <1>5 DEF LinesData, Data, IsData
<1>6. QED
  BY <1>1, <1>2, <1>3, <1>4, <1>5

\* An envelope that does not end a response
Unending(e) ==
  /\ "end" \in e.flags => e.data.content.is # "json"
  /\ "trailer" \in e.flags => IsShort(e) \/ ~HasStatus(e)

\* What is left of envelopes of which only the last ends a response
LEMMA CutEnvelopes ==
  ASSUME NEW s, IsSequence(s),
         \A n \in DOMAIN s : IsData(s[n].data) /\ (Final(s[n]) => n = Len(s)),
         NEW k \in DOMAIN s, NEW rest,
         rest = << >> \/ \E part \in PartsOf(s[k].data) : rest = <<Truncated(s[k], part)>>,
         NEW left, left = SubSeq(s, 1, k - 1) \o rest
  PROVE  IsSequence(left) /\ \A n \in DOMAIN left : IsData(left[n].data) /\ Unending(left[n])
<1> DEFINE first == SubSeq(s, 1, k - 1)
<1>1. Len(s) \in Nat /\ DOMAIN s = 1..Len(s) /\ k \in Nat \ {0} /\ k <= Len(s)
  BY SequenceFacts
<1>2. \A i \in 1..(k - 1) : i \in DOMAIN s /\ i # Len(s) /\ 1 + i - 1 = i
  <2>1. ASSUME NEW l \in Nat, k <= l, NEW i \in 1..(k - 1)
        PROVE  i \in 1..l /\ i # l /\ 1 + i - 1 = i
    BY ONLY <1>1, <2>1
  <2>2. QED
    BY <1>1, <2>1
<1>3. k - 1 \in Int /\ 1 \in Int /\ \A i \in 1..(k - 1) : s[i] \in ToSet(s)
  <2>1. k - 1 \in Int /\ 1 \in Int
    BY <1>1
  <2>2. QED
    BY <1>2, <2>1 DEF ToSet
<1>4. /\ first \in Seq(ToSet(s))
      /\ Len(first) = IF 1 <= k - 1 THEN (k - 1) - 1 + 1 ELSE 0
      /\ \A i \in 1..((k - 1) - 1 + 1) : first[i] = s[1 + i - 1]
  BY ONLY <1>3, SubSeqProperties
<1>5. (k - 1) - 1 + 1 = k - 1 /\ (~(1 <= k - 1) => k - 1 = 0)
  BY <1>1
<1>6. DOMAIN first = 1..(k - 1) /\ first \in [1..(k - 1) -> ToSet(s)]
  <2>1. Len(first) = k - 1
    BY <1>4, <1>5
  <2>2. QED
    BY <1>4, <2>1, LenProperties
<1>7. \A i \in DOMAIN first : i \in DOMAIN s /\ i # Len(s) /\ first[i] = s[i]
  BY <1>2, <1>4, <1>5, <1>6
<1>8. IsSequence(first)
  <2>1. k - 1 \in Nat /\ first = [n \in 1..(k - 1) |-> first[n]]
    BY <1>1, <1>6
  <2>2. QED
    BY <2>1, BuiltSequence
<1>9. IsSequence(rest) /\ \A n \in DOMAIN rest : rest # << >> /\ rest[n] = rest[1]
  BY EmptySequence, SingletonSequence
<1>10. left = first \o rest
  OBVIOUS
<1> HIDE DEF first
<1>11. /\ IsSequence(first \o rest)
       /\ \A n \in DOMAIN (first \o rest) :
            \/ n \in DOMAIN first /\ (first \o rest)[n] = first[n]
            \/ n - Len(first) \in DOMAIN rest /\ (first \o rest)[n] = rest[n - Len(first)]
  BY <1>8, <1>9, Concatenation
<1>12. /\ IsSequence(left)
       /\ \A n \in DOMAIN left :
            \/ n \in DOMAIN first /\ left[n] = first[n]
            \/ n - Len(first) \in DOMAIN rest /\ left[n] = rest[n - Len(first)]
  BY <1>10, <1>11
<1>13. rest # << >> => IsData(rest[1].data) /\ Unending(rest[1])
  <2>1. ASSUME NEW e, NEW part \in PartsOf(e.data)
        PROVE  IsData(Truncated(e, part).data) /\ Unending(Truncated(e, part))
    BY PartIsData DEF Truncated, Unending, IsShort
  <2>2. QED
    BY <2>1
<1>14. \A n \in DOMAIN s : n # Len(s) => Unending(s[n])
  BY DEF Final, Unending
<1>15. QED
  BY <1>7, <1>9, <1>12, <1>13, <1>14

\* What is left of a body that is cut short
LEMMA CutBody ==
  ASSUME NEW body, IsBody(body),
         body.is = "envelopes" =>
           \A n \in DOMAIN body.envelopes : Final(body.envelopes[n]) => n = Len(body.envelopes),
         NEW cut \in CutBodies(body)
  PROVE  /\ IsBody(cut) /\ cut.is = body.is
         /\ cut.is = "envelopes" => \A n \in DOMAIN cut.envelopes : Unending(cut.envelopes[n])
<1>1. CASE body.is = "bare"
  <2>1. PICK part \in PartsOf(body.data) : cut = BareBody(part)
    BY <1>1 DEF CutBodies
  <2>2. QED
    BY <1>1, <2>1, PartIsData DEF BareBody, IsBody
<1>2. CASE body.is = "envelopes"
  <2> DEFINE s == body.envelopes
  <2>1. PICK k \in DOMAIN s :
          \E rest \in {<< >>} \cup {<<Truncated(s[k], part)>> : part \in PartsOf(s[k].data)} :
            cut = EncodeEnvelopes(SubSeq(s, 1, k - 1) \o rest)
    BY <1>2 DEF CutBodies
  <2>2. PICK rest : /\ rest = << >> \/ \E part \in PartsOf(s[k].data) : rest = <<Truncated(s[k], part)>>
                    /\ cut = EncodeEnvelopes(SubSeq(s, 1, k - 1) \o rest)
    BY <2>1
  <2>3. /\ IsSequence(s)
        /\ \A n \in DOMAIN s : IsData(s[n].data) /\ (Final(s[n]) => n = Len(s))
    BY <1>2 DEF IsBody
  <2>4. /\ cut.is = "envelopes" /\ DOMAIN cut = {"is", "envelopes"}
        /\ cut.envelopes = SubSeq(s, 1, k - 1) \o rest
    BY <2>2 DEF EncodeEnvelopes
  <2>5. /\ IsSequence(cut.envelopes)
        /\ \A n \in DOMAIN cut.envelopes : IsData(cut.envelopes[n].data) /\ Unending(cut.envelopes[n])
    BY <2>2, <2>3, <2>4, CutEnvelopes
  <2>6. QED
    BY <1>2, <2>4, <2>5 DEF IsBody
<1>3. QED
  BY <1>1, <1>2 DEF IsBody

\* What is left of a response that has lost its end tells of none.
LEMMA CutShort ==
  ASSUME NEW s, NEW r, Served(r, s)
  PROVE  /\ r.trailer # NoHeaders => Tampered([r EXCEPT !.trailer = NoHeaders])
         /\ ~Has(r.header, "grpc-status") =>
              \A body \in CutBodies(r.body) : Tampered([r EXCEPT !.body = body])
<1>1. ASSUME r.trailer # NoHeaders
      PROVE  Tampered([r EXCEPT !.trailer = NoHeaders])
  <2>1. r.body.is = "envelopes" /\ \A n \in DOMAIN r.body.envelopes : ~Final(r.body.envelopes[n])
    BY <1>1 DEF Served, EndsOnce, IsBody
  <2>2. Endless(r)
    BY <2>1 DEF Endless, Final, Served, EndsOnce
  <2>3. QED
    BY <2>2 DEF Tampered, Served, Endless
<1>2. ASSUME ~Has(r.header, "grpc-status"), NEW body \in CutBodies(r.body)
      PROVE  Tampered([r EXCEPT !.body = body])
  <2> DEFINE cut == [r EXCEPT !.body = body]
  <2>1. /\ IsBody(body) /\ body.is = r.body.is
        /\ body.is = "envelopes" => \A n \in DOMAIN body.envelopes : Unending(body.envelopes[n])
    BY CutBody DEF Served, EndsOnce
  <2>2. /\ DOMAIN cut = {"status", "header", "body", "trailer", "given"}
        /\ cut.body = body /\ cut.header = r.header
    BY DEF Served
  <2> HIDE DEF cut
  <2>3. Tampered(cut)
    BY <1>2, <2>1, <2>2 DEF Tampered, Endless, Unending
  <2>4. QED
    BY <2>3 DEF cut
<1>3. QED
  BY <1>1, <1>2

\* A proxy leaves a response without an end.
LEMMA ProxyInv ==
  ASSUME Inv, Proxy
  PROVE  Inv'
<1>1. /\ pc = "served" /\ ~tampered /\ tampered' = TRUE
      /\ call' = call /\ pc' = pc /\ request' = request /\ answer' = answer
  BY DEF Proxy
<1>2. response # << >> /\ Served(response[1], call.server)
  BY <1>1 DEF Inv, ResponseInv
<1>3. \E r : response' = <<r>> /\ Tampered(r)
  <2>1. CASE \E r \in Replacements : response' = <<r>>
    BY <2>1, WireAssumption DEF Tampered
  <2>2. CASE response[1].trailer # NoHeaders /\ response' = <<[response[1] EXCEPT !.trailer = NoHeaders]>>
    BY <1>2, <2>2, CutShort
  <2>3. CASE /\ ~Has(response[1].header, "grpc-status")
             /\ \E body \in CutBodies(response[1].body) :
                  response' = <<[response[1] EXCEPT !.body = body]>>
    BY <1>2, <2>3, CutShort
  <2>4. QED
    BY <2>1, <2>2, <2>3 DEF Proxy
<1>4. response' # << >> /\ Tampered(response'[1])
  BY <1>3, SingletonSequence
<1>5. RequestInv' /\ AnswerInv'
  BY <1>1 DEF Inv, RequestInv, AnswerInv
<1>6. ResponseInv'
  BY <1>1, <1>4 DEF ResponseInv
<1>7. QED
  BY <1>1, <1>5, <1>6 DEF Inv

\* A failure has no messages.
LEMMA ConnectionFailsInv ==
  ASSUME Inv, ConnectionFails
  PROVE  Inv'
<1>1. /\ pc = "sent" /\ pc' = "done" /\ call' = call /\ request' = request
      /\ response' = response /\ tampered' = tampered
  BY DEF ConnectionFails, Settle
<1>2. PICK error : answer' = <<Failed(error)>>
  BY DEF ConnectionFails, Settle
<1>3. answer'[1] = Failed(error)
  BY <1>2
<1>4. AnswerInv'
  BY <1>1, <1>3, FailedWithin DEF AnswerInv
<1>5. RequestInv' /\ ResponseInv'
  BY <1>1 DEF Inv, RequestInv, ResponseInv
<1>6. QED
  BY <1>1, <1>4, <1>5 DEF Inv

\* A client for Node.js gets the body as it is.
LEMMA ReadInv ==
  ASSUME Inv, Read
  PROVE  Inv'
<1> DEFINE r == Received(call, response[1])
           a == ReadResponse(call, r)
<1>1. /\ pc = "served" /\ pc' = "done" /\ answer' = <<a>> /\ call' = call /\ request' = request
      /\ response' = response /\ tampered' = tampered
  BY DEF Read, Settle
<1>2. "body" \in DOMAIN response[1] /\ IsBody(response[1].body)
  BY <1>1 DEF Inv, ResponseInv, Tampered, Served
<1>3. call.platform = "node" => AllWithin(a.messages, call.client.readMaxBytes)
  <2>1. call.platform = "node" => IsBody(r.body)
    BY <1>2 DEF Received
  <2> HIDE DEF r
  <2>2. QED
    BY <2>1, ReadResponseWithin DEF Inv
<1> HIDE DEF a
<1>4. answer'[1] = a
  BY <1>1
<1>5. AnswerInv'
  BY <1>1, <1>3, <1>4 DEF AnswerInv
<1>6. RequestInv' /\ ResponseInv'
  BY <1>1 DEF Inv, RequestInv, ResponseInv
<1>7. QED
  BY <1>1, <1>5, <1>6 DEF Inv

\* The shapes and sizes of what is sent, served, tampered with and answered.
THEOREM Invariance == Spec => []Inv
<1>1. Inv /\ [Next]_vars => Inv'
  <2>1. SUFFICES ASSUME Inv, [Next]_vars
                 PROVE  Inv'
    OBVIOUS
  <2>2. CASE UNCHANGED vars
    BY <2>1, <2>2 DEF vars, Inv, RequestInv, ResponseInv, AnswerInv
  <2>3. QED
    BY <2>1, <2>2, SendInv, ForeignSendsInv, ServeInv, ProxyInv, ConnectionFailsInv, ReadInv DEF Next
<1>2. QED
  BY <1>1, InitInv, PTL DEF Spec

\* No message passes a limit: neither one that an implementation is given or gives, nor
\* one that a client for Node.js sends or returns, compressed or not.
THEOREM NothingExceedsALimit == Spec => []LimitsHold
<1>1. Inv => LimitsHold
  <2>1. SUFFICES ASSUME Inv
                 PROVE  LimitsHold
    OBVIOUS
  <2>2. response # << >> /\ ~tampered => Served(response[1], call.server)
    BY <2>1 DEF Inv, ResponseInv
  <2>3. QED
    BY <2>1, <2>2 DEF LimitsHold, Inv, RequestInv, AnswerInv, Served, BodyLimited, Limited,
                      AllWithin, Answered
<1>2. QED
  BY <1>1, Invariance, PTL

-----------------------------------------------------------------------------
(* What is cut short is missed                                             *)

\* A stream of envelopes without one that ends it, and what is parsed of it
Unended(stream, flag) ==
  /\ IsSequence(stream.items)
  /\ \A n \in DOMAIN stream.items :
       flag \in stream.items[n].flags => flag = "end" /\ stream.items[n].data.content.is # "json"

\* A body that has no trailer but what has come of one, for a client that does not read that
Trailerless(c, body) ==
  body.is = "envelopes" =>
    \A n \in DOMAIN body.envelopes :
      "trailer" \in body.envelopes[n].flags => c.platform = "node" /\ IsShort(body.envelopes[n])

Unfinished(parsed) ==
  IsSequence(parsed.items) /\ \A n \in DOMAIN parsed.items : ~parsed.items[n].end

\* What a client gets of a response that tells of no end
LEMMA ReceivedTampered ==
  ASSUME NEW c, NEW t, Tampered(t), NEW r, r = Received(c, t)
  PROVE  /\ IsBody(r.body) /\ Endless(r)
         /\ r.body = t.body \/ (r.body = BareBody(Uncompressed(t.body.data)) /\ t.body.is = "bare")
<1> DEFINE header == NodeHeaderToWebHeader(t.header)
           fetched == IF t.body.is = "bare" /\ Get(t.header, "content-encoding") = <<t.body.data.zip>>
                        THEN BareBody([t.body.data EXCEPT !.zip = "identity"]) ELSE t.body
<1>1. r.header = header /\ r.body = (IF c.platform = "node" THEN t.body ELSE fetched)
  BY DEF Received, Tampered
<1>2. ~Has(header, "grpc-status")
  BY DEF Tampered, Endless, Has, NodeHeaderToWebHeader, Without, Restrict
<1>3. r.body = t.body \/ (r.body = BareBody(Uncompressed(t.body.data)) /\ t.body.is = "bare")
  <2>1. fetched = t.body \/ (fetched = BareBody(Uncompressed(t.body.data)) /\ t.body.is = "bare")
    BY DEF Uncompressed
  <2> HIDE DEF fetched
  <2>2. QED
    BY <1>1, <2>1
<1> HIDE DEF header, fetched
<1>4. CASE r.body = t.body
  <2>1. IsBody(t.body) /\ Endless(t)
    BY DEF Tampered
  <2>2. ~Has(r.header, "grpc-status")
    BY <1>1, <1>2
  <2>3. QED
    BY <1>4, <2>1, <2>2 DEF Endless
<1>5. CASE r.body = BareBody(Uncompressed(t.body.data)) /\ t.body.is = "bare"
  <2>1. IsData(t.body.data)
    BY <1>5 DEF Tampered, IsBody
  <2>2. IsData(Uncompressed(t.body.data))
    BY <2>1 DEF IsData, Uncompressed
  <2>3. IsBody(r.body) /\ r.body.is = "bare"
    BY <1>5, <2>2 DEF IsBody, BareBody
  <2>4. QED
    BY <1>1, <1>2, <1>3, <2>3 DEF Endless
<1>6. QED
  BY <1>3, <1>4, <1>5

\* A client decompresses no end into the envelopes of a stream without one.
LEMMA DownloadUnended ==
  ASSUME NEW c, NEW r, IsBody(r.body), Endless(r), NEW compression,
         NEW flag, flag = "end" \/ (flag = "trailer" /\ Trailerless(c, r.body))
  PROVE  Unended(Download(c, r, compression), flag)
<1> DEFINE out == Download(c, r, compression)
<1>1. IsSequence(out.items) /\ DownloadedFrom(out.items, r.body, c.client.readMaxBytes)
  BY DownloadItems
<1> HIDE DEF out
<1>2. Unended(out, flag)
  BY <1>1 DEF DownloadedFrom, Endless, Trailerless, Unended
<1>3. QED
  BY <1>2 DEF out

\* What a client for browsers reads has the ends that the body has.
LEMMA FetchedUnended ==
  ASSUME NEW c, NEW r, IsBody(r.body), Endless(r),
         NEW flag, flag = "end" \/ (flag = "trailer" /\ c.platform # "node" /\ Trailerless(c, r.body))
  PROVE  /\ Unended(EnvelopesOf(r.body), flag)
         /\ Unended(StrictlyFlagged(EnvelopesOf(r.body), flag), flag)
<1> DEFINE source == EnvelopesOf(r.body)
<1>1. source.items = IF r.body.is = "envelopes" THEN r.body.envelopes ELSE << >>
  BY DEF EnvelopesOf, Stream
<1> HIDE DEF source
<1>2. Unended(source, flag)
  BY <1>1, EmptySequence DEF IsBody, Endless, Trailerless, Unended
<1> DEFINE Strict(e) == Return(IF flag \in e.flags /\ e.flags # {flag} THEN Envelope({}, e.data) ELSE e)
           results == [n \in DOMAIN source.items |-> Strict(source.items[n])]
           out == StrictlyFlagged(source, flag)
<1>3. out = Yielded(results, source.errors)
  BY DEF StrictlyFlagged, Through
<1>4. results = [n \in DOMAIN source.items |-> results[n]]
  OBVIOUS
<1>5. \A n \in DOMAIN source.items : results[n] = Strict(source.items[n])
  OBVIOUS
<1>6. ASSUME NEW e, flag \in Strict(e).value.flags
      PROVE  Strict(e).value = e
  BY <1>6 DEF Return, Envelope
<1> HIDE DEF results, out, Strict
<1>7. /\ IsSequence(out.items)
      /\ \A n \in DOMAIN out.items : n \in DOMAIN source.items /\ out.items[n] = results[n].value
  BY <1>2, <1>3, <1>4, ThroughItems DEF Unended
<1>8. Unended(out, flag)
  BY <1>2, <1>5, <1>6, <1>7 DEF Unended
<1>9. QED
  BY <1>2, <1>8 DEF source, out

\* What is no JSON ends no stream of Connect.
LEMMA NoJson ==
  ASSUME NEW data, data.content.is # "json"
  PROVE  EndStreamParse(data).raised /\ LegacyEndStreamParse(data).raised
<1>1. ToJson(data).is # "object"
  BY DEF ToJson
<1>2. QED
  BY <1>1, Outcomes DEF EndStreamParse, EndStreamFromJson, LegacyEndStreamParse, LegacyEndStreamFromJson

\* A client parses no end into a stream without one.
LEMMA ParsedUnfinished ==
  ASSUME NEW stream, NEW binary, NEW flag, Unended(stream, flag)
  PROVE  Unfinished(TransformParseEnvelopeAndEnd(stream, binary, flag))
<1> DEFINE out == TransformParseEnvelopeAndEnd(stream, binary, flag)
<1>1. IsSequence(out.items) /\ ParsedFrom(out.items, stream.items, flag, 0)
  BY ParsedAndEndItems DEF Unended
<1> HIDE DEF out
<1>2. Unfinished(out)
  BY <1>1, NoJson DEF ParsedFrom, Unended, Unfinished
<1>3. QED
  BY <1>2 DEF out

\* A stream without an end has no ends.
LEMMA UnfinishedEnds ==
  ASSUME NEW parsed, Unfinished(parsed)
  PROVE  Ends(parsed.items) = {} /\ EndValues(parsed.items) = << >>
<1>1. Ends(parsed.items) = {}
  BY DEF Unfinished, Ends
<1> DEFINE selected == Selected(parsed.items, {})
           values == Values(selected)
<1>2. IsSequence(selected) /\ (selected = << >> <=> DOMAIN parsed.items \cap {} = {})
  BY SelectedElements DEF Unfinished
<1>3. selected = << >>
  BY <1>2
<1>4. values = [n \in 1..0 |-> values[n]]
  BY <1>3, EmptySequence DEF Values
<1> HIDE DEF values
<1>5. IsSequence(values) /\ DOMAIN values = {}
  <2>1. IsSequence(values) /\ DOMAIN values = 1..0
    BY <1>4, BuiltSequence
  <2>2. QED
    BY <2>1
<1>6. values = << >>
  BY <1>5, SequenceFacts
<1>7. QED
  BY <1>1, <1>6 DEF EndValues, values

\* An answer to a stream without an end has an error.
LEMMA EndIsMissed ==
  ASSUME NEW r, NEW parsed, Unfinished(parsed), NEW end, NEW violation
  PROVE  EndedAnswer(r, parsed, end, violation).errors # << >>
<1> DEFINE messages == Values(SubSeq(parsed.items, 1, Len(parsed.items) + 1 - 1))
           errors == IF parsed.errors = << >> THEN <<violation>> ELSE parsed.errors
<1>1. EndedAnswer(r, parsed, end, violation) = Answer(r.header, messages, NoHeaders, errors)
  <2>1. Ends(parsed.items) = {}
    BY UnfinishedEnds
  <2>2. QED
    BY <2>1 DEF EndedAnswer
<1>2. errors # << >>
  OBVIOUS
<1> HIDE DEF messages, errors
<1>3. QED
  BY <1>1, <1>2 DEF Answer

\* A unary answer of gRPC-web without a trailer has an error.
LEMMA TrailerIsMissed ==
  ASSUME NEW r, NEW parsed, Unfinished(parsed), NEW violation
  PROVE  UnaryGrpcWebAnswer(r, parsed, violation).raised
<1> DEFINE messages == MessageValues(parsed.items)
           trailers == EndValues(parsed.items)
<1>1. trailers = << >> /\ Len(trailers) = 0
  BY UnfinishedEnds
<1>2. Len(messages) \in Nat
  <2> DEFINE selected == Selected(parsed.items, DOMAIN parsed.items \ Ends(parsed.items))
             values == Values(selected)
  <2>1. IsSequence(selected)
    BY SelectedElements DEF Unfinished
  <2>2. values = [n \in DOMAIN selected |-> values[n]]
    BY DEF Values
  <2> HIDE DEF selected, values
  <2>3. Len(values) \in Nat
    BY <2>1, <2>2, MappedSequence, SequenceFacts
  <2>4. QED
    BY <2>3 DEF MessageValues, values, selected
<1>3. \E error : UnaryGrpcWebAnswer(r, parsed, violation) = Raise(error)
  <2> HIDE DEF messages, trailers
  <2>1. CASE Len(messages) > 1
    BY <1>2, <2>1 DEF UnaryGrpcWebAnswer, Then, messages
  <2>2. CASE Len(messages) <= 1 /\ parsed.errors # << >>
    BY <1>1, <1>2, <2>2 DEF UnaryGrpcWebAnswer, Then, messages, trailers
  <2>3. CASE Len(messages) <= 1 /\ parsed.errors = << >>
    BY <1>1, <2>3 DEF UnaryGrpcWebAnswer, Then, messages, trailers
  <2>4. QED
    BY <1>2, <2>1, <2>2, <2>3
<1>4. QED
  BY <1>3, Outcomes

\* A response without a status in its header has none to be found.
LEMMA NoStatusIsFound ==
  ASSUME NEW header, ~Has(header, "grpc-status"), NEW binary, NEW accept, NEW status
  PROVE  /\ LET valid == GrpcWebValidateResponse(binary, status, header)
            IN ~valid.raised => valid.value = FALSE
         /\ LET valid == GrpcWebValidateResponseWithCompression(binary, accept, status, header)
            IN ~valid.raised => valid.value.foundStatus = FALSE
<1> DEFINE found == GrpcWebValidateResponse(binary, status, header)
           compression == ResponseCompression(header, "grpc-encoding", accept)
           valid == GrpcWebValidateResponseWithCompression(binary, accept, status, header)
<1>1. found.raised \/ found = Return(FALSE)
  <2>1. GrpcHeaderStatus(header).raised \/ GrpcHeaderStatus(header) = Return(FALSE)
    <3> DEFINE has == Has(header, "grpc-status")
    <3>1. has = FALSE
      BY DEF Has
    <3>2. GrpcHeaderStatus(header) = IF FindTrailerError(header) = << >> THEN Return(has)
                                     ELSE Raise(FindTrailerError(header)[1])
      BY DEF GrpcHeaderStatus
    <3> HIDE DEF has
    <3>3. QED
      BY <3>1, <3>2, Outcomes
  <2>2. QED
    BY <2>1, Outcomes DEF GrpcWebValidateResponse
<1>2. \/ valid.raised
      \/ /\ valid.value = [compression |-> compression.value, foundStatus |-> found.value]
         /\ ~found.raised
  <2> HIDE DEF found, compression
  <2>1. QED
    BY Outcomes DEF GrpcWebValidateResponseWithCompression, found, compression
<1> HIDE DEF found, valid, compression
<1>3. ~found.raised => found.value = FALSE
  BY <1>1, Outcomes
<1>4. ~valid.raised => valid.value.foundStatus = FALSE
  BY <1>2, <1>3, Outcomes
<1>5. QED
  BY <1>3, <1>4 DEF found, valid

\* A call with no error has returned.
LEMMA SettledFails ==
  ASSUME NEW result, ~result.raised => result.value.errors # << >>
  PROVE  Settled(result).errors # << >>
BY DEF Settled, Failed, Answer

\* Streams of Connect, wherever they are read
LEMMA NodeConnectStreamMissesEnd ==
  ASSUME NEW c, NEW r, IsBody(r.body), Endless(r)
  PROVE  NodeConnectStreamResponse(c, r).errors # << >>
<1> DEFINE valid == ConnectValidateResponseWithCompression(
                      TRUE, c.client.binary, c.client.accept, r.status, r.header)
           parsed == TransformParseEnvelopeAndEnd(
                       Download(c, r, valid.value.compression), c.client.binary, "end")
           ended == EndedAnswer(r, parsed, ConnectEnd(FirstEnd(parsed)), ProtocolError)
           result == IF valid.raised THEN valid ELSE Return(ended)
<1>1. NodeConnectStreamResponse(c, r) = Settled(result)
  BY DEF NodeConnectStreamResponse, Then
<1> HIDE DEF valid
<1>2. Unfinished(parsed)
  BY DownloadUnended, ParsedUnfinished
<1> HIDE DEF parsed
<1>3. ended.errors # << >>
  BY <1>2, EndIsMissed
<1> HIDE DEF ended
<1>4. ~result.raised => result.value.errors # << >>
  BY <1>3, Outcomes
<1> HIDE DEF result
<1>5. QED
  BY <1>1, <1>4, SettledFails

\* createConnectTransport() of connect-web-next misses the end of a stream.
LEMMA WebConnectStreamMissesEnd ==
  ASSUME NEW c, NEW r, IsBody(r.body), Endless(r)
  PROVE  WebConnectStreamResponse(c, r).errors # << >>
<1> DEFINE valid == ConnectValidateResponse(TRUE, c.client.binary, r.status, r.header)
           parsed == TransformParseEnvelopeAndEnd(EnvelopesOf(r.body), c.client.binary, "end")
           bad == {n \in DOMAIN parsed.items : parsed.items[n].end /\ parsed.items[n].value.errors # << >>}
           trailer == FoldLeft(LAMBDA t, end : SetAll(t, end.metadata), NoHeaders, EndValues(parsed.items))
           errors == IF parsed.errors = << >> THEN <<Thrown(Code.Unknown)>> ELSE parsed.errors
           ended == WebConnectStreamBody(r, parsed)
           result == IF valid.raised THEN valid ELSE Return(ended)
<1>1. WebConnectStreamResponse(c, r) = Settled(result)
  BY DEF WebConnectStreamResponse, Then
<1>2. Unfinished(parsed)
  BY FetchedUnended, ParsedUnfinished
<1> HIDE DEF parsed, valid
<1>3. bad = {} /\ EndValues(parsed.items) = << >>
  BY <1>2, UnfinishedEnds DEF Unfinished
<1>4. ended = Answer(r.header, MessageValues(parsed.items), trailer, errors)
  BY <1>3 DEF WebConnectStreamBody
<1>5. ended.errors # << >>
  <2> HIDE DEF trailer
  <2>1. QED
    BY <1>4 DEF Answer
<1> HIDE DEF ended
<1>6. ~result.raised => result.value.errors # << >>
  BY <1>5, Outcomes
<1> HIDE DEF result
<1>7. QED
  BY <1>1, <1>6, SettledFails

\* gRPC-web, for Node.js and for browsers
LEMMA GrpcWebMissesEnd ==
  ASSUME NEW c, NEW r, IsBody(r.body), Endless(r), Trailerless(c, r.body)
  PROVE  /\ NodeGrpcWebUnaryResponse(c, r).errors # << >>
         /\ NodeGrpcWebStreamResponse(c, r).errors # << >>
         /\ c.platform # "node" =>
              /\ WebGrpcWebUnaryResponse(c, r).errors # << >>
              /\ WebGrpcWebStreamResponse(c, r).errors # << >>
<1> DEFINE valid == GrpcWebValidateResponseWithCompression(
                      c.client.binary, c.client.accept, r.status, r.header)
           source == Download(c, r, valid.value.compression)
           fetched == GrpcWebValidateResponse(c.client.binary, r.status, r.header)
           body == EnvelopesOf(r.body)
           strict == StrictlyFlagged(body, "trailer")
           Parsed(stream) == TransformParseEnvelopeAndEnd(stream, c.client.binary, "trailer")
           Unary(stream, violation) == UnaryGrpcWebAnswer(r, Parsed(stream), violation)
           Streamed(stream, found, violation) ==
             IF found THEN TrailersOnlyAnswer(r, Parsed(stream), violation)
             ELSE EndedAnswer(r, Parsed(stream), ValidateTrailer(FirstEnd(Parsed(stream))), violation)
           Checked(first, then) == Settled(IF first.raised THEN first ELSE then)
<1>1. /\ NodeGrpcWebUnaryResponse(c, r) = Checked(valid, Unary(source, ProtocolError))
      /\ NodeGrpcWebStreamResponse(c, r)
           = Checked(valid, Return(Streamed(source, valid.value.foundStatus, ProtocolError)))
      /\ WebGrpcWebUnaryResponse(c, r) = Checked(fetched, Unary(strict, Thrown(Code.Internal)))
      /\ WebGrpcWebStreamResponse(c, r)
           = Checked(fetched, Return(Streamed(body, fetched.value, Thrown(Code.Unknown))))
  BY DEF NodeGrpcWebUnaryResponse, NodeGrpcWebStreamResponse, WebGrpcWebUnaryResponse,
         WebGrpcWebStreamResponse, WebGrpcWebStreamBody, Then
<1>2. /\ ~valid.raised => valid.value.foundStatus = FALSE
      /\ ~fetched.raised => fetched.value = FALSE
  BY NoStatusIsFound DEF Endless
<1> HIDE DEF valid, fetched
<1>3. /\ Unended(source, "trailer")
      /\ c.platform # "node" => Unended(body, "trailer") /\ Unended(strict, "trailer")
  BY DownloadUnended, FetchedUnended
<1> HIDE DEF source, body, strict
<1>4. ASSUME NEW first, NEW stream, Unended(stream, "trailer"), NEW violation
      PROVE  Checked(first, Unary(stream, violation)).errors # << >>
  <2>1. Unfinished(Parsed(stream))
    BY <1>4, ParsedUnfinished
  <2> HIDE DEF Parsed
  <2>2. Unary(stream, violation).raised
    BY <2>1, TrailerIsMissed
  <2> DEFINE result == IF first.raised THEN first ELSE Unary(stream, violation)
  <2>3. result.raised
    BY <2>2
  <2> HIDE DEF result
  <2>4. Settled(result).errors # << >>
    BY <2>3, SettledFails
  <2>5. QED
    BY <2>4 DEF result
<1>5. ASSUME NEW first, NEW stream, Unended(stream, "trailer"), NEW found, ~first.raised => found = FALSE,
             NEW violation
      PROVE  Checked(first, Return(Streamed(stream, found, violation))).errors # << >>
  <2>1. Unfinished(Parsed(stream))
    BY <1>5, ParsedUnfinished
  <2> HIDE DEF Parsed
  <2>2. ~first.raised => Streamed(stream, found, violation).errors # << >>
    BY <1>5, <2>1, EndIsMissed
  <2> HIDE DEF Streamed
  <2> DEFINE result == IF first.raised THEN first ELSE Return(Streamed(stream, found, violation))
  <2>3. ~result.raised => result.value.errors # << >>
    BY <2>2, Outcomes
  <2> HIDE DEF result
  <2>4. Settled(result).errors # << >>
    BY <2>3, SettledFails
  <2>5. QED
    BY <2>4 DEF result
<1> HIDE DEF Unary, Streamed, Checked
<1>6. QED
  BY <1>1, <1>2, <1>3, <1>4, <1>5

\* What the legacy transports make of their envelopes, an end or a message of each
LEMMA LegacyUnfinished ==
  ASSUME NEW stream, Unended(stream, "trailer")
  PROVE  Unfinished(LegacyGrpcWebItems(stream))
<1> DEFINE Parsed(e) == IF "trailer" \in e.flags THEN LegacyTrailerDeserialize(e.data)
                        ELSE LegacyParse(e.data, TRUE)
           Item(e) == IF Parsed(e).raised THEN Parsed(e)
                      ELSE Return([end |-> "trailer" \in e.flags, value |-> Parsed(e).value])
           results == [n \in DOMAIN stream.items |-> Item(stream.items[n])]
           out == LegacyGrpcWebItems(stream)
<1>1. out = Yielded(results, stream.errors)
  BY DEF LegacyGrpcWebItems, Through, Then
<1>2. results = [n \in DOMAIN stream.items |-> results[n]]
  OBVIOUS
<1>3. \A n \in DOMAIN stream.items : results[n] = Item(stream.items[n])
  OBVIOUS
<1>4. ASSUME NEW e, "trailer" \notin e.flags, ~Item(e).raised
      PROVE  ~Item(e).value.end
  <2> HIDE DEF Parsed
  <2>1. Item(e).value = [end |-> "trailer" \in e.flags, value |-> Parsed(e).value]
    BY <1>4, Outcomes
  <2> HIDE DEF Item
  <2>2. Item(e).value.end = ("trailer" \in e.flags)
    BY <2>1
  <2>3. QED
    BY <1>4, <2>2
<1> HIDE DEF results, out, Item
<1>5. /\ IsSequence(out.items)
      /\ \A n \in DOMAIN out.items :
           n \in DOMAIN stream.items /\ ~results[n].raised /\ out.items[n] = results[n].value
  BY <1>1, <1>2, ThroughItems DEF Unended
<1>6. Unfinished(out)
  BY <1>3, <1>4, <1>5 DEF Unended, Unfinished
<1>7. QED
  BY <1>6 DEF out

\* createConnectTransport() of connect-web misses the end of a stream.
LEMMA LegacyConnectStreamMissesEnd ==
  ASSUME NEW c, NEW r, IsBody(r.body), Endless(r)
  PROVE  LegacyConnectStreamResponse(c, r).errors # << >>
<1> DEFINE stream == EnvelopesOf(r.body)
           Parsed(e) == IF "end" \in e.flags THEN LegacyEndStreamParse(e.data)
                        ELSE LegacyParse(e.data, c.client.binary)
           Item(e) == IF Parsed(e).raised THEN Parsed(e)
                      ELSE Return([end |-> "end" \in e.flags, value |-> Parsed(e).value])
           results == [n \in DOMAIN stream.items |-> Item(stream.items[n])]
           out == Yielded(results, stream.errors)
           parsed == UpToEnd(out)
           demuxed == LegacyConnectHeaderError(r)
           valid == LegacyExpectContentType(r.header, TRUE, c.client.binary)
           violation == SimpleError("missing EndStreamResponse", Code.Unknown)
           ended == EndedAnswer(r, parsed, ConnectEnd(FirstEnd(parsed)), violation)
           result == IF demuxed.raised THEN demuxed ELSE IF valid.raised THEN valid ELSE Return(ended)
<1>1. LegacyConnectStreamResponse(c, r) = Settled(result)
  BY DEF LegacyConnectStreamResponse, Through, Then
<1> HIDE DEF demuxed, valid, violation
<1>2. Unended(stream, "end")
  BY FetchedUnended
<1> HIDE DEF stream
<1>3. results = [n \in DOMAIN stream.items |-> results[n]]
  OBVIOUS
<1>4. \A n \in DOMAIN stream.items : results[n] = Item(stream.items[n])
  OBVIOUS
<1>5. ASSUME NEW e, "end" \in e.flags => e.data.content.is # "json", ~Item(e).raised
      PROVE  ~Item(e).value.end
  <2>1. "end" \notin e.flags
    BY <1>5, NoJson
  <2> HIDE DEF Parsed
  <2>2. Item(e).value = [end |-> "end" \in e.flags, value |-> Parsed(e).value]
    BY <1>5, Outcomes
  <2> HIDE DEF Item
  <2>3. Item(e).value.end = ("end" \in e.flags)
    BY <2>2
  <2>4. QED
    BY <2>1, <2>3
<1> HIDE DEF results, Item
<1>6. Unfinished(out)
  <2>1. out = Yielded(results, stream.errors)
    OBVIOUS
  <2> HIDE DEF out
  <2>2. /\ IsSequence(out.items)
        /\ \A n \in DOMAIN out.items :
             n \in DOMAIN stream.items /\ ~results[n].raised /\ out.items[n] = results[n].value
    BY <1>2, <1>3, <2>1, ThroughItems DEF Unended
  <2>3. QED
    BY <1>2, <1>4, <1>5, <2>2 DEF Unended, Unfinished
<1> HIDE DEF out
<1>7. Unfinished(parsed)
  <2>1. Ends(out.items) = {}
    BY <1>6, UnfinishedEnds
  <2>2. QED
    BY <1>6, <2>1 DEF UpToEnd
<1> HIDE DEF parsed
<1>8. ended.errors # << >>
  BY <1>7, EndIsMissed
<1> HIDE DEF ended
<1>9. ~result.raised => result.value.errors # << >>
  BY <1>8, Outcomes
<1> HIDE DEF result
<1>10. QED
  BY <1>1, <1>9, SettledFails

\* createGrpcWebTransport() of connect-web misses the trailer of a unary call.
LEMMA LegacyGrpcWebUnaryMissesEnd ==
  ASSUME NEW c, c.platform # "node", NEW r, IsBody(r.body), Endless(r), Trailerless(c, r.body)
  PROVE  LegacyGrpcWebUnaryResponse(c, r).errors # << >>
<1> DEFINE strict == StrictlyFlagged(EnvelopesOf(r.body), "trailer")
           parsed == LegacyGrpcWebItems(strict)
           valid == LegacyGrpcWebHeaderError(r)
           body == LegacyGrpcWebUnaryBody(r)
           result == IF valid.raised THEN valid ELSE body
<1>1. LegacyGrpcWebUnaryResponse(c, r) = Settled(result)
  BY DEF LegacyGrpcWebUnaryResponse, Then
<1>2. Unfinished(parsed)
  BY FetchedUnended, LegacyUnfinished
<1>3. body.raised
  <2> DEFINE items == parsed.items
             k == Len(items)
             Missing(n) == IF k < n /\ parsed.errors # << >> THEN Raise(parsed.errors[1])
                           ELSE Raise(LegacyThrown)
             first == LegacyValidateTrailer(items[1].value)
             second == LegacyValidateTrailer(items[2].value)
             ended == IF k > 2 \/ parsed.errors # << >> THEN Missing(3)
                      ELSE Return(Answer(r.header, <<items[1].value>>, second.value, << >>))
  <2>0. body = CASE k = 0 -> Missing(1)
                 [] k > 0 /\ items[1].end ->
                      IF first.raised THEN first ELSE Raise(LegacyThrown)
                 [] k = 1 /\ ~items[1].end -> Missing(2)
                 [] k > 1 /\ ~items[1].end /\ ~items[2].end -> Raise(LegacyThrown)
                 [] OTHER -> IF second.raised THEN second ELSE ended
    BY DEF LegacyGrpcWebUnaryBody, Then
  <2>1. k \in Nat /\ DOMAIN items = 1..k
    BY <1>2, SequenceFacts DEF Unfinished
  <2>2. /\ k > 0 => ~items[1].end
        /\ k > 1 => ~items[2].end
    BY <1>2, <2>1 DEF Unfinished
  <2>3. Missing(1).raised /\ Missing(2).raised
    BY Outcomes
  <2> HIDE DEF body, parsed, k, Missing, first, second, ended
  <2>4. CASE k = 0
    BY <2>0, <2>3, <2>4
  <2>5. CASE k = 1
    BY <2>0, <2>2, <2>3, <2>5
  <2>6. CASE k > 1
    <3>1. k # 0 /\ k # 1 /\ k > 0 /\ ~items[1].end /\ ~items[2].end
      BY <2>1, <2>2, <2>6
    <3> HIDE DEF items
    <3>2. body = Raise(LegacyThrown)
      BY <2>0, <2>6, <3>1
    <3>3. QED
      BY <3>2, Outcomes
  <2>7. QED
    BY <2>1, <2>4, <2>5, <2>6
<1> HIDE DEF body, valid
<1>4. result.raised
  BY <1>3
<1> HIDE DEF result
<1>5. QED
  BY <1>1, <1>4, SettledFails

\* A stream that ends without a message is the exception.
LEMMA LegacyGrpcWebStreamMissesEnd ==
  ASSUME NEW c, c.platform # "node", NEW r, IsBody(r.body), Endless(r), Trailerless(c, r.body),
         NEW a, a = LegacyGrpcWebStreamResponse(c, r)
  PROVE  a.errors # << >> \/ a.messages = << >>
<1> DEFINE items == LegacyGrpcWebItems(EnvelopesOf(r.body))
           parsed == UpToEnd(items)
           end == LegacyValidateTrailer(FirstEnd(parsed))
           violation == SimpleError("missing trailers", Code.Internal)
           ended == EndedAnswer(r, parsed, end, violation)
           spared == [ended EXCEPT !.errors = << >>]
           valid == LegacyGrpcWebHeaderError(r)
           result == IF valid.raised THEN valid
                     ELSE Return(IF parsed.items = << >> /\ parsed.errors = << >> THEN spared ELSE ended)
<1>1. a = Settled(result)
  BY DEF LegacyGrpcWebStreamResponse, Then
<1>2. Unfinished(items)
  BY FetchedUnended, LegacyUnfinished
<1> HIDE DEF items, end, violation, valid
<1>3. Unfinished(parsed)
  <2>1. Ends(items.items) = {}
    BY <1>2, UnfinishedEnds
  <2>2. QED
    BY <1>2, <2>1 DEF UpToEnd
<1> HIDE DEF parsed
<1>4. ended.errors # << >>
  BY <1>3, EndIsMissed
<1>5. parsed.items = << >> => spared.messages = << >>
  <2> SUFFICES ASSUME parsed.items = << >>
               PROVE  spared.messages = << >>
    OBVIOUS
  <2> DEFINE before == SubSeq(parsed.items, 1, Len(parsed.items) + 1 - 1)
             errors == IF parsed.errors = << >> THEN <<violation>> ELSE parsed.errors
  <2>1. ended = Answer(r.header, Values(before), NoHeaders, errors)
    <3>1. Ends(parsed.items) = {}
      BY <1>3, UnfinishedEnds
    <3>2. QED
      BY <3>1 DEF EndedAnswer
  <2>2. before = << >>
    BY SubSeqEmpty
  <2>3. Values(<< >>) = << >>
    <3> DEFINE values == Values(<< >>)
    <3>1. values = [n \in DOMAIN << >> |-> values[n]]
      BY DEF Values
    <3> HIDE DEF values
    <3>2. IsSequence(values) /\ DOMAIN values = {}
      BY <3>1, EmptySequence, MappedSequence
    <3>3. values = << >>
      BY <3>2, SequenceFacts
    <3>4. QED
      BY <3>3 DEF values
  <2> HIDE DEF before, errors, ended
  <2>4. ended = Answer(r.header, << >>, NoHeaders, errors)
    BY <2>1, <2>2, <2>3
  <2>5. QED
    BY <2>4 DEF Answer
<1> HIDE DEF ended, spared
<1>6. ~result.raised => result.value.errors # << >> \/ result.value.messages = << >>
  BY <1>4, <1>5, Outcomes
<1> HIDE DEF result
<1>7. QED
  BY <1>1, <1>6 DEF Settled, Failed, Answer

\* What can be parsed can be parsed when it is decompressed.
LEMMA ParsesUncompressed ==
  ASSUME NEW data, IsData(data), NEW binary, ~Parse(data, binary).raised
  PROVE  ~Parse(Uncompressed(data), binary).raised
<1> DEFINE plain == Uncompressed(data)
<1>1. /\ plain.zip = "identity" /\ plain.plain = data.plain
      /\ plain.format = data.format /\ plain.content = data.content
  BY DEF Uncompressed, IsData
<1> HIDE DEF plain
<1>2. CASE binary
  <2>1. data.zip = "identity" /\ (data.plain = 0 \/ (data.plain > 0 /\ data.format = "proto"))
    BY <1>2, Outcomes DEF Parse, BinaryParse
  <2>2. ~BinaryParse(plain).raised
    BY <1>1, <2>1 DEF BinaryParse, Return, Raise
  <2>3. QED
    BY <1>2, <2>2 DEF Parse, plain
<1>3. CASE ~binary
  <2>1. data.zip = "identity" /\ data.format = "json" /\ data.content.is = "message"
    BY <1>3, Outcomes DEF Parse, JsonParse
  <2>2. ~JsonParse(plain).raised
    BY <1>1, <2>1, Outcomes DEF JsonParse
  <2>3. QED
    BY <1>3, <2>2 DEF Parse, plain
<1>4. QED
  BY <1>2, <1>3

\* The bytes of a body are data.
LEMMA BodyIsData ==
  ASSUME NEW body, IsBody(body)
  PROVE  IsData(BodyData(body))
<1>1. CASE body.is = "bare"
  BY <1>1 DEF BodyData, IsBody
<1>2. CASE body.is = "envelopes"
  BY <1>2 DEF BodyData, Data, IsData
<1>3. QED
  BY <1>1, <1>2 DEF IsBody

\* Connect's unary methods have nothing but the body.
LEMMA NodeConnectUnaryParses ==
  ASSUME NEW c, NEW r, IsBody(r.body), NodeConnectUnaryResponse(c, r).errors = << >>
  PROVE  ~Parse(Uncompressed(BodyData(r.body)), c.client.binary).raised
<1> DEFINE o == c.client
           demuxed == TrailerDemux(r.header)
           valid == ConnectValidateResponseWithCompression(FALSE, o.binary, o.accept, r.status, r.header)
           read == TransformReadAllBytes(r.body, o.readMaxBytes, LengthHint(r.header))
           data == IF valid.value.compression = "identity" THEN Return(read.value)
                   ELSE Decompress(read.value, valid.value.compression, o.readMaxBytes)
           error == RaiseFrom(ErrorFromJson(ToJson(data.value), AppendHeaders(demuxed.header, demuxed.trailer)))
           message == Parse(data.value, o.binary)
           success == Answer(demuxed.header, <<message.value>>, demuxed.trailer, << >>)
           result == IF valid.raised THEN valid
                     ELSE IF read.raised THEN read
                     ELSE IF data.raised THEN data
                     ELSE IF valid.value.isConnectUnaryError THEN error
                     ELSE IF message.raised THEN message
                     ELSE Return(success)
<1>1. NodeConnectUnaryResponse(c, r) = Settled(result)
  BY Outcomes, Zenon DEF NodeConnectUnaryResponse, Then
<1>2. ~read.raised => read.value = BodyData(r.body)
  BY Outcomes DEF TransformReadAllBytes, ReadAllBytes
<1>3. ~read.raised /\ ~data.raised =>
        data.value = BodyData(r.body) \/ data.value = Uncompressed(BodyData(r.body))
  <2> HIDE DEF valid, read
  <2>1. ~data.raised => data.value = read.value \/ data.value = Uncompressed(read.value)
    BY Outcomes, Zenon DEF Decompress, Uncompressed
  <2> HIDE DEF data
  <2>2. QED
    BY <1>2, <2>1
<1>4. error.raised
  BY Outcomes, Zenon DEF RaiseFrom
<1> HIDE DEF valid, read, error, success
<1>5. ~result.raised
  <2> HIDE DEF result
  <2>1. QED
    BY <1>1, SettledFails
<1>6. ~read.raised /\ ~data.raised /\ ~message.raised
  <2> HIDE DEF data, message
  <2>1. QED
    BY <1>4, <1>5
<1> HIDE DEF data
<1>7. ~Parse(BodyData(r.body), o.binary).raised \/ ~Parse(Uncompressed(BodyData(r.body)), o.binary).raised
  BY <1>3, <1>6
<1>8. QED
  BY <1>7, BodyIsData, ParsesUncompressed, SMTT(30)

\* The same for connect-web-next, where fetch() has decompressed the body
LEMMA WebConnectUnaryParses ==
  ASSUME NEW c, NEW r, WebConnectUnaryResponse(c, r).errors = << >>
  PROVE  ~Parse(BodyData(r.body), c.client.binary).raised
<1> DEFINE demuxed == TrailerDemux(r.header)
           valid == ConnectValidateResponse(FALSE, c.client.binary, r.status, r.header)
           json == FetchedJson(r.body)
           error == RaiseFrom(ErrorFromJson(json.value, AppendHeaders(demuxed.header, demuxed.trailer)))
           message == Parse(BodyData(r.body), c.client.binary)
           success == Answer(demuxed.header, <<message.value>>, demuxed.trailer, << >>)
           result == IF valid.raised THEN valid
                     ELSE IF valid.value THEN IF json.raised THEN json ELSE error
                     ELSE IF message.raised THEN message
                     ELSE Return(success)
<1>1. WebConnectUnaryResponse(c, r) = Settled(result)
  BY DEF WebConnectUnaryResponse, Then
<1>2. error.raised
  BY Outcomes DEF RaiseFrom
<1> HIDE DEF valid, json, error, message, success
<1>3. ~result.raised
  <2> HIDE DEF result
  <2>1. QED
    BY <1>1, SettledFails
<1>4. ~message.raised
  BY <1>2, <1>3
<1>5. QED
  BY <1>4 DEF message

\* The same for connect-web
LEMMA LegacyConnectUnaryParses ==
  ASSUME NEW c, NEW r, LegacyConnectUnaryResponse(c, r).errors = << >>
  PROVE  ~Parse(BodyData(r.body), c.client.binary).raised
<1> DEFINE demuxed == LegacyConnectHeaderError(r)
           valid == LegacyExpectContentType(r.header, FALSE, c.client.binary)
           message == LegacyParse(BodyData(r.body), c.client.binary)
           success == Answer(demuxed.value.header, <<message.value>>, demuxed.value.trailer, << >>)
           result == IF demuxed.raised THEN demuxed
                     ELSE IF valid.raised THEN valid
                     ELSE IF message.raised THEN message
                     ELSE Return(success)
<1>1. LegacyConnectUnaryResponse(c, r) = Settled(result)
  BY DEF LegacyConnectUnaryResponse, Then
<1>2. Parse(BodyData(r.body), c.client.binary).raised => message.raised
  BY Outcomes DEF LegacyParse
<1> HIDE DEF demuxed, valid, message, success
<1>3. ~result.raised
  <2> HIDE DEF result
  <2>1. QED
    BY <1>1, SettledFails
<1>4. ~message.raised
  BY <1>3
<1>5. QED
  BY <1>2, <1>4

\* When a client takes what a proxy has left for a success
LEMMA ForgedSuccess ==
  ASSUME NEW c \in Calls, NEW t, Tampered(t), ReadResponse(c, Received(c, t)).errors = << >>
  PROVE  IsTakenForWhole(c, t.body, ReadResponse(c, Received(c, t)).messages)
<1> DEFINE r == Received(c, t)
           a == ReadResponse(c, r)
           unary == c.kind = "unary"
<1>1. /\ IsBody(r.body) /\ Endless(r) /\ IsBody(t.body)
      /\ r.body = t.body \/ (r.body = BareBody(Uncompressed(t.body.data)) /\ t.body.is = "bare")
  BY ReceivedTampered DEF Tampered
<1>2. c.platform = "node" => r.body = t.body
  BY DEF Received, Tampered
<1>3. ~Parse(BodyData(r.body), c.client.binary).raised =>
        ~Parse(Uncompressed(BodyData(t.body)), c.client.binary).raised
  <2>1. CASE r.body = t.body
    BY <1>1, <2>1, BodyIsData, ParsesUncompressed
  <2>2. CASE r.body = BareBody(Uncompressed(t.body.data)) /\ t.body.is = "bare"
    BY <2>2 DEF BodyData, BareBody
  <2>3. QED
    BY <1>1, <2>1, <2>2
<1> HIDE DEF r
<1>4. a.errors = << >>
  BY DEF r
<1>5. \/ c.platform = "node" /\ c.protocol \in {"connect", "grpc", "grpc-web"}
      \/ c.platform \in {"web", "legacy"} /\ c.protocol \in {"connect", "grpc-web"}
  BY CallsAssumption
<1>6. CASE c.protocol = "connect" /\ unary
  <2>1. a = CASE c.platform = "node" -> NodeConnectUnaryResponse(c, r)
              [] c.platform = "web" -> WebConnectUnaryResponse(c, r)
              [] c.platform = "legacy" -> LegacyConnectUnaryResponse(c, r)
    BY <1>5, <1>6 DEF ReadResponse
  <2> HIDE DEF a
  <2>2. CASE c.platform = "node"
    <3>1. NodeConnectUnaryResponse(c, r).errors = << >>
      BY <1>4, <2>1, <2>2
    <3>2. ~Parse(Uncompressed(BodyData(r.body)), c.client.binary).raised
      BY <1>1, <3>1, NodeConnectUnaryParses
    <3>3. QED
      BY <1>2, <1>6, <2>2, <3>2 DEF IsTakenForWhole
  <2>3. CASE c.platform = "web"
    <3>1. WebConnectUnaryResponse(c, r).errors = << >>
      BY <1>4, <2>1, <2>3
    <3>2. QED
      BY <1>3, <1>6, <3>1, WebConnectUnaryParses DEF IsTakenForWhole
  <2>4. CASE c.platform = "legacy"
    <3>1. LegacyConnectUnaryResponse(c, r).errors = << >>
      BY <1>4, <2>1, <2>4
    <3>2. QED
      BY <1>3, <1>6, <3>1, LegacyConnectUnaryParses DEF IsTakenForWhole
  <2>5. QED
    BY <1>5, <2>2, <2>3, <2>4
<1>7. CASE c.protocol = "connect" /\ ~unary
  <2>1. a \in {NodeConnectStreamResponse(c, r), WebConnectStreamResponse(c, r),
               LegacyConnectStreamResponse(c, r)}
    BY <1>5, <1>7 DEF ReadResponse
  <2> HIDE DEF a
  <2>2. QED
    BY <1>1, <1>4, <2>1, NodeConnectStreamMissesEnd, WebConnectStreamMissesEnd, LegacyConnectStreamMissesEnd
<1>8. CASE c.protocol = "grpc-web"
  <2>1. \/ c.platform = "node" /\ a \in {NodeGrpcWebUnaryResponse(c, r), NodeGrpcWebStreamResponse(c, r)}
        \/ /\ c.platform # "node"
           /\ a \in {WebGrpcWebUnaryResponse(c, r), WebGrpcWebStreamResponse(c, r),
                     LegacyGrpcWebUnaryResponse(c, r)}
        \/ c.platform = "legacy" /\ ~unary /\ a = LegacyGrpcWebStreamResponse(c, r)
    BY <1>5, <1>8 DEF ReadResponse
  <2> HIDE DEF a
  <2>2. CASE Trailerless(c, r.body)
    <3>1. c.platform = "legacy" /\ ~unary /\ a = LegacyGrpcWebStreamResponse(c, r)
      BY <1>1, <1>4, <2>1, <2>2, GrpcWebMissesEnd, LegacyGrpcWebUnaryMissesEnd
    <3>2. a.messages = << >>
      BY <1>1, <1>4, <2>2, <3>1, LegacyGrpcWebStreamMissesEnd
    <3>3. QED
      BY <1>8, <3>1, <3>2 DEF IsTakenForWhole, IsStream, a, r
  <2>3. CASE ~Trailerless(c, r.body)
    <3>1. /\ r.body.is = "envelopes"
          /\ \E n \in DOMAIN r.body.envelopes : PassesForEnd(c, r.body.envelopes[n])
      BY <1>1, <2>3 DEF Trailerless, Endless, PassesForEnd
    <3>2. r.body = t.body
      BY <1>1, <3>1 DEF BareBody
    <3>3. QED
      BY <1>8, <3>1, <3>2 DEF IsTakenForWhole
  <2>4. QED
    BY <2>2, <2>3
<1>9. QED
  BY <1>5, <1>6, <1>7, <1>8 DEF IsTakenForWhole

\* Only a client that reads what a proxy has left gets a tampered answer.
LEMMA ForgedInv ==
  ASSUME Inv, NoForgedSuccess, [Next]_vars
  PROVE  NoForgedSuccess'
<1>1. CASE Read
  <2> DEFINE r == Received(call, response[1])
             a == ReadResponse(call, r)
  <2>1. /\ pc = "served" /\ answer' = <<a>> /\ call' = call
        /\ response' = response /\ tampered' = tampered
    BY <1>1 DEF Read, Settle
  <2>2. call \in Calls /\ (tampered => Tampered(response[1]))
    BY <2>1 DEF Inv, ResponseInv
  <2>3. ASSUME tampered, a.errors = << >>
        PROVE  IsTakenForWhole(call, response[1].body, a.messages)
    BY <2>2, <2>3, ForgedSuccess
  <2> HIDE DEF a
  <2>4. answer'[1] = a
    BY <2>1
  <2>5. QED
    BY <2>1, <2>3, <2>4 DEF NoForgedSuccess, Success
<1>2. CASE Send \/ ForeignSends \/ Serve \/ ConnectionFails
  <2>1. pc \in {"start", "sent", "foreign"} /\ tampered' = tampered
    BY <1>2 DEF Send, ForeignSends, Serve, ConnectionFails
  <2>2. ~tampered'
    BY <2>1 DEF Inv, ResponseInv
  <2>3. QED
    BY <2>2 DEF NoForgedSuccess
<1>3. CASE Proxy
  BY <1>3 DEF Proxy, NoForgedSuccess, Answered
<1>4. CASE UNCHANGED vars
  BY <1>4 DEF vars, NoForgedSuccess, Answered, Success
<1>5. QED
  BY <1>1, <1>2, <1>3, <1>4 DEF Next

\* What a proxy has made up, or cut short after any number of its bytes, is not taken for
\* a success by a protocol that declares its end, but for the cases that
\* IsTakenForWhole names.
THEOREM CutResponsesAreFailures == Spec => []NoForgedSuccess
<1>1. Init => NoForgedSuccess
  BY DEF Init, NoForgedSuccess, Answered
<1>2. Inv /\ NoForgedSuccess /\ [Next]_vars => NoForgedSuccess'
  BY ForgedInv
<1>3. QED
  BY <1>1, <1>2, Invariance, PTL DEF Spec

-----------------------------------------------------------------------------
(* What a handler refuses                                                  *)

\* codeToHttpStatus() gives an error the status of one.
LEMMA StatusOfError == \A code : CodeToHttpStatus(code) \in 400..599
<1>1. TAKE code
<1>2. CodeToHttpStatus(code) \in {400, 401, 403, 404, 408, 409, 412, 429, 503, 500}
  BY DEF CodeToHttpStatus, Code
<1>3. QED
  BY <1>2

\* createMethodUrl() for the path of a handler
LEMMA MethodPath == CreateMethodUrl(<<"/">>, "method") = <<"/", "method">>
<1>1. <<"/">> # << >> /\ Last(<<"/">>) = "/" /\ Front(<<"/">>) = << >>
  BY DEF Last, Front
<1>2. QED
  BY <1>1 DEF CreateMethodUrl

\* codeToString() has a string for every code, which codeFromString() takes for a code.
LEMMA CodeIsRead ==
  ASSUME NEW code \in CodeValues
  PROVE  CodeFromString(CodeToString(code)) # 0
<1>1. CodeToString(code) \in DOMAIN StringToCode
  BY DEF StringToCode
<1>2. StringToCode[CodeToString(code)] \in CodeValues
  BY DEF StringToCode
<1>3. 0 \notin CodeValues
  BY DEF CodeValues, Code, Range
<1>4. QED
  BY <1>1, <1>2, <1>3 DEF CodeFromString

\* The error of compressionNegotiate()
UnknownCompression(acceptField, available) ==
  NewError("unknown compression", Code.Unimplemented, Field(acceptField, available), << >>)

\* Whether a field names nothing, or a compression that is available
Available(header, field, available) ==
  Get(header, field) \in {<< >>, <<"identity">>} \cup {<<a>> : a \in ToSet(available)}

\* compressionNegotiate() fails for a compression it does not have.
LEMMA NegotiationFails ==
  ASSUME NEW available, IsSequence(available), NEW header,
         \A f \in DOMAIN header : IsSequence(header[f]),
         NEW sendField, NEW acceptField, ~Available(header, sendField, available)
  PROVE  CompressionNegotiate(available, header, sendField, acceptField).errors
           = <<UnknownCompression(acceptField, available)>>
<1> DEFINE requested == header[sendField]
           known == requested = <<"identity">> \/ (Len(requested) = 1 /\ Contains(available, requested[1]))
<1>1. Has(header, sendField) /\ Get(header, sendField) = requested
  BY DEF Available, Get
<1>2. IsSequence(requested)
  BY <1>1 DEF Has
<1>3. requested # <<"identity">> /\ \A a \in ToSet(available) : requested # <<a>>
  BY <1>1 DEF Available
<1>4. ~(Len(requested) = 1 /\ Contains(available, requested[1]))
  <2>1. SUFFICES ASSUME Len(requested) = 1, NEW i \in 1..Len(available), available[i] = requested[1]
                 PROVE  FALSE
    BY DEF Contains
  <2>2. requested[1] \in ToSet(available)
    BY <2>1, SequenceFacts DEF ToSet
  <2>3. requested = <<requested[1]>>
    <3>1. requested \in Seq(ToSet(requested))
      BY <1>2 DEF IsSequence
    <3> HIDE DEF requested
    <3>2. QED
      BY <2>1, <3>1
  <2>4. QED
    BY <1>3, <2>2, <2>3
<1>5. ~known
  BY <1>3, <1>4
<1>6. QED
  BY <1>1, <1>5 DEF CompressionNegotiate, UnknownCompression

\* What a transform makes of nothing
LEMMA ThroughNothing ==
  ASSUME NEW stream, stream.items = << >>,
         NEW results, results = [n \in DOMAIN stream.items |-> results[n]],
         NEW out, out = Yielded(results, stream.errors)
  PROVE  out.items = << >> /\ out.errors = stream.errors
<1>1. IsSequence(stream.items) /\ DOMAIN stream.items = {}
  BY EmptySequence
<1>2. IsSequence(out.items)
  BY <1>1, ThroughItems
<1>3. DOMAIN out.items = DOMAIN stream.items /\ out.errors = stream.errors
  BY <1>1, ThroughItems
<1>4. QED
  BY <1>1, <1>2, <1>3, SequenceFacts

\* The transforms make nothing of nothing, and keep the error.
LEMMA TransformedNothing ==
  ASSUME NEW stream, stream.items = << >>,
         NEW out, \/ \E compression, max : out = TransformDecompressEnvelope(stream, compression, max)
                  \/ \E compression, min : out = TransformCompressEnvelope(stream, compression, min)
                  \/ \E binary, max : out = TransformSerializeEnvelope(stream, binary, max)
  PROVE  out.items = << >> /\ out.errors = stream.errors
<1>1. \E results : out = Yielded(results, stream.errors)
                   /\ results = [n \in DOMAIN stream.items |-> results[n]]
  <2>1. ASSUME NEW compression, NEW max, out = TransformDecompressEnvelope(stream, compression, max)
        PROVE  \E results : out = Yielded(results, stream.errors)
                            /\ results = [n \in DOMAIN stream.items |-> results[n]]
    <3> WITNESS [n \in DOMAIN stream.items |-> EnvelopeDecompress(stream.items[n], compression, max)]
    <3>1. QED
      BY <2>1 DEF TransformDecompressEnvelope, Through
  <2>2. ASSUME NEW compression, NEW min, out = TransformCompressEnvelope(stream, compression, min)
        PROVE  \E results : out = Yielded(results, stream.errors)
                            /\ results = [n \in DOMAIN stream.items |-> results[n]]
    <3> WITNESS [n \in DOMAIN stream.items |-> EnvelopeCompress(stream.items[n], compression, min)]
    <3>1. QED
      BY <2>2 DEF TransformCompressEnvelope, Through
  <2>3. ASSUME NEW binary, NEW max, out = TransformSerializeEnvelope(stream, binary, max)
        PROVE  \E results : out = Yielded(results, stream.errors)
                            /\ results = [n \in DOMAIN stream.items |-> results[n]]
    <3> DEFINE Serialized(message) ==
                 LET data == Serialize(message, binary)
                 IN CASE data.raised -> data
                      [] ~data.raised /\ ~WithinWriteMax(max, Size(data.value)) -> Raise(TooLarge)
                      [] OTHER -> Return(Envelope({}, data.value))
    <3> WITNESS [n \in DOMAIN stream.items |-> Serialized(stream.items[n])]
    <3>1. QED
      BY <2>3 DEF TransformSerializeEnvelope, Through
  <2>4. QED
    BY <2>1, <2>2, <2>3
<1>2. QED
  BY <1>1, ThroughNothing

\* transformParseEnvelope() makes nothing of nothing.
LEMMA ParsedNothing ==
  ASSUME NEW stream, stream.items = << >>, DOMAIN stream = {"items", "errors"},
         NEW binary, NEW endFlag, NEW out, out = TransformParseEnvelope(stream, binary, endFlag)
  PROVE  out.items = << >> /\ out.errors = stream.errors
<1> DEFINE places == {n \in DOMAIN stream.items : endFlag \notin stream.items[n].flags}
           source == [stream EXCEPT !.items = Selected(@, places)]
           results == [n \in DOMAIN source.items |-> Parse(source.items[n].data, binary)]
<1>1. out = Yielded(results, source.errors)
  BY DEF TransformParseEnvelope, Through
<1>2. IsSequence(stream.items) /\ DOMAIN stream.items = {}
  BY EmptySequence
<1>3. Selected(stream.items, places) = << >>
  BY <1>2, SelectedElements
<1>4. source.items = << >> /\ source.errors = stream.errors
  BY <1>3
<1>5. results = [n \in DOMAIN source.items |-> results[n]]
  OBVIOUS
<1> HIDE DEF source, results
<1>6. LET made == Yielded(results, source.errors)
      IN made.items = << >> /\ made.errors = source.errors
  BY <1>4, <1>5, ThroughNothing
<1>7. QED
  BY <1>1, <1>4, <1>6

\* After an error that is prepended, nothing is read.
LEMMA NothingIsRead ==
  ASSUME NEW s, NEW q, NEW compression, compression.errors # << >>, NEW binary
  PROVE  /\ \A endFlag : /\ Inputs(s, q, compression, binary, endFlag).items = << >>
                         /\ Inputs(s, q, compression, binary, endFlag).errors = compression.errors
         /\ UnaryInput(s, q, compression, binary).items = << >>
         /\ UnaryInput(s, q, compression, binary).errors = compression.errors
<1> DEFINE errors == compression.errors
           max == s.readMaxBytes
           Nothing(stream) ==
             stream.items = << >> /\ stream.errors = errors /\ DOMAIN stream = {"items", "errors"}
<1>1. \A source : Nothing(TransformPrepend(source, errors))
  BY DEF TransformPrepend
<1>2. \A results, e : DOMAIN Yielded(results, e) = {"items", "errors"}
  BY DEF Yielded
<1>3. \A stream : Nothing(stream) => Nothing(TransformDecompressEnvelope(stream, compression.request, max))
  <2>1. \A stream : DOMAIN TransformDecompressEnvelope(stream, compression.request, max) = {"items", "errors"}
    BY <1>2 DEF TransformDecompressEnvelope, Through
  <2>2. QED
    BY <2>1, TransformedNothing
<1>4. ASSUME NEW stream, Nothing(stream), NEW endFlag
      PROVE  LET out == TransformParseEnvelope(stream, binary, endFlag)
             IN out.items = << >> /\ out.errors = errors
  BY <1>4, ParsedNothing
<1>5. ASSUME NEW endFlag
      PROVE  /\ Inputs(s, q, compression, binary, endFlag).items = << >>
             /\ Inputs(s, q, compression, binary, endFlag).errors = errors
  <2> DEFINE prepended == TransformPrepend(TransformSplitEnvelope(q.body, max), errors)
             decompressed == TransformDecompressEnvelope(prepended, compression.request, max)
  <2>1. Nothing(prepended)
    BY <1>1
  <2>2. Inputs(s, q, compression, binary, endFlag) = TransformParseEnvelope(decompressed, binary, endFlag)
    BY DEF Inputs
  <2> HIDE DEF prepended, Nothing
  <2>3. Nothing(decompressed)
    BY <1>3, <2>1
  <2> HIDE DEF decompressed
  <2>4. QED
    BY <1>4, <2>2, <2>3
<1>6. /\ UnaryInput(s, q, compression, binary).items = << >>
      /\ UnaryInput(s, q, compression, binary).errors = errors
  <2> DEFINE hint == IF Has(q.header, "content-length") THEN q.header["content-length"][1] ELSE -1
             flags == IF compression.request = "identity" THEN {} ELSE {"compressed"}
             prepended == TransformPrepend(Stream(<<q.body>>), errors)
             read == [n \in DOMAIN prepended.items |-> TransformReadAllBytes(prepended.items[n], max, hint)]
             bytes == Yielded(read, prepended.errors)
             wrap == [n \in DOMAIN bytes.items |-> Return(Envelope(flags, bytes.items[n]))]
             wrapped == Yielded(wrap, bytes.errors)
             decompressed == TransformDecompressEnvelope(wrapped, compression.request, max)
  <2>1. UnaryInput(s, q, compression, binary) = TransformParseEnvelope(decompressed, binary, "none")
    BY DEF UnaryInput, Through
  <2>2. Nothing(prepended)
    BY <1>1, SMTT(30)
  <2>3. read = [n \in DOMAIN prepended.items |-> read[n]] /\ wrap = [n \in DOMAIN bytes.items |-> wrap[n]]
    OBVIOUS
  <2> HIDE DEF prepended, read
  <2>4. bytes.items = << >> /\ bytes.errors = errors
    BY <2>2, <2>3, ThroughNothing, ZenonT(60)
  <2> HIDE DEF bytes, wrap
  <2>5. wrapped.items = << >> /\ wrapped.errors = errors
    BY <2>3, <2>4, ThroughNothing
  <2>6. Nothing(wrapped)
    BY <1>2, <2>5
  <2> HIDE DEF wrapped, Nothing
  <2>7. Nothing(decompressed)
    BY <1>3, <2>6
  <2> HIDE DEF decompressed
  <2>8. QED
    BY <1>4, <2>1, <2>7
<1>7. QED
  BY <1>5, <1>6

\* Whatever the kind of a method, an implementation sees nothing of an input that
\* begins with an error.
LEMMA InvokedWithNothing ==
  ASSUME NEW spec, NEW header, NEW input, input.items = << >>, input.errors # << >>,
         NEW out, out = InvokeImplementation(spec, header, input)
  PROVE  /\ out.given = << >> \/ out.given[1].inputs = << >>
         /\ out.items = << >> /\ out.errors = input.errors
<1>1. FirstOf(input.items) = << >>
  BY DEF FirstOf
<1>2. CASE TakesOne(spec.kind)
  <2>1. out = [given |-> << >>, items |-> << >>, errors |-> input.errors]
    BY <1>1, <1>2 DEF InvokeImplementation
  <2>2. QED
    BY <2>1
<1>3. CASE ~TakesOne(spec.kind)
  <2>1. out = [given |-> <<[header |-> header, inputs |-> << >>]>>, items |-> << >>, errors |-> input.errors]
    BY <1>3 DEF InvokeImplementation
  <2>2. QED
    BY <2>1
<1>4. QED
  BY <1>2, <1>3

\* What compress() makes of an envelope
CompressedTo(sent, envelope, compression) ==
  \/ sent = envelope
  \/ /\ compression # "identity"
     /\ sent = Envelope(envelope.flags \cup {"compressed"}, Compress(envelope.data, compression))

\* transformCompressEnvelope() compresses each of its envelopes, or lets it pass.
LEMMA CompressedStream ==
  ASSUME NEW stream, IsSequence(stream.items),
         \A n \in DOMAIN stream.items : "compressed" \notin stream.items[n].flags,
         NEW compression, NEW minBytes,
         NEW out, out = TransformCompressEnvelope(stream, compression, minBytes)
  PROVE  /\ IsSequence(out.items) /\ DOMAIN out.items = DOMAIN stream.items
         /\ out.errors = stream.errors
         /\ \A n \in DOMAIN out.items : CompressedTo(out.items[n], stream.items[n], compression)
<1> DEFINE results == [n \in DOMAIN stream.items |->
                         EnvelopeCompress(stream.items[n], compression, minBytes)]
<1>1. out = Yielded(results, stream.errors)
  BY DEF TransformCompressEnvelope, Through
<1>2. results = [n \in DOMAIN stream.items |-> results[n]]
  OBVIOUS
<1>3. \A n \in DOMAIN stream.items :
        results[n] = EnvelopeCompress(stream.items[n], compression, minBytes)
  OBVIOUS
<1> HIDE DEF results
<1>4. ASSUME NEW e, "compressed" \notin e.flags
      PROVE  LET result == EnvelopeCompress(e, compression, minBytes)
             IN ~result.raised /\ CompressedTo(result.value, e, compression)
  <2> DEFINE zipped == Envelope(e.flags \cup {"compressed"}, Compress(e.data, compression))
             result == EnvelopeCompress(e, compression, minBytes)
  <2>1. result = Return(e) \/ (compression # "identity" /\ result = Return(zipped))
    BY <1>4 DEF EnvelopeCompress
  <2> HIDE DEF result
  <2>2. ~result.raised /\ (result.value = e \/ (compression # "identity" /\ result.value = zipped))
    <3> HIDE DEF zipped
    <3>1. QED
      BY <2>1, Outcomes
  <2>3. QED
    BY <2>2 DEF CompressedTo, result
<1>5. \A n \in DOMAIN stream.items :
        ~results[n].raised /\ CompressedTo(results[n].value, stream.items[n], compression)
  BY <1>3, <1>4
<1>6. /\ IsSequence(out.items)
      /\ \A n \in DOMAIN out.items :
           n \in DOMAIN stream.items /\ ~results[n].raised /\ out.items[n] = results[n].value
  BY <1>1, <1>2, ThroughItems
<1>7. DOMAIN out.items = DOMAIN stream.items /\ out.errors = stream.errors
  <2>1. \A n \in DOMAIN stream.items : ~results[n].raised
    BY <1>5
  <2>2. QED
    BY <1>1, <1>2, <2>1, ThroughItems, SMTT(30)
<1>8. \A n \in DOMAIN out.items : CompressedTo(out.items[n], stream.items[n], compression)
  <2>1. TAKE n \in DOMAIN out.items
  <2>2. n \in DOMAIN stream.items /\ out.items[n] = results[n].value
    BY <1>6
  <2>3. CompressedTo(results[n].value, stream.items[n], compression)
    BY <1>5, <2>2
  <2>4. QED
    BY <2>2, <2>3
<1>9. QED
  BY <1>6, <1>7, <1>8

\* The end of a stream is the last of its envelopes, compressed or not.
LEMMA LastIsEnd ==
  ASSUME NEW items, IsSequence(items), AllUnflagged(items),
         NEW end, "compressed" \notin end.flags, NEW compression, NEW minBytes,
         NEW sent, sent = TransformCompressEnvelope(Stream(items \o <<end>>), compression, minBytes)
  PROVE  sent.items # << >> /\ CompressedTo(Last(sent.items), end, compression)
<1> DEFINE ended == items \o <<end>>
<1>1. IsSequence(<<end>>) /\ DOMAIN <<end>> = {1} /\ <<end>>[1] = end /\ Len(<<end>>) = 1
  BY SingletonSequence
<1>2. /\ IsSequence(ended) /\ Len(ended) = Len(items) + 1
      /\ \A n \in DOMAIN ended :
           \/ n \in DOMAIN items /\ ended[n] = items[n]
           \/ n - Len(items) \in DOMAIN <<end>> /\ ended[n] = <<end>>[n - Len(items)]
  BY <1>1, Concatenation
<1>3. Stream(ended).items = ended
  BY DEF Stream
<1>4. Len(items) \in Nat /\ DOMAIN items = 1..Len(items) /\ DOMAIN ended = 1..(Len(items) + 1)
  BY <1>2, SequenceFacts
<1> HIDE DEF ended
<1>5. ended[Len(items) + 1] = end
  BY <1>1, <1>2, <1>4
<1>6. \A n \in DOMAIN ended : "compressed" \notin ended[n].flags
  <2>1. TAKE n \in DOMAIN ended
  <2>2. ended[n] = end \/ (n \in DOMAIN items /\ ended[n] = items[n])
    BY <1>1, <1>2
  <2>3. QED
    BY <2>2 DEF AllUnflagged
<1>7. /\ IsSequence(sent.items) /\ DOMAIN sent.items = DOMAIN ended
      /\ \A n \in DOMAIN sent.items : CompressedTo(sent.items[n], ended[n], compression)
  <2> DEFINE stream == Stream(ended)
  <2>1. sent = TransformCompressEnvelope(stream, compression, minBytes)
    BY DEF ended
  <2>2. IsSequence(stream.items) /\ \A n \in DOMAIN stream.items : "compressed" \notin stream.items[n].flags
    BY <1>2, <1>3, <1>6
  <2>3. stream.items = ended
    BY <1>3
  <2> HIDE DEF stream
  <2>4. LET out == TransformCompressEnvelope(stream, compression, minBytes)
        IN /\ IsSequence(out.items) /\ DOMAIN out.items = DOMAIN stream.items
           /\ \A n \in DOMAIN out.items : CompressedTo(out.items[n], stream.items[n], compression)
    BY <2>2, CompressedStream
  <2>5. QED
    BY <2>1, <2>3, <2>4
<1>8. Len(sent.items) = Len(items) + 1
  <2>1. Len(sent.items) \in Nat /\ DOMAIN sent.items = 1..Len(sent.items)
    BY <1>7, SequenceFacts
  <2>2. QED
    BY <1>4, <1>7, <2>1
<1>9. QED
  BY <1>4, <1>5, <1>7, <1>8 DEF Last

\* Data that was not compressed is the same once it is decompressed.
LEMMA ArrivesDecompressed ==
  ASSUME NEW content, NEW format, NEW size, NEW flags, NEW compression, NEW sent,
         CompressedTo(sent, Envelope(flags, Data(content, format, size)), compression)
  PROVE  Uncompressed(sent.data) = Data(content, format, size) /\ flags \subseteq sent.flags
BY DEF CompressedTo, Envelope, Compress, Data, Uncompressed

\* What createEndStreamSerialization() writes of an error without details is read as one.
LEMMA EndStreamTells ==
  ASSUME NEW error, error.code \in CodeValues, error.message # NoString, error.details = << >>,
         NEW metadata
  PROVE  EndStreamParse(EndStreamSerialize([metadata |-> metadata, errors |-> <<error>>])).value.errors # << >>
<1> DEFINE end == [metadata |-> metadata, errors |-> <<error>>]
           shown == ErrorToJson(error)
           all == AppendHeaders(metadata, error.metadata)
           json == [is |-> "object", metadata |-> all, errors |-> <<shown>>]
<1>1. <<error>> # << >> /\ <<error>>[1] = error /\ <<shown>> # << >> /\ <<shown>>[1] = shown
  OBVIOUS
<1>2. EndStreamToJson(end.metadata, end.errors) = json
  BY <1>1 DEF EndStreamToJson
<1>3. ToJson(JsonData(json)) = json
  BY DEF ToJson, JsonData, Data
<1>4. /\ shown.is = "object" /\ shown.code = CodeToString(error.code)
      /\ shown.message # NoString /\ DOMAIN shown.details = {}
  <2>1. DOMAIN error.details = {}
    BY EmptySequence
  <2>2. shown.is = "object" /\ shown.code = CodeToString(error.code)
    BY DEF ErrorToJson
  <2>3. DOMAIN shown.details = DOMAIN error.details
    BY DEF ErrorToJson
  <2>4. shown.message \in {Absent, error.message}
    BY DEF ErrorToJson
  <2>5. QED
    BY <2>1, <2>2, <2>3, <2>4 DEF Absent, NoString
<1>5. CodeFromString(shown.code) # 0
  BY <1>4, CodeIsRead
<1> HIDE DEF shown
<1>6. ErrorFromJson(shown, all).raised = FALSE
  BY <1>4, <1>5, Outcomes DEF ErrorFromJson
<1> DEFINE parsed == ErrorFromJson(shown, all)
<1>7. EndStreamFromJson(json) = Return([metadata |-> all, errors |-> <<parsed.value>>])
  BY <1>1, <1>6 DEF EndStreamFromJson
<1>8. EndStreamFromJson(json).value.errors = <<parsed.value>>
  BY <1>7 DEF Return
<1> HIDE DEF json, parsed
<1>9. EndStreamParse(EndStreamSerialize(end)) = EndStreamFromJson(json)
  BY <1>2, <1>3 DEF EndStreamParse, EndStreamSerialize
<1>10. <<parsed.value>> # << >>
  OBVIOUS
<1>11. QED
  BY <1>8, <1>9, <1>10

-----------------------------------------------------------------------------
(* The trailer of gRPC-web                                                 *)

ParsedUpTo(upTo, lines, k) ==
  upTo = [n \in 0..k |->
            IF n = 0 THEN NoHeaders
            ELSE IF lines[n][1] = NoName THEN upTo[n - 1]
            ELSE AppendField(upTo[n - 1], lines[n][1], lines[n][2])]

\* The recursive function of TrailerParse exists.
LEMMA ParsingExists ==
  ASSUME NEW lines, NEW k \in Nat
  PROVE  \E upTo : ParsedUpTo(upTo, lines, k)
<1> DEFINE Step(header, n) ==
             IF lines[n][1] = NoName THEN header ELSE AppendField(header, lines[n][1], lines[n][2])
           Built(j) == \E upTo : upTo = [n \in 0..j |-> IF n = 0 THEN NoHeaders ELSE Step(upTo[n - 1], n)]
           S == {j \in Nat : Built(j)}
<1>1. Built(k) => \E upTo : ParsedUpTo(upTo, lines, k)
  BY Zenon DEF ParsedUpTo
<1> HIDE DEF Step
<1>2. 0 \in S
  <2> DEFINE nothing == [n \in 0..0 |-> NoHeaders]
  <2>1. nothing = [n \in 0..0 |-> IF n = 0 THEN NoHeaders ELSE Step(nothing[n - 1], n)]
    OBVIOUS
  <2> HIDE DEF nothing
  <2>2. Built(0)
    BY <2>1, Zenon
  <2> HIDE DEF Built
  <2>3. QED
    BY <2>2
<1>3. ASSUME NEW j \in Nat, j \in S
      PROVE  j + 1 \in S
  <2>1. PICK at : at = [n \in 0..j |-> IF n = 0 THEN NoHeaders ELSE Step(at[n - 1], n)]
    BY <1>3, Zenon
  <2> DEFINE more == [n \in 0..(j + 1) |-> IF n <= j THEN at[n] ELSE Step(at[j], n)]
  <2>2. ASSUME NEW n \in 0..(j + 1)
        PROVE  more[n] = IF n = 0 THEN NoHeaders ELSE Step(more[n - 1], n)
    <3>1. CASE n = 0
      <4>1. n <= j /\ n \in 0..j
        BY <3>1
      <4>2. QED
        BY <2>1, <3>1, <4>1
    <3>2. CASE n <= j /\ n # 0
      <4>1. n \in 0..j /\ n - 1 \in 0..j /\ n - 1 \in 0..(j + 1) /\ n - 1 <= j
        BY <3>2
      <4>2. more[n] = at[n] /\ more[n - 1] = at[n - 1]
        BY <4>1
      <4>3. at[n] = Step(at[n - 1], n)
        BY <2>1, <3>2, <4>1
      <4>4. QED
        BY <3>2, <4>2, <4>3
    <3>3. CASE ~(n <= j)
      <4>1. n = j + 1 /\ n - 1 = j /\ n # 0 /\ n - 1 \in 0..(j + 1) /\ n - 1 <= j
        BY <3>3
      <4>2. more[n] = Step(at[j], n) /\ more[n - 1] = at[j]
        BY <3>3, <4>1
      <4>3. QED
        BY <4>1, <4>2
    <3>4. QED
      BY <3>1, <3>2, <3>3
  <2>3. more = [n \in 0..(j + 1) |-> IF n = 0 THEN NoHeaders ELSE Step(more[n - 1], n)]
    <3> HIDE DEF more
    <3>1. more = [n \in 0..(j + 1) |-> more[n]]
      BY DEF more
    <3>2. QED
      BY <2>2, <3>1
  <2> HIDE DEF more
  <2>4. Built(j + 1)
    BY <2>3, Zenon
  <2> HIDE DEF Built
  <2>5. QED
    BY <2>4
<1> HIDE DEF Built
<1>4. k \in S
  <2> HIDE DEF S
  <2>1. QED
    BY <1>2, <1>3, SetInduction
<1>5. QED
  BY <1>1, <1>4

\* The fields that tell a status have names.
LEMMA FieldIsNamed == "grpc-status" # NoName /\ "grpc-status-details-bin" # NoName /\ "grpc-message" # NoName
BY Zenon DEF NoName

\* Lines of different names are parsed to a field each, but one without a name.
LEMMA ParsedTrailer ==
  ASSUME NEW lines, IsSequence(lines),
         \A m, n \in DOMAIN lines : lines[m][1] = lines[n][1] => m = n
  PROVE  /\ \A f : Has(TrailerParse(lines), f) <=> f # NoName /\ \E n \in DOMAIN lines : lines[n][1] = f
         /\ \A n \in DOMAIN lines : lines[n][1] # NoName =>
              TrailerParse(lines)[lines[n][1]] = lines[n][2]
<1>1. Len(lines) \in Nat /\ DOMAIN lines = 1..Len(lines)
  BY SequenceFacts
<1>2. PICK upTo : /\ upTo = [n \in 0..Len(lines) |->
                       IF n = 0 THEN NoHeaders
                       ELSE IF lines[n][1] = NoName THEN upTo[n - 1]
                       ELSE AppendField(upTo[n - 1], lines[n][1], lines[n][2])]
                  /\ TrailerParse(lines) = upTo[Len(lines)]
  <2>1. \E upTo : ParsedUpTo(upTo, lines, Len(lines))
    BY <1>1, ParsingExists
  <2>2. QED
    BY <2>1, Zenon DEF ParsedUpTo, TrailerParse
<1> DEFINE FieldsUpTo(n) == \A f : Has(upTo[n], f) <=> f # NoName /\ \E m \in 1..n : lines[m][1] = f
           ValuesUpTo(n) == \A m \in 1..n : lines[m][1] # NoName => upTo[n][lines[m][1]] = lines[m][2]
           S == {n \in Nat : n <= Len(lines) => FieldsUpTo(n) /\ ValuesUpTo(n)}
<1>3. 0 \in S
  BY <1>1, <1>2 DEF Has, NoHeaders
<1>4. ASSUME NEW n \in Nat, n \in S
      PROVE  n + 1 \in S
  <2>1. SUFFICES ASSUME n + 1 <= Len(lines)
                 PROVE  FieldsUpTo(n + 1) /\ ValuesUpTo(n + 1)
    OBVIOUS
  <2>2. FieldsUpTo(n) /\ ValuesUpTo(n)
    BY <1>1, <1>4, <2>1
  <2>3. n + 1 \in 0..Len(lines) /\ n + 1 # 0 /\ (n + 1) - 1 = n
    BY <1>1, <2>1
  <2> DEFINE name == lines[n + 1][1]
             value == lines[n + 1][2]
  <2>4. upTo[n + 1] = IF name = NoName THEN upTo[n] ELSE AppendField(upTo[n], name, value)
    BY <1>2, <2>3
  <2>5. \A m \in 1..n : m \in DOMAIN lines /\ lines[m][1] # name
    <3>1. TAKE m \in 1..n
    <3>2. m \in DOMAIN lines /\ n + 1 \in DOMAIN lines /\ m # n + 1
      BY <1>1, <2>1
    <3>3. QED
      BY <3>2
  <2>6. \A m \in 1..(n + 1) : m \in 1..n \/ m = n + 1
    OBVIOUS
  <2>7. 1..n \subseteq 1..(n + 1) /\ n + 1 \in 1..(n + 1)
    OBVIOUS
  <2>8. CASE name = NoName
    <3>1. upTo[n + 1] = upTo[n]
      BY <2>4, <2>8
    <3> HIDE DEF name, value
    <3>2. QED
      BY <2>2, <2>6, <2>7, <2>8, <3>1 DEF name
  <2>9. CASE name # NoName
    <3>1. ~Has(upTo[n], name)
      BY <2>2, <2>5
    <3> HIDE DEF name, value
    <3>2. upTo[n + 1] = Set(upTo[n], name, value)
      BY <2>4, <2>9, <3>1 DEF AppendField
    <3>3. \A f : Has(upTo[n + 1], f) <=> Has(upTo[n], f) \/ f = name
      BY <3>2 DEF Set, Has
    <3>4. /\ upTo[n + 1][name] = value
          /\ \A f : f # name /\ Has(upTo[n], f) => upTo[n + 1][f] = upTo[n][f]
      BY <3>2 DEF Set, Has
    <3>5. FieldsUpTo(n + 1)
      <4>1. \A f : (\E m \in 1..(n + 1) : lines[m][1] = f) <=> (\E m \in 1..n : lines[m][1] = f) \/ f = name
        BY <2>6, <2>7 DEF name
      <4>2. QED
        BY <2>2, <2>9, <3>3, <4>1
    <3>6. ValuesUpTo(n + 1)
      <4>1. SUFFICES ASSUME NEW m \in 1..(n + 1), lines[m][1] # NoName
                     PROVE  upTo[n + 1][lines[m][1]] = lines[m][2]
        OBVIOUS
      <4>2. CASE m \in 1..n
        BY <2>2, <2>5, <3>4, <4>1, <4>2
      <4>3. CASE m = n + 1
        BY <3>4, <4>3 DEF name, value
      <4>4. QED
        BY <2>6, <4>2, <4>3
    <3>7. QED
      BY <3>5, <3>6
  <2>10. QED
    BY <2>8, <2>9
<1>5. FieldsUpTo(Len(lines)) /\ ValuesUpTo(Len(lines))
  <2>1. Len(lines) \in S
    <3> HIDE DEF S
    <3>1. QED
      BY <1>1, <1>3, <1>4, SetInduction
  <2>2. QED
    BY <1>1, <2>1
<1>6. QED
  BY <1>1, <1>2, <1>5

\* There is a line for each field.
LEMMA SerializedTrailer ==
  ASSUME NEW trailer, IsFiniteSet(DOMAIN trailer)
  PROVE  LET lines == TrailerSerialize(trailer)
         IN /\ IsSequence(lines)
            /\ \A n \in DOMAIN lines : Has(trailer, lines[n][1]) /\ lines[n][2] = trailer[lines[n][1]]
            /\ \A f \in DOMAIN trailer : \E n \in DOMAIN lines : lines[n][1] = f
            /\ \A m, n \in DOMAIN lines : lines[m][1] = lines[n][1] => m = n
<1> DEFINE S == {<<f, trailer[f]>> : f \in DOMAIN trailer}
           pair == [f \in DOMAIN trailer |-> <<f, trailer[f]>>]
           k == Cardinality(S)
           lines == TrailerSerialize(trailer)
<1>1. IsFiniteSet(S)
  <2>1. pair \in Surjection(DOMAIN trailer, S)
    BY DEF Surjection
  <2> HIDE DEF S, pair
  <2>2. QED
    BY <2>1, FS_Surjection
<1>2. k \in Nat /\ ExistsBijection(1..k, S)
  <2> HIDE DEF S
  <2>1. QED
    BY <1>1, FS_CardinalityType
<1>3. lines \in [1..k -> S] /\ IsInjective(lines)
  <2>1. \E f \in [1..k -> S] : IsInjective(f)
    <3> HIDE DEF S, k
    <3>1. QED
      BY <1>2 DEF ExistsBijection, Bijection, Injection
  <2>2. lines = CHOOSE f \in [1..k -> S] : IsInjective(f)
    BY DEF TrailerSerialize, SetToSeq
  <2> HIDE DEF S, k, lines
  <2>3. QED
    BY <2>1, <2>2
<1>4. lines \in Surjection(1..k, S)
  <2> HIDE DEF S, lines
  <2>1. lines \in Injection(1..k, S)
    BY <1>3 DEF Injection
  <2>2. Cardinality(1..k) = k
    BY <1>2, FS_Interval
  <2>3. QED
    BY <1>1, <2>1, <2>2, FS_Injection
<1>5. IsSequence(lines) /\ DOMAIN lines = 1..k
  <2> HIDE DEF S, k, lines
  <2>1. lines = [n \in 1..k |-> lines[n]]
    BY <1>3
  <2>2. QED
    BY <1>2, <2>1, BuiltSequence
<1> HIDE DEF lines, k
<1>6. \A n \in DOMAIN lines : \E f \in DOMAIN trailer : lines[n] = <<f, trailer[f]>>
  BY <1>3, <1>5
<1>7. \A f \in DOMAIN trailer : \E n \in DOMAIN lines : lines[n] = <<f, trailer[f]>>
  BY <1>4, <1>5 DEF Surjection
<1> HIDE DEF S
<1>8. /\ \A n \in DOMAIN lines : Has(trailer, lines[n][1]) /\ lines[n][2] = trailer[lines[n][1]]
      /\ \A f \in DOMAIN trailer : \E n \in DOMAIN lines : lines[n][1] = f
  BY <1>6, <1>7 DEF Has
<1>9. ASSUME NEW m \in DOMAIN lines, NEW n \in DOMAIN lines, lines[m][1] = lines[n][1]
      PROVE  m = n
  <2>1. lines[m] = lines[n]
    BY <1>6, <1>9
  <2>2. QED
    BY <1>3, <2>1 DEF IsInjective
<1>10. QED
  BY <1>5, <1>8, <1>9 DEF lines

\* trailerParse() gets the fields that trailerSerialize() is given.
LEMMA TrailerArrives ==
  ASSUME NEW trailer, IsFiniteSet(DOMAIN trailer), NEW f, f # NoName
  PROVE  Get(TrailerParse(TrailerSerialize(trailer)), f) = Get(trailer, f)
         /\ (Has(TrailerParse(TrailerSerialize(trailer)), f) <=> Has(trailer, f))
<1> DEFINE lines == TrailerSerialize(trailer)
           parsed == TrailerParse(lines)
<1>1. /\ IsSequence(lines)
      /\ \A n \in DOMAIN lines : Has(trailer, lines[n][1]) /\ lines[n][2] = trailer[lines[n][1]]
      /\ \A g \in DOMAIN trailer : \E n \in DOMAIN lines : lines[n][1] = g
      /\ \A m, n \in DOMAIN lines : lines[m][1] = lines[n][1] => m = n
  BY SerializedTrailer
<1> HIDE DEF lines
<1>2. /\ \A g : Has(parsed, g) <=> g # NoName /\ \E n \in DOMAIN lines : lines[n][1] = g
      /\ \A n \in DOMAIN lines : lines[n][1] # NoName => parsed[lines[n][1]] = lines[n][2]
  BY <1>1, ParsedTrailer
<1> HIDE DEF parsed
<1>3. Has(parsed, f) <=> Has(trailer, f)
  BY <1>1, <1>2 DEF Has
<1>4. Has(trailer, f) => parsed[f] = trailer[f]
  BY <1>1, <1>2 DEF Has
<1>5. QED
  BY <1>3, <1>4 DEF Get, parsed, lines

-----------------------------------------------------------------------------
(* The status of gRPC                                                      *)

\* A trailer with a status other than 0 has an error.
LEMMA StatusTells ==
  ASSUME NEW trailer, NEW target, NEW error, error.code \in CodeValues, error.details = << >>,
         ~Has(target, "grpc-status-details-bin"),
         \A f \in {"grpc-status", "grpc-status-details-bin"} :
           /\ Has(trailer, f) <=> Has(SetTrailerStatus(target, <<error>>), f)
           /\ Get(trailer, f) = Get(SetTrailerStatus(target, <<error>>), f)
  PROVE  FindTrailerError(trailer) # << >>
<1> DEFINE packed == [n \in DOMAIN error.details |->
                        [type |-> error.details[n].type, value |-> error.details[n].value]]
           text == Set(Set(target, "grpc-status", <<error.code>>),
                       "grpc-message", EncodeMessage(error.message))
<1>1. <<error>> # << >> /\ <<error>>[1] = error
  OBVIOUS
<1>2. packed = << >>
  <2>1. DOMAIN error.details = {} /\ IsSequence(error.details)
    BY EmptySequence
  <2>2. packed = [n \in DOMAIN error.details |-> packed[n]]
    OBVIOUS
  <2> HIDE DEF packed
  <2>3. IsSequence(packed) /\ DOMAIN packed = {}
    BY <2>1, <2>2, MappedSequence
  <2>4. QED
    BY <2>3, SequenceFacts
<1>3. SetTrailerStatus(target, <<error>>) = text
  BY <1>1, <1>2 DEF SetTrailerStatus, SetIf
<1>4. /\ Has(text, "grpc-status") /\ Get(text, "grpc-status") = <<error.code>>
      /\ ~Has(text, "grpc-status-details-bin")
  BY DEF Get, Set, Has
<1> HIDE DEF text
<1>5. /\ Has(trailer, "grpc-status") /\ trailer["grpc-status"] = <<error.code>>
      /\ ~Has(trailer, "grpc-status-details-bin")
  BY <1>3, <1>4 DEF Get
<1>6. <<error.code>> # <<0>>
  <2>1. error.code # 0
    BY DEF CodeValues, Code, Range
  <2>2. <<error.code>>[1] = error.code /\ <<0>>[1] = 0
    OBVIOUS
  <2>3. QED
    BY <2>1, <2>2
<1>7. QED
  BY <1>5, <1>6 DEF FindTrailerError

\* An error of a handler that has nothing to be said of but a code and a message
Plainly(error) == error.code \in CodeValues /\ error.message # NoString /\ error.details = << >>

\* That of compressionNegotiate() is one.
LEMMA UnknownIsPlain ==
  ASSUME NEW acceptField, NEW available
  PROVE  Plainly(UnknownCompression(acceptField, available))
<1>1. Code["Unimplemented"] \in {Code[name] : name \in DOMAIN Code}
  BY DEF Code
<1>2. Code.Unimplemented \in CodeValues
  BY <1>1 DEF CodeValues, Range
<1>3. QED
  BY <1>2 DEF UnknownCompression, NewError, Plainly, NoString

-----------------------------------------------------------------------------
(* Requests in an encoding that a server does not know                     *)

IsFields(header) == header = [f \in DOMAIN header |-> header[f]]

\* A response that tells an error, after an implementation has seen no message
Refuses(r) ==
  /\ DOMAIN r = {"status", "header", "body", "trailer", "given"} /\ IsFields(r.trailer)
  /\ r.given = << >> \/ r.given[1].inputs = << >>
  /\ SaysError(r)

\* The responses of universal.ts refuse.
LEMMA RefusalRefuses ==
  ASSUME NEW status \in 400..599, NEW header
  PROVE  /\ Refuses(Refuse(status)) /\ Refuse(status).given = << >>
         /\ Refuses([Refuse(status) EXCEPT !.header = header])
         /\ [Refuse(status) EXCEPT !.header = header].given = << >>
<1>1. IsFields(NoHeaders)
  BY EmptySequence, SequenceFacts DEF IsFields, NoHeaders
<1>2. QED
  BY <1>1 DEF Refuse, Respond, Refuses, SaysError

\* A refusal for the content type or the method
LEMMA RefusalsRefuse ==
  Refuses(Refuse(UnsupportedMediaType)) /\ Refuses(Refuse(MethodNotAllowed))
<1>1. UnsupportedMediaType \in 400..599 /\ MethodNotAllowed \in 400..599
  BY DEF UnsupportedMediaType, MethodNotAllowed
<1>2. QED
  BY <1>1, RefusalRefuses, ZenonT(60)

\* An implementation tells no status of its own.
LeavesStatus(impl) ==
  IsFiniteSet(DOMAIN impl.trailer) /\ "grpc-status-details-bin" \notin DOMAIN impl.trailer

\* createImplSpec() keeps it that way.
LEMMA SpecLeavesStatus ==
  ASSUME NEW c \in Calls
  PROVE  LeavesStatus(CreateImplSpec(c.kind, c.impl).impl)
<1>1. CreateImplSpec(c.kind, c.impl).impl.trailer \in {c.impl.trailer, NoHeaders}
  BY DEF CreateImplSpec, UnimplementService
<1>2. DOMAIN NoHeaders = {} /\ IsFiniteSet(DOMAIN NoHeaders)
  BY EmptySequence, FS_EmptySet DEF NoHeaders
<1>3. QED
  BY <1>1, <1>2, CallsAssumption DEF LeavesStatus

\* The trailer of a response has finitely many fields, and no status with details.
LEMMA TrailerLeavesStatus ==
  ASSUME NEW trailer, trailer \in {NoHeaders, GrpcStatusOk}, NEW impl, LeavesStatus(impl), NEW invoked
  PROVE  LET ended == TrailerAtEnd(trailer, impl, invoked)
         IN /\ IsFiniteSet(DOMAIN ended) /\ ~Has(ended, "grpc-status-details-bin")
            /\ \A error : error.details = << >> =>
                 IsFiniteSet(DOMAIN SetTrailerStatus(ended, <<error>>))
<1> DEFINE ended == TrailerAtEnd(trailer, impl, invoked)
<1>1. DOMAIN trailer \in {{}, {"grpc-status"}} 
  BY EmptySequence DEF NoHeaders, GrpcStatusOk, Field, Set
<1>2. IsFiniteSet(DOMAIN trailer) /\ "grpc-status-details-bin" \notin DOMAIN trailer
  <2>1. IsFiniteSet({}) /\ IsFiniteSet({"grpc-status"})
    BY FS_EmptySet, FS_Singleton
  <2>2. QED
    BY <1>1, <2>1
<1>3. DOMAIN ended \in {DOMAIN trailer, DOMAIN trailer \cup DOMAIN impl.trailer}
  BY DEF TrailerAtEnd, SetAll
<1>4. IsFiniteSet(DOMAIN trailer \cup DOMAIN impl.trailer)
  BY <1>2, FS_Union DEF LeavesStatus
<1>5. IsFiniteSet(DOMAIN ended) /\ ~Has(ended, "grpc-status-details-bin")
  BY <1>2, <1>3, <1>4 DEF LeavesStatus, Has
<1> HIDE DEF ended
<1>6. ASSUME NEW error, error.details = << >>
      PROVE  IsFiniteSet(DOMAIN SetTrailerStatus(ended, <<error>>))
  <2>1. <<error>> # << >> /\ <<error>>[1] = error
    OBVIOUS
  <2>2. DOMAIN SetTrailerStatus(ended, <<error>>) \in
          {(DOMAIN ended \cup {"grpc-status"}) \cup {"grpc-message"},
           ((DOMAIN ended \cup {"grpc-status"}) \cup {"grpc-message"}) \cup {"grpc-status-details-bin"}}
    BY <2>1 DEF SetTrailerStatus, SetIf, Set
  <2>3. IsFiniteSet((DOMAIN ended \cup {"grpc-status"}) \cup {"grpc-message"})
    BY <1>5, FS_AddElement
  <2>4. QED
    BY <2>2, <2>3, FS_AddElement
<1>7. QED
  BY <1>5, <1>6 DEF ended

\* A unary handler of Connect answers with the status of the error.
LEMMA ConnectUnaryRefuses ==
  ASSUME NEW s, IsSequence(s.accept), NEW spec, NEW q, \A f \in DOMAIN q.header : IsSequence(q.header[f]),
         ~Available(q.header, "content-encoding", s.accept)
  PROVE  Refuses(HandleConnectUnary(s, spec, q))
<1> DEFINE type == ParseConnectType(Get(q.header, "content-type"))
           binary == type[1].binary
           context == CreateHandlerContext(Field("content-type", ConnectType(FALSE, binary)), NoHeaders)
           compression == CompressionNegotiate(s.accept, q.header, "content-encoding", "accept-encoding")
           invoked == InvokeImplementation(spec, q.header, UnaryInput(s, q, compression, binary))
           outputs == TransformSerializeEnvelope(invoked, binary, s.writeMaxBytes)
           failed == outputs.errors # << >>
           sent == TransformCompressEnvelope(
                     TransformCatch(outputs, <<Envelope({}, ErrorToJsonBytes(outputs.errors[1]))>>),
                     compression.response, s.compressMinBytes).items
           set == HeaderAtFirstChunk(context.header, spec, invoked)
           header == SetIf("compressed" \in sent[1].flags,
                           IF failed THEN UnaryErrorHeader(set, outputs.errors[1]) ELSE set,
                           "content-encoding", <<compression.response>>)
           muxed == TrailerMux(header, TrailerAtEnd(context.trailer, spec.impl, invoked))
           r == HandleConnectUnary(s, spec, q)
<1>1. \/ r = Refuse(UnsupportedMediaType) \/ r = Refuse(MethodNotAllowed)
      \/ r = Respond(IF failed THEN CodeToHttpStatus(outputs.errors[1].code) ELSE 200, muxed,
                     BareBody(sent[1].data), NoHeaders, invoked.given)
  BY Zenon DEF HandleConnectUnary
<1> HIDE DEF muxed, r, header, sent, set, context
<1>2. compression.errors # << >>
  <2>1. compression.errors = <<UnknownCompression("accept-encoding", s.accept)>>
    BY NegotiationFails
  <2> HIDE DEF compression
  <2>2. QED
    BY <2>1, SingletonSequence
<1> HIDE DEF compression
<1>3. LET input == UnaryInput(s, q, compression, binary)
      IN input.items = << >> /\ input.errors = compression.errors
  BY <1>2, NothingIsRead
<1> HIDE DEF binary
<1>4. (invoked.given = << >> \/ invoked.given[1].inputs = << >>) /\ invoked.items = << >>
      /\ invoked.errors # << >>
  BY <1>2, <1>3, InvokedWithNothing
<1> HIDE DEF invoked
<1>5. outputs.errors = invoked.errors
  BY <1>4, TransformedNothing
<1> HIDE DEF outputs
<1>6. failed /\ CodeToHttpStatus(outputs.errors[1].code) \in 400..599
  BY <1>4, <1>5, StatusOfError, SMTT(30)
<1>7. IsFields(NoHeaders)
  BY EmptySequence, SequenceFacts DEF IsFields, NoHeaders
<1>8. Refuses(Respond(CodeToHttpStatus(outputs.errors[1].code), muxed,
                      BareBody(sent[1].data), NoHeaders, invoked.given))
  BY <1>4, <1>6, <1>7 DEF Refuses, Respond, SaysError
<1>9. QED
  BY <1>1, <1>6, <1>8, RefusalsRefuse DEF r

\* An implementation that sees no message, and an error in place of what it returns
FailsUnseen(invoked, outputs, errors) ==
  /\ invoked.given = << >> \/ invoked.given[1].inputs = << >>
  /\ outputs.items = << >> /\ outputs.errors = errors

\* What the handlers of streams make of it
LEMMA NothingIsInvoked ==
  ASSUME NEW s, NEW q, NEW compression, compression.errors # << >>,
         NEW spec, NEW binary, NEW endFlag, NEW max,
         NEW invoked,
         invoked = InvokeImplementation(spec, q.header, Inputs(s, q, compression, binary, endFlag))
  PROVE  FailsUnseen(invoked, TransformSerializeEnvelope(invoked, binary, max), compression.errors)
<1> DEFINE input == Inputs(s, q, compression, binary, endFlag)
           outputs == TransformSerializeEnvelope(invoked, binary, max)
<1>1. input.items = << >> /\ input.errors = compression.errors
  BY NothingIsRead
<1> HIDE DEF input
<1>2. /\ invoked.given = << >> \/ invoked.given[1].inputs = << >>
      /\ invoked.items = << >> /\ invoked.errors = compression.errors
  <2>1. invoked = InvokeImplementation(spec, q.header, input)
    BY DEF input
  <2>2. QED
    BY <1>1, <2>1, InvokedWithNothing
<1>3. outputs.items = << >> /\ outputs.errors = invoked.errors
  BY <1>2, TransformedNothing
<1>4. QED
  BY <1>2, <1>3 DEF FailsUnseen

\* A stream of envelopes whose last one tells an error
LEMMA EnvelopeTells ==
  ASSUME NEW r, r.body.is = "envelopes", r.body.envelopes # << >>,
         NEW e, e = Last(r.body.envelopes),
         \/ "end" \in e.flags /\ EndStreamParse(Uncompressed(e.data)).value.errors # << >>
         \/ "trailer" \in e.flags /\ FindTrailerError(TrailerDeserialize(Uncompressed(e.data)).value) # << >>
  PROVE  SaysError(r)
BY Zenon DEF SaysError

\* The streaming handler of Connect tells the error in the end of its stream.
LEMMA ConnectStreamRefuses ==
  ASSUME NEW s, IsSequence(s.accept), NEW spec, NEW q, \A f \in DOMAIN q.header : IsSequence(q.header[f]),
         ~Available(q.header, "connect-content-encoding", s.accept)
  PROVE  Refuses(HandleConnectStream(s, spec, q))
<1> DEFINE type == ParseConnectType(Get(q.header, "content-type"))
           binary == type[1].binary
           compression == CompressionNegotiate(s.accept, q.header, "connect-content-encoding",
                                               "connect-accept-encoding")
           context == CreateHandlerContext(
                        SetIf(compression.response # "identity",
                              Field("content-type", ConnectType(TRUE, binary)),
                              "connect-content-encoding", <<compression.response>>), NoHeaders)
           invoked == InvokeImplementation(spec, q.header, Inputs(s, q, compression, binary, "end"))
           outputs == TransformSerializeEnvelope(invoked, binary, s.writeMaxBytes)
           end == [metadata |-> TrailerAtEnd(context.trailer, spec.impl, invoked), errors |-> outputs.errors]
           last == Envelope({"end"}, EndStreamSerialize(end))
           sent == TransformCompressEnvelope(TransformCatchFinally(outputs, <<last>>),
                                             compression.response, s.compressMinBytes)
           header == HeaderAtFirstChunk(context.header, spec, invoked)
           answered == Respond(200, header, Body(sent), NoHeaders, invoked.given)
           error == UnknownCompression("connect-accept-encoding", s.accept)
           r == HandleConnectStream(s, spec, q)
<1>1. r = Refuse(UnsupportedMediaType) \/ r = Refuse(MethodNotAllowed) \/ r = answered
  BY DEF HandleConnectStream
<1> HIDE DEF binary
<1>2. /\ invoked.given = << >> \/ invoked.given[1].inputs = << >>
      /\ outputs.items = << >> /\ outputs.errors = <<error>>
  <2>1. compression.errors = <<error>>
    BY NegotiationFails
  <2> HIDE DEF compression, error
  <2>2. compression.errors # << >>
    BY <2>1, SingletonSequence
  <2> HIDE DEF outputs
  <2>3. invoked = InvokeImplementation(spec, q.header, Inputs(s, q, compression, binary, "end"))
    OBVIOUS
  <2> HIDE DEF invoked
  <2>4. FailsUnseen(invoked, outputs, compression.errors)
    BY <2>2, <2>3, NothingIsInvoked DEF outputs
  <2>5. QED
    BY <2>1, <2>4 DEF FailsUnseen
<1> HIDE DEF compression, context, invoked, outputs, header, r
<1>3. EndStreamParse(EndStreamSerialize(end)).value.errors # << >>
  <2>1. Plainly(error)
    BY UnknownIsPlain
  <2> HIDE DEF error
  <2> DEFINE metadata == TrailerAtEnd(context.trailer, spec.impl, invoked)
  <2>2. end = [metadata |-> metadata, errors |-> <<error>>]
    BY <1>2
  <2> HIDE DEF end, metadata
  <2>3. EndStreamParse(EndStreamSerialize([metadata |-> metadata, errors |-> <<error>>])).value.errors # << >>
    BY <2>1, EndStreamTells DEF Plainly
  <2>4. QED
    BY <2>2, <2>3
<1> DEFINE e == Last(sent.items)
<1>4. sent.items # << >> /\ CompressedTo(e, last, compression.response)
  <2>1. TransformCatchFinally(outputs, <<last>>) = Stream(outputs.items \o <<last>>)
    BY DEF TransformCatchFinally
  <2>2. "compressed" \notin last.flags
    BY DEF Envelope
  <2>3. IsSequence(outputs.items) /\ AllUnflagged(outputs.items)
    BY <1>2, EmptySequence DEF AllUnflagged
  <2> HIDE DEF last
  <2>4. LET made == TransformCompressEnvelope(Stream(outputs.items \o <<last>>),
                                              compression.response, s.compressMinBytes)
        IN made.items # << >> /\ CompressedTo(Last(made.items), last, compression.response)
    BY <2>2, <2>3, LastIsEnd
  <2>5. QED
    BY <2>1, <2>4
<1>5. Uncompressed(e.data) = EndStreamSerialize(end) /\ "end" \in e.flags
  <2> HIDE DEF e, end
  <2> DEFINE json == EndStreamToJson(end.metadata, end.errors)
             content == [is |-> "json", json |-> json]
  <2>1. EndStreamSerialize(end) = Data(content, "json", 1)
    BY DEF EndStreamSerialize, JsonData
  <2> HIDE DEF content
  <2>2. CompressedTo(e, Envelope({"end"}, Data(content, "json", 1)), compression.response)
    BY <1>4, <2>1
  <2>3. Uncompressed(e.data) = Data(content, "json", 1) /\ {"end"} \subseteq e.flags
    BY <2>2, ArrivesDecompressed
  <2>4. QED
    BY <2>1, <2>3
<1> HIDE DEF e, end
<1>6. answered.body.is = "envelopes" /\ answered.body.envelopes = sent.items
  BY DEF Respond, Body, EncodeEnvelopes
<1>7. SaysError(answered)
  <2>1. e = Last(answered.body.envelopes)
    BY <1>6 DEF e
  <2> HIDE DEF answered, sent
  <2>2. QED
    BY <1>3, <1>4, <1>5, <1>6, <2>1, EnvelopeTells
<1>8. Refuses(answered)
  <2>1. IsFields(NoHeaders)
    BY EmptySequence, SequenceFacts DEF IsFields, NoHeaders
  <2>2. /\ DOMAIN answered = {"status", "header", "body", "trailer", "given"}
        /\ answered.trailer = NoHeaders /\ answered.given = invoked.given
    BY DEF Respond
  <2> HIDE DEF answered
  <2>3. QED
    BY <1>2, <1>7, <2>1, <2>2 DEF Refuses
<1>9. QED
  BY <1>1, <1>8, RefusalsRefuse DEF r

\* The handler of gRPC tells the error in its trailer.
LEMMA GrpcRefuses ==
  ASSUME NEW s, IsSequence(s.accept), NEW spec, LeavesStatus(spec.impl),
         NEW q, \A f \in DOMAIN q.header : IsSequence(q.header[f]),
         ~Available(q.header, "grpc-encoding", s.accept)
  PROVE  Refuses(HandleGrpc(s, spec, q))
<1> DEFINE type == ParseGrpcType(Get(q.header, "content-type"))
           binary == type[1].binary
           compression == CompressionNegotiate(s.accept, q.header, "grpc-encoding", "grpc-accept-encoding")
           context == CreateHandlerContext(
                        SetIf(compression.response # "identity", Field("content-type", GrpcType(binary)),
                              "grpc-encoding", <<compression.response>>), GrpcStatusOk)
           invoked == InvokeImplementation(spec, q.header, Inputs(s, q, compression, binary, "none"))
           outputs == TransformSerializeEnvelope(invoked, binary, s.writeMaxBytes)
           sent == TransformCompressEnvelope(outputs, compression.response, s.compressMinBytes)
           ended == TrailerAtEnd(GrpcStatusOk, spec.impl, invoked)
           header == HeaderAtFirstChunk(context.header, spec, invoked)
           trailer == IF sent.errors = << >> THEN ended ELSE SetTrailerStatus(ended, sent.errors)
           answered == Respond(200, header, Body(sent), trailer, invoked.given)
           error == UnknownCompression("grpc-accept-encoding", s.accept)
           r == HandleGrpc(s, spec, q)
<1>1. r = Refuse(UnsupportedMediaType) \/ r = Refuse(MethodNotAllowed) \/ r = answered
  <2>1. context.trailer = GrpcStatusOk
    BY DEF CreateHandlerContext
  <2>2. QED
    BY <2>1 DEF HandleGrpc
<1> HIDE DEF binary, context
<1>2. /\ invoked.given = << >> \/ invoked.given[1].inputs = << >>
      /\ outputs.items = << >> /\ outputs.errors = <<error>>
  <2>1. compression.errors = <<error>>
    BY NegotiationFails
  <2> HIDE DEF compression, error
  <2>2. compression.errors # << >>
    BY <2>1, SingletonSequence
  <2> HIDE DEF outputs
  <2>3. invoked = InvokeImplementation(spec, q.header, Inputs(s, q, compression, binary, "none"))
    OBVIOUS
  <2> HIDE DEF invoked
  <2>4. FailsUnseen(invoked, outputs, compression.errors)
    BY <2>2, <2>3, NothingIsInvoked DEF outputs
  <2>5. QED
    BY <2>1, <2>4 DEF FailsUnseen
<1> HIDE DEF compression, invoked, outputs, header, r
<1>3. sent.errors = <<error>>
  BY <1>2, TransformedNothing
<1> HIDE DEF sent
<1>4. Plainly(error)
  BY UnknownIsPlain
<1> HIDE DEF error
<1>5. trailer = SetTrailerStatus(ended, <<error>>)
  <2>1. sent.errors # << >>
    BY <1>3, SingletonSequence
  <2>2. QED
    BY <1>3, <2>1
<1>6. ~Has(ended, "grpc-status-details-bin")
  BY TrailerLeavesStatus
<1> HIDE DEF trailer, ended
<1>7. FindTrailerError(trailer) # << >>
  BY <1>4, <1>5, <1>6, StatusTells DEF Plainly
<1>8. IsFields(trailer)
  <2>1. \A h, f, v : IsFields(Set(h, f, v))
    BY DEF IsFields, Set
  <2>2. <<error>> # << >>
    BY SingletonSequence
  <2>3. \E h, f, v : trailer = Set(h, f, v)
    BY <1>5, <2>2, Zenon DEF SetTrailerStatus, SetIf
  <2>4. QED
    BY <2>1, <2>3
<1>9. Refuses(answered)
  <2>1. /\ DOMAIN answered = {"status", "header", "body", "trailer", "given"}
        /\ answered.trailer = trailer /\ answered.given = invoked.given
    BY DEF Respond
  <2> HIDE DEF answered
  <2>2. QED
    BY <1>2, <1>7, <1>8, <2>1 DEF Refuses, SaysError
<1>10. QED
  BY <1>1, <1>9, RefusalsRefuse DEF r

\* What is sent after nothing arrives as the last of the envelopes.
LEMMA EndArrives ==
  ASSUME NEW outputs, outputs.items = << >>, NEW flags, "compressed" \notin flags,
         NEW content, NEW format, NEW size, NEW data, data = Data(content, format, size),
         NEW compression, NEW minBytes,
         NEW sent,
         sent = TransformCompressEnvelope(TransformCatchFinally(outputs, <<Envelope(flags, data)>>),
                                          compression, minBytes)
  PROVE  /\ sent.items # << >>
         /\ Uncompressed(Last(sent.items).data) = data /\ flags \subseteq Last(sent.items).flags
<1> DEFINE last == Envelope(flags, data)
<1>1. TransformCatchFinally(outputs, <<last>>) = Stream(outputs.items \o <<last>>)
  BY DEF TransformCatchFinally
<1>2. "compressed" \notin last.flags
  BY DEF Envelope
<1>3. IsSequence(outputs.items) /\ AllUnflagged(outputs.items)
  BY EmptySequence DEF AllUnflagged
<1>4. sent.items # << >> /\ CompressedTo(Last(sent.items), last, compression)
  <2>1. sent = TransformCompressEnvelope(Stream(outputs.items \o <<last>>), compression, minBytes)
    BY <1>1
  <2> HIDE DEF last
  <2>2. QED
    BY <1>2, <1>3, <2>1, LastIsEnd
<1>5. CompressedTo(Last(sent.items), Envelope(flags, Data(content, format, size)), compression)
  BY <1>4
<1>6. QED
  BY <1>4, <1>5, ArrivesDecompressed

\* The handler of gRPC-web tells the error in the trailer at the end of its body.
LEMMA GrpcWebRefuses ==
  ASSUME NEW s, IsSequence(s.accept), NEW spec, LeavesStatus(spec.impl),
         NEW q, \A f \in DOMAIN q.header : IsSequence(q.header[f]),
         ~Available(q.header, "grpc-encoding", s.accept)
  PROVE  Refuses(HandleGrpcWeb(s, spec, q))
<1> DEFINE type == ParseGrpcWebType(Get(q.header, "content-type"))
           binary == type[1].binary
           compression == CompressionNegotiate(s.accept, q.header, "grpc-encoding", "grpc-accept-encoding")
           context == CreateHandlerContext(
                        SetIf(compression.response # "identity", Field("content-type", GrpcWebType(binary)),
                              "grpc-encoding", <<compression.response>>), GrpcStatusOk)
           invoked == InvokeImplementation(spec, q.header, Inputs(s, q, compression, binary, "trailer"))
           outputs == TransformSerializeEnvelope(invoked, binary, s.writeMaxBytes)
           trailer == TrailerAtEnd(GrpcStatusOk, spec.impl, invoked)
           ended == IF outputs.errors = << >> THEN trailer ELSE SetTrailerStatus(trailer, outputs.errors)
           lines == TrailerSerialize(ended)
           sent == TransformCompressEnvelope(
                     TransformCatchFinally(outputs, <<Envelope({"trailer"}, LinesData(lines))>>),
                     compression.response, s.compressMinBytes)
           header == HeaderAtFirstChunk(context.header, spec, invoked)
           answered == Respond(200, header, Body(sent), NoHeaders, invoked.given)
           error == UnknownCompression("grpc-accept-encoding", s.accept)
           r == HandleGrpcWeb(s, spec, q)
<1>1. r = Refuse(UnsupportedMediaType) \/ r = Refuse(MethodNotAllowed) \/ r = answered
  <2>1. context.trailer = GrpcStatusOk
    BY DEF CreateHandlerContext
  <2>2. QED
    BY <2>1 DEF HandleGrpcWeb
<1> HIDE DEF binary, context
<1>2. /\ invoked.given = << >> \/ invoked.given[1].inputs = << >>
      /\ outputs.items = << >> /\ outputs.errors = <<error>>
  <2>1. compression.errors = <<error>>
    BY NegotiationFails
  <2> HIDE DEF compression, error
  <2>2. compression.errors # << >>
    BY <2>1, SingletonSequence
  <2> HIDE DEF outputs
  <2>3. invoked = InvokeImplementation(spec, q.header, Inputs(s, q, compression, binary, "trailer"))
    OBVIOUS
  <2> HIDE DEF invoked
  <2>4. FailsUnseen(invoked, outputs, compression.errors)
    BY <2>2, <2>3, NothingIsInvoked DEF outputs
  <2>5. QED
    BY <2>1, <2>4 DEF FailsUnseen
<1> HIDE DEF compression, invoked, outputs, header, r
<1>3. Plainly(error)
  BY UnknownIsPlain
<1> HIDE DEF error
<1>4. ended = SetTrailerStatus(trailer, <<error>>)
  <2>1. outputs.errors # << >>
    BY <1>2, SingletonSequence
  <2>2. QED
    BY <1>2, <2>1
<1>5. ~Has(trailer, "grpc-status-details-bin") /\ IsFiniteSet(DOMAIN ended)
  BY <1>3, <1>4, TrailerLeavesStatus DEF Plainly
<1> HIDE DEF ended, trailer
<1>6. FindTrailerError(TrailerParse(lines)) # << >>
  <2> DEFINE parsed == TrailerParse(lines)
  <2>1. \A f \in {"grpc-status", "grpc-status-details-bin"} :
          (Has(parsed, f) <=> Has(ended, f)) /\ Get(parsed, f) = Get(ended, f)
    BY <1>5, FieldIsNamed, TrailerArrives
  <2> HIDE DEF parsed
  <2>2. QED
    BY <1>3, <1>4, <1>5, <2>1, StatusTells DEF Plainly, parsed
<1> HIDE DEF lines
<1> DEFINE e == Last(sent.items)
<1>7. sent.items # << >> /\ Uncompressed(e.data) = LinesData(lines) /\ "trailer" \in e.flags
  <2> DEFINE content == [is |-> "lines", lines |-> lines]
             data == LinesData(lines)
             flags == {"trailer"}
  <2>1. data = Data(content, "lines", 1)
    BY DEF LinesData
  <2>2. "compressed" \notin flags
    OBVIOUS
  <2>3. sent = TransformCompressEnvelope(TransformCatchFinally(outputs, <<Envelope(flags, data)>>),
                                         compression.response, s.compressMinBytes)
    OBVIOUS
  <2>4. "trailer" \in flags
    OBVIOUS
  <2> HIDE DEF content, data, flags, sent
  <2>5. /\ sent.items # << >>
        /\ Uncompressed(Last(sent.items).data) = data /\ flags \subseteq Last(sent.items).flags
    BY <1>2, <2>1, <2>2, <2>3, EndArrives
  <2>6. QED
    BY <2>4, <2>5 DEF data
<1>8. FindTrailerError(TrailerDeserialize(Uncompressed(e.data)).value) # << >>
  BY <1>6, <1>7 DEF TrailerDeserialize, Return, LinesData, Data
<1> HIDE DEF sent, e
<1>9. answered.body.is = "envelopes" /\ answered.body.envelopes = sent.items
  BY DEF Respond, Body, EncodeEnvelopes
<1>10. Refuses(answered)
  <2>1. IsFields(NoHeaders)
    BY EmptySequence, SequenceFacts DEF IsFields, NoHeaders
  <2>2. /\ DOMAIN answered = {"status", "header", "body", "trailer", "given"}
        /\ answered.trailer = NoHeaders /\ answered.given = invoked.given
    BY DEF Respond
  <2>3. e = Last(answered.body.envelopes)
    BY <1>9 DEF e
  <2> HIDE DEF answered
  <2>4. SaysError(answered)
    BY <1>7, <1>8, <1>9, <2>3, EnvelopeTells
  <2>5. QED
    BY <1>2, <2>1, <2>2, <2>4 DEF Refuses
<1>11. QED
  BY <1>1, <1>10, RefusalsRefuse DEF r

-----------------------------------------------------------------------------
(* Requests that a server does not understand                              *)

\* What is enough for UnderstoodOrRefused: a refusal, or an implementation that is
\* called, as the request asks for, with messages in an encoding the server knows
Sorted(c, q, r) ==
  \/ Refuses(r) /\ r.given = << >>
  \/ IsRight(c, q) /\ (KnowsEncoding(c, q) \/ Refuses(r))

\* A content type that is one of a set of names was sent.
LEMMA TypeIsSent ==
  ASSUME NEW q, ContentType(q) # NoName
  PROVE  LET sent == Get(q.header, "content-type")
         IN Len(sent) = 1 /\ sent[1] = ContentType(q)
<1> DEFINE sent == Get(q.header, "content-type")
<1>1. ContentType(q) = IF Len(sent) = 1 THEN q.header["content-type"][1] ELSE NoName
  BY Zenon DEF ContentType, NoName
<1>2. Len(sent) = 1
  BY <1>1
<1>3. Len(<< >>) # 1
  OBVIOUS
<1>4. Has(q.header, "content-type")
  BY <1>2, <1>3 DEF Get
<1>5. sent = q.header["content-type"]
  BY <1>4 DEF Get
<1>6. QED
  BY <1>1, <1>2, <1>5

\* The names of the content types
LEMMA TypesAreNamed ==
  NoName \notin DOMAIN GrpcWebTypes
<1>1. NoName \notin {"application/grpc-web", "application/grpc-web+proto", "application/grpc-web+json",
                     "application/grpc-web-text"}
  BY Zenon DEF NoName
<1>2. QED
  BY <1>1 DEF GrpcWebTypes

\* A handler that is found for a request answers it, or refuses it.
LEMMA HandlerSorts ==
  ASSUME NEW c \in Calls, NEW q, \A f \in DOMAIN q.header : IsSequence(q.header[f]),
         NEW protocol \in c.server.protocols, protocol \in {"grpc", "grpc-web", "connect"},
         NEW spec, spec = CreateImplSpec(c.kind, c.impl),
         ContentType(q) \in Fact(protocol, spec.kind).types, q.method = "POST",
         q.path = c.server.prefix \o <<"/", "method">>,
         ~(c.kind = "biDiStreaming" /\ q.httpVersion = "1.1"),
         NEW r, r = Handle(protocol, c.server, spec, q)
  PROVE  Sorted(c, q, r)
<1> DEFINE type == ContentType(q)
<1>1. IsSequence(c.server.accept) /\ LeavesStatus(spec.impl) /\ spec.kind = c.kind
  <2>1. spec.kind = c.kind
    BY DEF CreateImplSpec
  <2>2. QED
    BY <2>1, CallsAssumption, SpecLeavesStatus
<1>2. Speaks(c, protocol, type) => IsRight(c, q)
  BY DEF IsRight
<1>3. CASE protocol = "grpc"
  <2>1. type \in DOMAIN GrpcTypes
    BY <1>3 DEF Fact, GrpcFact
  <2>2. type \notin DOMAIN ConnectTypes
    BY <2>1 DEF GrpcTypes, ConnectTypes
  <2>3. r = HandleGrpc(c.server, spec, q)
    BY <1>3 DEF Handle
  <2>4. Speaks(c, protocol, type)
    BY <1>3, <2>1 DEF Speaks
  <2>5. KnowsEncoding(c, q) <=> Available(q.header, "grpc-encoding", c.server.accept)
    BY <2>2 DEF KnowsEncoding, Available
  <2>6. ~Available(q.header, "grpc-encoding", c.server.accept) => Refuses(r)
    <3> DEFINE s == c.server
    <3>1. IsSequence(s.accept) /\ r = HandleGrpc(s, spec, q)
      BY <1>1, <2>3
    <3> HIDE DEF s
    <3>2. ~Available(q.header, "grpc-encoding", s.accept) => Refuses(r)
      BY <1>1, <3>1, GrpcRefuses
    <3>3. QED
      BY <3>2 DEF s
  <2>7. QED
    BY <1>2, <2>4, <2>5, <2>6 DEF Sorted
<1>4. CASE protocol = "grpc-web"
  <2>1. type \in DOMAIN GrpcWebTypes
    BY <1>4 DEF Fact, GrpcWebFact
  <2>2. type \notin DOMAIN ConnectTypes
    BY <2>1 DEF GrpcWebTypes, ConnectTypes
  <2>3. r = HandleGrpcWeb(c.server, spec, q)
    BY <1>4 DEF Handle
  <2>4. CASE GrpcWebTypes[type].text
    <3> DEFINE sent == Get(q.header, "content-type")
               parsed == ParseGrpcWebType(sent)
    <3>1. Len(sent) = 1 /\ sent[1] = type
      BY <2>1, TypesAreNamed, TypeIsSent
    <3> HIDE DEF sent, type
    <3>2. parsed = <<GrpcWebTypes[type]>>
      BY <2>1, <3>1 DEF ParseGrpcWebType, ParseType
    <3>3. parsed[1] = GrpcWebTypes[type]
      BY <3>2
    <3>4. ~GrpcWebAccepts(parsed)
      BY <2>4, <3>3 DEF GrpcWebAccepts
    <3>5. r = Refuse(UnsupportedMediaType)
      BY <2>3, <3>4 DEF HandleGrpcWeb, sent
    <3>6. Refuse(UnsupportedMediaType).given = << >>
      BY DEF Refuse, Respond
    <3>7. QED
      BY <3>5, <3>6, RefusalsRefuse DEF Sorted
  <2>5. CASE ~GrpcWebTypes[type].text
    <3>1. Speaks(c, protocol, type)
      BY <1>4, <2>1, <2>5 DEF Speaks
    <3>2. KnowsEncoding(c, q) <=> Available(q.header, "grpc-encoding", c.server.accept)
      BY <2>2 DEF KnowsEncoding, Available
    <3>3. ~Available(q.header, "grpc-encoding", c.server.accept) => Refuses(r)
      <4> DEFINE s == c.server
      <4>1. IsSequence(s.accept) /\ r = HandleGrpcWeb(s, spec, q)
        BY <1>1, <2>3
      <4> HIDE DEF s
      <4>2. ~Available(q.header, "grpc-encoding", s.accept) => Refuses(r)
        BY <1>1, <4>1, GrpcWebRefuses
      <4>3. QED
        BY <4>2 DEF s
    <3>4. QED
      BY <1>2, <3>1, <3>2, <3>3 DEF Sorted
  <2>6. QED
    BY <2>4, <2>5
<1>5. CASE protocol = "connect"
  <2>1. type \in DOMAIN ConnectTypes /\ ConnectTypes[type].stream = IsStream(c)
    BY <1>1, <1>5 DEF Fact, ConnectFact, IsStream
  <2>2. Speaks(c, protocol, type)
    BY <1>5, <2>1 DEF Speaks
  <2> DEFINE field == ConnectEncoding(IsStream(c))
             s == c.server
  <2>3. KnowsEncoding(c, q) <=> Available(q.header, field, s.accept)
    BY <2>1 DEF KnowsEncoding, Available
  <2>4. CASE spec.kind = "unary"
    <3>1. r = HandleConnectUnary(s, spec, q)
      BY <1>5, <2>4 DEF Handle
    <3>2. field = "content-encoding"
      BY <1>1, <2>4 DEF ConnectEncoding, IsStream
    <3>3. IsSequence(s.accept)
      BY <1>1
    <3> HIDE DEF s, field
    <3>4. ~Available(q.header, "content-encoding", s.accept) => Refuses(r)
      BY <3>1, <3>3, ConnectUnaryRefuses
    <3>5. QED
      BY <1>2, <2>2, <2>3, <3>2, <3>4 DEF Sorted
  <2>5. CASE spec.kind # "unary"
    <3>1. r = HandleConnectStream(s, spec, q)
      BY <1>5, <2>5 DEF Handle
    <3>2. field = "connect-content-encoding"
      BY <1>1, <2>5 DEF ConnectEncoding, IsStream
    <3>3. IsSequence(s.accept)
      BY <1>1
    <3> HIDE DEF s, field
    <3>4. ~Available(q.header, "connect-content-encoding", s.accept) => Refuses(r)
      BY <3>1, <3>3, ConnectStreamRefuses
    <3>5. QED
      BY <1>2, <2>2, <2>3, <3>2, <3>4 DEF Sorted
  <2>6. QED
    BY <2>4, <2>5
<1>6. QED
  BY <1>3, <1>4, <1>5

\* The protocols of a handler are among those of its options.
LEMMA ProtocolsAreSupported ==
  ASSUME NEW s, ~InternalHandlerOptions(s).raised,
         NEW protocols, protocols = InternalHandlerOptions(s).value
  PROVE  /\ IsSequence(protocols)
         /\ \A n \in DOMAIN protocols :
              protocols[n] \in s.protocols /\ protocols[n] \in {"grpc", "grpc-web", "connect"}
<1> DEFINE known == <<"grpc", "grpc-web", "connect">>
           places == {n \in DOMAIN known : known[n] \in s.protocols}
           options == InternalHandlerOptions(s)
           error == SimpleError("cannot create handler", Code.InvalidArgument)
<1>1. options = IF Selected(known, places) = << >> \/ ~ValidLimits(s)
                  THEN Raise(error) ELSE Return(Selected(known, places))
  BY DEF InternalHandlerOptions
<1> HIDE DEF options, error
<1>2. options = Return(Selected(known, places))
  <2>1. ~options.raised
    BY DEF options
  <2>2. QED
    BY <1>1, <2>1, Outcomes
<1>3. protocols = Selected(known, places)
  BY <1>2 DEF options, Return
<1>4. IsSequence(known)
  BY DEF IsSequence, ToSet
<1>5. \A n \in DOMAIN known : known[n] \in {"grpc", "grpc-web", "connect"}
  OBVIOUS
<1>6. \A n \in DOMAIN known \cap places : known[n] \in s.protocols
  OBVIOUS
<1> HIDE DEF known, places
<1>7. /\ IsSequence(protocols)
      /\ \A k \in DOMAIN protocols : \E n \in DOMAIN known \cap places : protocols[k] = known[n]
  BY <1>3, <1>4, SelectedElements, SMTT(30)
<1>8. QED
  BY <1>5, <1>6, <1>7

Closing == [Refuse(VersionNotSupported) EXCEPT !.header = Field("connection", <<"close">>)]
Refusals == {Refuse(NotFound), Refuse(MethodNotAllowed), Refuse(UnsupportedMediaType), Closing}

\* The response of a handler that fits the type of a request
IsFound(s, spec, q, r, protocol) ==
  /\ q.path = s.prefix \o <<"/", "method">> /\ q.method = "POST"
  /\ ~(spec.kind = "biDiStreaming" /\ q.httpVersion = "1.1")
  /\ protocol \in s.protocols /\ protocol \in {"grpc", "grpc-web", "connect"}
  /\ ContentType(q) \in Fact(protocol, spec.kind).types
  /\ r = Handle(protocol, s, spec, q)

\* A handler is found for the type and the method of a request, or it is refused.
LEMMA HandlerIsFound ==
  ASSUME NEW s, ~InternalHandlerOptions(s).raised, NEW spec, NEW q,
         NEW r, r = MergeHandlers(s, spec, q)
  PROVE  r \in Refusals \/ \E protocol : IsFound(s, spec, q, r, protocol)
<1> DEFINE protocols == InternalHandlerOptions(s).value
           IsTyped(p) == ContentType(q) \in Fact(p, spec.kind).types
           Matches(p) == q.method \in Fact(p, spec.kind).methods
           typed == Selected(protocols, {n \in DOMAIN protocols : IsTyped(protocols[n])})
           matching == Selected(typed, {n \in DOMAIN typed : Matches(typed[n])})
           halfDuplex == spec.kind = "biDiStreaming" /\ q.httpVersion = "1.1"
<1>1. \/ r \in Refusals
      \/ /\ q.path = s.prefix \o CreateMethodUrl(<<"/">>, "method")
         /\ ~halfDuplex /\ matching # << >> /\ r = Handle(matching[1], s, spec, q)
  BY Zenon DEF MergeHandlers, ProtocolNegotiatingHandler, Refusals, Closing
<1>2. CASE /\ q.path = s.prefix \o CreateMethodUrl(<<"/">>, "method")
           /\ ~halfDuplex /\ matching # << >> /\ r = Handle(matching[1], s, spec, q)
  <2> DEFINE protocol == matching[1]
  <2>1. /\ IsSequence(protocols)
        /\ \A n \in DOMAIN protocols :
             protocols[n] \in s.protocols /\ protocols[n] \in {"grpc", "grpc-web", "connect"}
    BY ProtocolsAreSupported
  <2> HIDE DEF protocols
  <2> DEFINE placesTyped == {n \in DOMAIN protocols : IsTyped(protocols[n])}
             placesMatching == {n \in DOMAIN typed : Matches(typed[n])}
  <2>2. \A n \in DOMAIN protocols \cap placesTyped : IsTyped(protocols[n])
    OBVIOUS
  <2>3. \A n \in DOMAIN typed \cap placesMatching : Matches(typed[n])
    OBVIOUS
  <2>4. typed = Selected(protocols, placesTyped) /\ matching = Selected(typed, placesMatching)
    OBVIOUS
  <2> HIDE DEF placesTyped, placesMatching, typed, matching, IsTyped, Matches
  <2>5. /\ IsSequence(typed)
        /\ \A k \in DOMAIN typed : \E n \in DOMAIN protocols \cap placesTyped : typed[k] = protocols[n]
    BY <2>1, <2>4, SelectedElements
  <2>6. /\ IsSequence(matching)
        /\ \A k \in DOMAIN matching : \E n \in DOMAIN typed \cap placesMatching : matching[k] = typed[n]
    BY <2>4, <2>5, SelectedElements
  <2>7. 1 \in DOMAIN matching
    BY <1>2, <2>6, SequenceFacts
  <2>8. /\ protocol \in s.protocols /\ protocol \in {"grpc", "grpc-web", "connect"}
        /\ IsTyped(protocol) /\ Matches(protocol)
    BY <2>1, <2>2, <2>3, <2>5, <2>6, <2>7
  <2>9. q.method = "POST"
    BY <2>8 DEF Matches, Fact, GrpcFact, GrpcWebFact, ConnectFact
  <2>10. q.path = s.prefix \o <<"/", "method">>
    BY <1>2, MethodPath
  <2>11. ContentType(q) \in Fact(protocol, spec.kind).types
    BY <2>8 DEF IsTyped
  <2> HIDE DEF protocol
  <2>12. r = Handle(protocol, s, spec, q)
    BY <1>2 DEF protocol
  <2>13. QED
    BY <1>2, <2>8, <2>9, <2>10, <2>11, <2>12 DEF IsFound
<1>3. QED
  BY <1>1, <1>2, ZenonT(60)

\* The one that is found answers it, or refuses it.
LEMMA NegotiationSorts ==
  ASSUME NEW c \in Calls, ~InternalHandlerOptions(c.server).raised,
         NEW q, \A f \in DOMAIN q.header : IsSequence(q.header[f]),
         NEW spec, spec = CreateImplSpec(c.kind, c.impl),
         NEW r, r = MergeHandlers(c.server, spec, q)
  PROVE  Sorted(c, q, r)
<1>1. r \in Refusals \/ \E protocol : IsFound(c.server, spec, q, r, protocol)
  BY HandlerIsFound
<1>2. CASE r \in Refusals
  <2>1. NotFound \in 400..599 /\ VersionNotSupported \in 400..599
        /\ MethodNotAllowed \in 400..599 /\ UnsupportedMediaType \in 400..599
    BY DEF NotFound, VersionNotSupported, MethodNotAllowed, UnsupportedMediaType
  <2> DEFINE Declines(answered) == Refuses(answered) /\ answered.given = << >>
  <2>2. ASSUME NEW status \in 400..599, NEW header
        PROVE  /\ Declines(Refuse(status))
               /\ Declines([Refuse(status) EXCEPT !.header = header])
    BY RefusalRefuses, ZenonT(60)
  <2> HIDE DEF Declines
  <2>3. Declines(Closing)
    BY <2>1, <2>2, ZenonT(60) DEF Closing
  <2>4. Declines(r)
    BY <1>2, <2>1, <2>2, <2>3, ZenonT(60) DEF Refusals
  <2>5. QED
    BY <2>4 DEF Declines, Sorted
<1>3. CASE \E protocol : IsFound(c.server, spec, q, r, protocol)
  <2>1. PICK protocol : IsFound(c.server, spec, q, r, protocol)
    BY <1>3
  <2>2. ~(c.kind = "biDiStreaming" /\ q.httpVersion = "1.1")
    BY <2>1 DEF IsFound, CreateImplSpec
  <2>3. QED
    BY <2>1, <2>2, HandlerSorts DEF IsFound
<1>4. QED
  BY <1>1, <1>2, <1>3

\* What the universal request of Node.js leaves out tells nothing of the type or the
\* encoding.
LEMMA UniversalRequestAsks ==
  ASSUME NEW c \in Calls, NEW q \in Foreign, NEW asked, asked = UniversalRequestFromNode(q)
  PROVE  /\ IsRight(c, asked) <=> IsRight(c, q)
         /\ KnowsEncoding(c, asked) <=> KnowsEncoding(c, q)
         /\ \A f \in DOMAIN asked.header : IsSequence(asked.header[f])
<1> DEFINE pseudo == {f \in DOMAIN q.header : IsPseudo(f)}
<1>1. /\ DOMAIN q = {"httpVersion", "method", "path", "header", "body"}
      /\ \A f \in DOMAIN q.header : IsSequence(q.header[f])
  BY WireAssumption
<1>2. asked = [q EXCEPT !.header = Without(@, pseudo)]
  BY DEF UniversalRequestFromNode, NodeHeaderToWebHeader
<1>3. /\ asked.header = Without(q.header, pseudo)
      /\ asked.method = q.method /\ asked.path = q.path /\ asked.httpVersion = q.httpVersion
  BY <1>1, <1>2
<1>4. \A f \in {"content-type", "content-encoding", "connect-content-encoding", "grpc-encoding"} :
        f \notin pseudo
  BY FieldAssumption
<1>5. \A f \in {"content-type", "content-encoding", "connect-content-encoding", "grpc-encoding"} :
        Get(asked.header, f) = Get(q.header, f)
  BY <1>3, <1>4, WithoutHeader
<1>6. \A f \in DOMAIN asked.header : f \in DOMAIN q.header /\ asked.header[f] = q.header[f]
  BY <1>3 DEF Without, Restrict
<1> HIDE DEF pseudo
<1>7. ContentType(asked) = ContentType(q)
  <2> DEFINE TypeOf(header) == IF Len(Get(header, "content-type")) = 1
                                 THEN header["content-type"][1] ELSE NoName
  <2>1. ContentType(asked) = TypeOf(asked.header) /\ ContentType(q) = TypeOf(q.header)
    BY Zenon DEF ContentType, NoName
  <2>2. Get(asked.header, "content-type") = Get(q.header, "content-type")
    BY <1>5
  <2>3. Len(<< >>) # 1
    OBVIOUS
  <2>4. \A header : Len(Get(header, "content-type")) = 1 =>
                      Get(header, "content-type") = header["content-type"]
    BY <2>3 DEF Get
  <2>5. TypeOf(asked.header) = TypeOf(q.header)
    BY <2>2, <2>4
  <2>6. QED
    BY <2>1, <2>5
<1>8. IsRight(c, asked) <=> IsRight(c, q)
  BY <1>3, <1>7 DEF IsRight
<1>9. KnowsEncoding(c, asked) <=> KnowsEncoding(c, q)
  BY <1>5, <1>7 DEF KnowsEncoding, ConnectEncoding
<1>10. QED
  BY <1>1, <1>6, <1>8, <1>9

\* What the response of Node.js keeps of a refusal
LEMMA UniversalResponseRefuses ==
  ASSUME NEW refusal, Refuses(refusal), NEW pseudo, NEW r, r = UniversalResponseToNode(refusal, pseudo)
  PROVE  r.given = refusal.given /\ SaysError(r)
<1>1. DOMAIN refusal = {"status", "header", "body", "trailer", "given"} /\ IsFields(refusal.trailer)
  BY DEF Refuses
<1> DEFINE header == WebHeaderToNodeHeaders(refusal.header, pseudo)
           trailer == WebHeaderToNodeHeaders(refusal.trailer, NoHeaders)
<1>2. r = [refusal EXCEPT !.header = header, !.trailer = trailer]
  BY DEF UniversalResponseToNode
<1>3. trailer = refusal.trailer
  <2> DEFINE fields == refusal.trailer
  <2>1. DOMAIN NoHeaders = {}
    BY EmptySequence DEF NoHeaders
  <2>2. trailer = [f \in DOMAIN fields |-> fields[f]]
    BY <2>1 DEF WebHeaderToNodeHeaders, SetAll, Has
  <2>3. QED
    BY <1>1, <2>2 DEF IsFields
<1> HIDE DEF header, trailer
<1>4. r.status = refusal.status /\ r.body = refusal.body /\ r.given = refusal.given
      /\ r.trailer = refusal.trailer
  BY <1>1, <1>2, <1>3
<1>5. SaysError(r) <=> SaysError(refusal)
  BY <1>4 DEF SaysError
<1>6. QED
  BY <1>4, <1>5 DEF Refuses

\* What a server answers to a foreign request: UnderstoodOrRefused is said of it.
LEMMA ForeignIsSorted ==
  ASSUME NEW c \in Calls, ~InternalHandlerOptions(c.server).raised, NEW q \in Foreign,
         NEW r, r = NodeHandler(c.server, CreateImplSpec(c.kind, c.impl), q)
  PROVE  /\ r.given # << >> => IsRight(c, q)
         /\ r.given # << >> /\ r.given[1].inputs # << >> => KnowsEncoding(c, q)
         /\ ~IsRight(c, q) \/ ~KnowsEncoding(c, q) => SaysError(r)
<1> DEFINE spec == CreateImplSpec(c.kind, c.impl)
           asked == UniversalRequestFromNode(q)
           answered == MergeHandlers(c.server, spec, asked)
           pseudo == IF q.httpVersion = "2" THEN Field(":status", <<"status">>) ELSE NoHeaders
<1>1. /\ IsRight(c, asked) <=> IsRight(c, q)
      /\ KnowsEncoding(c, asked) <=> KnowsEncoding(c, q)
      /\ \A f \in DOMAIN asked.header : IsSequence(asked.header[f])
  BY UniversalRequestAsks
<1>2. r = UniversalResponseToNode(answered, pseudo)
  BY DEF NodeHandler
<1> HIDE DEF asked, spec, pseudo
<1>3. Sorted(c, asked, answered)
  <2>1. spec = CreateImplSpec(c.kind, c.impl)
    BY DEF spec
  <2>2. QED
    BY <1>1, <2>1, NegotiationSorts
<1> HIDE DEF answered
<1>4. CASE Refuses(answered) /\ answered.given = << >>
  <2>1. r.given = << >> /\ SaysError(r)
    BY <1>2, <1>4, UniversalResponseRefuses
  <2>2. QED
    BY <2>1
<1>5. CASE IsRight(c, asked) /\ KnowsEncoding(c, asked)
  BY <1>1, <1>5
<1>6. CASE IsRight(c, asked) /\ Refuses(answered)
  <2>1. r.given = answered.given /\ SaysError(r)
    BY <1>2, <1>6, UniversalResponseRefuses
  <2>2. answered.given = << >> \/ answered.given[1].inputs = << >>
    BY <1>6 DEF Refuses
  <2>3. QED
    BY <1>1, <1>6, <2>1, <2>2
<1>7. QED
  BY <1>3, <1>4, <1>5, <1>6 DEF Sorted

\* UnderstoodOrRefused, and what a server has before it when it answers a foreign
\* request
ForeignInv ==
  /\ pc = "foreign" => request[1] \in Foreign /\ ~InternalHandlerOptions(call.server).raised
  /\ UnderstoodOrRefused

\* Each step keeps it.
LEMMA ForeignStep ==
  ASSUME Inv, ForeignInv, [Next]_vars
  PROVE  ForeignInv'
<1>1. CASE Serve /\ pc = "foreign"
  <2> DEFINE made == NodeHandler(call.server, CreateImplSpec(call.kind, call.impl), request[1])
  <2>1. pc' = "done" /\ response' = <<made>> /\ request' = request /\ call' = call
    BY <1>1 DEF Serve
  <2>2. call \in Calls /\ request[1] \in Foreign /\ ~InternalHandlerOptions(call.server).raised
    BY <1>1 DEF Inv, ForeignInv
  <2>3. /\ made.given # << >> => IsRight(call, request[1])
        /\ made.given # << >> /\ made.given[1].inputs # << >> => KnowsEncoding(call, request[1])
        /\ ~IsRight(call, request[1]) \/ ~KnowsEncoding(call, request[1]) => SaysError(made)
    BY <2>2, ForeignIsSorted
  <2> HIDE DEF made
  <2>4. response'[1] = made
    BY <2>1
  <2>5. UnderstoodOrRefused'
    BY <2>1, <2>3, <2>4 DEF UnderstoodOrRefused
  <2>6. QED
    BY <2>1, <2>5 DEF ForeignInv
<1>2. CASE Serve /\ pc = "sent"
  BY <1>2 DEF Serve, ForeignInv, UnderstoodOrRefused
<1>3. CASE ForeignSends
  <2>1. /\ pc' = "foreign" /\ call' = call /\ ~InternalHandlerOptions(call.server).raised
        /\ \E q \in Foreign : request' = <<q>>
    BY <1>3 DEF ForeignSends
  <2>2. request'[1] \in Foreign
    BY <2>1
  <2>3. QED
    BY <2>1, <2>2 DEF ForeignInv, UnderstoodOrRefused
<1>4. CASE Send
  <2>1. pc' = "sent" \/ \E a : pc' = "done" /\ answer' = <<a>>
    BY <1>4, Zenon DEF Send, Settle
  <2>2. pc' # "foreign" /\ ~(pc' = "done" /\ answer' = << >>)
    BY <2>1, SingletonSequence
  <2>3. QED
    BY <2>2 DEF ForeignInv, UnderstoodOrRefused
<1>5. CASE Proxy
  BY <1>5 DEF Proxy, ForeignInv, UnderstoodOrRefused
<1>6. CASE ConnectionFails \/ Read
  <2>1. \E a : pc' = "done" /\ answer' = <<a>>
    BY <1>6, Zenon DEF ConnectionFails, Read, Settle
  <2>2. pc' = "done" /\ answer' # << >>
    BY <2>1, SingletonSequence
  <2>3. QED
    BY <2>2 DEF ForeignInv, UnderstoodOrRefused
<1>7. CASE UNCHANGED vars
  BY <1>7 DEF vars, ForeignInv, UnderstoodOrRefused
<1>8. QED
  <2>1. Serve => pc \in {"sent", "foreign"}
    BY DEF Serve
  <2>2. QED
    BY <1>1, <1>2, <1>3, <1>4, <1>5, <1>6, <1>7, <2>1 DEF Next

\* A request that another client sends reaches an implementation only if the server
\* speaks its protocol and its method, path and HTTP version are right, with messages
\* only if the server knows their encoding; and otherwise its client is told.
THEOREM RequestsAreUnderstood == Spec => []UnderstoodOrRefused
<1>1. Init => ForeignInv
  BY DEF Init, ForeignInv, UnderstoodOrRefused
<1>2. Inv /\ ForeignInv /\ [Next]_vars => ForeignInv'
  BY ForeignStep
<1>3. ForeignInv => UnderstoodOrRefused
  BY DEF ForeignInv
<1>4. QED
  BY <1>1, <1>2, <1>3, Invariance, PTL DEF Spec

-----------------------------------------------------------------------------
(* What is said arrives: codes, messages and errors                        *)

\* No two codes have the same name, or the same number.
LEMMA CodesDiffer ==
  /\ DOMAIN Code = DOMAIN Snake
  /\ \A m, n \in DOMAIN Code : Code[m] = Code[n] => m = n
  /\ \A m, n \in DOMAIN Code : Snake[m] = Snake[n] => m = n
<1>1. DOMAIN Code = DOMAIN Snake
  BY DEF Code, Snake
<1>2. \A m, n \in DOMAIN Code : Code[m] = Code[n] => m = n
  BY DEF Code
<1>3. \A m, n \in DOMAIN Snake : Snake[m] = Snake[n] => m = n
  BY DEF Snake
<1>4. QED
  BY <1>1, <1>2, <1>3

\* codeFromString() is the inverse of codeToString(), in both packages.
THEOREM CodesArrive ==
  \A code \in CodeValues :
    /\ CodeFromString(CodeToString(code)) = code
    /\ LegacyCodeFromString(CodeToString(code)) = code
<1>1. \A n \in DOMAIN Code : CodeToString(Code[n]) = Snake[n] /\ LegacyCodeToString(Code[n]) = Snake[n]
  <2>1. TAKE n \in DOMAIN Code
  <2>2. (CHOOSE name \in DOMAIN Code : Code[name] = Code[n]) = n
    <3> HIDE DEF Code
    <3>1. QED
      BY CodesDiffer
  <2>3. QED
    BY <2>2 DEF CodeToString, LegacyCodeToString, LegacyCode
<1>2. \A c \in CodeValues : \E n \in DOMAIN Code : c = Code[n]
  BY DEF CodeValues, Range
<1>3. \A c, d \in CodeValues : CodeToString(c) = CodeToString(d) => c = d
  BY <1>1, <1>2, CodesDiffer
<1>4. \A c \in CodeValues : LegacyCodeToString(c) = CodeToString(c)
  BY <1>1, <1>2
<1>5. TAKE code \in CodeValues
<1>6. CodeFromString(CodeToString(code)) = code
  <2>1. CodeToString(code) \in DOMAIN StringToCode
    BY DEF StringToCode
  <2>2. StringToCode[CodeToString(code)] = CHOOSE c \in CodeValues : CodeToString(c) = CodeToString(code)
    BY DEF StringToCode
  <2>3. (CHOOSE c \in CodeValues : CodeToString(c) = CodeToString(code)) = code
    BY <1>3
  <2>4. QED
    BY <2>1, <2>2, <2>3 DEF CodeFromString
<1>7. LegacyCodeFromString(CodeToString(code)) = code
  <2> DEFINE codes == {c \in Range(LegacyCode) : LegacyCodeToString(c) = CodeToString(code)}
  <2>1. codes = {code}
    BY <1>3, <1>4 DEF CodeValues, LegacyCode
  <2>2. LegacyCodeFromString(CodeToString(code)) = IF codes = {} THEN 0 ELSE CHOOSE c \in codes : TRUE
    BY DEF LegacyCodeFromString
  <2> HIDE DEF codes
  <2>3. codes # {} /\ \A c \in codes : c = code
    BY <2>1
  <2>4. QED
    BY <2>2, <2>3
<1>8. QED
  BY <1>6, <1>7

\* A detail is of a type and has a value; its JSON is an object or not, or there is none.
IsDetail(detail) ==
  /\ NoString \notin {detail.type, detail.value}
  /\ detail.json \in {"object", "scalar", "throws", Absent}
  /\ detail.json = "throws" => detail.is = "message"

\* An error that an implementation may fail with
IsError(error) ==
  /\ error.code \in CodeValues
  /\ error.message \notin {Absent, NoString}
  /\ \A n \in DOMAIN error.details : IsDetail(error.details[n])

\* An error got says of its cause what was said of it.
SaysOf(got, error) ==
  /\ got.code = error.code
  /\ got.message = error.message
  /\ DOMAIN got.details = DOMAIN error.details
  /\ \A n \in DOMAIN error.details :
       got.details[n].type = error.details[n].type /\ got.details[n].value = error.details[n].value

\* What is written of an error as JSON
LEMMA ErrorWritten ==
  ASSUME NEW error, IsError(error), NEW json, json = ErrorToJson(error)
  PROVE  /\ json.is = "object" /\ json.code = CodeToString(error.code)
         /\ json.message = IF error.message = NoName THEN Absent ELSE error.message
         /\ json.msg = Absent
         /\ DOMAIN json.details = DOMAIN error.details
         /\ \A n \in DOMAIN error.details :
              /\ json.details[n].type = error.details[n].type /\ json.details[n].type # NoString
              /\ json.details[n].value = error.details[n].value /\ json.details[n].value # NoString
              /\ DetailParses(json.details[n]) <=> error.details[n].json # "scalar"
<1>1. json.is = "object" /\ json.code = CodeToString(error.code) /\ json.msg = Absent
  BY Zenon DEF ErrorToJson
<1>2. json.message = IF error.message = NoName THEN Absent ELSE error.message
  BY Zenon DEF ErrorToJson, NoName
<1>3. json.details = [n \in DOMAIN error.details |-> DetailToJson(error.details[n])]
  BY Zenon DEF ErrorToJson
<1>4. ASSUME NEW n \in DOMAIN error.details
      PROVE  /\ json.details[n].type = error.details[n].type /\ json.details[n].type # NoString
             /\ json.details[n].value = error.details[n].value /\ json.details[n].value # NoString
             /\ DetailParses(json.details[n]) <=> error.details[n].json # "scalar"
  <2> DEFINE detail == error.details[n]
  <2>1. json.details[n] = DetailToJson(detail) /\ IsDetail(detail)
    BY <1>3 DEF IsError
  <2> HIDE DEF detail
  <2>2. /\ DetailToJson(detail).type = detail.type /\ DetailToJson(detail).value = detail.value
        /\ DetailToJson(detail).debug =
             IF detail.is = "message" /\ detail.json = "throws" THEN Absent ELSE detail.json
    BY DEF DetailToJson
  <2>3. DetailToJson(detail).debug \in {Absent, "object"} <=> detail.json # "scalar"
    BY <2>1, <2>2 DEF IsDetail, Absent
  <2>4. detail.type # NoString /\ detail.value # NoString
    BY <2>1 DEF IsDetail
  <2>5. DetailParses(DetailToJson(detail)) <=> detail.json # "scalar"
    BY <2>2, <2>3, <2>4 DEF DetailParses
  <2>6. QED
    BY <2>1, <2>2, <2>4, <2>5 DEF detail
<1>5. QED
  BY <1>1, <1>2, <1>3, <1>4

\* The error that a name, a text and details are read as
LEMMA SaidAgain ==
  ASSUME NEW error, IsError(error), NEW json, json = ErrorToJson(error), NEW metadata, NEW code,
         code = error.code,
         NEW got,
         got = NewError(IF json.message = Absent THEN NoName ELSE json.message, code, metadata,
                        [n \in DOMAIN json.details |-> DetailFromJson(json.details[n])])
  PROVE  SaysOf(got, error) /\ got.metadata = metadata
<1> DEFINE details == [n \in DOMAIN json.details |-> DetailFromJson(json.details[n])]
<1>1. got.code = error.code /\ got.metadata = metadata /\ got.details = details
      /\ got.message = IF json.message = Absent THEN NoName ELSE json.message
  BY Zenon DEF NewError
<1>2. got.message = error.message
  <2>1. json.message = IF error.message = NoName THEN Absent ELSE error.message
    BY ErrorWritten, Zenon
  <2>2. error.message # Absent
    BY DEF IsError
  <2>3. CASE error.message = NoName
    BY <1>1, <2>1, <2>3, Zenon
  <2>4. CASE error.message # NoName
    <3>1. json.message = error.message
      BY <2>1, <2>4, Zenon
    <3>2. QED
      BY <1>1, <2>2, <3>1, Zenon
  <2>5. QED
    BY <2>3, <2>4, Zenon
<1>3. DOMAIN details = DOMAIN error.details
      /\ \A n \in DOMAIN error.details :
           details[n].type = error.details[n].type /\ details[n].value = error.details[n].value
  BY ErrorWritten DEF DetailFromJson
<1>4. QED
  <2> HIDE DEF details
  <2>1. QED
    BY <1>1, <1>2, <1>3 DEF SaysOf

\* errorFromJson() raises what errorToJson() has written if, and only if, the JSON of a
\* detail is no object, and the function of the legacy package never does; other than
\* that, the error that is read has the code, the message and the details of the one
\* that was written.
THEOREM ErrorsArriveAsJson ==
  ASSUME NEW error, IsError(error), NEW metadata,
         NEW read, read = ErrorFromJson(ErrorToJson(error), metadata),
         NEW legacy, legacy = LegacyErrorFromJson(ErrorToJson(error), metadata)
  PROVE  /\ read.raised <=> Scalar(error)
         /\ ~read.raised => SaysOf(read.value, error) /\ read.value.metadata = metadata
         /\ ~legacy.raised /\ SaysOf(legacy.value, error) /\ legacy.value.metadata = metadata
<1> DEFINE json == ErrorToJson(error)
           text == IF json.is = "object" /\ json.message = Absent THEN json.msg ELSE json.message
           Said(code) == NewError(IF json.message = Absent THEN NoName ELSE json.message, code, metadata,
                                  [n \in DOMAIN json.details |-> DetailFromJson(json.details[n])])
           bad == \/ json.is # "object" \/ CodeFromString(json.code) = 0 \/ json.message = NoString
                  \/ \E n \in DOMAIN json.details : ~DetailParses(json.details[n])
           wrong == \/ json.is # "object" \/ LegacyCodeFromString(json.code) = 0 \/ text = NoString
                    \/ \E n \in DOMAIN json.details :
                         NoString \in {json.details[n].type, json.details[n].value}
<1>1. read = IF bad THEN Raise(ParseError) ELSE Return(Said(CodeFromString(json.code)))
  BY Zenon DEF ErrorFromJson, NoName
<1>2. legacy = IF wrong THEN Raise(LegacyParseError)
               ELSE Return(NewError(IF text = Absent THEN NoName ELSE text, LegacyCodeFromString(json.code),
                                    metadata, [n \in DOMAIN json.details |-> DetailFromJson(json.details[n])]))
  BY Zenon DEF LegacyErrorFromJson, NoName
<1>3. /\ json.is = "object" /\ json.code = CodeToString(error.code) /\ json.msg = Absent
      /\ json.message = IF error.message = NoName THEN Absent ELSE error.message
      /\ DOMAIN json.details = DOMAIN error.details
      /\ \A n \in DOMAIN error.details :
           /\ json.details[n].type # NoString /\ json.details[n].value # NoString
           /\ DetailParses(json.details[n]) <=> error.details[n].json # "scalar"
  BY ErrorWritten
<1>4. \A got : (\E code : code = error.code /\ got = Said(code)) => SaysOf(got, error) /\ got.metadata = metadata
  BY SaidAgain
<1>5. CodeFromString(json.code) = error.code /\ LegacyCodeFromString(json.code) = error.code /\ error.code # 0
  <2>1. error.code \in CodeValues
    BY DEF IsError
  <2>2. error.code # 0
    BY <2>1 DEF CodeValues, Code, Range
  <2>3. QED
    BY <1>3, <2>1, <2>2, CodesArrive
<1>6. json.message # NoString
  <2>1. error.message # NoString /\ Absent # NoString
    BY DEF IsError, Absent, NoString
  <2>2. QED
    BY <1>3, <2>1, Zenon
<1>7. text = json.message
  BY <1>3, Zenon
<1> HIDE DEF json, text
<1>8. bad <=> Scalar(error)
  BY <1>3, <1>5, <1>6 DEF Scalar
<1>9. ~wrong
  BY <1>3, <1>5, <1>6, <1>7
<1> HIDE DEF bad, wrong
<1>10. legacy = Return(Said(LegacyCodeFromString(json.code)))
  BY <1>2, <1>7, <1>9, Zenon
<1> HIDE DEF Said
<1>11. ~legacy.raised /\ legacy.value = Said(error.code)
  BY <1>5, <1>10 DEF Return
<1>12. read.raised <=> bad
  BY <1>1 DEF Return, Raise
<1>13. ~read.raised => read.value = Said(error.code)
  BY <1>1, <1>5, <1>12 DEF Return, Raise
<1>14. QED
  BY <1>4, <1>8, <1>11, <1>12, <1>13

\* The end of a stream of Connect tells the error it is written for: every client reads
\* the code, the message and the details of it, and its metadata next to the trailer,
\* except that a client that is not of the legacy package reads no error with a detail
\* whose JSON is no object.
THEOREM ErrorsArriveAtTheEnd ==
  ASSUME NEW error, IsError(error), NEW metadata,
         NEW end, end = [metadata |-> metadata, errors |-> <<error>>],
         NEW read, read = EndStreamParse(EndStreamSerialize(end)),
         NEW legacy, legacy = LegacyEndStreamParse(EndStreamSerialize(end))
  PROVE  /\ read.raised <=> Scalar(error)
         /\ ~read.raised => /\ SaysOf(read.value.errors[1], error)
                            /\ read.value.errors[1].metadata = AppendHeaders(metadata, error.metadata)
         /\ ~legacy.raised
         /\ SaysOf(legacy.value.errors[1], error)
         /\ legacy.value.errors[1].metadata = AppendHeaders(metadata, error.metadata)
<1> DEFINE shown == ErrorToJson(error)
           all == AppendHeaders(metadata, error.metadata)
           json == [is |-> "object", metadata |-> all, errors |-> <<shown>>]
           parsed == ErrorFromJson(shown, all)
           old == LegacyErrorFromJson(shown, all)
<1>1. <<error>> # << >> /\ <<error>>[1] = error /\ <<shown>> # << >> /\ <<shown>>[1] = shown
  OBVIOUS
<1>2. EndStreamToJson(end.metadata, end.errors) = json
  BY <1>1 DEF EndStreamToJson
<1>3. ToJson(JsonData(json)) = json
  BY DEF ToJson, JsonData, Data
<1>4. read = EndStreamFromJson(json) /\ legacy = LegacyEndStreamFromJson(json)
  BY <1>2, <1>3 DEF EndStreamParse, LegacyEndStreamParse, EndStreamSerialize
<1>5. /\ parsed.raised <=> Scalar(error)
      /\ ~parsed.raised => SaysOf(parsed.value, error) /\ parsed.value.metadata = all
      /\ ~old.raised /\ SaysOf(old.value, error) /\ old.value.metadata = all
  BY ErrorsArriveAsJson
<1>6. json.is = "object" /\ json.errors # << >> /\ json.errors[1] = shown /\ json.metadata = all
  BY <1>1
<1> HIDE DEF json, shown, all
<1>7. read = IF parsed.raised THEN Raise(ParseError)
             ELSE Return([metadata |-> all, errors |-> <<parsed.value>>])
  BY <1>4, <1>6 DEF EndStreamFromJson
<1>8. legacy = Return([metadata |-> all, errors |-> <<old.value>>])
  BY <1>4, <1>5, <1>6 DEF LegacyEndStreamFromJson
<1> HIDE DEF parsed, old
<1>9. /\ read.raised <=> parsed.raised
      /\ ~read.raised => read.value.errors[1] = parsed.value
  BY <1>7 DEF Return, Raise
<1>10. ~legacy.raised /\ legacy.value.errors[1] = old.value
  BY <1>8 DEF Return
<1>11. QED
  BY <1>5, <1>9, <1>10 DEF all

\* What setTrailerStatus() writes of an error with details
LEMMA DetailsWritten ==
  ASSUME NEW error, NEW target, NEW trailer, trailer = SetTrailerStatus(target, <<error>>),
         NEW packed, packed = [n \in DOMAIN error.details |->
                        [type |-> error.details[n].type, value |-> error.details[n].value]]
  PROVE  /\ Has(trailer, "grpc-status") /\ trailer["grpc-status"] = <<error.code>>
         /\ Has(trailer, "grpc-message") /\ trailer["grpc-message"] = EncodeMessage(error.message)
         /\ packed # << >> =>
              /\ Has(trailer, "grpc-status-details-bin")
              /\ trailer["grpc-status-details-bin"] =
                   <<[parses |-> TRUE, code |-> error.code, message |-> error.message, details |-> packed]>>
         /\ packed = << >> =>
              (Has(trailer, "grpc-status-details-bin") <=> Has(target, "grpc-status-details-bin"))
<1> DEFINE text == Set(Set(target, "grpc-status", <<error.code>>),
                       "grpc-message", EncodeMessage(error.message))
           status == [parses |-> TRUE, code |-> error.code, message |-> error.message, details |-> packed]
<1>1. <<error>> # << >> /\ <<error>>[1] = error
  OBVIOUS
<1>2. trailer = SetIf(packed # << >>, text, "grpc-status-details-bin", <<status>>)
  BY <1>1 DEF SetTrailerStatus, EncodeBinaryHeader
<1>3. /\ Has(text, "grpc-status") /\ text["grpc-status"] = <<error.code>>
      /\ Has(text, "grpc-message") /\ text["grpc-message"] = EncodeMessage(error.message)
      /\ Has(text, "grpc-status-details-bin") <=> Has(target, "grpc-status-details-bin")
  BY DEF Set, Has
<1> HIDE DEF text, status
<1>4. QED
  BY <1>2, <1>3 DEF SetIf, Set, Has, status

\* DecodeMessage() is the inverse of EncodeMessage().
LEMMA MessageDecodes ==
  ASSUME NEW message
  PROVE  DecodeMessage(EncodeMessage(message)) = message
BY DEF DecodeMessage, EncodeMessage, Last

\* What is found in a header that has the status fields of an error
LEMMA StatusIsFound ==
  ASSUME NEW error, IsError(error), NEW header,
         NEW packed, packed = [n \in DOMAIN error.details |->
                        [type |-> error.details[n].type, value |-> error.details[n].value]],
         Has(header, "grpc-status"), header["grpc-status"] = <<error.code>>,
         Has(header, "grpc-message"), header["grpc-message"] = EncodeMessage(error.message),
         packed # << >> =>
           /\ Has(header, "grpc-status-details-bin")
           /\ header["grpc-status-details-bin"] =
                <<[parses |-> TRUE, code |-> error.code, message |-> error.message, details |-> packed]>>,
         packed = << >> => ~Has(header, "grpc-status-details-bin")
  PROVE  /\ FindTrailerError(header) # << >>
         /\ SaysOf(FindTrailerError(header)[1], error)
         /\ FindTrailerError(header)[1].metadata = header
<1>1. error.code \in CodeValues /\ error.code # 0
  <2>1. error.code \in CodeValues
    BY DEF IsError
  <2>2. QED
    BY <2>1 DEF CodeValues, Code, Range
<1>2. DOMAIN packed = DOMAIN error.details
      /\ \A n \in DOMAIN error.details :
           packed[n].type = error.details[n].type /\ packed[n].value = error.details[n].value
  OBVIOUS
<1>3. CASE packed # << >>
  <2> DEFINE status == [parses |-> TRUE, code |-> error.code, message |-> error.message, details |-> packed]
             found == NewError(error.message, error.code, header, Unpack(packed))
  <2>1. DecodeBinaryHeader(header["grpc-status-details-bin"]) = Return(status)
    <3>1. <<status>>[1] = status /\ status.parses
      OBVIOUS
    <3> HIDE DEF status
    <3>2. header["grpc-status-details-bin"] = <<status>>
      BY <1>3 DEF status
    <3>3. QED
      BY <3>1, <3>2 DEF DecodeBinaryHeader
  <2>2. StatusFromDetails(header) = <<found>>
    <3>1. Return(status).raised = FALSE /\ Return(status).value = status
      BY Outcomes
    <3>2. status.code = error.code /\ status.message = error.message /\ status.details = packed
      OBVIOUS
    <3> HIDE DEF status
    <3>3. QED
      BY <1>1, <2>1, <3>1, <3>2 DEF StatusFromDetails
  <2>3. FindTrailerError(header) = <<found>>
    BY <1>3, <2>2 DEF FindTrailerError
  <2>4. SaysOf(found, error) /\ found.metadata = header
    BY <1>2 DEF SaysOf, NewError, Unpack
  <2> HIDE DEF found
  <2>5. <<found>> # << >> /\ <<found>>[1] = found
    OBVIOUS
  <2>6. QED
    BY <2>3, <2>4, <2>5
<1>4. CASE packed = << >>
  <2> DEFINE found == NewError(MessageOf(header), error.code, header, << >>)
  <2>1. DOMAIN error.details = {}
    BY <1>2, <1>4, EmptySequence
  <2>2. MessageOf(header) = error.message
    BY MessageDecodes, Zenon DEF MessageOf
  <2>3. <<error.code>> # <<0>> /\ <<error.code>>[1] = error.code
    <3>1. <<error.code>>[1] = error.code /\ <<0>>[1] = 0
      OBVIOUS
    <3>2. QED
      BY <1>1, <3>1
  <2>4. FindTrailerError(header) = <<found>>
    BY <1>1, <1>4, <2>3 DEF FindTrailerError
  <2>5. SaysOf(found, error) /\ found.metadata = header
    <3> HIDE DEF MessageOf
    <3>1. /\ found.code = error.code /\ found.message = error.message /\ found.metadata = header
          /\ found.details = << >>
      BY <2>2, Zenon DEF NewError
    <3> HIDE DEF found
    <3>2. QED
      BY <2>1, <3>1, EmptySequence DEF SaysOf
  <2> HIDE DEF found
  <2>6. <<found>> # << >> /\ <<found>>[1] = found
    OBVIOUS
  <2>7. QED
    BY <2>4, <2>5, <2>6
<1>5. QED
  BY <1>3, <1>4

\* The trailer of gRPC, and the block of lines that gRPC-web sends for it, tell the error
\* they are written for: findTrailerError() finds the code, the message and the details,
\* and the metadata has the fields of the trailer that the status was added to.  An error
\* without details takes none from that trailer, as long as it has none.
THEOREM ErrorsArriveInTrailers ==
  ASSUME NEW error, IsError(error), NEW target, IsFiniteSet(DOMAIN target),
         DOMAIN error.details = {} => ~Has(target, "grpc-status-details-bin"),
         NEW trailer, trailer = SetTrailerStatus(target, <<error>>),
         NEW header \in {trailer, TrailerParse(TrailerSerialize(trailer))}
  PROVE  /\ FindTrailerError(header) # << >>
         /\ SaysOf(FindTrailerError(header)[1], error)
         /\ \A f \in DOMAIN target \ {NoName, "grpc-status", "grpc-message", "grpc-status-details-bin"} :
              /\ Has(FindTrailerError(header)[1].metadata, f)
              /\ FindTrailerError(header)[1].metadata[f] = target[f]
<1> DEFINE packed == [n \in DOMAIN error.details |->
                        [type |-> error.details[n].type, value |-> error.details[n].value]]
           text == Set(Set(target, "grpc-status", <<error.code>>),
                       "grpc-message", EncodeMessage(error.message))
           fields == {"grpc-status", "grpc-message", "grpc-status-details-bin"}
<1>1. /\ Has(trailer, "grpc-status") /\ trailer["grpc-status"] = <<error.code>>
      /\ Has(trailer, "grpc-message") /\ trailer["grpc-message"] = EncodeMessage(error.message)
      /\ packed # << >> =>
           /\ Has(trailer, "grpc-status-details-bin")
           /\ trailer["grpc-status-details-bin"] =
                <<[parses |-> TRUE, code |-> error.code, message |-> error.message, details |-> packed]>>
      /\ packed = << >> =>
           (Has(trailer, "grpc-status-details-bin") <=> Has(target, "grpc-status-details-bin"))
  BY DetailsWritten, ZenonT(60)
<1>2. packed = << >> => ~Has(target, "grpc-status-details-bin")
  <2>1. DOMAIN packed = DOMAIN error.details
    OBVIOUS
  <2> HIDE DEF packed
  <2>2. QED
    BY <2>1, EmptySequence
<1>3. \E any : trailer = SetIf(packed # << >>, text, "grpc-status-details-bin", any)
  <2>1. <<error>> # << >> /\ <<error>>[1] = error
    OBVIOUS
  <2>2. QED
    BY <2>1 DEF SetTrailerStatus
<1>4. /\ DOMAIN trailer \in {DOMAIN target \cup {"grpc-status"} \cup {"grpc-message"},
                             DOMAIN target \cup {"grpc-status"} \cup {"grpc-message"}
                               \cup {"grpc-status-details-bin"}}
      /\ \A f \in DOMAIN target \ fields : f \in DOMAIN trailer /\ trailer[f] = target[f]
  <2> HIDE DEF packed
  <2>1. QED
    BY <1>3 DEF SetIf, Set
<1>5. IsFiniteSet(DOMAIN trailer)
  <2>1. IsFiniteSet((DOMAIN target \cup {"grpc-status"}) \cup {"grpc-message"})
    BY FS_AddElement
  <2>2. QED
    BY <1>4, <2>1, FS_AddElement
<1>6. \A f : f # NoName => /\ Has(header, f) <=> Has(trailer, f)
                           /\ Has(trailer, f) => header[f] = trailer[f]
  <2>1. CASE header = trailer
    BY <2>1
  <2>2. CASE header = TrailerParse(TrailerSerialize(trailer))
    <3>1. \A f : f # NoName => /\ Get(header, f) = Get(trailer, f)
                               /\ Has(header, f) <=> Has(trailer, f)
      BY <1>5, <2>2, TrailerArrives
    <3>2. QED
      BY <3>1 DEF Get
  <2>3. QED
    BY <2>1, <2>2
<1>7. \A f \in fields : f # NoName
  BY FieldIsNamed
<1> HIDE DEF packed, text
<1>8. /\ Has(header, "grpc-status") /\ header["grpc-status"] = <<error.code>>
      /\ Has(header, "grpc-message") /\ header["grpc-message"] = EncodeMessage(error.message)
      /\ packed # << >> =>
           /\ Has(header, "grpc-status-details-bin")
           /\ header["grpc-status-details-bin"] =
                <<[parses |-> TRUE, code |-> error.code, message |-> error.message, details |-> packed]>>
      /\ packed = << >> => ~Has(header, "grpc-status-details-bin")
  BY <1>1, <1>2, <1>6, <1>7
<1>9. /\ FindTrailerError(header) # << >>
      /\ SaysOf(FindTrailerError(header)[1], error)
      /\ FindTrailerError(header)[1].metadata = header
  BY <1>8, StatusIsFound DEF packed
<1>10. \A f \in DOMAIN target \ ({NoName} \cup fields) : Has(header, f) /\ header[f] = target[f]
  <2> HIDE DEF fields
  <2>1. QED
    BY <1>4, <1>6 DEF Has
<1>11. QED
  BY <1>9, <1>10

-----------------------------------------------------------------------------
(* Messages arrive: what bears a message, transform by transform           *)

\* Data of a message, and data that no format takes for one
AreFields(fields) == fields = {"content", "format", "plain", "zip"}
Bears(data, m) == AreFields(DOMAIN data) /\ IsMessage(m) /\ data.content = m /\ data.plain = m.size
Unreadable(data) ==
  AreFields(DOMAIN data) /\ data.content.is # "message" /\ data.format # "proto" /\ data.plain # 0

\* Compression leaves everything else alone.
SameData(data, other) ==
  AreFields(DOMAIN other) =>
    /\ AreFields(DOMAIN data)
    /\ data.content = other.content /\ data.plain = other.plain /\ data.format = other.format

\* An envelope that is not just a message
Flagged(envelope) == ~(envelope.flags \subseteq {"compressed"})

\* Envelopes of messages, as far as places go, and perhaps of an end
Told(items, messages, places) ==
  /\ \A n \in DOMAIN items : Flagged(items[n]) => n = Len(items)
  /\ \A n \in DOMAIN items \cap places :
       \/ ~Flagged(items[n]) /\ n \in DOMAIN messages /\ Bears(items[n].data, messages[n])
       \/ n = Len(items) /\ Unreadable(items[n].data)

Follows(envelope, other) ==
  (Flagged(envelope) => Flagged(other)) /\ SameData(envelope.data, other.data)

\* What is parsed is the message that the data is of, whatever the format.
LEMMA ParsedMessage ==
  ASSUME NEW data, NEW binary, ~Parse(data, binary).raised
  PROVE  /\ ~Unreadable(data)
         /\ \A m : Bears(data, m) => Parse(data, binary).value = m
<1>1. CASE binary
  <2>1. Parse(data, binary) = BinaryParse(data)
    BY <1>1 DEF Parse
  <2>2. \/ data.plain = 0 /\ BinaryParse(data) = Return(Message(0, FALSE))
        \/ data.format = "proto" /\ BinaryParse(data) = Return(data.content)
    BY <2>1, Outcomes DEF BinaryParse
  <2>3. ASSUME NEW m, Bears(data, m), data.plain = 0
        PROVE  m = Message(0, FALSE)
    <3>1. m = Message(m.size, m.any) /\ m.size = 0 /\ m.any = FALSE
      BY <2>3 DEF Bears, IsMessage
    <3>2. QED
      BY <3>1
  <2>4. QED
    BY <2>1, <2>2, <2>3, Outcomes, ZenonT(60) DEF Unreadable, Bears
<1>2. CASE ~binary
  <2>1. Parse(data, binary) = JsonParse(data)
    BY <1>2 DEF Parse
  <2>2. data.content.is = "message" /\ JsonParse(data) = Return(data.content)
    BY <2>1, Outcomes DEF JsonParse
  <2>3. QED
    BY <2>1, <2>2, Outcomes, ZenonT(60) DEF Unreadable, Bears
<1>3. QED
  BY <1>1, <1>2

\* What follows a stream of messages, and is not longer, tells the same.
LEMMA ToldStays ==
  ASSUME NEW items, IsSequence(items), NEW out, IsSequence(out), NEW messages, NEW places,
         Told(items, messages, places),
         \A n \in DOMAIN out : n \in DOMAIN items /\ Follows(out[n], items[n])
  PROVE  Told(out, messages, places)
<1>1. /\ Len(items) \in Nat /\ DOMAIN items = 1..Len(items)
      /\ Len(out) \in Nat /\ DOMAIN out = 1..Len(out)
  BY SequenceFacts
<1>2. ASSUME NEW n \in DOMAIN out, n = Len(items)
      PROVE  n = Len(out)
  <2>1. Len(out) <= Len(items)
    <3>1. CASE Len(out) = 0
      BY <1>1, <3>1
    <3>2. CASE Len(out) # 0
      <4>1. Len(out) \in DOMAIN out
        BY <1>1, <3>2
      <4>2. QED
        BY <1>1, <4>1
    <3>3. QED
      BY <3>1, <3>2
  <2>2. n \in Nat /\ n <= Len(out)
    BY <1>1, <1>2
  <2>3. \A a, b \in Nat : a <= b /\ b <= a => a = b
    OBVIOUS
  <2>4. QED
    BY <1>1, <1>2, <2>1, <2>2, <2>3, Zenon
<1>3. \A n \in DOMAIN out : Flagged(out[n]) => n = Len(out)
  BY <1>2 DEF Told, Follows
<1>4. ASSUME NEW n \in DOMAIN out \cap places
      PROVE  \/ ~Flagged(out[n]) /\ n \in DOMAIN messages /\ Bears(out[n].data, messages[n])
             \/ n = Len(out) /\ Unreadable(out[n].data)
  <2>1. n \in DOMAIN items \cap places /\ Follows(out[n], items[n])
    BY <1>4
  <2>2. CASE ~Flagged(items[n]) /\ n \in DOMAIN messages /\ Bears(items[n].data, messages[n])
    BY <2>1, <2>2 DEF Follows, SameData, Bears
  <2>3. CASE n = Len(items) /\ Unreadable(items[n].data)
    BY <1>2, <1>4, <2>1, <2>3 DEF Follows, SameData, Unreadable
  <2>4. QED
    BY <2>1, <2>2, <2>3 DEF Told
<1>5. QED
  BY <1>3, <1>4 DEF Told

\* Selecting all the elements up to a place
LEMMA SelectedFront ==
  ASSUME NEW s, IsSequence(s), NEW places, NEW k \in 0..Len(s),
         \A n \in DOMAIN s : n \in places <=> n <= k,
         NEW t, t = Selected(s, places)
  PROVE  IsSequence(t) /\ DOMAIN t = 1..k /\ Len(t) = k /\ \A n \in 1..k : t[n] = s[n]
<1>1. Len(s) \in Nat /\ DOMAIN s = 1..Len(s) /\ k \in Nat /\ k <= Len(s)
  BY SequenceFacts
<1>2. PICK upTo : /\ upTo = [n \in 0..Len(s) |->
                       IF n = 0 THEN << >>
                       ELSE IF n \in places THEN Append(upTo[n - 1], s[n]) ELSE upTo[n - 1]]
                  /\ t = upTo[Len(s)]
  <2>1. \E upTo : Selects(upTo, s, places, Len(s))
    BY <1>1, SelectionExists
  <2>2. QED
    BY <2>1, Zenon DEF Selects, Selected
<1> DEFINE least(n) == IF n <= k THEN n ELSE k
           S == {n \in Nat : n <= Len(s) =>
                   /\ upTo[n] \in Seq(ToSet(s)) /\ Len(upTo[n]) = least(n)
                   /\ \A m \in 1..least(n) : upTo[n][m] = s[m]}
<1>3. 0 \in S
  <2>1. upTo[0] = << >>
    BY <1>1, <1>2
  <2>2. << >> \in Seq(ToSet(s)) /\ Len(<< >>) = 0
    OBVIOUS
  <2>3. least(0) = 0 /\ 1..0 = {}
    BY <1>1
  <2> HIDE DEF least
  <2>4. QED
    BY <2>1, <2>2, <2>3
<1>4. ASSUME NEW n \in Nat, n \in S
      PROVE  n + 1 \in S
  <2>1. SUFFICES ASSUME n + 1 <= Len(s)
                 PROVE  /\ upTo[n + 1] \in Seq(ToSet(s)) /\ Len(upTo[n + 1]) = least(n + 1)
                        /\ \A m \in 1..least(n + 1) : upTo[n + 1][m] = s[m]
    OBVIOUS
  <2>2. /\ upTo[n] \in Seq(ToSet(s)) /\ Len(upTo[n]) = least(n)
        /\ \A m \in 1..least(n) : upTo[n][m] = s[m]
    BY <1>1, <1>4, <2>1
  <2>3. n + 1 \in 0..Len(s) /\ n + 1 # 0 /\ (n + 1) - 1 = n /\ n + 1 \in DOMAIN s
    BY <1>1, <2>1
  <2>4. upTo[n + 1] = IF n + 1 \in places THEN Append(upTo[n], s[n + 1]) ELSE upTo[n]
    BY <1>2, <2>3
  <2>5. CASE n + 1 <= k
    <3>1. n + 1 \in places /\ least(n) = n /\ least(n + 1) = n + 1
      BY <1>1, <2>3, <2>5
    <3>2. s[n + 1] \in ToSet(s)
      BY <2>3 DEF ToSet
    <3>3. /\ Append(upTo[n], s[n + 1]) \in Seq(ToSet(s))
          /\ Len(Append(upTo[n], s[n + 1])) = n + 1
          /\ Append(upTo[n], s[n + 1])[n + 1] = s[n + 1]
          /\ \A m \in 1..n : Append(upTo[n], s[n + 1])[m] = upTo[n][m]
      BY <2>2, <3>1, <3>2, AppendProperties
    <3>4. QED
      BY <2>2, <2>4, <3>1, <3>3
  <2>6. CASE ~(n + 1 <= k)
    <3>1. n + 1 \notin places /\ least(n) = k /\ least(n + 1) = k
      BY <1>1, <2>3, <2>6
    <3>2. QED
      BY <2>2, <2>4, <3>1
  <2>7. QED
    BY <2>5, <2>6
<1>5. /\ upTo[Len(s)] \in Seq(ToSet(s)) /\ Len(upTo[Len(s)]) = k
      /\ \A m \in 1..k : upTo[Len(s)][m] = s[m]
  <2>1. Len(s) \in S
    <3> HIDE DEF S
    <3>1. QED
      BY <1>1, <1>3, <1>4, SetInduction, SMTT(30)
  <2>2. least(Len(s)) = k
    <3>1. \A a, b \in Nat : a <= b => (IF b <= a THEN b ELSE a) = a
      OBVIOUS
    <3>2. QED
      BY <1>1, <3>1
  <2> HIDE DEF least
  <2>3. /\ upTo[Len(s)] \in Seq(ToSet(s)) /\ Len(upTo[Len(s)]) = least(Len(s))
        /\ \A m \in 1..least(Len(s)) : upTo[Len(s)][m] = s[m]
    <3>1. Len(s) <= Len(s)
      BY <1>1
    <3>2. QED
      BY <2>1, <3>1
  <2>4. QED
    BY <2>2, <2>3
<1>6. t \in [1..k -> ToSet(s)] /\ DOMAIN t = 1..k
  BY <1>2, <1>5, LenProperties
<1>7. IsSequence(t)
  BY <1>1, <1>6, BuiltSequence
<1>8. QED
  BY <1>2, <1>5, <1>6, <1>7

\* A transform that keeps the content of envelopes tells the same.
LEMMA ToldThrough ==
  ASSUME NEW stream, IsSequence(stream.items), NEW messages, NEW places,
         Told(stream.items, messages, places),
         NEW results, results = [n \in DOMAIN stream.items |-> results[n]],
         \A n \in DOMAIN stream.items :
           ~results[n].raised => Follows(results[n].value, stream.items[n]),
         NEW out, out = Yielded(results, stream.errors)
  PROVE  IsSequence(out.items) /\ Told(out.items, messages, places)
<1>1. /\ IsSequence(out.items)
      /\ \A n \in DOMAIN out.items :
           n \in DOMAIN stream.items /\ ~results[n].raised /\ out.items[n] = results[n].value
  BY ThroughItems
<1>2. QED
  BY <1>1, ToldStays

\* transformSplitEnvelope() gives the envelopes of a body.
LEMMA ToldSplit ==
  ASSUME NEW body, NEW messages, NEW places, NEW max,
         body.is = "envelopes" => IsSequence(body.envelopes) /\ Told(body.envelopes, messages, places),
         NEW out, out = TransformSplitEnvelope(body, max)
  PROVE  IsSequence(out.items) /\ Told(out.items, messages, places)
<1> DEFINE source == CASE body.is = "envelopes" -> Stream(body.envelopes)
                       [] body.is = "bare" /\ Size(body.data) = 0 -> Stream(<< >>)
                       [] OTHER -> [items |-> << >>,
                                    errors |-> <<SimpleError("premature end", Code.InvalidArgument)>>]
           promised(e) == IF IsShort(e) THEN e.promised ELSE Size(e.data)
           Split(e) == CASE ~WithinReadMax(max, promised(e)) -> Raise(TooLarge)
                         [] WithinReadMax(max, promised(e)) /\ IsShort(e) ->
                              Raise(SimpleError("promised other bytes", Code.InvalidArgument))
                         [] OTHER -> Return(e)
           results == [n \in DOMAIN source.items |-> Split(source.items[n])]
<1>1. source.items = IF body.is = "envelopes" THEN body.envelopes ELSE << >>
  BY DEF Stream
<1> HIDE DEF source
<1>2. IsSequence(source.items) /\ Told(source.items, messages, places)
  BY <1>1, EmptySequence DEF Told
<1>3. out = Yielded(results, source.errors)
  BY DEF TransformSplitEnvelope, Through, source
<1>4. results = [n \in DOMAIN source.items |-> results[n]]
  OBVIOUS
<1>5. \A n \in DOMAIN source.items : ~results[n].raised => Follows(results[n].value, source.items[n])
  <2>1. ASSUME NEW e, ~Split(e).raised
        PROVE  Split(e).value = e
    BY <2>1, Outcomes
  <2> HIDE DEF Split
  <2>2. QED
    BY <2>1 DEF Follows, SameData
<1> HIDE DEF results
<1>6. QED
  BY <1>2, <1>3, <1>4, <1>5, ToldThrough

\* The error of compressionNegotiate() takes the place of the stream.
LEMMA ToldPrepended ==
  ASSUME NEW stream, IsSequence(stream.items), NEW errors, NEW messages, NEW places,
         Told(stream.items, messages, places),
         NEW out, out = TransformPrepend(stream, errors)
  PROVE  IsSequence(out.items) /\ Told(out.items, messages, places)
BY EmptySequence DEF TransformPrepend, Told

\* So does transformDecompressEnvelope().
LEMMA ToldDecompressed ==
  ASSUME NEW stream, IsSequence(stream.items), NEW compression, NEW max, NEW messages, NEW places,
         Told(stream.items, messages, places),
         NEW out, out = TransformDecompressEnvelope(stream, compression, max)
  PROVE  IsSequence(out.items) /\ Told(out.items, messages, places)
<1> DEFINE results == [n \in DOMAIN stream.items |->
                         EnvelopeDecompress(stream.items[n], compression, max)]
<1>1. out = Yielded(results, stream.errors)
  BY DEF TransformDecompressEnvelope, Through
<1>2. results = [n \in DOMAIN stream.items |-> results[n]]
  OBVIOUS
<1>3. ASSUME NEW e, ~EnvelopeDecompress(e, compression, max).raised
      PROVE  Follows(EnvelopeDecompress(e, compression, max).value, e)
  <2>1. CASE "compressed" \notin e.flags
    <3>1. EnvelopeDecompress(e, compression, max).value = e
      BY <2>1, Outcomes DEF EnvelopeDecompress
    <3>2. QED
      BY <3>1 DEF Follows, SameData
  <2>2. CASE "compressed" \in e.flags
    <3>1. /\ ~Decompress(e.data, compression, max).raised
          /\ EnvelopeDecompress(e, compression, max).value
               = Envelope(e.flags \ {"compressed"}, Decompress(e.data, compression, max).value)
      BY <1>3, <2>2, Outcomes DEF EnvelopeDecompress
    <3>2. Decompress(e.data, compression, max).value = [e.data EXCEPT !.zip = "identity"]
      BY <3>1, Outcomes DEF Decompress
    <3>3. QED
      BY <3>1, <3>2 DEF Envelope, Follows, SameData, Flagged, AreFields
  <2>3. QED
    BY <2>1, <2>2
<1>4. \A n \in DOMAIN stream.items : ~results[n].raised => Follows(results[n].value, stream.items[n])
  BY <1>3
<1> HIDE DEF results
<1>5. QED
  BY <1>1, <1>2, <1>4, ToldThrough

\* So does transformCompressEnvelope().
LEMMA ToldCompressed ==
  ASSUME NEW stream, IsSequence(stream.items), NEW compression, NEW minBytes, NEW messages, NEW places,
         Told(stream.items, messages, places),
         NEW out, out = TransformCompressEnvelope(stream, compression, minBytes)
  PROVE  IsSequence(out.items) /\ Told(out.items, messages, places)
<1> DEFINE results == [n \in DOMAIN stream.items |->
                         EnvelopeCompress(stream.items[n], compression, minBytes)]
<1>1. out = Yielded(results, stream.errors)
  BY DEF TransformCompressEnvelope, Through
<1>2. results = [n \in DOMAIN stream.items |-> results[n]]
  OBVIOUS
<1>3. ASSUME NEW e, ~EnvelopeCompress(e, compression, minBytes).raised
      PROVE  Follows(EnvelopeCompress(e, compression, minBytes).value, e)
  <2> DEFINE zipped == Envelope(e.flags \cup {"compressed"}, Compress(e.data, compression))
  <2>1. EnvelopeCompress(e, compression, minBytes).value \in {zipped, e}
    BY <1>3, Outcomes DEF EnvelopeCompress
  <2>2. Follows(zipped, e) /\ Follows(e, e)
    BY DEF Envelope, Compress, Follows, SameData, Flagged, AreFields
  <2> HIDE DEF zipped
  <2>3. QED
    BY <2>1, <2>2
<1>4. \A n \in DOMAIN stream.items : ~results[n].raised => Follows(results[n].value, stream.items[n])
  BY <1>3
<1> HIDE DEF results
<1>5. QED
  BY <1>1, <1>2, <1>4, ToldThrough

\* The messages that were told, as far as they are in places
Messages(items, messages, places) ==
  IsSequence(items) /\ \A n \in DOMAIN items \cap places : n \in DOMAIN messages /\ items[n] = messages[n]

\* transformParseEnvelope() yields the messages that it is told.
LEMMA ToldParsed ==
  ASSUME NEW stream, IsSequence(stream.items), NEW messages, NEW places,
         Told(stream.items, messages, places),
         NEW binary, NEW endFlag, endFlag # "compressed",
         NEW out, out = TransformParseEnvelope(stream, binary, endFlag)
  PROVE  Messages(out.items, messages, places)
<1> DEFINE kept == {n \in DOMAIN stream.items : endFlag \notin stream.items[n].flags}
           source == [stream EXCEPT !.items = Selected(@, kept)]
           results == [n \in DOMAIN source.items |-> Parse(source.items[n].data, binary)]
<1>1. out = Yielded(results, source.errors)
  BY DEF TransformParseEnvelope, Through
<1>2. results = [n \in DOMAIN source.items |-> results[n]]
  OBVIOUS
<1>3. \A n \in DOMAIN source.items : results[n] = Parse(source.items[n].data, binary)
  OBVIOUS
<1>4. source.items = Selected(stream.items, kept)
  OBVIOUS
<1> HIDE DEF results, source
<1>5. Len(stream.items) \in Nat /\ DOMAIN stream.items = 1..Len(stream.items)
  BY SequenceFacts
<1>6. /\ IsSequence(source.items)
      /\ \A n \in DOMAIN source.items : n \in DOMAIN stream.items /\ source.items[n] = stream.items[n]
  <2>1. \A n \in DOMAIN stream.items : n \notin kept => n = Len(stream.items)
    BY DEF Told, Flagged
  <2>2. \E k \in 0..Len(stream.items) : \A n \in DOMAIN stream.items : n \in kept <=> n <= k
    <3>1. CASE Len(stream.items) \in kept
      <4>1. \A n \in DOMAIN stream.items : n \in kept <=> n <= Len(stream.items)
        BY <1>5, <2>1, <3>1
      <4> HIDE DEF kept
      <4>2. QED
        BY <1>5, <4>1
    <3>2. CASE Len(stream.items) \notin kept /\ Len(stream.items) # 0
      <4>1. \A n \in DOMAIN stream.items : n \in kept <=> n <= Len(stream.items) - 1
        BY <1>5, <2>1, <3>2
      <4>2. Len(stream.items) - 1 \in 0..Len(stream.items)
        BY <1>5, <3>2
      <4> HIDE DEF kept
      <4>3. QED
        BY <4>1, <4>2
    <3>3. CASE Len(stream.items) = 0
      <4>1. DOMAIN stream.items = {} /\ 0 \in 0..Len(stream.items)
        BY <1>5, <3>3
      <4> HIDE DEF kept
      <4>2. QED
        BY <4>1
    <3>4. QED
      BY <3>1, <3>2, <3>3
  <2> HIDE DEF kept
  <2>3. PICK k \in 0..Len(stream.items) : \A n \in DOMAIN stream.items : n \in kept <=> n <= k
    BY <2>2
  <2>4. IsSequence(source.items) /\ DOMAIN source.items = 1..k
        /\ \A n \in 1..k : source.items[n] = stream.items[n]
    BY <1>4, <2>3, SelectedFront
  <2>5. 1..k \subseteq DOMAIN stream.items
    BY <1>5
  <2>6. QED
    BY <2>4, <2>5
<1>7. /\ IsSequence(out.items)
      /\ \A n \in DOMAIN out.items :
           n \in DOMAIN source.items /\ ~results[n].raised /\ out.items[n] = results[n].value
  BY <1>1, <1>2, <1>6, ThroughItems
<1>8. ASSUME NEW n \in DOMAIN out.items \cap places
      PROVE  n \in DOMAIN messages /\ out.items[n] = messages[n]
  <2> DEFINE data == stream.items[n].data
  <2>1. n \in DOMAIN stream.items /\ ~Parse(data, binary).raised /\ out.items[n] = Parse(data, binary).value
    BY <1>3, <1>6, <1>7
  <2>2. (n \in DOMAIN messages /\ Bears(data, messages[n])) \/ Unreadable(data)
    BY <1>8, <2>1 DEF Told
  <2> HIDE DEF data
  <2>3. QED
    BY <2>1, <2>2, ParsedMessage
<1>9. QED
  BY <1>7, <1>8 DEF Messages

\* Messages among ends: an end comes last.
WithEnd(items, messages) ==
  /\ IsSequence(items)
  /\ \A n \in DOMAIN items :
       IF items[n].end THEN n = Len(items) ELSE n \in DOMAIN messages /\ items[n].value = messages[n]

\* The same for a stream of messages, and ends, of some other kind of result
LEMMA ToldResults ==
  ASSUME NEW stream, IsSequence(stream.items), NEW messages, Told(stream.items, messages, Nat),
         NEW results, results = [n \in DOMAIN stream.items |-> results[n]],
         NEW binary, NEW endFlag, endFlag # "compressed",
         \A n \in DOMAIN stream.items : ~results[n].raised =>
           /\ results[n].value.end = (endFlag \in stream.items[n].flags)
           /\ endFlag \notin stream.items[n].flags =>
                /\ ~Parse(stream.items[n].data, binary).raised
                /\ results[n].value.value = Parse(stream.items[n].data, binary).value,
         NEW out, out = Yielded(results, stream.errors)
  PROVE  WithEnd(out.items, messages)
<1>1. /\ IsSequence(out.items)
      /\ \A n \in DOMAIN out.items :
           n \in DOMAIN stream.items /\ ~results[n].raised /\ out.items[n] = results[n].value
  BY ThroughItems
<1>2. /\ Len(stream.items) \in Nat /\ DOMAIN stream.items = 1..Len(stream.items)
      /\ Len(out.items) \in Nat /\ DOMAIN out.items = 1..Len(out.items)
  BY <1>1, SequenceFacts
<1>3. ASSUME NEW n \in DOMAIN out.items, n = Len(stream.items)
      PROVE  n = Len(out.items)
  <2>1. Len(out.items) <= Len(stream.items)
    <3>1. Len(out.items) \in DOMAIN out.items
      BY <1>2
    <3>2. QED
      BY <1>1, <1>2, <3>1
  <2>2. n \in Nat /\ n <= Len(out.items)
    BY <1>2
  <2>3. \A a, b \in Nat : a <= b /\ b <= a => a = b
    OBVIOUS
  <2>4. QED
    BY <1>2, <1>3, <2>1, <2>2, <2>3
<1>4. ASSUME NEW n \in DOMAIN out.items
      PROVE  IF out.items[n].end THEN n = Len(out.items)
             ELSE n \in DOMAIN messages /\ out.items[n].value = messages[n]
  <2> DEFINE e == stream.items[n]
  <2>0. n \in DOMAIN stream.items /\ n \in Nat /\ ~results[n].raised /\ out.items[n] = results[n].value
    BY <1>1, <1>2, <1>4
  <2>1. /\ out.items[n].end = (endFlag \in e.flags)
        /\ endFlag \notin e.flags =>
             ~Parse(e.data, binary).raised /\ out.items[n].value = Parse(e.data, binary).value
    BY <2>0
  <2>2. CASE endFlag \in e.flags
    <3>1. Flagged(e)
      BY <2>2 DEF Flagged
    <3>2. n = Len(stream.items)
      BY <2>0, <3>1 DEF Told
    <3>3. QED
      BY <1>3, <1>4, <2>1, <2>2, <3>2
  <2>3. CASE endFlag \notin e.flags
    <3>1. (n \in DOMAIN messages /\ Bears(e.data, messages[n])) \/ Unreadable(e.data)
      BY <2>0 DEF Told
    <3> HIDE DEF e
    <3>2. ~out.items[n].end
      BY <2>1, <2>3
    <3>3. ~Parse(e.data, binary).raised /\ out.items[n].value = Parse(e.data, binary).value
      BY <2>1, <2>3
    <3>4. n \in DOMAIN messages /\ out.items[n].value = messages[n]
      BY <3>1, <3>3, ParsedMessage
    <3>5. QED
      BY <3>2, <3>4
  <2>4. QED
    BY <2>2, <2>3
<1>5. QED
  BY <1>1, <1>4 DEF WithEnd

-----------------------------------------------------------------------------
(* Messages arrive: what a request tells                                   *)

\* What serialize() returns for a message is data of the message.
LEMMA SerializedBears ==
  ASSUME NEW m, IsMessage(m), NEW binary, ~Serialize(m, binary).raised
  PROVE  Bears(Serialize(m, binary).value, m)
<1>1. Serialize(m, binary).value \in {Data(m, "proto", m.size), Data(m, "json", m.size)}
  BY DEF Serialize, BinarySerialize, JsonSerialize, Return, Raise
<1>2. QED
  BY <1>1 DEF Data, Bears, AreFields

\* An envelope that was just made of data
LEMMA EnvelopeBears ==
  ASSUME NEW data
  PROVE  /\ ~Flagged(Envelope({}, data)) /\ Envelope({}, data).flags = {}
         /\ Envelope({}, data).data = data
BY DEF Flagged, Envelope

\* transformSerializeEnvelope() tells its messages.
LEMMA ToldSerialized ==
  ASSUME NEW stream, NEW messages, Messages(stream.items, messages, Nat),
         \A n \in DOMAIN stream.items : IsMessage(stream.items[n]),
         NEW binary, NEW max,
         NEW out, out = TransformSerializeEnvelope(stream, binary, max)
  PROVE  /\ IsSequence(out.items) /\ Told(out.items, messages, Nat)
         /\ \A n \in DOMAIN out.items :
              /\ out.items[n].flags = {}
              /\ n \in DOMAIN messages /\ Bears(out.items[n].data, messages[n])
<1> DEFINE Serialized(message) ==
             LET data == Serialize(message, binary)
             IN CASE data.raised -> data
                  [] ~data.raised /\ ~WithinWriteMax(max, Size(data.value)) -> Raise(TooLarge)
                  [] OTHER -> Return(Envelope({}, data.value))
           results == [n \in DOMAIN stream.items |-> Serialized(stream.items[n])]
<1>1. out = Yielded(results, stream.errors)
  BY DEF TransformSerializeEnvelope, Through
<1>2. results = [n \in DOMAIN stream.items |-> results[n]]
  OBVIOUS
<1>3. \A n \in DOMAIN stream.items : results[n] = Serialized(stream.items[n])
  OBVIOUS
<1> HIDE DEF results
<1>4. /\ IsSequence(stream.items) /\ IsSequence(out.items)
      /\ \A n \in DOMAIN out.items :
           n \in DOMAIN stream.items /\ ~results[n].raised /\ out.items[n] = results[n].value
  BY <1>1, <1>2, ThroughItems DEF Messages
<1>5. ASSUME NEW m, IsMessage(m), ~Serialized(m).raised
      PROVE  /\ ~Flagged(Serialized(m).value) /\ Serialized(m).value.flags = {}
             /\ Bears(Serialized(m).value.data, m)
  <2> DEFINE data == Serialize(m, binary)
  <2>1. ~data.raised /\ Serialized(m) = Return(Envelope({}, data.value))
    BY <1>5, Outcomes
  <2>2. Bears(data.value, m)
    BY <1>5, <2>1, SerializedBears
  <2> HIDE DEF data, Serialized
  <2>3. Serialized(m).value = Envelope({}, data.value)
    BY <2>1, Outcomes
  <2>4. QED
    BY <2>2, <2>3, EnvelopeBears
<1> HIDE DEF Serialized
<1>6. ASSUME NEW n \in DOMAIN out.items
      PROVE  /\ ~Flagged(out.items[n]) /\ out.items[n].flags = {}
             /\ n \in DOMAIN messages /\ Bears(out.items[n].data, messages[n])
  <2>1. /\ n \in DOMAIN stream.items /\ IsMessage(stream.items[n])
        /\ ~Serialized(stream.items[n]).raised /\ out.items[n] = Serialized(stream.items[n]).value
    BY <1>3, <1>4
  <2>2. n \in DOMAIN messages /\ stream.items[n] = messages[n]
    <3>1. n \in Nat
      BY <1>4, <2>1, SequenceFacts
    <3>2. QED
      BY <2>1, <3>1 DEF Messages
  <2>3. QED
    BY <1>5, <2>1, <2>2
<1>7. QED
  BY <1>4, <1>6 DEF Told

\* normalize() changes no message.
LEMMA ToldNormalized ==
  ASSUME NEW stream, NEW messages, Messages(stream.items, messages, Nat),
         \A n \in DOMAIN stream.items : IsMessage(stream.items[n]),
         NEW out, out = TransformNormalizeMessage(stream)
  PROVE  /\ Messages(out.items, messages, Nat)
         /\ \A n \in DOMAIN out.items : IsMessage(out.items[n])
<1> DEFINE results == [n \in DOMAIN stream.items |->
                         Return(Message(stream.items[n].size, stream.items[n].any))]
<1>1. out = Yielded(results, stream.errors)
  BY DEF TransformNormalizeMessage, Through
<1>2. results = [n \in DOMAIN stream.items |-> results[n]]
  OBVIOUS
<1>3. \A n \in DOMAIN stream.items : results[n].value = stream.items[n]
  BY Outcomes DEF IsMessage
<1> HIDE DEF results
<1>4. /\ IsSequence(out.items)
      /\ \A n \in DOMAIN out.items : n \in DOMAIN stream.items /\ out.items[n] = results[n].value
  BY <1>1, <1>2, ThroughItems DEF Messages
<1>5. QED
  BY <1>3, <1>4 DEF Messages

\* The body of what was joined tells the same.
LEMMA ToldJoined ==
  ASSUME NEW stream, IsSequence(stream.items), NEW messages, NEW places,
         Told(stream.items, messages, places),
         NEW out, out = TransformJoinEnvelopes(stream),
         NEW body, body = Joined(out)
  PROVE  /\ body.is = "envelopes" /\ IsSequence(body.envelopes)
         /\ Told(body.envelopes, messages, places)
         /\ out.errors = << >> => DOMAIN body.envelopes = DOMAIN stream.items /\ stream.errors = << >>
<1> DEFINE results == [n \in DOMAIN stream.items |-> Return(EncodeEnvelope(stream.items[n]))]
<1>1. out = Yielded(results, stream.errors)
  BY DEF TransformJoinEnvelopes, Through
<1>2. results = [n \in DOMAIN stream.items |-> results[n]]
  OBVIOUS
<1>3. \A n \in DOMAIN stream.items : results[n] = Return(EncodeEnvelope(stream.items[n]))
  OBVIOUS
<1> HIDE DEF results
<1>4. /\ IsSequence(out.items)
      /\ \A n \in DOMAIN out.items : n \in DOMAIN stream.items /\ out.items[n] = results[n].value
      /\ out.errors = << >> => DOMAIN out.items = DOMAIN stream.items /\ stream.errors = << >>
  BY <1>1, <1>2, ThroughItems
<1>5. body = EncodeEnvelopes([n \in DOMAIN out.items |-> out.items[n].envelopes[1]])
  BY DEF Joined
<1>6. ASSUME NEW e
      PROVE  Return(EncodeEnvelope(e)).value.envelopes[1] = e
  <2>1. EncodeEnvelope(e).envelopes = <<e>> /\ <<e>>[1] = e
    BY DEF EncodeEnvelope, EncodeEnvelopes
  <2>2. QED
    BY <2>1, Outcomes
<1>7. /\ body.is = "envelopes"
      /\ body.envelopes = [n \in DOMAIN out.items |-> body.envelopes[n]]
      /\ \A n \in DOMAIN out.items : body.envelopes[n] = stream.items[n]
  BY <1>3, <1>4, <1>5, <1>6 DEF EncodeEnvelopes
<1>8. IsSequence(body.envelopes) /\ DOMAIN body.envelopes = DOMAIN out.items
  BY <1>4, <1>7, MappedSequence
<1>9. \A n \in DOMAIN body.envelopes :
        n \in DOMAIN stream.items /\ Follows(body.envelopes[n], stream.items[n])
  BY <1>4, <1>7, <1>8 DEF Follows, SameData
<1>10. Told(body.envelopes, messages, places)
  BY <1>8, <1>9, ToldStays
<1>11. QED
  BY <1>4, <1>7, <1>8, <1>10

\* A transform that raises nothing loses nothing.
LEMMA NothingIsLost ==
  ASSUME NEW stream, IsSequence(stream.items), NEW out, out.errors = << >>,
         \/ out = TransformNormalizeMessage(stream)
         \/ \E binary, max : out = TransformSerializeEnvelope(stream, binary, max)
         \/ \E compression, minBytes : out = TransformCompressEnvelope(stream, compression, minBytes)
  PROVE  DOMAIN out.items = DOMAIN stream.items /\ stream.errors = << >>
<1>1. ASSUME NEW results, results = [n \in DOMAIN stream.items |-> results[n]],
             out = Yielded(results, stream.errors)
      PROVE  DOMAIN out.items = DOMAIN stream.items /\ stream.errors = << >>
  BY <1>1, ThroughItems
<1>2. CASE out = TransformNormalizeMessage(stream)
  <2> DEFINE results == [n \in DOMAIN stream.items |->
                           Return(Message(stream.items[n].size, stream.items[n].any))]
  <2>1. out = Yielded(results, stream.errors) /\ results = [n \in DOMAIN stream.items |-> results[n]]
    BY <1>2, SMTT(30) DEF TransformNormalizeMessage, Through
  <2> HIDE DEF results
  <2>2. QED
    BY <1>1, <2>1
<1>3. ASSUME NEW binary, NEW max, out = TransformSerializeEnvelope(stream, binary, max)
      PROVE  DOMAIN out.items = DOMAIN stream.items /\ stream.errors = << >>
  <2> DEFINE Serialized(message) ==
               LET data == Serialize(message, binary)
               IN CASE data.raised -> data
                    [] ~data.raised /\ ~WithinWriteMax(max, Size(data.value)) -> Raise(TooLarge)
                    [] OTHER -> Return(Envelope({}, data.value))
             results == [n \in DOMAIN stream.items |-> Serialized(stream.items[n])]
  <2>1. out = Yielded(results, stream.errors) /\ results = [n \in DOMAIN stream.items |-> results[n]]
    BY <1>3, Zenon DEF TransformSerializeEnvelope, Through
  <2> HIDE DEF results
  <2>2. QED
    BY <1>1, <2>1
<1>4. ASSUME NEW compression, NEW minBytes,
             out = TransformCompressEnvelope(stream, compression, minBytes)
      PROVE  DOMAIN out.items = DOMAIN stream.items /\ stream.errors = << >>
  <2> DEFINE results == [n \in DOMAIN stream.items |->
                           EnvelopeCompress(stream.items[n], compression, minBytes)]
  <2>1. out = Yielded(results, stream.errors) /\ results = [n \in DOMAIN stream.items |-> results[n]]
    BY <1>4 DEF TransformCompressEnvelope, Through
  <2> HIDE DEF results
  <2>2. QED
    BY <1>1, <2>1
<1>5. QED
  BY <1>2, <1>3, <1>4

\* The places of a request that a server looks at
Places(c) == IF TakesOne(c.kind) THEN {1} ELSE Nat

\* A body that tells the inputs of a call
Asks(c, body) ==
  \/ body.is = "bare" /\ 1 \in DOMAIN c.inputs /\ Bears(body.data, c.inputs[1])
  \/ /\ body.is = "envelopes" /\ IsSequence(body.envelopes)
     /\ Told(body.envelopes, c.inputs, Places(c))
     /\ TakesOne(c.kind) => body.envelopes # << >>

\* The body of every streaming request of connect-node does.
LEMMA UploadAsks ==
  ASSUME NEW c \in Calls, NEW header, ~Upload(c, header).raised
  PROVE  Asks(c, Upload(c, header).value.body)
<1> DEFINE o == c.client
           normalized == TransformNormalizeMessage(Stream(c.inputs))
           serialized == TransformSerializeEnvelope(normalized, o.binary, o.writeMaxBytes)
           compressed == TransformCompressEnvelope(serialized, o.send, o.compressMinBytes)
           joined == TransformJoinEnvelopes(compressed)
           body == Joined(joined)
<1>1. Upload(c, header).value.body = body /\ joined.errors = << >>
  BY DEF Upload, Request, Return, Raise
<1>2. /\ IsSequence(c.inputs) /\ \A n \in DOMAIN c.inputs : IsMessage(c.inputs[n])
      /\ TakesOne(c.kind) => DOMAIN c.inputs = {1}
  BY CallsAssumption
<1>3. Stream(c.inputs).items = c.inputs /\ Messages(c.inputs, c.inputs, Nat)
  BY <1>2 DEF Stream, Messages
<1>4. /\ Messages(normalized.items, c.inputs, Nat)
      /\ \A n \in DOMAIN normalized.items : IsMessage(normalized.items[n])
      /\ normalized.errors = << >> => DOMAIN normalized.items = DOMAIN c.inputs
  <2> DEFINE stream == Stream(c.inputs)
  <2> HIDE DEF stream, normalized
  <2>1. normalized = TransformNormalizeMessage(stream) /\ stream.items = c.inputs
    BY <1>3 DEF stream, normalized
  <2>2. Messages(stream.items, c.inputs, Nat) /\ IsSequence(stream.items)
        /\ \A n \in DOMAIN stream.items : IsMessage(stream.items[n])
    BY <1>2, <1>3, <2>1
  <2>3. QED
    BY <2>1, <2>2, ToldNormalized, NothingIsLost
<1>5. serialized = TransformSerializeEnvelope(normalized, o.binary, o.writeMaxBytes)
  OBVIOUS
<1> HIDE DEF normalized, serialized
<1>6. /\ IsSequence(serialized.items) /\ Told(serialized.items, c.inputs, Nat)
      /\ serialized.errors = << >> => DOMAIN serialized.items = DOMAIN c.inputs
  <2>1. IsSequence(normalized.items)
    BY <1>4 DEF Messages
  <2>2. IsSequence(serialized.items) /\ Told(serialized.items, c.inputs, Nat)
    BY <1>4, <1>5, ToldSerialized
  <2>3. serialized.errors = << >> =>
          DOMAIN serialized.items = DOMAIN normalized.items /\ normalized.errors = << >>
    BY <1>5, <2>1, NothingIsLost
  <2>4. QED
    BY <1>4, <2>2, <2>3
<1>7. compressed = TransformCompressEnvelope(serialized, o.send, o.compressMinBytes)
  OBVIOUS
<1> HIDE DEF compressed
<1>8. /\ IsSequence(compressed.items) /\ Told(compressed.items, c.inputs, Nat)
      /\ compressed.errors = << >> => DOMAIN compressed.items = DOMAIN c.inputs
  <2>1. IsSequence(compressed.items) /\ Told(compressed.items, c.inputs, Nat)
    BY <1>6, <1>7, ToldCompressed
  <2>2. compressed.errors = << >> =>
          DOMAIN compressed.items = DOMAIN serialized.items /\ serialized.errors = << >>
    BY <1>6, <1>7, NothingIsLost
  <2>3. QED
    BY <1>6, <2>1, <2>2
<1>9. joined = TransformJoinEnvelopes(compressed)
  OBVIOUS
<1>10. body = Joined(joined)
  OBVIOUS
<1> HIDE DEF joined, body
<1>11. /\ body.is = "envelopes" /\ IsSequence(body.envelopes)
       /\ Told(body.envelopes, c.inputs, Nat)
       /\ DOMAIN body.envelopes = DOMAIN compressed.items /\ compressed.errors = << >>
  BY <1>1, <1>8, <1>9, <1>10, ToldJoined
<1>12. Told(body.envelopes, c.inputs, Places(c))
  BY <1>11 DEF Told, Places
<1>13. TakesOne(c.kind) => body.envelopes # << >>
  BY <1>2, <1>8, <1>11, EmptySequence
<1>14. QED
  BY <1>1, <1>11, <1>12, <1>13 DEF Asks

\* So does the body of its unary requests of Connect.
LEMMA NodeConnectUnaryAsks ==
  ASSUME NEW c \in Calls, TakesOne(c.kind), ~NodeConnectUnaryRequest(c).raised
  PROVE  Asks(c, NodeConnectUnaryRequest(c).value.body)
<1> DEFINE data == Serialize(c.inputs[1], c.client.binary)
<1>1. /\ ~data.raised
      /\ NodeConnectUnaryRequest(c).value.body
           \in {BareBody(Compress(data.value, c.client.send)), BareBody(data.value)}
  BY DEF NodeConnectUnaryRequest, ClientSerialize, Request, Return, Raise
<1>2. 1 \in DOMAIN c.inputs /\ IsMessage(c.inputs[1])
  BY CallsAssumption
<1>3. Bears(data.value, c.inputs[1])
  BY <1>1, <1>2, SerializedBears
<1> HIDE DEF data
<1>4. Bears(Compress(data.value, c.client.send), c.inputs[1])
  BY <1>3 DEF Bears, AreFields, Compress
<1>5. QED
  BY <1>1, <1>2, <1>3, <1>4 DEF BareBody, Asks

\* So do the bodies that browsers send.
LEMMA WebAsks ==
  ASSUME NEW c \in Calls, 1 \in DOMAIN c.inputs,
         NEW body \in {WebBody(c, TRUE), WebBody(c, FALSE), WebConnectRequestBody(c),
                       WebGrpcWebRequestBody(c), LegacyConnectBody(c), LegacyGrpcWebBody(c)},
         ~body.raised,
         TakesOne(c.kind) \/ body \in WebOnly(c)
  PROVE  Asks(c, body.value)
<1> DEFINE data == Serialize(c.inputs[1], c.client.binary)
           binary == BinarySerialize(c.inputs[1])
           end == Envelope({"end"}, EmptyData)
           both(d) == <<Envelope({}, d), end>>
<1>1. \/ ~data.raised /\ body.value \in {Enveloped(data.value), BareBody(data.value)}
      \/ /\ ~data.raised /\ body \notin WebOnly(c)
         /\ body.value = EncodeEnvelopes(both(data.value))
      \/ body.value = Enveloped(binary.value)
  BY WebBodyValues, Zenon
<1>2. IsMessage(c.inputs[1])
  BY CallsAssumption
<1>3. ~data.raised => Bears(data.value, c.inputs[1])
  BY <1>2, SerializedBears
<1>4. Bears(binary.value, c.inputs[1])
  BY <1>2 DEF BinarySerialize, Return, Data, Bears, AreFields
<1> HIDE DEF data, binary
<1>5. ASSUME NEW d, Bears(d, c.inputs[1])
      PROVE  Asks(c, Enveloped(d)) /\ Asks(c, BareBody(d))
  <2> DEFINE one == <<Envelope({}, d)>>
  <2>1. IsSequence(one) /\ DOMAIN one = {1} /\ Len(one) = 1 /\ one[1] = Envelope({}, d) /\ one # << >>
    BY SingletonSequence
  <2>2. Enveloped(d) = EncodeEnvelopes(one)
    BY DEF Enveloped, EncodeEnvelope
  <2> HIDE DEF one
  <2>3. Told(one, c.inputs, Places(c))
    BY <1>5, <2>1, EnvelopeBears DEF Told
  <2>4. QED
    BY <1>5, <2>1, <2>2, <2>3 DEF Asks, EncodeEnvelopes, BareBody
<1>6. ASSUME NEW d, Bears(d, c.inputs[1]), body \notin WebOnly(c)
      PROVE  Asks(c, EncodeEnvelopes(both(d)))
  <2>1. both(d) = [n \in 1..2 |-> both(d)[n]] /\ both(d)[1] = Envelope({}, d) /\ Len(both(d)) = 2
        /\ both(d) # << >>
    OBVIOUS
  <2> HIDE DEF both
  <2>2. IsSequence(both(d)) /\ DOMAIN both(d) = 1..2
    BY <2>1, BuiltSequence
  <2>3. TakesOne(c.kind)
    BY <1>6
  <2>4. Told(both(d), c.inputs, {1})
    BY <1>6, <2>1, <2>2, EnvelopeBears DEF Told
  <2>5. QED
    BY <2>1, <2>2, <2>3, <2>4 DEF Asks, EncodeEnvelopes, Places
<1>7. QED
  BY <1>1, <1>3, <1>4, <1>5, <1>6

\* Whatever the transport, the body of a request tells the inputs of its call.
LEMMA RequestAsks ==
  ASSUME NEW c \in Calls, ~MakeRequest(c).raised
  PROVE  Asks(c, MakeRequest(c).value.body)
<1>1. /\ c.kind = "unary" => TakesOne(c.kind)
      /\ TakesOne(c.kind) => 1 \in DOMAIN c.inputs
      /\ c.platform = "legacy" => TakesOne(c.kind)
      /\ c.inputs # << >> => 1 \in DOMAIN c.inputs
  BY CallsAssumption, SequenceFacts DEF TakesOne
<1>2. CASE c.platform = "node"
  <2>1. \/ MakeRequest(c) = NodeConnectUnaryRequest(c) /\ c.kind = "unary"
        \/ \E header : MakeRequest(c) = Upload(c, header)
    BY <1>2, CallsAssumption DEF MakeRequest, NodeConnectStreamRequest, NodeGrpcUnaryRequest,
         NodeGrpcStreamRequest, NodeGrpcWebUnaryRequest, NodeGrpcWebStreamRequest
  <2>2. QED
    BY <1>1, <2>1, NodeConnectUnaryAsks, UploadAsks
<1>3. CASE c.platform # "node"
  <2> DEFINE unary == {WebBody(c, TRUE), WebBody(c, FALSE)}
             legacy == {LegacyConnectBody(c), LegacyGrpcWebBody(c)}
             streaming == {WebConnectRequestBody(c), WebGrpcWebRequestBody(c)}
  <2>1. \E header, body : /\ MakeRequest(c) = WebRequest(header, body)
                          /\ \/ c.kind = "unary" /\ body \in unary
                             \/ c.platform = "legacy" /\ body \in legacy
                             \/ c.platform = "web" /\ body \in streaming
    BY <1>3, CallsAssumption DEF MakeRequest, WebConnectUnaryRequest, WebConnectStreamRequest,
         WebGrpcWebUnaryRequest, WebGrpcWebStreamRequest, LegacyConnectUnaryRequest,
         LegacyConnectStreamRequest, LegacyGrpcWebUnaryRequest, LegacyGrpcWebStreamRequest
  <2>2. PICK header, body : /\ MakeRequest(c) = WebRequest(header, body)
                            /\ \/ c.kind = "unary" /\ body \in unary
                               \/ c.platform = "legacy" /\ body \in legacy
                               \/ c.platform = "web" /\ body \in streaming
    BY <2>1
  <2>3. ~body.raised /\ MakeRequest(c).value.body = body.value
    BY <2>2, WebRequestBody
  <2>4. body \in streaming => 1 \in DOMAIN c.inputs
    <3>1. c.inputs = << >> => WebConnectRequestBody(c).raised /\ WebGrpcWebRequestBody(c).raised
      BY Outcomes DEF WebConnectRequestBody, WebGrpcWebRequestBody
    <3>2. QED
      BY <1>1, <2>3, <3>1
  <2>5. body \in unary \cup streaming => body \in WebOnly(c)
    BY DEF WebOnly
  <2>6. 1 \in DOMAIN c.inputs /\ (TakesOne(c.kind) \/ body \in WebOnly(c))
    BY <1>1, <2>2, <2>4, <2>5
  <2>7. body \in {WebBody(c, TRUE), WebBody(c, FALSE), WebConnectRequestBody(c),
                  WebGrpcWebRequestBody(c), LegacyConnectBody(c), LegacyGrpcWebBody(c)}
    BY <2>2
  <2>8. QED
    BY <2>3, <2>6, <2>7, WebAsks
<1>4. QED
  BY <1>2, <1>3

-----------------------------------------------------------------------------
(* Messages arrive: what a handler reads                                   *)

\* Data of the first message, or of none
Tells(data, messages) == Unreadable(data) \/ (1 \in DOMAIN messages /\ Bears(data, messages[1]))

\* What is read of a body is its data.
LEMMA ReadIsData ==
  ASSUME NEW body, NEW max, NEW hint, ~TransformReadAllBytes(body, max, hint).raised
  PROVE  TransformReadAllBytes(body, max, hint).value = BodyData(body)
<1> DEFINE promised == SimpleError("promised other bytes", Code.InvalidArgument)
<1>1. TransformReadAllBytes(body, max, hint) \in {Raise(TooLarge), Raise(promised), Return(BodyData(body))}
  <2> HIDE DEF promised
  <2>1. QED
    BY DEF TransformReadAllBytes, ReadAllBytes, promised
<1> HIDE DEF promised
<1>2. QED
  BY <1>1, Outcomes

\* Bytes of envelopes are no message.
LEMMA BodyTells ==
  ASSUME NEW body, NEW messages,
         \/ body.is = "bare" /\ Tells(body.data, messages)
         \/ body.is = "envelopes" /\ IsSequence(body.envelopes) /\ body.envelopes # << >>
  PROVE  Tells(BodyData(body), messages)
<1>1. CASE body.is = "bare"
  BY <1>1 DEF BodyData
<1>2. CASE body.is = "envelopes"
  <2> DEFINE length == Len(body.envelopes)
             sizes == {MaxSize, length}
  <2>1. length \in Nat /\ length # 0 /\ MaxSize \in Nat /\ MaxSize # 0
    BY <1>2, SequenceFacts DEF MaxSize
  <2>2. length + MaxSize \in Nat /\ sizes \in SUBSET (1..(length + MaxSize)) /\ sizes # {}
    BY <2>1
  <2> HIDE DEF sizes
  <2>3. Min(sizes) # 0
    <3>1. Min(sizes) \in sizes
      BY <2>2, LeastIsMin
    <3>2. QED
      BY <2>2, <3>1
  <2>4. BodyData(body) = Data([is |-> "garbage"], "none", Min(sizes))
    BY <1>2 DEF BodyData, sizes
  <2>5. QED
    BY <2>3, <2>4 DEF Data, Tells, Unreadable, AreFields
<1>3. QED
  BY <1>1, <1>2

\* A server reads the inputs of a streaming request in their order.
LEMMA InputsTold ==
  ASSUME NEW s, NEW q, NEW messages, NEW places,
         q.body.is = "envelopes" =>
           IsSequence(q.body.envelopes) /\ Told(q.body.envelopes, messages, places),
         NEW compression, NEW binary, NEW endFlag, endFlag # "compressed"
  PROVE  Messages(Inputs(s, q, compression, binary, endFlag).items, messages, places)
<1> DEFINE max == s.readMaxBytes
           split == TransformSplitEnvelope(q.body, max)
           prepended == TransformPrepend(split, compression.errors)
           decompressed == TransformDecompressEnvelope(prepended, compression.request, max)
           parsed == TransformParseEnvelope(decompressed, binary, endFlag)
<1>1. Inputs(s, q, compression, binary, endFlag) = parsed
  BY DEF Inputs
<1>2. IsSequence(split.items) /\ Told(split.items, messages, places)
  BY ToldSplit
<1> HIDE DEF split
<1>3. IsSequence(prepended.items) /\ Told(prepended.items, messages, places)
  BY <1>2, ToldPrepended
<1> HIDE DEF prepended
<1>4. IsSequence(decompressed.items) /\ Told(decompressed.items, messages, places)
  BY <1>3, ToldDecompressed
<1> HIDE DEF decompressed
<1>5. Messages(parsed.items, messages, places)
  BY <1>4, ToldParsed
<1>6. QED
  BY <1>1, <1>5

\* It reads the input of a unary request of Connect.
LEMMA UnaryInputTold ==
  ASSUME NEW s, NEW q, NEW messages, Tells(BodyData(q.body), messages),
         NEW compression, NEW binary
  PROVE  Messages(UnaryInput(s, q, compression, binary).items, messages, {1})
<1> DEFINE max == s.readMaxBytes
           hint == IF Has(q.header, "content-length") THEN q.header["content-length"][1] ELSE -1
           flags == IF compression.request = "identity" THEN {} ELSE {"compressed"}
           source == TransformPrepend(Stream(<<q.body>>), compression.errors)
           read == [n \in DOMAIN source.items |-> TransformReadAllBytes(source.items[n], max, hint)]
           bytes == Yielded(read, source.errors)
           wrapped == [n \in DOMAIN bytes.items |-> Return(Envelope(flags, bytes.items[n]))]
           envelopes == Yielded(wrapped, bytes.errors)
           decompressed == TransformDecompressEnvelope(envelopes, compression.request, max)
           parsed == TransformParseEnvelope(decompressed, binary, "none")
<1>1. UnaryInput(s, q, compression, binary) = parsed
  BY DEF UnaryInput, Through
<1>2. IsSequence(source.items) /\ \A n \in DOMAIN source.items : n = 1 /\ source.items[n] = q.body
  <2>1. /\ IsSequence(Stream(<<q.body>>).items)
        /\ \A n \in DOMAIN Stream(<<q.body>>).items : n = 1 /\ Stream(<<q.body>>).items[n] = q.body
    BY SingletonSequence DEF Stream
  <2>2. QED
    BY <2>1, PrependedItems
<1>3. flags \subseteq {"compressed"}
  OBVIOUS
<1> HIDE DEF source, hint, flags
<1>4. /\ IsSequence(bytes.items)
      /\ \A n \in DOMAIN bytes.items : n = 1 /\ bytes.items[n] = BodyData(q.body)
  <2>1. read = [n \in DOMAIN source.items |-> read[n]]
    OBVIOUS
  <2>2. \A n \in DOMAIN source.items : read[n] = TransformReadAllBytes(source.items[n], max, hint)
    OBVIOUS
  <2> HIDE DEF read
  <2>3. /\ IsSequence(bytes.items)
        /\ \A n \in DOMAIN bytes.items :
             n \in DOMAIN source.items /\ ~read[n].raised /\ bytes.items[n] = read[n].value
    BY <1>2, <2>1, ThroughItems
  <2>4. QED
    BY <1>2, <2>2, <2>3, ReadIsData
<1> HIDE DEF bytes
<1>5. /\ IsSequence(envelopes.items)
      /\ \A n \in DOMAIN envelopes.items :
           n = 1 /\ ~Flagged(envelopes.items[n]) /\ envelopes.items[n].data = BodyData(q.body)
  <2>1. wrapped = [n \in DOMAIN bytes.items |-> wrapped[n]]
    OBVIOUS
  <2>2. \A n \in DOMAIN bytes.items :
          wrapped[n].value.data = bytes.items[n] /\ ~Flagged(wrapped[n].value)
    BY <1>3 DEF Return, Envelope, Flagged
  <2> HIDE DEF wrapped
  <2>3. /\ IsSequence(envelopes.items)
        /\ \A n \in DOMAIN envelopes.items :
             n \in DOMAIN bytes.items /\ envelopes.items[n] = wrapped[n].value
    BY <1>4, <2>1, ThroughItems
  <2>4. QED
    BY <1>4, <2>2, <2>3
<1> HIDE DEF envelopes
<1>6. Told(envelopes.items, messages, {1})
  <2>1. ASSUME NEW n \in DOMAIN envelopes.items
        PROVE  n = Len(envelopes.items)
    <3>1. Len(envelopes.items) \in Nat /\ DOMAIN envelopes.items = 1..Len(envelopes.items)
      BY <1>5, SequenceFacts
    <3>2. Len(envelopes.items) \in DOMAIN envelopes.items
      BY <2>1, <3>1
    <3>3. QED
      BY <1>5, <2>1, <3>2
  <2>2. QED
    BY <1>5, <2>1 DEF Told, Tells
<1>7. IsSequence(decompressed.items) /\ Told(decompressed.items, messages, {1})
  BY <1>5, <1>6, ToldDecompressed
<1> HIDE DEF decompressed
<1>8. Messages(parsed.items, messages, {1})
  BY <1>7, ToldParsed
<1>9. QED
  BY <1>1, <1>8

\* The messages an implementation returns, what it returns else, and the ones it is given
Outputs(spec) ==
  /\ IsSequence(spec.impl.outputs)
  /\ \A n \in DOMAIN spec.impl.outputs :
       spec.impl.outputs[n].is = "message" => IsMessage(spec.impl.outputs[n])

\* An implementation is given what was read, and what it returns is sent.
LEMMA InvokedTold ==
  ASSUME NEW spec, Outputs(spec), NEW header, NEW input, NEW messages,
         Messages(input.items, messages, IF TakesOne(spec.kind) THEN {1} ELSE Nat),
         NEW out, out = InvokeImplementation(spec, header, input)
  PROVE  /\ out.given # << >> => Messages(out.given[1].inputs, messages, Nat)
         /\ Messages(out.items, spec.impl.outputs, Nat)
         /\ \A n \in DOMAIN out.items : IsMessage(out.items[n])
<1> DEFINE source ==
             [items |-> CASE ~ReturnsOne(spec.kind) -> spec.impl.outputs
                          [] ReturnsOne(spec.kind) /\ spec.impl.failure = << >> -> FirstOf(spec.impl.outputs)
                          [] OTHER -> << >>,
              errors |-> [n \in DOMAIN spec.impl.failure |-> HandlerError(spec.impl.failure[n])]]
           results == [n \in DOMAIN source.items |-> NormalizeOutput(source.items[n])]
           outputs == Yielded(results, source.errors)
           Invoked(inputs, items, errors) ==
             [given |-> <<[header |-> header, inputs |-> inputs]>>, items |-> items, errors |-> errors]
           first == FirstOf(input.items)
<1>1. \/ ~TakesOne(spec.kind) /\ \E items \in {outputs.items, << >>} : \E errors :
           out = Invoked(input.items, items, errors)
      \/ out.given = << >> /\ out.items = << >>
      \/ TakesOne(spec.kind) /\ \E errors : out = Invoked(first, outputs.items, errors)
  <2> DEFINE extra == SimpleError("extra input message", Code.InvalidArgument)
             none == SimpleError("missing input message", Code.InvalidArgument)
  <2> HIDE DEF first, none, extra
  <2>1. out = CASE ~TakesOne(spec.kind) /\ input.errors = << >> ->
                     Invoked(input.items, outputs.items, outputs.errors)
                [] ~TakesOne(spec.kind) /\ input.errors # << >> -> Invoked(input.items, << >>, input.errors)
                [] TakesOne(spec.kind) /\ first = << >> ->
                     [given |-> << >>, items |-> << >>,
                      errors |-> IF input.errors # << >> THEN input.errors ELSE <<none>>]
                [] OTHER ->
                     Invoked(first, outputs.items,
                             CASE outputs.errors # << >> -> outputs.errors
                               [] outputs.errors = << >> /\ input.items # first -> <<extra>>
                               [] OTHER -> input.errors)
    BY DEF InvokeImplementation, Through, first, none, extra
  <2> HIDE DEF outputs, Invoked
  <2>2. CASE ~TakesOne(spec.kind)
    BY <2>1, <2>2
  <2>3. CASE TakesOne(spec.kind) /\ first = << >>
    BY <2>1, <2>3
  <2>4. CASE TakesOne(spec.kind) /\ first # << >>
    BY <2>1, <2>4
  <2>5. QED
    BY <2>2, <2>3, <2>4, SMTT(30)
<1>2. \A inputs, items, errors :
        /\ Invoked(inputs, items, errors).given[1].inputs = inputs
        /\ Invoked(inputs, items, errors).items = items
  OBVIOUS
<1>3. /\ IsSequence(source.items)
      /\ \A n \in DOMAIN source.items :
           n \in DOMAIN spec.impl.outputs /\ source.items[n] = spec.impl.outputs[n]
  <2>1. CASE source.items = spec.impl.outputs
    <3> HIDE DEF source
    <3>1. QED
      BY <2>1 DEF Outputs
  <2>2. CASE source.items = FirstOf(spec.impl.outputs)
    <3> HIDE DEF source
    <3>1. CASE spec.impl.outputs = << >>
      BY <2>2, <3>1, EmptySequence DEF FirstOf
    <3>2. CASE spec.impl.outputs # << >>
      <4>1. 1 \in DOMAIN spec.impl.outputs
        BY <3>2, SequenceFacts DEF Outputs
      <4>2. source.items = <<spec.impl.outputs[1]>>
        BY <2>2, <3>2 DEF FirstOf
      <4>3. QED
        BY <4>1, <4>2, SingletonSequence
    <3>3. QED
      BY <3>1, <3>2
  <2>3. CASE source.items = << >>
    <3> HIDE DEF source
    <3>1. QED
      BY <2>3, EmptySequence
  <2>4. source.items \in {spec.impl.outputs, FirstOf(spec.impl.outputs), << >>}
    OBVIOUS
  <2> HIDE DEF source
  <2>5. QED
    BY <2>1, <2>2, <2>3, <2>4
<1>4. Messages(outputs.items, spec.impl.outputs, Nat) /\ \A n \in DOMAIN outputs.items : IsMessage(outputs.items[n])
  <2>1. results = [n \in DOMAIN source.items |-> results[n]]
    OBVIOUS
  <2>2. \A n \in DOMAIN source.items : ~results[n].raised =>
          results[n].value = source.items[n] /\ source.items[n].is = "message"
    BY Outcomes DEF NormalizeOutput
  <2> HIDE DEF results, source
  <2>3. /\ IsSequence(outputs.items)
        /\ \A n \in DOMAIN outputs.items :
             n \in DOMAIN source.items /\ ~results[n].raised /\ outputs.items[n] = results[n].value
    BY <1>3, <2>1, ThroughItems
  <2> HIDE DEF outputs
  <2>4. QED
    BY <1>3, <2>2, <2>3 DEF Messages, Outputs
<1>5. TakesOne(spec.kind) => Messages(first, messages, Nat)
  <2>1. CASE input.items = << >>
    BY <2>1, EmptySequence DEF FirstOf, Messages
  <2>2. CASE input.items # << >> /\ TakesOne(spec.kind)
    <3>1. 1 \in DOMAIN input.items
      BY <2>2, SequenceFacts DEF Messages
    <3>2. first = <<input.items[1]>>
      BY <2>2 DEF FirstOf
    <3>3. IsSequence(first) /\ DOMAIN first = {1} /\ first[1] = input.items[1]
      BY <3>2, SingletonSequence
    <3> HIDE DEF first
    <3>4. QED
      BY <2>2, <3>1, <3>3 DEF Messages
  <2>3. QED
    BY <2>1, <2>2
<1>6. Messages(<< >>, spec.impl.outputs, Nat) /\ DOMAIN << >> = {}
  BY EmptySequence DEF Messages
<1> HIDE DEF first, outputs, Invoked, source
<1>7. QED
  BY <1>1, <1>2, <1>4, <1>5, <1>6

-----------------------------------------------------------------------------
(* Messages arrive: what a handler answers                                 *)

\* A response that gives the implementation what was asked, and returns what it does
Passes(r, inputs, outputs) ==
  /\ r.given # << >> => Messages(r.given[1].inputs, inputs, Nat)
  /\ r.body.is = "envelopes" => IsSequence(r.body.envelopes) /\ Told(r.body.envelopes, outputs, Nat)

\* A refusal gives nothing and returns nothing.
LEMMA RefusalPasses ==
  ASSUME NEW status, NEW header, NEW inputs, NEW outputs
  PROVE  /\ Passes(Refuse(status), inputs, outputs)
         /\ Passes([Refuse(status) EXCEPT !.header = header], inputs, outputs)
<1>1. BareBody(EmptyData).is # "envelopes"
  BY DEF BareBody
<1>2. QED
  BY <1>1 DEF Refuse, Respond, Passes

\* A response with envelopes passes what they tell.
LEMMA StreamPasses ==
  ASSUME NEW inputs, NEW outputs, NEW given,
         given # << >> => Messages(given[1].inputs, inputs, Nat),
         NEW sent, IsSequence(sent.items), Told(sent.items, outputs, Nat),
         NEW header, NEW trailer
  PROVE  Passes(Respond(200, header, Body(sent), trailer, given), inputs, outputs)
<1> DEFINE body == Body(sent)
<1>1. body.envelopes = sent.items
  BY DEF Body, EncodeEnvelopes
<1> HIDE DEF body
<1>2. QED
  BY <1>1 DEF Respond, Passes, body

\* Messages, and an end that is no message, are sent as they are.
LEMMA ToldEnded ==
  ASSUME NEW invoked, NEW messages, Messages(invoked.items, messages, Nat),
         \A n \in DOMAIN invoked.items : IsMessage(invoked.items[n]),
         NEW binary, NEW max,
         NEW outputs, outputs = TransformSerializeEnvelope(invoked, binary, max),
         NEW end, Unreadable(end.data),
         NEW compression, NEW minBytes,
         NEW sent, sent = TransformCompressEnvelope(Stream(outputs.items \o <<end>>), compression, minBytes)
  PROVE  IsSequence(sent.items) /\ Told(sent.items, messages, Nat)
<1> DEFINE stream == Stream(outputs.items \o <<end>>)
<1>1. /\ IsSequence(outputs.items)
      /\ \A n \in DOMAIN outputs.items :
           /\ outputs.items[n].flags = {}
           /\ n \in DOMAIN messages /\ Bears(outputs.items[n].data, messages[n])
  BY ToldSerialized
<1>2. IsSequence(<<end>>) /\ DOMAIN <<end>> = {1} /\ <<end>>[1] = end
  BY SingletonSequence
<1>3. Len(<<end>>) = 1
  OBVIOUS
<1>4. /\ IsSequence(stream.items) /\ Len(stream.items) = Len(outputs.items) + 1
      /\ \A n \in DOMAIN stream.items :
           \/ n \in DOMAIN outputs.items /\ stream.items[n] = outputs.items[n]
           \/ n - Len(outputs.items) = 1 /\ stream.items[n] = end
  BY <1>1, <1>2, <1>3, Concatenation DEF Stream
<1>5. Len(outputs.items) \in Nat /\ DOMAIN stream.items = 1..Len(stream.items)
  BY <1>1, <1>4, SequenceFacts
<1> HIDE DEF stream
<1>6. \A n \in DOMAIN stream.items :
        \/ ~Flagged(stream.items[n]) /\ n \in DOMAIN messages /\ Bears(stream.items[n].data, messages[n])
        \/ n = Len(stream.items) /\ Unreadable(stream.items[n].data)
  <2>1. ASSUME NEW n \in DOMAIN stream.items, n - Len(outputs.items) = 1
        PROVE  n = Len(stream.items)
    <3>1. \A k \in Nat : \A i \in Nat : i - k = 1 => i = k + 1
      OBVIOUS
    <3>2. n \in Nat
      BY <1>5
    <3>3. QED
      BY <1>4, <1>5, <2>1, <3>1, <3>2
  <2>2. \A n \in DOMAIN outputs.items : ~Flagged(outputs.items[n])
    BY <1>1 DEF Flagged
  <2>3. QED
    BY <1>1, <1>4, <2>1, <2>2
<1>7. Told(stream.items, messages, Nat)
  BY <1>6 DEF Told
<1>8. sent = TransformCompressEnvelope(stream, compression, minBytes)
  BY DEF stream
<1>9. QED
  BY <1>4, <1>7, <1>8, ToldCompressed

\* What the body of a request tells, a handler of envelopes reads.
LEMMA AskedInputs ==
  ASSUME NEW c, NEW s, NEW q, Asks(c, q.body), NEW compression, NEW binary, NEW endFlag, endFlag # "compressed"
  PROVE  Messages(Inputs(s, q, compression, binary, endFlag).items, c.inputs, Places(c))
<1>1. q.body.is = "envelopes" => IsSequence(q.body.envelopes) /\ Told(q.body.envelopes, c.inputs, Places(c))
  BY DEF Asks
<1>2. QED
  BY <1>1, InputsTold

\* The handler of gRPC does.
LEMMA GrpcPasses ==
  ASSUME NEW s, NEW c, NEW spec, Outputs(spec), spec.kind = c.kind, NEW q, Asks(c, q.body)
  PROVE  Passes(HandleGrpc(s, spec, q), c.inputs, spec.impl.outputs)
<1> DEFINE type == ParseGrpcType(Get(q.header, "content-type"))
           binary == type[1].binary
           compression == CompressionNegotiate(s.accept, q.header, "grpc-encoding", "grpc-accept-encoding")
           context == CreateHandlerContext(
                        SetIf(compression.response # "identity", Field("content-type", GrpcType(binary)),
                              "grpc-encoding", <<compression.response>>), GrpcStatusOk)
           input == Inputs(s, q, compression, binary, "none")
           invoked == InvokeImplementation(spec, q.header, input)
           outputs == TransformSerializeEnvelope(invoked, binary, s.writeMaxBytes)
           sent == TransformCompressEnvelope(outputs, compression.response, s.compressMinBytes)
           started == TrailerAtEnd(context.trailer, spec.impl, invoked)
           trailer == IF sent.errors = << >> THEN started ELSE SetTrailerStatus(started, sent.errors)
           header == HeaderAtFirstChunk(context.header, spec, invoked)
<1>1. HandleGrpc(s, spec, q) \in {Refuse(UnsupportedMediaType), Refuse(MethodNotAllowed),
                                  Respond(200, header, Body(sent), trailer, invoked.given)}
  BY DEF HandleGrpc
<1> HIDE DEF trailer, header, context, type, compression
<1>2. Messages(input.items, c.inputs, IF TakesOne(spec.kind) THEN {1} ELSE Nat)
  BY AskedInputs DEF Places
<1> HIDE DEF input
<1>3. /\ invoked.given # << >> => Messages(invoked.given[1].inputs, c.inputs, Nat)
      /\ Messages(invoked.items, spec.impl.outputs, Nat)
      /\ \A n \in DOMAIN invoked.items : IsMessage(invoked.items[n])
  BY <1>2, InvokedTold
<1> HIDE DEF invoked
<1>4. IsSequence(outputs.items) /\ Told(outputs.items, spec.impl.outputs, Nat)
  BY <1>3, ToldSerialized
<1> HIDE DEF outputs
<1>5. IsSequence(sent.items) /\ Told(sent.items, spec.impl.outputs, Nat)
  BY <1>4, ToldCompressed
<1> HIDE DEF sent
<1>6. Passes(Respond(200, header, Body(sent), trailer, invoked.given), c.inputs, spec.impl.outputs)
  BY <1>3, <1>5, StreamPasses
<1>7. QED
  BY <1>1, <1>6, RefusalPasses, ZenonT(60)

\* Those that end their streams with an envelope do.
LEMMA EndedPasses ==
  ASSUME NEW invoked, NEW inputs, NEW messages,
         invoked.given # << >> => Messages(invoked.given[1].inputs, inputs, Nat),
         Messages(invoked.items, messages, Nat),
         \A n \in DOMAIN invoked.items : IsMessage(invoked.items[n]),
         NEW header, NEW binary, NEW max, NEW compression, NEW minBytes,
         NEW outputs, outputs = TransformSerializeEnvelope(invoked, binary, max),
         NEW end, Unreadable(end.data),
         NEW sent, sent = TransformCompressEnvelope(TransformCatchFinally(outputs, <<end>>), compression, minBytes)
  PROVE  /\ Passes(Respond(200, header, Body(sent), NoHeaders, invoked.given), inputs, messages)
         /\ IsSequence(sent.items) /\ Told(sent.items, messages, Nat)
<1>1. sent = TransformCompressEnvelope(Stream(outputs.items \o <<end>>), compression, minBytes)
  BY DEF TransformCatchFinally
<1>2. IsSequence(sent.items) /\ Told(sent.items, messages, Nat)
  BY <1>1, ToldEnded
<1>3. QED
  BY <1>2, StreamPasses

\* The handler of gRPC-web does.
LEMMA GrpcWebPasses ==
  ASSUME NEW s, NEW c, NEW spec, Outputs(spec), spec.kind = c.kind, NEW q, Asks(c, q.body)
  PROVE  Passes(HandleGrpcWeb(s, spec, q), c.inputs, spec.impl.outputs)
<1> DEFINE type == ParseGrpcWebType(Get(q.header, "content-type"))
           binary == type[1].binary
           compression == CompressionNegotiate(s.accept, q.header, "grpc-encoding", "grpc-accept-encoding")
           context == CreateHandlerContext(
                        SetIf(compression.response # "identity", Field("content-type", GrpcWebType(binary)),
                              "grpc-encoding", <<compression.response>>), GrpcStatusOk)
           input == Inputs(s, q, compression, binary, "trailer")
           invoked == InvokeImplementation(spec, q.header, input)
           outputs == TransformSerializeEnvelope(invoked, binary, s.writeMaxBytes)
           trailer == TrailerAtEnd(context.trailer, spec.impl, invoked)
           ended == IF outputs.errors = << >> THEN trailer ELSE SetTrailerStatus(trailer, outputs.errors)
           end == Envelope({"trailer"}, LinesData(TrailerSerialize(ended)))
           sent == TransformCompressEnvelope(TransformCatchFinally(outputs, <<end>>),
                                             compression.response, s.compressMinBytes)
           header == HeaderAtFirstChunk(context.header, spec, invoked)
<1>1. HandleGrpcWeb(s, spec, q) \in {Refuse(UnsupportedMediaType), Refuse(MethodNotAllowed),
                                     Respond(200, header, Body(sent), NoHeaders, invoked.given)}
  BY DEF HandleGrpcWeb
<1>2. Unreadable(end.data)
  <2> HIDE DEF ended
  <2>1. QED
    BY DEF Envelope, LinesData, Data, Unreadable, AreFields
<1> HIDE DEF end, header, context, type, compression
<1>3. Messages(input.items, c.inputs, IF TakesOne(spec.kind) THEN {1} ELSE Nat)
  BY AskedInputs DEF Places
<1> HIDE DEF input
<1>4. /\ invoked.given # << >> => Messages(invoked.given[1].inputs, c.inputs, Nat)
      /\ Messages(invoked.items, spec.impl.outputs, Nat)
      /\ \A n \in DOMAIN invoked.items : IsMessage(invoked.items[n])
  BY <1>3, InvokedTold
<1> HIDE DEF invoked
<1>5. Passes(Respond(200, header, Body(sent), NoHeaders, invoked.given), c.inputs, spec.impl.outputs)
  BY <1>2, <1>4, EndedPasses, ZenonT(60)
<1> HIDE DEF sent
<1>6. QED
  BY <1>1, <1>5, RefusalPasses, ZenonT(60)

\* The one of Connect does, for a streaming method.
LEMMA ConnectStreamPasses ==
  ASSUME NEW s, NEW c, NEW spec, Outputs(spec), spec.kind = c.kind, NEW q, Asks(c, q.body)
  PROVE  Passes(HandleConnectStream(s, spec, q), c.inputs, spec.impl.outputs)
<1> DEFINE type == ParseConnectType(Get(q.header, "content-type"))
           binary == type[1].binary
           compression == CompressionNegotiate(s.accept, q.header, "connect-content-encoding",
                                               "connect-accept-encoding")
           context == CreateHandlerContext(
                        SetIf(compression.response # "identity",
                              Field("content-type", ConnectType(TRUE, binary)),
                              "connect-content-encoding", <<compression.response>>), NoHeaders)
           input == Inputs(s, q, compression, binary, "end")
           invoked == InvokeImplementation(spec, q.header, input)
           outputs == TransformSerializeEnvelope(invoked, binary, s.writeMaxBytes)
           said == [metadata |-> TrailerAtEnd(context.trailer, spec.impl, invoked),
                    errors |-> outputs.errors]
           end == Envelope({"end"}, EndStreamSerialize(said))
           sent == TransformCompressEnvelope(TransformCatchFinally(outputs, <<end>>),
                                             compression.response, s.compressMinBytes)
           header == HeaderAtFirstChunk(context.header, spec, invoked)
<1>1. HandleConnectStream(s, spec, q) \in {Refuse(UnsupportedMediaType), Refuse(MethodNotAllowed),
                                           Respond(200, header, Body(sent), NoHeaders, invoked.given)}
  BY DEF HandleConnectStream
<1>2. Unreadable(end.data)
  <2> HIDE DEF said
  <2>1. QED
    BY DEF Envelope, EndStreamSerialize, JsonData, Data, Unreadable, AreFields
<1> HIDE DEF end, header, context, type, compression
<1>3. Messages(input.items, c.inputs, IF TakesOne(spec.kind) THEN {1} ELSE Nat)
  BY AskedInputs DEF Places
<1> HIDE DEF input
<1>4. /\ invoked.given # << >> => Messages(invoked.given[1].inputs, c.inputs, Nat)
      /\ Messages(invoked.items, spec.impl.outputs, Nat)
      /\ \A n \in DOMAIN invoked.items : IsMessage(invoked.items[n])
  BY <1>3, InvokedTold
<1> HIDE DEF invoked
<1>5. Passes(Respond(200, header, Body(sent), NoHeaders, invoked.given), c.inputs, spec.impl.outputs)
  BY <1>2, <1>4, EndedPasses, ZenonT(60)
<1> HIDE DEF sent
<1>6. QED
  BY <1>1, <1>5, RefusalPasses

\* A unary response tells the message that was returned, if it has a type.
PassesUnary(r, outputs) ==
  /\ "header" \in DOMAIN r /\ r.body.is = "bare"
  /\ Has(r.header, "content-type") => Tells(r.body.data, outputs)

\* A refusal has no type.
LEMMA RefusalPassesUnary ==
  ASSUME NEW status, NEW header, ~Has(header, "content-type"), NEW outputs
  PROVE  /\ PassesUnary(Refuse(status), outputs)
         /\ PassesUnary([Refuse(status) EXCEPT !.header = header], outputs)
<1>1. BareBody(EmptyData).is = "bare"
  BY DEF BareBody
<1>2. ~Has(NoHeaders, "content-type")
  BY EmptySequence DEF Has, NoHeaders
<1>3. QED
  BY <1>1, <1>2 DEF Refuse, Respond, PassesUnary

\* What a unary handler sends is the message, or an error, which is no message.
LEMMA UnaryTold ==
  ASSUME NEW invoked, NEW messages, Messages(invoked.items, messages, Nat),
         \A n \in DOMAIN invoked.items : IsMessage(invoked.items[n]),
         invoked.items # << >> \/ invoked.errors # << >>,
         NEW binary, NEW max,
         NEW outputs, outputs = TransformSerializeEnvelope(invoked, binary, max),
         NEW compression, NEW minBytes, NEW caught,
         caught = TransformCatch(outputs, <<Envelope({}, ErrorToJsonBytes(outputs.errors[1]))>>),
         NEW sent, sent = TransformCompressEnvelope(caught, compression, minBytes).items
  PROVE  Tells(sent[1].data, messages)
<1> DEFINE end == Envelope({}, ErrorToJsonBytes(outputs.errors[1]))
           out == TransformCompressEnvelope(caught, compression, minBytes)
<1>1. 1 \in DOMAIN sent
  BY UnarySent DEF Messages
<1>2. Unreadable(end.data)
  BY DEF Envelope, ErrorToJsonBytes, JsonData, Data, Unreadable, AreFields
<1>3. caught = IF outputs.errors = << >> THEN outputs ELSE Stream(outputs.items \o <<end>>)
  BY DEF TransformCatch
<1> HIDE DEF end
<1>4. IsSequence(outputs.items) /\ Told(outputs.items, messages, Nat)
  BY ToldSerialized
<1>5. Told(out.items, messages, Nat)
  <2>1. CASE outputs.errors = << >>
    <3>1. out = TransformCompressEnvelope(outputs, compression, minBytes)
      BY <1>3, <2>1
    <3>2. QED
      BY <1>4, <3>1, ToldCompressed
  <2>2. CASE outputs.errors # << >>
    <3>1. out = TransformCompressEnvelope(Stream(outputs.items \o <<end>>), compression, minBytes)
      BY <1>3, <2>2
    <3>2. QED
      BY <1>2, <3>1, ToldEnded
  <2>3. QED
    BY <2>1, <2>2
<1>6. sent = out.items
  OBVIOUS
<1> HIDE DEF out
<1>7. QED
  BY <1>1, <1>5, <1>6 DEF Told, Tells

\* What is asked of a unary handler, it reads.
LEMMA AskedInput ==
  ASSUME NEW c, TakesOne(c.kind), NEW s, NEW q, Asks(c, q.body), NEW compression, NEW binary
  PROVE  Messages(UnaryInput(s, q, compression, binary).items, c.inputs, Places(c))
<1>1. \/ q.body.is = "bare" /\ Tells(q.body.data, c.inputs)
      \/ q.body.is = "envelopes" /\ IsSequence(q.body.envelopes) /\ q.body.envelopes # << >>
  BY DEF Asks, Tells
<1>2. Tells(BodyData(q.body), c.inputs)
  BY <1>1, BodyTells
<1>3. QED
  BY <1>2, UnaryInputTold DEF Places

\* The handler of Connect passes what is asked and returned, for a unary method.
LEMMA ConnectUnaryPasses ==
  ASSUME NEW s, NEW c, NEW spec, Implements(spec), Outputs(spec), spec.kind = "unary", spec.kind = c.kind,
         NEW q, IsBody(q.body), Asks(c, q.body)
  PROVE  /\ Passes(HandleConnectUnary(s, spec, q), c.inputs, spec.impl.outputs)
         /\ PassesUnary(HandleConnectUnary(s, spec, q), spec.impl.outputs)
<1> DEFINE type == ParseConnectType(Get(q.header, "content-type"))
           binary == type[1].binary
           compression == CompressionNegotiate(s.accept, q.header, "content-encoding", "accept-encoding")
           input == UnaryInput(s, q, compression, binary)
           invoked == InvokeImplementation(spec, q.header, input)
           outputs == TransformSerializeEnvelope(invoked, binary, s.writeMaxBytes)
           caught == TransformCatch(outputs, <<Envelope({}, ErrorToJsonBytes(outputs.errors[1]))>>)
           sent == TransformCompressEnvelope(caught, compression.response, s.compressMinBytes).items
           Responded(status, header) ==
             Respond(status, header, BareBody(sent[1].data), NoHeaders, invoked.given)
<1>1. \/ HandleConnectUnary(s, spec, q) \in {Refuse(UnsupportedMediaType), Refuse(MethodNotAllowed)}
      \/ \E status, header : HandleConnectUnary(s, spec, q) = Responded(status, header)
  BY ZenonT(60) DEF HandleConnectUnary
<1> HIDE DEF type, compression
<1>2. TakesOne(spec.kind) /\ ReturnsOne(spec.kind)
  BY DEF TakesOne, ReturnsOne
<1>3. /\ Messages(input.items, c.inputs, IF TakesOne(spec.kind) THEN {1} ELSE Nat)
      /\ IsSequence(input.items) /\ AllWithin(input.items, s.readMaxBytes)
  BY <1>2, AskedInput, UnaryInputWithin DEF Places
<1> HIDE DEF input
<1>4. /\ invoked.given # << >> => Messages(invoked.given[1].inputs, c.inputs, Nat)
      /\ Messages(invoked.items, spec.impl.outputs, Nat)
      /\ \A n \in DOMAIN invoked.items : IsMessage(invoked.items[n])
  BY <1>3, InvokedTold
<1>5. invoked.items # << >> \/ invoked.errors # << >>
  BY <1>2, <1>3, InvokedWith
<1> HIDE DEF invoked
<1>6. Tells(sent[1].data, spec.impl.outputs)
  BY <1>4, <1>5, UnaryTold
<1> HIDE DEF sent
<1>7. \A status, header : /\ Passes(Responded(status, header), c.inputs, spec.impl.outputs)
                          /\ PassesUnary(Responded(status, header), spec.impl.outputs)
  <2>1. BareBody(sent[1].data).is = "bare" /\ BareBody(sent[1].data).data = sent[1].data
    BY DEF BareBody
  <2>2. QED
    BY <1>4, <1>6, <2>1 DEF Respond, Passes, PassesUnary
<1> HIDE DEF Responded
<1>8. ~Has(NoHeaders, "content-type")
  BY EmptySequence DEF Has, NoHeaders
<1>9. QED
  BY <1>1, <1>7, <1>8, RefusalPasses, RefusalPassesUnary

\* The type of a unary request of Connect
UnaryTyped(c, header) ==
  c.protocol = "connect" /\ c.kind = "unary" =>
    Get(header, "content-type") = ConnectType(FALSE, c.client.binary)

\* createRequestHeader() sets it, and nothing that comes later touches it.
LEMMA RequestTyped ==
  ASSUME NEW c \in Calls, ~MakeRequest(c).raised
  PROVE  UnaryTyped(c, MakeRequest(c).value.header)
<1> DEFINE base == ConnectRequestHeader(FALSE, c.client.binary, c.timeout, c.header)
           compressed == ConnectRequestHeaderWithCompression(
                           FALSE, c.client.binary, c.timeout, c.header, c.client.accept, c.client.send)
           Header(h) == RunUnary(c.interceptors, h)
           type == ConnectType(FALSE, c.client.binary)
           Typed(h) == Get(h, "content-type") = type
<1>1. SUFFICES ASSUME c.protocol = "connect", c.kind = "unary"
               PROVE  Typed(MakeRequest(c).value.header)
  BY DEF UnaryTyped
<1>2. Typed(base) /\ Typed(compressed)
  <2>1. Typed(base)
    <3>1. ASSUME NEW stream
          PROVE  Get(ConnectRequestHeader(stream, c.client.binary, c.timeout, c.header), "content-type")
                   = ConnectType(stream, c.client.binary)
      BY SetHeader DEF ConnectRequestHeader
    <3>2. QED
      BY <3>1
  <2>2. compressed = WithCompression(base, "content-encoding", c.client.send, "accept-encoding", c.client.accept)
    BY DEF ConnectRequestHeaderWithCompression, ConnectEncoding, ConnectAcceptEncoding
  <2> HIDE DEF base, compressed, type
  <2>3. "content-type" \notin {"content-encoding", "accept-encoding"}
    OBVIOUS
  <2>4. QED
    BY <2>1, <2>2, <2>3, WithCompressionHeader
<1> HIDE DEF base, compressed, type
<1>3. Typed(Header(base)) /\ Typed(Header(compressed))
  BY <1>2, RunUnaryHeader
<1>4. CASE c.platform = "node"
  <2>1. MakeRequest(c) = NodeConnectUnaryRequest(c)
    BY <1>1, <1>4 DEF MakeRequest
  <2>2. \/ NodeConnectUnaryRequest(c).raised
        \/ NodeConnectUnaryRequest(c).value.header
             \in {Set(Header(compressed), "content-encoding", <<c.client.send>>),
                  Without(Header(compressed), {"content-encoding"})}
    BY DEF NodeConnectUnaryRequest, Request, Return, Raise, compressed
  <2> HIDE DEF Header
  <2>3. /\ Typed(Set(Header(compressed), "content-encoding", <<c.client.send>>))
        /\ Typed(Without(Header(compressed), {"content-encoding"}))
    <3>1. "content-type" \notin {"content-encoding"}
      OBVIOUS
    <3>2. QED
      BY <1>3, <3>1, SetHeader, WithoutHeader
  <2>4. QED
    BY <2>1, <2>2, <2>3
<1>5. CASE c.platform # "node"
  <2>1. MakeRequest(c) \in {WebRequest(Header(base), WebBody(c, FALSE)),
                            WebRequest(Header(base), LegacyConnectBody(c))}
    BY <1>1, <1>5, CallsAssumption DEF MakeRequest, WebConnectUnaryRequest, LegacyConnectUnaryRequest,
         LegacyRunUnary, LegacyConnectHeader, base
  <2>2. PICK body : MakeRequest(c) = WebRequest(Header(base), body)
    BY <2>1
  <2> DEFINE sent == Set(Header(base), "accept-encoding", <<Gzip, "deflate", Brotli>>)
             length == <<Size(body.value.data)>>
  <2>3. MakeRequest(c).value.header = SetIf(body.value.is = "bare", sent, "content-length", length)
    BY <2>2 DEF WebRequest, Fetched, Request, Return
  <2>4. Typed(sent)
    BY <1>3, SetHeader
  <2> HIDE DEF sent, length
  <2>5. QED
    BY <2>3, <2>4, SetIfHeader
<1>6. QED
  BY <1>4, <1>5

\* Send leaves the type, and what the body asks.
LEMMA SentAsks ==
  ASSUME call \in Calls, Send, pc' = "sent"
  PROVE  /\ Asks(call, request'[1].body) /\ UnaryTyped(call, request'[1].header)
         /\ DOMAIN request'[1] = {"httpVersion", "method", "path", "header", "body"}
         /\ ~InternalHandlerOptions(call.server).raised
<1> DEFINE made == MakeRequest(call)
           pseudo == IF call.httpVersion = "2" THEN Field(":method", <<"POST">>) ELSE NoHeaders
           sent == [httpVersion |-> call.httpVersion, method |-> "POST",
                    path |-> (IF call.platform = "legacy" THEN LegacyMethodUrl(call.base, "method")
                              ELSE CreateMethodUrl(call.base, "method")),
                    header |-> WebHeaderToNodeHeaders(made.value.header, pseudo),
                    body |-> made.value.body]
<1>1. ~made.raised /\ request' = <<sent>> /\ ~InternalHandlerOptions(call.server).raised
  BY DEF Send, Settle
<1>2. sent.body = made.value.body /\ sent.header = SetAll(made.value.header, pseudo)
      /\ DOMAIN sent = {"httpVersion", "method", "path", "header", "body"}
  BY DEF WebHeaderToNodeHeaders
<1>3. ~Has(pseudo, "content-type")
  BY EmptySequence DEF Has, Field, Set, NoHeaders
<1> HIDE DEF sent, pseudo
<1>4. request'[1] = sent
  BY <1>1
<1>5. Asks(call, made.value.body) /\ UnaryTyped(call, made.value.header)
  BY <1>1, RequestAsks, RequestTyped
<1>6. UnaryTyped(call, sent.header)
  <2> DEFINE type == ConnectType(FALSE, call.client.binary)
  <2>1. Get(sent.header, "content-type") = Get(made.value.header, "content-type")
    BY <1>2, <1>3, SetAllHeader
  <2> HIDE DEF type
  <2>2. Get(made.value.header, "content-type") = type => Get(sent.header, "content-type") = type
    BY <2>1
  <2>3. QED
    BY <1>5, <2>2, Zenon DEF UnaryTyped, type
<1> HIDE DEF made
<1>7. QED
  BY <1>1, <1>2, <1>4, <1>5, <1>6

\* The implementation that a method has, or the one that throws, returns what it returns.
LEMMA SpecOutputs ==
  ASSUME NEW c \in Calls, NEW spec, spec = CreateImplSpec(c.kind, c.impl)
  PROVE  /\ Outputs(spec) /\ spec.kind = c.kind
         /\ \A r, inputs : Passes(r, inputs, spec.impl.outputs) => Passes(r, inputs, c.impl.outputs)
         /\ \A r : PassesUnary(r, spec.impl.outputs) => PassesUnary(r, c.impl.outputs)
<1>1. spec.kind = c.kind /\ spec.impl = UnimplementService(c.impl)
  BY DEF CreateImplSpec
<1>2. spec.impl.outputs \in {c.impl.outputs, << >>}
  <2>1. UnimplementService(c.impl) = c.impl \/ UnimplementService(c.impl).outputs = << >>
    BY DEF UnimplementService
  <2>2. QED
    BY <1>1, <2>1
<1>3. CASE spec.impl.outputs = c.impl.outputs
  BY <1>1, <1>3, CallsAssumption DEF Outputs
<1>4. CASE spec.impl.outputs = << >>
  <2>1. IsSequence(<< >>) /\ DOMAIN << >> = {}
    BY EmptySequence
  <2>2. \A items, messages : Told(items, << >>, Nat) => Told(items, messages, Nat)
    BY <2>1 DEF Told
  <2>3. \A data, messages : Tells(data, << >>) => Tells(data, messages)
    BY <2>1 DEF Tells
  <2>4. QED
    BY <1>1, <1>4, <2>1, <2>2, <2>3 DEF Outputs, Passes, PassesUnary
<1>5. QED
  BY <1>2, <1>3, <1>4

\* The handler of another protocol does not know the type of a unary request of Connect.
LEMMA UnaryFindsConnect ==
  ASSUME NEW c, NEW q, UnaryTyped(c, q.header),
         c.protocol = "connect", c.kind = "unary",
         NEW protocol \in {"grpc", "grpc-web", "connect"},
         ContentType(q) \in Fact(protocol, c.kind).types
  PROVE  protocol = "connect"
<1> DEFINE sent == Get(q.header, "content-type")
           type == IF Len(sent) = 1 THEN q.header["content-type"][1] ELSE NoName
<1>1. ContentType(q) = type
  BY Zenon DEF ContentType, NoName
<1>2. \E name \in {"application/proto", "application/json"} : sent = <<name>>
  BY DEF UnaryTyped, ConnectType
<1>3. PICK name \in {"application/proto", "application/json"} : sent = <<name>>
  BY <1>2
<1>4. Has(q.header, "content-type") /\ sent = q.header["content-type"]
  BY <1>3 DEF Get
<1>5. Len(<<name>>) = 1 /\ <<name>>[1] = name
  OBVIOUS
<1> HIDE DEF sent
<1>6. type = name
  BY <1>3, <1>4, <1>5
<1> HIDE DEF type
<1>7. name \notin DOMAIN GrpcTypes /\ name \notin DOMAIN GrpcWebTypes
  BY DEF GrpcTypes, GrpcWebTypes
<1>8. QED
  BY <1>1, <1>6, <1>7 DEF Fact, GrpcFact, GrpcWebFact

\* Whatever a client of this repository asks, a server passes it on, and what the
\* implementation returns.
LEMMA HandlerPasses ==
  ASSUME NEW c \in Calls, ~InternalHandlerOptions(c.server).raised,
         NEW q, DOMAIN q = {"httpVersion", "method", "path", "header", "body"},
         IsBody(q.body), Asks(c, q.body), UnaryTyped(c, q.header),
         NEW r, r = NodeHandler(c.server, CreateImplSpec(c.kind, c.impl), q)
  PROVE  /\ Passes(r, c.inputs, c.impl.outputs)
         /\ c.protocol = "connect" /\ c.kind = "unary" => PassesUnary(r, c.impl.outputs)
<1> DEFINE spec == CreateImplSpec(c.kind, c.impl)
           asked == UniversalRequestFromNode(q)
           answered == MergeHandlers(c.server, spec, asked)
           colons == {f \in DOMAIN q.header : IsPseudo(f)}
           pseudo == IF q.httpVersion = "2" THEN Field(":status", <<"status">>) ELSE NoHeaders
           IsUnary == c.protocol = "connect" /\ c.kind = "unary"
           Good(a) == Passes(a, c.inputs, spec.impl.outputs) /\ (IsUnary => PassesUnary(a, spec.impl.outputs))
<1>1. /\ Implements(spec) /\ Outputs(spec) /\ spec.kind = c.kind
      /\ \A a : Good(a) => /\ Passes(a, c.inputs, c.impl.outputs)
                           /\ IsUnary => PassesUnary(a, c.impl.outputs)
  BY SpecImplements, SpecOutputs
<1>2. /\ asked.body = q.body /\ asked.header = Without(q.header, colons)
      /\ DOMAIN asked = DOMAIN q
  BY DEF UniversalRequestFromNode, NodeHeaderToWebHeader
<1>3. UnaryTyped(c, asked.header)
  <2>1. "content-type" \notin colons
    BY FieldAssumption
  <2> HIDE DEF colons, asked
  <2>2. Get(asked.header, "content-type") = Get(q.header, "content-type")
    BY <1>2, <2>1, WithoutHeader
  <2>3. QED
    BY <2>2, Zenon DEF UnaryTyped
<1>4. r = UniversalResponseToNode(answered, pseudo)
  BY DEF NodeHandler
<1>5. answered = MergeHandlers(c.server, spec, asked)
  OBVIOUS
<1> HIDE DEF asked, spec, answered, Good
<1>6. Good(answered)
  <2>1. answered \in Refusals \/ \E protocol : IsFound(c.server, spec, asked, answered, protocol)
    BY <1>5, HandlerIsFound
  <2>2. CASE answered \in Refusals
    <3>1. ~Has(NoHeaders, "content-type") /\ ~Has(Field("connection", <<"close">>), "content-type")
      BY EmptySequence DEF Has, Field, Set, NoHeaders
    <3>2. \A status : Good(Refuse(status))
      BY <3>1, RefusalPasses, RefusalPassesUnary DEF Good
    <3>3. Good(Closing)
      BY <3>1, RefusalPasses, RefusalPassesUnary DEF Good, Closing
    <3>4. QED
      BY <2>2, <3>2, <3>3 DEF Refusals
  <2>3. CASE \E protocol : IsFound(c.server, spec, asked, answered, protocol)
    <3>1. PICK protocol : IsFound(c.server, spec, asked, answered, protocol)
      BY <2>3
    <3>2. /\ answered = Handle(protocol, c.server, spec, asked)
          /\ protocol \in {"grpc", "grpc-web", "connect"}
          /\ ContentType(asked) \in Fact(protocol, c.kind).types
      BY <1>1, <3>1 DEF IsFound
    <3>3. IsUnary => protocol = "connect"
      BY <1>3, <3>2, UnaryFindsConnect
    <3>4. Asks(c, asked.body) /\ IsBody(asked.body)
      BY <1>2
    <3>5. CASE protocol = "grpc"
      BY <1>1, <3>2, <3>3, <3>4, <3>5, GrpcPasses DEF Handle, Good
    <3>6. CASE protocol = "grpc-web"
      BY <1>1, <3>2, <3>3, <3>4, <3>6, GrpcWebPasses DEF Handle, Good
    <3>7. CASE protocol = "connect" /\ c.kind = "unary"
      BY <1>1, <3>2, <3>4, <3>7, ConnectUnaryPasses DEF Handle, Good
    <3>8. CASE protocol = "connect" /\ c.kind # "unary"
      BY <1>1, <3>2, <3>4, <3>8, ConnectStreamPasses DEF Handle, Good
    <3>9. QED
      BY <3>2, <3>5, <3>6, <3>7, <3>8
  <2>4. QED
    BY <2>1, <2>2, <2>3
<1>7. Good(r)
  <2>1. ~Has(pseudo, "content-type")
    BY EmptySequence DEF Has, Field, Set, NoHeaders
  <2> HIDE DEF pseudo
  <2>2. Has(SetAll(answered.header, pseudo), "content-type") => Has(answered.header, "content-type")
    BY <2>1 DEF Has, SetAll
  <2>3. "header" \in DOMAIN answered =>
          "header" \in DOMAIN r /\ r.header = SetAll(answered.header, pseudo)
    BY <1>4 DEF UniversalResponseToNode, WebHeaderToNodeHeaders
  <2>4. r.body = answered.body /\ r.given = answered.given
    BY <1>4 DEF UniversalResponseToNode
  <2>5. QED
    BY <1>6, <2>2, <2>3, <2>4 DEF Good, Passes, PassesUnary
<1>8. QED
  BY <1>1, <1>7

-----------------------------------------------------------------------------
(* Messages arrive: what a caller gets                                     *)

\* A body that returns messages, and perhaps an end
Returns(body, messages) ==
  body.is = "envelopes" => IsSequence(body.envelopes) /\ Told(body.envelopes, messages, Nat)

\* What is left of the front of a sequence
LEMMA FrontOf ==
  ASSUME NEW s, IsSequence(s), NEW k \in 0..Len(s), NEW t, t = SubSeq(s, 1, k)
  PROVE  IsSequence(t) /\ DOMAIN t = 1..k /\ Len(t) = k /\ \A n \in 1..k : n \in DOMAIN s /\ t[n] = s[n]
<1>1. Len(s) \in Nat /\ DOMAIN s = 1..Len(s) /\ k \in Nat /\ k <= Len(s)
  BY SequenceFacts
<1>2. k \in Int /\ 1 \in Int /\ \A n \in 1..k : n \in DOMAIN s /\ s[n] \in ToSet(s)
  BY <1>1 DEF ToSet
<1>3. /\ t \in Seq(ToSet(s))
      /\ Len(t) = IF 1 <= k THEN k - 1 + 1 ELSE 0
      /\ \A i \in 1..(k - 1 + 1) : t[i] = s[1 + i - 1]
  BY <1>2, SubSeqProperties
<1>4. Len(t) = k /\ k - 1 + 1 = k /\ \A i \in 1..k : 1 + i - 1 = i
  BY <1>1, <1>3
<1>5. DOMAIN t = 1..k /\ \A i \in 1..k : t[i] = s[i]
  BY <1>3, <1>4, LenProperties
<1>6. t = [n \in 1..k |-> t[n]]
  BY <1>3, <1>5, LenProperties
<1>7. QED
  BY <1>1, <1>2, <1>4, <1>5, <1>6, BuiltSequence

\* The front of messages with an end is messages, perhaps with an end.
LEMMA FrontWithEnd ==
  ASSUME NEW items, NEW messages, WithEnd(items, messages), NEW k \in 0..Len(items),
         NEW front, front = SubSeq(items, 1, k)
  PROVE  WithEnd(front, messages)
<1>1. /\ IsSequence(front) /\ DOMAIN front = 1..k /\ Len(front) = k
      /\ \A n \in 1..k : n \in DOMAIN items /\ front[n] = items[n]
  BY FrontOf DEF WithEnd
<1>2. Len(items) \in Nat
  BY SequenceFacts DEF WithEnd
<1>3. ASSUME NEW n \in 1..k, n = Len(items)
      PROVE  n = k
  BY <1>2, <1>3
<1>4. QED
  BY <1>1, <1>3 DEF WithEnd

\* The messages that precede the end are the ones that were sent.
LEMMA EndedMessagesArrive ==
  ASSUME NEW items, NEW messages, WithEnd(items, messages),
         NEW first, first = IF Ends(items) = {} THEN Len(items) + 1 ELSE Min(Ends(items)),
         NEW values, values = Values(SubSeq(items, 1, first - 1))
  PROVE  Messages(values, messages, Nat)
<1> DEFINE ends == Ends(items)
           before == SubSeq(items, 1, first - 1)
<1>1. IsSequence(items) /\ Len(items) \in Nat /\ DOMAIN items = 1..Len(items)
  BY SequenceFacts DEF WithEnd
<1>2. ends \in SUBSET (1..Len(items)) /\ \A n \in DOMAIN items : items[n].end => n \in ends
  BY <1>1 DEF Ends
<1> HIDE DEF ends
<1>3. first - 1 \in 0..Len(items) /\ \A n \in 1..(first - 1) : n \notin ends
  <2>1. CASE ends = {}
    BY <1>1, <2>1 DEF ends
  <2>2. CASE ends # {}
    <3>1. Min(ends) \in ends /\ \A n \in ends : Min(ends) <= n
      BY <1>1, <1>2, <2>2, LeastIsMin
    <3>2. first = Min(ends) /\ first \in 1..Len(items)
      BY <1>2, <2>2, <3>1 DEF ends
    <3>3. \A n \in 1..(first - 1) : n \in Nat /\ n < first
      BY <3>2
    <3>4. \A n \in ends : n \in Nat /\ first <= n
      BY <1>2, <3>1, <3>2
    <3>5. QED
      BY <1>1, <3>2, <3>3, <3>4
  <2>3. QED
    BY <2>1, <2>2
<1>4. /\ IsSequence(before) /\ DOMAIN before = 1..(first - 1)
      /\ \A n \in 1..(first - 1) : n \in DOMAIN items /\ before[n] = items[n]
  BY <1>1, <1>3, FrontOf, ZenonT(60)
<1>5. values = [n \in DOMAIN before |-> before[n].value]
  BY DEF Values
<1> HIDE DEF before
<1>6. \A n \in 1..(first - 1) : n \in DOMAIN messages /\ before[n].value = messages[n]
  BY <1>2, <1>3, <1>4 DEF WithEnd
<1>7. IsSequence(values)
  BY <1>4, <1>5, MappedSequence
<1>8. QED
  BY <1>4, <1>5, <1>6, <1>7 DEF Messages

\* So are all that are no ends.
LEMMA MessageValuesArrive ==
  ASSUME NEW items, NEW messages, WithEnd(items, messages)
  PROVE  Messages(MessageValues(items), messages, Nat)
<1> DEFINE ends == Ends(items)
           places == DOMAIN items \ ends
           selected == Selected(items, places)
<1>1. IsSequence(items) /\ Len(items) \in Nat /\ DOMAIN items = 1..Len(items)
  BY SequenceFacts DEF WithEnd
<1>2. \A n \in DOMAIN items : (items[n].end <=> n \in ends) /\ (n \in ends => n = Len(items))
  BY DEF Ends, WithEnd
<1> HIDE DEF ends
<1>3. \E k \in 0..Len(items) : \A n \in DOMAIN items : n \in places <=> n <= k
  <2>1. CASE Len(items) \notin ends
    <3>1. Len(items) \in 0..Len(items) /\ \A n \in DOMAIN items : n \in places <=> n <= Len(items)
      BY <1>1, <1>2, <2>1
    <3> HIDE DEF places
    <3>2. QED
      BY <3>1
  <2>2. CASE Len(items) \in ends /\ Len(items) # 0
    <3>1. Len(items) - 1 \in 0..Len(items)
      BY <1>1, <2>2
    <3>2. \A n \in DOMAIN items : n \in places <=> n <= Len(items) - 1
      BY <1>1, <1>2, <2>2
    <3> HIDE DEF places
    <3>3. QED
      BY <3>1, <3>2
  <2>3. CASE Len(items) = 0
    <3>1. DOMAIN items = {} /\ 0 \in 0..Len(items)
      BY <1>1, <2>3
    <3> HIDE DEF places
    <3>2. QED
      BY <3>1
  <2>4. QED
    BY <2>1, <2>2, <2>3
<1> HIDE DEF places
<1>4. PICK k \in 0..Len(items) : \A n \in DOMAIN items : n \in places <=> n <= k
  BY <1>3
<1>5. IsSequence(selected) /\ DOMAIN selected = 1..k /\ \A n \in 1..k : selected[n] = items[n]
  BY <1>1, <1>4, SelectedFront
<1>6. MessageValues(items) = [n \in DOMAIN selected |-> selected[n].value]
  BY DEF MessageValues, Values, places, ends
<1> HIDE DEF selected
<1>7. \A n \in 1..k : n \in DOMAIN messages /\ selected[n].value = messages[n]
  <2>1. ASSUME NEW n \in 1..k
        PROVE  n \in DOMAIN items /\ ~items[n].end
    <3>1. n \in DOMAIN items /\ n <= k
      BY <1>1, <2>1
    <3>2. n \in places
      BY <1>4, <3>1
    <3>3. QED
      BY <1>2, <3>1, <3>2 DEF places
  <2>2. QED
    BY <1>5, <2>1 DEF WithEnd
<1>8. IsSequence([n \in DOMAIN selected |-> selected[n].value])
  BY <1>5, MappedSequence
<1>9. QED
  BY <1>5, <1>6, <1>7, <1>8 DEF Messages

\* What a client gets of a response returns what the response does.
LEMMA ReceivedPasses ==
  ASSUME NEW c, NEW t, DOMAIN t = {"status", "header", "body", "trailer", "given"}, IsBody(t.body),
         NEW messages, NEW r, r = Received(c, t)
  PROVE  /\ Returns(t.body, messages) => Returns(r.body, messages)
         /\ PassesUnary(t, messages) => PassesUnary(r, messages)
<1> DEFINE colons == {f \in DOMAIN t.header : IsPseudo(f)}
           fetched == IF t.body.is = "bare" /\ Get(t.header, "content-encoding") = <<t.body.data.zip>>
                        THEN BareBody([t.body.data EXCEPT !.zip = "identity"]) ELSE t.body
<1>1. /\ r.header = Without(t.header, colons) /\ "header" \in DOMAIN r
      /\ r.body = (IF c.platform = "node" THEN t.body ELSE fetched)
  BY DEF Received, NodeHeaderToWebHeader
<1>2. r.body = t.body \/ (t.body.is = "bare" /\ r.body = BareBody([t.body.data EXCEPT !.zip = "identity"]))
  <2>1. fetched = t.body \/ (t.body.is = "bare" /\ fetched = BareBody([t.body.data EXCEPT !.zip = "identity"]))
    OBVIOUS
  <2> HIDE DEF fetched
  <2>2. QED
    BY <1>1, <2>1
<1>3. Has(r.header, "content-type") => Has(t.header, "content-type")
  <2> HIDE DEF colons
  <2>1. QED
    BY <1>1 DEF Has, Without, Restrict
<1> HIDE DEF colons, fetched
<1>4. CASE r.body = t.body
  BY <1>1, <1>3, <1>4 DEF PassesUnary
<1>5. CASE t.body.is = "bare" /\ r.body = BareBody([t.body.data EXCEPT !.zip = "identity"])
  <2> DEFINE data == [t.body.data EXCEPT !.zip = "identity"]
  <2>1. IsData(t.body.data)
    BY <1>5 DEF IsBody
  <2>2. SameData(data, t.body.data)
    BY <2>1 DEF IsData, SameData, AreFields
  <2>3. Tells(t.body.data, messages) => Tells(data, messages)
    <3> HIDE DEF data
    <3>1. QED
      BY <2>2 DEF SameData, Tells, Unreadable, Bears
  <2>4. r.body.is = "bare" /\ r.body.data = data
    BY <1>5 DEF BareBody
  <2> HIDE DEF data
  <2>5. QED
    BY <1>1, <1>3, <1>5, <2>3, <2>4 DEF PassesUnary, Returns
<1>6. QED
  BY <1>2, <1>4, <1>5

\* It gets a body.
LEMMA ReceivedIsBody ==
  ASSUME NEW c, NEW t, DOMAIN t = {"status", "header", "body", "trailer", "given"}, IsBody(t.body)
  PROVE  IsBody(Received(c, t).body)
<1> DEFINE data == [t.body.data EXCEPT !.zip = "identity"]
<1>1. \/ Received(c, t).body = t.body
      \/ t.body.is = "bare" /\ Received(c, t).body = BareBody(data)
  BY DEF Received
<1>2. t.body.is = "bare" => IsBody(BareBody(data))
  <2>1. t.body.is = "bare" => IsData(data)
    BY DEF IsBody, IsData
  <2> HIDE DEF data
  <2>2. QED
    BY <2>1 DEF IsBody, BareBody
<1>3. QED
  BY <1>1, <1>2

\* What a client for Node.js reads returns the same.
LEMMA DownloadTold ==
  ASSUME NEW c, NEW r, NEW messages, Returns(r.body, messages), NEW compression,
         NEW out, out = Download(c, r, compression)
  PROVE  IsSequence(out.items) /\ Told(out.items, messages, Nat)
<1> DEFINE split == TransformSplitEnvelope(r.body, c.client.readMaxBytes)
<1>1. out = TransformDecompressEnvelope(split, compression, c.client.readMaxBytes)
  BY DEF Download
<1>2. IsSequence(split.items) /\ Told(split.items, messages, Nat)
  BY ToldSplit DEF Returns
<1> HIDE DEF split
<1>3. QED
  BY <1>1, <1>2, ToldDecompressed

\* So does what a client for browsers reads.
LEMMA FetchedTold ==
  ASSUME NEW r, NEW messages, Returns(r.body, messages), NEW flag
  PROVE  /\ IsSequence(EnvelopesOf(r.body).items) /\ Told(EnvelopesOf(r.body).items, messages, Nat)
         /\ LET strict == StrictlyFlagged(EnvelopesOf(r.body), flag)
            IN IsSequence(strict.items) /\ Told(strict.items, messages, Nat)
<1> DEFINE source == EnvelopesOf(r.body)
<1>1. source.items = IF r.body.is = "envelopes" THEN r.body.envelopes ELSE << >>
  BY DEF EnvelopesOf, Stream
<1> HIDE DEF source
<1>2. IsSequence(source.items) /\ Told(source.items, messages, Nat)
  BY <1>1, EmptySequence DEF Returns, Told
<1> DEFINE Strict(e) == Return(IF flag \in e.flags /\ e.flags # {flag} THEN Envelope({}, e.data) ELSE e)
           results == [n \in DOMAIN source.items |-> Strict(source.items[n])]
           out == StrictlyFlagged(source, flag)
<1>3. out = Yielded(results, source.errors)
  BY DEF StrictlyFlagged, Through
<1>4. results = [n \in DOMAIN source.items |-> results[n]]
  OBVIOUS
<1>5. ASSUME NEW e
      PROVE  Follows(Strict(e).value, e)
  <2>1. Strict(e).value = IF flag \in e.flags /\ e.flags # {flag} THEN Envelope({}, e.data) ELSE e
    BY Outcomes
  <2> HIDE DEF Strict
  <2>2. QED
    BY <2>1 DEF Envelope, Follows, SameData, Flagged
<1>6. \A n \in DOMAIN source.items : ~results[n].raised => Follows(results[n].value, source.items[n])
  BY <1>5
<1> HIDE DEF results, out
<1>7. IsSequence(out.items) /\ Told(out.items, messages, Nat)
  BY <1>2, <1>3, <1>4, <1>6, ToldThrough
<1>8. QED
  BY <1>2, <1>7 DEF source, out

\* What is told is parsed, with an end.
LEMMA ParsedWithEnd ==
  ASSUME NEW stream, IsSequence(stream.items), NEW messages, Told(stream.items, messages, Nat),
         NEW binary, NEW endFlag, endFlag # "compressed",
         NEW out, out = TransformParseEnvelopeAndEnd(stream, binary, endFlag)
  PROVE  WithEnd(out.items, messages)
<1> DEFINE EndParse(data) == IF endFlag = "end" THEN EndStreamParse(data) ELSE TrailerDeserialize(data)
           Value(e) == IF endFlag \in e.flags THEN EndParse(e.data) ELSE Parse(e.data, binary)
           Parsed(e) == IF Value(e).raised THEN Value(e)
                        ELSE Return([end |-> endFlag \in e.flags, value |-> Value(e).value])
           results == [n \in DOMAIN stream.items |-> Parsed(stream.items[n])]
<1>1. out = Yielded(results, stream.errors)
  BY DEF TransformParseEnvelopeAndEnd, Through
<1>2. results = [n \in DOMAIN stream.items |-> results[n]]
  OBVIOUS
<1>3. \A n \in DOMAIN stream.items : results[n] = Parsed(stream.items[n])
  OBVIOUS
<1> HIDE DEF results
<1>4. ASSUME NEW e, ~Parsed(e).raised
      PROVE  /\ Parsed(e).value.end = (endFlag \in e.flags)
             /\ endFlag \notin e.flags =>
                  ~Parse(e.data, binary).raised /\ Parsed(e).value.value = Parse(e.data, binary).value
  <2>1. ~Value(e).raised
    BY <1>4
  <2>2. endFlag \notin e.flags => Value(e) = Parse(e.data, binary)
    OBVIOUS
  <2> HIDE DEF Value
  <2>3. Parsed(e).value = [end |-> endFlag \in e.flags, value |-> Value(e).value]
    BY <2>1, Outcomes
  <2> HIDE DEF Parsed
  <2>4. Parsed(e).value.end = (endFlag \in e.flags) /\ Parsed(e).value.value = Value(e).value
    BY <2>3
  <2>5. QED
    BY <2>1, <2>2, <2>4
<1> HIDE DEF Parsed
<1>5. \A n \in DOMAIN stream.items : ~results[n].raised =>
        /\ results[n].value.end = (endFlag \in stream.items[n].flags)
        /\ endFlag \notin stream.items[n].flags =>
             /\ ~Parse(stream.items[n].data, binary).raised
             /\ results[n].value.value = Parse(stream.items[n].data, binary).value
  BY <1>3, <1>4
<1>6. QED
  BY <1>1, <1>2, <1>5, ToldResults

\* What comes after the first end is not missed.
LEMMA UpToEndWithEnd ==
  ASSUME NEW parsed, NEW messages, WithEnd(parsed.items, messages)
  PROVE  WithEnd(UpToEnd(parsed).items, messages)
<1> DEFINE ends == Ends(parsed.items)
           front == SubSeq(parsed.items, 1, Min(ends))
<1>1. Len(parsed.items) \in Nat /\ DOMAIN parsed.items = 1..Len(parsed.items)
  BY SequenceFacts DEF WithEnd
<1>2. ends \in SUBSET (1..Len(parsed.items))
  BY <1>1 DEF Ends
<1>3. UpToEnd(parsed) = IF ends = {} THEN parsed ELSE Stream(front)
  BY DEF UpToEnd
<1> HIDE DEF ends
<1>4. CASE ends = {}
  BY <1>3, <1>4
<1>5. CASE ends # {}
  <2>1. Min(ends) \in ends
    BY <1>1, <1>2, <1>5, LeastIsMin
  <2>2. Min(ends) \in 0..Len(parsed.items)
    <3>1. \A n \in 1..Len(parsed.items) : n \in 0..Len(parsed.items)
      BY <1>1
    <3>2. QED
      BY <1>2, <2>1, <3>1
  <2>3. WithEnd(front, messages)
    BY <2>2, FrontWithEnd
  <2> HIDE DEF front
  <2>4. UpToEnd(parsed).items = front
    BY <1>3, <1>5 DEF Stream
  <2>5. QED
    BY <2>3, <2>4
<1>6. QED
  BY <1>4, <1>5

\* What the legacy transports make of an envelope: a message is parsed, and either
\* becomes an item.
LegacyParses(parsed, envelopes, binary, endFlag) ==
  \A n \in DOMAIN envelopes :
    endFlag \notin envelopes[n].flags => parsed[n] = LegacyParse(envelopes[n].data, binary)

LegacyItemizes(results, parsed, envelopes, endFlag) ==
  /\ results = [n \in DOMAIN envelopes |-> results[n]]
  /\ \A n \in DOMAIN envelopes :
       results[n] = IF parsed[n].raised THEN parsed[n]
                    ELSE Return([end |-> endFlag \in envelopes[n].flags, value |-> parsed[n].value])

\* The same for the legacy transports, where an error of a parser is another one
LEMMA LegacyWithEnd ==
  ASSUME NEW stream, IsSequence(stream.items), NEW messages, Told(stream.items, messages, Nat),
         NEW binary, NEW endFlag, endFlag # "compressed",
         NEW parsed, LegacyParses(parsed, stream.items, binary, endFlag),
         NEW results, LegacyItemizes(results, parsed, stream.items, endFlag),
         NEW out, out = Yielded(results, stream.errors)
  PROVE  WithEnd(out.items, messages)
<1>1. ASSUME NEW n \in DOMAIN stream.items, ~results[n].raised
      PROVE  /\ results[n].value.end = (endFlag \in stream.items[n].flags)
             /\ endFlag \notin stream.items[n].flags =>
                  /\ ~Parse(stream.items[n].data, binary).raised
                  /\ results[n].value.value = Parse(stream.items[n].data, binary).value
  <2> DEFINE e == stream.items[n]
             item == [end |-> endFlag \in e.flags, value |-> parsed[n].value]
  <2>1. ~parsed[n].raised /\ results[n] = Return(item)
    BY <1>1 DEF LegacyItemizes
  <2>2. item.end = (endFlag \in e.flags) /\ item.value = parsed[n].value
    OBVIOUS
  <2> HIDE DEF item
  <2>3. results[n].value = item
    BY <2>1, Outcomes
  <2>4. endFlag \notin e.flags =>
          ~Parse(e.data, binary).raised /\ parsed[n].value = Parse(e.data, binary).value
    <3>1. endFlag \notin e.flags => parsed[n] = LegacyParse(e.data, binary)
      BY DEF LegacyParses
    <3>2. ~LegacyParse(e.data, binary).raised =>
            ~Parse(e.data, binary).raised /\ LegacyParse(e.data, binary) = Parse(e.data, binary)
      BY Outcomes DEF LegacyParse
    <3> HIDE DEF e
    <3>3. QED
      BY <2>1, <3>1, <3>2
  <2>5. QED
    BY <2>2, <2>3, <2>4
<1>2. results = [n \in DOMAIN stream.items |-> results[n]]
  BY DEF LegacyItemizes
<1>3. QED
  BY <1>1, <1>2, ToldResults

\* createGrpcWebTransport() of connect-web
LEMMA LegacyItemsWithEnd ==
  ASSUME NEW stream, IsSequence(stream.items), NEW messages, Told(stream.items, messages, Nat)
  PROVE  WithEnd(LegacyGrpcWebItems(stream).items, messages)
<1> DEFINE Parsed(e) == IF "trailer" \in e.flags THEN LegacyTrailerDeserialize(e.data)
                        ELSE LegacyParse(e.data, TRUE)
           Item(e) == IF Parsed(e).raised THEN Parsed(e)
                      ELSE Return([end |-> "trailer" \in e.flags, value |-> Parsed(e).value])
           parsed == [n \in DOMAIN stream.items |-> Parsed(stream.items[n])]
           results == [n \in DOMAIN stream.items |-> Item(stream.items[n])]
           out == LegacyGrpcWebItems(stream)
<1>1. out = Yielded(results, stream.errors)
  BY DEF LegacyGrpcWebItems, Through, Then
<1>2. LegacyItemizes(results, parsed, stream.items, "trailer")
  <2> HIDE DEF Parsed
  <2>1. QED
    BY DEF LegacyItemizes
<1> DEFINE binary == TRUE
<1>3. LegacyParses(parsed, stream.items, binary, "trailer")
  BY Zenon DEF LegacyParses
<1> HIDE DEF parsed, results, out, binary
<1>4. WithEnd(out.items, messages)
  BY <1>1, <1>2, <1>3, LegacyWithEnd
<1>5. QED
  BY <1>4 DEF out

\* A failure has no messages.
LEMMA FailedArrives ==
  ASSUME NEW error, NEW messages
  PROVE  Messages(Failed(error).messages, messages, Nat)
BY EmptySequence DEF Failed, Answer, Messages

\* What a reader settles on is an error or the answer it has returned.
LEMMA SettledArrives ==
  ASSUME NEW result, NEW messages, ~result.raised => Messages(result.value.messages, messages, Nat)
  PROVE  Messages(Settled(result).messages, messages, Nat)
BY FailedArrives DEF Settled

\* An answer with the messages up to the end
LEMMA EndedAnswerArrives ==
  ASSUME NEW r, NEW parsed, NEW messages, WithEnd(parsed.items, messages), NEW end, NEW violation
  PROVE  Messages(EndedAnswer(r, parsed, end, violation).messages, messages, Nat)
<1> DEFINE first == IF Ends(parsed.items) = {} THEN Len(parsed.items) + 1 ELSE Min(Ends(parsed.items))
           values == Values(SubSeq(parsed.items, 1, first - 1))
<1>1. EndedAnswer(r, parsed, end, violation).messages = values
  BY DEF EndedAnswer, Answer
<1>2. values = Values(SubSeq(parsed.items, 1, first - 1))
  OBVIOUS
<1>3. first = IF Ends(parsed.items) = {} THEN Len(parsed.items) + 1 ELSE Min(Ends(parsed.items))
  OBVIOUS
<1> HIDE DEF values, first
<1>4. Messages(values, messages, Nat)
  BY <1>2, <1>3, EndedMessagesArrive
<1>5. QED
  BY <1>1, <1>4

\* An answer with one message
LEMMA UnaryGrpcWebAnswerArrives ==
  ASSUME NEW r, NEW parsed, NEW messages, WithEnd(parsed.items, messages), NEW violation,
         NEW result, result = UnaryGrpcWebAnswer(r, parsed, violation)
  PROVE  ~result.raised => Messages(result.value.messages, messages, Nat)
<1> DEFINE values == MessageValues(parsed.items)
           trailers == EndValues(parsed.items)
           valid == ValidateTrailer(trailers[1])
<1>1. Messages(values, messages, Nat)
  BY MessageValuesArrive
<1>2. \/ \E error : result = Raise(error)
      \/ valid.raised /\ result = valid
      \/ result = Return(Answer(r.header, values, valid.value, << >>))
  BY DEF UnaryGrpcWebAnswer, Then
<1>3. Answer(r.header, values, valid.value, << >>).messages = values
  BY DEF Answer
<1> HIDE DEF values, trailers, valid
<1>4. QED
  BY <1>1, <1>2, <1>3, Outcomes

\* An answer with one message, and no envelopes
LEMMA SingleMessageArrives ==
  ASSUME NEW m, NEW messages, 1 \in DOMAIN messages, m = messages[1]
  PROVE  Messages(<<m>>, messages, Nat)
<1>1. IsSequence(<<m>>) /\ DOMAIN <<m>> = {1} /\ <<m>>[1] = m
  BY SingletonSequence
<1>2. QED
  BY <1>1 DEF Messages

\* createGrpcTransport() gives its caller what was returned.
LEMMA NodeGrpcArrives ==
  ASSUME NEW c, NEW r, NEW messages, Returns(r.body, messages)
  PROVE  /\ Messages(NodeGrpcUnaryResponse(c, r).messages, messages, Nat)
         /\ Messages(NodeGrpcStreamResponse(c, r).messages, messages, Nat)
<1> DEFINE valid == GrpcValidateResponseWithCompression(c.client.binary, c.client.accept, r.status, r.header)
           source == Download(c, r, valid.value.compression)
           parsed == TransformParseEnvelope(source, c.client.binary, "none")
           trailer == ValidateTrailer(r.trailer)
           unary == CASE Len(parsed.items) > 1 -> Raise(ProtocolError)
                      [] Len(parsed.items) <= 1 /\ parsed.errors # << >> -> Raise(parsed.errors[1])
                      [] OTHER -> IF trailer.raised THEN trailer
                                  ELSE IF parsed.items = << >> THEN Raise(ProtocolError)
                                  ELSE Return(Answer(r.header, parsed.items, trailer.value, << >>))
           errors == IF parsed.errors # << >> \/ valid.value.foundStatus THEN parsed.errors
                     ELSE FindTrailerError(r.trailer)
           stream == Return(Answer(r.header, parsed.items, r.trailer, errors))
<1>1. /\ NodeGrpcUnaryResponse(c, r) = Settled(IF valid.raised THEN valid ELSE unary)
      /\ NodeGrpcStreamResponse(c, r) = Settled(IF valid.raised THEN valid ELSE stream)
  BY DEF NodeGrpcUnaryResponse, NodeGrpcStreamResponse, Then
<1> HIDE DEF valid
<1>2. IsSequence(source.items) /\ Told(source.items, messages, Nat)
  BY DownloadTold
<1> HIDE DEF source
<1>3. Messages(parsed.items, messages, Nat)
  BY <1>2, ToldParsed
<1> HIDE DEF parsed, trailer, errors
<1>4. Messages(stream.value.messages, messages, Nat)
  BY <1>3 DEF Return, Answer
<1>5. ~unary.raised => Messages(unary.value.messages, messages, Nat)
  BY <1>3 DEF Return, Raise, Answer
<1> HIDE DEF unary, stream
<1>6. /\ Messages(Settled(IF valid.raised THEN valid ELSE unary).messages, messages, Nat)
      /\ Messages(Settled(IF valid.raised THEN valid ELSE stream).messages, messages, Nat)
  BY <1>4, <1>5, SettledArrives
<1>7. QED
  BY <1>1, <1>6

\* So do the transports for gRPC-web, for Node.js and for browsers.
LEMMA GrpcWebArrives ==
  ASSUME NEW c, NEW r, NEW messages, Returns(r.body, messages)
  PROVE  /\ Messages(NodeGrpcWebUnaryResponse(c, r).messages, messages, Nat)
         /\ Messages(NodeGrpcWebStreamResponse(c, r).messages, messages, Nat)
         /\ Messages(WebGrpcWebUnaryResponse(c, r).messages, messages, Nat)
         /\ Messages(WebGrpcWebStreamResponse(c, r).messages, messages, Nat)
<1> DEFINE valid == GrpcWebValidateResponseWithCompression(
                      c.client.binary, c.client.accept, r.status, r.header)
           source == Download(c, r, valid.value.compression)
           fetched == GrpcWebValidateResponse(c.client.binary, r.status, r.header)
           body == EnvelopesOf(r.body)
           strict == StrictlyFlagged(body, "trailer")
           Parsed(stream) == TransformParseEnvelopeAndEnd(stream, c.client.binary, "trailer")
           Unary(stream, violation) == UnaryGrpcWebAnswer(r, Parsed(stream), violation)
           Streamed(stream, found, violation) ==
             IF found THEN TrailersOnlyAnswer(r, Parsed(stream), violation)
             ELSE EndedAnswer(r, Parsed(stream), ValidateTrailer(FirstEnd(Parsed(stream))), violation)
           Checked(first, then) == Settled(IF first.raised THEN first ELSE then)
           IsTold(stream) == IsSequence(stream.items) /\ Told(stream.items, messages, Nat)
<1>1. /\ NodeGrpcWebUnaryResponse(c, r) = Checked(valid, Unary(source, ProtocolError))
      /\ NodeGrpcWebStreamResponse(c, r)
           = Checked(valid, Return(Streamed(source, valid.value.foundStatus, ProtocolError)))
      /\ WebGrpcWebUnaryResponse(c, r) = Checked(fetched, Unary(strict, Thrown(Code.Internal)))
      /\ WebGrpcWebStreamResponse(c, r)
           = Checked(fetched, Return(Streamed(body, fetched.value, Thrown(Code.Unknown))))
  BY DEF NodeGrpcWebUnaryResponse, NodeGrpcWebStreamResponse, WebGrpcWebUnaryResponse,
         WebGrpcWebStreamResponse, WebGrpcWebStreamBody, Then
<1> HIDE DEF valid, fetched
<1>2. IsTold(source)
  BY DownloadTold
<1>3. IsTold(body) /\ IsTold(strict)
  BY FetchedTold
<1> HIDE DEF source, body, strict
<1>4. ASSUME NEW stream, IsTold(stream)
      PROVE  WithEnd(Parsed(stream).items, messages)
  <2> DEFINE out == Parsed(stream)
  <2>1. out = TransformParseEnvelopeAndEnd(stream, c.client.binary, "trailer")
    OBVIOUS
  <2> HIDE DEF out
  <2>2. WithEnd(out.items, messages)
    BY <1>4, <2>1, ParsedWithEnd
  <2>3. QED
    BY <2>2 DEF out
<1> HIDE DEF Parsed, IsTold
<1>5. ASSUME NEW first, NEW stream, IsTold(stream), NEW violation
      PROVE  Messages(Checked(first, Unary(stream, violation)).messages, messages, Nat)
  <2> DEFINE unary == Unary(stream, violation)
             result == IF first.raised THEN first ELSE unary
  <2>1. ~unary.raised => Messages(unary.value.messages, messages, Nat)
    BY <1>4, <1>5, UnaryGrpcWebAnswerArrives
  <2> HIDE DEF unary
  <2>2. ~result.raised => Messages(result.value.messages, messages, Nat)
    BY <2>1
  <2> HIDE DEF result
  <2>3. Messages(Settled(result).messages, messages, Nat)
    BY <2>2, SettledArrives
  <2>4. QED
    BY <2>3 DEF result, unary
<1>6. ASSUME NEW first, NEW stream, IsTold(stream), NEW found, NEW violation
      PROVE  Messages(Checked(first, Return(Streamed(stream, found, violation))).messages, messages, Nat)
  <2> DEFINE streamed == Streamed(stream, found, violation)
             result == IF first.raised THEN first ELSE Return(streamed)
  <2>1. Messages(streamed.messages, messages, Nat)
    <3>1. CASE found
      BY <3>1, EmptySequence DEF TrailersOnlyAnswer, Answer, Messages
    <3>2. CASE ~found
      BY <1>4, <1>6, <3>2, EndedAnswerArrives
    <3>3. QED
      BY <3>1, <3>2
  <2> HIDE DEF streamed
  <2>2. ~result.raised => Messages(result.value.messages, messages, Nat)
    BY <2>1, Outcomes
  <2> HIDE DEF result
  <2>3. Messages(Settled(result).messages, messages, Nat)
    BY <2>2, SettledArrives
  <2>4. QED
    BY <2>3 DEF result, streamed
<1> HIDE DEF Unary, Streamed, Checked
<1>7. QED
  BY <1>1, <1>2, <1>3, <1>5, <1>6

\* So do the streams of Connect, wherever they are read.
LEMMA NodeConnectStreamArrives ==
  ASSUME NEW c, NEW r, NEW messages, Returns(r.body, messages)
  PROVE  Messages(NodeConnectStreamResponse(c, r).messages, messages, Nat)
<1> DEFINE valid == ConnectValidateResponseWithCompression(
                      TRUE, c.client.binary, c.client.accept, r.status, r.header)
           source == Download(c, r, valid.value.compression)
           parsed == TransformParseEnvelopeAndEnd(source, c.client.binary, "end")
           ended == EndedAnswer(r, parsed, ConnectEnd(FirstEnd(parsed)), ProtocolError)
           result == IF valid.raised THEN valid ELSE Return(ended)
<1>1. NodeConnectStreamResponse(c, r) = Settled(result)
  BY DEF NodeConnectStreamResponse, Then
<1> HIDE DEF valid
<1>2. IsSequence(source.items) /\ Told(source.items, messages, Nat)
  BY DownloadTold
<1> HIDE DEF source
<1>3. WithEnd(parsed.items, messages)
  BY <1>2, ParsedWithEnd
<1> HIDE DEF parsed
<1>4. Messages(ended.messages, messages, Nat)
  BY <1>3, EndedAnswerArrives
<1> HIDE DEF ended
<1>5. ~result.raised => Messages(result.value.messages, messages, Nat)
  BY <1>4, Outcomes
<1> HIDE DEF result
<1>6. QED
  BY <1>1, <1>5, SettledArrives

\* connect-web-next goes on after the end of a stream: nothing comes.
LEMMA WebConnectStreamArrives ==
  ASSUME NEW c, NEW r, NEW messages, Returns(r.body, messages)
  PROVE  Messages(WebConnectStreamResponse(c, r).messages, messages, Nat)
<1> DEFINE valid == ConnectValidateResponse(TRUE, c.client.binary, r.status, r.header)
           source == EnvelopesOf(r.body)
           parsed == TransformParseEnvelopeAndEnd(source, c.client.binary, "end")
           bad == {n \in DOMAIN parsed.items : parsed.items[n].end /\ parsed.items[n].value.errors # << >>}
           front == SubSeq(parsed.items, 1, Min(bad) - 1)
           items == IF bad = {} THEN parsed.items ELSE front
           ended == WebConnectStreamBody(r, parsed)
           result == IF valid.raised THEN valid ELSE Return(ended)
<1>1. WebConnectStreamResponse(c, r) = Settled(result)
  BY DEF WebConnectStreamResponse, Then
<1> HIDE DEF valid
<1>2. IsSequence(source.items) /\ Told(source.items, messages, Nat)
  BY FetchedTold
<1> HIDE DEF source
<1>3. WithEnd(parsed.items, messages)
  BY <1>2, ParsedWithEnd
<1> HIDE DEF parsed
<1>4. WithEnd(items, messages)
  <2>1. Len(parsed.items) \in Nat /\ DOMAIN parsed.items = 1..Len(parsed.items)
    BY <1>3, SequenceFacts DEF WithEnd
  <2>2. bad \in SUBSET (1..Len(parsed.items))
    BY <2>1
  <2> HIDE DEF bad
  <2>3. CASE bad # {}
    <3>1. Min(bad) \in bad
      BY <2>1, <2>2, <2>3, LeastIsMin
    <3>2. \A n \in 1..Len(parsed.items) : n - 1 \in 0..Len(parsed.items)
      BY <2>1
    <3>3. Min(bad) - 1 \in 0..Len(parsed.items)
      BY <2>2, <3>1, <3>2
    <3>4. WithEnd(front, messages)
      BY <1>3, <3>3, FrontWithEnd
    <3> HIDE DEF front
    <3>5. QED
      BY <2>3, <3>4
  <2>4. QED
    BY <1>3, <2>3
<1>5. ended.messages = MessageValues(items)
  BY DEF WebConnectStreamBody, Answer
<1> HIDE DEF items, ended
<1>6. Messages(ended.messages, messages, Nat)
  BY <1>4, <1>5, MessageValuesArrive
<1>7. ~result.raised => Messages(result.value.messages, messages, Nat)
  BY <1>6, Outcomes
<1> HIDE DEF result
<1>8. QED
  BY <1>1, <1>7, SettledArrives

\* connect-web reads no further than the end.
LEMMA LegacyConnectStreamArrives ==
  ASSUME NEW c, NEW r, NEW messages, Returns(r.body, messages)
  PROVE  Messages(LegacyConnectStreamResponse(c, r).messages, messages, Nat)
<1> DEFINE stream == EnvelopesOf(r.body)
           Parsed(e) == IF "end" \in e.flags THEN LegacyEndStreamParse(e.data)
                        ELSE LegacyParse(e.data, c.client.binary)
           Item(e) == IF Parsed(e).raised THEN Parsed(e)
                      ELSE Return([end |-> "end" \in e.flags, value |-> Parsed(e).value])
           values == [n \in DOMAIN stream.items |-> Parsed(stream.items[n])]
           results == [n \in DOMAIN stream.items |-> Item(stream.items[n])]
           out == Yielded(results, stream.errors)
           parsed == UpToEnd(out)
           demuxed == LegacyConnectHeaderError(r)
           valid == LegacyExpectContentType(r.header, TRUE, c.client.binary)
           violation == SimpleError("missing EndStreamResponse", Code.Unknown)
           ended == EndedAnswer(r, parsed, ConnectEnd(FirstEnd(parsed)), violation)
           result == IF demuxed.raised THEN demuxed ELSE IF valid.raised THEN valid ELSE Return(ended)
<1>1. LegacyConnectStreamResponse(c, r) = Settled(result)
  BY DEF LegacyConnectStreamResponse, Through, Then
<1> HIDE DEF demuxed, valid, violation
<1>2. IsSequence(stream.items) /\ Told(stream.items, messages, Nat)
  BY FetchedTold
<1> HIDE DEF stream
<1>3. LegacyItemizes(results, values, stream.items, "end")
  <2> HIDE DEF Parsed
  <2>1. QED
    BY DEF LegacyItemizes
<1>4. LegacyParses(values, stream.items, c.client.binary, "end")
  BY Zenon DEF LegacyParses
<1>5. out = Yielded(results, stream.errors)
  OBVIOUS
<1> HIDE DEF values, results, out
<1>6. WithEnd(out.items, messages)
  BY <1>2, <1>3, <1>4, <1>5, LegacyWithEnd
<1>7. WithEnd(parsed.items, messages)
  BY <1>6, UpToEndWithEnd
<1> HIDE DEF parsed
<1>8. Messages(ended.messages, messages, Nat)
  BY <1>7, EndedAnswerArrives
<1> HIDE DEF ended
<1>9. ~result.raised => Messages(result.value.messages, messages, Nat)
  BY <1>8, Outcomes
<1> HIDE DEF result
<1>10. QED
  BY <1>1, <1>9, SettledArrives

\* connect-web takes a message, and then a trailer.
LEMMA LegacyGrpcWebUnaryArrives ==
  ASSUME NEW c, NEW r, NEW messages, Returns(r.body, messages)
  PROVE  Messages(LegacyGrpcWebUnaryResponse(c, r).messages, messages, Nat)
<1> DEFINE strict == StrictlyFlagged(EnvelopesOf(r.body), "trailer")
           parsed == LegacyGrpcWebItems(strict)
           valid == LegacyGrpcWebHeaderError(r)
           body == LegacyGrpcWebUnaryBody(r)
           result == IF valid.raised THEN valid ELSE body
<1>1. LegacyGrpcWebUnaryResponse(c, r) = Settled(result)
  BY DEF LegacyGrpcWebUnaryResponse, Then
<1>2. WithEnd(parsed.items, messages)
  <2>1. IsSequence(strict.items) /\ Told(strict.items, messages, Nat)
    BY FetchedTold
  <2> HIDE DEF strict
  <2>2. QED
    BY <2>1, LegacyItemsWithEnd
<1>3. ~body.raised => Messages(body.value.messages, messages, Nat)
  <2> DEFINE items == parsed.items
             k == Len(items)
             Missing(n) == IF k < n /\ parsed.errors # << >> THEN Raise(parsed.errors[1])
                           ELSE Raise(LegacyThrown)
             first == LegacyValidateTrailer(items[1].value)
             second == LegacyValidateTrailer(items[2].value)
             success == Answer(r.header, <<items[1].value>>, second.value, << >>)
             ended == IF k > 2 \/ parsed.errors # << >> THEN Missing(3) ELSE Return(success)
  <2>0. body = CASE k = 0 -> Missing(1)
                 [] k > 0 /\ items[1].end ->
                      IF first.raised THEN first ELSE Raise(LegacyThrown)
                 [] k = 1 /\ ~items[1].end -> Missing(2)
                 [] k > 1 /\ ~items[1].end /\ ~items[2].end -> Raise(LegacyThrown)
                 [] OTHER -> IF second.raised THEN second ELSE ended
    BY DEF LegacyGrpcWebUnaryBody, Then
  <2>1. k \in Nat /\ DOMAIN items = 1..k
    BY <1>2, SequenceFacts DEF WithEnd
  <2>2. Missing(1).raised /\ Missing(2).raised /\ Missing(3).raised
    BY Outcomes
  <2>3. success.messages = <<items[1].value>>
    BY DEF Answer
  <2> HIDE DEF body, parsed, k, Missing, first, second, success
  <2>4. ASSUME ~body.raised
        PROVE  k > 0 /\ ~items[1].end /\ body = Return(success)
    <3>1. k # 0
      BY <2>0, <2>2, <2>4
    <3>2. k > 0
      BY <2>1, <3>1
    <3>3. ~items[1].end
      BY <2>0, <2>4, <3>1, <3>2, Outcomes
    <3>4. ~(k = 1) /\ ~(k > 1 /\ ~items[2].end)
      BY <2>0, <2>2, <2>4, <3>1, <3>2, <3>3, Outcomes
    <3>5. body = IF second.raised THEN second ELSE ended
      BY <2>0, <3>1, <3>3, <3>4
    <3> HIDE DEF items
    <3>6. QED
      BY <2>2, <2>4, <3>2, <3>3, <3>5
  <2>5. ASSUME ~body.raised
        PROVE  Messages(success.messages, messages, Nat)
    <3>1. 1 \in DOMAIN items /\ ~items[1].end
      BY <2>1, <2>4, <2>5
    <3>2. 1 \in DOMAIN messages /\ items[1].value = messages[1]
      BY <1>2, <3>1 DEF WithEnd
    <3> HIDE DEF items
    <3>3. QED
      BY <2>3, <3>2, SingleMessageArrives
  <2>6. QED
    BY <2>4, <2>5, Outcomes
<1> HIDE DEF body, valid
<1>4. ~result.raised => Messages(result.value.messages, messages, Nat)
  BY <1>3
<1> HIDE DEF result
<1>5. QED
  BY <1>1, <1>4, SettledArrives

\* It reads a stream up to the trailer.
LEMMA LegacyGrpcWebStreamArrives ==
  ASSUME NEW c, NEW r, NEW messages, Returns(r.body, messages)
  PROVE  Messages(LegacyGrpcWebStreamResponse(c, r).messages, messages, Nat)
<1> DEFINE source == EnvelopesOf(r.body)
           items == LegacyGrpcWebItems(source)
           parsed == UpToEnd(items)
           end == LegacyValidateTrailer(FirstEnd(parsed))
           violation == SimpleError("missing trailers", Code.Internal)
           ended == EndedAnswer(r, parsed, end, violation)
           spared == [ended EXCEPT !.errors = << >>]
           valid == LegacyGrpcWebHeaderError(r)
           result == IF valid.raised THEN valid
                     ELSE Return(IF parsed.items = << >> /\ parsed.errors = << >> THEN spared ELSE ended)
<1>1. LegacyGrpcWebStreamResponse(c, r) = Settled(result)
  BY DEF LegacyGrpcWebStreamResponse, Then
<1>2. IsSequence(source.items) /\ Told(source.items, messages, Nat)
  BY FetchedTold
<1> HIDE DEF source
<1>3. WithEnd(items.items, messages)
  BY <1>2, LegacyItemsWithEnd
<1> HIDE DEF items
<1>4. WithEnd(parsed.items, messages)
  BY <1>3, UpToEndWithEnd
<1> HIDE DEF parsed, end, violation, valid
<1>5. Messages(ended.messages, messages, Nat)
  BY <1>4, EndedAnswerArrives
<1>6. spared.messages = ended.messages
  BY DEF EndedAnswer, Answer
<1> HIDE DEF ended, spared
<1>7. ~result.raised => Messages(result.value.messages, messages, Nat)
  BY <1>5, <1>6, Outcomes
<1> HIDE DEF result
<1>8. QED
  BY <1>1, <1>7, SettledArrives

\* What has no type is not taken for a unary response.
LEMMA TypelessFails ==
  ASSUME NEW stream, NEW binary, NEW accept, NEW status, NEW header, ~Has(header, "content-type")
  PROVE  /\ ConnectValidateResponse(stream, binary, status, header).raised
         /\ ConnectValidateResponseWithCompression(stream, binary, accept, status, header).raised
         /\ LegacyExpectContentType(header, stream, binary).raised
<1> DEFINE type == Get(header, "content-type")
           parsed == ParseConnectType(type)
           valid == ConnectValidateResponse(stream, binary, status, header)
           compression == ResponseCompression(header, ConnectEncoding(stream), accept)
<1>1. type = << >>
  BY DEF Get
<1> HIDE DEF type
<1>2. parsed = << >>
  BY <1>1 DEF ParseConnectType, ParseType
<1>3. valid.raised
  <2> DEFINE error == <<[stream |-> FALSE, binary |-> FALSE]>>
             right == <<[stream |-> stream, binary |-> binary]>>
             Wrong == Raise(HttpError(status, CodeFromConnectStatus(status)))
  <2>1. valid = CASE status # 200 /\ parsed = << >> -> Wrong
                  [] status # 200 /\ ~stream /\ parsed = error -> Return(TRUE)
                  [] parsed = right /\ ~(status # 200 /\ ~stream /\ ~binary) -> Return(FALSE)
                  [] OTHER -> Raise(UnexpectedType)
    BY Zenon DEF ConnectValidateResponse, parsed, type
  <2>2. parsed # error /\ parsed # right
    <3> HIDE DEF parsed
    <3>1. \A e : <<e>> # << >>
      BY SingletonSequence
    <3>2. error # << >> /\ right # << >>
      BY <3>1
    <3>3. QED
      BY <1>2, <3>2
  <2> HIDE DEF parsed, error, right, valid
  <2>3. valid \in {Wrong, Raise(UnexpectedType)}
    BY <1>2, <2>1, <2>2
  <2> HIDE DEF Wrong
  <2>4. Wrong.raised
    BY Outcomes DEF Wrong
  <2>5. QED
    BY <2>3, <2>4, Outcomes
<1>4. ConnectValidateResponseWithCompression(stream, binary, accept, status, header) =
        CASE compression.raised -> compression
          [] ~compression.raised /\ valid.raised -> valid
          [] OTHER -> Return([compression |-> compression.value, isConnectUnaryError |-> valid.value])
  BY DEF ConnectValidateResponseWithCompression
<1>5. type # ConnectType(stream, binary)
  <2> DEFINE expected == ConnectType(stream, binary)
  <2>1. \E e : expected = <<e>>
    BY DEF ConnectType
  <2> HIDE DEF expected
  <2>2. expected # << >>
    BY <2>1, SingletonSequence
  <2>3. type # expected
    BY <1>1, <2>2
  <2>4. QED
    BY <2>3 DEF expected
<1>6. LegacyExpectContentType(header, stream, binary).raised
  BY <1>5, Outcomes DEF LegacyExpectContentType, type
<1> HIDE DEF valid, compression
<1>7. ConnectValidateResponseWithCompression(stream, binary, accept, status, header).raised
  BY <1>3, <1>4
<1>8. QED
  BY <1>3, <1>6, <1>7 DEF valid

\* Data that tells a message is parsed as the message.
LEMMA ToldIsParsed ==
  ASSUME NEW data, NEW messages, Tells(data, messages), NEW binary, ~Parse(data, binary).raised
  PROVE  Messages(<<Parse(data, binary).value>>, messages, Nat)
<1> DEFINE m == Parse(data, binary).value
<1>1. 1 \in DOMAIN messages /\ m = messages[1]
  BY ParsedMessage DEF Tells
<1> HIDE DEF m
<1>2. Messages(<<m>>, messages, Nat)
  BY <1>1, SingleMessageArrives
<1>3. QED
  BY <1>2 DEF m

\* A unary answer of createConnectTransport() has the message that was returned.
LEMMA NodeConnectUnaryArrives ==
  ASSUME NEW c, NEW r, IsBody(r.body), NEW messages, PassesUnary(r, messages)
  PROVE  Messages(NodeConnectUnaryResponse(c, r).messages, messages, Nat)
<1> DEFINE o == c.client
           demuxed == TrailerDemux(r.header)
           stream == FALSE
           valid == ConnectValidateResponseWithCompression(stream, o.binary, o.accept, r.status, r.header)
           read == TransformReadAllBytes(r.body, o.readMaxBytes, LengthHint(r.header))
           data == IF valid.value.compression = "identity" THEN Return(read.value)
                   ELSE Decompress(read.value, valid.value.compression, o.readMaxBytes)
           error == RaiseFrom(ErrorFromJson(ToJson(data.value), AppendHeaders(demuxed.header, demuxed.trailer)))
           message == Parse(data.value, o.binary)
           success == Answer(demuxed.header, <<message.value>>, demuxed.trailer, << >>)
           result == IF valid.raised THEN valid
                     ELSE IF read.raised THEN read
                     ELSE IF data.raised THEN data
                     ELSE IF valid.value.isConnectUnaryError THEN error
                     ELSE IF message.raised THEN message
                     ELSE Return(success)
<1>1. NodeConnectUnaryResponse(c, r) = Settled(result)
  BY Outcomes, Zenon DEF NodeConnectUnaryResponse, Then
<1>2. ~read.raised => read.value = r.body.data
  <2>1. ~read.raised => read.value = BodyData(r.body)
    BY ReadIsData
  <2> HIDE DEF read
  <2>2. QED
    BY <2>1 DEF BodyData, PassesUnary
<1>3. ~valid.raised => Tells(r.body.data, messages)
  <2> HIDE DEF stream
  <2>1. QED
    BY TypelessFails DEF PassesUnary
<1>4. ~valid.raised /\ ~read.raised /\ ~data.raised => Tells(data.value, messages)
  <2> HIDE DEF valid, read
  <2>1. ~data.raised => data.value = read.value \/ data.value = Uncompressed(read.value)
    BY Outcomes DEF Decompress, Uncompressed
  <2>2. IsData(r.body.data)
    BY DEF IsBody, PassesUnary
  <2>3. Tells(r.body.data, messages) => Tells(Uncompressed(r.body.data), messages)
    <3> DEFINE other == Uncompressed(r.body.data)
    <3>1. SameData(other, r.body.data)
      BY <2>2 DEF IsData, SameData, AreFields, Uncompressed
    <3> HIDE DEF other
    <3>2. Tells(r.body.data, messages) => Tells(other, messages)
      BY <3>1, SMTT(30) DEF SameData, Tells, Unreadable, Bears
    <3>3. QED
      BY <3>2 DEF other
  <2> HIDE DEF data
  <2>4. QED
    BY <1>2, <1>3, <2>1, <2>3
<1>5. error.raised
  BY Outcomes, Zenon DEF RaiseFrom
<1> HIDE DEF valid, read, data, error
<1>6. ~valid.raised /\ ~read.raised /\ ~data.raised /\ ~message.raised =>
        Messages(<<message.value>>, messages, Nat)
  BY <1>4, ToldIsParsed
<1>7. success.messages = <<message.value>>
  BY DEF Answer
<1> HIDE DEF message, success
<1>8. ~result.raised => Messages(result.value.messages, messages, Nat)
  BY <1>5, <1>6, <1>7, Outcomes
<1> HIDE DEF result
<1>9. QED
  BY <1>1, <1>8, SettledArrives, SMTT(30)

\* The same for connect-web-next, where fetch() has decompressed the body
LEMMA WebConnectUnaryArrives ==
  ASSUME NEW c, NEW r, NEW messages, PassesUnary(r, messages)
  PROVE  Messages(WebConnectUnaryResponse(c, r).messages, messages, Nat)
<1> DEFINE demuxed == TrailerDemux(r.header)
           stream == FALSE
           valid == ConnectValidateResponse(stream, c.client.binary, r.status, r.header)
           json == FetchedJson(r.body)
           error == RaiseFrom(ErrorFromJson(json.value, AppendHeaders(demuxed.header, demuxed.trailer)))
           data == BodyData(r.body)
           message == Parse(data, c.client.binary)
           success == Answer(demuxed.header, <<message.value>>, demuxed.trailer, << >>)
           result == IF valid.raised THEN valid
                     ELSE IF valid.value THEN IF json.raised THEN json ELSE error
                     ELSE IF message.raised THEN message
                     ELSE Return(success)
<1>1. WebConnectUnaryResponse(c, r) = Settled(result)
  BY DEF WebConnectUnaryResponse, Then
<1>2. error.raised
  BY Outcomes DEF RaiseFrom
<1>3. ~valid.raised => Tells(data, messages)
  <2>1. data = r.body.data
    BY DEF BodyData, PassesUnary
  <2> HIDE DEF stream, data
  <2>2. QED
    BY <2>1, TypelessFails DEF PassesUnary
<1> HIDE DEF valid, json, error, data
<1>4. ~valid.raised /\ ~message.raised => Messages(<<message.value>>, messages, Nat)
  BY <1>3, ToldIsParsed
<1>5. success.messages = <<message.value>>
  BY DEF Answer
<1> HIDE DEF message, success
<1>6. ~result.raised => Messages(result.value.messages, messages, Nat)
  BY <1>2, <1>4, <1>5, Outcomes
<1> HIDE DEF result
<1>7. QED
  BY <1>1, <1>6, SettledArrives

\* The same for connect-web
LEMMA LegacyConnectUnaryArrives ==
  ASSUME NEW c, NEW r, NEW messages, PassesUnary(r, messages)
  PROVE  Messages(LegacyConnectUnaryResponse(c, r).messages, messages, Nat)
<1> DEFINE demuxed == LegacyConnectHeaderError(r)
           stream == FALSE
           valid == LegacyExpectContentType(r.header, stream, c.client.binary)
           data == BodyData(r.body)
           message == LegacyParse(data, c.client.binary)
           success == Answer(demuxed.value.header, <<message.value>>, demuxed.value.trailer, << >>)
           result == IF demuxed.raised THEN demuxed
                     ELSE IF valid.raised THEN valid
                     ELSE IF message.raised THEN message
                     ELSE Return(success)
<1>1. LegacyConnectUnaryResponse(c, r) = Settled(result)
  BY DEF LegacyConnectUnaryResponse, Then
<1>2. ~valid.raised => Tells(data, messages)
  <2>1. data = r.body.data
    BY DEF BodyData, PassesUnary
  <2> HIDE DEF stream, data
  <2>2. QED
    BY <2>1, TypelessFails DEF PassesUnary
<1> HIDE DEF demuxed, valid, data
<1>3. ~message.raised => ~Parse(data, c.client.binary).raised /\ message = Parse(data, c.client.binary)
  BY Outcomes DEF LegacyParse
<1>4. success.messages = <<message.value>>
  BY DEF Answer
<1> HIDE DEF message, success
<1>5. ~valid.raised /\ ~message.raised => Messages(<<message.value>>, messages, Nat)
  BY <1>2, <1>3, ToldIsParsed
<1>6. ~result.raised => Messages(result.value.messages, messages, Nat)
  BY <1>4, <1>5, Outcomes
<1> HIDE DEF result
<1>7. QED
  BY <1>1, <1>6, SettledArrives

\* Whatever the platform and the protocol, what a client gives its caller is a beginning
\* of what the response returns.
LEMMA ReadResponseArrives ==
  ASSUME NEW c \in Calls, NEW r, IsBody(r.body), NEW messages, Returns(r.body, messages),
         c.protocol = "connect" /\ c.kind = "unary" => PassesUnary(r, messages)
  PROVE  Messages(ReadResponse(c, r).messages, messages, Nat)
<1> DEFINE a == ReadResponse(c, r)
           unary == c.kind = "unary"
<1>1. \/ c.platform = "node" /\ c.protocol \in {"connect", "grpc", "grpc-web"}
      \/ c.platform \in {"web", "legacy"} /\ c.protocol \in {"connect", "grpc-web"}
  BY CallsAssumption
<1>2. CASE c.protocol = "connect" /\ unary
  <2>1. a \in {NodeConnectUnaryResponse(c, r), WebConnectUnaryResponse(c, r), LegacyConnectUnaryResponse(c, r)}
    BY <1>1, <1>2 DEF ReadResponse
  <2>2. PassesUnary(r, messages)
    BY <1>2
  <2>3. /\ Messages(NodeConnectUnaryResponse(c, r).messages, messages, Nat)
        /\ Messages(WebConnectUnaryResponse(c, r).messages, messages, Nat)
        /\ Messages(LegacyConnectUnaryResponse(c, r).messages, messages, Nat)
    BY <2>2, NodeConnectUnaryArrives, WebConnectUnaryArrives, LegacyConnectUnaryArrives
  <2> HIDE DEF a
  <2>4. Messages(a.messages, messages, Nat)
    BY <2>1, <2>3
  <2>5. QED
    BY <2>4 DEF a
<1>3. CASE c.protocol = "connect" /\ ~unary
  <2>1. a \in {NodeConnectStreamResponse(c, r), WebConnectStreamResponse(c, r), LegacyConnectStreamResponse(c, r)}
    BY <1>1, <1>3 DEF ReadResponse
  <2>2. /\ Messages(NodeConnectStreamResponse(c, r).messages, messages, Nat)
        /\ Messages(WebConnectStreamResponse(c, r).messages, messages, Nat)
        /\ Messages(LegacyConnectStreamResponse(c, r).messages, messages, Nat)
    BY NodeConnectStreamArrives, WebConnectStreamArrives, LegacyConnectStreamArrives
  <2> HIDE DEF a
  <2>3. Messages(a.messages, messages, Nat)
    BY <2>1, <2>2
  <2>4. QED
    BY <2>3 DEF a
<1>4. CASE c.protocol = "grpc"
  <2>1. a \in {NodeGrpcUnaryResponse(c, r), NodeGrpcStreamResponse(c, r)}
    BY <1>1, <1>4 DEF ReadResponse
  <2>2. /\ Messages(NodeGrpcUnaryResponse(c, r).messages, messages, Nat)
        /\ Messages(NodeGrpcStreamResponse(c, r).messages, messages, Nat)
    BY NodeGrpcArrives
  <2> HIDE DEF a
  <2>3. Messages(a.messages, messages, Nat)
    BY <2>1, <2>2
  <2>4. QED
    BY <2>3 DEF a
<1>5. CASE c.protocol = "grpc-web"
  <2>1. a \in {NodeGrpcWebUnaryResponse(c, r), NodeGrpcWebStreamResponse(c, r),
               WebGrpcWebUnaryResponse(c, r), WebGrpcWebStreamResponse(c, r),
               LegacyGrpcWebUnaryResponse(c, r), LegacyGrpcWebStreamResponse(c, r)}
    BY <1>1, <1>5 DEF ReadResponse
  <2>2. /\ Messages(NodeGrpcWebUnaryResponse(c, r).messages, messages, Nat)
        /\ Messages(NodeGrpcWebStreamResponse(c, r).messages, messages, Nat)
        /\ Messages(WebGrpcWebUnaryResponse(c, r).messages, messages, Nat)
        /\ Messages(WebGrpcWebStreamResponse(c, r).messages, messages, Nat)
    BY GrpcWebArrives
  <2>3. /\ Messages(LegacyGrpcWebUnaryResponse(c, r).messages, messages, Nat)
        /\ Messages(LegacyGrpcWebStreamResponse(c, r).messages, messages, Nat)
    BY LegacyGrpcWebUnaryArrives, LegacyGrpcWebStreamArrives
  <2> HIDE DEF a
  <2>4. Messages(a.messages, messages, Nat)
    BY <2>1, <2>2, <2>3
  <2>5. QED
    BY <2>4 DEF a
<1>6. QED
  BY <1>1, <1>2, <1>3, <1>4, <1>5

\* The messages are a beginning.
LEMMA MessagesAreFirst ==
  ASSUME NEW items, NEW messages, IsSequence(messages), Messages(items, messages, Nat)
  PROVE  IsPrefix(items, messages)
<1>1. /\ Len(items) \in Nat /\ DOMAIN items = 1..Len(items)
      /\ Len(messages) \in Nat /\ DOMAIN messages = 1..Len(messages)
  BY SequenceFacts DEF Messages
<1>2. \A n \in DOMAIN items : n \in Nat
  BY <1>1
<1>3. \A n \in 1..Len(items) : n \in DOMAIN messages /\ items[n] = messages[n]
  BY <1>1, <1>2 DEF Messages
<1>4. Len(items) <= Len(messages)
  <2>1. CASE Len(items) = 0
    BY <1>1, <2>1
  <2>2. CASE Len(items) # 0
    <3>1. Len(items) \in 1..Len(items)
      BY <1>1, <2>2
    <3>2. Len(items) \in 1..Len(messages)
      BY <1>1, <1>3, <3>1
    <3>3. QED
      BY <1>1, <3>2
  <2>3. QED
    BY <2>1, <2>2
<1>5. QED
  BY <1>1, <1>3, <1>4 DEF IsPrefix

\* What a request on its way asks, a response on its way passes, and an answer has
Asked ==
  /\ Asks(call, request[1].body) /\ UnaryTyped(call, request[1].header)
  /\ DOMAIN request[1] = {"httpVersion", "method", "path", "header", "body"}
  /\ ~InternalHandlerOptions(call.server).raised

Passed ==
  /\ Passes(response[1], call.inputs, call.impl.outputs)
  /\ call.protocol = "connect" /\ call.kind = "unary" => PassesUnary(response[1], call.impl.outputs)

ArrivalInv ==
  /\ pc # "done" => answer = << >>
  /\ pc = "sent" => Asked
  /\ pc = "served" /\ ~tampered => Passed
  /\ Genuine =>
       /\ response[1].given # << >> => Messages(response[1].given[1].inputs, call.inputs, Nat)
       /\ Messages(answer[1].messages, call.impl.outputs, Nat)

\* A server gives and returns what is asked.
LEMMA ServePasses ==
  ASSUME Inv, ArrivalInv, Serve
  PROVE  ArrivalInv'
<1> DEFINE r == NodeHandler(call.server, CreateImplSpec(call.kind, call.impl), request[1])
<1>1. /\ response' = <<r>> /\ call' = call /\ answer' = answer /\ pc' \in {"served", "done"}
      /\ pc' = "served" => pc = "sent"
      /\ pc \in {"sent", "foreign"}
  BY DEF Serve
<1>2. answer' = << >>
  BY <1>1 DEF ArrivalInv
<1>3. ASSUME pc' = "served"
      PROVE  Passed'
  <2>1. Asked /\ call \in Calls /\ IsBody(request[1].body)
    BY <1>1, <1>3 DEF ArrivalInv, Inv, RequestInv
  <2>2. /\ Passes(r, call.inputs, call.impl.outputs)
        /\ call.protocol = "connect" /\ call.kind = "unary" => PassesUnary(r, call.impl.outputs)
    BY <2>1, HandlerPasses DEF Asked
  <2> HIDE DEF r
  <2>3. response'[1] = r
    BY <1>1
  <2>4. QED
    BY <1>1, <2>2, <2>3 DEF Passed
<1> HIDE DEF r
<1>4. pc' # "sent"
  BY <1>1
<1>5. ~Genuine'
  BY <1>2 DEF Genuine, Answered
<1>6. QED
  BY <1>2, <1>3, <1>4, <1>5 DEF ArrivalInv

\* A client gives its caller what is passed.
LEMMA ReadPasses ==
  ASSUME Inv, ArrivalInv, Read
  PROVE  ArrivalInv'
<1> DEFINE t == response[1]
           r == Received(call, t)
           a == ReadResponse(call, r)
<1>1. /\ pc = "served" /\ pc' = "done" /\ answer' = <<a>> /\ call' = call
      /\ response' = response /\ tampered' = tampered
  BY DEF Read, Settle
<1>2. ASSUME ~tampered
      PROVE  /\ t.given # << >> => Messages(t.given[1].inputs, call.inputs, Nat)
             /\ Messages(a.messages, call.impl.outputs, Nat)
  <2>1. /\ call \in Calls /\ IsBody(t.body)
        /\ DOMAIN t = {"status", "header", "body", "trailer", "given"}
        /\ Passed
    BY <1>1, <1>2 DEF Inv, ResponseInv, Served, ArrivalInv
  <2>2. IsBody(r.body)
    BY <2>1, ReceivedIsBody
  <2>3. Returns(t.body, call.impl.outputs)
    BY <2>1 DEF Passed, Passes, Returns
  <2>4. /\ Returns(r.body, call.impl.outputs)
        /\ call.protocol = "connect" /\ call.kind = "unary" => PassesUnary(r, call.impl.outputs)
    BY <2>1, <2>3, ReceivedPasses DEF Passed
  <2> HIDE DEF r
  <2>5. Messages(a.messages, call.impl.outputs, Nat)
    BY <2>1, <2>2, <2>4, ReadResponseArrives
  <2> HIDE DEF a
  <2>6. QED
    BY <2>1, <2>5 DEF Passed, Passes
<1> HIDE DEF r, a
<1>3. answer'[1] = a
  BY <1>1
<1>4. QED
  BY <1>1, <1>2, <1>3 DEF ArrivalInv, Genuine

\* Every step lets messages through in their order.
LEMMA ArrivalStep ==
  ASSUME Inv, ArrivalInv, [Next]_vars
  PROVE  ArrivalInv'
<1>1. CASE Send
  <2>1. /\ pc = "start" /\ call' = call /\ response' = response
        /\ pc' = "done" \/ (pc' = "sent" /\ answer' = answer)
    BY <1>1, Zenon DEF Send, Settle
  <2>2. response' = << >> /\ answer = << >>
    BY <2>1 DEF Inv, ResponseInv, ArrivalInv
  <2>3. pc' = "sent" => Asked'
    BY <1>1, <2>1, SentAsks DEF Inv, Asked
  <2>4. QED
    BY <2>1, <2>2, <2>3 DEF ArrivalInv, Genuine
<1>2. CASE ForeignSends
  BY <1>2 DEF ForeignSends, ArrivalInv, Genuine, Answered
<1>3. CASE Serve
  BY <1>3, ServePasses
<1>4. CASE Proxy
  BY <1>4 DEF Proxy, ArrivalInv, Genuine
<1>5. CASE ConnectionFails
  <2>1. pc = "sent" /\ pc' = "done" /\ response' = response
    BY <1>5 DEF ConnectionFails, Settle
  <2>2. response' = << >>
    BY <2>1 DEF Inv, ResponseInv
  <2>3. QED
    BY <2>1, <2>2 DEF ArrivalInv, Genuine
<1>6. CASE Read
  BY <1>6, ReadPasses
<1>7. CASE UNCHANGED vars
  BY <1>7 DEF vars, ArrivalInv, Genuine, Answered, Asked, Passed
<1>8. QED
  BY <1>1, <1>2, <1>3, <1>4, <1>5, <1>6, <1>7 DEF Next

\* What an implementation is given is a beginning of what its caller sent, and what a
\* caller gets is a beginning of what the implementation returned: no message is made
\* up, lost before another one, or given out of order, even if the call fails.
THEOREM MessagesArriveInOrder == Spec => []MessagesArrive
<1>1. Init => ArrivalInv
  BY DEF Init, ArrivalInv, Genuine, Answered
<1>2. Inv /\ ArrivalInv /\ [Next]_vars => ArrivalInv'
  BY ArrivalStep
<1>3. Inv /\ ArrivalInv => MessagesArrive
  <2>1. SUFFICES ASSUME Inv, ArrivalInv
                 PROVE  MessagesArrive
    OBVIOUS
  <2>2. IsSequence(call.inputs) /\ IsSequence(call.impl.outputs)
    BY <2>1, CallsAssumption DEF Inv
  <2>3. ASSUME ~tampered, response # << >>, pc = "served" \/ Answered, response[1].given # << >>
        PROVE  IsPrefix(response[1].given[1].inputs, call.inputs)
    <3>1. Messages(response[1].given[1].inputs, call.inputs, Nat)
      BY <2>1, <2>3 DEF ArrivalInv, Passed, Passes, Genuine
    <3>2. QED
      BY <2>2, <3>1, MessagesAreFirst
  <2>4. ASSUME Genuine
        PROVE  IsPrefix(answer[1].messages, call.impl.outputs)
    <3>1. Messages(answer[1].messages, call.impl.outputs, Nat)
      BY <2>1, <2>4 DEF ArrivalInv
    <3>2. QED
      BY <2>2, <3>1, MessagesAreFirst
  <2>5. QED
    BY <2>3, <2>4 DEF MessagesArrive
<1>4. QED
  BY <1>1, <1>2, <1>3, Invariance, PTL DEF Spec
=============================================================================
