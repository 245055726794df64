------------------------------- MODULE Responses -------------------------------
(***************************************************************************)
(* What the transports make of the whole of a response r: its status,      *)
(* header, body and trailer become messages, metadata, and errors.         *)
(* ClientCall has the steps in which this happens.                         *)
(***************************************************************************)
EXTENDS Transports

\* What a call gives the caller; errors: none, or one.
Answer(header, messages, trailer, errors) ==
  [header |-> header, messages |-> messages, trailer |-> trailer, errors |-> errors]

Failed(error) == Answer(NoHeaders, << >>, NoHeaders, <<error>>)
Settled(result) == IF result.raised THEN Failed(result.error) ELSE result.value

ProtocolError == SimpleError("protocol error", Code.InvalidArgument)

RaiseFrom(parsed) == Raise(IF parsed.raised THEN parsed.error ELSE parsed.value)

LengthHint(header) == IF Has(header, "content-length") THEN header["content-length"][1] ELSE -1

Values(items) == [n \in DOMAIN items |-> items[n].value]
Ends(items) == {n \in DOMAIN items : items[n].end}
EndValues(items) == Values(Selected(items, Ends(items)))
MessageValues(items) == Values(Selected(items, DOMAIN items \ Ends(items)))

-----------------------------------------------------------------------------
(* connect-node                                                            *)

NodeConnectUnaryResponse(c, r) ==
  LET o == c.client
      demuxed == TrailerDemux(r.header)
      Body(valid) ==
        Then(TransformReadAllBytes(r.body, o.readMaxBytes, LengthHint(r.header)),
             LAMBDA data : IF valid.compression = "identity" THEN Return(data)
                           ELSE Decompress(data, valid.compression, o.readMaxBytes))
      Conclude(valid) ==
        Then(Body(valid), LAMBDA data :
          IF valid.isConnectUnaryError
            THEN RaiseFrom(ErrorFromJson(ToJson(data), AppendHeaders(demuxed.header, demuxed.trailer)))
            ELSE Then(Parse(data, o.binary),
                      LAMBDA m : Return(Answer(demuxed.header, <<m>>, demuxed.trailer, << >>))))
  IN Settled(Then(ConnectValidateResponseWithCompression(FALSE, o.binary, o.accept, r.status, r.header),
                  Conclude))

\* The pipe from the body of a response to its envelopes
Download(c, r, compression) ==
  TransformDecompressEnvelope(TransformSplitEnvelope(r.body, c.client.readMaxBytes),
                              compression, c.client.readMaxBytes)

\* What the first end of a stream says
FirstEnd(parsed) == parsed.items[Min(Ends(parsed.items))].value

\* Mutant: does not miss the end.
EndedAnswer_Lenient(r, parsed, end, violation) ==
  Answer(r.header, MessageValues(parsed.items), NoHeaders, parsed.errors)

\* Messages, and one end after all of them, which raises the error it stands for, or
\* returns the trailer.
EndedAnswer(r, parsed, end, violation) ==
  LET ends == Ends(parsed.items)
      first == IF ends = {} THEN Len(parsed.items) + 1 ELSE Min(ends)
      messages == Values(SubSeq(parsed.items, 1, first - 1))
  IN CASE ends = {} -> Answer(r.header, messages, NoHeaders,
                              IF parsed.errors = << >> THEN <<violation>> ELSE parsed.errors)
       [] ends # {} /\ end.raised -> Answer(r.header, messages, NoHeaders, <<end.error>>)
       [] ends # {} /\ ~end.raised /\ first < Len(parsed.items) ->
            Answer(r.header, messages, end.value, <<violation>>)
       [] OTHER -> Answer(r.header, messages, end.value, parsed.errors)

\* An error says it all, a success has metadata.
ConnectEnd(end) == IF end.errors = << >> THEN Return(end.metadata) ELSE Raise(end.errors[1])

NodeConnectStreamResponse(c, r) ==
  Settled(Then(
    ConnectValidateResponseWithCompression(TRUE, c.client.binary, c.client.accept, r.status, r.header),
    LAMBDA valid :
      LET parsed == TransformParseEnvelopeAndEnd(Download(c, r, valid.compression), c.client.binary, "end")
      IN Return(EndedAnswer(r, parsed, ConnectEnd(FirstEnd(parsed)), ProtocolError))))

NodeGrpcUnaryResponse(c, r) ==
  Settled(Then(
    GrpcValidateResponseWithCompression(c.client.binary, c.client.accept, r.status, r.header),
    LAMBDA valid :
      LET parsed == TransformParseEnvelope(Download(c, r, valid.compression), c.client.binary, "none")
      IN CASE Len(parsed.items) > 1 -> Raise(ProtocolError)
           [] Len(parsed.items) <= 1 /\ parsed.errors # << >> -> Raise(parsed.errors[1])
           [] OTHER -> Then(ValidateTrailer(r.trailer), LAMBDA trailer :
                         IF parsed.items = << >> THEN Raise(ProtocolError)
                         ELSE Return(Answer(r.header, parsed.items, trailer, << >>)))))

NodeGrpcStreamResponse(c, r) ==
  Settled(Then(
    GrpcValidateResponseWithCompression(c.client.binary, c.client.accept, r.status, r.header),
    LAMBDA valid :
      LET parsed == TransformParseEnvelope(Download(c, r, valid.compression), c.client.binary, "none")
      IN Return(Answer(r.header, parsed.items, r.trailer,
                       IF parsed.errors # << >> \/ valid.foundStatus THEN parsed.errors
                       ELSE FindTrailerError(r.trailer)))))

\* One message and one trailer, in any order
UnaryGrpcWebAnswer(r, parsed, violation) ==
  LET messages == MessageValues(parsed.items)
      trailers == EndValues(parsed.items)
  IN CASE Len(messages) > 1 \/ Len(trailers) > 1 -> Raise(violation)
       [] Len(messages) <= 1 /\ Len(trailers) <= 1 /\ parsed.errors # << >> -> Raise(parsed.errors[1])
       [] Len(messages) <= 1 /\ trailers = << >> /\ parsed.errors = << >> -> Raise(violation)
       [] OTHER -> Then(ValidateTrailer(trailers[1]), LAMBDA trailer :
                     IF messages = << >> THEN Raise(violation)
                     ELSE Return(Answer(r.header, messages, trailer, << >>)))

NodeGrpcWebUnaryResponse(c, r) ==
  Settled(Then(
    GrpcWebValidateResponseWithCompression(c.client.binary, c.client.accept, r.status, r.header),
    LAMBDA valid : UnaryGrpcWebAnswer(r,
      TransformParseEnvelopeAndEnd(Download(c, r, valid.compression), c.client.binary, "trailer"),
      ProtocolError)))

\* A trailers-only response: nothing may follow.
TrailersOnlyAnswer(r, parsed, violation) ==
  Answer(r.header, << >>, NoHeaders, IF parsed.items = << >> THEN parsed.errors ELSE <<violation>>)

NodeGrpcWebStreamResponse(c, r) ==
  Settled(Then(
    GrpcWebValidateResponseWithCompression(c.client.binary, c.client.accept, r.status, r.header),
    LAMBDA valid :
      LET parsed == TransformParseEnvelopeAndEnd(Download(c, r, valid.compression), c.client.binary, "trailer")
      IN Return(IF valid.foundStatus THEN TrailersOnlyAnswer(r, parsed, ProtocolError)
                ELSE EndedAnswer(r, parsed, ValidateTrailer(FirstEnd(parsed)), ProtocolError))))

-----------------------------------------------------------------------------
(* connect-web-next: createEnvelopeReadableStream(), and no limits         *)

\* The last envelope is given as it is, even if it is short.
EnvelopesOf(body) ==
  CASE body.is = "envelopes" -> Stream(body.envelopes)
    [] body.is = "bare" /\ Size(body.data) = 0 -> Stream(<< >>)
    [] OTHER -> [items |-> << >>, errors |-> <<SimpleError("premature end of stream", Code.DataLoss)>>]

\* response.json() throws an Error.
FetchedJson(body) ==
  LET data == BodyData(body)
  IN IF data.zip = "identity" /\ data.format = "json" THEN Return(ToJson(data))
     ELSE Raise(FromReason([is |-> "Error", message |-> "no JSON"], Code.Internal))

WebConnectUnaryResponse(c, r) ==
  LET demuxed == TrailerDemux(r.header)
      Conclude(isConnectUnaryError) ==
        IF isConnectUnaryError
          THEN Then(FetchedJson(r.body), LAMBDA json :
                 RaiseFrom(ErrorFromJson(json, AppendHeaders(demuxed.header, demuxed.trailer))))
          ELSE Then(Parse(BodyData(r.body), c.client.binary), LAMBDA m :
                 Return(Answer(demuxed.header, <<m>>, demuxed.trailer, << >>)))
  IN Settled(Then(ConnectValidateResponse(FALSE, c.client.binary, r.status, r.header), Conclude))

\* It goes on after the end of a stream, unless that is an error.
WebConnectStreamBody(r, parsed) ==
  LET bad == {n \in DOMAIN parsed.items : parsed.items[n].end /\ parsed.items[n].value.errors # << >>}
      items == IF bad = {} THEN parsed.items ELSE SubSeq(parsed.items, 1, Min(bad) - 1)
      ends == EndValues(items)
  IN Answer(r.header, MessageValues(items),
            FoldLeft(LAMBDA trailer, end : SetAll(trailer, end.metadata), NoHeaders, ends),
            CASE bad # {} -> parsed.items[Min(bad)].value.errors
              [] bad = {} /\ parsed.errors = << >> /\ ends = << >> -> <<Thrown(Code.Unknown)>>
              [] OTHER -> parsed.errors)

WebConnectStreamResponse(c, r) ==
  Settled(Then(
    ConnectValidateResponse(TRUE, c.client.binary, r.status, r.header),
    LAMBDA isConnectUnaryError : Return(WebConnectStreamBody(r,
      TransformParseEnvelopeAndEnd(EnvelopesOf(r.body), c.client.binary, "end")))))

\* Any other flag than that of a trailer makes it a message.
StrictlyFlagged(stream, flag) ==
  Through(stream, LAMBDA e :
    Return(IF flag \in e.flags /\ e.flags # {flag} THEN Envelope({}, e.data) ELSE e))

WebGrpcWebUnaryResponse(c, r) ==
  Settled(Then(
    GrpcWebValidateResponse(c.client.binary, r.status, r.header),
    LAMBDA foundStatus : UnaryGrpcWebAnswer(r,
      TransformParseEnvelopeAndEnd(StrictlyFlagged(EnvelopesOf(r.body), "trailer"), c.client.binary, "trailer"),
      Thrown(Code.Internal))))

WebGrpcWebStreamBody(c, r, foundStatus) ==
  LET parsed == TransformParseEnvelopeAndEnd(EnvelopesOf(r.body), c.client.binary, "trailer")
  IN IF foundStatus THEN TrailersOnlyAnswer(r, parsed, Thrown(Code.Unknown))
     ELSE EndedAnswer(r, parsed, ValidateTrailer(FirstEnd(parsed)), Thrown(Code.Unknown))

WebGrpcWebStreamResponse(c, r) ==
  Settled(Then(GrpcWebValidateResponse(c.client.binary, r.status, r.header),
               LAMBDA foundStatus : Return(WebGrpcWebStreamBody(c, r, foundStatus))))

-----------------------------------------------------------------------------
(* The legacy connect-web                                                  *)

LegacyThrown == LegacyFromReason([is |-> "value", message |-> "thrown"], Code.Internal)

\* What fromBinary() and fromJson() throw is an Error.
LegacyParse(data, binary) ==
  LET message == Parse(data, binary)
  IN IF message.raised THEN Raise(LegacyFromReason([is |-> "Error", message |-> "parse"], Code.Internal))
     ELSE message

\* There may be no parameter: "; charset=utf-8" is unexpected.
LegacyExpectContentType(header, stream, binary) ==
  IF Get(header, "content-type") = ConnectType(stream, binary) THEN Return(TRUE)
  ELSE Raise(SimpleError("unexpected response content type", Code.Internal))

LegacyConnectHeaderError(r) ==
  LET demuxed == LegacyDemuxHeaderTrailers(r.header)
  IN CASE r.status = 200 -> Return(demuxed)
       [] r.status # 200 /\ Get(r.header, "content-type") = <<"application/json">> ->
            Then(FetchedJson(r.body), LAMBDA json :
              RaiseFrom(LegacyErrorFromJson(json, LegacyAppendHeaders(demuxed.header, demuxed.trailer))))
       [] OTHER -> Raise(HttpError(r.status, LegacyCodeFromConnectStatus(r.status)))

LegacyConnectUnaryResponse(c, r) ==
  Settled(Then(LegacyConnectHeaderError(r), LAMBDA demuxed :
    Then(LegacyExpectContentType(r.header, FALSE, c.client.binary), LAMBDA valid :
      Then(LegacyParse(BodyData(r.body), c.client.binary), LAMBDA m :
        Return(Answer(demuxed.header, <<m>>, demuxed.trailer, << >>))))))

\* The items up to the first end, and what is thrown before it
UpToEnd(parsed) ==
  LET ends == Ends(parsed.items)
  IN IF ends = {} THEN parsed ELSE Stream(SubSeq(parsed.items, 1, Min(ends)))

\* read() is done with the first end.
LegacyConnectStreamResponse(c, r) ==
  LET parsed == UpToEnd(Through(EnvelopesOf(r.body), LAMBDA e :
                  Then(IF "end" \in e.flags THEN LegacyEndStreamParse(e.data)
                       ELSE LegacyParse(e.data, c.client.binary),
                       LAMBDA value : Return([end |-> "end" \in e.flags, value |-> value]))))
  IN Settled(Then(LegacyConnectHeaderError(r), LAMBDA demuxed :
       Then(LegacyExpectContentType(r.header, TRUE, c.client.binary), LAMBDA valid :
         Return(EndedAnswer(r, parsed, ConnectEnd(FirstEnd(parsed)),
                            SimpleError("missing EndStreamResponse", Code.Unknown))))))

LegacyHttpStatusError(r) ==
  LET code == LegacyCodeFromGrpcWebStatus(r.status)
  IN IF code = 0 THEN Return(r) ELSE Raise(SimpleError(MessageOf(r.header), code))

LegacyContentTypeError(r) ==
  IF Get(r.header, "content-type") \in {<<"application/grpc-web">>, <<"application/grpc-web+proto">>}
    THEN Return(r) ELSE Raise(UnexpectedType)

LegacyHeadersError(header) ==
  LET status == Get(header, "grpc-status")
  IN CASE status \in {<< >>, <<0>>} -> Return(header)
       [] status \notin {<< >>, <<0>>} /\ status[1] \in CodeValues ->
            Raise(LegacyNewError(MessageOf(header), status[1], header))
       [] OTHER -> Raise(LegacyNewError("invalid grpc-status", Code.Internal, header))

LegacyDetailsError(header) ==
  IF ~Has(header, "grpc-status-details-bin") THEN Return(header)
  ELSE LET status == LegacyDecodeBinaryHeader(header["grpc-status-details-bin"])
       IN CASE status.raised -> Raise([status.error EXCEPT !.metadata = header])
            [] ~status.raised /\ status.value.code = 0 -> Return(header)
            [] OTHER -> Raise([LegacyNewError(status.value.message, status.value.code, header)
                                 EXCEPT !.details = Unpack(status.value.details)])

LegacyValidateTrailer(header) == Then(LegacyDetailsError(header), LegacyHeadersError)

LegacyGrpcWebHeaderError(r) ==
  Then(LegacyHttpStatusError(r), LAMBDA good :
    Then(LegacyContentTypeError(good), LAMBDA typed : LegacyValidateTrailer(typed.header)))

LegacyGrpcWebItems(envelopes) ==
  Through(envelopes, LAMBDA e :
    Then(IF "trailer" \in e.flags THEN LegacyTrailerDeserialize(e.data) ELSE LegacyParse(e.data, TRUE),
         LAMBDA value : Return([end |-> "trailer" \in e.flags, value |-> value])))

\* A message, a trailer, and nothing else; or the trailer of an error.
LegacyGrpcWebUnaryBody(r) ==
  LET parsed == LegacyGrpcWebItems(StrictlyFlagged(EnvelopesOf(r.body), "trailer"))
      items == parsed.items
      Missing(n) == IF Len(items) < n /\ parsed.errors # << >> THEN Raise(parsed.errors[1])
                    ELSE Raise(LegacyThrown)
  IN CASE Len(items) = 0 -> Missing(1)
       [] Len(items) > 0 /\ items[1].end ->
            Then(LegacyValidateTrailer(items[1].value), LAMBDA trailer : Raise(LegacyThrown))
       [] Len(items) = 1 /\ ~items[1].end -> Missing(2)
       [] Len(items) > 1 /\ ~items[1].end /\ ~items[2].end -> Raise(LegacyThrown)
       [] OTHER -> Then(LegacyValidateTrailer(items[2].value), LAMBDA trailer :
            IF Len(items) > 2 \/ parsed.errors # << >> THEN Missing(3)
            ELSE Return(Answer(r.header, <<items[1].value>>, trailer, << >>)))

LegacyGrpcWebUnaryResponse(c, r) ==
  Settled(Then(LegacyGrpcWebHeaderError(r), LAMBDA header : LegacyGrpcWebUnaryBody(r)))

\* A stream that ends without a message needs no trailer.
LegacyGrpcWebStreamResponse(c, r) ==
  LET parsed == UpToEnd(LegacyGrpcWebItems(EnvelopesOf(r.body)))
      answer == EndedAnswer(r, parsed, LegacyValidateTrailer(FirstEnd(parsed)),
                            SimpleError("missing trailers", Code.Internal))
  IN Settled(Then(LegacyGrpcWebHeaderError(r), LAMBDA header :
       Return(IF parsed.items = << >> /\ parsed.errors = << >> THEN [answer EXCEPT !.errors = << >>]
              ELSE answer)))
=============================================================================
