------------------------------- MODULE Payloads -------------------------------
(***************************************************************************)
(* Messages on their way to the wire and back: serialization.ts,           *)
(* compression.ts of connect-core and connect-node, envelope.ts, and the   *)
(* transforms of async-iterable.ts that handlers and transports chain.     *)
(*                                                                         *)
(* A message has a size, and may hold an Any that has no JSON form.  Data  *)
(* are the bytes of some content in a format, perhaps zipped.  A stream is *)
(* what an AsyncIterable will give: items, then the errors it raises, none *)
(* or one.                                                                 *)
(***************************************************************************)
EXTENDS ConnectErrors, FiniteSetsExt

CONSTANT Zipped   \* what a number of bytes is compressed to

MaxSize == 3     \* bound: bytes of a message
Unlimited == 9   \* stands for 0xffffffff, the default and the largest limit

ASSUME PayloadAssumption == Zipped \in [0..MaxSize -> 0..MaxSize]

Message(size, any) == [is |-> "message", size |-> size, any |-> any]

\* What is not a message has one byte.
Data(content, format, size) ==
  [content |-> content, format |-> format, plain |-> size, zip |-> "identity"]
EmptyData == Data([is |-> "nothing"], "none", 0)

Size(data) == IF data.zip = "identity" THEN data.plain ELSE Zipped[data.plain]

-----------------------------------------------------------------------------
(* Serialization                                                           *)

\* No bytes at all are the binary form of an empty message.
BinaryParse(data) ==
  CASE data.zip = "identity" /\ data.plain = 0 -> Return(Message(0, FALSE))
    [] data.zip = "identity" /\ data.plain > 0 /\ data.format = "proto" -> Return(data.content)
    [] OTHER -> Raise(SimpleError("parse binary", Code.InvalidArgument))

BinarySerialize(message) == Return(Data(message, "proto", message.size))

JsonParse(data) ==
  IF data.zip = "identity" /\ data.format = "json" /\ data.content.is = "message"
    THEN Return(data.content)
    ELSE Raise(FromReason([is |-> "Error", message |-> "parse json"], Code.InvalidArgument))

JsonSerialize(message) ==
  IF message.any
    THEN Raise(FromReason([is |-> "Error", message |-> "serialize json"], Code.Internal))
    ELSE Return(Data(message, "json", message.size))

Parse(data, binary) == IF binary THEN BinaryParse(data) ELSE JsonParse(data)
Serialize(message, binary) == IF binary THEN BinarySerialize(message) ELSE JsonSerialize(message)

\* The functions of a client for one method
ClientSerialize(message, binary) == Serialize(message, binary)

JsonData(json) == Data([is |-> "json", json |-> json], "json", 1)
LinesData(lines) == Data([is |-> "lines", lines |-> lines], "lines", 1)

\* What is no JSON is as good as JSON of another type.
ToJson(data) ==
  IF data.zip = "identity" /\ data.content.is = "json" THEN data.content.json ELSE [is |-> "other"]

ErrorToJsonBytes(error) == JsonData(ErrorToJson(error))

EndStreamSerialize(end) == JsonData(EndStreamToJson(end.metadata, end.errors))

EndStreamParse(data) == EndStreamFromJson(ToJson(data))
LegacyEndStreamParse(data) == LegacyEndStreamFromJson(ToJson(data))

\* Bytes that are no lines have no fields.
TrailerDeserialize(data) ==
  Return(TrailerParse(IF data.zip = "identity" /\ data.content.is = "lines" THEN data.content.lines
                      ELSE << >>))

LegacyTrailerDeserialize(data) ==
  Return(LegacyParseGrpcWebTrailer(IF data.content.is = "lines" THEN data.content.lines ELSE << >>))

-----------------------------------------------------------------------------
(* Limits and compression                                                  *)

TooLarge == SimpleError("too large", Code.ResourceExhausted)

WithinWriteMax(limit, bytes) == bytes <= limit
WithinReadMax(limit, bytes) == bytes <= limit

\* The constructor of a transport or handler raises an error otherwise.
ValidLimits(option) ==
  /\ option.writeMaxBytes \in 1..Unlimited
  /\ option.readMaxBytes \in 1..Unlimited

Gzip == "gzip"
Brotli == "brotli"

Compress(data, compression) == [data EXCEPT !.zip = compression]

\* wrapZLibErrors(): zlib tells bad data for gzip, anything else is internal.
ZlibError(data, compression) ==
  SimpleError("decompression failed",
              IF compression = Gzip /\ Size(data) > 0 THEN Code.InvalidArgument ELSE Code.Internal)

Decompress(data, compression, readMaxBytes) ==
  CASE data.zip # compression -> Raise(ZlibError(data, compression))
    [] data.zip = compression /\ ~WithinReadMax(readMaxBytes, data.plain) -> Raise(TooLarge)
    [] OTHER -> Return([data EXCEPT !.zip = "identity"])

-----------------------------------------------------------------------------
(* Envelopes                                                               *)

Envelope(flags, data) == [flags |-> flags, data |-> data]

\* What has come of an envelope before the stream has ended: its header promises more
\* bytes than the data.
Truncated(envelope, data) ==
  [flags |-> envelope.flags, data |-> data, promised |-> Size(envelope.data)]
IsShort(envelope) == "promised" \in DOMAIN envelope

EnvelopeCompress(envelope, compression, compressMinBytes) ==
  CASE "compressed" \in envelope.flags ->
         Raise(SimpleError("already compressed", Code.Internal))
    [] /\ "compressed" \notin envelope.flags
       /\ compression # "identity" /\ Size(envelope.data) >= compressMinBytes ->
         Return(Envelope(envelope.flags \cup {"compressed"}, Compress(envelope.data, compression)))
    [] OTHER -> Return(envelope)

\* The limit counts after decompression, too.
EnvelopeDecompress(envelope, compression, readMaxBytes) ==
  CASE "compressed" \notin envelope.flags -> Return(envelope)
    [] "compressed" \in envelope.flags /\ compression = "identity" ->
         Raise(SimpleError("do not know how to decompress", Code.InvalidArgument))
    [] OTHER ->
         LET data == Decompress(envelope.data, compression, readMaxBytes)
         IN IF data.raised THEN data
            ELSE Return(Envelope(envelope.flags \ {"compressed"}, data.value))

\* The bytes of envelopes, in a row
EncodeEnvelopes(envelopes) == [is |-> "envelopes", envelopes |-> envelopes]
EncodeEnvelope(envelope) == EncodeEnvelopes(<<envelope>>)
BareBody(data) == [is |-> "bare", data |-> data]

-----------------------------------------------------------------------------
(* Streams                                                                 *)

Stream(items) == [items |-> items, errors |-> << >>]

\* The first of some items, none or one
FirstOf(items) == IF items = << >> THEN << >> ELSE <<items[1]>>

\* What is yielded of some results, before the errors of the source
Yielded(results, errors) ==
  LET bad == {n \in DOMAIN results : results[n].raised}
      good == IF bad = {} THEN Len(results) ELSE Min(bad) - 1
  IN [items |-> [n \in 1..good |-> results[n].value],
      errors |-> IF bad = {} THEN errors ELSE <<results[Min(bad)].error>>]

\* for await (const item of stream) yield F(item)
Through(stream, F(_)) ==
  Yielded([n \in DOMAIN stream.items |-> F(stream.items[n])], stream.errors)

\* A generator that prepends an error raises it before it looks at its source.
TransformPrepend(stream, errors) ==
  IF errors = << >> THEN stream ELSE [items |-> << >>, errors |-> errors]

\* caught: the items the function makes of the error, none or one.
TransformCatch(stream, caught) ==
  IF stream.errors = << >> THEN stream ELSE Stream(stream.items \o caught)

TransformCatchFinally(stream, caught) == Stream(stream.items \o caught)

\* A partial message becomes a message.
TransformNormalizeMessage(stream) == Through(stream, LAMBDA m : Return(Message(m.size, m.any)))

TransformSerializeEnvelope(stream, binary, writeMaxBytes) ==
  LET Serialized(message) ==
        LET data == Serialize(message, binary)
        IN CASE data.raised -> data
             [] ~data.raised /\ ~WithinWriteMax(writeMaxBytes, Size(data.value)) -> Raise(TooLarge)
             [] OTHER -> Return(Envelope({}, data.value))
  IN Through(stream, Serialized)

\* Skips the end of the stream.
TransformParseEnvelope(stream, binary, endFlag) ==
  Through([stream EXCEPT !.items = Selected(@, {n \in DOMAIN @ : endFlag \notin @[n].flags})],
          LAMBDA e : Parse(e.data, binary))

\* The end is that of a stream of Connect, or the trailer of gRPC-web.
TransformParseEnvelopeAndEnd(stream, binary, endFlag) ==
  LET EndParse(data) == IF endFlag = "end" THEN EndStreamParse(data) ELSE TrailerDeserialize(data)
      Parsed(envelope) ==
        LET end == endFlag \in envelope.flags
            value == IF end THEN EndParse(envelope.data) ELSE Parse(envelope.data, binary)
        IN IF value.raised THEN value ELSE Return([end |-> end, value |-> value.value])
  IN Through(stream, Parsed)

TransformCompressEnvelope(stream, compression, compressMinBytes) ==
  Through(stream, LAMBDA e : EnvelopeCompress(e, compression, compressMinBytes))

TransformDecompressEnvelope(stream, compression, readMaxBytes) ==
  Through(stream, LAMBDA e : EnvelopeDecompress(e, compression, readMaxBytes))

TransformJoinEnvelopes(stream) == Through(stream, LAMBDA e : Return(EncodeEnvelope(e)))

\* Mutant: passes over what is too large.
TransformSplitEnvelope_Skips(body, readMaxBytes) ==
  Stream(IF body.is # "envelopes" THEN << >>
         ELSE Selected(body.envelopes,
                       {n \in DOMAIN body.envelopes : WithinReadMax(readMaxBytes, Size(body.envelopes[n].data))}))

\* As the bytes arrive: the limit counts for what the header of an envelope promises,
\* and an envelope that is short of it is an error, as is the end of a stream within a
\* header.  A bare body, read this way, has fewer bytes than a header.
TransformSplitEnvelope(body, readMaxBytes) ==
  LET source == CASE body.is = "envelopes" -> Stream(body.envelopes)
                  [] body.is = "bare" /\ Size(body.data) = 0 -> Stream(<< >>)
                  [] OTHER -> [items |-> << >>,
                               errors |-> <<SimpleError("premature end", Code.InvalidArgument)>>]
      Split(e) ==
        CASE ~WithinReadMax(readMaxBytes, IF IsShort(e) THEN e.promised ELSE Size(e.data)) ->
               Raise(TooLarge)
          [] WithinReadMax(readMaxBytes, IF IsShort(e) THEN e.promised ELSE Size(e.data)) /\ IsShort(e) ->
               Raise(SimpleError("promised other bytes", Code.InvalidArgument))
          [] OTHER -> Return(e)
  IN Through(source, Split)

-----------------------------------------------------------------------------
(* All the bytes of a body                                                 *)

\* parseLengthHint(): a number, or no use
HintIsUsable(hint) == hint >= 0

\* Mutant: takes the hint for the limit.
ReadAllBytes_HintOnly(data, readMaxBytes, hint) ==
  IF HintIsUsable(hint) THEN Return(data)
  ELSE IF WithinReadMax(readMaxBytes, Size(data)) THEN Return(data) ELSE Raise(TooLarge)

\* A hint is checked before anything is read, and has to be right in the end.
ReadAllBytes(data, readMaxBytes, hint) ==
  CASE HintIsUsable(hint) /\ ~WithinReadMax(readMaxBytes, hint) -> Raise(TooLarge)
    [] HintIsUsable(hint) /\ WithinReadMax(readMaxBytes, hint) /\ Size(data) # hint ->
         Raise(SimpleError("promised other bytes", Code.InvalidArgument))
    [] ~HintIsUsable(hint) /\ ~WithinReadMax(readMaxBytes, Size(data)) -> Raise(TooLarge)
    [] OTHER -> Return(data)

\* The bytes of envelopes are no content.
BodyData(body) ==
  IF body.is = "bare" THEN body.data
  ELSE Data([is |-> "garbage"], "none", Min({MaxSize, Len(body.envelopes)}))

TransformReadAllBytes(body, readMaxBytes, hint) == ReadAllBytes(BodyData(body), readMaxBytes, hint)
=============================================================================
