------------------------------- MODULE Metadata -------------------------------
(***************************************************************************)
(* Headers and trailers: http-headers.ts of connect-core and of the legacy *)
(* connect-web, trailer-mux.ts, trailer.ts of gRPC-web, and the headers of *)
(* Node.js.  A Headers object is a function from the names of its fields   *)
(* to the sequence of the values that append() has combined for them.      *)
(***************************************************************************)
EXTENDS SequencesExt, Integers

\* The elements of a sequence at some places, in their order
Selected(s, places) ==
  LET upTo[n \in 0..Len(s)] ==
        IF n = 0 THEN << >>
        ELSE IF n \in places THEN Append(upTo[n - 1], s[n]) ELSE upTo[n - 1]
  IN upTo[Len(s)]

NoHeaders == << >>

Has(header, field) == field \in DOMAIN header

Set(header, field, value) ==
  [f \in DOMAIN header \cup {field} |-> IF f = field THEN value ELSE header[f]]

SetIf(condition, header, field, value) ==
  IF condition THEN Set(header, field, value) ELSE header

\* A header with one field
Field(field, value) == Set(NoHeaders, field, value)

AppendField(header, field, value) ==
  Set(header, field, IF Has(header, field) THEN header[field] \o value ELSE value)

\* new Headers(base), then set() for each field of more
SetAll(base, more) ==
  [f \in DOMAIN base \cup DOMAIN more |-> IF Has(more, f) THEN more[f] ELSE base[f]]

Without(header, fields) == Restrict(header, DOMAIN header \ fields)

AppendHeaders(a, b) ==
  [f \in DOMAIN a \cup DOMAIN b |->
     (IF Has(a, f) THEN a[f] ELSE << >>) \o (IF Has(b, f) THEN b[f] ELSE << >>)]

LegacyAppendHeaders(a, b) == AppendHeaders(a, b)

\* A fallible operation returns a value, or raises an error.
Return(value) == [raised |-> FALSE, value |-> value]
Raise(error) == [raised |-> TRUE, error |-> error]
Then(result, Continue(_)) == IF result.raised THEN result ELSE Continue(result.value)

-----------------------------------------------------------------------------
(* Trailers among the headers, for Connect's unary methods                 *)

Prefix == "trailer-"
IsTrailer(field) == Len(field) > 8 /\ SubSeq(field, 1, 8) = Prefix

TrailerMux(header, trailer) ==
  LET muxed == {Prefix \o f : f \in DOMAIN trailer}
  IN SetAll(header, [f \in muxed |-> trailer[SubSeq(f, 9, Len(f))]])

TrailerDemux(header) ==
  LET muxed == {f \in DOMAIN header : IsTrailer(f)}
  IN [header |-> Without(header, muxed),
      trailer |-> [f \in {SubSeq(m, 9, Len(m)) : m \in muxed} |-> header[Prefix \o f]]]

LegacyDemuxHeaderTrailers(header) == TrailerDemux(header)

-----------------------------------------------------------------------------
(* The trailer of gRPC-web is a block of lines, a line for each field.     *)

TrailerSerialize(trailer) == SetToSeq({<<f, trailer[f]>> : f \in DOMAIN trailer})

\* Lines of the same name are combined, a line without a name is ignored.
NoName == ""
TrailerParse(lines) ==
  LET upTo[n \in 0..Len(lines)] ==
        IF n = 0 THEN NoHeaders
        ELSE IF lines[n][1] = NoName THEN upTo[n - 1]
        ELSE AppendField(upTo[n - 1], lines[n][1], lines[n][2])
  IN upTo[Len(lines)]

LegacyParseGrpcWebTrailer(lines) == TrailerParse(lines)

-----------------------------------------------------------------------------
(* The headers of Node.js have, over HTTP/2, pseudo-headers: method, path  *)
(* or status.                                                              *)

IsPseudo(field) == SubSeq(field, 1, 1) = ":"

WebHeaderToNodeHeaders(header, pseudo) == SetAll(header, pseudo)

NodeHeaderToWebHeader(node) == Without(node, {f \in DOMAIN node : IsPseudo(f)})
=============================================================================
