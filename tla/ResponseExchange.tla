---------------------------- MODULE ResponseExchange ---------------------------
(***************************************************************************)
(* Exchange with the decoder and the reader of config blocks the runtime   *)
(* has: what a platform gets to see of the answers, and what a server      *)
(* reads of the urls.  The decoder's limits are constants, those of the    *)
(* configuration that is loaded in the code.                               *)
(***************************************************************************)
EXTENDS Exchange, ResponseDecoder, AbiValues

CONSTANT Models    \* the fields of each model

\* Each request decodes the answer for its own type.
DecodedAs(body, type) == Decode(body, type, Models)

-----------------------------------------------------------------------------
(* What a server reads of a url.                                           *)

RECURSIVE Decoded(_), Pairs(_)
Decoded(text) ==
  IF text = "" THEN ""
  ELSE IF Char(text, 1) = "%"
    THEN CodePoint(16 * HexValue(Char(text, 2)) + HexValue(Char(text, 3))) \o Decoded(From(text, 4))
  ELSE Char(text, 1) \o Decoded(From(text, 2))
Pairs(query) ==
  LET pair == Between(query, 1, First(query, "&"))
      rest == Pairs(From(query, First(query, "&") + 1))
      equals == First(pair, "=")
  IN IF query = "" THEN <<>>
     ELSE IF pair = "" THEN rest
     ELSE <<[name |-> Decoded(Between(pair, 1, equals)), value |-> Decoded(From(pair, equals + 1))]>> \o rest

WithoutFragment(url) == Between(url, 1, First(url, "#"))
QueryOf(url) == From(WithoutFragment(url), First(WithoutFragment(url), "?") + 1)
FragmentOf(url) == From(url, First(url, "#"))

\* Whatever characters a query parameter has, the server reads the parameters back, behind those
\* the url had before, and the rest of the url is the one that was asked for
\* (RequestBuilder::appendQueryParameters, UrlUtils::encodeComponent, UrlUtils::join).
ParametersArriveUnchanged ==
  \A x \in 1..Len(exchanges) :
    LET spec == Opener(x).spec
        url == exchanges[x].sent.url
        joined == Join(configuration.baseUrl, spec.url)
    IN /\ Pairs(QueryOf(url)) = Pairs(QueryOf(joined)) \o spec.queryParams
       /\ FragmentOf(url) = FragmentOf(joined)
       /\ StripQuery(WithoutFragment(url)) = StripQuery(WithoutFragment(joined))

-----------------------------------------------------------------------------
(* Decoding.                                                               *)

\* The body that a request was answered with, and its type.
DecodedFrom(i) == exchanges[requests[i].exchange].body[1]
IsDecoded(i) ==
  /\ requests[i].exchange # NoExchange /\ requests[i].value \notin {Pending, RequestFailure}
  /\ requests[i].call.type.kind \notin {"Unit", "String"}
AsParsed(i) == requests[i].value = DecodeParsed(DecodedFrom(i), requests[i].call.type, Models)

\* Reading a value from the text directly and reading it through the parser come to the same
\* value or both fail: depth, duplicate and unknown keys, missing fields, numbers and what
\* follows (DirectResponseDecoder against JsonParser and ResponseDecoder::decodeValue).
DirectDecodingAgrees ==
  \A i \in DOMAIN requests :
    IsDecoded(i) /\ Char(DecodedFrom(i), 1) \notin JsonWhitespace => AsParsed(i)

\* What the decoder makes of a body, a platform can read: every value of it, wherever it stands,
\* through the accessors of the C ABI, as deep as the decoder goes, and nothing but those; an Int
\* beyond the 32 bits of the ABI is refused and not cut off (resolvePath, findModel and the
\* accessors of CrossaAbi.cpp).  It takes a path of MaximumJsonDepth segments to be allowed, which
\* is so for the default of 128 levels and not for more than 256.
DecodedValuesReadBack ==
  \A i \in DOMAIN requests :
    requests[i].value # Pending /\ ~IsFailure(requests[i].value)
    => ReadsBack(requests[i].value, requests[i].call.type, Models)

\* "A generated direct decoder can replace that parsing implementation without changing
\* RuntimeValue" (docs/decisions/0002).
DirectDecoderReplacesParser == \A i \in DOMAIN requests : IsDecoded(i) => AsParsed(i)
=============================================================================
