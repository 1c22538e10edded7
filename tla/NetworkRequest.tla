----------------------------- MODULE NetworkRequest ----------------------------
(***************************************************************************)
(* From what a CrossaRequest evaluates to (RequestSpec) to the request     *)
(* that is sent: RequestBuilder.cpp, PreparedRequest.cpp, UrlUtils.cpp,    *)
(* the authentication of NetworkEngine.cpp and NetworkInterceptor.cpp.     *)
(* A request that cannot be built is Invalid.                              *)
(***************************************************************************)
EXTENDS RuntimeConfiguration

-----------------------------------------------------------------------------
(* Urls.                                                                   *)

First(text, c) == Past(text, 1, Characters(text) \ {c})
From(text, i) == Between(text, i, Len(text) + 1)

\* A relative url behind the base url, with one slash between them.
Joins(base, url) == IsAbsoluteHttpUrl(url) \/ (~Includes(url, "://") /\ IsAbsoluteHttpUrl(base))
Join(base, url) ==
  LET ends == Char(base, Len(base)) = "/"
      starts == Char(url, 1) = "/"
  IN IF IsAbsoluteHttpUrl(url) THEN url
     ELSE IF url = "" THEN base
     ELSE IF ends /\ starts THEN base \o From(url, 2)
     ELSE IF ends \/ starts THEN base \o url
     ELSE base \o "/" \o url

Unreserved == Characters("abcdefghijklmnopqrstuvwxyzABCDEFGHIJKLMNOPQRSTUVWXYZ0123456789-._~")
CodeOf(c) == CHOOSE n \in DOMAIN Controls \cup (32..126) : CodePoint(n) = c
Hex(n) == Char("0123456789ABCDEF", n + 1)
Encoded(c) == IF c \in Unreserved THEN c ELSE "%" \o Hex(CodeOf(c) \div 16) \o Hex(CodeOf(c) % 16)
EncodeComponent(s) ==
  LET upTo[i \in 0..Len(s)] == IF i = 0 THEN "" ELSE upTo[i - 1] \o Encoded(Char(s, i))
  IN upTo[Len(s)]

\* A parameter more behind the query of a url.
WithParameter(url, p) ==
  url \o (IF Includes(url, "?") THEN "&" ELSE "?")
  \o EncodeComponent(p.name) \o "=" \o EncodeComponent(p.value)
WithParameters(url, parameters) ==
  LET upTo[i \in 0..Len(parameters)] ==
        IF i = 0 THEN url ELSE WithParameter(upTo[i - 1], parameters[i])
  IN upTo[Len(parameters)]

\* Faulty: the parameters go behind a fragment.
AppendToTheEnd(url, parameters) == WithParameters(url, parameters)
\* The parameters go in front of a fragment and behind a query that is there already.
AppendQueryParameters(url, parameters) ==
  WithParameters(Between(url, 1, First(url, "#")), parameters) \o From(url, First(url, "#"))

StripQuery(url) == Between(url, 1, First(url, "?"))

-----------------------------------------------------------------------------
(* Headers.                                                                *)

Letters == "abcdefghijklmnopqrstuvwxyz"
Capitals == "ABCDEFGHIJKLMNOPQRSTUVWXYZ"
Lowered(c) == IF c \in Characters(Capitals) THEN Char(Letters, First(Capitals, c)) ELSE c
HeaderNamesEqual(left, right) ==
  /\ Len(left) = Len(right)
  /\ \A i \in 1..Len(left) : Lowered(Char(left, i)) = Lowered(Char(right, i))

Positions(headers, name) == {i \in 1..Len(headers) : HeaderNamesEqual(headers[i].name, name)}
HasHeader(headers, name) == Positions(headers, name) # {}
\* The first header of that name is replaced or stays; without one the header is new.
SetHeader(headers, header, overwrite) ==
  IF ~HasHeader(headers, header.name) THEN Append(headers, header)
  ELSE IF overwrite THEN [headers EXCEPT ![Min(Positions(headers, header.name))] = header]
  ELSE headers
\* The headers of a list, one after the other.
Merged(headers, more, overwrite) ==
  LET after[i \in 0..Len(more)] ==
        IF i = 0 THEN headers ELSE SetHeader(after[i - 1], more[i], overwrite)
  IN after[Len(more)]
Overwritten(headers, more) == Merged(headers, more, TRUE)
\* Faulty: what is there already is replaced.
CompletedOver(headers, more) == Merged(headers, more, TRUE)
Completed(headers, more) == Merged(headers, more, FALSE)

-----------------------------------------------------------------------------
(* Requests.  A field that need not be given is a sequence of at most one  *)
(* value.                                                                  *)

OptionalFields ==
  {"body", "timeout", "retryPolicy", "auth", "multipart", "uploadProgress", "downloadStreaming",
   "coalesce", "proxy", "certificatePolicy", "telemetry"}
ListFields == {"headers", "customHeaders", "queryParams"}
ValueOr(option, default) == IF option = <<>> THEN default ELSE option[1]

RequestSpec(method, url, fields) ==
  [method |-> method, url |-> url]
  @@ [name \in OptionalFields |-> IF name \in DOMAIN fields THEN <<fields[name]>> ELSE <<>>]
  @@ [name \in ListFields |-> IF name \in DOMAIN fields THEN fields[name] ELSE <<>>]

\* RequestBuilder::build
Build(configuration, spec) ==
  LET url == Join(configuration.baseUrl, spec.url)
      Effective(name) == ValueOr(spec[name], configuration[name])
  IN IF ~Joins(configuration.baseUrl, spec.url) \/ ~All(spec.headers \o spec.customHeaders, IsHeader) THEN Invalid
     ELSE [method |-> spec.method, url |-> AppendQueryParameters(url, spec.queryParams),
           headers |-> Overwritten(Overwritten(<<>>, spec.headers), spec.customHeaders),
           body |-> spec.body, multipart |-> spec.multipart,
           timeout |-> ValueOr(spec.timeout, configuration.timeoutRequest),
           followRedirects |-> configuration.followRedirects,
           maxResponseBytes |-> configuration.maxResponseBytes,
           maxResponseHeaderBytes |-> configuration.maxResponseHeaderBytes,
           maxResponseHeaderCount |-> configuration.maxResponseHeaderCount,
           retryPolicy |-> Effective("retryPolicy"), proxy |-> Effective("proxy"),
           certificatePolicy |-> Effective("certificatePolicy"),
           uploadProgress |-> Effective("uploadProgress"),
           downloadStreaming |-> Effective("downloadStreaming"),
           telemetry |-> Effective("telemetry")]

\* applyAuthentication, with the token of the configuration; NetworkEngine has the tokens
\* that expire and are refreshed.
ApplyAuthentication(configuration, spec, request) ==
  LET name == IF spec.auth = <<>> THEN configuration.defaultAuthProvider ELSE AuthName(spec.auth[1])
      token == Option(Lookup(configuration.authProviders, name), "accessToken", JsonString("")).value
  IN IF ~All(spec.auth, IsAuth) THEN Invalid
     ELSE IF name = "" THEN request
     ELSE IF ~DeclaresProvider(configuration, name) THEN Invalid
     ELSE IF token = "" THEN Invalid
     ELSE [request EXCEPT !.headers = SetHeader(@, Header("Authorization", "Bearer " \o token), TRUE)]

\* What the interceptor adds: the common headers and the types of what is sent and accepted.
BeforeRequest(configuration, request) ==
  LET types == (IF request.body = <<>> THEN <<>> ELSE <<Header("Content-Type", "application/json")>>)
               \o <<Header("Accept", "application/json")>>
  IN [request EXCEPT !.headers = Completed(Completed(@, configuration.commonHeaders), types)]

\* What the engine does in front of the first attempt, and what is sent in it.
Prepare(configuration, spec) ==
  LET Authenticated(built) ==
        IF IsInvalid(built) THEN Invalid ELSE ApplyAuthentication(configuration, spec, built)
  IN Authenticated(Build(configuration, spec))
ToSend(configuration, request) ==
  LET policies == /\ request.retryPolicy = Absent \/ IsRetry(request.retryPolicy)
                  /\ request.proxy = Absent \/ IsProxy(request.proxy)
                  /\ request.certificatePolicy = Absent \/ IsCertificate(request.certificatePolicy)
                  /\ All(request.multipart, IsMultipart)
  IN IF policies THEN BeforeRequest(configuration, request) ELSE Invalid
\* emitTelemetry parses the policy of the request at the end of every transfer, for the first time.
ReportsTelemetry(request) == request.telemetry = Absent \/ IsTelemetry(request.telemetry)
Sent(configuration, spec) ==
  LET Of(prepared) == IF IsInvalid(prepared) THEN Invalid ELSE ToSend(configuration, prepared)
  IN Of(Prepare(configuration, spec))

\* requestKey: requests of one key share an exchange if they are to be coalesced.
Coalesces(configuration, spec) ==
  /\ spec.multipart = <<>>
  /\ ValueOr(spec.coalesce, configuration.requestCoalescing) = "true"
\* Faulty: a header does not end.
KeyRunsOn(request) ==
  LET upTo[i \in 0..Len(request.headers)] ==
        IF i = 0 THEN request.method \o "\n" \o request.url \o "\n"
        ELSE upTo[i - 1] \o request.headers[i].name \o ":" \o request.headers[i].value
  IN upTo[Len(request.headers)] \o ValueOr(request.body, "")
RequestKey(request) ==
  LET upTo[i \in 0..Len(request.headers)] ==
        IF i = 0 THEN request.method \o "\n" \o request.url \o "\n"
        ELSE upTo[i - 1] \o request.headers[i].name \o ":" \o request.headers[i].value \o "\n"
  IN upTo[Len(request.headers)] \o ValueOr(request.body, "")
=============================================================================
