-------------------------------- MODULE Exchange -------------------------------
(***************************************************************************)
(* The requests of one runtime, from its configuration to what its answers *)
(* are decoded to: RuntimeConfiguration::load, then for each request       *)
(* NetworkEngine::execute and ResponseDecoder::decode.  Requests that are  *)
(* to be coalesced and have the key of an exchange under way take part in  *)
(* it, and each decodes the answer itself.                                 *)
(*                                                                         *)
(* Every exchange ends with a body and a 2xx status, and a step is not     *)
(* interrupted: NetworkEngine has the other endings and the interleavings. *)
(* What a body is decoded to and what an entry of a config block is at     *)
(* compile time are constants here; ResponseExchange has the operators.    *)
(***************************************************************************)
EXTENDS NetworkRequest

CONSTANTS
  Hosts,             \* the inputs: the configuration a runtime has, and its calls
  DecodedBody(_, _), \* the value of a body for a type
  MaximumRequests    \* bound: requests a runtime makes

ASSUME RequestsBound == MaximumRequests \in Nat

\* What the language and the parsers make of the inputs: lists are sequences, what is a text is
\* a string, a method and a body (a JSON text) have no line feed, and a body is not empty.
IsList(s) == Len(s) \in Nat /\ s = [i \in 1..Len(s) |-> s[i]]
HeaderLists == Seq([name : STRING, value : STRING])
IsCall(spec) ==
  /\ {spec.headers, spec.customHeaders, spec.queryParams} \subseteq HeaderLists
  /\ spec.url \in STRING /\ spec.method \in STRING /\ "\n" \notin Characters(spec.method)
  /\ spec.body # <<>> => /\ spec.body = <<spec.body[1]>> /\ spec.body[1] \in STRING \ {""}
                         /\ "\n" \notin Characters(spec.body[1])
Token(providers, name) == Option(Lookup(providers, name), "accessToken", JsonString("")).value
IsSetting(name, json) ==
  /\ json.kind = "Array" => IsList(json.values)
  /\ json.kind = "Object" => IsList(json.entries)
  /\ json.kind = "String" => json.value \in STRING
  /\ name = "authProviders" /\ IsProviders(json)
     => \A i \in 1..Len(json.entries) : Token(json, json.entries[i].key) \in STRING
ASSUME InputsAssumption ==
  \A input \in Hosts :
    LET entries == EntriesOf(input.sibling) \o EntriesOf(input.program)
    IN /\ IsList(entries)
       /\ \A i \in 1..Len(entries) : IsSetting(entries[i].name, ReadEntry(entries[i].value))
       /\ input.overrides.kind = "Object"
          => /\ IsList(input.overrides.entries)
             /\ \A i \in 1..Len(input.overrides.entries) :
                  IsSetting(input.overrides.entries[i].key, input.overrides.entries[i].value)
       /\ \A call \in input.calls : IsCall(call.spec)

VARIABLES host,
          configuration,   \* Absent until it is loaded, Invalid if it is refused
          requests,        \* what was called, in order, and the exchange it takes part in
          exchanges        \* what went over the wire: its first request, and the body

exchangeVars == <<host, configuration, requests, exchanges>>

NoExchange == 0
Pending == [kind |-> "Pending"]
RequestFailure == [kind |-> "Failure", reason |-> "request"]

ExchangeInit ==
  /\ host \in Hosts
  /\ configuration = Absent /\ requests = <<>> /\ exchanges = <<>>

Configure ==
  /\ configuration = Absent
  /\ configuration' = Load(host.program, host.sibling, host.overrides)
  /\ UNCHANGED <<host, requests, exchanges>>

\* The exchange of this key that others may take part in.
Shared(key) ==
  {x \in 1..Len(exchanges) :
     /\ exchanges[x].coalesces /\ exchanges[x].body = <<>>
     /\ RequestKey(exchanges[x].prepared) = key}

Called(call, x, value) ==
  requests' = Append(requests, [call |-> call, exchange |-> x, value |-> value])
Refuse(call) == Called(call, NoExchange, RequestFailure) /\ UNCHANGED exchanges
TakePart(call, x) == Called(call, x, Pending) /\ UNCHANGED exchanges
Open(call, prepared, sent, coalesces) ==
  /\ Called(call, Len(exchanges) + 1, Pending)
  /\ exchanges' = Append(exchanges, [prepared |-> prepared, sent |-> sent,
                                     coalesces |-> coalesces, body |-> <<>>])

\* The owner of a key opens the exchange; the policies are read in it.
Perform(call, prepared, coalesces) ==
  LET shared == IF coalesces THEN Shared(RequestKey(prepared)) ELSE {}
      OpenWith(sent) == IF IsInvalid(sent) THEN Refuse(call) ELSE Open(call, prepared, sent, coalesces)
  IN IF shared # {} THEN \E x \in shared : TakePart(call, x)
     ELSE \E sent \in {ToSend(configuration, prepared)} : OpenWith(sent)

Execute(call) ==
  /\ configuration \notin {Absent, Invalid} /\ Len(requests) < MaximumRequests
  /\ \E prepared \in {Prepare(configuration, call.spec)} :
       IF IsInvalid(prepared) THEN Refuse(call)
       ELSE Perform(call, prepared, Coalesces(configuration, call.spec))
  /\ UNCHANGED <<host, configuration>>

\* The answer goes to every request that takes part, or the failure of its telemetry.
Answered(request, x, body) ==
  IF request.exchange # x THEN request
  ELSE IF ReportsTelemetry(exchanges[x].sent)
    THEN [request EXCEPT !.value = DecodedBody(body, request.call.type)]
  ELSE [request EXCEPT !.value = RequestFailure]
Answer(x, body) ==
  /\ exchanges[x].body = <<>>
  /\ exchanges' = [exchanges EXCEPT ![x].body = <<body>>]
  /\ requests' = [i \in DOMAIN requests |-> Answered(requests[i], x, body)]
  /\ UNCHANGED <<host, configuration>>

ExchangeNext ==
  \/ Configure
  \/ \E call \in host.calls : Execute(call)
  \/ \E x \in 1..Len(exchanges), body \in host.bodies : Answer(x, body)

ExchangeSpec == ExchangeInit /\ [][ExchangeNext]_exchangeVars

-----------------------------------------------------------------------------
(* Which header wins.                                                      *)

\* From the strongest source to the weakest: the token, the headers of the request, which the
\* last one of a name decides, the common headers and the types.
Strongest(spec) ==
  LET provider == IF spec.auth = <<>> THEN configuration.defaultAuthProvider ELSE AuthName(spec.auth[1])
      token == Lookup(Lookup(configuration.authProviders, provider), "accessToken").value
      types == <<Header("Content-Type", "application/json"), Header("Accept", "application/json")>>
  IN (IF provider = "" THEN <<>> ELSE <<Header("Authorization", "Bearer " \o token)>>)
     \o Reverse(spec.headers \o spec.customHeaders) \o configuration.commonHeaders
     \o (IF spec.body = <<>> THEN Tail(types) ELSE types)
Winners(headers) ==
  {headers[i] : i \in {k \in DOMAIN headers :
                         \A j \in 1..(k - 1) : ~HeaderNamesEqual(headers[j].name, headers[k].name)}}

\* The call that opened the exchange.
Opener(x) ==
  requests[CHOOSE i \in DOMAIN requests :
             requests[i].exchange = x /\ \A j \in 1..(i - 1) : requests[j].exchange # x].call

\* Each name is sent once, in whatever case it is given, with the value of the strongest source
\* that has it: customHeaders over headers over commonHeaders, and the provider's token over all
\* (RequestBuilder::build, PreparedRequest::setHeader, NetworkInterceptor::beforeRequest).
StrongestHeaderIsSent ==
  \A x \in 1..Len(exchanges) :
    LET winners == Winners(Strongest(Opener(x).spec))
    IN /\ ToSet(exchanges[x].sent.headers) = winners
       /\ Len(exchanges[x].sent.headers) = Cardinality(winners)

-----------------------------------------------------------------------------
(* Sharing and refusing.                                                   *)

\* A request takes part only in an exchange whose message is the one it would have sent itself:
\* the key leaves out nothing of it, and what it puts together cannot be read in two ways
\* (NetworkEngine::requestKey).  Nothing keeps a line feed out of a url or of a token, and a
\* message with one can be read as another.
OnItsLines(message) == "\n" \notin Characters(message.url) /\ All(message.headers, IsHeader)
SharedExchangeIsOwnExchange ==
  \A i \in DOMAIN requests :
    LET own == Prepare(configuration, requests[i].call.spec)
        opened == exchanges[requests[i].exchange].prepared
    IN requests[i].exchange # NoExchange /\ OnItsLines(own) /\ OnItsLines(opened)
       => \A field \in {"method", "url", "headers", "body"} : own[field] = opened[field]

\* What load accepts, the engine can use: a request without policies of its own is refused only
\* for its own url or headers or for want of a token (RuntimeConfiguration::load validates what
\* NetworkEngine::executePrepared parses again for every request).
LoadedPoliciesAreUsable ==
  \A i \in DOMAIN requests :
    LET spec == requests[i].call.spec
        own == {name \in {"retryPolicy", "auth", "multipart", "proxy", "certificatePolicy"} :
                  spec[name] # <<>>}
    IN requests[i].exchange = NoExchange /\ own = {}
       => \/ ~Joins(configuration.baseUrl, spec.url)
          \/ ~All(spec.headers \o spec.customHeaders, IsHeader)
          \/ /\ configuration.defaultAuthProvider # ""
             /\ Token(configuration.authProviders, configuration.defaultAuthProvider) = ""
=============================================================================
