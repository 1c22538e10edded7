-------------------------- MODULE RuntimeConfiguration -------------------------
(***************************************************************************)
(* The configuration of a runtime: what config blocks and the overrides of *)
(* the platform make of the defaults (runtime/RuntimeConfiguration.cpp),   *)
(* what may be set (network/NetworkConfiguration.cpp, SchedulerOptions.cpp)*)
(* and the policies in it (network/NetworkPolicy.cpp).                     *)
(*                                                                         *)
(* A setting is a JSON value in both sources, and booleans stay texts.  A  *)
(* setting that may not be made leaves Invalid instead of a configuration. *)
(***************************************************************************)
EXTENDS Arithmetic, TypedAst

CONSTANT ReadEntry(_) \* the JSON value of the expression of an entry, or Invalid: readJson

StartsWith(text, start) == Between(text, 1, Len(start) + 1) = start
Includes(text, part) == \E i \in 1..Len(text) : Between(text, i, i + Len(part)) = part
IsAbsoluteHttpUrl(url) == StartsWith(url, "http://") \/ StartsWith(url, "https://")

-----------------------------------------------------------------------------
(* Settings.                                                               *)

Flags == {"followRedirects", "uploadProgress", "downloadStreaming", "requestCoalescing"}
LogFlags == {"enabled", "logRequests", "logResponses", "logHeaders", "logBody"}
Policies == {"retryPolicy", "authProviders", "proxy", "certificatePolicy", "telemetry"}
\* The numbers, and the largest each may be; those of the scheduler are checked at the end,
\* when SchedulerOptions are made of them.
Limits ==
  [timeoutRequest |-> 600000, maxResponseBytes |-> 268435456, maxJsonDepth |-> 1024,
   maxResponseHeaderBytes |-> 16777216, maxResponseHeaderCount |-> 4096,
   workerThreads |-> 64, maxQueuedTasks |-> 65536]
SchedulerSettings == {"workerThreads", "maxQueuedTasks"}

CommonSettings == {"baseUrl"} \cup DOMAIN Limits \cup Flags
Settings == {"interceptor", "commonHeaders", "defaultAuthProvider"} \cup Policies \cup CommonSettings
\* The headers of a response are not limited by the platform.
OverriddenSettings ==
  ({"interceptor", "commonHeaders"} \cup CommonSettings)
  \ {"maxResponseHeaderBytes", "maxResponseHeaderCount"}

Header(name, value) == [name |-> name, value |-> value]
Breaks == {"\r", "\n"}
IsHeaderName(name) == name # "" /\ Characters(name) \cap (Breaks \cup {":"}) = {}
IsHeader(header) == IsHeaderName(header.name) /\ Characters(header.value) \cap Breaks = {}

Defaults ==
  [baseUrl |-> "", timeoutRequest |-> 30000, commonHeaders |-> <<>>,
   enabled |-> "true", logRequests |-> "true", logResponses |-> "true", logHeaders |-> "false",
   logBody |-> "false", excludedLogHeaders |-> <<>>, defaultAuthProvider |-> "",
   followRedirects |-> "true", uploadProgress |-> "false", downloadStreaming |-> "false",
   requestCoalescing |-> "false", maxResponseBytes |-> 8388608, maxJsonDepth |-> 128,
   maxResponseHeaderBytes |-> 1048576, maxResponseHeaderCount |-> 256,
   workerThreads |-> 2, maxQueuedTasks |-> 256,
   retryPolicy |-> Absent, authProviders |-> Absent, proxy |-> Absent,
   certificatePolicy |-> Absent, telemetry |-> Absent]

Set(configuration, name, allowed, value) ==
  IF allowed THEN [configuration EXCEPT ![name] = value] ELSE Invalid

Scalar(json) == json.kind \in {"Boolean", "Number", "String"}
ScalarText(json) == IF json.kind = "Number" THEN json.text ELSE json.value

\* The settings that both sources have.
SetCommon(configuration, name, json) ==
  CASE name = "baseUrl" ->
         Set(configuration, name,
             json.kind = "String" /\ (json.value # "" => IsAbsoluteHttpUrl(json.value)), json.value)
    [] name \in DOMAIN Limits ->
         Set(configuration, name,
             json.kind = "Number" /\ IntegerOf(json.text).ok
               /\ IntegerOf(json.text).number > 0
               /\ (name \in SchedulerSettings \/ IntegerOf(json.text).number <= Limits[name]),
             IntegerOf(json.text).number)
    [] name \in Flags -> Set(configuration, name, json.kind = "Boolean", json.value)

SetHeaders(configuration, headers) ==
  Set(configuration, "commonHeaders", All(headers, IsHeader), headers)
SetExcluded(configuration, json) ==
  LET strings == json.kind = "Array" /\ All(json.values, LAMBDA v : v.kind = "String")
  IN Set(configuration, "excludedLogHeaders",
         strings /\ All(json.values, LAMBDA v : IsHeaderName(v.value)),
         [i \in 1..Len(json.values) |-> json.values[i].value])

\* The members of the interceptor, one after the other; excluded names the list of headers.
SetMember(configuration, e, excluded) ==
  IF IsInvalid(configuration) THEN Invalid
  ELSE IF e.key = excluded THEN SetExcluded(configuration, e.value)
  ELSE IF e.key \in LogFlags THEN Set(configuration, e.key, e.value.kind = "Boolean", e.value.value)
  ELSE Invalid
SetInterceptor(configuration, json, excluded) ==
  LET after[i \in 0..Len(json.entries)] ==
        IF i = 0 THEN configuration ELSE SetMember(after[i - 1], json.entries[i], excluded)
  IN IF json.kind # "Object" THEN Invalid ELSE after[Len(json.entries)]

-----------------------------------------------------------------------------
(* The config block of a program.                                          *)

\* applyEntry
CompiledHeaders(configuration, json) ==
  IF json.kind # "Object" THEN Invalid
  ELSE IF ~All(json.entries, LAMBDA e : Scalar(e.value)) THEN Invalid
  ELSE SetHeaders(configuration, [i \in 1..Len(json.entries) |->
         Header(json.entries[i].key, ScalarText(json.entries[i].value))])
SetEntry(configuration, name, json) ==
  CASE name = "interceptor" ->
         IF json.kind = "Boolean" THEN [configuration EXCEPT !.enabled = json.value]
         ELSE SetInterceptor(configuration, json, "excludedHeaders")
    [] name = "commonHeaders" -> CompiledHeaders(configuration, json)
    [] name = "defaultAuthProvider" -> Set(configuration, name, json.kind = "String", json.value)
    [] name \in Policies -> [configuration EXCEPT ![name] = json]
    [] name \in CommonSettings -> SetCommon(configuration, name, json)
\* A name that is no setting is left to others: packageName to the generators.
ApplyEntry(configuration, name, json) ==
  IF IsInvalid(configuration) \/ name \notin Settings THEN configuration
  ELSE IF IsInvalid(json) THEN Invalid
  ELSE SetEntry(configuration, name, json)

ConfigBlocks(program) == SelectSeq(program, LAMBDA d : d.kind = "Config")
EntriesOf(program) ==
  FlattenSeq([i \in 1..Len(ConfigBlocks(program)) |-> ConfigBlocks(program)[i].entries])

-----------------------------------------------------------------------------
(* The overrides of the platform.                                          *)

OverriddenHeaders(configuration, json) ==
  LET given(header) == /\ header.kind = "Object"
                       /\ \A key \in {"name", "value"} : Lookup(header, key).kind = "String"
  IN IF json.kind # "Array" THEN Invalid
     ELSE IF ~All(json.values, given) THEN Invalid
     ELSE SetHeaders(configuration, [i \in 1..Len(json.values) |->
            Header(Lookup(json.values[i], "name").value, Lookup(json.values[i], "value").value)])

ApplyOverride(configuration, e) ==
  IF IsInvalid(configuration) \/ e.key \notin OverriddenSettings THEN Invalid
  ELSE CASE e.key = "commonHeaders" -> OverriddenHeaders(configuration, e.value)
         [] e.key = "interceptor" -> SetInterceptor(configuration, e.value, "excludedLogHeaders")
         [] e.key \in CommonSettings -> SetCommon(configuration, e.key, e.value)

-----------------------------------------------------------------------------
(* Policies (NetworkPolicy.cpp).                                           *)

\* An object, of which each option has the kind the policy gives it.
Options(json, kinds) ==
  /\ json.kind = "Object"
  /\ All(json.entries, LAMBDA e : e.key \in DOMAIN kinds /\ e.value.kind = kinds[e.key])
Option(json, name, default) ==
  IF json = Absent THEN default ELSE IF Lookup(json, name) = Absent THEN default ELSE Lookup(json, name)

RetryOptions == [maxAttempts |-> "Number", initialDelay |-> "Number", maxDelay |-> "Number",
                 backoffMultiplier |-> "Number", retryStatusCodes |-> "Array",
                 retryNonIdempotent |-> "Boolean"]
ProxyOptions == [url |-> "String", username |-> "String", password |-> "String"]
CertificateOptions == [verifyPeer |-> "Boolean", verifyHost |-> "Boolean", caInfo |-> "String",
                       clientCertificate |-> "String", clientKey |-> "String",
                       pinnedPublicKey |-> "String"]
TelemetryOptions == [enabled |-> "Boolean", includeHeaders |-> "Boolean", includeBody |-> "Boolean",
                     serviceName |-> "String"]
ProviderOptions == [tokenUrl |-> "String", accessToken |-> "String", refreshToken |-> "String",
                    clientId |-> "String", clientSecret |-> "String", tokenField |-> "String",
                    expiresAt |-> "Number"]

IsInteger(json) == json.kind = "Number" /\ IntegerOf(json.text).ok
IntegerIn(json, range) == IsInteger(json) /\ IntegerOf(json.text).number \in range

\* parseRetry: the policy with its defaults, the multiplier in hundredths.
RetryOf(json) ==
  LET Number(name, default) == IntegerOf(Option(json, name, JsonNumber(default)).text).number
  IN [maxAttempts |-> Number("maxAttempts", "1"),
      initialDelay |-> Number("initialDelay", "100"), maxDelay |-> Number("maxDelay", "5000"),
      backoffMultiplier |-> DoubleOf(Option(json, "backoffMultiplier", JsonNumber("2.0")).text)]
IsRetry(json) ==
  /\ Options(json, RetryOptions)
  /\ IntegerIn(Option(json, "maxAttempts", JsonNumber("1")), 1..10)
  /\ \A name \in {"initialDelay", "maxDelay"} : IsInteger(Option(json, name, JsonNumber("0")))
  /\ All(Option(json, "retryStatusCodes", JsonArray(<<>>)).values, LAMBDA c : IntegerIn(c, 100..599))
  /\ RetryOf(json).initialDelay \in 0..RetryOf(json).maxDelay
  /\ IsDouble(Option(json, "backoffMultiplier", JsonNumber("2.0")).text)
  /\ RetryOf(json).backoffMultiplier >= 100

IsProxy(json) == Options(json, ProxyOptions)
\* Verification stays on.
IsCertificate(json) ==
  /\ Options(json, CertificateOptions)
  /\ \A name \in {"verifyPeer", "verifyHost"} :
       Option(json, name, JsonBoolean("true")) = JsonBoolean("true")
IsTelemetry(json) == Options(json, TelemetryOptions)
IsProviders(json) ==
  /\ json.kind = "Object"
  /\ All(json.entries, LAMBDA e : /\ Options(e.value, ProviderOptions)
                                  /\ IsInteger(Option(e.value, "expiresAt", JsonNumber("0"))))

\* parseMultipart: parts with a name, and either data or a file.
IsPart(json) ==
  LET given(name) == Lookup(json, name) # Absent
  IN /\ json.kind = "Object" /\ given("name")
     /\ \A name \in {"name", "data", "filePath", "filename", "contentType"} :
          given(name) => Lookup(json, name).kind = "String"
     /\ given("data") # given("filePath")
IsMultipart(json) ==
  json.kind = "Object" /\ Lookup(json, "parts").kind = "Array" /\ All(Lookup(json, "parts").values, IsPart)

\* parseAuthName: the name of a provider, itself or in an object.
IsAuth(json) ==
  json.kind = "String" \/ (json.kind = "Object" /\ Lookup(json, "provider").kind = "String")
AuthName(json) == IF json.kind = "String" THEN json.value ELSE Lookup(json, "provider").value

DeclaresProvider(configuration, provider) ==
  /\ configuration.authProviders # Absent
  /\ \E i \in 1..Len(configuration.authProviders.entries) :
       configuration.authProviders.entries[i].key = provider
\* Faulty: a policy is first read for the request that it is for.
PoliciesAreLeft(c) == c.defaultAuthProvider # "" => DeclaresProvider(c, c.defaultAuthProvider)
PoliciesAreValid(c) ==
  LET Valid(json, IsPolicy(_)) == json = Absent \/ IsPolicy(json)
  IN /\ Valid(c.retryPolicy, IsRetry) /\ Valid(c.authProviders, IsProviders)
     /\ c.defaultAuthProvider # "" => DeclaresProvider(c, c.defaultAuthProvider)
     /\ Valid(c.proxy, IsProxy) /\ Valid(c.certificatePolicy, IsCertificate)
     /\ Valid(c.telemetry, IsTelemetry)

\* SchedulerOptions: what an override replaced does not count.
SchedulerFits(c) == \A name \in SchedulerSettings : c[name] <= Limits[name]

-----------------------------------------------------------------------------
\* The entries one after the other.
AppliedEntries(configuration, entries) ==
  LET after[i \in 0..Len(entries)] ==
        IF i = 0 THEN configuration
        ELSE ApplyEntry(after[i - 1], entries[i].name, ReadEntry(entries[i].value))
  IN after[Len(entries)]
AppliedOverrides(configuration, entries) ==
  LET after[i \in 0..Len(entries)] ==
        IF i = 0 THEN configuration ELSE ApplyOverride(after[i - 1], entries[i])
  IN after[Len(entries)]

\* RuntimeConfiguration::load: the sibling configuration, the program itself, the overrides.
Load(program, configurationProgram, overrides) ==
  LET entries == EntriesOf(configurationProgram) \o EntriesOf(program)
      compiled == AppliedEntries(Defaults, entries)
      whole == IF overrides.kind = "Absent" THEN compiled
               ELSE IF overrides.kind # "Object" THEN Invalid
               ELSE AppliedOverrides(compiled, overrides.entries)
      unique == Cardinality({entries[i].name : i \in 1..Len(entries)}) = Len(entries)
      blocks == Len(ConfigBlocks(configurationProgram)) + Len(ConfigBlocks(program))
  IN IF ~unique \/ IsInvalid(whole) \/ blocks > 1 THEN Invalid
     ELSE IF PoliciesAreValid(whole) /\ SchedulerFits(whole) THEN whole ELSE Invalid
=============================================================================
