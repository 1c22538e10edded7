------------------------------- MODULE MCExchange -------------------------------
(***************************************************************************)
(* The inputs of ResponseExchange: configurations of all sources, requests *)
(* that share some of their headers, parameters and keys, and bodies for   *)
(* each type of response.                                                  *)
(***************************************************************************)
EXTENDS ResponseExchange

J(text) == ParseJson(text, 1000, 8).value

\* A config block whose entries have these values.
RECURSIVE Constant(_)
Constant(json) ==
  CASE json.kind = "Number" -> IrIntegerConstant(json.text, IntType)
    [] json.kind = "String" -> IrStringBuild(<<IrStringSegment("Literal", json.value, "None")>>)
    [] json.kind = "Boolean" -> IrBooleanConstant(json.value)
    [] json.kind = "Null" -> IrJsonNull
    [] json.kind = "Array" -> IrJsonArray([i \in DOMAIN json.values |-> Constant(json.values[i])])
    [] json.kind = "Object" ->
         IrJsonObject([i \in DOMAIN json.entries |->
                         IrEntry(json.entries[i].key, Constant(json.entries[i].value))])
Block(json) ==
  <<IrConfig([i \in DOMAIN json.entries |->
                IrConfigEntry(json.entries[i].key, AnyType, Constant(json.entries[i].value))])>>

Host(sibling, overrides, calls, bodies) ==
  [program |-> <<>>, sibling |-> Block(J(sibling)), overrides |-> overrides, calls |-> calls,
   bodies |-> bodies]
Call(method, url, fields, type) == [spec |-> RequestSpec(method, url, fields), type |-> type]
Get(url, fields) == Call("GET", url, fields, IntType)

-----------------------------------------------------------------------------
(* Messages.                                                               *)

Headers ==
  {<<>>, <<Header("A", "1")>>, <<Header("a", "2"), Header("A", "3")>>,
   <<Header("authorization", "x"), Header("accept", "y")>>, <<Header("A:", "1")>>}
HeaderCalls ==
  {Get("/p", [headers |-> first, customHeaders |-> second, coalesce |-> "true"]) :
     first \in Headers, second \in Headers}
  \cup {Get("/p", [auth |-> JsonString("other"), headers |-> <<Header("Authorization", "x")>>]),
        Get("/p", [auth |-> JsonNumber("1")]),
        Get("/p", [retryPolicy |-> J("{\"maxAttempts\": 11}")]),
        Get("/p", [multipart |-> J("{\"parts\": [{\"name\": \"n\", \"data\": \"d\"}]}"),
                   coalesce |-> "true"])}

Texts == {"", "a b", "&=#?%", "1/2~"}
UrlCalls ==
  {Get(url, [queryParams |-> parameters, coalesce |-> "true"]) :
     url \in {"", "q", "/q?x=1", "/q?#f?", "http://i/r#f", "ftp://r"},
     parameters \in {<<>>, <<[name |-> "k", value |-> "1"], [name |-> "k", value |-> "&=#?%"]>>}}
  \cup {Get("/q", [queryParams |-> <<[name |-> name, value |-> value]>>]) :
          name \in Texts, value \in Texts}

\* Messages that differ in one part, or in where a part of them is.
KeyCalls ==
  {Call(method, "/p", [coalesce |-> coalesce], IntType) :
     method \in {"GET", "POST"}, coalesce \in {"true", "false"}}
  \cup {Call("POST", "/p", [coalesce |-> "true", body |-> body, headers |-> headers], type) :
          body \in {"1", "\"A:1\""}, headers \in {<<>>, <<Header("A", "1")>>, <<Header("A:1", "")>>},
          type \in {IntType, StringType}}
  \cup {Get(url, [coalesce |-> "true"]) : url \in {"/p\nA:1", "/p\n"}}
  \cup {Get("/p", [coalesce |-> "true", headers |-> headers]) :
          headers \in {<<Header("A", "1"), Header("B", "2")>>, <<Header("A", "1B:2")>>}}

-----------------------------------------------------------------------------
(* Configurations.                                                         *)

Sources ==
  {"{\"baseUrl\": \"http://h\"}",
   "{\"baseUrl\": \"https://h/\", \"commonHeaders\": {\"a\": 5, \"Accept\": \"z\", \"b\": true, \"B\": \"6\"}, \"defaultAuthProvider\": \"main\", \"authProviders\": {\"main\": {\"accessToken\": \"t\"}, \"other\": {\"accessToken\": \"u\"}}}"}
Policied ==
  {"{\"baseUrl\": \"http://h\", " \o policy \o "}" :
     policy \in
       {"\"retryPolicy\": {\"maxAttempts\": 3, \"backoffMultiplier\": 1}",
        "\"retryPolicy\": {\"maxAttempts\": 0}",
        "\"retryPolicy\": {\"initialDelay\": 9, \"maxDelay\": 8}",
        "\"retryPolicy\": {\"retryStatusCodes\": [500, 600]}",
        "\"retryPolicy\": {\"initialDelay\": 6000}",
        "\"retryPolicy\": 3",
        "\"proxy\": {\"url\": \"http://p\"}", "\"proxy\": {\"port\": 1}",
        "\"certificatePolicy\": {\"verifyPeer\": true}",
        "\"certificatePolicy\": {\"verifyHost\": false}",
        "\"telemetry\": {\"enabled\": 1}",
        "\"requestCoalescing\": true, \"timeoutRequest\": 1",
        "\"requestCoalescing\": true, \"maxJsonDepth\": 1024",
        "\"maxJsonDepth\": 1025",
        "\"workerThreads\": 64, \"maxQueuedTasks\": 65536", "\"maxQueuedTasks\": 65537",
        "\"interceptor\": {\"logHeaders\": true, \"excludedHeaders\": [\"A\"]}",
        "\"interceptor\": {\"excludedHeaders\": [\"A:\"]}",
        "\"commonHeaders\": {\"A:\": 1}",
        "\"defaultAuthProvider\": \"main\"",
        "\"defaultAuthProvider\": \"main\", \"authProviders\": {\"main\": {\"clientId\": \"c\"}}",
        "\"authProviders\": {\"main\": {\"expiresAt\": \"now\"}}"}}
Overrides ==
  {J(text) : text \in
     {"{\"baseUrl\": \"http://o\", \"requestCoalescing\": true}", "{\"baseUrl\": \"o\"}",
      "{\"commonHeaders\": [{\"name\": \"A\", \"value\": \"7\"}], \"interceptor\": {\"enabled\": false}}",
      "{\"commonHeaders\": [{\"name\": \"A\"}]}", "{\"maxJsonDepth\": 0}", "{\"proxy\": {}}", "[]"}}

FewCalls ==
  {Get("/p", [coalesce |-> "true"]), Get("/p", [telemetry |-> J("{}")]),
   Get("/p", [telemetry |-> J("{\"enabled\": 1}"), coalesce |-> "true"]), Get("ftp://p", <<>>)}

-----------------------------------------------------------------------------
(* Answers.                                                                *)

MCModels == "M" :> <<IrField("id", IntType), IrField("tags", [kind |-> "List", element |-> StringType])>>
ListOf(type) == [kind |-> "List", element |-> type]
ScalarTypes == {IntType, LongType, DoubleType, BoolType, JsonType, StringType, UnitType}
Structures == {ListOf(IntType), ModelType("M"), ListOf(ListOf(JsonType)), ListOf(ModelType("M"))}
ScalarBodies ==
  {"", "1", " 1", "1 ", "01", "-0", "1.5", "1e2", "1E-3", "0e999", "1e309", "127", "128", "-129", "536870912", "-536870912", "true", "truth", "null",
   "\"a\"", "\"\\u0041\"", "\"\\ud83d\"", "1 2", "[[1]]", "[[[1]]]", "{}"}
StructureBodies ==
  {"1", "[]", "[ ]", "[1]", "[1 , 2]", "[-128, 128]", "[1,]", "[1", " [1]", "[[1]]", "[[[1]]]", "[[], [{\"a\": 1}]]",
   "{}", "{\"id\": 1, \"tags\": []}", "{\"tags\" : [\"a\", \"b\"] , \"id\": 1 }\n",
   "{\"id\": 1, \"tags\": [], \"x\": {\"y\": 1}}", "{\"id\": 1, \"tags\": [], \"x\": {\"y\": [1]}}",
   "{\"id\": 1, \"tags\": [], \"id\": 1}", "{\"id\": 1, \"tags\": [], \"x\": {\"y\": 1, \"y\": 2}}",
   "{\"id\": 1, \"tags\": null}", "{\"id\": 1, \"tags\": [],}", "{\"id\": 1}", "[{\"id\": 1, \"tags\": []}]",
   "[{\"id\": 1, \"tags\": [\"a\"]}]", "{\"id\": 128, \"tags\": []}", "{\"id\": 1.0, \"tags\": []}"}

-----------------------------------------------------------------------------
Site == "{\"baseUrl\": \"http://h\"}"
MCHosts ==
  {Host(sibling, Absent, calls, {"1"}) : sibling \in Sources, calls \in {HeaderCalls, UrlCalls, KeyCalls}}
  \cup {Host(sibling, Absent, FewCalls, {"1"}) : sibling \in Policied}
  \cup {Host(Site, overrides, FewCalls, {"1"}) : overrides \in Overrides}
  \cup {Host("{\"baseUrl\": \"http://h\", \"workerThreads\": 65}", overrides, FewCalls, {"1"}) :
          overrides \in {Absent, J("{\"workerThreads\": 64}")}}
  \cup {Host(Site, Absent, {Call("GET", "/p", <<>>, type)}, ScalarBodies) : type \in ScalarTypes}
  \cup {Host(Site, Absent, {Call("GET", "/p", <<>>, type)}, StructureBodies) : type \in Structures}
  \cup {[Host(Site, Absent, FewCalls, {"1"}) EXCEPT !.program = Block(J("{\"timeoutRequest\": 1}"))]}
=============================================================================
