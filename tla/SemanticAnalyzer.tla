--------------------------- MODULE SemanticAnalyzer ----------------------------
(***************************************************************************)
(* The semantic analyzer (compiler/semantic/SemanticAnalyzer.cpp): the     *)
(* typed tree of a source unit, or the code of the first diagnostic.       *)
(*                                                                         *)
(* Every analysis answers a node; a failure is a node of kind "Error" that *)
(* carries the code.  What the code checks one after the other is a        *)
(* sequence of failures here, of which the first one counts.               *)
(***************************************************************************)
EXTENDS TypedAst, SequencesExt

Error(code) == [kind |-> "Error", code |-> code, type |-> AnyType]
Failed(node) == node.kind = "Error"
Errors(nodes) == SelectSeq(nodes, Failed)
Require(condition, code) == IF condition THEN <<>> ELSE <<Error(code)>>
\* The first failure, or the node if nothing failed.
Checked(failures, node) == IF failures = <<>> THEN node ELSE failures[1]

NamesOf(items) == [i \in 1..Len(items) |-> items[i].name]
Unique(items, code) == Require(IsInjective(NamesOf(items)), code)
With(items, f(_)) == [i \in 1..Len(items) |-> f(items[i])]

-----------------------------------------------------------------------------
(* Scopes (SemanticScope.cpp).                                             *)

\* What an expression can refer to: the functions, and the values of the enclosing blocks,
\* the innermost last.  The first block holds the source variables.
Symbol(type, owner) == [type |-> type, owner |-> owner]
Unknown == Symbol(AnyType, "none")

Resolve(scope, name) ==
  LET blocks == {i \in 1..Len(scope.blocks) : name \in DOMAIN scope.blocks[i]}
  IN IF blocks = {} THEN Unknown ELSE scope.blocks[Max(blocks)][name]
InScope(scope, name) == Resolve(scope, name) # Unknown

Nested(scope, block) == [scope EXCEPT !.blocks = Append(@, block)]
Declared(scope, name) == name \in DOMAIN Last(scope.blocks)
Declare(scope, name, symbol) ==
  [scope EXCEPT !.blocks[Len(scope.blocks)] = (name :> symbol) @@ @]

\* resolveType; Error if the name is no type.
RECURSIVE ResolveType(_, _)
ResolveType(reference, models) ==
  LET ListOf(element) == IF Failed(element) THEN element ELSE ListType(element)
  IN CASE reference.kind = "None" -> UnitType
       [] reference.kind = "List" -> ListOf(ResolveType(reference.element, models))
       [] reference.name \in {t.kind : t \in Scalars \cup {JsonType}} -> Primitive(reference.name)
       [] reference.name \in models -> ModelType(reference.name)
       [] OTHER -> Error("CRA3013")

-----------------------------------------------------------------------------
(* Expressions.                                                            *)

NotJson(type) == type.kind \in {"Unit", "Model", "List"}

AnalyzeIdentifier(e, scope) ==
  LET symbol == Resolve(scope, e.name)
  IN Checked(Require(InScope(scope, e.name), "CRA2005"),
             TypedIdentifier(e.name, symbol.owner, symbol.type))

AnalyzeSegment(segment, scope) ==
  LET symbol == Resolve(scope, segment.value)
  IN IF segment.kind = "Literal" THEN TypedStringSegment("Literal", segment.value, StringType, "none")
     ELSE Checked(Require(InScope(scope, segment.value), "CRA2006")
                    \o Require(symbol.type # UnitType, "CRA3006"),
                  TypedStringSegment("Symbol", segment.value, symbol.type, symbol.owner))

AnalyzeString(e, scope) ==
  LET segments == With(e.segments, LAMBDA s : AnalyzeSegment(s, scope))
  IN Checked(Errors(segments), TypedStringLiteral(segments))

\* Comparisons take two values of one type; without an order only those of equality.
Comparable(operation, left, right) ==
  /\ left = right
  /\ \/ operation \in EqualityOperators /\ left \in Scalars
     \/ operation \in OrderOperators /\ IsNumericType(left)

TypeOfBinary(operation, left, right) ==
  CASE operation \in LogicalOperators ->
         Checked(Require(left = BoolType /\ right = BoolType, "CRA3018"), BoolType)
    [] operation \in EqualityOperators \cup OrderOperators ->
         Checked(Require(Comparable(operation, left, right), "CRA3014"), BoolType)
    [] operation \in ArithmeticOperators ->
         Checked(Require(IsNumericType(left) /\ left = right, "CRA3012"), left)

UnaryOf(operation, operand) ==
  Checked(Errors(<<operand>>)
            \o (IF operation = "Not" THEN Require(operand.type = BoolType, "CRA3017")
                ELSE Require(IsNumericType(operand.type), "CRA3011")),
          TypedUnary(operation, operand, operand.type))

BinaryOf(operation, left, right) ==
  LET Typed(type) == Checked(Errors(<<left, right, type>>), TypedBinary(left, operation, right, type))
  IN Typed(TypeOfBinary(operation, left.type, right.type))

BuiltinFailures(callee, arguments) ==
  CASE callee = "print" /\ Len(arguments) # 1 -> <<Error("CRA3007")>>
    [] callee = "print" /\ Len(arguments) = 1 -> Require(arguments[1].type # UnitType, "CRA3008")
    [] callee = "assert" /\ Len(arguments) \notin 1..2 -> <<Error("CRA3014")>>
    [] OTHER -> Require(arguments[1].type = BoolType, "CRA3015")
                \o Require(Len(arguments) = 2 => arguments[2].type = StringType, "CRA3016")
BuiltinCall(callee, arguments) ==
  Checked(Errors(arguments) \o BuiltinFailures(callee, arguments),
          TypedCall(callee, TRUE, arguments, UnitType))

CallOf(callee, signature, arguments) ==
  Checked(Errors(arguments)
            \o Require(\A i \in 1..Len(arguments) :
                         arguments[i].type = signature.parameters[i], "CRA3010"),
          TypedCall(callee, FALSE, arguments, signature.returnType))

\* Entries one after the other: a key that was there before, then the value.
JsonObjectOf(entries) ==
  LET Failures(i) ==
        Require(\A j \in 1..(i - 1) : entries[j].name # entries[i].name, "CRA7010")
        \o Errors(<<entries[i].value>>) \o Require(~NotJson(entries[i].value.type), "CRA7011")
  IN Checked(FlattenSeq([i \in 1..Len(entries) |-> Failures(i)]), TypedJsonObject(entries))

JsonArrayOf(values) ==
  Checked(FlattenSeq(With(values, LAMBDA v : Errors(<<v>>) \o Require(~NotJson(v.type), "CRA7012"))),
          TypedJsonArray(values))

RECURSIVE AnalyzeExpression(_, _, _)
AnalyzeEach(expressions, scope, expected(_)) ==
  [i \in 1..Len(expressions) |-> AnalyzeExpression(expressions[i], scope, expected(i))]

AnalyzeFunctionCall(e, scope) ==
  IF e.callee \notin DOMAIN scope.functions THEN Error("CRA2007")
  ELSE IF Len(e.arguments) # Len(scope.functions[e.callee].parameters) THEN Error("CRA3009")
  ELSE CallOf(e.callee, scope.functions[e.callee],
              AnalyzeEach(e.arguments, scope, LAMBDA i : scope.functions[e.callee].parameters[i]))

\* expected: the type of the place the expression stands in, which decides what an integer
\* literal is; what is expected of a comparison is expected of its operands as well.
AnalyzeExpression(e, scope, expected) ==
  CASE e.kind = "Identifier" -> AnalyzeIdentifier(e, scope)
    [] e.kind = "IntegerLiteral" ->
         IF expected = DoubleType THEN TypedDecimalLiteral(e.value)
         ELSE TypedIntegerLiteral(e.value, IF expected = LongType THEN LongType ELSE IntType)
    [] e.kind = "DecimalLiteral" -> TypedDecimalLiteral(e.value)
    [] e.kind = "StringLiteral" -> AnalyzeString(e, scope)
    [] e.kind = "BooleanLiteral" -> TypedBooleanLiteral(e.value)
    [] e.kind = "Call" -> IF e.callee \in {"print", "assert"}
                            THEN BuiltinCall(e.callee, AnalyzeEach(e.arguments, scope, LAMBDA i : AnyType))
                          ELSE AnalyzeFunctionCall(e, scope)
    [] e.kind = "Unary" -> UnaryOf(e.operation, AnalyzeExpression(e.operand, scope, expected))
    [] e.kind = "Binary" -> BinaryOf(e.operation, AnalyzeExpression(e.left, scope, expected),
                                     AnalyzeExpression(e.right, scope, expected))
    [] e.kind = "JsonNull" -> TypedJsonNull
    [] e.kind = "JsonObject" ->
         JsonObjectOf(With(e.entries, LAMBDA x :
                             TypedEntry(x.name, AnalyzeExpression(x.value, scope, AnyType))))
    [] e.kind = "JsonArray" -> JsonArrayOf(AnalyzeEach(e.values, scope, LAMBDA i : AnyType))
    [] e.kind = "HttpMethod" -> Error("CRA7004")
    [] e.kind = "CrossaRequest" -> Error("CRA7001")

-----------------------------------------------------------------------------
(* CrossaRequest.                                                          *)

RequestMaps == <<"headers", "customHeaders", "queryParams">>
RequestObjects == <<"multipart", "proxy", "certificatePolicy", "telemetry">>
RequestFlags == <<"uploadProgress", "downloadStreaming", "coalesce">>
RequestFields ==
  {"url", "path", "method", "pathVariables", "body", "timeout", "retryPolicy", "auth"}
  \cup ToSet(RequestMaps \o RequestObjects \o RequestFlags)

\* findRequestEntry: the first value of that name, or none.
NoValue == [kind |-> "None"]
Find(entries, name) ==
  LET found == SelectSeq(entries, LAMBDA x : x.name = name)
  IN IF found = <<>> THEN NoValue ELSE found[1].value
Given(entries, name) == Find(entries, name) # NoValue

\* validateRequestMap: an object of scalars, as far as the tree shows it.
RequestMapFailures(node) ==
  LET IsScalar(x) ==
        /\ x.value.kind \notin {"JsonObject", "JsonArray", "JsonNull", "CrossaRequest"}
        /\ ~NotJson(x.value.type)
  IN IF Failed(node) THEN <<node>>
     ELSE Require(node.kind = "JsonObject" /\ All(node.entries, IsScalar), "CRA7006")

\* A segment of the url names a value in scope, or else an alias of one.
SymbolSegment(name, scope) ==
  Checked(Require(InScope(scope, name), "CRA2006")
            \o Require(Resolve(scope, name).type \in Scalars, "CRA7009"),
          TypedStringSegment("Symbol", name, Resolve(scope, name).type, Resolve(scope, name).owner))
RequestUrlSegment(segment, aliases, scope) ==
  CASE segment.kind = "Literal" -> TypedStringSegment("Literal", segment.value, StringType, "none")
    [] segment.kind # "Literal" /\ (InScope(scope, segment.value) \/ ~Given(aliases, segment.value)) ->
         SymbolSegment(segment.value, scope)
    [] OTHER -> IF Find(aliases, segment.value).kind # "Identifier" THEN Error("CRA7009")
                ELSE SymbolSegment(Find(aliases, segment.value).name, scope)

AnalyzeRequestUrl(url, aliases, scope) ==
  LET Used(alias) == \/ InScope(scope, alias.name)
                     \/ \E i \in 1..Len(url.segments) :
                          url.segments[i] = StringSegment("Identifier", alias.name)
      Literal(segments) == Checked(Errors(segments) \o Require(All(aliases, Used), "CRA7009"),
                                   TypedStringLiteral(segments))
  IN IF url.kind # "StringLiteral" THEN Error("CRA7005")
     ELSE Literal(With(url.segments, LAMBDA s : RequestUrlSegment(s, aliases, scope)))

\* Which fields there may be together; what they hold is checked by the fields below.
RequestShapeFailures(entries) ==
  LET unknown == With(entries, LAMBDA x : Require(x.name \in RequestFields, "CRA7002"))
      again(i) == Require(\A j \in 1..(i - 1) : entries[j].name # entries[i].name, "CRA7003")
      url == (IF Given(entries, "url") THEN 1 ELSE 0) + (IF Given(entries, "path") THEN 1 ELSE 0)
  IN FlattenSeq([i \in 1..Len(entries) |-> unknown[i] \o again(i)])
     \o Require(url = 1, "CRA7005")
     \o Require(Find(entries, "method").kind = "HttpMethod", "CRA7004")

\* The fields in the order of their analysis, and what each may hold.
AnalyzedFields ==
  RequestMaps \o <<"body", "timeout", "retryPolicy", "auth">> \o RequestObjects \o RequestFlags
FieldFailures(name, node) ==
  IF Failed(node) THEN <<node>>
  ELSE CASE name \in ToSet(RequestMaps) -> RequestMapFailures(node)
         [] name = "body" -> Require(~NotJson(node.type), "CRA7007")
         [] name = "timeout" -> Require(node.type = IntType, "CRA7008")
         [] name = "auth" -> Require(node.kind = "JsonObject" \/ node.type = StringType, "CRA7013")
         [] name \in ToSet(RequestFlags) -> Require(node.type = BoolType, "CRA7014")
         [] OTHER -> Require(node.kind = "JsonObject", "CRA7015")

PathVariableFailures(expression, node) ==
  IF expression.kind # "JsonObject" THEN <<Error("CRA7006")>> ELSE RequestMapFailures(node)

\* values: what the given fields hold, by name.
CrossaRequestOf(method, url, values, responseType) ==
  LET given == SelectSeq(AnalyzedFields, LAMBDA name : name \in DOMAIN values)
  IN Checked(Errors(<<url>>) \o FlattenSeq(With(given, LAMBDA name : FieldFailures(name, values[name]))),
             TypedCrossaRequest(method, url, values, responseType))

AnalyzeCrossaRequest(e, scope, responseType) ==
  LET given == {name \in ToSet(AnalyzedFields) \cup {"pathVariables"} : Given(e.entries, name)}
      url == Find(e.entries, IF Given(e.entries, "url") THEN "url" ELSE "path")
      Aliases == IF "pathVariables" \in given THEN Find(e.entries, "pathVariables").entries ELSE <<>>
      Of(values) ==
        Checked(IF "pathVariables" \notin given THEN <<>>
                ELSE PathVariableFailures(Find(e.entries, "pathVariables"), values["pathVariables"]),
                CrossaRequestOf(Find(e.entries, "method").method, AnalyzeRequestUrl(url, Aliases, scope),
                                [name \in given \ {"pathVariables"} |-> values[name]], responseType))
  IN Checked(RequestShapeFailures(e.entries),
             Of([name \in given |-> AnalyzeExpression(Find(e.entries, name), scope, AnyType)]))

-----------------------------------------------------------------------------
(* Statements.  The scope grows with the declarations of a block.          *)

Analyzed(node, scope, hasReturn) == [node |-> node, scope |-> scope, hasReturn |-> hasReturn]

\* What a function returns, and what stands alone, may be a request.
AnalyzeRequestOr(e, scope, expected, responseType) ==
  IF e.kind = "CrossaRequest" THEN AnalyzeCrossaRequest(e, scope, responseType)
  ELSE AnalyzeExpression(e, scope, expected)

\* Faulty: does not compare the types.
AnalyzeAnyReturn(expression, returnType) ==
  Checked(Require(returnType # UnitType, "CRA3003") \o Errors(<<expression>>), TypedReturn(expression))
AnalyzeReturn(expression, returnType) ==
  Checked(Require(returnType # UnitType, "CRA3003") \o Errors(<<expression>>)
            \o Require(expression.type = returnType, "CRA3004"),
          TypedReturn(expression))

VariableOf(s, type, initializer, scope) ==
  Checked(Errors(<<type, initializer>>) \o Require(initializer.type = type, "CRA3005")
            \o Require(~Declared(scope, s.name), "CRA2004"),
          TypedVariable(s.name, type, initializer))
AnalyzeVariableStatement(s, scope) ==
  LET Typed(type) == VariableOf(s, type, AnalyzeExpression(s.initializer, scope, type), scope)
  IN Typed(ResolveType(s.type, scope.models))

\* Each branch has a scope of its own.  Whether the function returns is then what this
\* statement says of it, whatever stood in front.
\* Faulty: one branch that returns is enough.
OneReturns(thens, elses) == thens.hasReturn \/ (elses # <<>> /\ elses[1].hasReturn)
BothReturn(thens, elses) == elses # <<>> /\ thens.hasReturn /\ elses[1].hasReturn
AnalyzeIf(condition, thens, elses, scope) ==
  Analyzed(Checked(Errors(<<condition>>) \o Require(condition.type = BoolType, "CRA3013")
                     \o Errors(<<thens.node>> \o With(elses, LAMBDA b : b.node)),
                   TypedIf(condition, thens.node.statements, With(elses, LAMBDA b : b.node.statements))),
           scope, BothReturn(thens, elses))

\* A block is a node of its own here: its statements, or its first failure.
BlockOf(statements) == [kind |-> "Block", statements |-> statements]
InFront(first, rest) ==
  IF Failed(first.node) THEN Analyzed(first.node, first.scope, FALSE)
  ELSE IF Failed(rest.node) THEN rest
  ELSE [rest EXCEPT !.node.statements = <<first.node>> \o @]

RECURSIVE AnalyzeStatements(_, _, _, _)
AnalyzeStatement(s, scope, returnType, hasReturn) ==
  LET Variable(node) ==
        Analyzed(node, IF Failed(node) THEN scope
                       ELSE Declare(scope, s.name, Symbol(node.type, "LocalVariable")), hasReturn)
      Expression(node) ==
        IF s.kind = "Return" THEN Analyzed(AnalyzeReturn(node, returnType), scope, TRUE)
        ELSE Analyzed(Checked(Errors(<<node>>), TypedExpressionStatement(node)), scope, hasReturn)
      response == IF s.kind = "Return" THEN returnType ELSE UnitType
      expected == IF s.kind = "Return" THEN returnType ELSE AnyType
      Branch(statements) == AnalyzeStatements(statements, Nested(scope, <<>>), returnType, FALSE)
  IN CASE s.kind \in {"Return", "Expression"} ->
            Expression(AnalyzeRequestOr(s.expression, scope, expected, response))
       [] s.kind = "Variable" -> Variable(AnalyzeVariableStatement(s, scope))
       [] s.kind = "If" -> AnalyzeIf(AnalyzeExpression(s.condition, scope, AnyType),
                                     Branch(s.thens), With(s.elses, Branch), scope)

AnalyzeStatements(statements, scope, returnType, hasReturn) ==
  LET From(first) ==
        InFront(first, AnalyzeStatements(Tail(statements), first.scope, returnType, first.hasReturn))
  IN IF statements = <<>> THEN Analyzed(BlockOf(<<>>), scope, hasReturn)
     ELSE From(AnalyzeStatement(statements[1], scope, returnType, hasReturn))

-----------------------------------------------------------------------------
(* Declarations.                                                           *)

AnalyzeVariableDeclaration(d, scope) ==
  LET type == Resolve(scope, d.name).type
      initializer == AnalyzeExpression(d.initializer, scope, type)
  IN Checked(Errors(<<initializer>>) \o Require(initializer.type = type, "CRA3001"),
             TypedVariableDeclaration(d.name, type, initializer))

AnalyzeModelDeclaration(d, scope) ==
  LET types == With(d.fields, LAMBDA f : ResolveType(f.type, scope.models))
      again(i) == Require(\A j \in 1..(i - 1) : d.fields[j].name # d.fields[i].name, "CRA4001")
  IN Checked(FlattenSeq([i \in 1..Len(types) |-> again(i) \o Errors(<<types[i]>>)]),
             TypedModel(d.name, [i \in 1..Len(types) |-> TypedField(d.fields[i].name, types[i])]))

ResolveExecutionPolicy(policy) == IF policy = "None" THEN "Sync" ELSE policy

AnalyzeFunctionDeclaration(d, scope) ==
  LET signature == scope.functions[d.name]
      parameters == [i \in 1..Len(d.parameters) |->
                       TypedField(d.parameters[i].name, signature.parameters[i])]
      Of(name) == CHOOSE i \in 1..Len(parameters) : parameters[i].name = name
      block == [name \in ToSet(NamesOf(parameters)) |->
                  Symbol(parameters[Of(name)].type, "Parameter")]
      body == AnalyzeStatements(d.statements, Nested(scope, block), signature.returnType, FALSE)
      unit == signature.returnType = UnitType
  IN Checked(Require(d.policy = "Async" => unit, "CRA6001")
               \o Require(d.policy = "AsyncAfter" => ~unit, "CRA6002")
               \o Errors(<<body.node>>) \o Require(unit \/ body.hasReturn, "CRA3002"),
             TypedFunction(d.name, ResolveExecutionPolicy(d.policy), parameters,
                           signature.returnType, body.node.statements))

ConfigObjects == {"retryPolicy", "authProviders", "proxy", "certificatePolicy", "telemetry"}
GetConfigType(name) ==
  CASE name \in {"packageName", "baseUrl", "defaultAuthProvider"} -> StringType
    [] name \in {"timeoutRequest", "workerThreads", "maxQueuedTasks", "maxResponseBytes",
                 "maxJsonDepth", "maxResponseHeaderBytes", "maxResponseHeaderCount"} -> IntType
    [] name \in {"interceptor", "commonHeaders"} \cup ConfigObjects -> JsonType
    [] name \in {"followRedirects", "uploadProgress", "downloadStreaming",
                 "requestCoalescing"} -> BoolType
    [] OTHER -> AnyType

InterceptorFlags == {"enabled", "logRequests", "logResponses", "logHeaders", "logBody"}
InterceptorOptionFailures(option) ==
  CASE option.name \in InterceptorFlags -> Require(option.value.type = BoolType, "CRA5010")
    [] option.name = "excludedHeaders" ->
         IF option.value.kind # "JsonArray" THEN <<Error("CRA5011")>>
         ELSE Require(All(option.value.values, LAMBDA v : v.type = StringType), "CRA5012")
    [] OTHER -> <<Error("CRA5009")>>
InterceptorFailures(node) ==
  CASE node.kind = "JsonObject" ->
         FlattenSeq(With(node.entries, LAMBDA x : InterceptorOptionFailures(x)))
    [] OTHER -> Require(node.type # JsonType, "CRA5008")

\* The checks of one entry behind those in front of it.
ConfigEntryFailures(entries, i, node) ==
  LET name == entries[i].name
      type == GetConfigType(name)
  IN IF \E j \in 1..(i - 1) : entries[j].name = name THEN <<Error("CRA5005")>>
     ELSE IF type = AnyType THEN <<Error("CRA5006")>>
     ELSE IF Failed(node) THEN <<node>>
     ELSE IF node.type # type /\ ~(name = "interceptor" /\ node.type = BoolType) THEN <<Error("CRA5007")>>
     ELSE IF name = "commonHeaders" THEN RequestMapFailures(node)
     ELSE IF name = "interceptor" THEN InterceptorFailures(node)
     ELSE Require(name \in ConfigObjects => node.kind = "JsonObject", "CRA5013")

AnalyzeConfigDeclaration(d, scope) ==
  LET nodes == With(d.entries, LAMBDA x : AnalyzeExpression(x.value, scope, AnyType))
      Typed(i) == TypedConfigEntry(d.entries[i].name, GetConfigType(d.entries[i].name), nodes[i])
  IN Checked(FlattenSeq([i \in 1..Len(nodes) |-> ConfigEntryFailures(d.entries, i, nodes[i])]),
             TypedConfig([i \in 1..Len(nodes) |-> Typed(i)]))

AnalyzeExpressionDeclaration(d, scope) ==
  LET expression == AnalyzeExpression(d.expression, scope, AnyType)
  IN IF d.expression.kind # "Call" THEN Error("CRA2008")
     ELSE Checked(Errors(<<expression>>), TypedExpressionDeclaration(expression))

AnalyzeDeclaration(d, scope) ==
  CASE d.kind = "Import" -> Error("CRA1001")
    [] d.kind = "Variable" -> AnalyzeVariableDeclaration(d, scope)
    [] d.kind = "Model" -> AnalyzeModelDeclaration(d, scope)
    [] d.kind = "Function" -> AnalyzeFunctionDeclaration(d, scope)
    [] d.kind = "Config" -> AnalyzeConfigDeclaration(d, scope)
    [] d.kind = "Expression" -> AnalyzeExpressionDeclaration(d, scope)

-----------------------------------------------------------------------------
(* The unit.                                                               *)

Of(declarations, kind) == SelectSeq(declarations, LAMBDA d : d.kind = kind)

\* identity: the file name without its extension.  fromEntry: the first declaration is one
\* of the entry source.
SourceShapeFailures(declarations, identity, fromEntry) ==
  LET config == identity = "config"
      misplaced(d) == IF d.kind = "Config" THEN Require(config, "CRA5001")
                      ELSE Require(~config, "CRA5002")
      only == declarations[1]
  IN FlattenSeq(With(declarations, misplaced))
     \o Require(Len(Of(declarations, "Config")) <= 1, "CRA5003")
     \o Require(config => Of(declarations, "Config") # <<>>, "CRA5004")
     \o Require(Len(declarations) = 1 /\ only.kind = "Model" /\ fromEntry => only.name = identity,
                "CRA4002")

Named(declarations) == SelectSeq(declarations, LAMBDA d : d.kind \in {"Variable", "Model", "Function"})

\* The parameters of a function, then what it returns.
SignatureFailures(d, models) ==
  LET types == With(d.parameters, LAMBDA p : ResolveType(p.type, models))
      again(i) == Require(\A j \in 1..(i - 1) : d.parameters[j].name # d.parameters[i].name, "CRA2002")
  IN FlattenSeq([i \in 1..Len(types) |-> again(i) \o Errors(<<types[i]>>)])
     \o Errors(<<ResolveType(d.returnType, models)>>)
Signature(d, models) ==
  [parameters |-> With(d.parameters, LAMBDA p : ResolveType(p.type, models)),
   returnType |-> ResolveType(d.returnType, models)]

ByName(items, f(_)) ==
  [name \in ToSet(NamesOf(items)) |-> f(items[CHOOSE i \in 1..Len(items) : items[i].name = name])]

UnitOf(typed) == Checked(Errors(typed), [kind |-> "Unit", declarations |-> typed])
Analyze(declarations, identity, fromEntry) ==
  LET functions == Of(declarations, "Function")
      variables == Of(declarations, "Variable")
      models == ToSet(NamesOf(Of(declarations, "Model")))
      scope == [models |-> models, functions |-> ByName(functions, LAMBDA f : Signature(f, models)),
                blocks |-> <<ByName(variables, LAMBDA v :
                               Symbol(ResolveType(v.type, models), "SourceVariable"))>>]
      registration ==
        SourceShapeFailures(declarations, identity, fromEntry)
        \o Unique(Named(declarations), "CRA2001")
        \o FlattenSeq(With(functions, LAMBDA f : SignatureFailures(f, models)))
        \o Errors(With(variables, LAMBDA v : ResolveType(v.type, models)))
  IN Checked(registration, UnitOf(With(declarations, LAMBDA d : AnalyzeDeclaration(d, scope))))
=============================================================================
