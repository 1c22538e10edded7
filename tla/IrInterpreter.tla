----------------------------- MODULE IrInterpreter -----------------------------
(***************************************************************************)
(* The interpreter of a program (runtime/IrInterpreter.cpp), as one thread *)
(* runs it.  ExecutionEngine has the threads; what they compute is here.   *)
(*                                                                         *)
(* An evaluation answers a value and the effects it had, in their order:   *)
(* what it printed, requested and asserted.  The environment holds the     *)
(* program, the globals that have a value, the blocks of the frame (the    *)
(* innermost last), the depth of the call and the mode of the execution.   *)
(***************************************************************************)
EXTENDS ResponseDecoder, NetworkRequest

CONSTANT MaximumCallDepth

ASSUME CallDepthIsPositive == MaximumCallDepth \in Nat \ {0}

Outcome(value, effects) == [value |-> value, effects |-> effects]
Done(value) == Outcome(value, <<>>)
FailWith(reason) == Done(Failure(reason))
Effect(kind, text) == [kind |-> kind, text |-> text]

\* What comes next, unless it failed already.
Then(outcome, Next(_)) ==
  IF IsFailure(outcome.value) THEN outcome
  ELSE LET next == Next(outcome.value)
       IN Outcome(next.value, outcome.effects \o next.effects)

\* Reasons that are no fault of the program's types.
KnownFailures ==
  {"literal", "overflow", "division", "depth", "assertion", "mode", "timeout", "metadata", "request",
   "decode"}

\* getInt, getBool, ... of a value of another kind.
Expecting(value, kinds, outcome) == IF value.kind \in kinds THEN outcome ELSE FailWith("kind")

-----------------------------------------------------------------------------
(* Symbols and arithmetic.                                                 *)

Blocks(env, name) == {i \in 1..Len(env.blocks) : name \in DOMAIN env.blocks[i]}
ResolveSymbol(name, owner, env) ==
  IF owner = "SourceVariable"
    THEN IF name \in DOMAIN env.globals THEN Done(env.globals[name]) ELSE FailWith("no value")
  ELSE IF Blocks(env, name) = {} THEN FailWith("no value")
  ELSE Done(env.blocks[Max(Blocks(env, name))][name])

EvaluateArithmetic(a, operation, b, Value(_)) ==
  IF operation = "Divide" /\ b = 0 THEN FailWith("division")
  ELSE IF Overflows(a, operation, b) THEN FailWith("overflow")
  ELSE Done(Value(Exact(a, operation, b)))

\* On hundredths.
EvaluateDoubleArithmetic(a, operation, b) ==
  IF operation = "Divide" /\ b = 0 THEN FailWith("division")
  ELSE Done(DoubleValue(CASE operation = "Multiply" -> Quotient(a * b, 100)
                          [] operation = "Divide" -> Quotient(a * 100, b)
                          [] OTHER -> Exact(a, operation, b)))

Truth(condition) == BoolValue(IF condition THEN "true" ELSE "false")
Holds(operation, less, equal) ==
  CASE operation = "Equal" -> equal
    [] operation = "NotEqual" -> ~equal
    [] operation = "Less" -> less
    [] operation = "LessEqual" -> less \/ equal
    [] operation = "Greater" -> ~less /\ ~equal
    [] operation = "GreaterEqual" -> ~less

EvaluateComparison(left, operation, right) ==
  LET numbers == left.kind \in {"Int", "Long", "Double"}
  IN IF left.kind # right.kind \/ ~(numbers \/ left.kind \in {"String", "Bool"}) THEN FailWith("kind")
     ELSE IF ~numbers /\ operation \in OrderOperators THEN FailWith("kind")
     ELSE Done(Truth(Holds(operation, numbers /\ left.number < right.number, left = right)))

\* A negation is a subtraction from nothing.
EvaluateOperation(left, operation, right, type) ==
  LET kinds == IF type = DoubleType THEN {"Double"} ELSE {"Int", "Long"}
      Value(n) == IF type = LongType THEN LongValue(n) ELSE IntValue(n)
  IN Expecting(left, kinds, Expecting(right, kinds,
       IF type = DoubleType THEN EvaluateDoubleArithmetic(left.number, operation, right.number)
       ELSE EvaluateArithmetic(left.number, operation, right.number, Value)))

-----------------------------------------------------------------------------
(* JSON and requests.                                                      *)

RECURSIVE ToJsonValue(_)
ToJsonValue(value) ==
  CASE value.kind \in {"Int", "Long", "Double"} -> JsonNumber(Format(value))
    [] value.kind = "String" -> JsonString(value.text)
    [] value.kind = "Bool" -> JsonBoolean(value.truth)
    [] value.kind = "Json" -> value.json
    [] value.kind = "Model" ->
         JsonObject([k \in 1..Len(value.fields) |->
                       JsonEntry(value.fields[k].key, ToJsonValue(value.fields[k].value))])
    [] value.kind = "List" ->
         JsonArray([k \in 1..Len(value.values) |-> ToJsonValue(value.values[k])])

\* evaluateStringBuild: the segments from the first one on; a url encodes the symbols.
SegmentText(text, encode) == Done(StringValue(IF encode THEN EncodeComponent(text) ELSE text))
BuildSegment(segment, env, encode) ==
  IF segment.kind = "Literal" THEN Done(StringValue(segment.value))
  ELSE Then(ResolveSymbol(segment.value, segment.owner, env),
            LAMBDA value : SegmentText(Format(value), encode))
RECURSIVE BuildString(_, _, _)
BuildString(segments, env, encode) ==
  IF segments = <<>> THEN Done(StringValue(""))
  ELSE Then(BuildSegment(segments[1], env, encode), LAMBDA head :
         Then(BuildString(Tail(segments), env, encode), LAMBDA rest :
           Done(StringValue(head.text \o rest.text))))

\* A field of a request specification.
Part(field) == [kind |-> "Part", field |-> field]

\* evaluateHeaders, evaluateQueryParameters: an object of scalars.
EncodeMetadata(value) ==
  IF value.kind # "Json" THEN FailWith("kind")
  ELSE IF value.json.kind # "Object" THEN FailWith("kind")
  ELSE IF ~All(value.json.entries, LAMBDA x : Scalar(x.value)) THEN FailWith("metadata")
  ELSE Done(Part([i \in 1..Len(value.json.entries) |->
                    Header(value.json.entries[i].key, ScalarText(value.json.entries[i].value))]))

\* The fields in the order of their evaluation, and what each is in the specification.  The
\* order of the last three is the compiler's choice.
RequestFieldOrder ==
  <<"body", "timeout", "retryPolicy", "auth", "multipart", "uploadProgress", "downloadStreaming",
    "coalesce", "proxy", "certificatePolicy", "telemetry", "headers", "customHeaders", "queryParams">>
EvaluatedField(name, value) ==
  CASE name = "timeout" ->
         Expecting(value, {"Int"},
                   IF value.number \in 1..600000 THEN Done(Part(value.number)) ELSE FailWith("timeout"))
    [] name \in {"uploadProgress", "downloadStreaming", "coalesce"} ->
         Expecting(value, {"Bool"}, Done(Part(value.truth)))
    [] name \in {"headers", "customHeaders", "queryParams"} -> EncodeMetadata(value)
    [] name = "body" -> IF value.kind = "Unit" THEN FailWith("kind") ELSE Done(Part(Serialize(ToJsonValue(value))))
    [] OTHER -> IF value.kind = "Unit" THEN FailWith("kind") ELSE Done(Part(ToJsonValue(value)))

-----------------------------------------------------------------------------
(* Expressions, statements and calls.                                      *)

RECURSIVE Evaluate(_, _), EvaluateAll(_, _), EvaluateFields(_, _, _), EvaluateCall(_, _),
          ExecuteStatements(_, _), InvokeFunction(_, _, _)

\* A sequence of values, one after the other.
Values(values) == [kind |-> "Values", values |-> values]
EvaluateAll(es, env) ==
  IF es = <<>> THEN Done(Values(<<>>))
  ELSE Then(Evaluate(es[1], env), LAMBDA first :
         Then(EvaluateAll(Tail(es), env), LAMBDA rest :
           Done(Values(<<first>> \o rest.values))))

EvaluateFields(names, fields, env) ==
  IF names = <<>> THEN Done(Part(<<>>))
  ELSE Then(Then(Evaluate(fields[names[1]], env), LAMBDA value : EvaluatedField(names[1], value)),
            LAMBDA first :
              Then(EvaluateFields(Tail(names), fields, env), LAMBDA rest :
                Done(Part((names[1] :> first.field) @@ rest.field))))

\* The response is one of the environment; what the engine does is in NetworkEngine.
EvaluateRequest(e, env) ==
  LET Exchanged(request, value) ==
        IF IsInvalid(request) THEN FailWith("request")
        ELSE Outcome(IF ReportsTelemetry(request) THEN value ELSE Failure("request"),
                     <<Effect("request", request.method \o " " \o request.url)>>)
      Given(name) == name \in DOMAIN e.fields
  IN Then(EvaluateFields(SelectSeq(RequestFieldOrder, Given), e.fields, env), LAMBDA fields :
       Then(BuildString(e.url.segments, env, TRUE), LAMBDA url :
         Exchanged(Sent(env.configuration, RequestSpec(e.method, url.text, fields.field)),
                   Decode(env.response, e.type, env.models))))

\* print, and assert where it is available.
EvaluateBuiltin(callee, arguments, env) ==
  CASE callee = "print" -> Outcome(UnitValue, <<Effect("print", Format(arguments[1]))>>)
    [] callee = "assert" ->
         IF env.mode # "Test" THEN FailWith("mode")
         ELSE Expecting(arguments[1], {"Bool"},
                IF arguments[1].truth = "true" THEN Outcome(UnitValue, <<Effect("assert", "")>>)
                ELSE Outcome(Failure("assertion"), <<Effect("assert", "")>>))

\* invokeScheduledFunction: a function that runs in the background does not fail its caller,
\* unless the caller runs there already.
Scheduled(outcome, policy, worker) ==
  IF policy # "Async" \/ (IsFailure(outcome.value) /\ worker) THEN outcome
  ELSE Outcome(UnitValue, outcome.effects)
InvokeScheduled(function, arguments, env) ==
  Scheduled(InvokeFunction(function, arguments,
              [env EXCEPT !.depth = @ + 1, !.worker = @ \/ function.policy # "Sync"]),
            function.policy, env.worker)

EvaluateCall(e, env) ==
  Then(EvaluateAll(e.arguments, env), LAMBDA arguments :
    IF e.builtin THEN EvaluateBuiltin(e.callee, arguments.values, env)
    ELSE IF e.callee \notin DOMAIN env.functions THEN FailWith("function")
    ELSE InvokeScheduled(env.functions[e.callee], arguments.values, env))

EvaluateInteger(e) ==
  LET Constant(integer) ==
        IF ~integer.ok THEN FailWith("literal")
        ELSE Done(IF e.type = LongType THEN LongValue(integer.number) ELSE IntValue(integer.number))
  IN Constant(IntegerOf(e.value))

EvaluateUnary(e, env) ==
  LET zero == [kind |-> IF e.type = DoubleType THEN "Double" ELSE "Int", number |-> 0]
  IN Then(Evaluate(e.operand, env), LAMBDA value :
       IF e.operation = "Not"
         THEN Expecting(value, {"Bool"}, Done(Truth(value.truth = "false")))
         ELSE EvaluateOperation(zero, e.operation, value, e.type))

\* The right side of a logical operator is evaluated only if the left one leaves it open.
\* Faulty: evaluates both sides.
NeverDecides(left, operation) == FALSE
Decides(left, operation) == left.truth = (IF operation = "LogicalAnd" THEN "false" ELSE "true")
EvaluateBinary(e, env) ==
  LET Of(left, right) ==
        CASE e.operation \in LogicalOperators -> Expecting(right, {"Bool"}, Done(right))
          [] e.operation \in EqualityOperators \cup OrderOperators ->
               EvaluateComparison(left, e.operation, right)
          [] OTHER -> EvaluateOperation(left, e.operation, right, e.type)
  IN Then(Evaluate(e.left, env), LAMBDA left :
       IF e.operation \in LogicalOperators /\ left.kind # "Bool" THEN FailWith("kind")
       ELSE IF e.operation \in LogicalOperators /\ Decides(left, e.operation) THEN Done(left)
       ELSE Then(Evaluate(e.right, env), LAMBDA right : Of(left, right)))

EvaluateJsonArray(values, env, Json(_)) ==
  Then(EvaluateAll(values, env), LAMBDA all :
    IF All(all.values, LAMBDA v : v.kind # "Unit")
      THEN Done(JsonRuntimeValue(Json([i \in 1..Len(all.values) |-> ToJsonValue(all.values[i])])))
      ELSE FailWith("kind"))

Evaluate(e, env) ==
  CASE e.kind = "ReadSymbol" -> ResolveSymbol(e.name, e.owner, env)
    [] e.kind = "IntegerConstant" -> EvaluateInteger(e)
    [] e.kind = "DoubleConstant" ->
         IF IsDouble(e.value) THEN Done(DoubleValue(DoubleOf(e.value))) ELSE FailWith("literal")
    [] e.kind = "StringBuild" -> BuildString(e.segments, env, FALSE)
    [] e.kind = "BooleanConstant" -> Done(BoolValue(e.value))
    [] e.kind = "Call" -> EvaluateCall(e, env)
    [] e.kind = "Unary" -> EvaluateUnary(e, env)
    [] e.kind = "Binary" -> EvaluateBinary(e, env)
    [] e.kind = "JsonNull" -> Done(JsonRuntimeValue(JsonNull))
    [] e.kind = "JsonObject" ->
         EvaluateJsonArray([i \in 1..Len(e.entries) |-> e.entries[i].value], env, LAMBDA values :
           JsonObject([i \in 1..Len(values) |-> JsonEntry(e.entries[i].name, values[i])]))
    [] e.kind = "JsonArray" -> EvaluateJsonArray(e.values, env, JsonArray)
    [] e.kind = "CrossaRequest" -> EvaluateRequest(e, env)

\* The value a block returns, or that it comes to its end.
Continues == [kind |-> "None"]

\* The expression that a statement evaluates first.
SubjectOf(s) == CASE s.kind \in {"Return", "Evaluate"} -> s.expression
                  [] s.kind = "Local" -> s.initializer
                  [] s.kind = "If" -> s.condition
Branch(s, condition) == IF condition.truth = "true" THEN <<s.thens>> ELSE s.elses

ExecuteStatements(statements, env) ==
  LET Rest(next) == ExecuteStatements(Tail(statements), next)
      Run(branch) == IF branch = <<>> THEN Done(Continues)
                     ELSE ExecuteStatements(branch[1], [env EXCEPT !.blocks = Append(@, <<>>)])
      Execute(s, value) ==
        CASE s.kind = "Return" -> Done(value)
          [] s.kind = "Evaluate" -> Rest(env)
          [] s.kind = "Local" ->
               IF s.name \in DOMAIN Last(env.blocks) THEN FailWith("duplicate")
               ELSE Rest([env EXCEPT !.blocks[Len(env.blocks)] = (s.name :> value) @@ @])
          [] s.kind = "If" ->
               Expecting(value, {"Bool"}, Then(Run(Branch(s, value)), LAMBDA result :
                 IF result = Continues THEN Rest(env) ELSE Done(result)))
  IN IF statements = <<>> THEN Done(Continues)
     ELSE Then(Evaluate(SubjectOf(statements[1]), env), LAMBDA value : Execute(statements[1], value))

\* invokeFunction and executeFunctionBody.
InvokeFunction(function, arguments, env) ==
  LET names == [i \in 1..Len(arguments) |-> function.parameters[i].name]
      block == [name \in ToSet(names) |-> arguments[CHOOSE i \in 1..Len(names) : names[i] = name]]
  IN IF env.depth >= MaximumCallDepth THEN FailWith("depth")
     ELSE IF ~IsInjective(names) THEN FailWith("duplicate")
     ELSE Then(ExecuteStatements(function.statements, [env EXCEPT !.blocks = <<block>>]),
               LAMBDA result : Done(IF result = Continues THEN UnitValue ELSE result))

-----------------------------------------------------------------------------
(* The program.                                                            *)

IrOf(program, kind) == SelectSeq(program, LAMBDA d : d.kind = kind)

\* indexFunctions, and what else of the program an evaluation looks up.
Environment(program, configuration, mode, response) ==
  LET functions == IrOf(program, "Function")
      models == IrOf(program, "Model")
      Named(items, name) == items[CHOOSE i \in 1..Len(items) : items[i].name = name]
      NamesIn(items) == {items[i].name : i \in 1..Len(items)}
  IN [functions |-> [name \in NamesIn(functions) |-> Named(functions, name)],
      models |-> [name \in NamesIn(models) |-> Named(models, name).fields],
      globals |-> <<>>, blocks |-> << <<>> >>, depth |-> 0, mode |-> mode, worker |-> FALSE,
      configuration |-> configuration, response |-> response]

\* initializeGlobalValues: the variables from the first one on.  The globals that have a
\* value stay, whatever comes after them.
Initialized(outcome, globals) == [outcome |-> outcome, globals |-> globals]
InitializedFirst(variable, outcome, env, Rest(_)) ==
  CASE IsFailure(outcome.value) -> Initialized(outcome, env.globals)
    [] outcome.value.kind = "Unit" -> Initialized(Outcome(Failure("kind"), outcome.effects), env.globals)
    [] ~IsFailure(outcome.value) /\ variable.name \in DOMAIN env.globals ->
         Initialized(Outcome(Failure("duplicate"), outcome.effects), env.globals)
    [] OTHER -> [Rest([env EXCEPT !.globals = (variable.name :> outcome.value) @@ @])
                   EXCEPT !.outcome.effects = outcome.effects \o @]
RECURSIVE InitializeGlobals(_, _)
InitializeGlobals(variables, env) ==
  IF variables = <<>> THEN Initialized(Done(UnitValue), env.globals)
  ELSE InitializedFirst(variables[1], Evaluate(variables[1].initializer, env), env,
                        LAMBDA next : InitializeGlobals(Tail(variables), next))

\* executeTopLevelExpressions
ExecuteTopLevel(program, env) ==
  LET calls == IrOf(program, "Expression")
  IN EvaluateAll([i \in 1..Len(calls) |-> calls[i].expression], env)
=============================================================================
