------------------------------- MODULE Compiler --------------------------------
(***************************************************************************)
(* What happens to a source file: CrossaApplication::executeSource reads,  *)
(* links, analyzes, lowers, configures and executes it, and a host that    *)
(* holds the runtime of a generated library invokes its operations one     *)
(* after the other (IrInterpreter::invokeSyncOperation and its kin).       *)
(*                                                                         *)
(* The stages are the operators of the modules below; the linker takes its *)
(* own steps.  What runs on several threads is in ExecutionEngine: here an *)
(* operation is one step.                                                  *)
(***************************************************************************)
EXTENDS ProjectLinker, Parser, SemanticAnalyzer, IrLowerer, IrInterpreter, AbiValues

CONSTANTS
  Sources,             \* the inputs: a command, the files of a project, its configuration
  ArgumentValues,      \* what a host passes to an operation
  Responses,           \* the bodies its requests are answered with
  MaximumInvocations   \* bound: operations a host invokes

ASSUME InvocationsBound == MaximumInvocations \in Nat

VARIABLES source,
          phase,
          diagnostic,     \* why a source was rejected
          unit,           \* the typed unit
          program,        \* the intermediate representation
          environment,    \* of the interpreter, with the globals that have a value
          initialized,    \* globalsInitialized_: the initializers came to their end
          results         \* what was executed, in order: name, value and effects

stageVars == <<diagnostic, unit, program>>
runVars == <<environment, initialized, results>>
compilerVars == <<vars, source, phase, stageVars, runVars>>

-----------------------------------------------------------------------------
(* Source files.                                                           *)

ParsedText(text) == Parse(Tokenize(text))
DeclarationsOf(text) == IF ParsingFailed(ParsedText(text)) THEN <<>> ELSE ParsedText(text).node
IsImport(d) == d.kind = "Import"
Own(text) == SelectSeq(DeclarationsOf(text), LAMBDA d : ~IsImport(d))

\* What the linker sees of the files.
ModuleOf(text) ==
  [imports |-> With(SelectSeq(DeclarationsOf(text), IsImport), LAMBDA d : d.filename),
   declares |-> With(Own(text), LAMBDA d : d.kind)]
ProjectOf(s) ==
  [entry |-> s.entry, inside |-> s.inside, filename |-> s.filename, regular |-> s.regular,
   size |-> [p \in Paths |-> Len(s.texts[p])],
   unit |-> [p \in Paths |-> ModuleOf(s.texts[p])],
   broken |-> {p \in Paths : ParsingFailed(ParsedText(s.texts[p]))}]

\* The linked unit: the declarations themselves.
LinkedUnit == With(linkedDeclarations, LAMBDA l : Own(source.texts[l.path])[l.at])
Stem(filename) == Between(filename, 1, Len(filename) - 3)
Identity == Stem(project.filename[project.entry])

\* The program of a text without imports, or its first diagnostic.
Compiled(declarations) == [kind |-> "Program", program |-> declarations]
LoweredUnit(typed) == IF Failed(typed) THEN typed ELSE Compiled(Lower(typed))
AnalyzedText(parsed, identity) ==
  IF ParsingFailed(parsed) THEN Error("parser") ELSE Analyze(parsed.node, identity, TRUE)
CompiledText(text, identity) == LoweredUnit(AnalyzedText(ParsedText(text), identity))

\* compileSiblingConfiguration and validateConfigurationProgram: the config.cra beside the
\* source has one config block and nothing else.
OnlyConfig(compiled) ==
  IF Failed(compiled) THEN compiled
  ELSE IF Len(compiled.program) = 1 /\ compiled.program[1].kind = "Config" THEN compiled
  ELSE Error("configuration")
Configuration(s) ==
  IF s.configuration = <<>> \/ Stem(s.filename[s.entry]) = "config" THEN Compiled(<<>>)
  ELSE OnlyConfig(CompiledText(s.configuration[1], "config"))

\* readKotlinPackageName: a string without symbols, if there is one.
PackageNameIsLiteral(configurationProgram) ==
  All(EntriesOf(configurationProgram), LAMBDA e :
        e.name = "packageName" => /\ e.value.kind = "StringBuild"
                                  /\ All(e.value.segments, LAMBDA s : s.kind = "Literal"))

-----------------------------------------------------------------------------
NoEnvironment == [globals |-> <<>>]

CompilerInit ==
  /\ source \in Sources /\ project = ProjectOf(source) /\ Unstarted
  /\ phase = "read" /\ diagnostic = "none"
  /\ unit = [kind |-> "None"] /\ program = <<>>
  /\ environment = NoEnvironment /\ initialized = FALSE /\ results = <<>>

Reject(code) == phase' = "rejected" /\ diagnostic' = code

ReadSource ==
  /\ phase = "read"
  /\ IF project.entry \in project.broken THEN Reject("parser")
     ELSE phase' = "link" /\ UNCHANGED diagnostic
  /\ UNCHANGED <<vars, source, unit, program, runVars>>

LinkProject ==
  /\ phase = "link" /\ Next
  /\ IF stage' = "failed" THEN Reject("linker")
     ELSE /\ phase' = IF stage' = "linked" THEN "analyze" ELSE "link"
          /\ UNCHANGED diagnostic
  /\ UNCHANGED <<source, unit, program, runVars>>

AnalyzeSource ==
  /\ phase = "analyze"
  /\ \E typed \in {Analyze(LinkedUnit, Identity, linkedDeclarations # <<>>
                                       /\ linkedDeclarations[1].path = project.entry)} :
       IF Failed(typed) THEN Reject(typed.code) /\ UNCHANGED unit
       ELSE unit' = typed /\ phase' = "lower" /\ UNCHANGED diagnostic
  /\ UNCHANGED <<vars, source, program, runVars>>

LowerSource ==
  /\ phase = "lower"
  /\ program' = Lower(unit)
  /\ phase' = IF source.command = "check" THEN "finished" ELSE "configure"
  /\ UNCHANGED <<vars, source, diagnostic, unit, runVars>>

\* A host gives the overrides; a command has none.
Loaded(compiled, overrides) ==
  IF Failed(compiled) THEN compiled ELSE Load(program, compiled.program, overrides)
ConfigureRuntime ==
  /\ phase = "configure" /\ source.command # "kotlin"
  /\ \E compiled \in {Configuration(source)} :
     \E configuration \in {Loaded(compiled, source.overrides)} :
       IF Failed(compiled) THEN Reject(compiled.code) /\ UNCHANGED environment
       ELSE IF IsInvalid(configuration) THEN Reject("configuration") /\ UNCHANGED environment
       ELSE /\ environment' = Environment(program, configuration,
                                IF source.command = "test" THEN "Test" ELSE "Run", source.response)
            /\ phase' = IF source.command = "host" THEN "host" ELSE "initialize"
            /\ UNCHANGED diagnostic
  /\ UNCHANGED <<vars, source, unit, program, initialized, results>>

GenerateKotlin ==
  /\ phase = "configure" /\ source.command = "kotlin"
  /\ \E compiled \in {Configuration(source)} :
       IF Failed(compiled) THEN Reject(compiled.code)
       ELSE IF ~PackageNameIsLiteral(compiled.program) THEN Reject("packageName")
       ELSE phase' = "finished" /\ UNCHANGED diagnostic
  /\ UNCHANGED <<vars, source, unit, program, runVars>>

-----------------------------------------------------------------------------
(* Execution.                                                              *)

Result(name, outcome) == [name |-> name, value |-> outcome.value, effects |-> outcome.effects]
Recorded(name, outcome) == results' = Append(results, Result(name, outcome))

\* initializeGlobals: a call_once, which an exception leaves open.
Globals(env) ==
  IF initialized THEN [outcome |-> Done(UnitValue), globals |-> env.globals]
  ELSE InitializeGlobals(IrOf(program, "Variable"), env)
Completes(outcome) == ~IsFailure(outcome.value)
\* Faulty: the initializers came to their end, whatever they answered.
EnteredAnyway(ready) ==
  environment' = [environment EXCEPT !.globals = ready.globals] /\ initialized' = TRUE
Entered(ready) ==
  /\ environment' = [environment EXCEPT !.globals = ready.globals]
  /\ initialized' = (initialized \/ Completes(ready.outcome))

InitializeProgram ==
  /\ phase = "initialize"
  /\ \E ready \in {Globals(environment)} :
       /\ Entered(ready) /\ Recorded("initialize", ready.outcome)
       /\ phase' = IF Completes(ready.outcome) THEN "execute" ELSE "finished"
  /\ UNCHANGED <<vars, source, stageVars>>

\* The calls at the top level; a test has to assert something.
AssertionCount(effects) == Len(SelectSeq(effects, LAMBDA x : x.kind = "assert"))
Asserted(outcome) ==
  IF /\ source.command = "test" /\ Completes(outcome)
     /\ AssertionCount(results[1].effects \o outcome.effects) = 0
    THEN Outcome(Failure("assertion"), outcome.effects)
  ELSE outcome
ExecuteProgram ==
  /\ phase = "execute"
  /\ \E outcome \in {ExecuteTopLevel(program, environment)} : Recorded("execute", Asserted(outcome))
  /\ phase' = "finished"
  /\ UNCHANGED <<vars, source, stageVars, environment, initialized>>

\* An operation of a generated library; a call whose arguments are refused does nothing.  An
\* exception in an initializer ends it as well.
InvokeOperation(name, arguments, response) ==
  /\ phase = "host" /\ Len(results) < MaximumInvocations
  /\ IsOk(ConvertArguments(arguments))
  /\ LET function == environment.functions[name]
         env == [environment EXCEPT !.response = response]
     IN \E ready \in {Globals(env)} :
        \E called \in {Then(ready.outcome, LAMBDA done :
                              InvokeFunction(function, ConvertArguments(arguments).value,
                                [env EXCEPT !.globals = ready.globals,
                                            !.worker = function.policy # "Sync"]))} :
          Entered(ready) /\ Recorded(name, called)
  /\ UNCHANGED <<vars, source, phase, stageVars>>

\* What may be passed: a value of its type for each parameter.
ArgumentsFor(function) ==
  {arguments \in [1..Len(function.parameters) -> ArgumentValues] :
     \A i \in DOMAIN arguments : arguments[i].kind = function.parameters[i].type.kind}

CloseHost ==
  /\ phase = "host" /\ phase' = "finished"
  /\ UNCHANGED <<vars, source, stageVars, runVars>>

CompilerNext ==
  \/ ReadSource \/ LinkProject \/ AnalyzeSource \/ LowerSource
  \/ ConfigureRuntime \/ GenerateKotlin \/ InitializeProgram \/ ExecuteProgram
  \/ /\ phase = "host"
     /\ \E name \in DOMAIN environment.functions, response \in Responses :
          \E arguments \in ArgumentsFor(environment.functions[name]) :
            InvokeOperation(name, arguments, response)
  \/ CloseHost

\* One thread goes through the stages; it does not stop while it follows imports, the only
\* stage that is more than one step.
Fairness == WF_compilerVars(ReadSource) /\ WF_compilerVars(LinkProject)

CompilerSpec == CompilerInit /\ [][CompilerNext]_compilerVars /\ Fairness

-----------------------------------------------------------------------------
(* A reference for expressions: how one is written, and what it means.  A  *)
(* source whose tree is given is print(...) of that expression.            *)

\* language-foundation.md, section 20: what binds first.
Rank(e) ==
  CASE e.kind = "Unary" -> 7
    [] e.kind = "Binary" ->
         (CASE e.operation \in {"Multiply", "Divide"} -> 6
            [] e.operation \in {"Add", "Subtract"} -> 5
            [] e.operation \in OrderOperators -> 4
            [] e.operation \in EqualityOperators -> 3
            [] e.operation = "LogicalAnd" -> 2
            [] e.operation = "LogicalOr" -> 1)
    [] OTHER -> 8
Signs == [Add |-> "+", Subtract |-> "-", Multiply |-> "*", Divide |-> "/", Negate |-> "-",
          Not |-> "!", Equal |-> "==", NotEqual |-> "!=", Less |-> "<", LessEqual |-> "<=",
          Greater |-> ">", GreaterEqual |-> ">=", LogicalAnd |-> "&&", LogicalOr |-> "||"]

\* With parentheses only where a rank is too low; operators of one rank go from the left.
RECURSIVE Written(_, _)
Written(e, rank) ==
  LET text == CASE e.kind = "Unary" -> Signs[e.operation] \o Written(e.operand, 7)
                [] e.kind = "Binary" -> Written(e.left, Rank(e)) \o Signs[e.operation]
                                        \o Written(e.right, Rank(e) + 1)
                [] OTHER -> e.value
  IN IF Rank(e) < rank THEN "(" \o text \o ")" ELSE text

Magnitude(n) == IF n < 0 THEN -n ELSE n

\* The numbers of mathematics, as far as the width goes; Undefined outside of it and behind
\* a division by zero.
Undefined == [kind |-> "Undefined"]
Number(n) == IF n \in Minimum..Maximum THEN IntValue(n) ELSE Undefined
MeaningOfArithmetic(a, operation, b) ==
  CASE operation = "Add" -> Number(a + b)
    [] operation = "Subtract" -> Number(a - b)
    [] operation = "Multiply" -> Number(a * b)
    [] operation = "Divide" /\ b = 0 -> Undefined
    [] operation = "Divide" /\ b # 0 ->
         Number(CHOOSE q \in Minimum..(Maximum + 1) :
                  LET rest == a - q * b
                  IN Magnitude(rest) < Magnitude(b) /\ (rest = 0 \/ (rest < 0) = (a < 0)))

RECURSIVE Meaning(_)
Meaning(e) ==
  LET left == Meaning(e.left)
      right == Meaning(e.right)
      operand == Meaning(e.operand)
      decided == [LogicalAnd |-> BoolValue("false"), LogicalOr |-> BoolValue("true")]
  IN CASE e.kind = "BooleanLiteral" -> BoolValue(e.value)
       [] e.kind = "IntegerLiteral" ->
            IF IntegerOf(e.value).ok THEN IntValue(IntegerOf(e.value).number) ELSE Undefined
       [] e.kind = "Unary" ->
            IF operand = Undefined THEN Undefined
            ELSE IF e.operation = "Negate" THEN Number(-operand.number)
            ELSE Truth(operand = BoolValue("false"))
       [] e.kind = "Binary" ->
            IF left = Undefined THEN Undefined
            ELSE IF e.operation \in LogicalOperators
              THEN IF left = decided[e.operation] THEN left ELSE right
            ELSE IF right = Undefined THEN Undefined
            ELSE IF e.operation \in EqualityOperators
              THEN Truth((left = right) = (e.operation = "Equal"))
            ELSE IF e.operation \in OrderOperators
              THEN Truth(\/ e.operation \in {"Less", "LessEqual"} /\ left.number < right.number
                         \/ e.operation \in {"Greater", "GreaterEqual"} /\ left.number > right.number
                         \/ e.operation \in {"LessEqual", "GreaterEqual"} /\ left = right)
            ELSE MeaningOfArithmetic(left.number, e.operation, right.number)

-----------------------------------------------------------------------------
(* What compiling and executing promise.                                   *)

\* The parser gives back the tree an expression was written from: precedence and the order of
\* operators of one rank are what language-foundation.md:901 says, and parentheses win.
ParserInvertsWriting ==
  \A i \in 1..Len(source.tree) :
    /\ phase # "rejected" \/ diagnostic # "parser"
    /\ phase = "link" =>
         Own(source.texts[source.entry])[1].expression.arguments = <<source.tree[i]>>

\* What an accepted expression prints is what it means; it prints nothing if a part of it that
\* counts has no value in the width.  So checks of overflow come in time, and an operator
\* that is decided by its left side does not fail on its right one.
ComputesWhatItSays ==
  \A i \in 1..Len(source.tree) :
    phase = "finished" /\ source.command = "run" =>
      LET meaning == Meaning(source.tree[i])
          last == results[Len(results)]
      IN /\ IsFailure(last.value) = (meaning = Undefined)
         /\ last.effects = IF meaning = Undefined THEN <<>> ELSE <<Effect("print", Format(meaning))>>

\* What the analyzer accepts does not fail for its types: every value has the kind that the
\* operation on it expects, functions exist and variables have values.  Only an initializer
\* may meet a global that has none yet, or one that an earlier attempt left.
AcceptedProgramsDoNotGoWrong ==
  \A i \in 1..Len(results) :
    IsFailure(results[i].value) =>
      \/ results[i].value.reason \in KnownFailures
      \/ ~initialized /\ results[i].value.reason \in {"no value", "duplicate"}

\* A value has the type its place was declared with: a global the one of its variable, the
\* result of an operation the one the operation returns.
ValuesHaveTheirType ==
  LET variables == IrOf(program, "Variable")
  IN /\ \A i \in 1..Len(variables) :
          variables[i].name \in DOMAIN environment.globals =>
            HasType(environment.globals[variables[i].name], variables[i].type, environment.models)
     /\ phase = "host" =>
          \A i \in 1..Len(results) :
            \/ IsFailure(results[i].value)
            \/ HasType(results[i].value, environment.functions[results[i].name].returnType,
                       environment.models)

\* An operation that succeeds had all globals: none runs between initializers, or behind
\* initializers that failed.
OperationsSeeAllGlobals ==
  (phase \in {"host", "execute"} /\ \E i \in 1..Len(results) : ~IsFailure(results[i].value)) =>
    /\ initialized
    /\ \A i \in 1..Len(IrOf(program, "Variable")) :
         IrOf(program, "Variable")[i].name \in DOMAIN environment.globals

\* However the files import each other, linking comes to an end: with a unit that is analyzed,
\* or with a diagnostic.
LinkingIsDecided == <>(phase \notin {"read", "link"})
=============================================================================
