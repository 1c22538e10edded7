------------------------------- MODULE TypedAst --------------------------------
(***************************************************************************)
(* The typed tree that semantic analysis builds (compiler/semantic), the   *)
(* types in it (compiler/types) and the intermediate representation it is  *)
(* lowered to (compiler/ir): one constructor for each node class.  An      *)
(* expression carries its type, a symbol where it was declared.            *)
(***************************************************************************)
EXTENDS Ast

-----------------------------------------------------------------------------
(* Types.                                                                  *)

Primitive(kind) == [kind |-> kind]
IntType == Primitive("Int")
LongType == Primitive("Long")
DoubleType == Primitive("Double")
StringType == Primitive("String")
BoolType == Primitive("Bool")
JsonType == Primitive("Json")
UnitType == Primitive("Unit")
ModelType(name) == [kind |-> "Model", name |-> name]
AnyType == Primitive("None")        \* no expected type

Scalars == {IntType, LongType, DoubleType, StringType, BoolType}
IsNumericType(type) == type \in {IntType, LongType, DoubleType}

-----------------------------------------------------------------------------
(* Expressions.                                                            *)

TypedStringSegment(kind, value, type, owner) ==
  [kind |-> kind, value |-> value, type |-> type, owner |-> owner]
TypedIdentifier(name, owner, type) ==
  [kind |-> "Identifier", name |-> name, owner |-> owner, type |-> type]
TypedIntegerLiteral(value, type) == [kind |-> "IntegerLiteral", value |-> value, type |-> type]
TypedDecimalLiteral(value) == [kind |-> "DecimalLiteral", value |-> value, type |-> DoubleType]
TypedStringLiteral(segments) == [kind |-> "StringLiteral", segments |-> segments, type |-> StringType]
TypedBooleanLiteral(value) == [kind |-> "BooleanLiteral", value |-> value, type |-> BoolType]
TypedCall(callee, builtin, arguments, type) ==
  [kind |-> "Call", callee |-> callee, builtin |-> builtin, arguments |-> arguments, type |-> type]
TypedUnary(operation, operand, type) ==
  [kind |-> "Unary", operation |-> operation, operand |-> operand, type |-> type]
TypedBinary(left, operation, right, type) ==
  [kind |-> "Binary", left |-> left, operation |-> operation, right |-> right, type |-> type]
TypedJsonNull == [kind |-> "JsonNull", type |-> JsonType]
TypedEntry(name, value) == [name |-> name, value |-> value]
TypedJsonObject(entries) == [kind |-> "JsonObject", entries |-> entries, type |-> JsonType]
TypedJsonArray(values) == [kind |-> "JsonArray", values |-> values, type |-> JsonType]

\* fields: the request's fields that are given, by name, without its method and url.
TypedCrossaRequest(method, url, fields, type) ==
  [kind |-> "CrossaRequest", method |-> method, url |-> url, fields |-> fields, type |-> type]

-----------------------------------------------------------------------------
(* Statements and declarations.                                            *)

TypedReturn(expression) == [kind |-> "Return", expression |-> expression]
TypedExpressionStatement(expression) == [kind |-> "Expression", expression |-> expression]
TypedVariable(name, type, initializer) ==
  [kind |-> "Variable", name |-> name, type |-> type, initializer |-> initializer]
TypedIf(condition, thens, elses) ==
  [kind |-> "If", condition |-> condition, thens |-> thens, elses |-> elses]

TypedField(name, type) == [name |-> name, type |-> type]
TypedVariableDeclaration(name, type, initializer) ==
  [kind |-> "Variable", name |-> name, type |-> type, initializer |-> initializer]
TypedFunction(name, policy, parameters, returnType, statements) ==
  [kind |-> "Function", name |-> name, policy |-> policy, parameters |-> parameters,
   returnType |-> returnType, statements |-> statements]
TypedModel(name, fields) == [kind |-> "Model", name |-> name, fields |-> fields]
TypedConfigEntry(name, type, value) == [name |-> name, type |-> type, value |-> value]
TypedConfig(entries) == [kind |-> "Config", entries |-> entries]
TypedExpressionDeclaration(expression) == [kind |-> "Expression", expression |-> expression]

-----------------------------------------------------------------------------
(* The intermediate representation.                                        *)

IrStringSegment(kind, value, owner) == [kind |-> kind, value |-> value, owner |-> owner]
IrReadSymbol(name, owner, type) ==
  [kind |-> "ReadSymbol", name |-> name, owner |-> owner, type |-> type]
IrIntegerConstant(value, type) == [kind |-> "IntegerConstant", value |-> value, type |-> type]
IrDoubleConstant(value) == [kind |-> "DoubleConstant", value |-> value, type |-> DoubleType]
IrStringBuild(segments) == [kind |-> "StringBuild", segments |-> segments, type |-> StringType]
IrBooleanConstant(value) == [kind |-> "BooleanConstant", value |-> value, type |-> BoolType]
IrCall(callee, builtin, arguments, type) ==
  [kind |-> "Call", callee |-> callee, builtin |-> builtin, arguments |-> arguments, type |-> type]
IrUnary(operation, operand, type) ==
  [kind |-> "Unary", operation |-> operation, operand |-> operand, type |-> type]
IrBinary(left, operation, right, type) ==
  [kind |-> "Binary", left |-> left, operation |-> operation, right |-> right, type |-> type]
IrJsonNull == [kind |-> "JsonNull", type |-> JsonType]
IrEntry(name, value) == [name |-> name, value |-> value]
IrJsonObject(entries) == [kind |-> "JsonObject", entries |-> entries, type |-> JsonType]
IrJsonArray(values) == [kind |-> "JsonArray", values |-> values, type |-> JsonType]
IrCrossaRequest(method, url, fields, type) ==
  [kind |-> "CrossaRequest", method |-> method, url |-> url, fields |-> fields, type |-> type]

IrReturn(expression) == [kind |-> "Return", expression |-> expression]
IrEvaluate(expression) == [kind |-> "Evaluate", expression |-> expression]
IrLocal(name, type, initializer) ==
  [kind |-> "Local", name |-> name, type |-> type, initializer |-> initializer]
IrIf(condition, thens, elses) ==
  [kind |-> "If", condition |-> condition, thens |-> thens, elses |-> elses]

IrField(name, type) == [name |-> name, type |-> type]
IrVariable(name, type, initializer) ==
  [kind |-> "Variable", name |-> name, type |-> type, initializer |-> initializer]
IrFunction(name, policy, parameters, returnType, statements) ==
  [kind |-> "Function", name |-> name, policy |-> policy, parameters |-> parameters,
   returnType |-> returnType, statements |-> statements]
IrModel(name, fields) == [kind |-> "Model", name |-> name, fields |-> fields]
IrConfigEntry(name, type, value) == [name |-> name, type |-> type, value |-> value]
IrConfig(entries) == [kind |-> "Config", entries |-> entries]
IrExpressionDeclaration(expression) == [kind |-> "Expression", expression |-> expression]
=============================================================================
