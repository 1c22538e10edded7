--------------------------------- MODULE Ast ----------------------------------
(***************************************************************************)
(* The syntax tree (compiler/ast): one constructor for each node class,    *)
(* and what a tree of them is.  A node is a record with the fields of its  *)
(* class; source locations are left out, and the value of a literal is the *)
(* text it has in the source.                                              *)
(***************************************************************************)
EXTENDS Integers, Sequences

ArithmeticOperators == {"Add", "Subtract", "Multiply", "Divide"}
EqualityOperators == {"Equal", "NotEqual"}
OrderOperators == {"Less", "LessEqual", "Greater", "GreaterEqual"}
LogicalOperators == {"LogicalAnd", "LogicalOr"}
BinaryOperators == ArithmeticOperators \cup EqualityOperators \cup OrderOperators \cup LogicalOperators
HttpMethods == {"GET", "POST", "PUT", "PATCH", "DELETE", "HEAD", "OPTIONS", "TRACE", "CONNECT"}

-----------------------------------------------------------------------------
(* Expressions.                                                            *)

StringSegment(kind, value) == [kind |-> kind, value |-> value]
IdentifierExpression(name) == [kind |-> "Identifier", name |-> name]
IntegerLiteralExpression(value) == [kind |-> "IntegerLiteral", value |-> value]
DecimalLiteralExpression(value) == [kind |-> "DecimalLiteral", value |-> value]
StringLiteralExpression(segments) == [kind |-> "StringLiteral", segments |-> segments]
BooleanLiteralExpression(value) == [kind |-> "BooleanLiteral", value |-> value]
CallExpression(callee, arguments) ==
  [kind |-> "Call", callee |-> callee, arguments |-> arguments]
UnaryExpression(operation, operand) ==
  [kind |-> "Unary", operation |-> operation, operand |-> operand]
BinaryExpression(left, operation, right) ==
  [kind |-> "Binary", left |-> left, operation |-> operation, right |-> right]
JsonNullExpression == [kind |-> "JsonNull"]
JsonObjectExpression(entries) == [kind |-> "JsonObject", entries |-> entries]
JsonArrayExpression(values) == [kind |-> "JsonArray", values |-> values]
HttpMethodLiteralExpression(method) == [kind |-> "HttpMethod", method |-> method]
CrossaRequestExpression(entries) == [kind |-> "CrossaRequest", entries |-> entries]

\* Json, config and request entries: a name and an expression.
Entry(name, value) == [name |-> name, value |-> value]

-----------------------------------------------------------------------------
(* Types, statements and declarations.                                     *)

NamedType(name) == [kind |-> "Named", name |-> name]
ListType(element) == [kind |-> "List", element |-> element]
NoTypeReference == [kind |-> "None"]

\* Parameters and model fields: a name and a type.
Field(name, type) == [name |-> name, type |-> type]

ReturnStatement(expression) == [kind |-> "Return", expression |-> expression]
ExpressionStatement(expression) == [kind |-> "Expression", expression |-> expression]
\* A variable of a block or of a source unit.
VariableStatement(name, type, initializer) ==
  [kind |-> "Variable", name |-> name, type |-> type, initializer |-> initializer]
\* elses has no branch or one.
IfStatement(condition, thens, elses) ==
  [kind |-> "If", condition |-> condition, thens |-> thens, elses |-> elses]

ImportDeclaration(filename) == [kind |-> "Import", filename |-> filename]
FunctionDeclaration(name, policy, parameters, returnType, statements) ==
  [kind |-> "Function", name |-> name, policy |-> policy, parameters |-> parameters,
   returnType |-> returnType, statements |-> statements]
ModelDeclaration(name, fields) == [kind |-> "Model", name |-> name, fields |-> fields]
ConfigDeclaration(entries) == [kind |-> "Config", entries |-> entries]
ExpressionDeclaration(expression) == [kind |-> "Expression", expression |-> expression]

\* Every item of a sequence.
All(items, Holds(_)) == \A i \in 1..Len(items) : Holds(items[i])
=============================================================================
