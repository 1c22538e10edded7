------------------------------- MODULE IrLowerer -------------------------------
(***************************************************************************)
(* From the typed tree to the intermediate representation                  *)
(* (compiler/ir/IrLowerer.cpp), node by node.                              *)
(***************************************************************************)
EXTENDS TypedAst

Each(items, lower(_)) == [i \in 1..Len(items) |-> lower(items[i])]

RECURSIVE LowerExpression(_)

LowerSegment(s) == IrStringSegment(s.kind, s.value, s.owner)
LowerEntry(x) == IrEntry(x.name, LowerExpression(x.value))

LowerExpression(e) ==
  CASE e.kind = "Identifier" -> IrReadSymbol(e.name, e.owner, e.type)
    [] e.kind = "IntegerLiteral" -> IrIntegerConstant(e.value, e.type)
    [] e.kind = "DecimalLiteral" -> IrDoubleConstant(e.value)
    [] e.kind = "StringLiteral" -> IrStringBuild(Each(e.segments, LowerSegment))
    [] e.kind = "BooleanLiteral" -> IrBooleanConstant(e.value)
    [] e.kind = "Call" -> IrCall(e.callee, e.builtin, Each(e.arguments, LowerExpression), e.type)
    [] e.kind = "Unary" -> IrUnary(e.operation, LowerExpression(e.operand), e.type)
    [] e.kind = "Binary" ->
         IrBinary(LowerExpression(e.left), e.operation, LowerExpression(e.right), e.type)
    [] e.kind = "JsonNull" -> IrJsonNull
    [] e.kind = "JsonObject" -> IrJsonObject(Each(e.entries, LowerEntry))
    [] e.kind = "JsonArray" -> IrJsonArray(Each(e.values, LowerExpression))
    [] e.kind = "CrossaRequest" ->
         IrCrossaRequest(e.method, LowerExpression(e.url),
                         [name \in DOMAIN e.fields |-> LowerExpression(e.fields[name])], e.type)

RECURSIVE LowerStatement(_)
LowerStatements(statements) == Each(statements, LowerStatement)

LowerStatement(s) ==
  CASE s.kind = "Return" -> IrReturn(LowerExpression(s.expression))
    [] s.kind = "Expression" -> IrEvaluate(LowerExpression(s.expression))
    [] s.kind = "Variable" -> IrLocal(s.name, s.type, LowerExpression(s.initializer))
    [] s.kind = "If" -> IrIf(LowerExpression(s.condition), LowerStatements(s.thens),
                             Each(s.elses, LowerStatements))

LowerVariable(d) == IrVariable(d.name, d.type, LowerExpression(d.initializer))
LowerModel(d) == IrModel(d.name, Each(d.fields, LAMBDA f : IrField(f.name, f.type)))
LowerFunction(d) ==
  IrFunction(d.name, d.policy, Each(d.parameters, LAMBDA p : IrField(p.name, p.type)),
             d.returnType, LowerStatements(d.statements))
LowerConfig(d) ==
  IrConfig(Each(d.entries, LAMBDA x : IrConfigEntry(x.name, x.type, LowerExpression(x.value))))
LowerExpressionDeclaration(d) == IrExpressionDeclaration(LowerExpression(d.expression))

LowerDeclaration(d) ==
  CASE d.kind = "Variable" -> LowerVariable(d)
    [] d.kind = "Model" -> LowerModel(d)
    [] d.kind = "Function" -> LowerFunction(d)
    [] d.kind = "Config" -> LowerConfig(d)
    [] d.kind = "Expression" -> LowerExpressionDeclaration(d)

Lower(unit) == Each(unit.declarations, LowerDeclaration)
=============================================================================
