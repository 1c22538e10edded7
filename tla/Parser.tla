-------------------------------- MODULE Parser --------------------------------
(***************************************************************************)
(* The parser (compiler/parser/Parser.cpp): recursive descent over the     *)
(* tokens of a source, one operator for each parse function.               *)
(*                                                                         *)
(* A parse function starts at a token i and answers a node and the token   *)
(* behind it; token 0 stands for the exception that ends the parse, and    *)
(* whatever starts there ends there.  d is recursiveParseDepth_.           *)
(***************************************************************************)
EXTENDS Lexer, Ast

CONSTANT MaximumParseRecursionDepth

ASSUME ParseDepthIsPositive == MaximumParseRecursionDepth \in Nat \ {0}

ParseError == [node |-> "none", at |-> 0]
Parsed(node, at) == IF at = 0 THEN ParseError ELSE [node |-> node, at |-> at]

\* check, match and consume, and the text of the token in front of i.
Check(ts, i, type) == i # 0 /\ ts[i].type = type
CheckAny(ts, i, types) == i # 0 /\ ts[i].type \in types
Consume(ts, i, type) == IF Check(ts, i, type) THEN i + 1 ELSE 0
Lexeme(ts, i) == ts[i].lexeme
Deeper(d) == d < MaximumParseRecursionDepth

-----------------------------------------------------------------------------
(* String literals: the text between the quotes.                           *)

Escapes ==
  ("\"" :> "\"") @@ ("\\" :> "\\") @@ ("/" :> "/") @@ ("#" :> "#") @@ ("n" :> "\n")
  @@ ("r" :> "\r") @@ ("t" :> "\t") @@ ("f" :> "\f") @@ ("b" :> CodePoint(8))

\* The character an escape at the backslash i stands for, and the place behind the escape.
StringEscape(s, i) ==
  IF Char(s, i + 1) = "u" THEN UnicodeEscape(s, i + 2)
  ELSE IF Char(s, i + 1) \in DOMAIN Escapes THEN At(Escapes[Char(s, i + 1)], i + 2)
  ELSE At("", 0)

\* The segments from i on, behind the literal text that was read last.
RECURSIVE Segments(_, _, _)
Segments(s, i, literal) ==
  LET pending == IF literal = "" THEN <<>> ELSE <<StringSegment("Literal", literal)>>
      Escape(escape) ==
        IF escape.at = 0 THEN ParseError ELSE Segments(s, escape.at, literal \o escape.value)
      Behind(name, rest) ==
        Parsed(pending \o <<StringSegment("Identifier", name)>> \o rest.node, rest.at)
      Identifier(behind) == Behind(Between(s, i + 1, behind), Segments(s, behind, ""))
  IN IF i > Len(s) THEN Parsed(pending, i)
     ELSE IF Char(s, i) = "\\" THEN Escape(StringEscape(s, i))
     ELSE IF Char(s, i) = "#" /\ Char(s, i + 1) \in IdentifierStart
       THEN Identifier(Past(s, i + 1, IdentifierPart))
     ELSE Segments(s, i + 1, literal \o Char(s, i))

\* A string token at i.
ParseStringSegments(ts, i) ==
  LET Of(segments) == Parsed(segments.node, IF segments.at = 0 THEN 0 ELSE i + 1)
  IN Of(Segments(Between(Lexeme(ts, i), 2, Len(Lexeme(ts, i))), 1, ""))

\* An identifier, or a string without interpolation.
RECURSIVE TextOf(_)
TextOf(segments) ==
  IF segments = <<>> THEN "" ELSE segments[1].value \o TextOf(Tail(segments))
ParseJsonObjectKey(ts, i) ==
  LET Literal(segments) ==
        IF segments.at = 0 \/ \E k \in 1..Len(segments.node) : segments.node[k].kind = "Identifier"
          THEN ParseError
        ELSE Parsed(TextOf(segments.node), segments.at)
  IN CASE Check(ts, i, "Identifier") -> Parsed(Lexeme(ts, i), i + 1)
       [] Check(ts, i, "StringLiteral") -> Literal(ParseStringSegments(ts, i))
       [] OTHER -> ParseError

-----------------------------------------------------------------------------
(* Types and expressions.                                                  *)

TypeNames == {"KeywordInt", "KeywordLong", "KeywordDouble", "KeywordString", "KeywordBool",
              "KeywordJson", "Identifier"}

RECURSIVE ParseTypeReference(_, _, _)
ParseTypeReference(ts, i, d) ==
  IF ~Deeper(d) THEN ParseError
  ELSE IF Check(ts, i, "KeywordList")
    THEN LET element == ParseTypeReference(ts, Consume(ts, i + 1, "LeftAngle"), d + 1)
         IN Parsed(ListType(element.node), Consume(ts, element.at, "RightAngle"))
  ELSE IF CheckAny(ts, i, TypeNames) THEN Parsed(NamedType(Lexeme(ts, i)), i + 1)
  ELSE ParseError

\* The binary operators, the ones that bind least first; each level associates to the left.
Operations ==
  <<[OrOr |-> "LogicalOr"], [AndAnd |-> "LogicalAnd"],
    [EqualEqual |-> "Equal", BangEqual |-> "NotEqual"],
    [LeftAngle |-> "Less", RightAngle |-> "Greater", LessEqual |-> "LessEqual",
     GreaterEqual |-> "GreaterEqual"],
    [Plus |-> "Add", Minus |-> "Subtract"], [Star |-> "Multiply", Slash |-> "Divide"]>>

\* The parse functions that call each other do so through Descend, where rule names the
\* function and what it is for: the level of an operator, the kind of an item.
RECURSIVE Descend(_, _, _, _, _)

\* What is built of an answer, and the token that has to follow it.
Built(answer, node(_)) == Parsed(node(answer.node), answer.at)
Closing(ts, answer, type) == Parsed(answer.node, Consume(ts, answer.at, type))
Expression(ts, i, d) == Descend("expression", 0, ts, i, d)

ParseExpression(ts, i, d) == IF Deeper(d) THEN Descend("level", 1, ts, i, d + 1) ELSE ParseError

\* Faulty: what stands on the right binds first.
ParseFromTheRight(ts, left, d, level) ==
  IF CheckAny(ts, left.at, DOMAIN Operations[level])
    THEN Built(Descend("level", level, ts, left.at + 1, d), LAMBDA right :
           BinaryExpression(left.node, Operations[level][ts[left.at].type], right))
  ELSE left
\* The loop of a level: operators and operands behind the expression left.
RECURSIVE ParseOperands(_, _, _, _)
ParseOperands(ts, left, d, level) ==
  IF CheckAny(ts, left.at, DOMAIN Operations[level])
    THEN ParseOperands(ts,
           Built(Descend("level", level + 1, ts, left.at + 1, d), LAMBDA right :
             BinaryExpression(left.node, Operations[level][ts[left.at].type], right)), d, level)
  ELSE left
ParseLevel(ts, i, d, level) ==
  IF level > Len(Operations) THEN Descend("unary", 0, ts, i, d)
  ELSE ParseOperands(ts, Descend("level", level + 1, ts, i, d), d, level)

\* What stands between commas: a parameter or field, a config or request entry, an entry of
\* a JSON object, an element or argument.
ParseItem(ts, i, d, item) ==
  LET Keyed(key) ==
        IF item = "field"
          THEN Built(ParseTypeReference(ts, Consume(ts, key.at, "Colon"), d),
                     LAMBDA type : Field(key.node, type))
        ELSE Built(Expression(ts, Consume(ts, key.at, "Colon"), d),
                   LAMBDA value : Entry(key.node, value))
  IN CASE item = "value" -> Expression(ts, i, d)
       [] item = "property" -> Keyed(ParseJsonObjectKey(ts, i))
       [] OTHER -> Keyed(Parsed(Lexeme(ts, i), Consume(ts, i, "Identifier")))
ParseItems(ts, i, d, item) ==
  LET From(first) ==
        IF Check(ts, first.at, "Comma")
          THEN Built(Descend("items", item, ts, first.at + 1, d), LAMBDA rest : <<first.node>> \o rest)
        ELSE Parsed(<<first.node>>, first.at)
  IN From(ParseItem(ts, i, d, item))

\* Items up to a closing token.
ParseList(ts, i, d, item, close) ==
  IF i = 0 THEN ParseError
  ELSE IF Check(ts, i, close) THEN Parsed(<<>>, i + 1)
  ELSE Closing(ts, Descend("items", item, ts, i, d), close)

ParseCrossaRequest(ts, i, d) ==
  Built(ParseList(ts, Consume(ts, i, "LeftBrace"), d, "entry", "RightBrace"), CrossaRequestExpression)
ParseCall(ts, callee, i, d) ==
  Built(ParseList(ts, i, d, "value", "RightParen"), LAMBDA arguments : CallExpression(callee, arguments))

ParsePrimary(ts, i, d) ==
  LET type == IF i = 0 THEN "None" ELSE ts[i].type
  IN CASE type = "IntegerLiteral" -> Parsed(IntegerLiteralExpression(Lexeme(ts, i)), i + 1)
       [] type = "DecimalLiteral" -> Parsed(DecimalLiteralExpression(Lexeme(ts, i)), i + 1)
       [] type = "StringLiteral" -> Built(ParseStringSegments(ts, i), StringLiteralExpression)
       [] type = "BooleanLiteral" -> Parsed(BooleanLiteralExpression(Lexeme(ts, i)), i + 1)
       [] type = "KeywordNull" -> Parsed(JsonNullExpression, i + 1)
       [] type = "KeywordCrossaRequest" -> ParseCrossaRequest(ts, i + 1, d)
       [] type \in {Keywords[m] : m \in HttpMethods} ->
            Parsed(HttpMethodLiteralExpression(Lexeme(ts, i)), i + 1)
       [] type = "LeftBrace" ->
            Built(ParseList(ts, i + 1, d, "property", "RightBrace"), JsonObjectExpression)
       [] type = "LeftBracket" ->
            Built(ParseList(ts, i + 1, d, "value", "RightBracket"), JsonArrayExpression)
       [] type \in {"KeywordPrint", "KeywordAssert"} ->
            ParseCall(ts, Lexeme(ts, i), Consume(ts, i + 1, "LeftParen"), d)
       [] type = "Identifier" ->
            IF Check(ts, i + 1, "LeftParen") THEN ParseCall(ts, Lexeme(ts, i), i + 2, d)
            ELSE Parsed(IdentifierExpression(Lexeme(ts, i)), i + 1)
       [] type = "LeftParen" -> Closing(ts, Expression(ts, i + 1, d), "RightParen")
       [] OTHER -> ParseError

\* A literal behind a minus is its operand at once.
ParseUnary(ts, i, d) ==
  LET Applied(operation, operand) == Built(operand, LAMBDA e : UnaryExpression(operation, e))
  IN IF Check(ts, i, "Bang") THEN Applied("Not", Descend("unary", 0, ts, i + 1, d))
     ELSE IF ~Check(ts, i, "Minus") THEN ParsePrimary(ts, i, d)
     ELSE IF CheckAny(ts, i + 1, {"DecimalLiteral", "IntegerLiteral"})
       THEN Applied("Negate", Descend("primary", 0, ts, i + 1, d))
     ELSE Applied("Negate", Descend("unary", 0, ts, i + 1, d))

-----------------------------------------------------------------------------
(* Statements.  Each starts behind its keyword.                            *)

Block(ts, i, d) == Descend("statements", 0, ts, i, d)

\* Name, type and initializer of a variable, local or not.
ParseVariable(ts, i, d) ==
  LET Typed(type) ==
        Built(Expression(ts, Consume(ts, type.at, "Equal"), d),
              LAMBDA initializer : VariableStatement(Lexeme(ts, i), type.node, initializer))
  IN Typed(ParseTypeReference(ts, Consume(ts, Consume(ts, i, "Identifier"), "Colon"), d))

\* "else if" is an else branch that holds the nested if.
ParseIf(ts, i, d) ==
  LET Elses(condition, thens) ==
        LET If(elses) == IfStatement(condition.node, thens.node, elses)
        IN IF ~Check(ts, thens.at, "KeywordElse") THEN Parsed(If(<<>>), thens.at)
           ELSE IF Check(ts, thens.at + 1, "KeywordIf")
             THEN Built(Descend("if", 0, ts, thens.at + 2, d + 1), LAMBDA nested : If(<<<<nested>>>>))
           ELSE Built(Block(ts, Consume(ts, thens.at + 1, "LeftBrace"), d + 1),
                      LAMBDA elses : If(<<elses>>))
      Thens(condition) ==
        Elses(condition, Block(ts, Consume(ts, Consume(ts, condition.at, "RightParen"), "LeftBrace"),
                                    d + 1))
  IN IF Deeper(d) THEN Thens(Expression(ts, Consume(ts, i, "LeftParen"), d + 1)) ELSE ParseError

ParseStatement(ts, i, d) ==
  CASE Check(ts, i, "KeywordRe") -> Built(Expression(ts, i + 1, d), ReturnStatement)
    [] Check(ts, i, "KeywordVar") -> ParseVariable(ts, i + 1, d)
    [] Check(ts, i, "KeywordIf") -> ParseIf(ts, i + 1, d)
    [] OTHER -> Built(Expression(ts, i, d), ExpressionStatement)

\* Up to the brace that closes the block.
ParseStatements(ts, i, d) ==
  LET From(first) == Built(Block(ts, first.at, d), LAMBDA rest : <<first.node>> \o rest)
  IN IF i = 0 \/ Check(ts, i, "EndOfFile") THEN ParseError
     ELSE IF Check(ts, i, "RightBrace") THEN Parsed(<<>>, i + 1)
     ELSE From(ParseStatement(ts, i, d))

-----------------------------------------------------------------------------
(* Declarations.                                                           *)

ParseFunction(ts, i, policy) ==
  LET Body(parameters, returnType) ==
        Built(Block(ts, Consume(ts, returnType.at, "LeftBrace"), 0), LAMBDA statements :
          FunctionDeclaration(Lexeme(ts, i), policy, parameters.node, returnType.node, statements))
      Returning(parameters) ==
        Body(parameters, IF Check(ts, parameters.at, "Colon")
                           THEN ParseTypeReference(ts, parameters.at + 1, 0)
                         ELSE Parsed(NoTypeReference, parameters.at))
  IN Returning(ParseList(ts, Consume(ts, Consume(ts, i, "Identifier"), "LeftParen"), 0,
                         "field", "RightParen"))

FilenameCharacters == IdentifierPart \cup {"-", "."}
IsFilename(s) ==
  /\ Characters(s) \subseteq FilenameCharacters
  /\ Len(s) > 4 /\ Between(s, Len(s) - 3, Len(s) + 1) = ".cra"

ParseImport(ts, i) ==
  LET filename == Between(Lexeme(ts, i), 2, Len(Lexeme(ts, i)))
  IN IF Check(ts, i, "ImportPath") /\ IsFilename(filename)
       THEN Parsed(ImportDeclaration(filename), i + 1)
     ELSE ParseError

ParseDeclaration(ts, i) ==
  LET annotations == [AnnotationSync |-> "Sync", AnnotationAsync |-> "Async",
                      AnnotationAsyncAfter |-> "AsyncAfter"]
  IN CASE ts[i].type \in DOMAIN annotations ->
            ParseFunction(ts, Consume(ts, i + 1, "KeywordFun"), annotations[ts[i].type])
       [] Check(ts, i, "KeywordFun") -> ParseFunction(ts, i + 1, "None")
       [] Check(ts, i, "KeywordVar") -> ParseVariable(ts, i + 1, 0)
       [] Check(ts, i, "KeywordModel") ->
            Built(ParseList(ts, Consume(ts, Consume(ts, i + 1, "Identifier"), "LeftParen"), 0,
                            "field", "RightParen"),
                  LAMBDA fields : ModelDeclaration(Lexeme(ts, i + 1), fields))
       [] Check(ts, i, "KeywordConfig") ->
            Built(ParseList(ts, Consume(ts, i + 1, "LeftBrace"), 0, "entry", "RightBrace"),
                  ConfigDeclaration)
       [] OTHER -> Built(Expression(ts, i, 0), ExpressionDeclaration)

\* Imports stand in front of all declarations.
ParseDeclarations(ts, i, started) ==
  LET import == Check(ts, i, "KeywordImport")
      From(first) == Built(Descend("declarations", started \/ ~import, ts, first.at, 0),
                           LAMBDA rest : <<first.node>> \o rest)
  IN IF i = 0 \/ (import /\ started) THEN ParseError
     ELSE IF Check(ts, i, "EndOfFile") THEN Parsed(<<>>, i)
     ELSE From(IF import THEN ParseImport(ts, i + 1) ELSE ParseDeclaration(ts, i))

Descend(rule, for, ts, i, d) ==
  CASE rule = "expression" -> ParseExpression(ts, i, d)
    [] rule = "level" -> ParseLevel(ts, i, d, for)
    [] rule = "unary" -> ParseUnary(ts, i, d)
    [] rule = "primary" -> ParsePrimary(ts, i, d)
    [] rule = "items" -> ParseItems(ts, i, d, for)
    [] rule = "if" -> ParseIf(ts, i, d)
    [] rule = "statements" -> ParseStatements(ts, i, d)
    [] rule = "declarations" -> ParseDeclarations(ts, i, for)

\* The source unit of a token stream, and whether there is one.
Parse(ts) == Descend("declarations", FALSE, ts, 1, 0)
ParsingFailed(result) == result.at = 0
=============================================================================
