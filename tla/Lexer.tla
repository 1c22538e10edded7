-------------------------------- MODULE Lexer ---------------------------------
(***************************************************************************)
(* The lexer (compiler/lexer/Lexer.cpp): the tokens of a source text.      *)
(*                                                                         *)
(* A scan answers the type of a token and the position behind it.          *)
(***************************************************************************)
EXTENDS Text

IdentifierStart == Characters("abcdefghijklmnopqrstuvwxyzABCDEFGHIJKLMNOPQRSTUVWXYZ_")
IdentifierPart == IdentifierStart \cup Digits
Whitespace == {" ", "\r", "\t", "\n"}
LineBreaks == {"\n", "\r"}

Scanned(type, behind) == [type |-> type, behind |-> behind]
Skipped(behind) == Scanned("None", behind)
LexerError == Scanned("Error", 0)

Keywords ==
  [import |-> "KeywordImport", fun |-> "KeywordFun", re |-> "KeywordRe", if |-> "KeywordIf",
   else |-> "KeywordElse", var |-> "KeywordVar", model |-> "KeywordModel",
   config |-> "KeywordConfig", print |-> "KeywordPrint", assert |-> "KeywordAssert",
   Int |-> "KeywordInt", Long |-> "KeywordLong", Double |-> "KeywordDouble",
   String |-> "KeywordString", Bool |-> "KeywordBool", List |-> "KeywordList",
   Json |-> "KeywordJson", null |-> "KeywordNull", CrossaRequest |-> "KeywordCrossaRequest",
   GET |-> "MethodGet", POST |-> "MethodPost", PUT |-> "MethodPut", PATCH |-> "MethodPatch",
   DELETE |-> "MethodDelete", HEAD |-> "MethodHead", OPTIONS |-> "MethodOptions",
   TRACE |-> "MethodTrace", CONNECT |-> "MethodConnect",
   true |-> "BooleanLiteral", false |-> "BooleanLiteral"]

ResolveIdentifierType(lexeme) ==
  IF lexeme \in DOMAIN Keywords THEN Keywords[lexeme] ELSE "Identifier"

Annotations == ("@Sync" :> "AnnotationSync") @@ ("@Async" :> "AnnotationAsync")
               @@ ("@AsyncAfter" :> "AnnotationAsyncAfter")

\* One character of punctuation, and those two that belong together when they follow each
\* other ("&" and "|" exist only as a pair).
Single ==
  ("(" :> "LeftParen") @@ (")" :> "RightParen") @@ ("{" :> "LeftBrace") @@ ("}" :> "RightBrace")
  @@ ("[" :> "LeftBracket") @@ ("]" :> "RightBracket") @@ ("<" :> "LeftAngle")
  @@ (">" :> "RightAngle") @@ (":" :> "Colon") @@ ("," :> "Comma") @@ ("=" :> "Equal")
  @@ ("!" :> "Bang") @@ ("+" :> "Plus") @@ ("-" :> "Minus") @@ ("*" :> "Star") @@ ("/" :> "Slash")
Double ==
  ("<=" :> "LessEqual") @@ (">=" :> "GreaterEqual") @@ ("==" :> "EqualEqual")
  @@ ("!=" :> "BangEqual") @@ ("&&" :> "AndAnd") @@ ("||" :> "OrOr")

ScanPunctuation(text, at) ==
  LET Of(one, two) == CASE two \in DOMAIN Double -> Scanned(Double[two], at + 2)
                        [] two \notin DOMAIN Double /\ one \in DOMAIN Single ->
                             Scanned(Single[one], at + 1)
                        [] OTHER -> LexerError
  IN Of(Char(text, at), Between(text, at, at + 2))

ScanIdentifier(text, at) ==
  LET behind == Past(text, at, IdentifierPart)
  IN Scanned(ResolveIdentifierType(Between(text, at, behind)), behind)

\* Digits, a fraction only if a digit follows the point, an exponent that needs digits.
ScanNumber(text, at) ==
  LET Exponent(from) == IF Char(text, from) \in Digits
                          THEN Scanned("DecimalLiteral", Past(text, from, Digits)) ELSE LexerError
      Mantissa(type, behind) ==
        IF Char(text, behind) \notin {"e", "E"} THEN Scanned(type, behind)
        ELSE Exponent(behind + (IF Char(text, behind + 1) \in {"+", "-"} THEN 2 ELSE 1))
      Whole(point) ==
        IF Char(text, point) = "." /\ Char(text, point + 1) \in Digits
          THEN Mantissa("DecimalLiteral", Past(text, point + 1, Digits))
        ELSE Mantissa("IntegerLiteral", point)
  IN Whole(Past(text, at, Digits))

\* Up to the next quote without a backslash in front of it, on the same line.
RECURSIVE ScanString(_, _, _)
ScanString(text, at, escaped) ==
  IF at > Len(text) \/ Char(text, at) \in LineBreaks THEN LexerError
  ELSE IF ~escaped /\ Char(text, at) = "\"" THEN Scanned("StringLiteral", at + 1)
  ELSE ScanString(text, at + 1, ~escaped /\ Char(text, at) = "\\")

\* Up to the next hash, without whitespace.
ScanImportPath(text, at) ==
  LET hashes == {i \in (at + 1)..Len(text) : Char(text, i) = "#"}
      behind == CHOOSE i \in hashes : \A j \in hashes : i <= j
  IN IF hashes = {} \/ \E i \in at..behind : Char(text, i) \in Whitespace THEN LexerError
     ELSE Scanned("ImportPath", behind + 1)

ScanAnnotation(text, at) ==
  LET Named(lexeme, behind) ==
        IF Char(text, at + 1) \in IdentifierStart /\ lexeme \in DOMAIN Annotations
          THEN Scanned(Annotations[lexeme], behind)
        ELSE LexerError
      Up(behind) == Named(Between(text, at, behind), behind)
  IN Up(Past(text, at + 1, IdentifierPart))

\* The rest of the line, without its end.
SkipLineComment(text, at) ==
  Skipped(CHOOSE i \in at..(Len(text) + 1) :
            /\ Char(text, i) \in {"", "\n"} /\ \A j \in at..(i - 1) : Char(text, j) # "\n")

ScanToken(text, at) ==
  LET c == Char(text, at) IN
    IF c \in Whitespace THEN Skipped(at + 1)
    ELSE IF Between(text, at, at + 2) = "//" THEN SkipLineComment(text, at)
    ELSE IF c = "#" THEN ScanImportPath(text, at)
    ELSE IF c = "@" THEN ScanAnnotation(text, at)
    ELSE IF c = "\"" THEN ScanString(text, at + 1, FALSE)
    ELSE IF c \in Digits THEN ScanNumber(text, at)
    ELSE IF c \in IdentifierStart THEN ScanIdentifier(text, at)
    ELSE ScanPunctuation(text, at)

\* A token keeps where it starts and what it says; the last one is EndOfFile, or Error if
\* the scan failed.
Token(type, at, lexeme) == [type |-> type, at |-> at, lexeme |-> lexeme]

RECURSIVE TokensFrom(_, _)
TokensFrom(text, at) ==
  IF at > Len(text) THEN <<Token("EndOfFile", at, "")>>
  ELSE LET Behind(scan) ==
             CASE scan.type = "Error" -> <<Token("Error", at, "")>>
               [] scan.type = "None" -> TokensFrom(text, scan.behind)
               [] OTHER -> <<Token(scan.type, at, Between(text, at, scan.behind))>>
                           \o TokensFrom(text, scan.behind)
       IN Behind(ScanToken(text, at))

Tokenize(text) == TokensFrom(text, 1)
=============================================================================
