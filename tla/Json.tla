--------------------------------- MODULE Json ----------------------------------
(***************************************************************************)
(* The texts of JSON values and back (network/json), and the values that   *)
(* expressions have at compile time.  A reader starts at a position and    *)
(* answers a value and the position behind it; At("", 0) is the exception  *)
(* that ends the parse.                                                    *)
(***************************************************************************)
EXTENDS Text

JsonWhitespace == {" ", "\t", "\n", "\r"}
SkipWhitespace(s, i) == IF i = 0 THEN 0 ELSE Past(s, i, JsonWhitespace)
Nothing == At("", 0)
Expect(s, i, c) == IF i # 0 /\ Between(s, i, i + Len(c)) = c THEN i + Len(c) ELSE 0

-----------------------------------------------------------------------------
(* Scalars.                                                                *)

\* The digits from i on, at least one.
SomeDigits(s, i) == IF Char(s, i) \in Digits THEN Past(s, i, Digits) ELSE 0

\* Behind the number that starts at i: no zero in front of other digits, and a digit behind
\* a point and in an exponent.
NumberEnd(s, i) ==
  LET Exponent(at) ==
        IF at = 0 \/ Char(s, at) \notin {"e", "E"} THEN at
        ELSE SomeDigits(s, at + (IF Char(s, at + 1) \in {"+", "-"} THEN 2 ELSE 1))
      Fraction(at) == IF at # 0 /\ Char(s, at) = "." THEN SomeDigits(s, at + 1) ELSE at
      Whole(at) == IF Char(s, at) = "0" THEN at + 1 ELSE SomeDigits(s, at)
  IN Exponent(Fraction(Whole(IF Char(s, i) = "-" THEN i + 1 ELSE i)))

ReadNumber(s, i) ==
  LET UpTo(end) == IF end = 0 THEN Nothing ELSE At(Between(s, i, end), end)
  IN UpTo(NumberEnd(s, i))

JsonEscapes ==
  ("\"" :> "\"") @@ ("\\" :> "\\") @@ ("/" :> "/") @@ ("n" :> "\n") @@ ("r" :> "\r")
  @@ ("t" :> "\t") @@ ("f" :> "\f") @@ ("b" :> CodePoint(8))

\* The characters of a string from i on, behind what was read already; More reads those
\* behind a character and the position of the next one.
NextCharacter(s, i, c, read, More(_)) ==
  CASE c = "\"" -> At(read, i + 1)
    [] c = "\\" /\ Char(s, i + 1) = "u" -> More(UnicodeEscape(s, i + 2))
    [] c = "\\" /\ Char(s, i + 1) \in DOMAIN JsonEscapes ->
         More(At(JsonEscapes[Char(s, i + 1)], i + 2))
    [] c \notin {"\"", "\\", ""} \cup {Controls[n] : n \in DOMAIN Controls} -> More(At(c, i + 1))
    [] OTHER -> Nothing
RECURSIVE ReadCharacters(_, _, _)
ReadCharacters(s, i, read) ==
  NextCharacter(s, i, Char(s, i), read, LAMBDA next :
    IF next.at = 0 THEN Nothing ELSE ReadCharacters(s, next.at, read \o next.value))
ReadString(s, i) == IF Char(s, i) = "\"" THEN ReadCharacters(s, i + 1, "") ELSE Nothing

-----------------------------------------------------------------------------
(* Values (JsonParser.cpp).                                                *)

RECURSIVE ReadValue(_, _, _, _), ReadEntries(_, _, _, _, _), ReadElements(_, _, _, _)

\* A value made of what was read, and what stands in front of the rest of the items.
Made(read, Make(_)) == IF read.at = 0 THEN Nothing ELSE At(Make(read.value), read.at)
\* Behind an item: the end of the items, or a comma and the rest of them.
Behind(s, at, close, Rest(_)) ==
  CASE at # 0 /\ Char(s, at) = close -> At(<<>>, at + 1)
    [] at # 0 /\ Char(s, at) = "," -> Rest(at + 1)
    [] OTHER -> Nothing
Items(s, value, first, close, Rest(_)) ==
  Made(Behind(s, SkipWhitespace(s, value.at), close, Rest), LAMBDA rest : <<first>> \o rest)

\* A quoted key that was not there before, a colon and a value.
KeyedItem(s, key, keys, Value(_), Entry(_)) ==
  IF key.at = 0 \/ key.value \in keys THEN Nothing
  ELSE Entry(Value(Expect(s, SkipWhitespace(s, key.at), ":")))
ReadEntries(s, start, d, max, keys) ==
  LET After(key) ==
        KeyedItem(s, key, keys, LAMBDA at : ReadValue(s, at, d, max), LAMBDA value :
          Items(s, value, JsonEntry(key.value, value.value), "}",
                LAMBDA at : ReadEntries(s, at, d, max, keys \cup {key.value})))
  IN After(ReadString(s, SkipWhitespace(s, start)))

ReadElements(s, start, d, max) ==
  LET After(value) == Items(s, value, value.value, "]", LAMBDA at : ReadElements(s, at, d, max))
  IN After(ReadValue(s, start, d, max))

\* What stands inside of brackets, if it is not closed at once.
Inside(s, inner, close, Read(_)) ==
  IF Char(s, inner) = close THEN At(<<>>, inner + 1) ELSE Read(inner)

\* The value that starts at i with this character; d: the arrays and objects around what is in it.
ValueAt(s, i, c, d, max) ==
  CASE c = "{" -> Made(Inside(s, SkipWhitespace(s, i + 1), "}",
                              LAMBDA at : ReadEntries(s, at, d, max, {})), JsonObject)
    [] c = "[" -> Made(Inside(s, SkipWhitespace(s, i + 1), "]",
                              LAMBDA at : ReadElements(s, at, d, max)), JsonArray)
    [] c = "\"" -> Made(ReadString(s, i), JsonString)
    [] c = "t" -> At(JsonBoolean("true"), Expect(s, i, "true"))
    [] c = "f" -> At(JsonBoolean("false"), Expect(s, i, "false"))
    [] c = "n" -> At(JsonNull, Expect(s, i, "null"))
    [] c \in Digits \cup {"-"} -> Made(ReadNumber(s, i), JsonNumber)
    [] OTHER -> Nothing

\* d: the number of arrays and objects around the value, at most max.
ReadValue(s, start, d, max) ==
  LET From(i) == ValueAt(s, i, Char(s, i), d + 1, max)
  IN IF start = 0 \/ d > max THEN Nothing ELSE From(SkipWhitespace(s, start))

\* JsonParser::parse: one value and whitespace around it.
ParseJson(s, maximumBytes, maximumDepth) ==
  LET Whole(read) == IF SkipWhitespace(s, read.at) = Len(s) + 1 THEN read ELSE Nothing
  IN IF Len(s) > maximumBytes THEN Nothing ELSE Whole(ReadValue(s, 1, 0, maximumDepth))

-----------------------------------------------------------------------------
(* Texts (JsonSerializer.cpp).                                             *)

Escaped(c) ==
  CASE c = "\"" -> "\\\"" [] c = "\\" -> "\\\\" [] c = "\f" -> "\\f" [] c = "\n" -> "\\n"
    [] c = "\r" -> "\\r" [] c = "\t" -> "\\t" [] OTHER -> c

\* The control characters that a TLA+ string cannot hold, and how they are written.
Unheld == 0..31 \ DOMAIN Controls
EscapedUnit(n) ==
  IF n = 8 THEN "\\b" ELSE "\\u00" \o Char(HexDigits, n \div 16 + 1) \o Char(HexDigits, (n % 16) + 17)

RECURSIVE EscapedFrom(_, _)
EscapedFrom(s, i) ==
  LET standing == {n \in Unheld : Between(s, i, i + Len(CodePoint(n))) = CodePoint(n)}
  IN IF i > Len(s) THEN ""
     ELSE IF Char(s, i) = "U" /\ standing # {}
       THEN LET n == CHOOSE n \in standing : TRUE
            IN EscapedUnit(n) \o EscapedFrom(s, i + Len(CodePoint(n)))
     ELSE Escaped(Char(s, i)) \o EscapedFrom(s, i + 1)
Quoted(s) == "\"" \o EscapedFrom(s, 1) \o "\""

RECURSIVE Joined(_)
Joined(texts) ==
  CASE Len(texts) = 0 -> "" [] Len(texts) = 1 -> texts[1]
    [] OTHER -> texts[1] \o "," \o Joined(Tail(texts))

RECURSIVE Serialize(_)
Serialize(value) ==
  CASE value.kind = "Null" -> "null"
    [] value.kind = "Boolean" -> value.value
    [] value.kind = "Number" -> value.text
    [] value.kind = "String" -> Quoted(value.value)
    [] value.kind = "Array" ->
         "[" \o Joined([i \in 1..Len(value.values) |-> Serialize(value.values[i])]) \o "]"
    [] value.kind = "Object" ->
         "{" \o Joined([i \in 1..Len(value.entries) |->
                          Quoted(value.entries[i].key) \o ":" \o Serialize(value.entries[i].value)])
         \o "}"

-----------------------------------------------------------------------------
(* Expressions (RuntimeConfiguration::readJson).                           *)

RECURSIVE ReadJson(_)
\* What an entry of a config block holds at compile time; a symbol or an operation has no
\* value here.
ReadJson(e) ==
  LET values == [i \in 1..Len(e.values) |-> ReadJson(e.values[i])]
      entries == [i \in 1..Len(e.entries) |-> JsonEntry(e.entries[i].name, ReadJson(e.entries[i].value))]
  IN CASE e.kind \in {"IntegerConstant", "DoubleConstant"} -> JsonNumber(e.value)
       [] e.kind = "StringBuild" ->
            IF \A i \in DOMAIN e.segments : e.segments[i].kind = "Literal"
              THEN JsonString(IF e.segments = <<>> THEN "" ELSE e.segments[1].value)
            ELSE Invalid
       [] e.kind = "BooleanConstant" -> JsonBoolean(e.value)
       [] e.kind = "JsonNull" -> JsonNull
       [] e.kind = "JsonObject" ->
            IF \A i \in DOMAIN entries : ~IsInvalid(entries[i].value) THEN JsonObject(entries)
            ELSE Invalid
       [] e.kind = "JsonArray" ->
            IF \A i \in DOMAIN values : ~IsInvalid(values[i]) THEN JsonArray(values) ELSE Invalid
       [] OTHER -> Invalid
=============================================================================
