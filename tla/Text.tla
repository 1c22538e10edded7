--------------------------------- MODULE Text ----------------------------------
(***************************************************************************)
(* Texts.  A text is a string, and a string is a sequence of characters;   *)
(* Char reads one of them as a string of length one.  A character that a   *)
(* TLA+ string cannot hold is written U+n;, with its code point n.  The    *)
(* JSON values are here too, for all who read or write them.               *)
(***************************************************************************)
EXTENDS Integers, Sequences, TLC

\* peek, peekNext: no character behind the end of the text.
Char(text, at) == IF at \in 1..Len(text) THEN SubSeq(text, at, at) ELSE ""
Between(text, from, to) == IF to > Len(text) + 1 THEN "" ELSE SubSeq(text, from, to - 1)
Characters(text) == {Char(text, i) : i \in 1..Len(text)}

Digits == Characters("0123456789")

\* The first position from at on whose character is not one of these.
Past(text, at, these) ==
  CHOOSE i \in at..(Len(text) + 1) :
    /\ Char(text, i) \notin these
    /\ \A j \in at..(i - 1) : Char(text, j) \in these

\* A value that was read, and the position behind it; 0 is a failure.
At(value, at) == [value |-> value, at |-> at]

Printable == " !\"#$%&'()*+,-./0123456789:;<=>?@ABCDEFGHIJKLMNOPQRSTUVWXYZ[\\]^_?abcdefghijklmnopqrstuvwxyz{|}~"

Controls == (9 :> "\t") @@ (10 :> "\n") @@ (12 :> "\f") @@ (13 :> "\r")

\* The character of a code point; those a TLA+ string cannot hold are written U+n;.
CodePoint(n) == CASE n \in 32..126 \ {96} -> Char(Printable, n - 31)
                  [] n \in DOMAIN Controls -> Controls[n]
                  [] OTHER -> "U+" \o ToString(n) \o ";"

\* The value of a hexadecimal digit in either case, from its place.
HexDigits == "0123456789abcdef0123456789ABCDEF"
HexValue(c) == (CHOOSE k \in 0..31 : Char(HexDigits, k + 1) = c) % 16
IsHex(c) == c # "" /\ c \in Characters(HexDigits)

\* readHexCodeUnit: four digits from i on, or -1.
ReadHexCodeUnit(s, i) ==
  IF \A k \in 0..3 : IsHex(Char(s, i + k))
    THEN LET digit == [k \in 0..3 |-> HexValue(Char(s, i + k))]
         IN 16 * (16 * (16 * digit[0] + digit[1]) + digit[2]) + digit[3]
  ELSE -1

HighSurrogates == 55296..56319
LowSurrogates == 56320..57343

\* The character that the digits from i on stand for: a high surrogate needs a low one.
UnicodeEscape(s, i) ==
  LET Pair(high, low) ==
        IF Between(s, i + 4, i + 6) = "\\u" /\ low \in LowSurrogates
          THEN At(CodePoint(65536 + (high - 55296) * 1024 + (low - 56320)), i + 10)
        ELSE At("", 0)
      Unit(unit) ==
        IF unit \in {-1} \cup LowSurrogates THEN At("", 0)
        ELSE IF unit \in HighSurrogates THEN Pair(unit, ReadHexCodeUnit(s, i + 6))
        ELSE At(CodePoint(unit), i + 4)
  IN Unit(ReadHexCodeUnit(s, i))

-----------------------------------------------------------------------------
(* JSON values (network/json/JsonValue.cpp).  A number keeps its text.     *)

JsonNull == [kind |-> "Null"]
JsonBoolean(value) == [kind |-> "Boolean", value |-> value]
JsonNumber(text) == [kind |-> "Number", text |-> text]
JsonString(value) == [kind |-> "String", value |-> value]
JsonArray(values) == [kind |-> "Array", values |-> values]
JsonObject(entries) == [kind |-> "Object", entries |-> entries]
JsonEntry(key, value) == [key |-> key, value |-> value]

\* In place of a value where there must not be one.
Invalid == [kind |-> "Invalid"]
IsInvalid(x) == x = Invalid

\* find: the first value of a key of a JSON object, if it has one.
Absent == [kind |-> "Absent"]
Lookup(json, key) ==
  LET found == SelectSeq(json.entries, LAMBDA e : e.key = key)
  IN IF found = <<>> THEN Absent ELSE found[1].value
=============================================================================
