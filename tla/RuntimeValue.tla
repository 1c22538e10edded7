----------------------------- MODULE RuntimeValue ------------------------------
(***************************************************************************)
(* The values of the native runtime (runtime/RuntimeValue.cpp, NativeModel *)
(* and NativeList) and the texts they have.  Their numbers are those of    *)
(* Arithmetic.                                                             *)
(***************************************************************************)
EXTENDS Json, TypedAst, Arithmetic

UnitValue == [kind |-> "Unit"]
IntValue(n) == [kind |-> "Int", number |-> n]
LongValue(n) == [kind |-> "Long", number |-> n]
DoubleValue(n) == [kind |-> "Double", number |-> n]
StringValue(text) == [kind |-> "String", text |-> text]
BoolValue(truth) == [kind |-> "Bool", truth |-> truth]
JsonRuntimeValue(json) == [kind |-> "Json", json |-> json]
ModelValue(name, fields) == [kind |-> "Model", name |-> name, fields |-> fields]
ListValue(values) == [kind |-> "List", values |-> values]
\* What ends an evaluation: no value.
Failure(reason) == [kind |-> "Failure", reason |-> reason]
IsFailure(value) == value.kind = "Failure"

-----------------------------------------------------------------------------
(* Texts.                                                                  *)

FormatDouble(n) ==
  LET magnitude == IF n < 0 THEN -n ELSE n
      rest == magnitude % 100
  IN (IF n < 0 THEN "-" ELSE "") \o ToString(magnitude \div 100)
     \o (IF rest = 0 THEN "" ELSE IF rest < 10 THEN ".0" \o ToString(rest)
         ELSE IF rest % 10 = 0 THEN "." \o ToString(rest \div 10) ELSE "." \o ToString(rest))

RECURSIVE FormatJson(_)
FormatJson(value) ==
  CASE value.kind = "Unit" -> "null"
    [] value.kind \in {"Int", "Long"} -> ToString(value.number)
    [] value.kind = "Double" -> FormatDouble(value.number)
    [] value.kind = "Bool" -> value.truth
    [] value.kind = "String" -> Quoted(value.text)
    [] value.kind = "Json" -> Serialize(value.json)
    [] value.kind = "Model" ->
         "{" \o Joined([i \in 1..Len(value.fields) |->
                          Quoted(value.fields[i].key) \o ":" \o FormatJson(value.fields[i].value)])
         \o "}"
    [] value.kind = "List" ->
         "[" \o Joined([i \in 1..Len(value.values) |-> FormatJson(value.values[i])]) \o "]"

\* format: what print and interpolation show.
Format(value) ==
  CASE value.kind = "String" -> value.text
    [] value.kind = "Unit" -> "Unit"
    [] OTHER -> FormatJson(value)
=============================================================================
