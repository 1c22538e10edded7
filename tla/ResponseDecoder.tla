--------------------------- MODULE ResponseDecoder -----------------------------
(***************************************************************************)
(* From the body of a response to a value of the type the request has      *)
(* (network/response/ResponseDecoder.cpp).  Scalars, models and lists are  *)
(* read from the text directly; Json goes through the JSON parser.         *)
(*                                                                         *)
(* models gives the fields of each model, a sequence of names and types.   *)
(* A failure is one: which of the errors of decoding it is and its path    *)
(* are left out.                                                           *)
(***************************************************************************)
EXTENDS RuntimeValue

CONSTANTS MaximumResponseBytes, MaximumJsonDepth

ASSUME ResponseLimits == MaximumResponseBytes \in Nat /\ MaximumJsonDepth \in Nat

\* A number that starts at i, as text; then the number itself.
ReadInteger(s, i, Value(_)) ==
  LET Sized(integer, at) == IF integer.ok THEN At(Value(integer.number), at) ELSE Nothing
      Of(number) == IF number.at = 0 THEN Nothing ELSE Sized(IntegerOf(number.value), number.at)
  IN Of(ReadNumber(s, i))

ReadDouble(s, i) ==
  LET Of(number) == IF number.at = 0 THEN Nothing
                    ELSE IF IsDouble(number.value)
                      THEN At(DoubleValue(DoubleOf(number.value)), number.at)
                    ELSE Nothing
  IN Of(ReadNumber(s, i))

FieldsOf(fields, key) == {k \in 1..Len(fields) : fields[k].name = key}
GivenEntries(entries, key) == {k \in 1..Len(entries) : entries[k].key = key}

\* Every field has a value, in the order of the model.
Complete(fields, entries) == All(fields, LAMBDA f : GivenEntries(entries, f.name) # {})
ModelOf(name, fields, entries) ==
  ModelValue(name, [k \in 1..Len(fields) |->
    JsonEntry(fields[k].name, entries[CHOOSE e \in GivenEntries(entries, fields[k].name) : TRUE].value)])

RECURSIVE ReadTyped(_, _, _, _, _), ReadTypedFields(_, _, _, _, _, _), ReadTypedItems(_, _, _, _, _)

\* The entries of a model: a known key has a value of its field's type, any other is skipped.
ReadTypedFields(s, start, fields, d, models, keys) ==
  LET Value(known, at) ==
        IF known = {} THEN ReadValue(s, at, d, MaximumJsonDepth)
        ELSE ReadTyped(s, at, fields[CHOOSE k \in known : TRUE].type, d, models)
      After(key) ==
        KeyedItem(s, key, keys, LAMBDA at : Value(FieldsOf(fields, key.value), SkipWhitespace(s, at)),
          LAMBDA value : Items(s, value, JsonEntry(key.value, value.value), "}",
            LAMBDA at : ReadTypedFields(s, at, fields, d, models, keys \cup {key.value})))
  IN After(ReadString(s, SkipWhitespace(s, start)))

ReadTypedItems(s, start, element, d, models) ==
  LET After(value) == Items(s, value, value.value, "]",
                            LAMBDA at : ReadTypedItems(s, at, element, d, models))
  IN After(ReadTyped(s, SkipWhitespace(s, start), element, d, models))

\* Faulty: the fields of a model are no deeper than the model.
ReadModelFlat(s, i, name, d, models) ==
  LET Of(entries) == IF ~Complete(models[name], entries.value) THEN Nothing
                     ELSE At(ModelOf(name, models[name], entries.value), entries.at)
  IN IF Char(s, i) # "{" THEN Nothing
     ELSE Of(Inside(s, SkipWhitespace(s, i + 1), "}",
                    LAMBDA at : ReadTypedFields(s, at, models[name], d, models, {})))
ReadModel(s, i, name, d, models) ==
  LET Of(entries) == IF ~Complete(models[name], entries.value) THEN Nothing
                     ELSE At(ModelOf(name, models[name], entries.value), entries.at)
  IN IF Char(s, i) # "{" THEN Nothing
     ELSE Of(Inside(s, SkipWhitespace(s, i + 1), "}",
                    LAMBDA at : ReadTypedFields(s, at, models[name], d + 1, models, {})))

ReadList(s, i, element, d, models) ==
  IF Char(s, i) # "[" THEN Nothing
  ELSE Made(Inside(s, SkipWhitespace(s, i + 1), "]",
                   LAMBDA at : ReadTypedItems(s, at, element, d + 1, models)), ListValue)

\* parseTypedValue: the value starts at i, without whitespace in front.
ReadTyped(s, i, type, d, models) ==
  CASE i = 0 \/ d > MaximumJsonDepth -> Nothing
    [] i # 0 /\ d <= MaximumJsonDepth ->
         (CASE type.kind = "Unit" -> At(UnitValue, i)
            [] type.kind = "Int" -> ReadInteger(s, i, IntValue)
            [] type.kind = "Long" -> ReadInteger(s, i, LongValue)
            [] type.kind = "Double" -> ReadDouble(s, i)
            [] type.kind = "String" -> Made(ReadString(s, i), StringValue)
            [] type.kind = "Bool" -> IF Char(s, i) = "t"
                                       THEN At(BoolValue("true"), Expect(s, i, "true"))
                                     ELSE At(BoolValue("false"), Expect(s, i, "false"))
            [] type.kind = "Json" -> Made(ReadValue(s, i, d, MaximumJsonDepth), JsonRuntimeValue)
            [] type.kind = "Model" -> ReadModel(s, i, type.name, d, models)
            [] type.kind = "List" -> ReadList(s, i, type.element, d, models))

\* DirectResponseDecoder::decode
DecodeDirectly(body, type, models) ==
  LET Whole(read) == IF SkipWhitespace(body, read.at) = Len(body) + 1 THEN read.value
                     ELSE Failure("decode")
  IN Whole(ReadTyped(body, 1, type, 0, models))

-----------------------------------------------------------------------------
(* A parsed value (decodeValue).                                           *)

RECURSIVE DecodeValue(_, _, _)

NoFailure(values) == All(values, LAMBDA v : ~IsFailure(v))
DecodeModel(json, name, fields, models) ==
  LET Given(f) == json.entries[CHOOSE e \in GivenEntries(json.entries, f.name) : TRUE].value
      Of(values) == IF ~NoFailure(values) THEN Failure("decode")
                    ELSE ModelValue(name, [k \in 1..Len(fields) |-> JsonEntry(fields[k].name, values[k])])
  IN IF json.kind # "Object" \/ ~Complete(fields, json.entries) THEN Failure("decode")
     ELSE Of([k \in 1..Len(fields) |-> DecodeValue(Given(fields[k]), fields[k].type, models)])

DecodeList(json, element, models) ==
  LET Of(values) == IF NoFailure(values) THEN ListValue(values) ELSE Failure("decode")
  IN IF json.kind # "Array" THEN Failure("decode")
     ELSE Of([i \in 1..Len(json.values) |-> DecodeValue(json.values[i], element, models)])

DecodeInteger(json, Value(_)) ==
  LET Sized(integer) == IF integer.ok THEN Value(integer.number) ELSE Failure("decode")
  IN IF json.kind # "Number" THEN Failure("decode") ELSE Sized(IntegerOf(json.text))

DecodeDouble(json) ==
  IF json.kind = "Number" /\ IsDouble(json.text) THEN DoubleValue(DoubleOf(json.text))
  ELSE Failure("decode")

DecodeValue(json, type, models) ==
  LET Kind(kind, value) == IF json.kind = kind THEN value ELSE Failure("decode")
  IN CASE type.kind = "Unit" -> UnitValue
       [] type.kind = "Int" -> DecodeInteger(json, IntValue)
       [] type.kind = "Long" -> DecodeInteger(json, LongValue)
       [] type.kind = "Double" -> DecodeDouble(json)
       [] type.kind = "String" -> Kind("String", StringValue(json.value))
       [] type.kind = "Bool" -> Kind("Boolean", BoolValue(json.value))
       [] type.kind = "Json" -> JsonRuntimeValue(json)
       [] type.kind = "Model" -> DecodeModel(json, type.name, models[type.name], models)
       [] type.kind = "List" -> DecodeList(json, type.element, models)

\* Through the JSON parser.
DecodeParsed(body, type, models) ==
  LET Of(parsed) == IF parsed.at = 0 THEN Failure("decode")
                    ELSE DecodeValue(parsed.value, type, models)
  IN Of(ParseJson(body, MaximumResponseBytes, MaximumJsonDepth))

\* ResponseDecoder::decode
Decode(body, type, models) ==
  CASE Len(body) > MaximumResponseBytes -> Failure("decode")
    [] Len(body) <= MaximumResponseBytes /\ type.kind = "Unit" -> UnitValue
    [] Len(body) <= MaximumResponseBytes /\ type.kind = "String" -> StringValue(body)
    [] Len(body) <= MaximumResponseBytes /\ type.kind = "Json" -> DecodeParsed(body, type, models)
    [] OTHER -> DecodeDirectly(body, type, models)

-----------------------------------------------------------------------------
(* What decoding promises.                                                 *)

\* A value is one of the type: integers have the width, and a model has its fields, in their
\* order, with values of their types.
RECURSIVE HasType(_, _, _)
HasType(value, type, models) ==
  CASE type.kind \in {"Int", "Long"} -> value.kind = type.kind /\ value.number \in Minimum..Maximum
    [] type.kind = "List" ->
         value.kind = "List" /\ All(value.values, LAMBDA v : HasType(v, type.element, models))
    [] type.kind = "Model" ->
         /\ value.kind = "Model" /\ value.name = type.name
         /\ Len(value.fields) = Len(models[type.name])
         /\ \A k \in 1..Len(value.fields) :
              /\ value.fields[k].key = models[type.name][k].name
              /\ HasType(value.fields[k].value, models[type.name][k].type, models)
    [] OTHER -> value.kind = type.kind
=============================================================================
