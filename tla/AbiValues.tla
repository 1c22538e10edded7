------------------------------- MODULE AbiValues --------------------------------
(***************************************************************************)
(* Values at the C ABI (CrossaAbiValueAccess and the accessors of          *)
(* bindings/shared-abi/CrossaAbi.cpp): what the arguments of a call become *)
(* and what a platform reads of a result.  NativeRuntime has the handles;  *)
(* here an accessor is given the value its handle stands for, and pointers *)
(* are not null.                                                           *)
(***************************************************************************)
EXTENDS RuntimeValue

CONSTANTS
  MaximumAbiInt,        \* of an Int at the ABI: int32_t, where the runtime has int64_t
  MaximumArgumentCount, \* CrossaAbiResourceLimits
  MaximumPathCount,
  MaximumStringBytes

ASSUME AbiIntsFit == MaximumAbiInt \in 1..Maximum
ASSUME AbiLimits ==
  MaximumArgumentCount \in Nat /\ MaximumPathCount \in Nat /\ MaximumStringBytes \in Nat

\* What an accessor answers: CrossaStatusOk with a value, or another status.
Ok(value) == [status |-> "Ok", value |-> value]
Refused(status) == [status |-> status]
IsOk(answer) == answer.status = "Ok"

FitsAbiInt(n) == n \in (-MaximumAbiInt - 1)..MaximumAbiInt

-----------------------------------------------------------------------------
(* Arguments.                                                              *)

\* An argument has the shape of the value it stands for; a Double is finite by its model.
IsArgument(a) ==
  \/ a.kind = "Int" /\ FitsAbiInt(a.number)
  \/ a.kind \in {"Long", "Double", "Bool"}
  \/ a.kind = "String" /\ Len(a.text) <= MaximumStringBytes

\* convertArguments: all of them become values, or the call is refused.
ConvertArguments(arguments) ==
  IF Len(arguments) <= MaximumArgumentCount /\ All(arguments, IsArgument)
    THEN Ok(arguments) ELSE Refused("InvalidArgument")

-----------------------------------------------------------------------------
(* Paths.                                                                  *)

FieldSegment(index) == [kind |-> "Field", index |-> index]
ElementSegment(index) == [kind |-> "ListElement", index |-> index]

\* Where a path may stand: on a runtime value, or inside of the JSON of one.
InJson(json) == [inJson |-> TRUE, value |-> json]
Standing(value) ==
  IF value.kind = "Json" THEN InJson(value.json) ELSE [inJson |-> FALSE, value |-> value]

\* What a segment of this kind chooses from.
Below(at, segment) ==
  LET value == at.value
      Has(inJson, kind, container) ==
        at.inJson = inJson /\ segment = kind /\ value.kind = container
  IN CASE Has(FALSE, "Field", "Model") ->
            [k \in DOMAIN value.fields |-> Standing(value.fields[k].value)]
       [] Has(FALSE, "ListElement", "List") ->
            [k \in DOMAIN value.values |-> Standing(value.values[k])]
       [] Has(TRUE, "Field", "Object") -> [k \in DOMAIN value.entries |-> InJson(value.entries[k].value)]
       [] Has(TRUE, "ListElement", "Array") -> [k \in DOMAIN value.values |-> InJson(value.values[k])]
       [] OTHER -> <<>>

RECURSIVE Walk(_, _)
Walk(at, path) ==
  LET below == Below(at, Head(path).kind)
  IN CASE path = <<>> -> Ok(at)
       [] path # <<>> /\ Head(path).kind \notin {"Field", "ListElement"} -> Refused("InvalidArgument")
       [] path # <<>> /\ Head(path).kind \in {"Field", "ListElement"} ->
            IF Head(path).index < Len(below) THEN Walk(below[Head(path).index + 1], Tail(path))
            ELSE Refused("OutOfBounds")

\* Faulty: the longest path is one too many.
AtLimit(path) == Len(path) >= MaximumPathCount
TooLong(path) == Len(path) > MaximumPathCount

ResolvePath(result, path) ==
  IF TooLong(path) THEN Refused("InvalidArgument") ELSE Walk(Standing(result), path)

-----------------------------------------------------------------------------
(* Accessors of a value.                                                   *)

\* A scalar of the kind asked for, or the size of a list.
Typed(value, kind) ==
  CASE value.kind # kind -> Refused("TypeMismatch")
    [] value.kind = kind /\ kind = "Int" ->
         IF FitsAbiInt(value.number) THEN Ok(value) ELSE Refused("OutOfBounds")
    [] value.kind = kind /\ kind = "List" -> Ok(Len(value.values))
    [] OTHER -> Ok(value)

\* crossaGetResultKind, crossaGetListSize and crossaGetResultInt and its kin
GetResultKind(result) == result.kind
GetResult(result, kind) == Typed(result, kind)

\* crossaGetRootModel and crossaGetListModel: 1 for the root, the position in a list.
GetRootModel(result) == IF result.kind = "Model" THEN Ok(1) ELSE Refused("TypeMismatch")
GetListModel(result, index) ==
  CASE result.kind # "List" -> Refused("TypeMismatch")
    [] result.kind = "List" /\ index < Len(result.values) /\ result.values[index + 1].kind = "Model" ->
         Ok(index + 1)
    [] OTHER -> Refused("OutOfBounds")

\* findModel: the models a handle may stand for, one or none.
FindModel(result, model) ==
  IF result.kind = "Model" THEN {result : m \in {model} \cap {1}}
  ELSE IF result.kind = "List" THEN {result.values[m] : m \in {model} \cap DOMAIN result.values}
  ELSE {}
FindField(result, model, field) ==
  {m.fields[field + 1].value :
     m \in {m \in FindModel(result, model) : m.kind = "Model" /\ field < Len(m.fields)}}

\* crossaGetModelInt and its kin
GetModel(result, model, field, kind) ==
  LET found == FindField(result, model, field)
  IN IF found = {} THEN Refused("OutOfBounds") ELSE Typed(CHOOSE v \in found : TRUE, kind)

\* crossaGetPathKind
GetPathKind(result, path) ==
  LET resolved == ResolvePath(result, path)
  IN CASE ~IsOk(resolved) -> resolved
       [] IsOk(resolved) /\ resolved.value.inJson -> Ok("Json")
       [] OTHER -> Ok(resolved.value.value.kind)

\* crossaGetPathInt and its kin, and crossaGetPathListSize: findPath knows no JSON.
GetPath(result, path, kind) ==
  LET resolved == ResolvePath(result, path)
  IN IF IsOk(resolved) /\ ~resolved.value.inJson THEN Typed(resolved.value.value, kind)
     ELSE Refused("OutOfBounds")

\* requireJson
RequireJson(result, path) ==
  LET resolved == ResolvePath(result, path)
  IN CASE ~IsOk(resolved) -> resolved
       [] IsOk(resolved) /\ ~resolved.value.inJson -> Refused("TypeMismatch")
       [] OTHER -> Ok(resolved.value.value)

GetPathJsonKind(result, path) ==
  LET json == RequireJson(result, path)
  IN IF IsOk(json) THEN Ok(json.value.kind) ELSE json

\* crossaGetPathJsonBool, -Number and -String
GetPathJson(result, path, kind) ==
  LET json == RequireJson(result, path)
  IN IF IsOk(json) /\ json.value.kind # kind THEN Refused("TypeMismatch") ELSE json

JsonItems(json) ==
  CASE json.kind = "Array" -> json.values
    [] json.kind = "Object" -> json.entries
    [] OTHER -> <<>>
GetPathJsonSize(result, path) ==
  LET json == RequireJson(result, path)
  IN CASE ~IsOk(json) -> json
       [] IsOk(json) /\ json.value.kind \notin {"Array", "Object"} -> Refused("TypeMismatch")
       [] OTHER -> Ok(Len(JsonItems(json.value)))
GetPathJsonKey(result, path, field) ==
  LET json == RequireJson(result, path)
  IN CASE ~IsOk(json) -> json
       [] IsOk(json) /\ json.value.kind # "Object" -> Refused("TypeMismatch")
       [] OTHER -> IF field < Len(JsonItems(json.value)) THEN Ok(JsonItems(json.value)[field + 1].key)
                   ELSE Refused("OutOfBounds")

-----------------------------------------------------------------------------
(* A platform that knows the type of a result puts it together from what   *)
(* it reads.  What it cannot read is a failure in its place.               *)

Got(answer) == IF IsOk(answer) THEN answer.value ELSE Failure(answer.status)
Elements(path, size) == [i \in 1..size |-> Append(path, ElementSegment(i - 1))]
Fields(path, size) == [i \in 1..size |-> Append(path, FieldSegment(i - 1))]

RECURSIVE ReadJsonByPath(_, _)
ReadJsonByPath(result, path) ==
  LET kind == GetPathJsonKind(result, path)
      size == GetPathJsonSize(result, path).value
  IN CASE ~IsOk(kind) -> Failure(kind.status)
       [] IsOk(kind) /\ kind.value = "Null" -> JsonNull
       [] IsOk(kind) /\ kind.value = "Array" ->
            JsonArray([i \in 1..size |-> ReadJsonByPath(result, Elements(path, size)[i])])
       [] IsOk(kind) /\ kind.value = "Object" ->
            JsonObject([i \in 1..size |-> JsonEntry(Got(GetPathJsonKey(result, path, i - 1)),
                                                    ReadJsonByPath(result, Fields(path, size)[i]))])
       [] OTHER -> Got(GetPathJson(result, path, kind.value))

RECURSIVE ReadByPath(_, _, _, _)
ReadByPath(result, path, type, models) ==
  LET kind == GetPathKind(result, path)
      fields == models[type.name]
      size == GetPath(result, path, "List")
  IN CASE ~IsOk(kind) -> Failure(kind.status)
       [] IsOk(kind) /\ type.kind = "Unit" -> [kind |-> kind.value]
       [] IsOk(kind) /\ type.kind = "Json" -> JsonRuntimeValue(ReadJsonByPath(result, path))
       [] IsOk(kind) /\ type.kind = "Model" ->
            ModelValue(type.name, [k \in DOMAIN fields |->
              JsonEntry(fields[k].name,
                        ReadByPath(result, Fields(path, Len(fields))[k], fields[k].type, models))])
       [] IsOk(kind) /\ type.kind = "List" ->
            IF ~IsOk(size) THEN Failure(size.status)
            ELSE ListValue([i \in 1..size.value |->
                   ReadByPath(result, Elements(path, size.value)[i], type.element, models)])
       [] OTHER -> Got(GetPath(result, path, type.kind))

\* Through model handles: the scalars of a root, of a model or of the models of a list.
ScalarKinds == {"Int", "Long", "Double", "String", "Bool"}
HasHandles(type) ==
  \/ type.kind \in ScalarKinds \cup {"Unit", "Model"}
  \/ type.kind = "List" /\ type.element.kind = "Model"
ReadFields(result, model, name, models) ==
  ModelValue(name, [k \in DOMAIN models[name] |->
    JsonEntry(models[name][k].name,
      IF models[name][k].type.kind \in ScalarKinds
        THEN Got(GetModel(result, model, k - 1, models[name][k].type.kind))
      ELSE Failure("unread"))])
ReadByHandle(result, type, models) ==
  CASE type.kind = "Unit" -> [kind |-> GetResultKind(result)]
    [] type.kind \in ScalarKinds -> Got(GetResult(result, type.kind))
    [] type.kind = "Model" -> ReadFields(result, GetRootModel(result).value, type.name, models)
    [] type.kind = "List" ->
         ListValue([i \in 1..GetResult(result, "List").value |->
                      ReadFields(result, GetListModel(result, i - 1).value, type.element.name, models)])

\* What there is to read: the value, but for an Int that the ABI is too narrow for.
RECURSIVE Delivered(_)
Delivered(value) ==
  CASE value.kind = "Int" /\ ~FitsAbiInt(value.number) -> Failure("OutOfBounds")
    [] value.kind = "Model" ->
         ModelValue(value.name, [k \in DOMAIN value.fields |->
           JsonEntry(value.fields[k].key, Delivered(value.fields[k].value))])
    [] value.kind = "List" -> ListValue([i \in DOMAIN value.values |-> Delivered(value.values[i])])
    [] OTHER -> value

\* ... and what a model handle gives no access to.
RECURSIVE OnlyScalars(_)
OnlyScalars(value) ==
  CASE value.kind = "Model" ->
         ModelValue(value.name, [k \in DOMAIN value.fields |->
           IF value.fields[k].value.kind \in ScalarKinds \cup {"Failure"} THEN value.fields[k]
           ELSE JsonEntry(value.fields[k].key, Failure("unread"))])
    [] value.kind = "List" -> ListValue([i \in DOMAIN value.values |-> OnlyScalars(value.values[i])])
    [] OTHER -> value

\* A platform reads the whole of a value and nothing else, by paths and by handles.
ReadsBack(value, type, models) ==
  /\ ReadByPath(value, <<>>, type, models) = Delivered(value)
  /\ HasHandles(type) => ReadByHandle(value, type, models) = OnlyScalars(Delivered(value))
=============================================================================
