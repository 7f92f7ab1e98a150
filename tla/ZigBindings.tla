----------------------------- MODULE ZigBindings -----------------------------
(***************************************************************************)
(* sdk/codegen/generator.go: Zig bindings from an introspection document.  *)
(* For each field of a type the generator writes a method, and decides in  *)
(* four places by the GraphQL type: the type the method declares, the type *)
(* of its parameters, how it writes an argument into the query and how it  *)
(* reads the answer.  The operators below are those decisions; Compiles    *)
(* says what the Zig compiler makes of them together, and Fate what a call *)
(* comes to.                                                               *)
(*                                                                         *)
(* A document maps the name of a type to [kind, fields, inputs, values]; a *)
(* field is [name, args, type], an argument or an input [name, type].  A   *)
(* Zig type is a pair: "one" or "many", and of what.                       *)
(***************************************************************************)
EXTENDS Sequences, FiniteSets, SequencesExt

CONSTANTS
  IdScalars,    \* scalars whose name ends in ID, such as ContainerID, but ID itself
  HiddenTypes,  \* types whose name begins with an underscore
  ZigKeywords,  \* the generator's list of words that are no identifiers in Zig
  ZigReserved   \* what the list lacks: keywords such as orelse, primitives such as type and u8

---------------------------------------------------------------------------
(* References to types.  A document may stop short of the name: Missing.   *)
Missing        == [kind |-> "", name |-> ""]
Named(k, n)    == [kind |-> k, name |-> n]
NonNull(r)     == [kind |-> "NON_NULL", of |-> r]
ListOf(r)      == [kind |-> "LIST", of |-> r]

Strip(r)     == IF r.kind = "NON_NULL" THEN r.of ELSE r
IsNonNull(r) == r.kind = "NON_NULL"
IsList(r)    == Strip(r).kind = "LIST"
Elem(r)      == Strip(Strip(r).of)

IsVoid(r)         == ~ IsList(r) /\ Strip(r).name = "Void"
IsScalarReturn(r) == IsList(r) \/ Strip(r).kind = "SCALAR"

---------------------------------------------------------------------------
(* []u8 and []const u8 are both "text". *)
Numbers == {"Int", "Float"}

ZigScalar(name) ==
  CASE name = "Int"     -> "int"
    [] name = "Float"   -> "float"
    [] name = "Boolean" -> "bool"
    [] OTHER            -> "text"

ZigScalarType(name) ==
  IF name = "Void" THEN "void" ELSE IF name \in IdScalars THEN name ELSE ZigScalar(name)

ZigScalarArgType(name) == IF name = "Void" THEN "void" ELSE ZigScalar(name)

ZigElemType(e, named) ==
  IF e.kind = "SCALAR" THEN ZigScalar(e.name) ELSE IF e.kind \in named THEN e.name ELSE "text"

ZigReturnType(r) ==
  IF IsList(r) THEN <<"many", ZigElemType(Elem(r), {"OBJECT"})>>
  ELSE LET s == Strip(r)
       IN <<"one", IF s.kind = "SCALAR" THEN ZigScalarType(s.name)
                   ELSE IF s.kind \in {"OBJECT", "ENUM", "INTERFACE"} THEN s.name ELSE "text">>

ZigArgType(r) ==
  IF IsList(r) THEN <<"many", ZigElemType(Elem(r), {"OBJECT", "INPUT_OBJECT"})>>
  ELSE LET s == Strip(r)
       IN <<"one", IF s.kind = "SCALAR" THEN ZigScalarArgType(s.name)
                   ELSE IF s.kind \in {"OBJECT", "ENUM", "INTERFACE", "INPUT_OBJECT"}
                        THEN s.name ELSE "text">>

---------------------------------------------------------------------------
(* Names.  "@" stands for the quotes around a keyword. *)
ZigEscapeName(n) == IF n \in ZigKeywords THEN "@" \o n ELSE n

StructFields == {"allocator", "arena", "selection", "gql"}

FieldNameSet(type) == {f.name : f \in type.fields} \union StructFields \union {"self"}

EscapeArgName(n, taken) ==
  IF n \in ZigKeywords THEN "@" \o n ELSE IF n \in taken THEN n \o "_" ELSE n

---------------------------------------------------------------------------
(* How the body of a method gets its value: the helper that sends the query and
   reads the answer, or "handle" for an object, which sends nothing yet.    *)
(* Slip: the lists of floats are read by the helper for integers.          *)
ListHelperNoFloats(e) ==
  IF e.kind # "SCALAR" THEN "stringList"
  ELSE CASE e.name \in Numbers -> "intList"
         [] e.name = "Boolean" -> "boolList"
         [] OTHER              -> "stringList"

ListHelper(e) ==
  IF e.kind # "SCALAR" THEN "stringList"
  ELSE CASE e.name = "Int"     -> "intList"
         [] e.name = "Float"   -> "floatList"
         [] e.name = "Boolean" -> "boolList"
         [] OTHER              -> "stringList"

HelperOf(r) ==
  IF IsVoid(r) THEN "discard"
  ELSE IF ~ IsScalarReturn(r) THEN "handle"
  ELSE IF IsList(r) THEN ListHelper(Elem(r))
  ELSE LET n == Strip(r).name
       IN CASE n = "Int"        -> "int"
            [] n = "Boolean"    -> "bool"
            [] n = "Float"      -> "float"
            [] n \in IdScalars  -> "wrapped"
            [] OTHER            -> "string"

(* How an argument is written into the query. *)
ListForm(e) ==
  IF e.kind = "SCALAR" /\ e.name \in Numbers THEN "numbers" ELSE "texts"

FormOf(r) ==
  IF IsList(r) THEN ListForm(Elem(r))
  ELSE LET s == Strip(r)
       IN CASE s.kind = "SCALAR" /\ s.name \in Numbers   -> "number"
            [] s.kind = "SCALAR" /\ s.name = "Boolean"   -> "word"
            [] s.kind = "ENUM"                           -> "word"
            [] s.kind \in {"OBJECT", "INTERFACE"}        -> "id"
            [] s.kind = "INPUT_OBJECT"                   -> "fields"
            [] OTHER                                     -> "text"

Optional(r) == ~ IsNonNull(r) /\ Strip(r).kind # ""

WriteArg(arg, taken) ==
  [name |-> EscapeArgName(arg.name, taken), type |-> ZigArgType(arg.type),
   optional |-> Optional(arg.type), form |-> FormOf(arg.type), input |-> Strip(arg.type)]

(* The names a body declares.  Writing an argument n takes names made of n, such
   as n_str, and n_val or n__val if it may be left out, and fixed names in blocks:
   in the loop over a list of numbers, and for each field of an input object.  *)
LocalSuffixes(form) ==
  CASE form = "numbers"            -> {"_list"}   [] form = "texts"  -> {"_lit"}
    [] form \in {"number", "word"} -> {"_str"}    [] form = "fields" -> {"_buf"}
    [] form = "id"                 -> {"_id", "_id_lit"}
    [] OTHER                       -> {}

ArgLocals(arg, taken) ==
  {arg.name \o x : x \in LocalSuffixes(FormOf(arg.type))}
    \union (IF Optional(arg.type) THEN {EscapeArgName(arg.name, taken) \o "_val"} ELSE {})

BlockLocals(doc, arg) ==
  CASE FormOf(arg.type) = "numbers" -> {"item", "i", "num_str"}
    [] FormOf(arg.type) = "fields" /\ Strip(arg.type).name \in DOMAIN doc ->
         {IF FormOf(f.type) = "number" THEN "num_str" ELSE "q" :
            f \in {g \in doc[Strip(arg.type).name].inputs : FormOf(g.type) # "word"}}
    [] OTHER -> {}

(* id and sync of a type with a scalar for its ids are written by themselves. *)
IsOwnId(doc, t, f) == f.name \in {"id", "sync"} /\ f.args = <<>> /\ (t \o "ID") \in DOMAIN doc

Locals(doc, t, f) ==
  {"self"} \union
    (IF IsOwnId(doc, t, f) THEN {"s0", "raw"}
     ELSE {"cur"} \union (IF HelperOf(f.type) = "wrapped" THEN {"raw"} ELSE {})
            \union UNION {ArgLocals(f.args[i], FieldNameSet(doc[t])) : i \in DOMAIN f.args})

Blocks(doc, f) == UNION {BlockLocals(doc, f.args[i]) : i \in DOMAIN f.args}

WriteMethod(doc, t, f) ==
  [on      |-> t,
   field   |-> f.name,
   name    |-> ZigEscapeName(f.name),
   params  |-> [i \in DOMAIN f.args |-> WriteArg(f.args[i], FieldNameSet(doc[t]))],
   locals  |-> Locals(doc, t, f),
   blocks  |-> Blocks(doc, f),
   returns |-> IF IsOwnId(doc, t, f) THEN <<"one", t \o "ID">> ELSE ZigReturnType(f.type),
   helper  |-> IF IsOwnId(doc, t, f) THEN "wrapped" ELSE HelperOf(f.type)]

---------------------------------------------------------------------------
(* The declarations of the file, by kind. *)
OfKind(doc, kind)  == {t \in DOMAIN doc : doc[t].kind = kind}
IdTypes(doc)       == OfKind(doc, "SCALAR") \intersect (IdScalars \union {"ID"})
EnumTypes(doc)     == {t \in OfKind(doc, "ENUM") : doc[t].values # {}}
InputTypes(doc)    == OfKind(doc, "INPUT_OBJECT")
ObjectTypes(doc)   == {t \in OfKind(doc, "OBJECT") \union OfKind(doc, "INTERFACE") : doc[t].fields # {}}

(* Values of enums and fields of inputs are written as they are. *)
Words(doc) ==
  UNION {doc[t].values : t \in EnumTypes(doc)}
    \union UNION {{f.name : f \in doc[t].inputs} : t \in InputTypes(doc)}

Generate(doc) ==
  [ids     |-> IdTypes(doc) \union {"Platform"},
   enums   |-> EnumTypes(doc),
   inputs  |-> [t \in InputTypes(doc) |-> doc[t].inputs],
   objects |-> ObjectTypes(doc),
   words   |-> Words(doc),
   methods |-> UNION {{WriteMethod(doc, t, f) : f \in doc[t].fields} : t \in ObjectTypes(doc)}]

Shown(doc)            == [t \in DOMAIN doc \ HiddenTypes |-> doc[t]]
GenerateZigTypes(doc) == Generate(Shown(doc))

---------------------------------------------------------------------------
(* The Zig compiler.  A name declared twice in a file, a struct or a body is an
   error of the file, and so is a parameter or local that hides another name around
   it; the capture @"x"_val is no name.  Errors of types are found only in
   methods that are used.  Parses is on the safe side where it would matter in
   which order arguments come, whether a type uses a name of the file's, or
   whether a primitive names an enum's value or an input's field.             *)
MethodNames(b, t) == {m.name : m \in {n \in b.methods : n.on = t}}

(* The file's own declarations, and the names in its helpers. *)
Imports == {"std", "qb", "gql", "errs", "Selection", "GraphQLClient"}
Helpers ==
  {"executeScalarString", "executeScalarInt", "executeScalarBool", "executeScalarFloat",
   "executeScalarStringList", "executeScalarIntList", "executeScalarBoolList",
   "executeScalarFloatList", "executeObjectList", "walkToStringLeaf", "walkToArrayLeaf"}
HelperLocals ==
  {"self", "allocator", "arena", "sel", "client", "Handle", "query_str", "body", "parsed", "root",
   "leaf", "arr", "out", "item", "i", "s", "n", "b", "f", "v", "a", "o", "it", "entry", "obj",
   "id_str", "load_sel"}

TypeNames(b) == b.ids \union b.enums \union DOMAIN b.inputs \union b.objects

FileNames(b) == TypeNames(b) \union Imports \union Helpers \union ZigReserved

DeclaresTypes(b) ==
  /\ TypeNames(b) \intersect
       (Imports \union Helpers \union HelperLocals \union ZigReserved \union ZigKeywords) = {}
  /\ "Platform" \notin b.enums \union DOMAIN b.inputs \union b.objects
  /\ b.words \intersect (ZigReserved \union ZigKeywords) = {}

Parses(b) ==
  /\ DeclaresTypes(b)
  /\ \A m \in b.methods :
       LET around == MethodNames(b, m.on) \union FileNames(b)
       IN /\ m.name \notin StructFields \union FileNames(b)
          /\ (m.locals \union m.blocks) \intersect around = {}
          /\ m.locals \intersect m.blocks = {}
          /\ \A i \in DOMAIN m.params :
               LET p == m.params[i]
               IN /\ p.name \notin around \union m.locals \union m.blocks
                  /\ ~ (p.optional /\ \E k \in ZigKeywords : p.name = ZigEscapeName(k))
          /\ \A i, j \in DOMAIN m.params : i # j => m.params[i].name # m.params[j].name

Plain == {"text", "int", "float", "bool", "void"}

Declared(b, z) ==
  z[2] \in Plain \union TypeNames(b)

(* What a helper hands to return. *)
Yields(helper) ==
  CASE helper = "string"     -> <<"one", "text">>   [] helper = "stringList" -> <<"many", "text">>
    [] helper = "int"        -> <<"one", "int">>    [] helper = "intList"    -> <<"many", "int">>
    [] helper = "float"      -> <<"one", "float">>  [] helper = "floatList"  -> <<"many", "float">>
    [] helper = "bool"       -> <<"one", "bool">>   [] helper = "boolList"   -> <<"many", "bool">>
    [] OTHER                 -> <<"one", "void">>

ReturnFits(b, m) ==
  CASE m.helper = "handle"  -> m.returns[1] = "one" /\ m.returns[2] \in b.objects
    [] m.helper = "wrapped" -> m.returns[1] = "one" /\ m.returns[2] \in b.ids
    [] OTHER                -> m.returns = Yields(m.helper)

(* An input object is written field by field: numbers with a format that prints
   its own braces and no number, which is an error, all but words as text.  *)
InputFits(inputs) ==
  \A f \in inputs :
    LET s == Strip(f.type)
    IN s.kind = "ENUM" \/ (s.kind # "LIST" /\ ~ (s.kind = "SCALAR" /\ s.name \in Numbers)
                           /\ ZigArgType(f.type)[2] \in {"text", "bool"})

ArgFits(b, p) ==
  CASE p.form = "texts"   -> p.type = <<"many", "text">>
    [] p.form = "text"    -> p.type[2] = "text"
    [] p.form = "numbers" -> p.type \in {<<"many", "int">>, <<"many", "float">>}
    [] p.form = "fields"  -> p.input.name \in DOMAIN b.inputs /\ InputFits(b.inputs[p.input.name])
    [] p.form = "id"      -> <<"one", p.input.name \o "ID">> \in
                               {m.returns : m \in {n \in b.methods : n.on = p.input.name /\ n.name = "id"}}
    [] OTHER              -> TRUE

Compiles(b, m) ==
  /\ Parses(b)
  /\ Declared(b, m.returns) /\ ReturnFits(b, m)
  /\ \A i \in DOMAIN m.params : Declared(b, m.params[i].type) /\ ArgFits(b, m.params[i])

---------------------------------------------------------------------------
(* The engine: whether it takes an argument of type r written in a form, and in
   which JSON types it answers a field of type r.                           *)
TakesElem(s) ==
  CASE s.kind = "SCALAR" /\ s.name \in Numbers -> "number"
    [] s.kind = "SCALAR" /\ s.name = "Boolean" -> "word"
    [] s.kind = "ENUM"                         -> "word"
    [] s.kind = "INPUT_OBJECT"                 -> "fields"
    [] OTHER                                   -> "text"

TakesList(e) ==
  CASE TakesElem(e) = "number" -> "numbers"
    [] TakesElem(e) = "text"   -> "texts"
    [] OTHER                   -> "another list"

Takes(r, form) ==
  IF IsList(r) THEN form = TakesList(Elem(r)) ELSE form = TakesElem(Strip(r))

Json(s) ==
  CASE s.kind \in {"OBJECT", "INTERFACE"}       -> "refused"
    [] s.kind = "SCALAR" /\ s.name = "Int"     -> "integer"
    [] s.kind = "SCALAR" /\ s.name = "Float"   -> "float"
    [] s.kind = "SCALAR" /\ s.name = "Boolean" -> "bool"
    [] s.kind = "SCALAR" /\ s.name = "Void"    -> "null"
    [] OTHER                                   -> "string"

(* Null comes for the field, or within the list, where the schema allows it. *)
Nulls(r) ==
  (IF IsNonNull(r) THEN {} ELSE {<<"one", "null">>})
    \union (IF IsList(r) /\ ~ IsNonNull(Strip(r).of) THEN {<<"many", "null">>} ELSE {})

Answers(r) ==
  (IF IsList(r) THEN {<<"many", Json(Elem(r))>>} ELSE {<<"one", Json(Strip(r))>>}) \union Nulls(r)

(* The leaf an answer is read from: a JSON string, or an array.  *)
StringLeaf(answer)       == answer = <<"one", "string">>
ArrayLeaf(answer, elems) == answer[1] = "many" /\ answer[2] \in elems

(* The helpers: a scalar is read only out of a JSON string, whatever it is to
   become, an element of a list also out of its own JSON type.  A null in a list
   fails the whole list.                                                    *)
HelperReads(helper, answer) ==
  CASE helper \in {"string", "int", "float", "bool", "wrapped", "discard"} -> StringLeaf(answer)
    [] helper = "stringList" -> ArrayLeaf(answer, {"string"})
    [] helper = "intList"    -> ArrayLeaf(answer, {"integer", "string"})
    [] helper = "boolList"   -> ArrayLeaf(answer, {"bool", "string"})
    [] helper = "floatList"  -> ArrayLeaf(answer, {"float", "integer", "string"})
    [] OTHER                 -> FALSE

(* What a call of m with all its arguments comes to when its field is f and the
   engine answers a.  A handle's arguments are refused with the first query
   that is sent through it.                                                 *)
Fate(m, f, a) ==
  IF \E i \in DOMAIN f.args : ~ Takes(f.args[i].type, m.params[i].form) THEN "refused"
  ELSE IF m.helper = "handle" THEN "value"
  ELSE IF a[2] = "refused" THEN "refused"
  ELSE IF HelperReads(m.helper, a) THEN "value" ELSE "InvalidEnvelope"
===========================================================================
