------------------------------ MODULE SdkModule ------------------------------
(***************************************************************************)
(* A module in Zig from its first file to a call: sdk/main.go,             *)
(* runtimeutil/build.go, codegen/stub.go and codegen/gen_command.go, over  *)
(* the bindings of ZigBindings.                                            *)
(*                                                                         *)
(* The context is a tree with two directories, the root and one below it;  *)
(* the module's source is in one of them.  The engine calls InitModule,    *)
(* InitClient and Codegen, which change files, and ModuleRuntime, which    *)
(* builds a copy of the tree in a container.  The maintainers regenerate   *)
(* the bindings in the SDK's library.  A program calls one method of them. *)
(***************************************************************************)
EXTENDS ZigBindings, Naturals

CONSTANTS
  Schemas,   \* what the engine may serve: [doc, type, field], the field that is called
  MaxEdits   \* bound of the model: changes to the tree

(* What a GraphQL server guarantees of a field: the types it names are in the
   document, of the kind it says, and none hidden by an underscore.         *)
Resolved(doc, r) ==
  \/ IsList(r)
  \/ LET s == Strip(r)
     IN /\ s.kind \in {"OBJECT", "INTERFACE"} => s.name \in ObjectTypes(doc)
        /\ s.kind = "ENUM" => s.name \in EnumTypes(doc)
        /\ s.kind = "INPUT_OBJECT" => s.name \in InputTypes(doc)
        /\ s.kind = "SCALAR" /\ s.name \in IdScalars => s.name \in IdTypes(doc)
        /\ s.name = "Void" => s.kind = "SCALAR"

(* The engine's own conventions: only scalars of a name in ID end so, and id
   and sync answer one.                                                     *)
WellFormed(s) ==
  LET shown == Shown(s.doc)
      f     == s.field
  IN /\ s.type \in ObjectTypes(shown)
     /\ f \in s.doc[s.type].fields
     /\ \A g \in s.doc[s.type].fields : g.name = f.name => g = f
     /\ Resolved(shown, f.type)
     /\ \A i \in DOMAIN f.args : Resolved(shown, f.args[i].type)
     /\ (s.type \o "ID") \in DOMAIN shown => (s.type \o "ID") \in IdTypes(shown) \intersect IdScalars
     /\ f.name \in {"id", "sync"} /\ f.args = <<>> => ~ IsList(f.type)

(* The names of a document's methods and arguments, and the others in its file. *)
FieldNames(doc, t) == {f.name : f \in doc[t].fields}
ArgNames(f)        == {f.args[i].name : i \in DOMAIN f.args}

NamesOf(doc) ==
  StructFields \union FileNames(Generate(doc)) \union
    UNION {FieldNames(doc, t)
             \union UNION {ArgNames(f) \union Locals(doc, t, f) \union Blocks(doc, f) : f \in doc[t].fields} :
           t \in ObjectTypes(doc)}

(* What an escape writes is none of the names, and tells them apart. *)
EscapesTell(names) ==
  /\ \A k \in ZigKeywords : \A n \in names \union ZigKeywords :
       /\ "@" \o k # n /\ "@" \o k # n \o "_"
       /\ n \in ZigKeywords \ {k} => "@" \o k # "@" \o n
  /\ \A m, n \in names : m # n => m \o "_" # n \o "_"

ASSUME SchemasAssumption ==
  /\ \A s \in Schemas : WellFormed(s) /\ EscapesTell(NamesOf(Shown(s.doc)))
  /\ IdScalars \intersect (Numbers \union {"Boolean", "Void"}) = {}

VARIABLES
  schema,    \* the engine's
  subpath,   \* SourceSubpath of the module, as the engine writes it
  tree,      \* the files of each directory
  lib,       \* gen.zig of the SDK's library
  runtime,   \* the last ModuleRuntime: where, what and with which library it built, or why not
  call,      \* the last call: what came of it, and the answer
  edits      \* changes so far

sdkVars == <<schema, subpath, tree, lib, runtime, call, edits>>

Dirs     == {".", "sub"}
NoFiles  == [build |-> "none", main |-> "none", gen |-> "none", vendored |-> {}]
NoResult == [dir |-> "none", result |-> "none", library |-> {}]
NoCall   == [fate |-> "none", answer |-> <<"one", "none">>]

---------------------------------------------------------------------------
(* Where the two sides look for the module's directory: filepath.Join of the
   subpath and a file, and the candidates of the build script.              *)
JoinDir(s) == IF s \in {"", ".", "./", "/"} THEN "." ELSE "sub"

NormalizeSubpath(s) == IF s \in {"", ".", "./", "/"} THEN "." ELSE "sub"

(* Slip: the root is tried first.                                          *)
CandidatesRootFirst(s) ==
  IF NormalizeSubpath(s) = "." THEN <<".">> ELSE <<".", NormalizeSubpath(s)>>

Candidates(s) ==
  IF NormalizeSubpath(s) = "." THEN <<".">> ELSE <<NormalizeSubpath(s), ".">>

Home == NormalizeSubpath(subpath)

---------------------------------------------------------------------------
(* An introspection document of two levels of nesting, like the one in the
   repository: the name of what is in a list is cut off.                    *)
CutType(r) ==
  IF "of" \notin DOMAIN r THEN r
  ELSE [kind |-> r.kind,
        of   |-> IF "of" \in DOMAIN r.of THEN [kind |-> r.of.kind, of |-> Missing] ELSE r.of]

CutArgs(args) == [i \in DOMAIN args |-> [args[i] EXCEPT !.type = CutType(@)]]

CutDocument(doc) ==
  [t \in DOMAIN doc |->
     [doc[t] EXCEPT !.fields = {[f EXCEPT !.type = CutType(@), !.args = CutArgs(@)] : f \in doc[t].fields}]]

Documents == {schema.doc, CutDocument(schema.doc)}

Edit(d, files) ==
  /\ edits < MaxEdits /\ edits' = edits + 1
  /\ tree' = [tree EXCEPT ![d] = files]
  /\ runtime' = NoResult /\ call' = NoCall
  /\ UNCHANGED <<schema, subpath, lib>>

(* A directory given to InitModule or InitClient gets all files of a new module
   or client, over those it has; a client also a copy of the library as it is. *)
InitModule ==
  \E d \in Dirs :
    Edit(d, [tree[d] EXCEPT !.build = "module", !.main = "module", !.gen = "shim"])

InitClient ==
  \E d \in Dirs :
    Edit(d, [build |-> "client", main |-> "client", gen |-> "shim", vendored |-> {lib}])

(* The module's author writes main.zig, which may import the bindings of
   internal/dagger, and at the root there may be another project.           *)
UserEdits ==
  \/ \E m \in {"module", "imports gen"} : Edit(Home, [tree[Home] EXCEPT !.main = m])
  \/ /\ Home # "."
     /\ \E b \in {"own", "own module-runtime"} :
          Edit(".", [tree["."] EXCEPT !.build = b, !.main = "own"])

(* `dagger develop`.  Without introspection the bindings are the shim; an error
   in reading or parsing the document changes nothing.                      *)
Codegen ==
  \E introspection \in {"none", "document"} :
    LET d   == JoinDir(subpath)
        gen == IF introspection = "none" THEN "shim" ELSE "typed"
    IN Edit(d, [tree[d] EXCEPT !.build = "module", !.gen = gen])

(* gen_command.go: new bindings for the library, from a document. *)
Regenerate ==
  /\ \E doc \in Documents : lib' = GenerateZigTypes(doc)
  /\ runtime' = NoResult /\ call' = NoCall
  /\ UNCHANGED <<schema, subpath, tree, edits>>

---------------------------------------------------------------------------
(* The build script takes the first candidate with a build.zig.  The bindings
   from a document import files that are only in the library, so that a module
   cannot import them; the shim it can.  A project of the user's own brings its
   own main, and an executable that may be called otherwise.                *)
BuildDir ==
  LET first == SelectInSeq(Candidates(subpath), LAMBDA d : tree[d].build # "none")
  IN IF first = 0 THEN "none" ELSE Candidates(subpath)[first]

Method(b) == CHOOSE m \in b.methods : m.on = schema.type /\ m.field = schema.field.name

CompilesMain(files, b) ==
  CASE files.main = "none"        -> FALSE
    [] files.main = "client"      -> Parses(b)
    [] files.main = "imports gen" -> files.gen = "shim" /\ Compiles(b, Method(b))
    [] files.main = "module"      -> Compiles(b, Method(b))
    [] OTHER                      -> TRUE

Built(files, b) ==
  IF ~ CompilesMain(files, b) THEN "compile error"
  ELSE IF files.build \in {"module", "own module-runtime"} THEN "module" ELSE "no entrypoint"

(* The link to the mounted library does not replace a directory of that name:
   where a client was, the build takes the copy that was made then.         *)
LibrariesOf(files) == IF files.vendored = {} THEN {lib} ELSE files.vendored

ModuleRuntime ==
  /\ IF BuildDir = "none" THEN runtime' = [NoResult EXCEPT !.result = "no build file"]
     ELSE \E b \in LibrariesOf(tree[BuildDir]) :
            runtime' = [dir |-> BuildDir, result |-> Built(tree[BuildDir], b), library |-> {b}]
  /\ call' = NoCall
  /\ UNCHANGED <<schema, subpath, tree, lib, edits>>

(* The module calls the method, and the engine answers as its own schema says. *)
Call ==
  /\ runtime.result = "module" /\ tree[runtime.dir].main \in {"module", "imports gen"}
  /\ \E b \in runtime.library : \E a \in Answers(schema.field.type) :
       call' = [fate |-> Fate(Method(b), schema.field, a), answer |-> a]
  /\ UNCHANGED <<schema, subpath, tree, lib, runtime, edits>>

SdkInit ==
  /\ schema \in Schemas
  /\ subpath \in {"", ".", "sub", "./sub", "/sub"}
  /\ tree = [d \in Dirs |-> NoFiles]
  /\ lib \in {GenerateZigTypes(doc) : doc \in Documents}
  /\ runtime = NoResult /\ call = NoCall /\ edits = 0

SdkNext ==
  InitModule \/ InitClient \/ UserEdits \/ Codegen \/ Regenerate \/ ModuleRuntime \/ Call

SdkSpec == SdkInit /\ [][SdkNext]_sdkVars

---------------------------------------------------------------------------
(* The bindings of a document with nothing cut off. *)
Full(b) == b = GenerateZigTypes(schema.doc)

IsValue(e)     == e.kind = "SCALAR" /\ e.name # "Void"
TextValue(e)   == IsValue(e) /\ e.name \notin Numbers \union {"Boolean"}
FlatInput(e)   == e.kind = "INPUT_OBJECT" /\ InputFits(schema.doc[e.name].inputs)

(* The types on which the four decisions of the generator agree. *)
GoodReturn(r) ==
  IF IsList(r) THEN IsValue(Elem(r))
  ELSE IsValue(Strip(r)) \/ Strip(r).kind \in {"OBJECT", "INTERFACE"} \/ IsVoid(r)

GoodArg(r) ==
  IF IsList(r) THEN IsValue(Elem(r)) /\ Elem(r).name # "Boolean"
  ELSE LET s == Strip(r) IN IsValue(s) \/ s.kind = "ENUM" \/ FlatInput(s)

Good(f) == GoodReturn(f.type) /\ \A i \in DOMAIN f.args : GoodArg(f.args[i].type)

(* The names the generator's escapes do not keep apart are apart: a method is
   named as nothing else in the file, a keyword names no method and no argument that
   may be left out, an argument n that is not escaped is no name of the file or
   the body, and n_ names nothing where there is an argument n.              *)
ClearNames(doc) ==
  LET file == FileNames(Generate(doc))
  IN /\ DeclaresTypes(Generate(doc))
     /\ \A t \in ObjectTypes(doc) :
          /\ FieldNames(doc, t) \intersect (StructFields \union file) = {}
          /\ \A f \in doc[t].fields :
               LET local == Locals(doc, t, f) \union Blocks(doc, f)
                   other == FieldNames(doc, t) \union file \union local
               IN /\ local \intersect (FieldNames(doc, t) \union file) = {}
                  /\ Locals(doc, t, f) \intersect Blocks(doc, f) = {}
                  /\ \A i \in DOMAIN f.args :
                       LET n == f.args[i].name
                       IN /\ n \in ZigKeywords => n \notin FieldNames(doc, t) /\ ~ Optional(f.args[i].type)
                          /\ n \notin FieldNameSet(doc[t]) => n \notin file \union local
                          /\ (n \o "_") \notin other
                          /\ \A j \in DOMAIN f.args \ {i} : f.args[j].name \notin {n, n \o "_"}

(* What a helper takes: a text, or a list with no null in it. *)
ReadAsText(a) == a[2] # "null" /\ (a[1] = "many" \/ a[2] = "string")

(* The type a method declares, what its helper yields, how its arguments are
   written and what the engine takes are decided apart, by kind and name.  For
   a good field they agree whatever is written: a module built with the bindings of
   the whole schema, mounted or vendored, that calls the method compiles, and the call
   comes to the value unless the answer is no text.                          *)
GoodCallsWork ==
  \A b \in runtime.library :
    Full(b) /\ Good(schema.field) /\ ClearNames(Shown(schema.doc)) =>
      /\ tree[runtime.dir].main = "module" => runtime.result # "compile error"
      /\ call.fate # "none" /\ (ReadAsText(call.answer) \/ Method(b).helper = "handle") =>
           call.fate = "value"

(* Whatever else is initialised, written or developed around it, ModuleRuntime
   builds the module's own directory, with the SDK's entrypoint, once the SDK has
   written its build file there; bindings from a document are never elsewhere. *)
OwnModuleIsBuilt ==
  /\ \A d \in Dirs : tree[d].gen = "typed" => d = Home
  /\ runtime.dir # "none" /\ tree[Home].build = "module" =>
       runtime.dir = Home /\ runtime.result # "no entrypoint"

(* docs/ARCHITECTURAL_MAP.md:46: "Response parsing converts the engine result
   back into typed Zig values."  Of a compiled call that the engine answers, with
   anything but null, the method returns the value.                           *)
ValuesConverted ==
  call.fate = "InvalidEnvelope" => call.answer[2] = "null"

===========================================================================
