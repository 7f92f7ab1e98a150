---------------------------- MODULE ModuleServer ---------------------------
(***************************************************************************)
(* module/server.zig: serve() answers one invocation by the engine.  It    *)
(* asks why it was invoked, then registers the module's types, serializes  *)
(* the module (constructor) or runs one function, and hands the result     *)
(* back with returnValue or returnError, which are queries like any other: *)
(* they can be lost, refused, or run by the engine without serve() being   *)
(* told.                                                                   *)
(*                                                                         *)
(* The client is QueryService, the promise GraphQLClient implements; serve *)
(* is its only task.  An allocation that fails while a query is built is   *)
(* a query turned away with OutOfMemory.                                   *)
(***************************************************************************)
EXTENDS Naturals, FiniteSets, Sequences, SequencesExt

CONSTANTS
  Types,        \* the types in the signatures of the module
  Parts,        \* the element or field types of a type, in order
  Functions,    \* the dispatch table: [returns, args] for each function
  MaxAttempts,  \* requests the client may send for a query
  UserQueries   \* bound of the model: queries the user's function issues

(* Types are mapped at compile time (typedef.zig:27), so none is part of itself:
   each has a size above that of its parts.                                *)
ASSUME ServerAssumption ==
  /\ Parts \in [Types -> Seq(Types)]
  /\ IsFiniteSet(Types)
  /\ \E size \in [Types -> 0 .. Cardinality(Types)] :
       \A t \in Types : \A k \in DOMAIN Parts[t] : size[Parts[t][k]] < size[t]
  /\ Functions \in Seq([returns : Types, args : Seq(Types)])
  /\ MaxAttempts \in Nat \ {0} /\ UserQueries \in Nat

---------------------------------------------------------------------------
(* The queries of an introspection, in order.  A step embeds the answers   *)
(* of earlier ones: embeds holds how many steps back each of them is.      *)

(* Slip: the last of a node's children is left out.                        *)
NodeWithoutLast(kind, subs) ==
  LET After(k) == Len(FlattenSeq(SubSeq(subs, k + 1, Len(subs))))
  IN FlattenSeq(subs) \o
     <<[kind |-> kind, embeds |-> {After(k) + 1 : k \in 1 .. Len(subs) - 1}]>>

(* First the queries of every child, then the one that embeds them. *)
Node(kind, subs) ==
  LET After(k) == Len(FlattenSeq(SubSeq(subs, k + 1, Len(subs))))
  IN FlattenSeq(subs) \o
     <<[kind |-> kind, embeds |-> {After(k) + 1 : k \in DOMAIN subs}]>>

TypeDefSteps[t \in Types] ==
  Node("typeDef", [k \in DOMAIN Parts[t] |-> TypeDefSteps[Parts[t][k]]])

FunctionSteps(f) ==
  Node("function", <<TypeDefSteps[f.returns]>>
                   \o [k \in DOMAIN f.args |-> TypeDefSteps[f.args[k]]])

NameSteps == <<[kind |-> "moduleName", embeds |-> {}]>>

ObjectSteps ==
  Node("object", <<NameSteps>> \o [k \in DOMAIN Functions |-> FunctionSteps(Functions[k])])

(* The constructor returns the object; the object is then built once more,
   with its constructor.                                                   *)
Plan ==
  LET object == Last(ObjectSteps)
  IN ObjectSteps \o
     << [kind |-> "constructor", embeds |-> {1}],
        [kind |-> "object", embeds |-> {d + 2 : d \in object.embeds} \union {1}],
        [kind |-> "module", embeds |-> {1}] >>

---------------------------------------------------------------------------
VARIABLES
  mode,      \* why the engine invoked the module
  pc,        \* the query serve() waits for, or where it is otherwise
  received,  \* steps of the registration that are answered
  calls,     \* times the user's function was called
  asked,     \* the kind of every query issued
  outcome,   \* how serve() ended
  refused,   \* history: the queries of which serve() was told that they failed
  busy, queryNo, sent, done, verdict   \* of QueryService

Serve == "serve"
Client == INSTANCE QueryService WITH Tasks <- {Serve}

serveVars == <<mode, pc, received, calls, asked, outcome>>
vars      == <<serveVars, refused, busy, queryNo, sent, done, verdict>>

Mode  == {"introspection", "constructor", "function", "unknown"}
Reads == {"parentName", "name", "inputArgs", "leaf", "errorId"}
Kinds == Reads \union {"user", "returnValue", "returnError"}

TypeOK ==
  /\ mode \in Mode
  /\ pc \in {"start", "running", "ended"} \union (Kinds \ {"user"})
  /\ received \in 0 .. Len(Plan)
  /\ calls \in {0, 1}
  /\ asked \in Seq(Kinds)
  /\ outcome \in {"none", "ok", "reported", "unreported", "failed", "UnknownFunction"}
  /\ busy \subseteq {Serve} /\ queryNo[Serve] = Len(asked)
  /\ refused \subseteq 1 .. Len(asked)
  /\ sent \subseteq Client!Request /\ done \subseteq sent

---------------------------------------------------------------------------
Init ==
  /\ mode \in Mode
  /\ pc = "start" /\ received = 0 /\ calls = 0
  /\ asked = <<>> /\ outcome = "none" /\ refused = {}
  /\ Client!SInit

(* A query that is over after this step is refused unless it succeeded.    *)
Hears ==
  refused' = IF Serve \in busy' \/ verdict'[Serve] = "success" THEN refused
             ELSE refused \union {queryNo'[Serve]}

Ask(kind) ==
  /\ Client!SBegin(Serve) /\ Hears
  /\ asked' = Append(asked, kind)
  /\ pc' = kind
  /\ UNCHANGED <<mode, outcome>>

End(how) ==
  /\ pc' = "ended" /\ outcome' = how
  /\ UNCHANGED <<mode, received, calls, asked, refused, busy, queryNo, sent, done, verdict>>

Answered(kind)  == pc = kind /\ Serve \notin busy
Succeeded(kind) == Answered(kind) /\ verdict[Serve] = "success"

(* A query whose answer is read fails with the query, or when there is no
   data or no string in the envelope.                                      *)
ReadFails(kind) == kind \in Reads /\ Answered(kind)
WriteFails(kind) == Answered(kind) /\ verdict[Serve] # "success"

---------------------------------------------------------------------------
ServeConnects == pc = "start" /\ Ask("parentName") /\ UNCHANGED <<received, calls>>
ConnectFails  == pc = "start" /\ End("failed")

GetsParentName ==
  /\ Succeeded("parentName")
  /\ Ask(IF mode = "introspection" THEN "leaf" ELSE "name")
  /\ UNCHANGED <<received, calls>>

(* The name is empty for the constructor, whose value may not serialize. *)
GetsName ==
  /\ Succeeded("name")
  /\ \/ mode = "constructor" /\ \E kind \in {"returnValue", "errorId"} : Ask(kind)
     \/ mode = "function" /\ Ask("inputArgs")
  /\ UNCHANGED <<received, calls>>

UnknownFunction ==
  Succeeded("name") /\ mode = "unknown" /\ End("UnknownFunction")

(* These errors leave serve() without a word to the engine. *)
ProtocolReadFails ==
  \E kind \in {"parentName", "name", "inputArgs"} : ReadFails(kind) /\ End("failed")

(* Slip: arguments that could not be fetched are taken for no arguments.   *)
InvokeWithoutArgs ==
  /\ Answered("inputArgs")
  /\ pc' = "running" /\ calls' = calls + 1
  /\ UNCHANGED <<mode, received, asked, outcome, refused, busy, queryNo, sent, done, verdict>>

(* The shim decodes the arguments and calls the function ...               *)
Invoke ==
  /\ Succeeded("inputArgs")
  /\ pc' = "running" /\ calls' = calls + 1
  /\ UNCHANGED <<mode, received, asked, outcome, refused, busy, queryNo, sent, done, verdict>>

(* ... or finds an argument missing or of the wrong type. *)
BadArgs ==
  /\ Succeeded("inputArgs")
  /\ Ask("errorId")
  /\ UNCHANGED <<received, calls>>

InUserCode == Answered("running")

FunctionQueries ==
  /\ InUserCode
  /\ Cardinality({i \in DOMAIN asked : asked[i] = "user"}) < UserQueries
  /\ Client!SBegin(Serve) /\ Hears
  /\ asked' = Append(asked, "user")
  /\ UNCHANGED <<mode, pc, received, calls, outcome>>

FunctionReturns == InUserCode /\ Ask("returnValue") /\ UNCHANGED <<received, calls>>
FunctionFails == InUserCode /\ Ask("errorId") /\ UNCHANGED <<received, calls>>

---------------------------------------------------------------------------
(* executeLeafString, once for each step of the plan.  The string it        *)
(* returns lies in a parse it has just released, so it may be overwritten   *)
(* before it is embedded; the texts of ids are not modelled, and an engine  *)
(* may answer any query with an error.                                      *)

Learn ==
  /\ received' = received + 1
  /\ Ask(IF received' = Len(Plan) THEN "returnValue" ELSE "leaf")
  /\ UNCHANGED calls

LeafSucceeds == Succeeded("leaf") /\ Learn

AtModuleName == received = 0

(* Without a name the type's own is taken; any other failure is reported. *)
NoModuleName == ReadFails("leaf") /\ AtModuleName /\ Learn

LeafFails ==
  /\ ReadFails("leaf")
  /\ ~AtModuleName \/ verdict[Serve] = "OutOfMemory"
  /\ Ask("errorId")
  /\ UNCHANGED <<received, calls>>

---------------------------------------------------------------------------
ValueReturned == Succeeded("returnValue") /\ End("ok")

(* Slip: what should run when the value was refused runs in any case.      *)
ValueReportedAnyway ==
  /\ Answered("returnValue") /\ mode # "function"
  /\ Ask("errorId") /\ UNCHANGED <<received, calls>>

(* A function that cannot return its value gives up; the other two report. *)
ValueRefused ==
  /\ WriteFails("returnValue")
  /\ IF mode = "function"
     THEN End("failed")
     ELSE Ask("errorId") /\ UNCHANGED <<received, calls>>

(* Slip: the error is taken to be reported as soon as it has an id.        *)
GetsErrorIdAndEnds == Succeeded("errorId") /\ End("reported")

(* returnError first asks for the id of the error object. *)
GetsErrorId == Succeeded("errorId") /\ Ask("returnError") /\ UNCHANGED <<received, calls>>

ErrorReturned == Succeeded("returnError") /\ End("reported")

(* Slip: nobody handles the failure of the report itself.                  *)
ReportFailsHalfway == ReadFails("errorId") /\ End("unreported")

ReportFails == (ReadFails("errorId") \/ WriteFails("returnError")) /\ End("unreported")

---------------------------------------------------------------------------
UserStep == FunctionQueries \/ FunctionReturns \/ FunctionFails

ServeStep ==
  \/ ServeConnects \/ ConnectFails \/ GetsParentName \/ GetsName \/ UnknownFunction
  \/ ProtocolReadFails \/ Invoke \/ BadArgs
  \/ LeafSucceeds \/ NoModuleName \/ LeafFails
  \/ ValueReturned \/ ValueRefused \/ GetsErrorId \/ ErrorReturned \/ ReportFails

ClientSends   == Client!SSend(Serve) /\ UNCHANGED <<serveVars, refused>>
ClientReturns == Client!SReturn(Serve) /\ Hears /\ UNCHANGED serveVars
EngineRuns    == (\E r \in sent : Client!SExecute(r)) /\ UNCHANGED <<serveVars, refused>>

Next == ServeStep \/ UserStep \/ ClientSends \/ ClientReturns \/ EngineRuns

(* serve() runs when it can, and every query returns (QueryReturns of
   GraphQLClient); nothing is said of the user's function.                 *)
Spec == Init /\ [][Next]_vars /\ WF_vars(ServeStep) /\ WF_vars(ClientReturns)

---------------------------------------------------------------------------
(* Properties.                                                             *)

Of(requests, kind) == {r \in requests : asked[r.query] = kind}

(* What serve() returns is what the engine knows: a success only after the
   engine ran a returnValue, and the error of a function, a constructor or
   an introspection as reported only after it ran a returnError for an error
   object it had made (server.zig:451-457).                                *)
OutcomeIsDelivered ==
  /\ outcome = "ok" => Of(done, "returnValue") # {}
  /\ outcome = "reported" => Of(done, "errorId") # {} /\ Of(done, "returnError") # {}

(* The engine is sent the answers of one query at the most for a function
   call.  For a constructor or an introspection it may be sent those of two:
   first a value, of which serve() was told that it failed, then an error,
   and serve() ends in an error.                                           *)
AnswersExclusive ==
  \A a, b \in Of(sent, "returnValue") \union Of(sent, "returnError") :
    a.query < b.query =>
      /\ asked[a.query] = "returnValue" /\ a.query \in refused
      /\ asked[b.query] = "returnError"
      /\ mode # "function" /\ outcome # "ok"

(* A function is called once at the most, whatever is retried below it, and
   its value is sent only after a call that got its arguments; no answer
   precedes the call.                                                      *)
CalledBeforeAnswered ==
  /\ mode = "function" /\ Of(sent, "returnValue") # {} => calls = 1 /\ pc # "running"
  /\ calls = 1 => mode = "function" /\ Of(done, "inputArgs") # {}

(* Registration embeds only answers it has, and when it hands the module
   back every type, function and constructor it made is part of it.        *)
RegistrationComplete ==
  /\ \A j \in 1 .. Cardinality({i \in DOMAIN asked : asked[i] = "leaf"}) :
       \A d \in Plan[j].embeds : j - d \in 1 .. received
  /\ mode = "introspection" /\ Of(sent, "returnValue") # {} =>
       /\ received = Len(Plan)
       /\ \A i \in 1 .. Len(Plan) - 1 :
            \E j \in i + 1 .. Len(Plan) : j - i \in Plan[j].embeds

(* serve() waits for ever only in the user's function. *)
StallsOnlyInUserCode == []<>(pc \in {"running", "ended"})
===========================================================================
