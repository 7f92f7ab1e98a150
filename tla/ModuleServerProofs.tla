------------------------- MODULE ModuleServerProofs ------------------------
(***************************************************************************)
(* A module in Zig: how it serves (ModuleServer) and, in the last section, *)
(* what is built of it and what its calls come to (SdkModule).             *)
(*                                                                         *)
(* The answers of serve(), for every module, every number of attempts and  *)
(* every engine.  The induction rests on what the kinds of the queries     *)
(* issued so far say about where serve() is: the order in which it may ask *)
(* is in Order, what it has been told in Told, and what becomes of a value *)
(* the engine refused in Answering.                                        *)
(***************************************************************************)
EXTENDS ModuleServer, SdkModule, SequenceInduction, FiniteSetTheorems

Asked(kind) == \E i \in DOMAIN asked : asked[i] = kind
Ran(kind)   == Of(done, kind) # {}

Verdicts == Client!TurnedAway \union Client!Failures \union {"success", "none"}

(* The client: requests belong to queries issued, and a success is a request
   of the last query that the engine ran.                                  *)
Wire ==
  /\ busy \subseteq {Serve}
  /\ asked \in Seq(Kinds)
  /\ queryNo \in [{Serve} -> Nat] /\ queryNo[Serve] = Len(asked)
  /\ verdict \in [{Serve} -> Verdicts]
  /\ \A r \in sent : r.query \in 1 .. Len(asked)
  /\ done \subseteq sent
  /\ busy # {} => asked # <<>>
  /\ busy = {} /\ verdict[Serve] = "success" => \E r \in done : r.query = Len(asked)
  /\ refused \subseteq 1 .. Len(asked)
  /\ busy = {} /\ asked # <<>> /\ verdict[Serve] # "success" => Len(asked) \in refused

Order ==
  /\ pc \in {"start", "running", "ended"} \union (Kinds \ {"user"})
  /\ pc \in Kinds => asked # <<>> /\ asked[Len(asked)] = pc
  /\ pc = "start" => asked = <<>>
  /\ outcome # "none" => pc = "ended"
  /\ Asked("leaf") => mode = "introspection"
  /\ Asked("inputArgs") => mode = "function"
  /\ Asked("returnValue") => pc \in {"returnValue", "errorId", "returnError", "ended"}
  /\ Asked("returnValue") /\ mode = "function" => calls = 1 /\ pc \in {"returnValue", "ended"}
  /\ Asked("returnError") => pc \in {"returnError", "ended"}
  /\ Asked("returnError") /\ Asked("returnValue") => mode # "function" /\ outcome # "ok"

Told ==
  /\ calls \in {0, 1}
  /\ pc = "running" => calls = 1
  /\ calls = 1 => /\ pc \in {"running", "returnValue", "errorId", "returnError", "ended"}
                  /\ mode = "function" /\ Ran("inputArgs")
  /\ pc = "returnError" => Ran("errorId")
  /\ outcome = "ok" => Ran("returnValue")
  /\ outcome = "reported" => Ran("errorId") /\ Ran("returnError")

(* A value that serve() does not wait for any more was refused, unless serve()
   ended with it; and of two answers the first is a value that was refused,
   the second an error.                                                     *)
Answer == {"returnValue", "returnError"}

ValuesRefused == \A i \in DOMAIN asked : asked[i] = "returnValue" => i \in refused

Answering ==
  /\ pc \in {"returnValue", "ended"} \/ ValuesRefused
  /\ \A i, j \in DOMAIN asked : i < j /\ asked[i] \in Answer /\ asked[j] \in Answer =>
       asked[i] = "returnValue" /\ i \in refused /\ asked[j] = "returnError"

IInv == Wire /\ Order /\ Told /\ Answering

---------------------------------------------------------------------------
(* What the queries asked and the requests run say of a kind stays said. *)
StillRan == \A k \in Kinds : Ran(k) => Ran(k)'

LEMMA AskStep ==
  ASSUME Wire, NEW kind \in Kinds, Client!SBegin(Serve), Hears, asked' = Append(asked, kind)
  PROVE  /\ Wire' /\ StillRan /\ asked' # <<>> /\ asked'[Len(asked')] = kind
         /\ refused \subseteq refused'
         /\ Len(asked') = Len(asked) + 1 /\ \A i \in 1 .. Len(asked) : asked'[i] = asked[i]
         /\ \A k \in Kinds : Asked(k)' <=> Asked(k) \/ k = kind
<1>1. /\ Len(asked') = Len(asked) + 1 /\ asked' \in Seq(Kinds)
      /\ \A i \in 1 .. Len(asked) : asked'[i] = asked[i]
      /\ asked'[Len(asked')] = kind /\ asked' # <<>>
      /\ DOMAIN asked = 1 .. Len(asked) /\ DOMAIN asked' = 1 .. Len(asked) + 1
  BY DEF Wire
<1>2. /\ sent' = sent /\ done' = done
      /\ queryNo' = [queryNo EXCEPT ![Serve] = @ + 1]
      /\ busy' \subseteq {Serve}
      /\ verdict' \in [{Serve} -> Verdicts]
      /\ busy' = {} => verdict'[Serve] \in Client!TurnedAway
  BY DEF Wire, Client!SBegin, Verdicts, Serve
<1>3. Wire'
  <2>1. queryNo' \in [{Serve} -> Nat] /\ queryNo'[Serve] = Len(asked')
    BY <1>1, <1>2 DEF Wire
  <2>2. \A r \in sent' : r.query \in 1 .. Len(asked')
    BY <1>1, <1>2 DEF Wire
  <2>3. busy' = {} => verdict'[Serve] # "success"
    BY <1>2 DEF Client!TurnedAway
  <2>4. /\ refused' \subseteq 1 .. Len(asked')
        /\ busy' = {} /\ verdict'[Serve] # "success" => Len(asked') \in refused'
    <3>1. refused' \subseteq refused \union {Len(asked')}
      BY <2>1 DEF Hears
    <3>2. busy' = {} /\ verdict'[Serve] # "success" => refused' = refused \union {Len(asked')}
      BY <2>1 DEF Hears
    <3>3. QED
      BY <1>1, <3>1, <3>2 DEF Wire
  <2>5. QED
    BY <1>1, <1>2, <2>1, <2>2, <2>3, <2>4 DEF Wire
<1>4. StillRan
  BY <1>1, <1>2 DEF Wire, StillRan, Ran, Of
<1>5. \A k \in Kinds : Asked(k)' <=> Asked(k) \/ k = kind
  BY <1>1 DEF Asked
<1>6. refused \subseteq refused'
  BY DEF Hears
<1>7. QED
  BY <1>1, <1>3, <1>4, <1>5, <1>6

(* While nothing is asked, the answers stay as they were. *)
LEMMA AnsweringKept ==
  ASSUME Answering, asked' = asked, refused \subseteq refused',
         pc' = pc \/ pc' = "ended" \/ pc \notin {"returnValue", "ended"}
  PROVE  Answering'
BY DEF Answering, ValuesRefused, Answer

(* And a query that is asked while no value may still be taken. *)
LEMMA AnsweringAsked ==
  ASSUME IInv, NEW kind \in Kinds, Client!SBegin(Serve), Hears, asked' = Append(asked, kind),
         ValuesRefused,
         kind \in Answer => ~Asked("returnError"),
         kind = "returnValue" => ~Asked("returnValue"), pc' = kind \/ kind = "user"
  PROVE  Answering'
<1>1. /\ Len(asked') = Len(asked) + 1 /\ asked'[Len(asked')] = kind /\ refused \subseteq refused'
      /\ \A i \in 1 .. Len(asked) : asked'[i] = asked[i]
  BY AskStep DEF IInv
<1>2. /\ Len(asked) \in Nat /\ DOMAIN asked = 1 .. Len(asked)
      /\ DOMAIN asked' = 1 .. Len(asked) + 1
  BY DEF IInv, Wire
<1>3. \A i \in 1 .. Len(asked) : asked[i] = "returnValue" => i \in refused'
  BY <1>1, <1>2 DEF ValuesRefused
<1>4. pc' = "returnValue" \/ ValuesRefused'
  BY <1>1, <1>2, <1>3 DEF ValuesRefused
<1>5. ASSUME NEW i \in DOMAIN asked', NEW j \in DOMAIN asked', i < j,
             asked'[i] \in Answer, asked'[j] \in Answer
      PROVE  asked'[i] = "returnValue" /\ i \in refused' /\ asked'[j] = "returnError"
  <2>1. i \in 1 .. Len(asked) /\ asked'[i] = asked[i]
    BY <1>1, <1>2, <1>5
  <2>2. CASE j \in 1 .. Len(asked)
    BY <1>1, <1>2, <1>5, <2>1, <2>2 DEF IInv, Answering
  <2>3. CASE j = Len(asked) + 1
    BY <1>1, <1>2, <1>3, <1>5, <2>1, <2>3 DEF Asked, Answer
  <2>4. QED
    BY <1>2, <2>2, <2>3
<1>6. QED
  BY <1>4, <1>5 DEF Answering

(* A query that succeeded was run. *)
LEMMA SuccessRan ==
  ASSUME IInv, NEW kind \in Kinds, Succeeded(kind) PROVE Ran(kind)
<1>1. busy = {} /\ pc = kind /\ verdict[Serve] = "success"
  BY DEF Succeeded, Answered, IInv, Wire
<1>2. PICK r \in done : r.query = Len(asked)
  BY <1>1 DEF IInv, Wire
<1>3. asked[Len(asked)] = kind
  BY <1>1 DEF IInv, Order
<1>4. QED
  BY <1>2, <1>3 DEF Ran, Of

LEMMA EndStep ==
  ASSUME IInv, NEW how, End(how) PROVE Wire' /\ StillRan /\ asked' = asked /\ Answering'
<1>1. Wire' /\ StillRan /\ asked' = asked
  BY DEF IInv, Wire, End, StillRan, Ran, Of
<1>2. Answering'
  BY <1>1, AnsweringKept DEF IInv, End
<1>3. QED
  BY <1>1, <1>2

LEMMA ServiceStep ==
  ASSUME IInv, ClientSends \/ ClientReturns \/ EngineRuns
  PROVE  IInv'
<1>1. Wire' /\ StillRan
  <2>1. CASE ClientSends
    <3>1. PICK a \in 0 .. MaxAttempts - 1 :
            sent' = sent \union {[task |-> Serve, query |-> queryNo[Serve], attempt |-> a]}
      BY <2>1 DEF ClientSends, Client!SSend
    <3>2. UNCHANGED <<busy, queryNo, done, verdict, asked, refused>> /\ Serve \in busy
      BY <2>1 DEF ClientSends, Client!SSend, serveVars
    <3>3. queryNo[Serve] \in 1 .. Len(asked)
      BY <3>2 DEF IInv, Wire
    <3>4. \A r \in sent' : r.query \in 1 .. Len(asked)
      BY <3>1, <3>3 DEF IInv, Wire
    <3>5. QED
      BY <3>1, <3>2, <3>4 DEF IInv, Wire, StillRan, Ran, Of
  <2>2. CASE ClientReturns
    <3>1. /\ UNCHANGED <<asked, queryNo, sent, done>> /\ busy' = busy \ {Serve}
          /\ verdict' \in [{Serve} -> Verdicts]
          /\ \/ Client!RequestsOf(Serve) \intersect done # {}
             \/ verdict'[Serve] \in Client!Failures
      BY <2>2 DEF ClientReturns, Client!SReturn, serveVars, IInv, Wire, Verdicts
    <3>2. verdict'[Serve] = "success" => \E r \in done : r.query = Len(asked)
      BY <3>1 DEF Client!RequestsOf, Client!Failures, IInv, Wire
    <3>3. /\ refused' \subseteq 1 .. Len(asked)
          /\ verdict'[Serve] # "success" => Len(asked) \in refused'
      <4>1. Serve \in busy /\ Serve \notin busy' /\ queryNo'[Serve] = Len(asked) /\ Hears
        BY <2>2, <3>1 DEF ClientReturns, Client!SReturn, IInv, Wire
      <4>2. Len(asked) \in 1 .. Len(asked)
        BY <4>1 DEF IInv, Wire
      <4>3. QED
        BY <4>1, <4>2 DEF Hears, IInv, Wire
    <3>4. QED
      BY <3>1, <3>2, <3>3 DEF IInv, Wire, StillRan, Ran, Of
  <2>3. CASE EngineRuns
    BY <2>3 DEF EngineRuns, Client!SExecute, serveVars, IInv, Wire, StillRan, Ran, Of
  <2>4. QED
    BY <2>1, <2>2, <2>3
<1>2. UNCHANGED serveVars
  BY DEF ClientSends, ClientReturns, EngineRuns
<1>3. Order'
  BY <1>2 DEF serveVars, IInv, Order, Asked
<1>4. Told'
  BY <1>1, <1>2 DEF serveVars, IInv, Told, StillRan, Kinds, Reads
<1>5. Answering'
  <2>1. refused \subseteq refused'
    BY DEF ClientSends, ClientReturns, EngineRuns, Hears
  <2>2. QED
    BY <1>2, <2>1, AnsweringKept DEF serveVars, IInv
<1>6. QED
  BY <1>1, <1>3, <1>4, <1>5 DEF IInv

---------------------------------------------------------------------------
(* The steps of serve() that end it. *)
LEMMA EndingStep ==
  ASSUME IInv,
         \/ ConnectFails \/ UnknownFunction \/ ProtocolReadFails \/ ValueReturned
         \/ (ValueRefused /\ mode = "function") \/ ErrorReturned \/ ReportFails
  PROVE  IInv'
<1>1. ASSUME NEW how, End(how), how # "none", pc # "ended",
             how = "ok" => Ran("returnValue") /\ ~Asked("returnError"),
             how = "reported" => Ran("errorId") /\ Ran("returnError")
      PROVE  IInv'
  <2>1. Wire' /\ StillRan /\ asked' = asked /\ Answering'
    BY <1>1, EndStep
  <2>2. pc' = "ended" /\ outcome' = how /\ UNCHANGED <<mode, calls>>
    BY <1>1 DEF End
  <2>3. Order'
    BY <1>1, <2>1, <2>2 DEF IInv, Order, Asked, Kinds, Reads
  <2>4. Told'
    BY <1>1, <2>1, <2>2 DEF IInv, Told, StillRan, Kinds, Reads
  <2>5. QED
    BY <2>1, <2>3, <2>4 DEF IInv
<1>2. CASE ConnectFails
  BY <1>1, <1>2 DEF ConnectFails
<1>3. CASE UnknownFunction
  BY <1>1, <1>3 DEF UnknownFunction, Succeeded, Answered
<1>4. CASE ProtocolReadFails
  BY <1>1, <1>4 DEF ProtocolReadFails, ReadFails, Answered
<1>5. CASE ValueReturned
  <2>1. Ran("returnValue")
    BY <1>5, SuccessRan DEF ValueReturned, Kinds
  <2>2. pc = "returnValue" /\ ~Asked("returnError")
    BY <1>5 DEF ValueReturned, Succeeded, Answered, IInv, Order
  <2>3. QED
    BY <1>1, <1>5, <2>1, <2>2 DEF ValueReturned
<1>6. CASE ValueRefused /\ mode = "function"
  BY <1>1, <1>6 DEF ValueRefused, WriteFails, Answered
<1>7. CASE ErrorReturned
  <2>1. Ran("returnError")
    BY <1>7, SuccessRan DEF ErrorReturned, Kinds
  <2>2. pc = "returnError" /\ Ran("errorId")
    BY <1>7 DEF ErrorReturned, Succeeded, Answered, IInv, Told
  <2>3. QED
    BY <1>1, <1>7, <2>1, <2>2 DEF ErrorReturned
<1>8. CASE ReportFails
  BY <1>1, <1>8 DEF ReportFails, ReadFails, WriteFails, Answered
<1>9. QED
  BY <1>2, <1>3, <1>4, <1>5, <1>6, <1>7, <1>8

(* The steps that issue a query, by the kind they ask for. *)
LEMMA AskingStep ==
  ASSUME IInv,
         \/ ServeConnects \/ GetsParentName \/ GetsName \/ BadArgs
         \/ FunctionReturns \/ FunctionFails \/ LeafSucceeds \/ NoModuleName
         \/ LeafFails \/ (ValueRefused /\ mode # "function") \/ GetsErrorId
  PROVE  IInv'
<1>1. ASSUME NEW kind \in Kinds \ {"user"}, Ask(kind), calls' = calls, outcome = "none",
             pc \notin {"running", "returnValue", "ended"} => ~Asked("returnValue") \/ mode # "function",
             pc # "returnError" /\ ~Asked("returnError"),
             kind = "leaf" => mode = "introspection",
             kind = "inputArgs" => mode = "function" /\ pc = "name",
             kind \in {"parentName", "name", "leaf", "inputArgs", "returnValue"}
               => ~Asked("returnValue"),
             ValuesRefused,
             calls = 1 => kind \in {"returnValue", "errorId", "returnError"},
             kind = "returnValue" => mode # "function" \/ calls = 1,
             Asked("returnValue") => mode # "function",
             kind = "returnError" => Ran("errorId")
      PROVE  IInv'
  <2>1. /\ Wire' /\ StillRan /\ asked' # <<>> /\ asked'[Len(asked')] = kind
        /\ \A k \in Kinds : Asked(k)' <=> Asked(k) \/ k = kind
    BY <1>1, AskStep DEF IInv, Ask
  <2>2. pc' = kind /\ UNCHANGED <<mode, outcome, calls>>
    BY <1>1 DEF Ask
  <2>3. Order'
    BY <1>1, <2>1, <2>2 DEF IInv, Order, Kinds, Reads
  <2>4. Told'
    BY <1>1, <2>1, <2>2 DEF IInv, Told, StillRan, Kinds, Reads
  <2>5. Answering'
    BY <1>1, AnsweringAsked DEF Ask
  <2>6. QED
    BY <2>1, <2>3, <2>4, <2>5 DEF IInv
<1>2. CASE ServeConnects
  BY <1>1, <1>2 DEF ServeConnects, IInv, Order, Told, Answering, Kinds, Reads, Asked
<1>3. CASE GetsParentName
  BY <1>1, <1>3 DEF GetsParentName, Succeeded, Answered, IInv, Order, Told, Answering, Kinds, Reads
<1>4. CASE GetsName
  BY <1>1, <1>4 DEF GetsName, Succeeded, Answered, IInv, Order, Told, Answering, Kinds, Reads
<1>5. CASE BadArgs
  BY <1>1, <1>5 DEF BadArgs, Succeeded, Answered, IInv, Order, Told, Answering, Kinds, Reads
<1>6. CASE FunctionReturns
  BY <1>1, <1>6 DEF FunctionReturns, InUserCode, Answered, IInv, Order, Told, Answering, Kinds, Reads
<1>7. CASE FunctionFails
  BY <1>1, <1>7 DEF FunctionFails, InUserCode, Answered, IInv, Order, Told, Answering, Kinds, Reads
<1>8. CASE LeafSucceeds \/ NoModuleName
  <2>1. pc = "leaf" /\ mode = "introspection" /\ calls' = calls
    BY <1>8 DEF LeafSucceeds, NoModuleName, Learn, Succeeded, ReadFails, Answered, IInv, Order, Asked
  <2>2. Ask("returnValue") \/ Ask("leaf")
    BY <1>8 DEF LeafSucceeds, NoModuleName, Learn
  <2>3. QED
    BY <1>1, <2>1, <2>2 DEF IInv, Order, Told, Answering, Kinds, Reads
<1>9. CASE LeafFails
  <2>1. pc = "leaf" /\ calls' = calls /\ Ask("errorId")
    BY <1>9 DEF LeafFails, ReadFails, Answered
  <2>2. QED
    BY <1>1, <2>1 DEF IInv, Order, Told, Answering, Kinds, Reads
<1>10. CASE ValueRefused /\ mode # "function"
  <2>1. pc = "returnValue" /\ busy = {} /\ verdict[Serve] # "success"
    BY <1>10 DEF ValueRefused, WriteFails, Answered, IInv, Wire
  <2>2. /\ Len(asked) \in refused /\ asked[Len(asked)] = "returnValue"
        /\ Len(asked) \in DOMAIN asked /\ DOMAIN asked = 1 .. Len(asked)
    BY <2>1 DEF IInv, Wire, Order, Kinds
  <2>3. ASSUME NEW i \in DOMAIN asked, asked[i] = "returnValue" PROVE i \in refused
    <3>1. i < Len(asked) => asked[Len(asked)] = "returnError"
      BY <2>2, <2>3 DEF IInv, Answering, Answer
    <3>2. QED
      BY <2>2, <3>1
  <2>4. ValuesRefused
    BY <2>3 DEF ValuesRefused
  <2>5. Ask("errorId") /\ calls' = calls
    BY <1>10 DEF ValueRefused
  <2>6. QED
    BY <1>1, <1>10, <2>1, <2>4, <2>5 DEF IInv, Order, Told, Kinds, Reads
<1>11. CASE GetsErrorId
  <2>1. Ran("errorId")
    BY <1>11, SuccessRan DEF GetsErrorId, Kinds, Reads
  <2>2. QED
    BY <1>1, <1>11, <2>1 DEF GetsErrorId, Succeeded, Answered, IInv, Order, Told, Answering, Kinds, Reads
<1>12. QED
  BY <1>2, <1>3, <1>4, <1>5, <1>6, <1>7, <1>8, <1>9, <1>10, <1>11

(* The call of the user's function, and the queries it issues. *)
LEMMA CallingStep == ASSUME IInv, Invoke \/ FunctionQueries PROVE IInv'
<1>1. CASE Invoke
  <2>1. Ran("inputArgs") /\ pc = "inputArgs" /\ mode = "function"
    <3>1. Ran("inputArgs")
      BY <1>1, SuccessRan DEF Invoke, Kinds, Reads
    <3>2. QED
      BY <1>1, <3>1 DEF Invoke, Succeeded, Answered, Ran, Of, IInv, Order, Asked, Wire, Kinds, Reads
  <2>2. /\ pc' = "running" /\ calls' = calls + 1
        /\ UNCHANGED <<mode, asked, outcome, refused, busy, queryNo, sent, done, verdict>>
    BY <1>1 DEF Invoke
  <2>3. Wire' /\ StillRan
    BY <2>2 DEF IInv, Wire, StillRan, Ran, Of
  <2>4. Order'
    BY <2>1, <2>2 DEF IInv, Order, Asked, Kinds, Reads
  <2>5. Told'
    BY <2>1, <2>2, <2>3 DEF IInv, Told, StillRan, Kinds, Reads, Order
  <2>6. Answering'
    BY <2>1, <2>2, AnsweringKept DEF IInv
  <2>7. QED
    BY <2>3, <2>4, <2>5, <2>6 DEF IInv
<1>2. CASE FunctionQueries
  <2>1. /\ Wire' /\ StillRan /\ asked' # <<>> /\ asked'[Len(asked')] = "user"
        /\ \A k \in Kinds : Asked(k)' <=> Asked(k) \/ k = "user"
    BY <1>2, AskStep DEF FunctionQueries, IInv, Kinds
  <2>2. pc = "running" /\ UNCHANGED <<mode, pc, calls, outcome>>
    BY <1>2 DEF FunctionQueries, InUserCode, Answered
  <2>3. Order'
    BY <2>1, <2>2 DEF IInv, Order, Kinds, Reads
  <2>4. Told'
    BY <2>1, <2>2 DEF IInv, Told, StillRan, Kinds, Reads
  <2>5. Answering'
    BY <1>2, <2>2, AnsweringAsked DEF FunctionQueries, IInv, Answering, Answer, Kinds
  <2>6. QED
    BY <2>1, <2>3, <2>4, <2>5 DEF IInv
<1>3. QED
  BY <1>1, <1>2

LEMMA Inductive == Spec => []IInv
<1>1. Init => IInv
  BY DEF Init, Client!SInit, IInv, Wire, Order, Told, Answering, ValuesRefused, Asked, Mode,
         Kinds, Reads, Verdicts, Serve
<1>2. IInv /\ [Next]_vars => IInv'
  <2> SUFFICES ASSUME IInv, [Next]_vars PROVE IInv'
    OBVIOUS
  <2>1. CASE ServeStep
    <3>1. CASE ValueRefused
      BY <3>1, EndingStep, AskingStep
    <3>2. CASE Invoke
      BY <3>2, CallingStep
    <3>3. QED
      BY <2>1, <3>1, <3>2, EndingStep, AskingStep DEF ServeStep
  <2>2. CASE UserStep
    BY <2>2, AskingStep, CallingStep DEF UserStep
  <2>3. CASE ClientSends \/ ClientReturns \/ EngineRuns
    BY <2>3, ServiceStep
  <2>4. CASE UNCHANGED vars
    BY <2>4 DEF vars, serveVars, IInv, Wire, Order, Told, Answering, ValuesRefused, Asked, Ran, Of
  <2>5. QED
    BY <2>1, <2>2, <2>3, <2>4 DEF Next
<1>3. QED
  BY <1>1, <1>2, PTL DEF Spec

---------------------------------------------------------------------------
(* What serve() returns is what the engine knows, for every module and any
   number of attempts: "ok" only after a returnValue ran, "reported" only
   after a returnError did.                                                *)
THEOREM OutcomesAreDelivered == Spec => []OutcomeIsDelivered
<1>1. IInv => OutcomeIsDelivered
  BY DEF IInv, Told, Ran, OutcomeIsDelivered
<1>2. QED
  BY <1>1, Inductive, PTL

(* A request of a kind is on the wire only if a query of it was issued. *)
LEMMA SentAsked ==
  ASSUME IInv, NEW kind, Of(sent, kind) # {} PROVE Asked(kind)
<1>1. PICK r \in sent : asked[r.query] = kind
  BY DEF Of
<1>2. r.query \in DOMAIN asked
  BY <1>1 DEF IInv, Wire
<1>3. QED
  BY <1>1, <1>2 DEF Asked

(* A function call gets the answers of one query.  A constructor or a
   registration may be answered by two: a value which the engine or the
   client refused, then an error, with which serve() ends.                  *)
THEOREM OneAnswer == Spec => []AnswersExclusive
<1>1. ASSUME IInv PROVE AnswersExclusive
  <2> SUFFICES ASSUME NEW a \in Of(sent, "returnValue") \union Of(sent, "returnError"),
                      NEW b \in Of(sent, "returnValue") \union Of(sent, "returnError"),
                      a.query < b.query
               PROVE  /\ asked[a.query] = "returnValue" /\ a.query \in refused
                      /\ asked[b.query] = "returnError"
                      /\ mode # "function" /\ outcome # "ok"
    BY DEF AnswersExclusive
  <2>1. /\ a.query \in DOMAIN asked /\ asked[a.query] \in Answer
        /\ b.query \in DOMAIN asked /\ asked[b.query] \in Answer
    BY <1>1 DEF Of, IInv, Wire, Answer
  <2>2. /\ asked[a.query] = "returnValue" /\ a.query \in refused
        /\ asked[b.query] = "returnError"
    BY <1>1, <2>1 DEF IInv, Answering
  <2>3. Asked("returnValue") /\ Asked("returnError")
    BY <2>1, <2>2 DEF Asked
  <2>4. QED
    BY <1>1, <2>2, <2>3 DEF IInv, Order
<1>2. QED
  BY <1>1, Inductive, PTL

(* The function is called at most once, with arguments the engine sent, and
   before its value is.                                                    *)
THEOREM CallPrecedesAnswer == Spec => []CalledBeforeAnswered
<1>1. IInv => CalledBeforeAnswered
  BY SentAsked DEF IInv, Order, Told, Ran, CalledBeforeAnswered
<1>2. QED
  BY <1>1, Inductive, PTL

---------------------------------------------------------------------------
(* Types. *)
Typed ==
  /\ mode \in Mode
  /\ outcome \in {"none", "ok", "reported", "unreported", "failed", "UnknownFunction"}
  /\ sent \subseteq Client!Request
  /\ received \in 0 .. Len(Plan)

---------------------------------------------------------------------------
(* The plan.  A plan is closed when a step embeds earlier ones only, and
   every step but the last is embedded by a later one.                     *)
StepKinds == {"typeDef", "function", "moduleName", "object", "constructor", "module"}
Step == [kind : StepKinds, embeds : SUBSET Nat]

Closed(p) ==
  /\ p \in Seq(Step) /\ p # <<>>
  /\ \A j \in DOMAIN p : p[j].embeds \subseteq 1 .. j - 1
  /\ \A i \in 1 .. Len(p) - 1 : \E j \in i + 1 .. Len(p) : j - i \in p[j].embeds

(* A sequence with one element more. *)
LEMMA WithLast ==
  ASSUME NEW S, NEW s \in Seq(S), NEW e \in S, NEW p, p = s \o <<e>>
  PROVE  /\ p \in Seq(S) /\ Len(p) = Len(s) + 1 /\ p # <<>> /\ Len(s) \in Nat
         /\ \A i \in 1 .. Len(s) : p[i] = s[i]
         /\ p[Len(s) + 1] = e
OBVIOUS

(* A node over closed plans is closed: the steps of a child embed what they
   embedded, moved along, and the node embeds the last step of each.       *)
LEMMA NodeClosed ==
  ASSUME NEW kind \in StepKinds, NEW subs \in Seq(Seq(Step)), \A k \in 1 .. Len(subs) : Closed(subs[k])
  PROVE  Closed(Node(kind, subs))
<1> DEFINE n == Len(subs)
           flat == FlattenSeq(subs)
           e == [kind |-> kind, embeds |-> {Len(FlattenSeq(SubSeq(subs, k + 1, Len(subs)))) + 1 : k \in DOMAIN subs}]
<1>1. PICK at : /\ Offsets(at, subs) /\ Len(flat) = at[n]
                /\ \A k \in 1 .. n : \A i \in 1 .. Len(subs[k]) :
                     at[k - 1] + i \in 1 .. at[n] /\ flat[at[k - 1] + i] = subs[k][i]
  BY FlattenBlocks
<1>2. /\ n \in Nat /\ \A k \in 0 .. n : k \in Nat /\ at[k] \in Nat
      /\ \A k \in 1 .. n : k - 1 \in 0 .. n /\ Len(subs[k]) \in Nat /\ at[k] = at[k - 1] + Len(subs[k])
      /\ at[0] = 0 /\ at[n] \in Nat
  BY <1>1, OffsetsFacts
<1>3. \A k \in 1 .. n : at[k] \in Nat /\ at[k] <= at[n] /\ at[k] > 0
  <2>1. TAKE k \in 1 .. n
  <2>2. k \in 0 .. n /\ at[k - 1] \in Nat
    BY <1>2
  <2>3. at[k] <= at[n]
    BY <1>1, <2>2, OffsetsGrow
  <2>4. subs[k] # <<>> /\ subs[k] \in Seq(Step)
    BY DEF Closed
  <2>5. Len(subs[k]) > 0
    BY <2>4
  <2>6. QED
    BY <1>2, <2>2, <2>3, <2>5
<1>4. \A k \in 1 .. n : Len(FlattenSeq(SubSeq(subs, k + 1, Len(subs)))) = at[n] - at[k]
  <2>1. \A k \in 1 .. n : k \in 0 .. n
    BY <1>2
  <2>2. QED
    BY <1>1, <2>1, SuffixLength
<1>5. DOMAIN subs = 1 .. n
  OBVIOUS
<1>6. e.embeds = {at[n] - at[k] + 1 : k \in 1 .. n}
  BY <1>4, <1>5
<1>7. e \in Step
  <2>1. e.embeds \subseteq Nat
    BY <1>2, <1>3, <1>6
  <2>2. QED
    BY <2>1 DEF Step
<1>8. flat \in Seq(Step)
  BY FlattenBlocks
<1>9. Node(kind, subs) = flat \o <<e>>
  BY DEF Node
<1> HIDE DEF n, flat, e
<1>10. PICK p : p = Node(kind, subs)
  OBVIOUS
<1>11. /\ p \in Seq(Step) /\ Len(p) = at[n] + 1 /\ p # <<>>
       /\ \A i \in 1 .. at[n] : p[i] = flat[i]
       /\ p[at[n] + 1] = e
  BY <1>1, <1>7, <1>8, <1>9, <1>10, WithLast
<1>12. \A i \in 1 .. at[n] : \E k \in 1 .. n : i - at[k - 1] \in 1 .. Len(subs[k])
  BY <1>1, BlockOf DEF n
<1>13. \A k \in 1 .. n : \A i \in 1 .. Len(subs[k]) : at[k - 1] + i \in 1 .. at[n] /\ p[at[k - 1] + i] = subs[k][i]
  BY <1>1, <1>11
<1>14. ASSUME NEW j \in 1 .. Len(p) PROVE p[j].embeds \subseteq 1 .. j - 1
  <2>1. CASE j = at[n] + 1
    <3>1. p[j].embeds = {at[n] - at[k] + 1 : k \in 1 .. n}
      BY <1>6, <1>11, <2>1
    <3>2. \A k \in 1 .. n : at[n] - at[k] + 1 \in 1 .. j - 1
      <4>1. TAKE k \in 1 .. n
      <4>2. at[k] \in Nat /\ at[k] <= at[n] /\ at[k] > 0 /\ at[n] \in Nat
        BY <1>2, <1>3
      <4>3. QED
        BY <2>1, <4>2
    <3>3. QED
      BY <3>1, <3>2
  <2>2. CASE j # at[n] + 1
    <3>1. j \in 1 .. at[n]
      BY <1>2, <1>11, <2>2
    <3>2. PICK k \in 1 .. n : j - at[k - 1] \in 1 .. Len(subs[k])
      BY <1>12, <3>1
    <3>3. at[k - 1] \in Nat /\ at[k - 1] + (j - at[k - 1]) = j
      BY <1>2, <3>1
    <3>4. p[j] = subs[k][j - at[k - 1]]
      BY <1>13, <3>2, <3>3
    <3>5. Closed(subs[k]) /\ DOMAIN subs[k] = 1 .. Len(subs[k])
      BY DEF Closed, n
    <3>6. p[j].embeds \subseteq 1 .. (j - at[k - 1]) - 1
      BY <3>2, <3>4, <3>5 DEF Closed
    <3>7. QED
      BY <3>1, <3>3, <3>6
  <2>3. QED
    BY <2>1, <2>2
<1>15. ASSUME NEW i \in 1 .. Len(p) - 1 PROVE \E j \in i + 1 .. Len(p) : j - i \in p[j].embeds
  <2>1. i \in 1 .. at[n]
    BY <1>2, <1>11
  <2>2. PICK k \in 1 .. n : i - at[k - 1] \in 1 .. Len(subs[k])
    BY <1>12, <2>1
  <2>3. /\ at[k - 1] \in Nat /\ at[k] = at[k - 1] + Len(subs[k]) /\ Len(subs[k]) \in Nat /\ at[k] \in Nat
    BY <1>2
  <2>4. CASE i = at[k]
    <3>1. at[n] + 1 \in i + 1 .. Len(p)
      BY <1>2, <1>11, <2>1
    <3>2. (at[n] + 1) - i = at[n] - at[k] + 1
      BY <1>2, <2>1, <2>3, <2>4
    <3>3. QED
      BY <1>6, <1>11, <3>1, <3>2
  <2>5. CASE i # at[k]
    <3>1. i - at[k - 1] \in 1 .. Len(subs[k]) - 1
      BY <2>1, <2>2, <2>3, <2>5
    <3>2. PICK m \in (i - at[k - 1]) + 1 .. Len(subs[k]) : m - (i - at[k - 1]) \in subs[k][m].embeds
      BY <3>1 DEF Closed, n
    <3>3. m \in 1 .. Len(subs[k])
      BY <2>1, <2>3, <3>1, <3>2
    <3>4. at[k - 1] + m \in 1 .. at[n] /\ p[at[k - 1] + m] = subs[k][m]
      BY <1>13, <3>3
    <3>5. at[k - 1] + m \in i + 1 .. Len(p) /\ (at[k - 1] + m) - i = m - (i - at[k - 1])
      <4>1. at[n] \in Nat /\ i \in Nat /\ m \in Nat /\ at[k - 1] \in Nat
        BY <1>2, <2>1, <2>3, <3>3
      <4>2. m >= (i - at[k - 1]) + 1
        BY <3>2, <4>1
      <4>3. at[k - 1] + m <= at[n] /\ Len(p) = at[n] + 1
        BY <1>11, <3>4, <4>1
      <4>4. PICK a, b \in Nat : a = at[k - 1] /\ b = at[n]
        BY <4>1
      <4>5. a + m \in i + 1 .. b + 1 /\ (a + m) - i = m - (i - a)
        <5>1. m >= (i - a) + 1 /\ a + m <= b
          BY <4>2, <4>3, <4>4
        <5>2. i \in Nat /\ m \in Nat
          BY <4>1
        <5>3. QED
          BY <5>1, <5>2
      <4>6. QED
        BY <4>3, <4>4, <4>5
    <3>6. QED
      BY <3>2, <3>4, <3>5
  <2>6. QED
    BY <2>4, <2>5
<1>16. DOMAIN p = 1 .. Len(p)
  BY <1>11
<1>17. Closed(p)
  BY <1>11, <1>14, <1>15, <1>16 DEF Closed
<1>18. QED
  BY <1>10, <1>17

---------------------------------------------------------------------------
(* The recursion over the types ends, since no type contains itself, so that
   TypeDefSteps satisfies the equation it is defined by (buildTypeDefID).  *)
TypeDefEquation ==
  TypeDefSteps = [t \in Types |-> Node("typeDef", [k \in DOMAIN Parts[t] |-> TypeDefSteps[Parts[t][k]]])]

(* A size in which the parts of a type are smaller than the type. *)
Sized(size) ==
  /\ size \in [Types -> Nat]
  /\ \A t \in Types : \A k \in DOMAIN Parts[t] : Parts[t][k] \in Types /\ size[Parts[t][k]] < size[t]

LEMMA TypesSized == \E size, n : n \in Nat /\ Sized(size) /\ \A t \in Types : size[t] < n
<1>1. Cardinality(Types) \in Nat
  BY ServerAssumption, FS_CardinalityType
<1>2. PICK size \in [Types -> 0 .. Cardinality(Types)] :
        \A t \in Types : \A k \in DOMAIN Parts[t] : size[Parts[t][k]] < size[t]
  BY ServerAssumption
<1>3. \A t \in Types : \A k \in DOMAIN Parts[t] : Parts[t][k] \in Types
  BY ServerAssumption
<1>4. Sized(size)
  BY <1>1, <1>2, <1>3 DEF Sized
<1>5. \A t \in Types : size[t] < Cardinality(Types) + 1
  BY <1>1, <1>2
<1>6. QED
  BY <1>1, <1>4, <1>5

(* A solution for the types of size below n extends to those of size n.     *)
LEMMA TypeDefsDefined == TypeDefEquation
<1>1. PICK size, N : N \in Nat /\ Sized(size) /\ \A t \in Types : size[t] < N
  BY TypesSized
<1> DEFINE U(n) == {t \in Types : size[t] < n}
           D(n, f) == [t \in U(n) |-> Node("typeDef", [k \in DOMAIN Parts[t] |-> f[Parts[t][k]]])]
           T == {n \in Nat : \E f : f = D(n, f)}
<1>2. 0 \in T /\ T \in SUBSET Nat
  <2>1. U(0) = {}
    BY <1>1 DEF Sized
  <2>2. D(0, 0) = D(0, D(0, 0))
    BY <2>1
  <2>3. QED
    BY <2>2
<1>3. ASSUME NEW n \in T PROVE n + 1 \in T
  <2>1. PICK f : f = D(n, f)
    OBVIOUS
  <2> DEFINE g == D(n + 1, f)
  <2>2. \A t \in U(n + 1) : \A k \in DOMAIN Parts[t] : g[Parts[t][k]] = f[Parts[t][k]]
    <3>1. TAKE t \in U(n + 1)
    <3>2. TAKE k \in DOMAIN Parts[t]
    <3>3. Parts[t][k] \in U(n) /\ Parts[t][k] \in U(n + 1)
      BY <1>1 DEF Sized
    <3>4. g[Parts[t][k]] = D(n, f)[Parts[t][k]]
      BY <3>3
    <3>5. QED
      BY <2>1, <3>4
  <2>3. \A t \in U(n + 1) : [k \in DOMAIN Parts[t] |-> g[Parts[t][k]]] = [k \in DOMAIN Parts[t] |-> f[Parts[t][k]]]
    BY <2>2
  <2>4. g = D(n + 1, g)
    BY <2>3
  <2>5. \E h : h = D(n + 1, h)
    <3> HIDE DEF D
    <3>1. QED
      BY <2>4
  <2> HIDE DEF D
  <2>6. n + 1 \in Nat
    OBVIOUS
  <2>7. QED
    BY <2>5, <2>6
<1>4. N \in T
  <2> HIDE DEF T
  <2>1. T = Nat
    BY <1>2, <1>3, Induction
  <2>2. QED
    BY <1>1, <2>1
<1> DEFINE E(f) == [t \in Types |-> Node("typeDef", [k \in DOMAIN Parts[t] |-> f[Parts[t][k]]])]
<1>5. U(N) = Types
  BY <1>1
<1>6. \E f : f = E(f)
  BY <1>4, <1>5
<1>7. TypeDefSteps = CHOOSE f : f = E(f)
  BY DEF TypeDefSteps
<1>8. TypeDefSteps = E(TypeDefSteps)
  <2> HIDE DEF E
  <2>1. QED
    BY <1>6, <1>7
<1>9. QED
  BY <1>8 DEF TypeDefEquation

(* The plans of the parts of a type or of the arguments of a function. *)
LEMMA SubStepsClosed ==
  ASSUME NEW parts \in Seq(Types), NEW F, \A k \in DOMAIN parts : Closed(F[parts[k]]),
         NEW subs, subs = [k \in DOMAIN parts |-> F[parts[k]]]
  PROVE  subs \in Seq(Seq(Step)) /\ Len(subs) = Len(parts) /\ \A k \in 1 .. Len(subs) : Closed(subs[k])
<1>1. DOMAIN parts = 1 .. Len(parts) /\ Len(parts) \in Nat
  OBVIOUS
<1>2. \A k \in 1 .. Len(parts) : F[parts[k]] \in Seq(Step)
  BY <1>1 DEF Closed
<1>3. subs \in [1 .. Len(parts) -> Seq(Step)]
  BY <1>1, <1>2
<1>4. subs \in Seq(Seq(Step)) /\ Len(subs) = Len(parts)
  <2> DEFINE X == Seq(Step)
  <2>1. subs \in [1 .. Len(parts) -> X]
    BY <1>3
  <2> HIDE DEF X
  <2>2. subs \in Seq(X) /\ Len(subs) = Len(parts)
    BY <1>1, <2>1
  <2>3. QED
    BY <2>2 DEF X
<1>5. QED
  BY <1>1, <1>4

(* By induction over the size of the type. *)
LEMMA TypeDefsClosed == \A t \in Types : Closed(TypeDefSteps[t])
<1>1. PICK size, N : N \in Nat /\ Sized(size) /\ \A t \in Types : size[t] < N
  BY TypesSized
<1> DEFINE T == {n \in Nat : \A t \in Types : size[t] < n => Closed(TypeDefSteps[t])}
<1>2. 0 \in T /\ T \in SUBSET Nat
  BY <1>1 DEF Sized
<1>3. ASSUME NEW n \in T PROVE n + 1 \in T
  <2> SUFFICES ASSUME NEW t \in Types, size[t] < n + 1 PROVE Closed(TypeDefSteps[t])
    OBVIOUS
  <2>1. Parts[t] \in Seq(Types)
    BY ServerAssumption
  <2>2. \A k \in DOMAIN Parts[t] : Closed(TypeDefSteps[Parts[t][k]])
    BY <1>1, <1>3 DEF Sized
  <2>3. PICK subs : subs = [k \in DOMAIN Parts[t] |-> TypeDefSteps[Parts[t][k]]]
    OBVIOUS
  <2>4. subs \in Seq(Seq(Step)) /\ \A k \in 1 .. Len(subs) : Closed(subs[k])
    BY <2>1, <2>2, <2>3, SubStepsClosed
  <2>5. TypeDefSteps[t] = Node("typeDef", subs)
    BY <2>3, TypeDefsDefined DEF TypeDefEquation
  <2>6. QED
    <3>1. PICK kind : kind = "typeDef"
      OBVIOUS
    <3>2. kind \in StepKinds
      BY <3>1 DEF StepKinds
    <3>3. Closed(Node(kind, subs))
      BY <2>4, <3>2, NodeClosed
    <3>4. QED
      BY <2>5, <3>1, <3>3
<1>4. T = Nat
  <2> HIDE DEF T
  <2>1. QED
    BY <1>2, <1>3, Induction
<1>5. QED
  BY <1>1, <1>4

(* buildFunctionID, buildModuleObjectID. *)
LEMMA FunctionClosed ==
  ASSUME NEW f, f.returns \in Types, f.args \in Seq(Types)
  PROVE  Closed(FunctionSteps(f))
<1>1. PICK parts : parts = <<f.returns>> \o f.args
  OBVIOUS
<1>2. parts \in Seq(Types)
  BY <1>1
<1>3. PICK subs : subs = [k \in DOMAIN parts |-> TypeDefSteps[parts[k]]]
  OBVIOUS
<1>4. subs \in Seq(Seq(Step)) /\ \A k \in 1 .. Len(subs) : Closed(subs[k])
  <2>1. \A k \in DOMAIN parts : Closed(TypeDefSteps[parts[k]])
    BY <1>2, TypeDefsClosed
  <2>2. QED
    BY <1>2, <1>3, <2>1, SubStepsClosed
<1>5. subs = <<TypeDefSteps[f.returns]>> \o [k \in DOMAIN f.args |-> TypeDefSteps[f.args[k]]]
  <2>1. PICK rest : rest = [k \in DOMAIN f.args |-> TypeDefSteps[f.args[k]]]
    OBVIOUS
  <2> DEFINE X == Seq(Step)
  <2>2. rest \in Seq(X) /\ Len(rest) = Len(f.args)
    <3>1. PICK args : args = f.args /\ args \in Seq(Types)
      OBVIOUS
    <3>2. \A k \in DOMAIN args : Closed(TypeDefSteps[args[k]])
      BY <3>1, TypeDefsClosed
    <3>2a. rest = [k \in DOMAIN args |-> TypeDefSteps[args[k]]]
      BY <2>1, <3>1
    <3>2b. args \in Seq(Types)
      BY <3>1
    <3>3. rest \in Seq(Seq(Step)) /\ Len(rest) = Len(args)
      BY <3>2, <3>2a, <3>2b, SubStepsClosed
    <3>4. QED
      BY <3>1, <3>3
  <2>3. TypeDefSteps[f.returns] \in X
    BY TypeDefsClosed DEF Closed
  <2> HIDE DEF X
  <2>4. PICK first, all : first = TypeDefSteps[f.returns] /\ all = <<first>> \o rest
    OBVIOUS
  <2>5. /\ all \in Seq(X) /\ Len(all) = 1 + Len(f.args)
        /\ all[1] = first /\ \A k \in 1 .. Len(f.args) : all[k + 1] = rest[k]
    BY <2>2, <2>3, <2>4
  <2>6. /\ Len(parts) = 1 + Len(f.args) /\ DOMAIN parts = 1 .. Len(parts) /\ Len(f.args) \in Nat
        /\ parts[1] = f.returns /\ \A k \in 1 .. Len(f.args) : parts[k + 1] = f.args[k]
    BY <1>1
  <2>7. \A k \in 1 .. Len(f.args) : rest[k] = TypeDefSteps[f.args[k]]
    BY <2>1
  <2>8. \A k \in 1 .. 1 + Len(f.args) : all[k] = TypeDefSteps[parts[k]]
    <3>1. TAKE k \in 1 .. 1 + Len(f.args)
    <3>2. CASE k = 1
      BY <2>4, <2>5, <2>6, <3>2
    <3>3. CASE k # 1
      <4>1. k - 1 \in 1 .. Len(f.args) /\ (k - 1) + 1 = k
        BY <2>6, <3>3
      <4>2. all[(k - 1) + 1] = rest[k - 1] /\ parts[(k - 1) + 1] = f.args[k - 1]
        BY <2>5, <2>6, <4>1
      <4>3. QED
        BY <2>7, <4>1, <4>2
    <3>4. QED
      BY <3>2, <3>3
  <2>9. all = [k \in 1 .. 1 + Len(f.args) |-> all[k]]
    BY <2>5
  <2>10. all = subs
    BY <1>3, <2>6, <2>8, <2>9
  <2>11. QED
    BY <2>1, <2>4, <2>10
<1>6. FunctionSteps(f) = Node("function", subs)
  BY <1>5 DEF FunctionSteps
<1>7. PICK kind : kind = "function"
  OBVIOUS
<1>8. kind \in StepKinds
  BY <1>7 DEF StepKinds
<1>9. Closed(Node(kind, subs))
  BY <1>4, <1>8, NodeClosed
<1>10. QED
  BY <1>6, <1>7, <1>9

LEMMA ObjectClosed == Closed(ObjectSteps)
<1>1. Closed(NameSteps)
  <2>1. PICK e : e = [kind |-> "moduleName", embeds |-> {}]
    OBVIOUS
  <2>2. e \in Step /\ e.embeds = {}
    BY <2>1 DEF Step, StepKinds
  <2>3. PICK p : p = <<e>>
    OBVIOUS
  <2>4. p \in Seq(Step) /\ Len(p) = 1 /\ DOMAIN p = {1} /\ p[1] = e /\ p # <<>>
    BY <2>2, <2>3
  <2>5. Closed(p)
    BY <2>2, <2>4 DEF Closed
  <2>6. QED
    BY <2>1, <2>3, <2>5 DEF NameSteps
<1> DEFINE X == Seq(Step)
<1>2. PICK rest : rest = [k \in DOMAIN Functions |-> FunctionSteps(Functions[k])]
  OBVIOUS
<1>3. Len(Functions) \in Nat /\ DOMAIN Functions = 1 .. Len(Functions)
  BY ServerAssumption
<1>4. \A k \in 1 .. Len(Functions) : Closed(FunctionSteps(Functions[k]))
  <2>1. TAKE k \in 1 .. Len(Functions)
  <2>2. Functions[k] \in [returns : Types, args : Seq(Types)]
    <3> DEFINE R == [returns : Types, args : Seq(Types)]
    <3>1. Functions \in Seq(R)
      BY ServerAssumption
    <3> HIDE DEF R
    <3>2. Functions[k] \in R
      BY <1>3, <3>1
    <3>3. QED
      BY <3>2 DEF R
  <2>3. QED
    BY <2>2, FunctionClosed
<1>5. \A k \in 1 .. Len(Functions) : rest[k] = FunctionSteps(Functions[k]) /\ rest[k] \in X
  BY <1>2, <1>3, <1>4 DEF Closed
<1>6. NameSteps \in X
  BY <1>1 DEF Closed
<1> HIDE DEF X
<1>7. rest \in Seq(X) /\ Len(rest) = Len(Functions)
  BY <1>2, <1>3, <1>5
<1>8. PICK first, subs : first = NameSteps /\ subs = <<first>> \o rest
  OBVIOUS
<1>9. /\ subs \in Seq(X) /\ Len(subs) = 1 + Len(Functions)
      /\ subs[1] = first /\ \A k \in 1 .. Len(Functions) : subs[k + 1] = rest[k]
  BY <1>3, <1>6, <1>7, <1>8
<1>10. \A k \in 1 .. Len(subs) : Closed(subs[k])
  <2>1. TAKE k \in 1 .. Len(subs)
  <2>2. CASE k = 1
    BY <1>1, <1>8, <1>9, <2>2
  <2>3. CASE k # 1
    <3>1. k - 1 \in 1 .. Len(Functions) /\ (k - 1) + 1 = k
      BY <1>3, <1>9, <2>3
    <3>2. subs[(k - 1) + 1] = FunctionSteps(Functions[k - 1])
      BY <1>5, <1>9, <3>1
    <3>3. QED
      BY <1>4, <3>1, <3>2
  <2>4. QED
    BY <2>2, <2>3
<1>11. ObjectSteps = Node("object", subs)
  BY <1>2, <1>8 DEF ObjectSteps
<1>12. PICK kind : kind = "object"
  OBVIOUS
<1>13. kind \in StepKinds
  BY <1>12 DEF StepKinds
<1>14. Closed(Node(kind, subs))
  BY <1>9, <1>10, <1>13, NodeClosed DEF X
<1>15. QED
  BY <1>11, <1>12, <1>14

(* The object is built again, with the constructor made in between.        *)
LEMMA PlanClosed == Closed(Plan)
<1> DEFINE c == [kind |-> "constructor", embeds |-> {1}]
           o == [kind |-> "object", embeds |-> {d + 2 : d \in Last(ObjectSteps).embeds} \union {1}]
           m == [kind |-> "module", embeds |-> {1}]
<1>1. PICK s, n : s = ObjectSteps /\ n = Len(s)
  OBVIOUS
<1>2. /\ s \in Seq(Step) /\ s # <<>> /\ DOMAIN s = 1 .. n /\ n \in Nat /\ n > 0
      /\ \A j \in 1 .. n : s[j].embeds \subseteq 1 .. j - 1
      /\ \A i \in 1 .. n - 1 : \E j \in i + 1 .. n : j - i \in s[j].embeds
  BY <1>1, ObjectClosed DEF Closed
<1>3. Last(ObjectSteps) = s[n]
  BY <1>1 DEF Last
<1>4. \A d \in s[n].embeds : d \in 1 .. n - 1
  BY <1>2
<1>5. c \in Step /\ o \in Step /\ m \in Step
  BY <1>2, <1>3, <1>4 DEF Step, StepKinds
<1>6. c.embeds = {1} /\ m.embeds = {1} /\ o.embeds = {d + 2 : d \in s[n].embeds} \union {1}
  BY <1>3
<1>7. Plan = s \o <<c, o, m>>
  BY <1>1 DEF Plan
<1> HIDE DEF c, o, m
<1>8. PICK p : p = s \o <<c, o, m>>
  OBVIOUS
<1>9. /\ p \in Seq(Step) /\ Len(p) = n + 3 /\ p # <<>> /\ DOMAIN p = 1 .. n + 3
      /\ \A i \in 1 .. n : p[i] = s[i]
      /\ p[n + 1] = c /\ p[n + 2] = o /\ p[n + 3] = m
  BY <1>1, <1>2, <1>5, <1>8
<1>10. ASSUME NEW j \in 1 .. n + 3 PROVE p[j].embeds \subseteq 1 .. j - 1
  <2>1. CASE j \in 1 .. n
    BY <1>2, <1>9, <2>1
  <2>2. CASE j = n + 1 \/ j = n + 3
    BY <1>2, <1>6, <1>9, <2>2
  <2>3. CASE j = n + 2
    <3>1. p[j].embeds = {d + 2 : d \in s[n].embeds} \union {1}
      BY <1>6, <1>9, <2>3
    <3>2. \A d \in s[n].embeds : d + 2 \in 1 .. j - 1
      BY <1>2, <1>4, <2>3
    <3>3. QED
      BY <1>2, <2>3, <3>1, <3>2
  <2>4. QED
    BY <1>2, <2>1, <2>2, <2>3
<1>11. ASSUME NEW i \in 1 .. n + 2 PROVE \E j \in i + 1 .. n + 3 : j - i \in p[j].embeds
  <2>1. CASE i \in 1 .. n - 1
    <3>1. PICK j \in i + 1 .. n : j - i \in s[j].embeds
      BY <1>2, <2>1
    <3>2. j \in 1 .. n /\ j \in i + 1 .. n + 3
      BY <1>2, <2>1, <3>1
    <3>3. QED
      BY <1>9, <3>1, <3>2
  <2>2. CASE i = n
    <3>1. n + 1 \in i + 1 .. n + 3 /\ (n + 1) - i \in p[n + 1].embeds
      BY <1>2, <1>6, <1>9, <2>2
    <3>2. QED
      BY <3>1
  <2>3. CASE i = n + 1
    <3>1. n + 2 \in i + 1 .. n + 3 /\ (n + 2) - i \in p[n + 2].embeds
      BY <1>2, <1>6, <1>9, <2>3
    <3>2. QED
      BY <3>1
  <2>4. CASE i = n + 2
    <3>1. n + 3 \in i + 1 .. n + 3 /\ (n + 3) - i \in p[n + 3].embeds
      BY <1>2, <1>6, <1>9, <2>4
    <3>2. QED
      BY <3>1
  <2>5. QED
    BY <1>2, <2>1, <2>2, <2>3, <2>4
<1>12. Closed(p)
  BY <1>2, <1>9, <1>10, <1>11 DEF Closed
<1>13. QED
  BY <1>7, <1>8, <1>12

---------------------------------------------------------------------------
(* The registration.  Leaves counts the steps of the plan that were asked. *)
Leaves == Cardinality({i \in DOMAIN asked : asked[i] = "leaf"})

(* At most one step more was asked than is answered, none before the
   engine said that it wants the types, and the value only after the last. *)
Registering ==
  /\ Leaves \in Nat /\ Leaves <= received + 1 /\ Leaves <= Len(Plan)
  /\ pc = "leaf" => received < Len(Plan)
  /\ pc \in {"start", "parentName"} => received = 0 /\ Leaves = 0
  /\ mode = "introspection" /\ Asked("returnValue") => received = Len(Plan)

LEMMA CountLeaves ==
  ASSUME asked \in Seq(Kinds)
  PROVE  /\ Leaves \in Nat
         /\ \A kind : asked' = Append(asked, kind) =>
              Leaves' = IF kind = "leaf" THEN Leaves + 1 ELSE Leaves
<1> DEFINE L == {i \in DOMAIN asked : asked[i] = "leaf"}
<1>1. IsFiniteSet(L) /\ Cardinality(L) \in Nat
  <2>1. Len(asked) \in Nat /\ DOMAIN asked = 1 .. Len(asked)
    OBVIOUS
  <2>2. IsFiniteSet(1 .. Len(asked))
    BY <2>1, FS_Interval
  <2>3. L \subseteq 1 .. Len(asked)
    BY <2>1
  <2>4. QED
    BY <2>2, <2>3, FS_Subset, FS_CardinalityType
<1>2. ASSUME NEW kind, asked' = Append(asked, kind)
      PROVE  Leaves' = IF kind = "leaf" THEN Leaves + 1 ELSE Leaves
  <2>1. /\ DOMAIN asked' = 1 .. Len(asked) + 1 /\ DOMAIN asked = 1 .. Len(asked)
        /\ Len(asked) \in Nat
        /\ \A i \in 1 .. Len(asked) : asked'[i] = asked[i]
        /\ asked'[Len(asked) + 1] = kind
    BY <1>2
  <2>2. {i \in DOMAIN asked' : asked'[i] = "leaf"}
          = IF kind = "leaf" THEN L \union {Len(asked) + 1} ELSE L
    BY <2>1
  <2>3. Len(asked) + 1 \notin L
    BY <2>1
  <2>4. Cardinality(L \union {Len(asked) + 1}) = Cardinality(L) + 1
    BY <1>1, <2>3, FS_AddElement
  <2>5. QED
    BY <2>2, <2>4 DEF Leaves
<1>3. QED
  BY <1>1, <1>2 DEF Leaves

(* The steps that ask for anything but a step of the plan, that end, or that
   are not serve()'s own.                                                  *)
LEMMA OtherStep ==
  ASSUME IInv, Registering, Typed,
         received' = received, mode' = mode,
         \/ asked' = asked
         \/ \E kind \in Kinds \ {"leaf"} :
              asked' = Append(asked, kind) /\ (kind = "returnValue" => mode # "introspection"),
         pc' # "leaf" \/ (pc' = pc /\ asked' = asked),
         pc' \in {"start", "parentName"} => pc \in {"start", "parentName"}
  PROVE  Registering'
<1>1. asked \in Seq(Kinds)
  BY DEF IInv, Wire
<1>2. Leaves' = Leaves
  BY <1>1, CountLeaves DEF Leaves
<1>3. Asked("returnValue")' /\ mode = "introspection" => Asked("returnValue")
  <2>1. CASE asked' = asked
    BY <2>1 DEF Asked
  <2>2. ASSUME NEW kind \in Kinds \ {"leaf"}, asked' = Append(asked, kind),
               kind = "returnValue" => mode # "introspection"
        PROVE  Asked("returnValue")' /\ mode = "introspection" => Asked("returnValue")
    BY <1>1, <2>2 DEF Asked
  <2>3. QED
    BY <2>1, <2>2
<1>4. Leaves' \in Nat /\ Leaves' <= received' + 1 /\ Leaves' <= Len(Plan)
  BY <1>2 DEF Registering
<1>5. QED
  BY <1>2, <1>3, <1>4 DEF Registering

(* The steps that ask for a step of the plan, or for the value after it. *)
LEMMA LeafStep ==
  ASSUME IInv, Registering, Typed,
         \/ GetsParentName /\ mode = "introspection"
         \/ LeafSucceeds \/ NoModuleName
  PROVE  Registering' /\ Typed'
<1>1. asked \in Seq(Kinds) /\ Len(Plan) \in Nat \ {0} /\ received \in 0 .. Len(Plan)
  BY PlanClosed DEF IInv, Wire, Typed, Closed
<1>2. CASE GetsParentName /\ mode = "introspection"
  <2>1. /\ asked' = Append(asked, "leaf") /\ pc' = "leaf" /\ pc = "parentName"
        /\ UNCHANGED <<mode, received, outcome, sent>>
    BY <1>2 DEF GetsParentName, Ask, Succeeded, Answered, Client!SBegin
  <2>2. received = 0 /\ Leaves = 0
    BY <2>1 DEF Registering
  <2>3. Leaves' = 1
    BY <1>1, <2>1, <2>2, CountLeaves
  <2>4. ~Asked("returnValue")'
    BY <1>1, <2>1 DEF IInv, Order, Asked
  <2>5. QED
    BY <1>1, <2>1, <2>2, <2>3, <2>4 DEF Registering, Typed
<1>3. CASE LeafSucceeds \/ NoModuleName
  <2>1. pc = "leaf" /\ Learn
    BY <1>3 DEF LeafSucceeds, NoModuleName, Succeeded, ReadFails, Answered
  <2>2. received' = received + 1 /\ received < Len(Plan) /\ ~Asked("returnValue")
    BY <2>1 DEF Learn, Registering, IInv, Order
  <2>3. UNCHANGED <<mode, outcome, sent>>
    BY <2>1 DEF Learn, Ask, Client!SBegin
  <2>4. CASE received' = Len(Plan)
    <3>1. asked' = Append(asked, "returnValue") /\ pc' = "returnValue"
      BY <2>1, <2>4 DEF Learn, Ask
    <3>2. Leaves' = Leaves
      BY <1>1, <3>1, CountLeaves
    <3>3. QED
      BY <1>1, <2>2, <2>3, <2>4, <3>1, <3>2 DEF Registering, Typed
  <2>5. CASE received' # Len(Plan)
    <3>1. asked' = Append(asked, "leaf") /\ pc' = "leaf"
      BY <2>1, <2>5 DEF Learn, Ask
    <3>2. Leaves' = Leaves + 1
      BY <1>1, <3>1, CountLeaves
    <3>3. ~Asked("returnValue")'
      BY <1>1, <2>2, <3>1 DEF Asked
    <3>4. QED
      BY <1>1, <2>2, <2>3, <2>5, <3>1, <3>2, <3>3 DEF Registering, Typed
  <2>6. QED
    BY <2>4, <2>5
<1>4. QED
  BY <1>2, <1>3

LEMMA TypedStep == ASSUME IInv, Typed, [Next]_vars, received' \in 0 .. Len(Plan) PROVE Typed'
<1>1. ASSUME NEW how \in {"ok", "reported", "unreported", "failed", "UnknownFunction"}, End(how)
      PROVE  Typed'
  BY <1>1 DEF End, Typed
<1>2. ASSUME NEW kind, Ask(kind) PROVE Typed'
  BY <1>2 DEF Ask, Client!SBegin, Typed
<1>3. CASE ServeStep
  <2>1. CASE Invoke
    BY <2>1 DEF Invoke, Typed
  <2>2. CASE LeafSucceeds \/ NoModuleName \/ LeafFails
    BY <1>2, <2>2 DEF LeafSucceeds, NoModuleName, LeafFails, Learn
  <2>3. CASE ServeConnects \/ GetsParentName \/ GetsName \/ BadArgs \/ GetsErrorId
    BY <1>2, <2>3 DEF ServeConnects, GetsParentName, GetsName, BadArgs, GetsErrorId
  <2>4. CASE ConnectFails \/ UnknownFunction \/ ProtocolReadFails \/ ValueReturned
               \/ ErrorReturned \/ ReportFails
    BY <1>1, <2>4 DEF ConnectFails, UnknownFunction, ProtocolReadFails, ValueReturned,
                      ErrorReturned, ReportFails
  <2>5. CASE ValueRefused
    BY <1>1, <1>2, <2>5 DEF ValueRefused
  <2>6. QED
    BY <1>3, <2>1, <2>2, <2>3, <2>4, <2>5 DEF ServeStep
<1>4. CASE UserStep
  BY <1>2, <1>4 DEF UserStep, FunctionQueries, FunctionReturns, FunctionFails, Client!SBegin, Typed
<1>5. CASE ClientSends
  <2>1. PICK a \in 0 .. MaxAttempts - 1 :
          sent' = sent \union {[task |-> Serve, query |-> queryNo[Serve], attempt |-> a]}
    BY <1>5 DEF ClientSends, Client!SSend
  <2>2. queryNo[Serve] \in Nat /\ a \in Nat
    BY ServerAssumption DEF ServerAssumption, IInv, Wire, Serve
  <2>3. QED
    BY <1>5, <2>1, <2>2 DEF ClientSends, serveVars, Typed, Client!Request
<1>6. CASE ClientReturns \/ EngineRuns
  BY <1>6 DEF ClientReturns, EngineRuns, Client!SReturn, Client!SExecute, serveVars, Typed
<1>7. CASE UNCHANGED vars
  BY <1>7 DEF vars, serveVars, Typed
<1>8. QED
  BY <1>3, <1>4, <1>5, <1>6, <1>7 DEF Next

LEMMA RegisteringStep ==
  ASSUME IInv, Registering, Typed, [Next]_vars
  PROVE  Registering' /\ received' \in 0 .. Len(Plan)
<1>1. CASE (GetsParentName /\ mode = "introspection") \/ LeafSucceeds \/ NoModuleName
  BY <1>1, LeafStep DEF Typed
<1>2. ASSUME received' = received, Registering' PROVE Registering' /\ received' \in 0 .. Len(Plan)
  BY <1>2 DEF Typed
<1>3. ASSUME NEW how, End(how), received' = received PROVE Registering'
  BY <1>3, OtherStep DEF End
<1>4. ASSUME NEW kind \in Kinds \ {"leaf", "parentName"}, Ask(kind), received' = received,
             kind = "returnValue" => mode # "introspection"
      PROVE  Registering'
  BY <1>4, OtherStep DEF Ask, Kinds, Reads
<1>5. CASE ServeConnects
  <2>1. pc = "start" /\ asked' = Append(asked, "parentName") /\ pc' = "parentName"
        /\ UNCHANGED <<mode, received>>
    BY <1>5 DEF ServeConnects, Ask
  <2>2. Registering'
    BY <2>1, OtherStep DEF Kinds, Reads
  <2>3. QED
    BY <1>2, <2>1, <2>2
<1>6. CASE (GetsParentName /\ mode # "introspection") \/ GetsName \/ BadArgs \/ LeafFails \/ GetsErrorId
  BY <1>2, <1>4, <1>6 DEF GetsParentName, GetsName, BadArgs, LeafFails, GetsErrorId, Kinds, Reads
<1>7. CASE ConnectFails \/ UnknownFunction \/ ProtocolReadFails \/ ValueReturned
             \/ ErrorReturned \/ ReportFails
  <2>1. received' = received
    BY <1>7 DEF ConnectFails, UnknownFunction, ProtocolReadFails, ValueReturned, ErrorReturned,
                ReportFails, End
  <2>2. QED
    BY <1>2, <1>3, <1>7, <2>1 DEF ConnectFails, UnknownFunction, ProtocolReadFails, ValueReturned,
                                  ErrorReturned, ReportFails
<1>8. CASE ValueRefused
  <2>1. CASE mode = "function"
    <3>1. received' = received /\ End("failed")
      BY <1>8, <2>1 DEF ValueRefused, End
    <3>2. QED
      BY <1>2, <1>3, <3>1
  <2>2. CASE mode # "function"
    BY <1>2, <1>4, <1>8, <2>2 DEF ValueRefused, Kinds, Reads
  <2>3. QED
    BY <2>1, <2>2
<1>9. CASE Invoke
  <2>1. UNCHANGED <<mode, received, asked>> /\ pc' = "running"
    BY <1>9 DEF Invoke
  <2>2. QED
    BY <1>2, <2>1, OtherStep
<1>10. CASE UserStep
  <2>1. pc = "running" /\ mode = "function"
    BY <1>10 DEF UserStep, FunctionQueries, FunctionReturns, FunctionFails, InUserCode, Answered,
                 IInv, Told
  <2>2. CASE FunctionQueries
    <3>1. asked' = Append(asked, "user") /\ UNCHANGED <<mode, pc, received>>
      BY <2>2 DEF FunctionQueries
    <3>2. Registering'
      BY <2>1, <3>1, OtherStep DEF Kinds
    <3>3. QED
      BY <1>2, <3>1, <3>2
  <2>3. CASE FunctionReturns \/ FunctionFails
    BY <1>2, <1>4, <2>1, <2>3 DEF FunctionReturns, FunctionFails, Kinds, Reads
  <2>4. QED
    BY <1>10, <2>2, <2>3 DEF UserStep
<1>11. CASE ClientSends \/ ClientReturns \/ EngineRuns \/ UNCHANGED vars
  <2>1. UNCHANGED <<mode, pc, received, asked>>
    BY <1>11 DEF ClientSends, ClientReturns, EngineRuns, vars, serveVars
  <2>2. QED
    BY <1>2, <2>1, OtherStep
<1>12. QED
  BY <1>1, <1>5, <1>6, <1>7, <1>8, <1>9, <1>10, <1>11 DEF Next, ServeStep

LEMMA RegisteringInductive ==
  Spec => [](IInv /\ Registering /\ Typed)
<1>1. Init => Registering /\ Typed
  <2> SUFFICES ASSUME Init PROVE Registering /\ Typed
    OBVIOUS
  <2>1. /\ asked = <<>> /\ received = 0 /\ outcome = "none" /\ sent = {} /\ pc = "start"
        /\ mode \in Mode
    BY DEF Init, Client!SInit
  <2>2. {i \in DOMAIN asked : asked[i] = "leaf"} = {}
    BY <2>1
  <2>3. Leaves = 0
    BY <2>2, FS_EmptySet DEF Leaves
  <2>4. Len(Plan) \in Nat
    BY PlanClosed DEF Closed
  <2>5. QED
    BY <2>1, <2>3, <2>4 DEF Registering, Typed, Asked
<1>2. IInv /\ Registering /\ Typed /\ [Next]_vars => Registering' /\ Typed'
  BY RegisteringStep, TypedStep
<1>3. QED
  BY <1>1, <1>2, Inductive, PTL DEF Spec

(* Whatever the module's types, functions and the engine's answers, a
   registration embeds only ids it has been given, and the module is handed
   back only when every step of its plan was answered.                     *)
THEOREM RegistersEverything == Spec => []RegistrationComplete
<1>1. ASSUME IInv, Registering, Typed PROVE RegistrationComplete
  <2>1. Len(Plan) \in Nat /\ DOMAIN Plan = 1 .. Len(Plan)
    BY PlanClosed DEF Closed
  <2>2. ASSUME NEW j \in 1 .. Leaves, NEW d \in Plan[j].embeds PROVE j - d \in 1 .. received
    <3>1. received \in Nat /\ Leaves \in Nat /\ Leaves <= received + 1 /\ Leaves <= Len(Plan)
      <4>1. received \in Nat
        BY <1>1, <2>1 DEF Typed
      <4>2. Leaves \in Nat /\ Leaves <= received + 1 /\ Leaves <= Len(Plan)
        BY <1>1 DEF Registering
      <4>3. QED
        BY <4>1, <4>2
    <3>2. j \in DOMAIN Plan /\ j \in Nat /\ j <= received + 1
      BY <2>1, <2>2, <3>1
    <3>3. d \in 1 .. j - 1
      BY <2>2, <3>2, PlanClosed DEF Closed
    <3>4. QED
      BY <3>1, <3>2, <3>3
  <2>3. ASSUME mode = "introspection", Of(sent, "returnValue") # {}
        PROVE  /\ received = Len(Plan)
               /\ \A i \in 1 .. Len(Plan) - 1 :
                    \E j \in i + 1 .. Len(Plan) : j - i \in Plan[j].embeds
    BY <1>1, <2>3, SentAsked, PlanClosed DEF Registering, Closed
  <2>4. QED
    BY <2>2, <2>3 DEF RegistrationComplete, Leaves
<1>2. QED
  BY <1>1, RegisteringInductive, PTL

(* The state of serve() and of its client stays in its types. *)
THEOREM ServerTypes == Spec => []TypeOK
<1>1. ASSUME IInv, Typed PROVE TypeOK
  BY <1>1 DEF IInv, Wire, Order, Told, Typed, TypeOK
<1>2. QED
  BY <1>1, RegisteringInductive, PTL

---------------------------------------------------------------------------
(* SdkModule: from the module's first file to a call.  ModuleRuntime and Call
   depend on the files, the libraries and the schema alone, and a change of any
   makes their results forgotten: what the last ones came to is what they would
   come to now.  The rest is about the generator, by cases of GraphQL types. *)

(* What the maintainers may have generated, and the files of a directory. *)
Libraries == {GenerateZigTypes(doc) : doc \in UNION {{s.doc, CutDocument(s.doc)} : s \in Schemas}}

SourceFiles ==
  [build : {"none", "module", "client", "own", "own module-runtime"},
   main : {"none", "module", "client", "imports gen", "own"},
   gen : {"none", "shim", "typed"}, vendored : SUBSET Libraries]

(* The bindings are typed only where Codegen writes, in the module's directory. *)
SourcesTyped ==
  /\ lib \in Libraries /\ tree \in [Dirs -> SourceFiles]
  /\ \A d \in Dirs : tree[d].gen = "typed" => d = Home

(* What the last ModuleRuntime built is what it would build now, with the library
   the directory holds or the mounted one: a change of the files or of the library
   makes it forgotten.                                                      *)
BuiltFirst ==
  \/ runtime.dir = "none" /\ runtime.library = {}
  \/ /\ runtime.dir = BuildDir
     /\ \E b \in LibrariesOf(tree[BuildDir]) :
          runtime.library = {b} /\ runtime.result = Built(tree[BuildDir], b)

(* And the last call is one that the method of that library makes now.     *)
LastCall ==
  call.fate # "none" =>
    \E b \in runtime.library : \E a \in Answers(schema.field.type) :
      call = [fate |-> Fate(Method(b), schema.field, a), answer |-> a]

(* The inductive invariant. *)
SdkInv == schema \in Schemas /\ SourcesTyped /\ BuiltFirst /\ LastCall

(* The SDK and the build script agree on the module's directory. *)
LEMMA HomeIsDir == Home \in Dirs /\ JoinDir(subpath) = Home
BY DEF Home, Dirs, JoinDir, NormalizeSubpath

(* With a build file of its own, it is the one the build script takes. *)
LEMMA HomeFirst ==
  ASSUME tree[Home].build = "module"
  PROVE  BuildDir = Home
<1> DEFINE s == Candidates(subpath)
           I == {i \in 1 .. Len(s) : tree[s[i]].build # "none"}
<1>1. s[1] = Home /\ Len(s) \in Nat /\ Len(s) >= 1
  BY DEF Candidates, Home
<1>2. SelectInSeq(s, LAMBDA d : tree[d].build # "none") = IF I # {} THEN Min(I) ELSE 0
  BY DEF SelectInSeq
<1>3. 1 \in I /\ \A i \in I : 1 <= i
  BY <1>1
<1>4. Min(I) = 1
  BY <1>1, <1>3 DEF Min
<1>5. SelectInSeq(Candidates(subpath), LAMBDA d : tree[d].build # "none") = 1
  <2> HIDE DEF I
  <2>1. QED
    BY <1>2, <1>3, <1>4
<1>6. BuildDir = s[1]
  <2> HIDE DEF I
  <2>1. QED
    BY <1>5 DEF BuildDir
<1>7. QED
  BY <1>1, <1>6

(* What would be built depends on the files, the subpath and the libraries only. *)
LEMMA NothingMoved ==
  ASSUME UNCHANGED <<schema, subpath, tree, lib>>
  PROVE  /\ Home' = Home /\ BuildDir' = BuildDir /\ \A b : Method(b)' = Method(b)
         /\ LibrariesOf(tree[BuildDir])' = LibrariesOf(tree[BuildDir])
         /\ \A b : Built(tree[BuildDir], b)' = Built(tree[BuildDir], b)
<1>1. Home' = Home /\ BuildDir' = BuildDir
  BY DEF Home, BuildDir, SelectInSeq, Candidates
<1>2. \A b : Method(b)' = Method(b)
  BY DEF Method
<1>3. LibrariesOf(tree[BuildDir])' = LibrariesOf(tree[BuildDir])
  BY <1>1 DEF LibrariesOf
<1>4. \A b : Built(tree[BuildDir], b)' = Built(tree[BuildDir], b)
  BY <1>1, <1>2 DEF Built, CompilesMain
<1>5. QED
  BY <1>1, <1>2, <1>3, <1>4

(* What is generated from the engine's document, whole or cut, is a library. *)
LEMMA DocumentsKnown ==
  ASSUME schema \in Schemas, NEW doc \in Documents
  PROVE  GenerateZigTypes(doc) \in Libraries
<1>1. doc \in {schema.doc, CutDocument(schema.doc)}
  BY DEF Documents
<1>2. doc \in UNION {{s.doc, CutDocument(s.doc)} : s \in Schemas}
  BY <1>1
<1>3. QED
  BY <1>2 DEF Libraries

(* Nothing is typed, built or called in an empty tree. *)
LEMMA SdkStarts == SdkInit => SdkInv
<1> SUFFICES ASSUME SdkInit PROVE SdkInv
  OBVIOUS
<1>1. tree \in [Dirs -> SourceFiles] /\ \A d \in Dirs : tree[d].gen = "none"
  BY DEF SdkInit, NoFiles, SourceFiles
<1>2. /\ runtime.dir = "none" /\ runtime.library = {} /\ call.fate = "none"
      /\ schema \in Schemas
  BY DEF SdkInit, NoResult, NoCall
<1>3. lib \in Libraries
  BY <1>2, DocumentsKnown DEF SdkInit
<1>4. QED
  BY <1>1, <1>2, <1>3 DEF SdkInv, SourcesTyped, BuiltFirst, LastCall

(* A change of the files keeps the invariant if it writes typed bindings at home. *)
LEMMA EditKeeps ==
  ASSUME SdkInv, NEW d \in Dirs, NEW files \in SourceFiles, Edit(d, files),
         files.gen = "typed" => d = Home
  PROVE  SdkInv'
<1>1. Home' = Home
  BY DEF Edit, Home
<1>2. /\ runtime'.dir = "none" /\ runtime'.library = {} /\ call'.fate = "none"
      /\ schema' = schema
  BY DEF Edit, NoResult, NoCall
<1>3. SourcesTyped'
  BY <1>1 DEF SdkInv, SourcesTyped, Edit
<1>4. QED
  BY <1>2, <1>3 DEF SdkInv, BuiltFirst, LastCall

(* Every step keeps the invariant. *)
LEMMA SdkMoves == SdkInv /\ [SdkNext]_sdkVars => SdkInv'
<1> SUFFICES ASSUME SdkInv, [SdkNext]_sdkVars PROVE SdkInv'
  OBVIOUS
<1>0. \A d \in Dirs : tree[d] \in SourceFiles
  BY DEF SdkInv, SourcesTyped
<1>1. CASE InitModule
  <2>1. PICK d \in Dirs : Edit(d, [tree[d] EXCEPT !.build = "module", !.main = "module", !.gen = "shim"])
    BY <1>1 DEF InitModule
  <2> DEFINE files == [tree[d] EXCEPT !.build = "module", !.main = "module", !.gen = "shim"]
  <2>2. files \in SourceFiles /\ files.gen = "shim"
    BY <1>0 DEF SourceFiles
  <2> HIDE DEF files
  <2>3. QED
    BY <2>1, <2>2, EditKeeps DEF files
<1>2. CASE InitClient
  <2>1. PICK d \in Dirs : Edit(d, [build |-> "client", main |-> "client", gen |-> "shim", vendored |-> {lib}])
    BY <1>2 DEF InitClient
  <2> DEFINE files == [build |-> "client", main |-> "client", gen |-> "shim", vendored |-> {lib}]
  <2>2. files \in SourceFiles /\ files.gen = "shim"
    BY DEF SourceFiles, SdkInv, SourcesTyped
  <2> HIDE DEF files
  <2>3. QED
    BY <2>1, <2>2, EditKeeps DEF files
<1>3. CASE UserEdits
  <2>1. CASE \E m \in {"module", "imports gen"} : Edit(Home, [tree[Home] EXCEPT !.main = m])
    <3>1. PICK m \in {"module", "imports gen"} : Edit(Home, [tree[Home] EXCEPT !.main = m])
      BY <2>1
    <3> DEFINE files == [tree[Home] EXCEPT !.main = m]
    <3>2. files \in SourceFiles
      BY <1>0, HomeIsDir DEF SourceFiles
    <3> HIDE DEF files
    <3>3. QED
      BY <3>1, <3>2, HomeIsDir, EditKeeps DEF files
  <2>2. CASE \E b \in {"own", "own module-runtime"} : Edit(".", [tree["."] EXCEPT !.build = b, !.main = "own"])
    <3>1. PICK b \in {"own", "own module-runtime"} : Edit(".", [tree["."] EXCEPT !.build = b, !.main = "own"])
      BY <2>2
    <3>2. "." \in Dirs
      BY DEF Dirs
    <3> DEFINE files == [tree["."] EXCEPT !.build = b, !.main = "own"]
    <3>3. files \in SourceFiles /\ files.gen = tree["."].gen
      BY <1>0, <3>2 DEF SourceFiles
    <3>4. tree["."].gen = "typed" => "." = Home
      BY <3>2 DEF SdkInv, SourcesTyped
    <3> HIDE DEF files
    <3>5. QED
      BY <3>1, <3>2, <3>3, <3>4, EditKeeps DEF files
  <2>3. QED
    BY <1>3, <2>1, <2>2 DEF UserEdits
<1>4. CASE Codegen
  <2>1. PICK gen \in {"shim", "typed"} :
          Edit(Home, [tree[Home] EXCEPT !.build = "module", !.gen = gen])
    BY <1>4, HomeIsDir DEF Codegen
  <2> DEFINE files == [tree[Home] EXCEPT !.build = "module", !.gen = gen]
  <2>2. files \in SourceFiles
    BY <1>0, HomeIsDir DEF SourceFiles
  <2> HIDE DEF files
  <2>3. QED
    BY <2>1, <2>2, HomeIsDir, EditKeeps DEF files
<1>5. CASE Regenerate
  <2>1. /\ UNCHANGED <<schema, subpath, tree>> /\ Home' = Home
        /\ runtime'.dir = "none" /\ runtime'.library = {} /\ call'.fate = "none"
    BY <1>5 DEF Regenerate, NoResult, NoCall, Home
  <2>2. lib' \in Libraries
    BY <1>5, DocumentsKnown DEF Regenerate, SdkInv
  <2>3. QED
    BY <2>1, <2>2 DEF SdkInv, SourcesTyped, BuiltFirst, LastCall
<1>6. CASE ModuleRuntime
  <2>1. UNCHANGED <<schema, subpath, tree, lib>> /\ call'.fate = "none"
    BY <1>6 DEF ModuleRuntime, NoCall
  <2>2. /\ Home' = Home /\ BuildDir' = BuildDir
        /\ LibrariesOf(tree[BuildDir])' = LibrariesOf(tree[BuildDir])
        /\ \A b : Built(tree[BuildDir], b)' = Built(tree[BuildDir], b)
    BY <2>1, NothingMoved
  <2>3. CASE BuildDir = "none"
    <3>1. runtime'.dir = "none" /\ runtime'.library = {}
      BY <1>6, <2>3 DEF ModuleRuntime, NoResult
    <3>2. QED
      BY <2>1, <2>2, <3>1 DEF SdkInv, SourcesTyped, BuiltFirst, LastCall
  <2>4. CASE BuildDir # "none"
    <3>1. PICK b \in LibrariesOf(tree[BuildDir]) :
            runtime' = [dir |-> BuildDir, result |-> Built(tree[BuildDir], b), library |-> {b}]
      BY <1>6, <2>4 DEF ModuleRuntime
    <3>2. /\ runtime'.dir = BuildDir /\ runtime'.library = {b}
          /\ runtime'.result = Built(tree[BuildDir], b)
      BY <3>1
    <3>3. BuiltFirst'
      BY <2>2, <3>2 DEF BuiltFirst
    <3>4. QED
      BY <2>1, <2>2, <3>3 DEF SdkInv, SourcesTyped, LastCall
  <2>5. QED
    BY <2>3, <2>4
<1>7. CASE Call
  <2>1. UNCHANGED <<schema, subpath, tree, lib, runtime>>
    BY <1>7 DEF Call
  <2>2. /\ Home' = Home /\ BuildDir' = BuildDir /\ \A b : Method(b)' = Method(b)
        /\ LibrariesOf(tree[BuildDir])' = LibrariesOf(tree[BuildDir])
        /\ \A b : Built(tree[BuildDir], b)' = Built(tree[BuildDir], b)
    BY <2>1, NothingMoved
  <2>3. LastCall'
    BY <1>7, <2>1, <2>2 DEF Call, LastCall
  <2>4. BuiltFirst'
    BY <2>1, <2>2 DEF SdkInv, BuiltFirst
  <2>5. QED
    BY <2>1, <2>2, <2>3, <2>4 DEF SdkInv, SourcesTyped
<1>8. CASE UNCHANGED sdkVars
  <2>1. UNCHANGED <<schema, subpath, tree, lib, runtime, call>>
    BY <1>8 DEF sdkVars
  <2>2. /\ Home' = Home /\ BuildDir' = BuildDir /\ \A b : Method(b)' = Method(b)
        /\ LibrariesOf(tree[BuildDir])' = LibrariesOf(tree[BuildDir])
        /\ \A b : Built(tree[BuildDir], b)' = Built(tree[BuildDir], b)
    BY <2>1, NothingMoved
  <2>3. LastCall' /\ BuiltFirst'
    BY <2>1, <2>2 DEF SdkInv, LastCall, BuiltFirst
  <2>4. QED
    BY <2>1, <2>2, <2>3 DEF SdkInv, SourcesTyped
<1>9. QED
  BY <1>1, <1>2, <1>3, <1>4, <1>5, <1>6, <1>7, <1>8 DEF SdkNext

(* Whatever is around it, the module's own directory is built (sdk/runtimeutil
   and the build script), for any number of edits in any order.             *)
THEOREM BuildsOwnModule == SdkSpec => []OwnModuleIsBuilt
<1>1. SdkInv => OwnModuleIsBuilt
  <2>1. \A files, b : files.build = "module" => Built(files, b) # "no entrypoint"
    BY DEF Built
  <2>2. QED
    BY <2>1, HomeFirst DEF SdkInv, SourcesTyped, BuiltFirst, OwnModuleIsBuilt
<1>2. QED
  BY SdkStarts, SdkMoves, <1>1, PTL DEF SdkSpec

(* The type a method returns is declared, and its helper yields it. *)
LEMMA ReturnAgrees ==
  ASSUME NEW doc, NEW r, NEW m, GoodReturn(r), Resolved(doc, r),
         m.returns = ZigReturnType(r), m.helper = HelperOf(r)
  PROVE  Declared(Generate(doc), m.returns) /\ ReturnFits(Generate(doc), m)
<1> DEFINE b == Generate(doc)
           e == IF IsList(r) THEN Elem(r) ELSE Strip(r)
<1>1. IdTypes(doc) \subseteq b.ids /\ b.objects = ObjectTypes(doc)
  BY DEF Generate
<1>2. \A n \in IdScalars : n \notin {"Int", "Float", "Boolean", "Void"}
  BY SchemasAssumption DEF Numbers
<1>3. CASE IsList(r)
  <2>1. e.kind = "SCALAR" /\ e.name # "Void"
    BY <1>3 DEF GoodReturn, IsValue
  <2>2. m.returns = <<"many", ZigScalar(e.name)>> /\ m.helper = ListHelper(e)
    BY <1>3, <2>1 DEF ZigReturnType, ZigElemType, HelperOf, IsVoid, IsScalarReturn
  <2> HIDE DEF e, b
  <2>3. m.returns = Yields(m.helper) /\ m.helper \notin {"handle", "wrapped"}
    BY <2>1, <2>2 DEF ZigScalar, ListHelper, Yields
  <2>4. m.returns[2] \in Plain
    BY <2>2 DEF ZigScalar, Plain
  <2>5. Declared(b, m.returns) /\ ReturnFits(b, m)
    BY <2>3, <2>4 DEF Declared, ReturnFits
  <2>6. QED
    BY <2>5 DEF b
<1>4. CASE ~ IsList(r)
  <2>1. /\ e.kind = "SCALAR" \/ e.kind \in {"OBJECT", "INTERFACE"}
        /\ e.name = "Void" => e.kind = "SCALAR"
        /\ e.kind \in {"OBJECT", "INTERFACE"} => e.name \in b.objects
        /\ e.kind = "SCALAR" /\ e.name \in IdScalars => e.name \in b.ids
    BY <1>1, <1>4 DEF GoodReturn, IsValue, IsVoid, Resolved
  <2>2. m.returns = <<"one", IF e.kind = "SCALAR" THEN ZigScalarType(e.name) ELSE e.name>>
    BY <1>4, <2>1 DEF ZigReturnType
  <2>3. m.helper = IF e.name = "Void" THEN "discard"
                   ELSE IF e.kind # "SCALAR" THEN "handle"
                   ELSE CASE e.name = "Int"       -> "int"
                          [] e.name = "Boolean"   -> "bool"
                          [] e.name = "Float"     -> "float"
                          [] e.name \in IdScalars -> "wrapped"
                          [] OTHER                -> "string"
    BY <1>4 DEF HelperOf, IsVoid, IsScalarReturn
  <2> HIDE DEF e, b
  <2>4. CASE e.kind # "SCALAR"
    BY <2>1, <2>2, <2>3, <2>4 DEF Declared, TypeNames, ReturnFits, b
  <2>5. CASE e.kind = "SCALAR" /\ e.name \in IdScalars
    <3>1. m.helper = "wrapped" /\ m.returns = <<"one", e.name>>
      BY <1>2, <2>2, <2>3, <2>5 DEF ZigScalarType
    <3>2. QED
      BY <2>1, <2>5, <3>1 DEF Declared, TypeNames, ReturnFits, b
  <2>6. CASE e.kind = "SCALAR" /\ e.name \notin IdScalars
    <3>1. m.returns = <<"one", IF e.name = "Void" THEN "void" ELSE ZigScalar(e.name)>>
      BY <2>2, <2>6 DEF ZigScalarType
    <3>2. m.returns = Yields(m.helper) /\ m.helper \notin {"handle", "wrapped"}
      BY <2>3, <2>6, <3>1 DEF ZigScalar, Yields
    <3>3. m.returns[2] \in Plain
      BY <3>1 DEF ZigScalar, Plain
    <3>4. QED
      BY <3>2, <3>3 DEF Declared, ReturnFits, b
  <2>7. QED
    BY <2>4, <2>5, <2>6
<1>5. QED
  BY <1>3, <1>4

(* An argument is written in the form of its declared type, and the engine takes it. *)
LEMMA ArgumentAgrees ==
  ASSUME NEW doc, NEW arg, NEW taken, NEW p, p = WriteArg(arg, taken),
         GoodArg(arg.type), Resolved(doc, arg.type),
         \A n \in InputTypes(doc) : doc[n] = schema.doc[n]
  PROVE  /\ Declared(Generate(doc), p.type) /\ ArgFits(Generate(doc), p)
         /\ Takes(arg.type, p.form)
<1> DEFINE b == Generate(doc)
           r == arg.type
           e == IF IsList(r) THEN Elem(r) ELSE Strip(r)
<1>1. /\ b.enums = EnumTypes(doc) /\ DOMAIN b.inputs = InputTypes(doc)
      /\ \A n \in InputTypes(doc) : b.inputs[n] = doc[n].inputs
  BY DEF Generate
<1>2. p.type = ZigArgType(r) /\ p.form = FormOf(r) /\ p.input = Strip(r)
  BY DEF WriteArg
<1>3. CASE IsList(r)
  <2>1. e.kind = "SCALAR" /\ e.name \notin {"Void", "Boolean"}
    BY <1>3 DEF GoodArg, IsValue
  <2>2. /\ p.type = <<"many", ZigScalar(e.name)>> /\ p.form = ListForm(e)
        /\ Takes(r, p.form) <=> p.form = TakesList(e)
    BY <1>2, <1>3, <2>1 DEF ZigArgType, ZigElemType, FormOf, Takes
  <2> HIDE DEF e, b
  <2>3. CASE e.name \in Numbers
    <3>1. p.form = "numbers" /\ p.form = TakesList(e)
      BY <2>1, <2>2, <2>3 DEF ListForm, TakesList, TakesElem
    <3>2. p.type \in {<<"many", "int">>, <<"many", "float">>} /\ p.type[2] \in Plain
      BY <2>2, <2>3 DEF Numbers, ZigScalar, Plain
    <3>3. QED
      BY <2>2, <3>1, <3>2 DEF Declared, ArgFits, b
  <2>4. CASE e.name \notin Numbers
    <3>1. p.form = "texts" /\ p.form = TakesList(e)
      BY <2>1, <2>2, <2>4 DEF ListForm, TakesList, TakesElem
    <3>2. p.type = <<"many", "text">> /\ p.type[2] \in Plain
      BY <2>1, <2>2, <2>4 DEF Numbers, ZigScalar, Plain
    <3>3. QED
      BY <2>2, <3>1, <3>2 DEF Declared, ArgFits, b
  <2>5. QED
    BY <2>3, <2>4
<1>4. CASE ~ IsList(r)
  <2>1. \/ e.kind = "SCALAR" /\ e.name # "Void"
        \/ e.kind = "ENUM" /\ e.name \in b.enums
        \/ /\ e.kind = "INPUT_OBJECT" /\ e.name \in DOMAIN b.inputs
           /\ InputFits(b.inputs[e.name])
    BY <1>1, <1>4 DEF GoodArg, IsValue, FlatInput, Resolved
  <2>2. /\ p.type = <<"one", IF e.kind = "SCALAR" THEN ZigScalarArgType(e.name)
                             ELSE IF e.kind \in {"OBJECT", "ENUM", "INTERFACE", "INPUT_OBJECT"}
                             THEN e.name ELSE "text">>
        /\ p.input = e /\ (Takes(r, p.form) <=> p.form = TakesElem(e))
        /\ p.form = CASE e.kind = "SCALAR" /\ e.name \in Numbers -> "number"
                      [] e.kind = "SCALAR" /\ e.name = "Boolean"   -> "word"
                      [] e.kind = "ENUM"                           -> "word"
                      [] e.kind \in {"OBJECT", "INTERFACE"}        -> "id"
                      [] e.kind = "INPUT_OBJECT"                   -> "fields"
                      [] OTHER                                     -> "text"
    BY <1>2, <1>4 DEF ZigArgType, FormOf, Takes
  <2> HIDE DEF e, b
  <2>3. CASE e.kind = "SCALAR" /\ e.name # "Void"
    <3>1. p.type = <<"one", ZigScalar(e.name)>> /\ p.type[2] \in Plain
      BY <2>2, <2>3 DEF ZigScalarArgType, ZigScalar, Plain
    <3>2. p.form = TakesElem(e) /\ p.form \in {"number", "word", "text"}
      BY <2>2, <2>3 DEF TakesElem
    <3>3. p.form = "text" => p.type[2] = "text"
      BY <2>2, <2>3, <3>1 DEF Numbers, ZigScalar
    <3>4. QED
      BY <2>2, <3>1, <3>2, <3>3 DEF Declared, ArgFits, b
  <2>4. CASE e.kind = "ENUM" /\ e.name \in b.enums
    <3>1. p.type = <<"one", e.name>> /\ p.form = "word" /\ p.form = TakesElem(e)
      BY <2>2, <2>4 DEF TakesElem
    <3>2. QED
      BY <2>2, <2>4, <3>1 DEF Declared, TypeNames, ArgFits, b
  <2>5. CASE /\ e.kind = "INPUT_OBJECT" /\ e.name \in DOMAIN b.inputs
             /\ InputFits(b.inputs[e.name])
    <3>1. p.type = <<"one", e.name>> /\ p.form = "fields" /\ p.form = TakesElem(e)
      BY <2>2, <2>5 DEF TakesElem
    <3>2. QED
      BY <2>2, <2>5, <3>1 DEF Declared, TypeNames, ArgFits, b
  <2>6. QED
    BY <2>1, <2>3, <2>4, <2>5
<1>5. QED
  BY <1>3, <1>4

(* The method of the field is the one the generator wrote for it. *)
LEMMA MethodWritten ==
  ASSUME schema \in Schemas, NEW b, Full(b),
         NEW shown, shown = Shown(schema.doc)
  PROVE  Method(b) = WriteMethod(shown, schema.type, schema.field)
<1> DEFINE f == schema.field
           t == schema.type
           w == WriteMethod(shown, t, f)
<1>1. /\ t \in ObjectTypes(shown) /\ f \in schema.doc[t].fields
      /\ \A g \in schema.doc[t].fields : g.name = f.name => g = f
  BY SchemasAssumption DEF WellFormed
<1>2. t \in DOMAIN shown /\ shown[t] = schema.doc[t]
  BY <1>1 DEF ObjectTypes, OfKind, Shown
<1> DEFINE M(u) == {WriteMethod(shown, u, g) : g \in shown[u].fields}
           Ms   == {M(u) : u \in ObjectTypes(shown)}
<1>3. b.methods = UNION Ms
  BY DEF Full, GenerateZigTypes, Generate, Shown
<1>4. \A u, g : WriteMethod(shown, u, g).on = u /\ WriteMethod(shown, u, g).field = g.name
  BY DEF WriteMethod
<1> HIDE DEF w
<1>5. w \in b.methods /\ w.on = t /\ w.field = f.name
  <2>1. w \in M(t)
    BY <1>1, <1>2 DEF w
  <2>2. M(t) \in Ms
    BY <1>1
  <2> HIDE DEF Ms, M
  <2>3. QED
    BY <1>3, <1>4, <2>1, <2>2 DEF w
<1>6. ASSUME NEW m \in b.methods, m.on = t, m.field = f.name PROVE m = w
  <2>1. PICK A \in Ms : m \in A
    <3> HIDE DEF Ms
    <3>1. QED
      BY <1>3
  <2>2. PICK u \in ObjectTypes(shown) : A = M(u)
    BY <2>1
  <2>3. PICK g \in shown[u].fields : m = WriteMethod(shown, u, g)
    BY <2>1, <2>2
  <2>4. m.on = u /\ m.field = g.name
    <3>1. PICK c : c = WriteMethod(shown, u, g)
      OBVIOUS
    <3>2. c.on = u /\ c.field = g.name
      BY <3>1 DEF WriteMethod
    <3>3. QED
      BY <2>3, <3>1, <3>2
  <2>5. u = t /\ g.name = f.name
    BY <1>6, <2>4
  <2>6. QED
    BY <1>1, <1>2, <2>3, <2>5 DEF w
<1>7. QED
  BY <1>5, <1>6 DEF Method, w

(* The methods of a file are those written for the fields of its types. *)
LEMMA MethodsWritten ==
  ASSUME NEW doc, NEW m \in Generate(doc).methods
  PROVE  \E u \in ObjectTypes(doc) : \E g \in doc[u].fields : m = WriteMethod(doc, u, g)
<1> DEFINE b == Generate(doc)
           M(u) == {WriteMethod(doc, u, g) : g \in doc[u].fields}
           Ms   == {M(u) : u \in ObjectTypes(doc)}
<1>1. b.methods = UNION Ms
  BY DEF Generate
<1>2. PICK A \in Ms : m \in A
  <2> HIDE DEF Ms
  <2>1. QED
    BY <1>1
<1>3. QED
  BY <1>2

(* The names of a field, of its arguments and in its body are names of the file. *)
LEMMA NamesKnown ==
  ASSUME NEW doc, NEW u \in ObjectTypes(doc), NEW g \in doc[u].fields
  PROVE  /\ FieldNames(doc, u) \subseteq NamesOf(doc)
         /\ ArgNames(g) \union Locals(doc, u, g) \union Blocks(doc, g) \subseteq NamesOf(doc)
<1> DEFINE In(t, f) == ArgNames(f) \union Locals(doc, t, f) \union Blocks(doc, f)
           All(t)    == FieldNames(doc, t) \union UNION {In(t, f) : f \in doc[t].fields}
<1>1. NamesOf(doc) = StructFields \union FileNames(Generate(doc)) \union UNION {All(t) : t \in ObjectTypes(doc)}
  BY DEF NamesOf
<1>2. In(u, g) \in {In(u, f) : f \in doc[u].fields}
  OBVIOUS
<1>3. All(u) \in {All(t) : t \in ObjectTypes(doc)}
  OBVIOUS
<1> HIDE DEF In
<1>4. FieldNames(doc, u) \subseteq All(u) /\ In(u, g) \subseteq All(u)
  BY <1>2
<1> HIDE DEF All
<1>5. FieldNames(doc, u) \subseteq NamesOf(doc) /\ In(u, g) \subseteq NamesOf(doc)
  BY <1>1, <1>3, <1>4
<1>6. QED
  BY <1>5 DEF In

(* Where names are clear, the escapes of the generator keep them apart. *)
LEMMA NamesStayApart ==
  ASSUME NEW doc, ClearNames(doc), EscapesTell(NamesOf(doc))
  PROVE  Parses(Generate(doc))
<1> DEFINE b     == Generate(doc)
           Names == NamesOf(doc)
           file  == FileNames(b)
<1>1. DeclaresTypes(b)
  BY DEF ClearNames
<1>2. file \subseteq Names /\ StructFields \subseteq Names
  BY DEF NamesOf
<1>3. /\ \A k \in ZigKeywords : \A x \in Names \union ZigKeywords :
           /\ "@" \o k # x /\ "@" \o k # x \o "_"
           /\ x \in ZigKeywords \ {k} => "@" \o k # "@" \o x
      /\ \A x, y \in Names : x # y => x \o "_" # y \o "_"
  BY DEF EscapesTell
<1> SUFFICES ASSUME NEW m \in b.methods
             PROVE  LET around == MethodNames(b, m.on) \union file
                    IN /\ m.name \notin StructFields \union file
                       /\ (m.locals \union m.blocks) \intersect around = {}
                       /\ m.locals \intersect m.blocks = {}
                       /\ \A i \in DOMAIN m.params :
                            LET p == m.params[i]
                            IN /\ p.name \notin around \union m.locals \union m.blocks
                               /\ ~ (p.optional /\ \E k \in ZigKeywords : p.name = ZigEscapeName(k))
                       /\ \A i, j \in DOMAIN m.params : i # j => m.params[i].name # m.params[j].name
  BY <1>1 DEF Parses
<1>4. PICK u \in ObjectTypes(doc) : \E f \in doc[u].fields : m = WriteMethod(doc, u, f)
  BY MethodsWritten
<1>5. PICK f \in doc[u].fields : m = WriteMethod(doc, u, f)
  BY <1>4
<1> DEFINE taken == FieldNameSet(doc[u])
           names == FieldNames(doc, u)
           local == Locals(doc, u, f) \union Blocks(doc, f)
           n(i)  == f.args[i].name
<1>6. /\ m.on = u /\ m.name = ZigEscapeName(f.name) /\ DOMAIN m.params = DOMAIN f.args
      /\ m.locals = Locals(doc, u, f) /\ m.blocks = Blocks(doc, f)
      /\ \A i \in DOMAIN f.args :
           /\ m.params[i].name = EscapeArgName(n(i), taken)
           /\ m.params[i].optional = Optional(f.args[i].type)
  BY <1>5 DEF WriteMethod, WriteArg
<1>7. names \subseteq taken /\ f.name \in names
  BY DEF FieldNameSet, FieldNames
<1>8. \A x \in MethodNames(b, u) : \E g \in names : x = ZigEscapeName(g)
  <2> SUFFICES ASSUME NEW c \in b.methods, c.on = u
               PROVE  \E g \in names : c.name = ZigEscapeName(g)
    BY DEF MethodNames
  <2>1. PICK v \in ObjectTypes(doc) : \E g \in doc[v].fields : c = WriteMethod(doc, v, g)
    BY MethodsWritten
  <2>2. PICK g \in doc[v].fields : c = WriteMethod(doc, v, g)
    BY <2>1
  <2>3. c.on = v /\ c.name = ZigEscapeName(g.name)
    BY <2>2 DEF WriteMethod
  <2>4. QED
    BY <2>3 DEF FieldNames
<1>9. names \intersect (StructFields \union file) = {}
  BY DEF ClearNames
<1>10. local \intersect (names \union file) = {} /\ Locals(doc, u, f) \intersect Blocks(doc, f) = {}
  BY DEF ClearNames
<1>11. \A i \in DOMAIN f.args :
         /\ n(i) \in ZigKeywords => n(i) \notin names /\ ~ Optional(f.args[i].type)
         /\ n(i) \notin taken => n(i) \notin file \union local
         /\ (n(i) \o "_") \notin names \union file \union local
         /\ \A j \in DOMAIN f.args : i # j => n(j) # n(i) /\ n(j) # n(i) \o "_"
  BY DEF ClearNames
<1>12. names \subseteq Names /\ local \subseteq Names /\ \A i \in DOMAIN f.args : n(i) \in Names
  BY NamesKnown DEF ArgNames
<1> HIDE DEF b, Names, file, taken, names, local, n
(* How a parameter is written, by its name. *)
<1>13. \A i \in DOMAIN f.args :
         \/ n(i) \in ZigKeywords /\ m.params[i].name = "@" \o n(i)
         \/ n(i) \notin ZigKeywords /\ n(i) \in taken /\ m.params[i].name = n(i) \o "_"
         \/ n(i) \notin ZigKeywords /\ n(i) \notin taken /\ m.params[i].name = n(i)
  BY <1>6 DEF EscapeArgName
<1>14. m.name \notin StructFields \union file
  <2>1. CASE f.name \in ZigKeywords
    BY <1>2, <1>3, <1>6, <2>1 DEF ZigEscapeName
  <2>2. CASE f.name \notin ZigKeywords
    BY <1>6, <1>7, <1>9, <2>2 DEF ZigEscapeName
  <2>3. QED
    BY <2>1, <2>2
<1>15. local \intersect (MethodNames(b, u) \union file) = {}
  <2> SUFFICES ASSUME NEW x \in local, NEW g \in names, x = ZigEscapeName(g)
               PROVE  FALSE
    BY <1>8, <1>10
  <2>1. CASE g \in ZigKeywords
    BY <1>3, <1>12, <2>1 DEF ZigEscapeName
  <2>2. CASE g \notin ZigKeywords
    BY <1>10, <2>2 DEF ZigEscapeName
  <2>3. QED
    BY <2>1, <2>2
<1>16. ASSUME NEW i \in DOMAIN f.args PROVE m.params[i].name \notin MethodNames(b, u)
  <2> SUFFICES ASSUME NEW g \in names, m.params[i].name = ZigEscapeName(g)
               PROVE  FALSE
    BY <1>8
  <2>1. g \in Names /\ n(i) \in Names
    BY <1>12
  <2>2. CASE n(i) \in ZigKeywords
    BY <1>3, <1>11, <1>13, <2>1, <2>2 DEF ZigEscapeName
  <2>3. CASE n(i) \notin ZigKeywords /\ n(i) \in taken
    BY <1>3, <1>11, <1>13, <2>1, <2>3 DEF ZigEscapeName
  <2>4. CASE n(i) \notin ZigKeywords /\ n(i) \notin taken
    BY <1>3, <1>7, <1>13, <2>1, <2>4 DEF ZigEscapeName
  <2>5. QED
    BY <2>2, <2>3, <2>4
<1>17. ASSUME NEW i \in DOMAIN f.args PROVE m.params[i].name \notin file \union local
  <2>1. CASE n(i) \in ZigKeywords
    BY <1>2, <1>3, <1>12, <1>13, <2>1
  <2>2. CASE n(i) \notin ZigKeywords
    BY <1>11, <1>13, <2>2
  <2>3. QED
    BY <2>1, <2>2
<1>18. ASSUME NEW i \in DOMAIN f.args, m.params[i].optional, NEW k \in ZigKeywords
       PROVE  m.params[i].name # ZigEscapeName(k)
  <2>1. n(i) \notin ZigKeywords
    BY <1>6, <1>11, <1>18
  <2>2. QED
    BY <1>3, <1>12, <1>13, <2>1 DEF ZigEscapeName
<1>19. ASSUME NEW i \in DOMAIN f.args, NEW j \in DOMAIN f.args, i # j
       PROVE  m.params[i].name # m.params[j].name
  <2>1. n(i) # n(j) /\ n(j) # n(i) \o "_" /\ n(i) # n(j) \o "_"
    BY <1>11, <1>19
  <2>2. QED
    BY <1>3, <1>12, <1>13, <2>1
<1>20. (m.locals \union m.blocks) = local /\ m.locals \intersect m.blocks = {}
  BY <1>6, <1>10 DEF local
<1>21. QED
  BY <1>6, <1>14, <1>15, <1>16, <1>17, <1>18, <1>19, <1>20

(* For a good field the method compiles, and the engine takes its arguments. *)
LEMMA GoodCompiles ==
  ASSUME schema \in Schemas, NEW b, Full(b),
         Good(schema.field), ClearNames(Shown(schema.doc))
  PROVE  /\ Compiles(b, Method(b))
         /\ \A i \in DOMAIN schema.field.args :
              Takes(schema.field.args[i].type, Method(b).params[i].form)
<1> DEFINE shown == Shown(schema.doc)
           f == schema.field
           t == schema.type
           m == Method(b)
<1>1. m = WriteMethod(shown, t, f)
  BY MethodWritten
<1>2. b = Generate(shown)
  BY DEF Full, GenerateZigTypes, Shown
<1>3. WellFormed(schema)
  BY SchemasAssumption
<1>4. Parses(b)
  BY <1>2, NamesStayApart, SchemasAssumption
<1>5. \A n \in InputTypes(shown) : shown[n] = schema.doc[n]
  BY DEF InputTypes, OfKind, Shown
<1>6. Resolved(shown, f.type) /\ \A i \in DOMAIN f.args : Resolved(shown, f.args[i].type)
  BY <1>3 DEF WellFormed
<1>7. (t \o "ID") \in DOMAIN shown => (t \o "ID") \in IdTypes(shown) \intersect IdScalars
  BY <1>3 DEF WellFormed
<1> HIDE DEF shown
<1> DEFINE own == IsOwnId(shown, t, f)
<1>8. Declared(b, m.returns) /\ ReturnFits(b, m)
  <2>1. CASE own
    <3>1. m.returns = <<"one", t \o "ID">> /\ m.helper = "wrapped"
      BY <1>1, <2>1 DEF WriteMethod
    <3>2. (t \o "ID") \in b.ids
      BY <1>2, <1>7, <2>1 DEF Generate, IsOwnId
    <3>3. QED
      BY <3>1, <3>2 DEF Declared, TypeNames, ReturnFits
  <2>2. CASE ~ own
    <3>1. m.returns = ZigReturnType(f.type) /\ m.helper = HelperOf(f.type)
      BY <1>1, <2>2 DEF WriteMethod
    <3>2. GoodReturn(f.type)
      BY DEF Good
    <3> HIDE DEF m, f
    <3>3. QED
      BY <1>2, <1>6, <3>1, <3>2, ReturnAgrees
  <2>3. QED
    BY <2>1, <2>2
<1>9. DOMAIN m.params = DOMAIN f.args
  BY <1>1 DEF WriteMethod
<1>10. ASSUME NEW i \in DOMAIN f.args
       PROVE  /\ Declared(b, m.params[i].type) /\ ArgFits(b, m.params[i])
              /\ Takes(f.args[i].type, m.params[i].form)
  <2> DEFINE taken == FieldNameSet(shown[t])
             arg   == f.args[i]
             p     == m.params[i]
  <2>1. p = WriteArg(arg, taken)
    BY <1>1 DEF WriteMethod
  <2>2. GoodArg(arg.type) /\ Resolved(shown, arg.type)
    BY <1>6, <1>10 DEF Good
  <2> HIDE DEF taken, arg, p
  <2>3. /\ Declared(Generate(shown), p.type) /\ ArgFits(Generate(shown), p)
        /\ Takes(arg.type, p.form)
    BY <1>5, <2>1, <2>2, ArgumentAgrees
  <2>4. QED
    BY <1>2, <2>3 DEF arg, p
<1>11. Compiles(b, m)
  BY <1>4, <1>8, <1>9, <1>10 DEF Compiles
<1>12. QED
  BY <1>10, <1>11

(* And whatever text the engine answers, its helper reads. *)
LEMMA GoodReads ==
  ASSUME schema \in Schemas, NEW b, Full(b), Good(schema.field),
         NEW a \in Answers(schema.field.type), ReadAsText(a), Method(b).helper # "handle"
  PROVE  a[2] # "refused" /\ HelperReads(Method(b).helper, a)
<1> DEFINE shown == Shown(schema.doc)
           f == schema.field
           r == f.type
           m == Method(b)
           own == IsOwnId(shown, schema.type, f)
<1>1. m = WriteMethod(shown, schema.type, f)
  BY MethodWritten
<1>2. own => ~ IsList(r)
  BY SchemasAssumption DEF WellFormed, IsOwnId
<1>3. GoodReturn(r)
  BY DEF Good
<1>4. m.helper = IF own THEN "wrapped" ELSE HelperOf(r)
  BY <1>1 DEF WriteMethod
<1>5. \A n \in IdScalars : n \notin {"Int", "Float", "Boolean", "Void"}
  BY SchemasAssumption DEF Numbers
<1> HIDE DEF own, m, f
<1>6. CASE IsList(r)
  <2> DEFINE e == Elem(r)
  <2>1. e.kind = "SCALAR" /\ e.name # "Void"
    BY <1>3, <1>6 DEF GoodReturn, IsValue
  <2>2. m.helper = ListHelper(e)
    BY <1>2, <1>4, <1>6 DEF HelperOf, IsVoid, IsScalarReturn
  <2>3. a \in {<<"many", Json(e)>>, <<"one", "null">>, <<"many", "null">>}
    BY <1>6 DEF Answers, Nulls, f
  <2>4. a = <<"many", Json(e)>>
    BY <2>3 DEF ReadAsText
  <2> HIDE DEF e
  <2>5. Json(e) = IF e.name = "Int" THEN "integer" ELSE IF e.name = "Float" THEN "float"
                      ELSE IF e.name = "Boolean" THEN "bool" ELSE "string"
    BY <2>1 DEF Json
  <2>6. QED
    BY <2>1, <2>2, <2>4, <2>5 DEF ListHelper, HelperReads, ArrayLeaf, m
<1>7. CASE ~ IsList(r)
  <2>1. m.helper \in {"string", "int", "float", "bool", "wrapped", "discard", "handle"}
    BY <1>4, <1>7 DEF HelperOf, IsVoid, IsScalarReturn
  <2>2. a \in {<<"one", Json(Strip(r))>>, <<"one", "null">>}
    BY <1>7 DEF Answers, Nulls, f
  <2>3. a = <<"one", "string">>
    BY <2>2 DEF ReadAsText
  <2>4. QED
    BY <2>1, <2>3 DEF HelperReads, StringLeaf, m
<1>8. QED
  BY <1>6, <1>7

(* Calls of good fields work, whatever was built and regenerated before them. *)
THEOREM CallsComeToTheirValue ==
  SdkSpec => []GoodCallsWork
<1>1. SdkInv => GoodCallsWork
  <2> SUFFICES ASSUME SdkInv, NEW b \in runtime.library, Full(b), Good(schema.field),
                      ClearNames(Shown(schema.doc))
               PROVE  /\ tree[runtime.dir].main = "module" => runtime.result # "compile error"
                      /\ call.fate # "none" /\ (ReadAsText(call.answer) \/ Method(b).helper = "handle") =>
                           call.fate = "value"
    BY DEF GoodCallsWork
  <2>1. schema \in Schemas
    BY DEF SdkInv
  <2>2. /\ runtime.dir = BuildDir /\ runtime.library = {b}
        /\ runtime.result = Built(tree[BuildDir], b)
    BY DEF SdkInv, BuiltFirst
  <2>3. /\ Compiles(b, Method(b))
        /\ \A i \in DOMAIN schema.field.args :
             Takes(schema.field.args[i].type, Method(b).params[i].form)
    BY <2>1, GoodCompiles
  <2>4. tree[runtime.dir].main = "module" => runtime.result # "compile error"
    BY <2>2, <2>3 DEF Built, CompilesMain
  <2>5. ASSUME call.fate # "none", ReadAsText(call.answer) \/ Method(b).helper = "handle"
        PROVE  call.fate = "value"
    <3>1. PICK a \in Answers(schema.field.type) :
            call = [fate |-> Fate(Method(b), schema.field, a), answer |-> a]
      BY <2>2, <2>5 DEF SdkInv, LastCall
    <3>2. CASE Method(b).helper = "handle"
      BY <2>3, <3>1, <3>2 DEF Fate
    <3>3. CASE Method(b).helper # "handle"
      <4>1. ReadAsText(a)
        BY <2>5, <3>1, <3>3
      <4>2. a[2] # "refused" /\ HelperReads(Method(b).helper, a)
        BY <2>1, <3>3, <4>1, GoodReads
      <4>3. QED
        BY <2>3, <3>1, <3>3, <4>2 DEF Fate
    <3>4. QED
      BY <3>2, <3>3
  <2>6. QED
    BY <2>4, <2>5
<1>2. QED
  BY SdkStarts, SdkMoves, <1>1, PTL DEF SdkSpec
===========================================================================
