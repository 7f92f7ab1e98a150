---------------------------- MODULE MCSdkModule ----------------------------
(***************************************************************************)
(* SdkModule over small schemas: a type Thing with the field probe, which   *)
(* returns one of Returns, or takes an argument of one of Arguments.        *)
(***************************************************************************)
EXTENDS SdkModule

Scalar(n) == Named("SCALAR", n)
Thing     == Named("OBJECT", "Thing")

(* GraphQL gives no field an argument of an object type. *)
InElements ==
  {Scalar(n) : n \in {"String", "Int", "Float", "Boolean", "ThingID", "Duration"}}
    \union {Named("ENUM", "Mode")}

Around(e) == {e, NonNull(e), NonNull(ListOf(NonNull(e))), ListOf(e)}

Returns ==
  UNION {Around(e) : e \in InElements \union {Thing, Named("INTERFACE", "Node")}}
    \union {Scalar("Void")}

Inputs    == {Named("INPUT_OBJECT", "Pair"), Named("INPUT_OBJECT", "Size")}
Arguments == UNION {Around(e) : e \in InElements \union Inputs}

Field(n, args, r) == [name |-> n, args |-> args, type |-> r]
NoType            == [kind |-> "SCALAR", fields |-> {}, inputs |-> {}, values |-> {}]

(* A Node has an id, but no scalar of its own for it. *)
Doc(f) ==
  LET id(r) == Field("id", <<>>, NonNull(r)) IN
  [t \in {"Thing", "ThingID", "Node", "Mode", "Pair", "Size", "_Hidden"} |->
     CASE t = "Thing"   -> [NoType EXCEPT !.kind = "OBJECT", !.fields = {id(Scalar("ThingID")), f}]
       [] t = "ThingID" -> NoType
       [] t = "Node"    -> [NoType EXCEPT !.kind = "INTERFACE", !.fields = {id(Scalar("ID"))}]
       [] t = "Mode"    -> [NoType EXCEPT !.kind = "ENUM", !.values = {"FAST", "SAFE"}]
       [] t = "Pair"    -> [NoType EXCEPT !.kind = "INPUT_OBJECT",
                              !.inputs = {[name |-> "name", type |-> NonNull(Scalar("String"))],
                                          [name |-> "mode", type |-> NonNull(Named("ENUM", "Mode"))]}]
       [] t = "Size"    -> [NoType EXCEPT !.kind = "INPUT_OBJECT",
                              !.inputs = {[name |-> "width", type |-> NonNull(Scalar("Int"))]}]
       [] OTHER         -> [NoType EXCEPT !.kind = "OBJECT", !.fields = {f}]]

Schema(f) == [doc |-> Doc(f), type |-> "Thing", field |-> f]

Text == NonNull(Scalar("String"))
Arg(n, r) == <<[name |-> n, type |-> r]>>

MCSchemas ==
  {Schema(Field("probe", <<>>, r)) : r \in Returns}
    \union {Schema(Field("probe", Arg("arg", r), Text)) : r \in Arguments}
    \union {Schema(Field("probe", Arg(n, r), Thing)) : n \in {"probe", "id", "error"},
                                                      r \in {Text, Scalar("String")}}
    \union {Schema(Field("sync", <<>>, NonNull(Scalar("ThingID"))))}
    \union {Schema(Field(n, Arg("arg", NonNull(ListOf(NonNull(Scalar("Int"))))), Text)) :
              n \in {"error", "cur", "item", "arg_list", "gql", "std", "type", "Thing"}}
    \union {Schema(Field("probe", Arg(n, r), Text)) :
              n \in {"cur", "item", "q", "gql", "self", "std", "type", "Mode"},
              r \in {NonNull(ListOf(NonNull(Scalar("Int")))), Named("INPUT_OBJECT", "Pair")}}
    \union {Schema(Field("probe", Arg("num", NonNull(Scalar("Int"))) \o Arg(n, r), Text)) :
              n \in {"num_str", "num_val", "of"},
              r \in {Text, NonNull(ListOf(NonNull(Scalar("Int"))))}}

MCIdScalars   == {"ThingID"}
MCHiddenTypes == {"_Hidden"}
MCZigKeywords == {"error"}
MCZigReserved == {"type"}
===========================================================================
