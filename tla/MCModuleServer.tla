--------------------------- MODULE MCModuleServer --------------------------
(***************************************************************************)
(* A module with one function that takes a scalar and returns a list of    *)
(* scalars: nine queries to register it.                                   *)
(***************************************************************************)
EXTENDS ModuleServer, TLC

CONSTANTS scalar, list

MCTypes == {scalar, list}
MCParts == (scalar :> <<>>) @@ (list :> <<scalar>>)
MCFunctions == << [returns |-> list, args |-> <<scalar>>] >>
===========================================================================
