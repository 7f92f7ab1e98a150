-------------------------- MODULE MCGraphQLClient -------------------------
(***************************************************************************)
(* Two tasks of two clients, the way parallel.map over branch() runs them: *)
(* the first client guarded by a breaker, the second connected without.    *)
(***************************************************************************)
EXTENDS GraphQLClient, TLC

CONSTANTS t1, t2, c1, c2, LongRun, ShortRun

MCTasks == {t1, t2}
MCClients == {c1, c2}
MCClientOf == (t1 :> c1) @@ (t2 :> c2)
MCGuarded == {c1}
MCNobody == {}
MCBudget == (t1 :> LongRun) @@ (t2 :> ShortRun)
===========================================================================
