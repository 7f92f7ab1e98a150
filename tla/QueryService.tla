--------------------------- MODULE QueryService ---------------------------
(***************************************************************************)
(* What a GraphQL client promises the tasks that query through it, without *)
(* saying how: no breaker, no backoff, no error payload.  A task has at    *)
(* most one query under way.  A query is turned away before anything is    *)
(* sent, or it is sent at most MaxAttempts times and then answered; it is  *)
(* answered with success only if the engine ran it.                        *)
(* The engine may run any request it was sent, at any time, even after the *)
(* task was told that the query failed.                                    *)
(***************************************************************************)
EXTENDS Naturals

CONSTANTS Tasks, MaxAttempts

VARIABLES
  busy,    \* the tasks whose query is under way
  queryNo, \* how many queries each task has issued
  sent,    \* every request ever put on the wire
  done,    \* the requests the engine has run
  verdict  \* what each task's last query returned

svars == <<busy, queryNo, sent, done, verdict>>

(* The attempt-th request of a task's query-th query. *)
Request == [task : Tasks, query : Nat, attempt : Nat]

TurnedAway == {"OutOfMemory", "CircuitOpen"}
Failures   == {"TransportFailed", "HttpStatus", "DomainError", "OutOfMemory"}

RequestsOf(t) == {r \in sent : r.task = t /\ r.query = queryNo[t]}

SInit ==
  /\ busy = {}
  /\ queryNo = [t \in Tasks |-> 0]
  /\ sent = {} /\ done = {}
  /\ verdict = [t \in Tasks |-> "none"]

SBegin(t) ==
  /\ t \notin busy
  /\ queryNo' = [queryNo EXCEPT ![t] = @ + 1]
  /\ \/ /\ busy' = busy \union {t}
        /\ verdict' = [verdict EXCEPT ![t] = "none"]
     \/ /\ busy' = busy
        /\ \E v \in TurnedAway : verdict' = [verdict EXCEPT ![t] = v]
  /\ UNCHANGED <<sent, done>>

SSend(t) ==
  /\ t \in busy
  /\ \E a \in 0 .. MaxAttempts - 1 :
       LET r == [task |-> t, query |-> queryNo[t], attempt |-> a]
       IN r \notin sent /\ sent' = sent \union {r}
  /\ UNCHANGED <<busy, queryNo, done, verdict>>

SExecute(r) ==
  /\ r \in sent \ done
  /\ done' = done \union {r}
  /\ UNCHANGED <<busy, queryNo, sent, verdict>>

SReturn(t) ==
  /\ t \in busy
  /\ busy' = busy \ {t}
  /\ \/ /\ RequestsOf(t) \intersect done # {}
        /\ verdict' = [verdict EXCEPT ![t] = "success"]
     \/ \E v \in Failures : verdict' = [verdict EXCEPT ![t] = v]
  /\ UNCHANGED <<queryNo, sent, done>>

SNext ==
  \/ \E t \in Tasks : SBegin(t) \/ SSend(t) \/ SReturn(t)
  \/ \E r \in sent : SExecute(r)

SSpec == SInit /\ [][SNext]_svars
===========================================================================
