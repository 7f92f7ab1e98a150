----------------------------- MODULE CliSession ---------------------------
(***************************************************************************)
(* core/cli_session.zig: one `dagger session` subprocess, from spawn over  *)
(* the handshake to shutdown, with the two pipes it writes, the tasks that *)
(* drain them into the logger and the std.Io that runs those tasks.        *)
(*                                                                         *)
(* A line is [no, kind]: its number among the lines of its pipe, and       *)
(* whether it is blank, progress or the handshake's JSON ("params").  A    *)
(* pipe holds at most PipeCapacity lines, and a CLI that writes to a full  *)
(* one blocks.  io.async gives a task one of Workers units of concurrency; *)
(* when none is free it runs the task to its end before it returns.        *)
(***************************************************************************)
EXTENDS Naturals, FiniteSets, Sequences, SequencesExt

CONSTANTS
  PipeCapacity,   \* lines that fit into a pipe nobody reads
  Workers,        \* tasks the Io can run beside the caller
  MaxLines        \* bound of the model: lines the CLI writes to each pipe

ASSUME SessionAssumption ==
  PipeCapacity \in Nat \ {0} /\ Workers \in Nat /\ MaxLines \in Nat \ {0}

Side == {"stdout", "stderr"}
Line == [no : Nat, kind : {"blank", "progress", "params"}]

VARIABLES
  others,   \* workers the program's other tasks hold meanwhile
  sdk,      \* where connect() or shutdown() is
  result,   \* what the one that ended last returned
  proc,     \* the child process
  stdin,    \* its stdin pipe
  writing,  \* the write the CLI is in: a sequence of at most one [side, line]
  written,  \* history: the lines that went into each pipe
  pipe,     \* the lines in each pipe
  hsBuf,    \* the reader connect() keeps on its stack
  drain,    \* the drain task of each pipe
  drainBuf, \* the reader of each drain task
  logged    \* the lines handed to the logger, in order

cliVars  == <<stdin, writing, written>>
logVars  == <<drain, drainBuf, logged>>
vars     == <<others, sdk, result, proc, cliVars, pipe, hsBuf, logVars>>

Connecting == {"handshake", "drain_stdout", "drain_stderr"}
Stopping   == {"cancel_stdout", "cancel_stderr", "waiting"}

TypeOK ==
  /\ others \in 0 .. Workers
  /\ sdk \in {"idle", "connected", "ended"} \union Connecting \union Stopping
  /\ result \in {"none", "ok", "SpawnFailed", "CliExited", "HandshakeFailed",
                 "OutOfMemory", "ShutdownFailed"}
  /\ proc \in {"none", "running", "exited", "failed", "reaped"}
  /\ stdin \in {"open", "closed"}
  /\ writing \in Seq([side : Side, line : Line]) /\ Len(writing) <= 1
  /\ hsBuf \in Seq(Line)
  /\ written \in [Side -> Seq(Line)] /\ pipe \in [Side -> Seq(Line)]
  /\ drainBuf \in [Side -> Seq(Line)] /\ logged \in [Side -> Seq(Line)]
  /\ drain \in [Side -> {"none", "running", "inline", "cancelled", "done"}]
  /\ \A s \in Side : Len(written[s]) <= MaxLines /\ Len(pipe[s]) <= PipeCapacity

Empty == [s \in Side |-> <<>>]

Init ==
  /\ others \in 0 .. Workers
  /\ sdk = "idle" /\ result = "none" /\ proc = "none" /\ stdin = "open"
  /\ writing = <<>> /\ written = Empty /\ pipe = Empty
  /\ hsBuf = <<>> /\ drainBuf = Empty /\ logged = Empty
  /\ drain = [s \in Side |-> "none"]

---------------------------------------------------------------------------
(* The CLI, which is not part of the repository: it prints what it likes,
   announces itself once, and exits when its stdin ends.                   *)

Announced == \E s \in Side, i \in 1 .. MaxLines :
               i <= Len(written[s]) /\ written[s][i].kind = "params"

Begin(s, k) ==
  /\ proc = "running" /\ writing = <<>>
  /\ Len(written[s]) < MaxLines
  /\ writing' = <<[side |-> s, line |-> [no |-> Len(written[s]) + 1, kind |-> k]]>>
  /\ UNCHANGED <<others, sdk, result, proc, stdin, written, pipe, hsBuf, logVars>>

(* The last line of stdout is kept for the handshake. *)
CliPrints(s, k) ==
  /\ s = "stdout" /\ ~Announced => Len(written[s]) < MaxLines - 1
  /\ Begin(s, k)

CliAnnounces == ~Announced /\ Begin("stdout", "params")

CliWrites ==
  /\ proc = "running" /\ writing # <<>>
  /\ LET s == writing[1].side
     IN /\ Len(pipe[s]) < PipeCapacity
        /\ pipe' = [pipe EXCEPT ![s] = Append(@, writing[1].line)]
        /\ written' = [written EXCEPT ![s] = Append(@, writing[1].line)]
  /\ writing' = <<>>
  /\ UNCHANGED <<others, sdk, result, proc, stdin, hsBuf, logVars>>

CliSeesEOF ==
  /\ proc = "running" /\ stdin = "closed" /\ writing = <<>>
  /\ proc' \in {"exited", "failed"}
  /\ UNCHANGED <<others, sdk, result, cliVars, pipe, hsBuf, logVars>>

(* It dies of its own, at any time, perhaps half way through a line: what
   a reader has of that line it drops at EOF.                              *)
CliDies ==
  /\ proc = "running"
  /\ proc' \in {"exited", "failed"}
  /\ writing' = <<>>
  /\ UNCHANGED <<others, sdk, result, stdin, written, pipe, hsBuf, logVars>>

Blocked == writing # <<>> /\ Len(pipe[writing[1].side]) = PipeCapacity

---------------------------------------------------------------------------
(* connect().                                                              *)

Spawn ==
  /\ sdk = "idle"
  /\ \/ /\ sdk' = "handshake" /\ proc' = "running"
        /\ UNCHANGED result
     \/ /\ sdk' = "ended" /\ result' = "SpawnFailed"
        /\ UNCHANGED proc
  /\ UNCHANGED <<others, cliVars, pipe, hsBuf, logVars>>

(* One read takes what the pipe holds into the 4096-byte buffer. *)
FillHandshake ==
  /\ sdk = "handshake" /\ hsBuf = <<>> /\ pipe["stdout"] # <<>>
  /\ hsBuf' = pipe["stdout"]
  /\ pipe' = [pipe EXCEPT !["stdout"] = <<>>]
  /\ UNCHANGED <<others, sdk, result, proc, cliVars, logVars>>

(* A blank line is skipped, one that does not parse is logged, and so is the
   handshake's own when the parser cannot allocate.                        *)
ReadLine ==
  /\ sdk = "handshake" /\ hsBuf # <<>>
  /\ hsBuf' = Tail(hsBuf)
  /\ \/ Head(hsBuf).kind = "blank" /\ UNCHANGED <<sdk, logged>>
     \/ /\ Head(hsBuf).kind # "blank"
        /\ logged' = [logged EXCEPT !["stdout"] = Append(@, Head(hsBuf))]
        /\ UNCHANGED sdk
     \/ /\ Head(hsBuf).kind = "params"
        /\ sdk' = "drain_stdout"
        /\ UNCHANGED logged
  /\ UNCHANGED <<others, result, proc, cliVars, pipe, drain, drainBuf>>

(* Slip: an error path without the errdefer. *)
ConnectFailsNoKill(err) ==
  /\ sdk = "handshake"
  /\ sdk' = "ended" /\ result' = err
  /\ UNCHANGED <<others, proc, cliVars, pipe, hsBuf, logVars>>

(* The errdefer kills the child and waits for it. *)
ConnectFails(err) ==
  /\ sdk = "handshake"
  /\ sdk' = "ended" /\ result' = err /\ proc' = "reaped"
  /\ writing' = <<>>
  /\ UNCHANGED <<others, stdin, written, pipe, hsBuf, logVars>>

HandshakeEOF ==
  /\ hsBuf = <<>> /\ pipe["stdout"] = <<>> /\ proc # "running"
  /\ ConnectFails("CliExited")

HandshakeBreaks ==
  \/ hsBuf = <<>> /\ ConnectFails("HandshakeFailed")
  \/ hsBuf # <<>> /\ ConnectFails("OutOfMemory")

After == [here \in {"drain_stdout", "drain_stderr"} |->
            IF here = "drain_stdout" THEN "drain_stderr" ELSE "connected"]

Starting(s) == IF s = "stdout" THEN "drain_stdout" ELSE "drain_stderr"

WorkerFree == others + Cardinality({u \in Side : drain[u] = "running"}) < Workers

(* io.async(drainPipe): beside connect() when a worker is free ...         *)
StartDrain(s) ==
  /\ sdk = Starting(s) /\ drain[s] = "none"
  /\ WorkerFree
  /\ drain' = [drain EXCEPT ![s] = "running"]
  /\ sdk' = After[sdk]
  /\ UNCHANGED <<others, result, proc, cliVars, pipe, hsBuf, drainBuf, logged>>

(* ... and inside it when none is, until the pipe's end.                   *)
StartDrainInline(s) ==
  /\ sdk = Starting(s) /\ drain[s] = "none"
  /\ ~WorkerFree
  /\ drain' = [drain EXCEPT ![s] = "inline"]
  /\ UNCHANGED <<others, sdk, result, proc, cliVars, pipe, hsBuf, drainBuf, logged>>

InlineDrainOver(s) ==
  /\ sdk = Starting(s) /\ drain[s] = "done"
  /\ sdk' = After[sdk]
  /\ UNCHANGED <<others, result, proc, cliVars, pipe, hsBuf, logVars>>

---------------------------------------------------------------------------
(* drainPipe, one task for each pipe.                                      *)

Draining(s) == drain[s] \in {"running", "inline", "cancelled"}

(* Slip: the pipe is read while lines of the last read are still there.    *)
DrainFillOver(s) ==
  /\ Draining(s) /\ pipe[s] # <<>>
  /\ drainBuf' = [drainBuf EXCEPT ![s] = pipe[s]]
  /\ pipe' = [pipe EXCEPT ![s] = <<>>]
  /\ UNCHANGED <<others, sdk, result, proc, cliVars, hsBuf, drain, logged>>

DrainFill(s) ==
  /\ Draining(s) /\ drainBuf[s] = <<>> /\ pipe[s] # <<>>
  /\ drainBuf' = [drainBuf EXCEPT ![s] = pipe[s]]
  /\ pipe' = [pipe EXCEPT ![s] = <<>>]
  /\ UNCHANGED <<others, sdk, result, proc, cliVars, hsBuf, drain, logged>>

DrainLine(s) ==
  /\ Draining(s) /\ drainBuf[s] # <<>>
  /\ logged' = [logged EXCEPT ![s] = Append(@, Head(drainBuf[s]))]
  /\ drainBuf' = [drainBuf EXCEPT ![s] = Tail(@)]
  /\ UNCHANGED <<others, sdk, result, proc, cliVars, pipe, hsBuf, drain>>

(* Slip: the pipe's end is taken for one more blank line, and read again.  *)
DrainEOFIgnored(s) ==
  /\ Draining(s) /\ drainBuf[s] = <<>>
  /\ drain[s] = "cancelled"
  /\ drain' = [drain EXCEPT ![s] = "done"]
  /\ UNCHANGED <<others, sdk, result, proc, cliVars, pipe, hsBuf, drainBuf, logged>>

(* At the pipe's end, or when a read finds the task cancelled.             *)
DrainEnds(s) ==
  /\ Draining(s) /\ drainBuf[s] = <<>>
  /\ drain[s] = "cancelled" \/ (pipe[s] = <<>> /\ proc # "running")
  /\ drain' = [drain EXCEPT ![s] = "done"]
  /\ UNCHANGED <<others, sdk, result, proc, cliVars, pipe, hsBuf, drainBuf, logged>>

(* A line that cannot be allocated ends the task, silently.                *)
DrainGivesUp(s) ==
  /\ Draining(s) /\ drainBuf[s] # <<>>
  /\ drain' = [drain EXCEPT ![s] = "done"]
  /\ UNCHANGED <<others, sdk, result, proc, cliVars, pipe, hsBuf, drainBuf, logged>>

---------------------------------------------------------------------------
(* shutdown(): cancel asks the task to stop and waits until it has.        *)

Cancelled(s) == [drain EXCEPT ![s] = IF @ = "running" THEN "cancelled" ELSE @]

Shutdown ==
  /\ sdk = "connected"
  /\ sdk' = "cancel_stdout"
  /\ drain' = Cancelled("stdout")
  /\ UNCHANGED <<others, result, proc, cliVars, pipe, hsBuf, drainBuf, logged>>

CancelStderr ==
  /\ sdk = "cancel_stdout" /\ drain["stdout"] = "done"
  /\ sdk' = "cancel_stderr"
  /\ drain' = Cancelled("stderr")
  /\ UNCHANGED <<others, result, proc, cliVars, pipe, hsBuf, drainBuf, logged>>

(* Slips: stdin stays open; the second task is not waited for.             *)
CloseStdinForgotten ==
  /\ sdk = "cancel_stderr" /\ drain["stderr"] = "done"
  /\ sdk' = "waiting"
  /\ UNCHANGED <<others, result, proc, cliVars, pipe, hsBuf, logVars>>

CloseStdinAtOnce ==
  /\ sdk = "cancel_stderr"
  /\ sdk' = "waiting" /\ stdin' = "closed"
  /\ UNCHANGED <<others, result, proc, writing, written, pipe, hsBuf, logVars>>

CloseStdin ==
  /\ sdk = "cancel_stderr" /\ drain["stderr"] = "done"
  /\ sdk' = "waiting" /\ stdin' = "closed"
  /\ UNCHANGED <<others, result, proc, writing, written, pipe, hsBuf, logVars>>

Wait ==
  /\ sdk = "waiting" /\ proc \in {"exited", "failed"}
  /\ sdk' = "ended" /\ proc' = "reaped"
  /\ result' = IF proc = "exited" THEN "ok" ELSE "ShutdownFailed"
  /\ UNCHANGED <<others, cliVars, pipe, hsBuf, logVars>>

(* wait itself fails, cancelled say: the child may live on.                *)
WaitFails ==
  /\ sdk = "waiting"
  /\ sdk' = "ended" /\ result' = "ShutdownFailed"
  /\ UNCHANGED <<others, proc, cliVars, pipe, hsBuf, logVars>>

---------------------------------------------------------------------------
CliStep == CliWrites \/ CliAnnounces \/ CliSeesEOF

SdkStep ==
  \/ FillHandshake \/ ReadLine \/ HandshakeEOF
  \/ \E s \in Side : StartDrain(s) \/ StartDrainInline(s) \/ InlineDrainOver(s)
  \/ CancelStderr \/ CloseStdin \/ Wait

DrainStep(s) == DrainFill(s) \/ DrainLine(s) \/ DrainEnds(s)

Next ==
  \/ \E s \in Side, k \in {"blank", "progress"} : CliPrints(s, k)
  \/ CliStep \/ CliDies
  \/ Spawn \/ SdkStep \/ HandshakeBreaks \/ Shutdown \/ WaitFails
  \/ \E s \in Side : DrainStep(s) \/ DrainGivesUp(s)

(* A process, a task and connect() or shutdown() run when they can; nobody
   has to die, to run out of memory or to call shutdown().                 *)
Spec == /\ Init /\ [][Next]_vars
        /\ WF_vars(CliStep) /\ WF_vars(SdkStep)
        /\ \A s \in Side : WF_vars(DrainStep(s))

---------------------------------------------------------------------------
(* Properties.                                                             *)

(* A connect() that fails after spawn leaves no child behind, and a
   shutdown() that succeeds has reaped it (errdefer, cli_session.zig:110). *)
NoOrphan ==
  sdk = "ended" /\ result # "ShutdownFailed" => proc \in {"none", "reaped"}

(* The logger gets every line of stderr once, in order, up to the moment the
   drain task stops.                                                       *)
StderrLoggedInOrder ==
  /\ IsPrefix(logged["stderr"], written["stderr"])
  /\ drain["stderr"] \in {"none", "running", "inline"}
       => logged["stderr"] \o drainBuf["stderr"] \o pipe["stderr"] = written["stderr"]

(* The logger, and the context it captured, are not used once connect() has
   failed or shutdown() has returned: their owner may free them.           *)
LoggerQuietAfterEnd == [][sdk = "ended" => UNCHANGED logged]_vars

(* connect() waits for ever only for a CLI that lives: one stuck on the
   stderr pipe, which nobody drains during the handshake; one whose handshake
   line was swallowed for want of memory; or one whose drain io.async runs
   inside connect() (cli_session.zig:155, 157), every worker being taken by
   the program's other tasks and the first drain, and which prints no more.  *)
ConnectStallsOnlyOn ==
  sdk \in Connecting ~>
    \/ sdk \notin Connecting
    \/ /\ proc = "running" /\ sdk = "handshake"
       /\ \/ Blocked /\ writing[1].side = "stderr"
          \/ \E i \in DOMAIN logged["stdout"] : logged["stdout"][i].kind = "params"
    \/ /\ proc = "running" /\ others + 1 >= Workers
       /\ \E s \in Side : /\ sdk = Starting(s) /\ drain[s] = "inline"
                        /\ pipe[s] = <<>> /\ drainBuf[s] = <<>>

(* shutdown() waits for ever only for a CLI that is stuck on a full pipe.  *)
ShutdownStallsOnlyOn == sdk \in Stopping ~> (sdk = "ended" \/ Blocked)
===========================================================================
