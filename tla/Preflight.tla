------------------------------ MODULE Preflight ------------------------------
(***************************************************************************)
(* preflight.Validate over kubectl.ExecutableRunner: connectivity, RBAC    *)
(* and a functional port-forward probe, each a kubectl process under one   *)
(* context with a timeout.                                                 *)
(*                                                                         *)
(* The probe is RunUntilReady: the main goroutine selects over the events  *)
(* of two scanner goroutines (a channel with two places), the result of    *)
(* cmd.Wait from a third, and the context.                                 *)
(***************************************************************************)
EXTENDS Naturals, Sequences, FiniteSets

CONSTANTS
    Lines,       \* bound: lines kubectl prints on each stream
    ChannelSize, \* places of the events channel
    Timed        \* TRUE: --timeout is positive

ASSUME PreflightAssumption ==
    /\ Lines \in Nat
    /\ ChannelSize \in Nat
    /\ Timed \in BOOLEAN

VARIABLES
    step,      \* which command of Validate runs: version, rbac, probe;
               \* returned; over when connect has gone on
    main,      \* the runner's main goroutine: call, select, stop
    result,    \* what Validate returned
    kubectl,   \* the child: none, up, or how it exited
    answer,    \* stdout of `auth can-i'
    expired,   \* the context is done
    pipe,      \* lines of the probe not yet read, per stream
    printed,   \* lines the probe has printed, per stream
    open,      \* the reading ends of the pipes are open
    scanner,   \* each scanner: reading, or done
    buffer,    \* lines a scanner has read and not yet sent
    events,    \* the channel
    waitCh,    \* cmd.Wait has delivered
    seen       \* streams whose collected output has a ready line

Streams == {"stdout", "stderr"}
Text    == {"forwarding", "other", "long"}   \* long: longer than a scanner takes
Exits   == {"ok", "failed", "killed"}
childVars == <<pipe, printed, open, scanner, buffer, events, waitCh, seen>>
vars == <<step, main, result, kubectl, answer, expired, childVars>>

TypeOK ==
    /\ step \in {"version", "rbac", "probe", "returned", "over"}
    /\ main \in {"call", "select", "stop"}
    /\ result \in {"none", "valid", "denied", "not-ready", "error"}
    /\ kubectl \in {"none", "up"} \cup Exits
    /\ answer \in {"yes", "no"}
    /\ expired \in BOOLEAN
    /\ pipe \in [Streams -> Seq(Text)] /\ printed \in [Streams -> Seq(Text)]
    /\ open \in BOOLEAN
    /\ scanner \in [Streams -> {"reading", "done"}]
    /\ buffer \in [Streams -> Seq(Text)]
    /\ events \in Seq([stream : Streams, line : Text \cup {"error"}])
    /\ waitCh \in BOOLEAN
    /\ seen \subseteq Streams

NoChild ==
    /\ pipe = [s \in Streams |-> <<>>] /\ printed = [s \in Streams |-> <<>>]
    /\ open = FALSE
    /\ scanner = [s \in Streams |-> "done"]
    /\ buffer = [s \in Streams |-> <<>>]
    /\ events = <<>> /\ waitCh = FALSE /\ seen = {}

Init ==
    /\ step = "version" /\ main = "call"
    /\ result = "none" /\ kubectl = "none"
    /\ answer \in {"yes", "no"}
    /\ expired = FALSE
    /\ NoChild

Return(r) == step' = "returned" /\ result' = r

-----------------------------------------------------------------------------
(* ExecutableRunner.Run, for the first two commands.  A command whose      *)
(* context is already done is not started.                                 *)

StartRun ==
    /\ step \in {"version", "rbac"} /\ main = "call" /\ kubectl = "none"
    /\ \/ ~expired /\ kubectl' = "up" /\ UNCHANGED <<step, result>>
       \/ Return("error") /\ UNCHANGED kubectl
    /\ UNCHANGED <<main, answer, expired, childVars>>

\* cmd.Run has returned; the next command follows, or Validate returns.  Run
\* collects the output in buffers and so waits for every process that holds the
\* pipes, with no WaitDelay; kubectl is taken to leave no such process behind.
RunReturns ==
    /\ step \in {"version", "rbac"} /\ kubectl \in Exits
    /\ CASE kubectl # "ok" -> Return("error")
         [] kubectl = "ok" /\ step = "version" -> step' = "rbac" /\ UNCHANGED result
         [] kubectl = "ok" /\ step = "rbac" /\ answer = "yes" ->
                step' = "probe" /\ UNCHANGED result
         [] OTHER -> Return("denied")
    /\ kubectl' = "none"
    /\ UNCHANGED <<main, answer, expired, childVars>>

-----------------------------------------------------------------------------
(* RunUntilReady, for the probe. *)

StartProbe ==
    /\ step = "probe" /\ main = "call"
    /\ \/ /\ ~expired
          /\ kubectl' = "up" /\ main' = "select"
          /\ open' = TRUE
          /\ scanner' = [s \in Streams |-> "reading"]
          /\ UNCHANGED <<step, result, pipe, printed, buffer, events, waitCh, seen>>
       \/ /\ Return("error")
          /\ UNCHANGED <<main, kubectl, childVars>>
    /\ UNCHANGED <<answer, expired>>

\* Mutant: the exit status of the probe is passed on as the verdict.
ProbeOutcomeStatus(out) == "ok"

\* Validate looks for the ready line in what was collected of stdout.
ProbeOutcome(out) == IF "stdout" \in out THEN "valid" ELSE "not-ready"

\* Mutant: after a ready line the probe returns without stopping kubectl.
SelectEventWithoutStop ==
    /\ main = "select" /\ step = "probe"
    /\ events # <<>>
    /\ events' = Tail(events)
    /\ IF Head(events).line = "forwarding"
         THEN /\ seen' = seen \cup {Head(events).stream}
              /\ Return(ProbeOutcome(seen'))
         ELSE UNCHANGED <<seen, step, result>>
    /\ UNCHANGED <<main, kubectl, answer, expired, pipe, printed, open, scanner, buffer, waitCh>>

\* An event: its line is collected; a ready line stops the process.
SelectEvent ==
    /\ main = "select" /\ step = "probe"
    /\ events # <<>>
    /\ events' = Tail(events)
    /\ IF Head(events).line = "forwarding"
         THEN /\ seen' = seen \cup {Head(events).stream}
              /\ kubectl' = IF kubectl = "up" THEN "killed" ELSE kubectl
              /\ main' = "stop"
         ELSE UNCHANGED <<seen, kubectl, main>>
    /\ UNCHANGED <<step, result, answer, expired, pipe, printed, open, scanner, buffer, waitCh>>

\* Mutant: a clean exit of the probe counts as a working tunnel.
SelectExitAsValid ==
    /\ main = "select" /\ step = "probe"
    /\ waitCh
    /\ Return(IF kubectl = "ok" THEN "valid" ELSE "error")
    /\ UNCHANGED <<main, kubectl, answer, expired, childVars>>

\* kubectl exited by itself; events still in the channel are not collected.
SelectExit ==
    /\ main = "select" /\ step = "probe"
    /\ waitCh
    /\ Return(IF kubectl = "ok" THEN ProbeOutcome(seen) ELSE "error")
    /\ UNCHANGED <<main, kubectl, answer, expired, childVars>>

\* The context is done: the process is killed, the result is its error.
SelectDone ==
    /\ main = "select" /\ step = "probe"
    /\ expired
    /\ kubectl' = IF kubectl = "up" THEN "killed" ELSE kubectl
    /\ main' = "stop" /\ result' = "error"
    /\ UNCHANGED <<step, answer, expired, childVars>>

\* <-waitCh after stopProcess.
StopReturns ==
    /\ main = "stop" /\ step = "probe"
    /\ waitCh
    /\ Return(IF result = "error" THEN "error" ELSE ProbeOutcome(seen))
    /\ UNCHANGED <<main, kubectl, answer, expired, childVars>>

\* Mutant: Wait is called only after both scans have ended.
WaitDeliversAfterScans ==
    /\ step = "probe" /\ main # "call"
    /\ kubectl \in Exits /\ ~waitCh
    /\ \A s \in Streams : scanner[s] = "done"
    /\ waitCh' = TRUE /\ open' = FALSE
    /\ UNCHANGED <<step, main, result, kubectl, answer, expired, pipe, printed, scanner,
                   buffer, events, seen>>

\* The goroutine that waits for kubectl; Wait closes the pipes.
WaitDelivers ==
    /\ step = "probe" /\ main # "call"
    /\ kubectl \in Exits /\ ~waitCh
    /\ waitCh' = TRUE /\ open' = FALSE
    /\ UNCHANGED <<step, main, result, kubectl, answer, expired, pipe, printed, scanner,
                   buffer, events, seen>>

-----------------------------------------------------------------------------
(* scanOutput. *)

ScannerReads(s) ==
    /\ scanner[s] = "reading" /\ buffer[s] = <<>> /\ open
    /\ pipe[s] # <<>>
    /\ buffer' = [buffer EXCEPT ![s] = pipe[s]]
    /\ pipe' = [pipe EXCEPT ![s] = <<>>]
    /\ UNCHANGED <<step, main, result, kubectl, answer, expired, printed, open, scanner,
                   events, waitCh, seen>>

\* Blocks while the channel is full.
ScannerSends(s) ==
    /\ buffer[s] # <<>> /\ Head(buffer[s]) # "long"
    /\ Len(events) < ChannelSize
    /\ events' = Append(events, [stream |-> s, line |-> Head(buffer[s])])
    /\ buffer' = [buffer EXCEPT ![s] = Tail(@)]
    /\ UNCHANGED <<step, main, result, kubectl, answer, expired, pipe, printed, open,
                   scanner, waitCh, seen>>

\* A scan ends silently at the end of the output; when the pipe was closed
\* under it, it sends an error event, which the main loop skips.
ScannerEnds(s) ==
    /\ scanner[s] = "reading" /\ buffer[s] = <<>>
    /\ \/ open /\ kubectl \in Exits /\ pipe[s] = <<>> /\ UNCHANGED events
       \/ /\ ~open
          /\ Len(events) < ChannelSize
          /\ events' = Append(events, [stream |-> s, line |-> "error"])
    /\ scanner' = [scanner EXCEPT ![s] = "done"]
    /\ UNCHANGED <<step, main, result, kubectl, answer, expired, pipe, printed, open, buffer,
                   waitCh, seen>>

\* bufio.ErrTooLong: the scan ends while kubectl is up, and nobody reads the
\* stream any more.
ScannerGivesUp(s) ==
    /\ buffer[s] # <<>> /\ Head(buffer[s]) = "long"
    /\ Len(events) < ChannelSize
    /\ events' = Append(events, [stream |-> s, line |-> "error"])
    /\ buffer' = [buffer EXCEPT ![s] = <<>>]
    /\ scanner' = [scanner EXCEPT ![s] = "done"]
    /\ UNCHANGED <<step, main, result, kubectl, answer, expired, pipe, printed, open,
                   waitCh, seen>>

-----------------------------------------------------------------------------
(* kubectl and the context. *)

KubectlPrints(s) ==
    /\ step = "probe" /\ kubectl = "up"
    /\ Len(printed[s]) < Lines
    /\ \E line \in Text :
          /\ pipe' = [pipe EXCEPT ![s] = Append(@, line)]
          /\ printed' = [printed EXCEPT ![s] = Append(@, line)]
    /\ UNCHANGED <<step, main, result, kubectl, answer, expired, open, scanner, buffer,
                   events, waitCh, seen>>

KubectlExits ==
    /\ kubectl = "up"
    /\ kubectl' \in {"ok", "failed"}
    /\ UNCHANGED <<step, main, result, answer, expired, childVars>>

\* The deadline of the context.  exec.CommandContext kills the running child.
Expire ==
    /\ Timed /\ ~expired /\ step \notin {"returned", "over"}
    /\ expired' = TRUE
    /\ kubectl' = IF kubectl = "up" THEN "killed" ELSE kubectl
    /\ UNCHANGED <<step, main, result, answer, childVars>>

-----------------------------------------------------------------------------
Runner == StartRun \/ RunReturns \/ StartProbe \/ SelectEvent \/ SelectExit \/ SelectDone
             \/ StopReturns \/ WaitDelivers
Scan(s) == ScannerReads(s) \/ ScannerSends(s) \/ ScannerEnds(s) \/ ScannerGivesUp(s)

\* After Validate returned, what is left are scanners that end, or stay blocked
\* on a channel nobody reads, until the command exits.
Returned == step = "returned" /\ UNCHANGED vars

\* connect goes on.  The goroutines that are left have a pipe and a channel of
\* their own and are left out of the picture.
Leave ==
    /\ step = "returned" /\ result = "valid"
    /\ step' = "over" /\ main' = "call"
    /\ result' = "none" /\ kubectl' = IF kubectl = "up" THEN "up" ELSE "none"
    /\ answer' = "yes" /\ expired' = FALSE
    /\ pipe' = [s \in Streams |-> <<>>] /\ printed' = [s \in Streams |-> <<>>]
    /\ open' = FALSE
    /\ scanner' = [s \in Streams |-> "done"]
    /\ buffer' = [s \in Streams |-> <<>>]
    /\ events' = <<>> /\ waitCh' = FALSE /\ seen' = {}

Next == Runner \/ (\E s \in Streams : Scan(s) \/ KubectlPrints(s)) \/ KubectlExits \/ Expire
           \/ Returned

Spec == Init /\ [][Next]_vars

\* The goroutines run and a positive timeout expires.  kubectl itself may hang.
Fairness == WF_vars(Runner) /\ (\A s \in Streams : WF_vars(Scan(s))) /\ WF_vars(Expire)
FairSpec == Spec /\ Fairness

-----------------------------------------------------------------------------
(* Properties. *)

\* Whichever case of the select wins, when Validate returns its kubectl is gone,
\* so that the local port of the probe is free for the supervisor's kubectl.
NoKubectlLeft == step = "returned" => kubectl # "up"

\* Validate succeeds only if access was granted and the probe's kubectl itself
\* announced the tunnel on stdout.
ValidMeansForwarded ==
    result = "valid" =>
        /\ answer = "yes"
        /\ \E i \in DOMAIN printed["stdout"] : printed["stdout"][i] = "forwarding"

\* Validate returns, even when kubectl hangs or when it prints more lines than
\* the channel holds, or a line that ends a scan, and nobody reads any more.
ValidateEnds == <>(step = "returned")
=============================================================================
