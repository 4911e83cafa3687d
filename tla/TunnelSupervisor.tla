--------------------------- MODULE TunnelSupervisor ---------------------------
(***************************************************************************)
(* The inner loop of the hidden `tunnel-supervisor' command: it runs       *)
(* `kubectl port-forward', scans both of its output streams for the line   *)
(* that announces the tunnel, writes supervisor.ready, and starts kubectl  *)
(* again after a growing pause when it exits.                              *)
(*                                                                         *)
(* The main goroutine, the two scanner goroutines and kubectl are          *)
(* concurrent.  A pipe is a sequence of lines; cmd.Wait closes the reading *)
(* ends as soon as kubectl has exited, so unread lines can be lost, while  *)
(* lines a scanner has already buffered are still delivered.               *)
(***************************************************************************)
EXTENDS Naturals, Sequences

CONSTANTS
    Streams,         \* the output streams of kubectl
    PipeBound,       \* bound: lines of a stream that are not yet handled
    AttemptBound,    \* bound: attempts are counted up to this number
    InitialBackoff,  \* seconds before the second attempt
    MaxBackoff,      \* longest pause
    StartMayFail,    \* TRUE: kubectl sometimes cannot be started
    Cancellable      \* TRUE: the command's context can be cancelled

ASSUME LoopAssumption ==
    /\ PipeBound \in Nat
    /\ AttemptBound \in Nat \ {0}
    /\ InitialBackoff \in Nat \ {0}
    /\ MaxBackoff \in Nat
    /\ InitialBackoff <= MaxBackoff
    /\ StartMayFail \in BOOLEAN
    /\ Cancellable \in BOOLEAN

VARIABLES
    phase,      \* of the main goroutine
    reconnect,  \* state.Reconnect and not --no-reconnect
    attempt,    \* number of the current attempt
    backoff,    \* the next pause
    kubectl,    \* the child process
    pipe,       \* lines written by kubectl and not yet read
    open,       \* the reading ends of the pipes are open
    scanner,    \* the scanner goroutine of each stream
    buffer,     \* lines a scanner has read and not yet handled
    readyOnce,  \* the sync.Once of this attempt has run
    readyFile,  \* supervisor.ready has been written
    announced,  \* history: streams on which kubectl announced a tunnel in this attempt
    cancelled   \* the context is done

loopVars == <<phase, attempt, backoff>>
scanVars == <<pipe, open, scanner, buffer>>
vars == <<phase, reconnect, attempt, backoff, kubectl, pipe, open, scanner, buffer,
          readyOnce, readyFile, announced, cancelled>>

\* "long" is a line that does not fit the buffer of a bufio.Scanner.
Lines == {"forwarding", "other", "long"}

TypeOK ==
    /\ phase \in {"start", "running", "drain", "sleep", "exited"}
    /\ reconnect \in BOOLEAN
    /\ attempt \in 1..AttemptBound
    /\ backoff \in Nat
    /\ kubectl \in {"none", "up", "gone"}
    /\ pipe \in [Streams -> Seq(Lines)]
    /\ open \in BOOLEAN
    /\ scanner \in [Streams -> {"reading", "done"}]
    /\ buffer \in [Streams -> Seq(Lines)]
    /\ readyOnce \in BOOLEAN
    /\ readyFile \in BOOLEAN
    /\ announced \subseteq Streams
    /\ cancelled \in BOOLEAN

\* Mutant: attempts are counted from zero.
InitFromZero ==
    /\ phase = "start" /\ reconnect \in BOOLEAN
    /\ attempt = 0 /\ backoff = InitialBackoff
    /\ kubectl = "none" /\ open = FALSE
    /\ pipe = [s \in Streams |-> <<>>] /\ buffer = [s \in Streams |-> <<>>]
    /\ scanner = [s \in Streams |-> "done"]
    /\ readyOnce = FALSE /\ readyFile = FALSE /\ announced = {} /\ cancelled = FALSE

Init ==
    /\ phase = "start"
    /\ reconnect \in BOOLEAN
    /\ attempt = 1
    /\ backoff = InitialBackoff
    /\ kubectl = "none"
    /\ pipe = [s \in Streams |-> <<>>]
    /\ open = FALSE
    /\ scanner = [s \in Streams |-> "done"]
    /\ buffer = [s \in Streams |-> <<>>]
    /\ readyOnce = FALSE
    /\ readyFile = FALSE
    /\ announced = {}
    /\ cancelled = FALSE

-----------------------------------------------------------------------------
(* The main goroutine. *)

\* What runTunnelSupervisor does when an attempt has returned.
AfterAttempt == IF cancelled \/ ~reconnect THEN "exited" ELSE "sleep"

\* Opening the pipes or starting kubectl fails, the latter always when the
\* context is done: the attempt returns at once.
StartFails ==
    /\ phase = "start"
    /\ StartMayFail \/ cancelled
    /\ phase' = AfterAttempt
    /\ UNCHANGED <<reconnect, attempt, backoff, kubectl, scanVars, readyOnce, readyFile,
                   announced, cancelled>>

StartKubectl ==
    /\ phase = "start"
    /\ ~cancelled
    /\ phase' = "running"
    /\ kubectl' = "up"
    /\ pipe' = [s \in Streams |-> <<>>]
    /\ open' = TRUE
    /\ scanner' = [s \in Streams |-> "reading"]
    /\ buffer' = [s \in Streams |-> <<>>]
    /\ readyOnce' = FALSE
    /\ announced' = {}
    /\ UNCHANGED <<reconnect, attempt, backoff, readyFile, cancelled>>

\* cmd.Wait: kubectl has exited; the pipes are closed under the scanners.
WaitReturns ==
    /\ phase = "running"
    /\ kubectl = "gone"
    /\ phase' = "drain"
    /\ open' = FALSE
    /\ UNCHANGED <<reconnect, attempt, backoff, kubectl, pipe, scanner, buffer, readyOnce,
                   readyFile, announced, cancelled>>

\* Mutant: the attempt returns after the first of the two scanDone signals.
DrainFirst ==
    /\ phase = "drain"
    /\ \E s \in Streams : scanner[s] = "done"
    /\ phase' = AfterAttempt
    /\ UNCHANGED <<reconnect, attempt, backoff, kubectl, scanVars, readyOnce, readyFile,
                   announced, cancelled>>

\* Both receives from scanDone: the attempt returns.
Drain ==
    /\ phase = "drain"
    /\ \A s \in Streams : scanner[s] = "done"
    /\ phase' = AfterAttempt
    /\ UNCHANGED <<reconnect, attempt, backoff, kubectl, scanVars, readyOnce, readyFile,
                   announced, cancelled>>

\* Mutant: the doubled pause is not cut off.
NextBackoffUncut(b) == IF b < MaxBackoff THEN 2 * b ELSE b

NextBackoff(b) ==
    IF b < MaxBackoff THEN (IF 2 * b > MaxBackoff THEN MaxBackoff ELSE 2 * b) ELSE b

\* The pause is over; a select may prefer this to a context that is done too.
\* The code counts attempts without limit.
WakeUp ==
    /\ phase = "sleep"
    /\ phase' = "start"
    /\ backoff' = NextBackoff(backoff)
    /\ attempt' = IF attempt < AttemptBound THEN attempt + 1 ELSE attempt
    /\ UNCHANGED <<reconnect, kubectl, scanVars, readyOnce, readyFile, announced, cancelled>>

StopSleeping ==
    /\ phase = "sleep"
    /\ cancelled
    /\ phase' = "exited"
    /\ UNCHANGED <<reconnect, attempt, backoff, kubectl, scanVars, readyOnce, readyFile,
                   announced, cancelled>>

Main == StartFails \/ StartKubectl \/ WaitReturns \/ Drain \/ WakeUp \/ StopSleeping

-----------------------------------------------------------------------------
(* The scanner goroutines. *)

\* Mutant: only the first stream is scanned.
ScannerReadsFirst(s) ==
    /\ s = CHOOSE t \in Streams : TRUE
    /\ scanner[s] = "reading" /\ buffer[s] = <<>> /\ open
    /\ pipe[s] # <<>>
    /\ buffer' = [buffer EXCEPT ![s] = pipe[s]]
    /\ pipe' = [pipe EXCEPT ![s] = <<>>]
    /\ UNCHANGED <<loopVars, reconnect, kubectl, open, scanner, readyOnce, readyFile,
                   announced, cancelled>>

\* One read takes all that is in the pipe.
ScannerReads(s) ==
    /\ scanner[s] = "reading" /\ buffer[s] = <<>> /\ open
    /\ pipe[s] # <<>>
    /\ buffer' = [buffer EXCEPT ![s] = pipe[s]]
    /\ pipe' = [pipe EXCEPT ![s] = <<>>]
    /\ UNCHANGED <<loopVars, reconnect, kubectl, open, scanner, readyOnce, readyFile,
                   announced, cancelled>>

\* Mutant: any output counts as readiness.
IsReadyOutputAlways(line) == line \in Lines

IsReadyOutput(line) == line = "forwarding"

\* The first ready line of the attempt writes supervisor.ready; an error of
\* that write is dropped, and the Once is used up.
ScannerLine(s) ==
    /\ buffer[s] # <<>> /\ Head(buffer[s]) # "long"
    /\ buffer' = [buffer EXCEPT ![s] = Tail(@)]
    /\ IF IsReadyOutput(Head(buffer[s])) /\ ~readyOnce
         THEN readyOnce' = TRUE /\ readyFile' \in {readyFile, TRUE}
         ELSE UNCHANGED <<readyOnce, readyFile>>
    /\ UNCHANGED <<loopVars, reconnect, kubectl, pipe, open, scanner, announced, cancelled>>

\* bufio.ErrTooLong ends the scan while kubectl may run on: what else was
\* buffered is dropped, and nobody reads the stream any more.
ScannerGivesUp(s) ==
    /\ buffer[s] # <<>> /\ Head(buffer[s]) = "long"
    /\ buffer' = [buffer EXCEPT ![s] = <<>>]
    /\ scanner' = [scanner EXCEPT ![s] = "done"]
    /\ UNCHANGED <<loopVars, reconnect, kubectl, pipe, open, readyOnce, readyFile,
                   announced, cancelled>>

\* Mutant: the closing of the pipe does not end the scan, only its end does.
ScannerEndsAtEOF(s) ==
    /\ scanner[s] = "reading" /\ buffer[s] = <<>>
    /\ kubectl = "gone" /\ pipe[s] = <<>>
    /\ scanner' = [scanner EXCEPT ![s] = "done"]
    /\ UNCHANGED <<loopVars, reconnect, kubectl, pipe, open, buffer, readyOnce, readyFile,
                   announced, cancelled>>

\* End of file, or the pipe was closed by cmd.Wait.
ScannerEnds(s) ==
    /\ scanner[s] = "reading" /\ buffer[s] = <<>>
    /\ ~open \/ (kubectl = "gone" /\ pipe[s] = <<>>)
    /\ scanner' = [scanner EXCEPT ![s] = "done"]
    /\ UNCHANGED <<loopVars, reconnect, kubectl, pipe, open, buffer, readyOnce, readyFile,
                   announced, cancelled>>

Scan(s) == ScannerReads(s) \/ ScannerLine(s) \/ ScannerGivesUp(s) \/ ScannerEnds(s)

-----------------------------------------------------------------------------
(* kubectl and the context. *)

KubectlPrints(s, line) ==
    /\ kubectl = "up"
    /\ Len(pipe[s]) + Len(buffer[s]) < PipeBound
    /\ pipe' = [pipe EXCEPT ![s] = Append(@, line)]
    /\ announced' = IF line = "forwarding" THEN announced \cup {s} ELSE announced
    /\ UNCHANGED <<loopVars, reconnect, kubectl, open, scanner, buffer, readyOnce, readyFile,
                   cancelled>>

KubectlExits ==
    /\ kubectl = "up"
    /\ kubectl' = "gone"
    /\ UNCHANGED <<loopVars, reconnect, scanVars, readyOnce, readyFile, announced, cancelled>>

\* exec.CommandContext kills the child when the context is done.
Cancel ==
    /\ Cancellable /\ ~cancelled
    /\ cancelled' = TRUE
    /\ kubectl' = IF kubectl = "up" THEN "gone" ELSE kubectl
    /\ UNCHANGED <<loopVars, reconnect, scanVars, readyOnce, readyFile, announced>>

-----------------------------------------------------------------------------
\* After the command has returned nothing happens any more.
Finished == phase = "exited" /\ UNCHANGED vars

Next ==
    \/ Main
    \/ \E s \in Streams : Scan(s) \/ \E line \in Lines : KubectlPrints(s, line)
    \/ KubectlExits
    \/ Cancel
    \/ Finished

Spec == Init /\ [][Next]_vars

\* The goroutines of the supervisor are scheduled.  Nothing is assumed of
\* kubectl, except where a property says so.
Fairness == WF_vars(Main) /\ \A s \in Streams : WF_vars(Scan(s))

FairSpec == Spec /\ Fairness

-----------------------------------------------------------------------------
(* Properties. *)

\* Outside an attempt nothing of it is left: kubectl is not running and both
\* scanners have stopped, so no line of an old attempt can be taken for the
\* readiness of a new one and no second kubectl competes for the local port.
AttemptsDoNotOverlap ==
    phase \in {"start", "sleep", "exited"} =>
        kubectl # "up" /\ \A s \in Streams : scanner[s] = "done" /\ buffer[s] = <<>>

\* supervisor.ready is only written in an attempt whose kubectl has announced
\* the tunnel, on whichever stream.
ReadyIsTrue == readyOnce => announced # {}

\* The n-th pause is the initial one doubled n-1 times, cut off at the limit, for
\* as many attempts as there are: the code has no maximum (AttemptsLimited).
BackoffLaw ==
    attempt < AttemptBound =>
        LET doubled == InitialBackoff * 2 ^ (attempt - 1)
        IN  backoff = IF doubled < MaxBackoff THEN doubled ELSE MaxBackoff

\* While kubectl stays up, a tunnel announced on a stream is reported, however the
\* lines of the streams are interleaved, unless the scan of that very stream has
\* ended on a line too long for it; a report whose write fails counts.
ReadyReported ==
    \A s \in Streams :
        s \in announced ~> readyOnce \/ kubectl # "up" \/ scanner[s] = "done"

\* No attempt hangs: once its kubectl is gone, whatever is left in the pipes and
\* in whatever order Wait, the two scanners and the two receives from scanDone
\* come, the attempt returns to the loop.
NoAttemptHangs ==
    phase \in {"running", "drain"} /\ kubectl = "gone" ~> phase \in {"sleep", "exited"}

\* Functional specification, sections 17 and 26.5: reconnecting stops after the
\* configured maximum of attempts, 5 unless configured.  The loop has no maximum
\* and the configuration no such field.
MaxAttempts     == 5
AttemptsLimited == attempt <= 1 + MaxAttempts

\* The supervisor as Session sees it.  It listens from the announcement until
\* its attempt has returned, scanners included.
Mode == IF phase = "exited" THEN "dead"
        ELSE IF phase \in {"running", "drain"} /\ announced # {} THEN "listen" ELSE "dial"

Contract == INSTANCE SupervisorContract WITH
                Stoppable <- Cancellable, mode <- Mode, keeps <- reconnect,
                reported  <- readyFile

\* The loop with its goroutines implements what Session assumes of a supervisor:
\* supervisor.ready is never written by a line left over from an attempt that
\* has ended, and an attempt that returns leads back to dialling when the
\* supervisor reconnects and to its end when it does not.  Where the context can
\* be cancelled, the contract lets the supervisor end at any time.
ImplementsContract == Contract!ContractSpec
=============================================================================
