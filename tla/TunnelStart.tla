----------------------------- MODULE TunnelStart -----------------------------
(***************************************************************************)
(* tunnel.Supervisor.Start over ExecutableRunner.StartUntilReady: connect  *)
(* itself starts the kubectl that stays, instead of a tunnel supervisor    *)
(* (DEV_CONNECT_TEST_INLINE_TUNNEL).                                        *)
(*                                                                         *)
(* Each attempt writes kubectl's output to two new temporary files, which  *)
(* a ticker reads again and again; another goroutine waits for kubectl.    *)
(* Unlike the commands of the preflight, kubectl is not tied to the        *)
(* context: only the attempt that is running when it is done stops it.     *)
(***************************************************************************)
EXTENDS Naturals, FiniteSets

CONSTANTS
    MaxReconnects,   \* attempts after the first one
    OpenMayFail,     \* TRUE: kubectl is sometimes not found, or a log file or
                     \* kubectl itself cannot be started
    Timeout          \* TRUE: --timeout is positive

ASSUME TunnelStartAssumption ==
    /\ MaxReconnects \in Nat
    /\ OpenMayFail \in BOOLEAN
    /\ Timeout \in BOOLEAN

VARIABLES
    starter,      \* Start: idle, attempt, select, stop, started or failed;
                  \* over when connect has gone on
    retry,        \* options.Reconnect
    attempt,      \* number of the current attempt
    child,        \* the kubectl of each attempt: none, up or gone
    log,          \* attempts in whose log files kubectl has announced a tunnel
    logFiles,     \* temporary files created, which nobody removes
    reaped,       \* waitCh of the current attempt has the result of cmd.Wait
    deadline      \* the context is done

startVars == <<starter, retry, attempt, child, log, logFiles, reaped, deadline>>

Attempts == 1..(1 + MaxReconnects)

StartTypeOK ==
    /\ starter \in {"idle", "attempt", "select", "stop", "started", "failed",
                   "over"}
    /\ retry \in BOOLEAN
    /\ attempt \in Attempts
    /\ child \in [Attempts -> {"none", "up", "gone"}]
    /\ log \subseteq Attempts
    /\ logFiles \in Nat
    /\ reaped \in BOOLEAN
    /\ deadline \in BOOLEAN

StartInit ==
    /\ starter = "idle"
    /\ retry \in BOOLEAN
    /\ attempt = 1
    /\ child = [a \in Attempts |-> "none"]
    /\ log = {}
    /\ logFiles = 0
    /\ reaped = FALSE
    /\ deadline = FALSE

attemptsAllowed == 1 + IF retry THEN MaxReconnects ELSE 0

\* Mutant: one attempt more than is allowed.
NextAttemptOneMore ==
    IF attempt <= attemptsAllowed /\ attempt + 1 \in Attempts
      THEN starter' = "attempt" /\ attempt' = attempt + 1
      ELSE starter' = "failed" /\ UNCHANGED attempt

\* StartUntilReady returned an error: the loop goes on, at once.
NextAttempt ==
    IF attempt < attemptsAllowed
      THEN starter' = "attempt" /\ attempt' = attempt + 1
      ELSE starter' = "failed" /\ UNCHANGED attempt

\* The two files and kubectl; each of the three may fail.
StartAttempt ==
    /\ starter = "attempt"
    /\ \/ /\ starter' = "select"
          /\ logFiles' = logFiles + 2
          /\ child' = [child EXCEPT ![attempt] = "up"]
          /\ reaped' = FALSE
          /\ UNCHANGED attempt
       \/ /\ OpenMayFail
          /\ \E created \in 0..2 : logFiles' = logFiles + created
          /\ NextAttempt
          /\ UNCHANGED <<child, reaped>>
    /\ UNCHANGED <<retry, log, deadline>>

\* readyOutput of either file.
ReadySeen(a) == a \in log

\* The ticker: both files are read, and kubectl stays.
TickFindsReady ==
    /\ starter = "select"
    /\ ReadySeen(attempt)
    /\ starter' = "started"
    /\ UNCHANGED <<retry, attempt, child, log, logFiles, reaped, deadline>>

\* Mutant: the exit is judged by what the ticker has read before.
ExitSeenUnread ==
    /\ starter = "select"
    /\ reaped
    /\ NextAttempt
    /\ UNCHANGED <<retry, child, log, logFiles, reaped, deadline>>

\* kubectl exited; if it had announced a tunnel before, this is a success.
ExitSeen ==
    /\ starter = "select"
    /\ reaped
    /\ IF ReadySeen(attempt) THEN starter' = "started" /\ UNCHANGED attempt
                             ELSE NextAttempt
    /\ UNCHANGED <<retry, child, log, logFiles, reaped, deadline>>

\* Mutant: kubectl is not stopped.
DeadlineSeenWithoutStop ==
    /\ starter = "select"
    /\ deadline
    /\ NextAttempt
    /\ UNCHANGED <<retry, child, log, logFiles, reaped, deadline>>

\* Mutant: the context is only looked at in the last attempt.
DeadlineSeenLast ==
    /\ starter = "select"
    /\ deadline /\ attempt = attemptsAllowed
    /\ starter' = "stop"
    /\ child' = [child EXCEPT ![attempt] = "gone"]
    /\ UNCHANGED <<retry, attempt, log, logFiles, reaped, deadline>>

\* stopProcess; <-waitCh follows.
DeadlineSeen ==
    /\ starter = "select"
    /\ deadline
    /\ starter' = "stop"
    /\ child' = [child EXCEPT ![attempt] = "gone"]
    /\ UNCHANGED <<retry, attempt, log, logFiles, reaped, deadline>>

StopSeen ==
    /\ starter = "stop"
    /\ reaped
    /\ NextAttempt
    /\ UNCHANGED <<retry, child, log, logFiles, reaped, deadline>>

\* The goroutine in cmd.Wait.
Reap ==
    /\ starter \in {"select", "stop"}
    /\ child[attempt] = "gone" /\ ~reaped
    /\ reaped' = TRUE
    /\ UNCHANGED <<starter, retry, attempt, child, log, logFiles, deadline>>

Starter == StartAttempt \/ TickFindsReady \/ ExitSeen \/ DeadlineSeen \/ StopSeen \/ Reap

ChildAnnounces(a) ==
    /\ child[a] = "up" /\ a \notin log
    /\ log' = log \cup {a}
    /\ UNCHANGED <<starter, retry, attempt, child, logFiles, reaped, deadline>>

ChildExits(a) ==
    /\ child[a] = "up"
    /\ child' = [child EXCEPT ![a] = "gone"]
    /\ UNCHANGED <<starter, retry, attempt, log, logFiles, reaped, deadline>>

\* When Start has returned its context is cancelled, which changes nothing.
DeadlinePasses ==
    /\ Timeout /\ ~deadline
    /\ starter \in {"attempt", "select", "stop"}
    /\ deadline' = TRUE
    /\ UNCHANGED <<starter, retry, attempt, child, log, logFiles, reaped>>

\* connect goes on.  The kubectl that stays is the session's from here on.
LeaveStart ==
    /\ starter = "started"
    /\ starter' = "over"
    /\ attempt' = 1
    /\ child' = [a \in Attempts |-> "none"]
    /\ log' = {} /\ logFiles' = 0
    /\ reaped' = FALSE /\ deadline' = FALSE
    /\ UNCHANGED retry

StartNext == Starter \/ DeadlinePasses \/ \E a \in Attempts : ChildAnnounces(a) \/ ChildExits(a)

\* The goroutines run and a positive timeout expires; kubectl may be silent.
StartFairness == WF_startVars(Starter) /\ WF_startVars(DeadlinePasses)

-----------------------------------------------------------------------------
Running == {a \in Attempts : child[a] = "up"}

\* An announcement is not lost, however soon kubectl exits after it, and though
\* the ticker may never have read it: only the deadline makes Start give up an
\* attempt whose kubectl has announced a tunnel.
AnnouncementNotLost ==
    (\E a \in log : a < attempt \/ starter = "failed") => deadline

\* At any time at most the kubectl of the current attempt runs, and when Start has
\* returned only the one whose pid it returned.
OnlyCurrentRuns ==
    Running \subseteq IF starter \in {"select", "started"} THEN {attempt} ELSE {}

\* However its attempts end, Start leaves at most two temporary files for each
\* attempt it is allowed.
LogFilesBounded == logFiles <= 2 * attemptsAllowed
=============================================================================
