--------------------------- MODULE ConnectPrograms ---------------------------
(***************************************************************************)
(* The programs one connect runs, in their order: kubectl for the          *)
(* preflight, the kubectl that stays, and ssh for the remote set-up, beside*)
(* other connects that set up the same target.  The kubectl that stays is  *)
(* started by connect itself; the usual way, through a tunnel supervisor,  *)
(* is in modules Session and TunnelSupervisor.                             *)
(***************************************************************************)
EXTENDS Preflight, TunnelStart, RemoteSetup

CONSTANT Self   \* this connect's set-up script

ASSUME ConnectAssumption == Self \in Scripts /\ Timeout = Timed

programVars == <<vars, startVars, remoteVars>>

ProgramsInit == Init /\ StartInit /\ RemoteInit

RunPreflight == Next /\ UNCHANGED <<startVars, remoteVars>>

\* runPreflight returned nil: startTunnel, with a context of its own.  It looks for
\* kubectl once more, and fails when there is none.
BeginTunnel ==
    /\ Leave
    /\ starter = "idle"
    /\ starter' = "attempt" \/ (OpenMayFail /\ starter' = "failed")
    /\ UNCHANGED <<retry, attempt, child, log, logFiles, reaped, deadline, remoteVars>>

RunTunnel == StartNext /\ UNCHANGED <<vars, remoteVars>>

BeginSetup == LeaveStart /\ FindTarget /\ UNCHANGED vars

\* connect runs its script once; the other connects are run again and again.
RunSetup ==
    /\ \E s \in Scripts : \/ (s = Self => line[s] = "none") /\ StartScript(s)
                          \/ ScriptStep(s)
    /\ UNCHANGED <<vars, startVars>>

\* connect returned an error, and nothing of it is left.
Failed == starter = "failed" /\ UNCHANGED programVars

ProgramsNext == RunPreflight \/ BeginTunnel \/ RunTunnel \/ BeginSetup \/ RunSetup
                   \/ Failed

\* connect is scheduled; of ssh and the target nothing is assumed.
ProgramsSpec == /\ ProgramsInit /\ [][ProgramsNext]_programVars
                /\ Fairness /\ StartFairness /\ WF_programVars(BeginTunnel)

-----------------------------------------------------------------------------
ProgramsTypeOK == TypeOK /\ StartTypeOK /\ RemoteTypeOK

\* The probe of the preflight and the kubectl processes of all attempts use one
\* local port: at no time are two of them alive, though each is stopped in a
\* different place, by another goroutine, and at any moment of its life; and
\* after an error, and any number of attempts, none runs on.
OneKubectl ==
    /\ OnlyCurrentRuns
    /\ kubectl = "up" => starter = "idle"

\* With a timeout connect decides whether it has a tunnel, even if every kubectl
\* it runs is silent for ever, and whatever the order in which output, exits and
\* the two deadlines reach it.
TunnelDecided ==
    <>(\/ step = "returned" /\ result # "valid"
       \/ starter \in {"started", "failed"})
=============================================================================
