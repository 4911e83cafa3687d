---------------------------- MODULE SessionProofs ----------------------------
(***************************************************************************)
(* Theorems about Session, for every instance of its constants.            *)
(***************************************************************************)
EXTENDS Session, TLAPS

\* Labels at which a command has a session.State in hand.
HoldingLabels == {"stale", "known", "config", "save", "write", "preflight", "spawn",
                  "wait", "block", "remote", "data", "launch", "done",
                  "rmblock", "rmconfig", "rmknown", "rmdata", "kill", "scheck"}

\* What a command's local variables hold at each of its labels.
LocalOK(c) ==
    /\ pc[c] \in HoldingLabels => st[c] \in SessionState
    /\ pc[c] \in ConnectLabels => job[c] \in Requests
    /\ pc[c] \in CleanupLabels /\ stage[c] = "stale" => job[c] \in Requests
    /\ pc[c] = "wait" => child[c] \in Pids
    /\ pc[c] = "remote" => job[c].remote

TypeInv == TypeOK /\ \A c \in Commands : LocalOK(c)

\* Updates of a session.State and of a supervisor's work keep their types.
LEMMA StateUpdateTyped ==
    ASSUME NEW s \in SessionState
    PROVE  /\ WithBlock(s) \in SessionState
           /\ WithData(s) \in SessionState
           /\ \A p \in Pids : WithPid(s, p) \in SessionState
           /\ s.target \in Targets /\ s.port \in Ports
BY DEF SessionState, WithBlock, WithData, WithPid

LEMMA WorkUpdateTyped ==
    ASSUME NEW w \in Work, NEW port \in Ports, NEW b \in BOOLEAN
    PROVE  [w EXCEPT !.port = port, !.reconnect = @ /\ b] \in Work
BY DEF Work

LEMMA InitTyped == Init => TypeInv
<1>. SUFFICES ASSUME Init PROVE TypeInv
    OBVIOUS
<1>1. NoWork \in Work
    BY DEF NoWork, Work
<1>2. TypeOK
    BY <1>1 DEF Init, TypeOK, Labels, Stages, Replies, ProcStates
<1>3. ASSUME NEW c \in Commands PROVE LocalOK(c)
    BY <1>3 DEF Init, LocalOK, HoldingLabels, ConnectLabels, CleanupLabels
<1>. QED BY <1>2, <1>3 DEF TypeInv

LEMMA StartTyped ==
    ASSUME TypeInv, NEW c \in Commands,
           StartConnect(c) \/ StartDisconnect(c) \/ StartStatus(c)
    PROVE  TypeInv'
<1>. USE DEF TypeInv, TypeOK, LocalOK, Labels, Stages, Replies, HoldingLabels,
         ConnectLabels, CleanupLabels, StatusLabels, Goto, diskVars, procVars
<1>1. CASE StartConnect(c) BY <1>1 DEF StartConnect
<1>2. CASE StartDisconnect(c) BY <1>2 DEF StartDisconnect
<1>3. CASE StartStatus(c) BY <1>3 DEF StartStatus
<1>. QED BY <1>1, <1>2, <1>3

LEMMA LoadTyped ==
    ASSUME TypeInv, NEW c \in Commands,
           CheckSession(c) \/ LoadForDisconnect(c) \/ LoadForStatus(c)
    PROVE  TypeInv'
<1>. USE DEF TypeInv, TypeOK, LocalOK, Labels, Stages, Replies, HoldingLabels,
         ConnectLabels, CleanupLabels, CleanupStages, StatusLabels, Goto, Enter,
         End, Load, diskVars, procVars
<1>1. CASE CheckSession(c) BY <1>1 DEF CheckSession
<1>2. CASE LoadForDisconnect(c) BY <1>2 DEF LoadForDisconnect
<1>3. CASE LoadForStatus(c) BY <1>3 DEF LoadForStatus
<1>. QED BY <1>1, <1>2, <1>3

LEMMA PrepareTyped ==
    ASSUME TypeInv, NEW c \in Commands,
           CheckStale(c) \/ AllocatePort(c) \/ WriteKnownHosts(c) \/ WriteSSHConfig(c)
    PROVE  TypeInv'
<1>. USE DEF TypeInv, TypeOK, LocalOK, Labels, Stages, Replies, HoldingLabels,
         ConnectLabels, CleanupLabels, CleanupStages, SaveStages, StatusLabels,
         Goto, Enter, End, diskVars, procVars
<1>1. CASE CheckStale(c) BY <1>1 DEF CheckStale
<1>2. CASE AllocatePort(c)
  <2>1. ASSUME NEW port \in FreePorts
        PROVE  [target |-> job[c].target, port |-> port, pid |-> None,
                block |-> FALSE, data |-> FALSE, reconnect |-> job[c].reconnect]
                    \in SessionState
    BY <1>2, InstanceAssumption DEF AllocatePort, FreePorts, SessionState, RequestType
  <2>. QED BY <1>2, <2>1 DEF AllocatePort
<1>3. CASE WriteKnownHosts(c)
  <2>1. MyEndpoint(c) \in Endpoint
    BY <1>3 DEF WriteKnownHosts, MyEndpoint, Endpoint, SessionState
  <2>. QED BY <1>3, <2>1 DEF WriteKnownHosts
<1>4. CASE WriteSSHConfig(c)
  <2>1. MyEndpoint(c) \in Endpoint
    BY <1>4 DEF WriteSSHConfig, MyEndpoint, Endpoint, SessionState
  <2>. QED BY <1>4, <2>1 DEF WriteSSHConfig, sshVars
<1>. QED BY <1>1, <1>2, <1>3, <1>4

LEMMA SaveTyped ==
    ASSUME TypeInv, NEW c \in Commands, SaveTruncate(c) \/ SaveWrite(c)
    PROVE  TypeInv'
<1>. USE DEF TypeInv, TypeOK, LocalOK, Labels, Stages, Replies, HoldingLabels,
         ConnectLabels, CleanupLabels, CleanupStages, SaveStages, StatusLabels,
         Goto, Enter, End, FailEarly, FailLate, SaveFails, diskVars, sshVars, procVars
<1>1. CASE SaveTruncate(c) BY <1>1 DEF SaveTruncate
<1>2. CASE SaveWrite(c)
  <2>1. AfterSave(stage[c], job[c]) \in
            {"preflight", "block", "done", "remote", "data", "launch"}
    BY DEF AfterSave, AfterTunnel, AfterBlock, AfterRemote
  <2>2. AfterSave(stage[c], job[c]) = "remote" => job[c].remote
    BY DEF AfterSave, AfterTunnel, AfterBlock, AfterRemote
  <2>. QED BY <1>2, <2>1, <2>2 DEF SaveWrite
<1>. QED BY <1>1, <1>2

LEMMA TunnelTyped ==
    ASSUME TypeInv, NEW c \in Commands,
           \/ RunPreflight(c) \/ SpawnSupervisor(c) \/ WaitReady(c)
           \/ WaitExit(c) \/ WaitTimeout(c)
    PROVE  TypeInv'
<1>. USE DEF TypeInv, TypeOK, LocalOK, Labels, Stages, Replies, HoldingLabels,
         ConnectLabels, CleanupLabels, CleanupStages, SaveStages, StatusLabels,
         Goto, Enter, End, FailEarly, diskVars, procVars
<1>1. CASE RunPreflight(c) BY <1>1 DEF RunPreflight
<1>2. CASE SpawnSupervisor(c)
  <2>1. [target |-> job[c].target, port |-> None, reconnect |-> job[c].reconnect,
         fresh |-> ~readyFile] \in Work
    BY <1>2, InstanceAssumption DEF SpawnSupervisor, Work, RequestType
  <2>2. proc' \in [Pids -> ProcStates] /\ work' \in [Pids -> Work]
    BY <1>2, <2>1 DEF SpawnSupervisor, ProcStates
  <2>3. told' \in [Pids -> BOOLEAN]
    BY <1>2 DEF SpawnSupervisor
  <2>4. child' \in [Commands -> Pids \cup {None}]
    BY <1>2 DEF SpawnSupervisor, FreePids
  <2>5. \A d \in Commands : LocalOK(d)'
    BY <1>2 DEF SpawnSupervisor, FreePids
  <2>. QED BY <1>2, <2>2, <2>3, <2>4, <2>5 DEF SpawnSupervisor
<1>3. CASE WaitReady(c)
  <2>1. WithPid(st[c], child[c]) \in SessionState
    BY <1>3, StateUpdateTyped DEF WaitReady
  <2>. QED BY <1>3, <2>1 DEF WaitReady
<1>4. CASE WaitExit(c) BY <1>4 DEF WaitExit
<1>5. CASE WaitTimeout(c)
  <2>1. proc' \in [Pids -> ProcStates]
    BY <1>5 DEF WaitTimeout, TerminateProcess, AfterKill, ProcStates
  <2>. QED BY <1>5, <2>1 DEF WaitTimeout
<1>. QED BY <1>1, <1>2, <1>3, <1>4, <1>5

LEMMA LateTyped ==
    ASSUME TypeInv, NEW c \in Commands,
           \/ UpsertBlock(c) \/ ConfigureRemote(c) \/ PrepareUserDataDir(c)
           \/ LaunchVSCode(c) \/ RespondPrepared(c)
    PROVE  TypeInv'
<1>. USE DEF TypeInv, TypeOK, LocalOK, Labels, Stages, Replies, HoldingLabels,
         ConnectLabels, CleanupLabels, CleanupStages, SaveStages, StatusLabels,
         Goto, Enter, End, FailLate, diskVars, sshVars, procVars
<1>1. CASE UpsertBlock(c)
  <2>1. WithBlock(st[c]) \in SessionState
    BY <1>1, StateUpdateTyped DEF UpsertBlock
  <2>2. [userBlock EXCEPT ![st[c].target] = st[c].port] \in [Targets -> Ports \cup {None}]
    BY <1>1, StateUpdateTyped DEF UpsertBlock
  <2>3. st' \in [Commands -> SessionState \cup {None}]
            /\ userBlock' \in [Targets -> Ports \cup {None}]
    BY <1>1, <2>1, <2>2 DEF UpsertBlock
  <2>4. \A d \in Commands : LocalOK(d)'
    BY <1>1, <2>1 DEF UpsertBlock
  <2>. QED BY <1>1, <2>3, <2>4 DEF UpsertBlock
<1>2. CASE ConfigureRemote(c) BY <1>2 DEF ConfigureRemote, AfterRemote
<1>3. CASE PrepareUserDataDir(c)
  <2>1. WithData(st[c]) \in SessionState
    BY <1>3, StateUpdateTyped DEF PrepareUserDataDir
  <2>2. dataDir' \in BOOLEAN
    BY <1>3 DEF PrepareUserDataDir
  <2>a. /\ pc[c] = "data" /\ UNCHANGED <<job, child>>
        /\ \/ st' = [st EXCEPT ![c] = WithData(st[c])] /\ Enter(c, "save", "data")
           \/ UNCHANGED st /\ FailLate(c)
    BY <1>3, Zenon DEF PrepareUserDataDir
  <2>3. st' \in [Commands -> SessionState \cup {None}]
    BY <2>1, <2>a
  <2>4. \A d \in Commands : LocalOK(d)'
    BY <2>1, <2>a
  <2>. QED BY <1>3, <2>2, <2>3, <2>4 DEF PrepareUserDataDir
<1>4. CASE LaunchVSCode(c) BY <1>4 DEF LaunchVSCode
<1>5. CASE RespondPrepared(c) BY <1>5 DEF RespondPrepared
<1>. QED BY <1>1, <1>2, <1>3, <1>4, <1>5

LEMMA CleanupTyped ==
    ASSUME TypeInv, NEW c \in Commands, CleanupStep(c)
    PROVE  TypeInv'
<1>. USE DEF TypeInv, TypeOK, LocalOK, Labels, Stages, Replies, HoldingLabels,
         ConnectLabels, CleanupLabels, CleanupStages, SaveStages, StatusLabels,
         Goto, Enter, End, CleanupFails, sshVars, procVars
<1>1. CASE RemoveManagedBlock(c) BY <1>1 DEF RemoveManagedBlock
<1>2. CASE RemoveSSHConfig(c) BY <1>2 DEF RemoveSSHConfig
<1>3. CASE RemoveKnownHosts(c) BY <1>3 DEF RemoveKnownHosts
<1>4. CASE CleanupUserDataDir(c)
  <2>1. dataDir' \in BOOLEAN
    BY <1>4 DEF CleanupUserDataDir
  <2>2. \A d \in Commands : LocalOK(d)'
    BY <1>4 DEF CleanupUserDataDir
  <2>. QED BY <1>4, <2>1, <2>2 DEF CleanupUserDataDir
<1>5. CASE ClearSession(c) BY <1>5 DEF ClearSession, Cleared
<1>. QED BY <1>1, <1>2, <1>3, <1>4, <1>5 DEF CleanupStep

LEMMA RestTyped ==
    ASSUME TypeInv, NEW c \in Commands, KillRecorded(c) \/ ReportStatus(c) \/ Crash(c)
    PROVE  TypeInv'
<1>. USE DEF TypeInv, TypeOK, LocalOK, Labels, Stages, Replies, HoldingLabels,
         ConnectLabels, CleanupLabels, CleanupStages, StatusLabels,
         Enter, End, diskVars, procVars
<1>1. CASE KillRecorded(c)
  <2>1. proc' \in [Pids -> ProcStates]
    BY <1>1 DEF KillRecorded, TerminateProcess, AfterKill, ProcStates
  <2>. QED BY <1>1, <2>1 DEF KillRecorded
<1>2. CASE ReportStatus(c) BY <1>2 DEF ReportStatus
<1>3. CASE Crash(c) BY <1>3 DEF Crash
<1>. QED BY <1>1, <1>2, <1>3

LEMMA ProcessTyped ==
    ASSUME TypeInv, NEW p \in Pids, ProcessStep(p)
    PROVE  TypeInv'
<1>. USE DEF TypeInv, TypeOK, LocalOK, cmdVars, diskVars, sshVars, ProcStates
<1>1. CASE SupervisorLoads(p)
  <2>1. [work[p] EXCEPT !.port = sessionFile.port,
                        !.reconnect = @ /\ sessionFile.reconnect] \in Work
    <3>1. sessionFile.port \in Ports /\ sessionFile.reconnect \in BOOLEAN
      BY <1>1 DEF SupervisorLoads, SessionState
    <3>. QED BY <3>1, WorkUpdateTyped
  <2>. QED BY <1>1, <2>1 DEF SupervisorLoads
<1>2. CASE SupervisorGivesUp(p) BY <1>2 DEF SupervisorGivesUp
<1>3. CASE TunnelUp(p) BY <1>3 DEF TunnelUp
<1>4. CASE WriteReady(p) BY <1>4 DEF WriteReady
<1>5. CASE TunnelDown(p) BY <1>5 DEF TunnelDown
<1>6. CASE SupervisorCrash(p) BY <1>6 DEF SupervisorCrash
<1>7. CASE OrphanExits(p) BY <1>7 DEF OrphanExits
<1>8. CASE OtherStarts(p) BY <1>8 DEF OtherStarts
<1>9. CASE OtherExits(p) BY <1>9 DEF OtherExits
<1>. QED BY <1>1, <1>2, <1>3, <1>4, <1>5, <1>6, <1>7, <1>8, <1>9 DEF ProcessStep

LEMMA StepTyped == TypeInv /\ [Next]_vars => TypeInv'
<1>. SUFFICES ASSUME TypeInv, [Next]_vars PROVE TypeInv'
    OBVIOUS
<1>1. CASE UNCHANGED vars
    BY <1>1 DEF vars, cmdVars, diskVars, procVars, TypeInv, TypeOK, LocalOK
<1>2. ASSUME NEW c \in Commands, CommandStep(c) \/ UserStep(c) PROVE TypeInv'
    BY <1>2, StartTyped, LoadTyped, PrepareTyped, SaveTyped, TunnelTyped, LateTyped,
       CleanupTyped, RestTyped
       DEF CommandStep, UserStep, ConnectStep, OtherStep
<1>3. ASSUME NEW p \in Pids, ProcessStep(p) PROVE TypeInv'
    BY <1>3, ProcessTyped
<1>. QED BY <1>1, <1>2, <1>3 DEF Next

\* Every state that connect, disconnect, status, their supervisors, any failure
\* and any crash can reach is well typed: in particular no command uses a state
\* it has not loaded, and only a parsed or prepared state is written to
\* session.json.
THEOREM TypeCorrect == Spec => []TypeOK
<1>1. Spec => []TypeInv
    BY InitTyped, StepTyped, PTL DEF Spec
<1>2. TypeInv => TypeOK
    BY DEF TypeInv
<1>. QED BY <1>1, <1>2, PTL

-----------------------------------------------------------------------------
(* An ssh_config is never on disk without its known_hosts file. *)

\* The command writes the session directory.
Busy(c) == pc[c] \notin {"idle"} \cup StatusLabels

\* Because commands do not overlap, the writer that is about to write
\* ssh_config still finds its known_hosts, and the one that is about to remove
\* known_hosts has just removed ssh_config and nobody has written it since.
PinInv ==
    /\ \A c, d \in Commands : Busy(c) /\ Busy(d) => c = d
    /\ sshConfig # None => knownHosts # None
    /\ \A c \in Commands : pc[c] = "config" => knownHosts # None
    /\ \A c \in Commands : pc[c] = "rmknown" => sshConfig = None

LEMMA InitPinned == Init => PinInv
BY DEF Init, PinInv, Busy, StatusLabels

LEMMA StepPinned ==
    ASSUME Exclusive, TypeInv, PinInv, [Next]_vars
    PROVE  PinInv'
<1>. USE DEF PinInv, Busy, StatusLabels
<1>t. pc \in [Commands -> Labels]
    BY DEF TypeInv, TypeOK
<1>1. ASSUME NEW c \in Commands,
             StartConnect(c) \/ StartDisconnect(c) \/ StartStatus(c)
      PROVE  PinInv'
    BY <1>1, <1>t DEF StartConnect, StartDisconnect, StartStatus, MayStart, Goto,
       diskVars
<1>2. ASSUME NEW c \in Commands,
             \/ CheckSession(c) \/ LoadForDisconnect(c) \/ LoadForStatus(c)
             \/ CheckStale(c) \/ AllocatePort(c) \/ ReportStatus(c) \/ Crash(c)
             \/ RespondPrepared(c)
      PROVE  PinInv'
  <2>. USE <1>t DEF Load, Goto, Enter, End, diskVars
  <2>1. CASE CheckSession(c) BY <2>1 DEF CheckSession
  <2>2. CASE LoadForDisconnect(c) BY <2>2 DEF LoadForDisconnect
  <2>3. CASE LoadForStatus(c) BY <2>3 DEF LoadForStatus
  <2>4. CASE CheckStale(c) BY <2>4 DEF CheckStale
  <2>5. CASE AllocatePort(c) BY <2>5 DEF AllocatePort
  <2>6. CASE ReportStatus(c) BY <2>6 DEF ReportStatus
  <2>7. CASE Crash(c) BY <2>7 DEF Crash
  <2>8. CASE RespondPrepared(c) BY <2>8 DEF RespondPrepared
  <2>. QED BY <1>2, <2>1, <2>2, <2>3, <2>4, <2>5, <2>6, <2>7, <2>8
<1>3. ASSUME NEW c \in Commands, WriteKnownHosts(c) \/ WriteSSHConfig(c)
      PROVE  PinInv'
  <2>1. MyEndpoint(c) # None
    <3>1. st[c] \in SessionState
      BY <1>3 DEF WriteKnownHosts, WriteSSHConfig, TypeInv, LocalOK, HoldingLabels
    <3>2. MyEndpoint(c) \in Endpoint
      BY <3>1, StateUpdateTyped DEF MyEndpoint, Endpoint
    <3>. QED BY <3>2, SentinelAssumption
  <2>2. CASE WriteKnownHosts(c) BY <1>t, <2>1, <2>2 DEF WriteKnownHosts, Goto, End
  <2>3. CASE WriteSSHConfig(c) BY <1>t, <2>1, <2>3 DEF WriteSSHConfig, Enter, End
  <2>. QED BY <1>3, <2>2, <2>3
<1>4. ASSUME NEW c \in Commands, SaveTruncate(c) \/ SaveWrite(c)
      PROVE  PinInv'
  <2>. USE <1>t DEF Goto, Enter, End, SaveFails, FailEarly, FailLate, sshVars
  <2>1. CASE SaveTruncate(c) BY <2>1 DEF SaveTruncate
  <2>2. CASE SaveWrite(c)
    <3>1. AfterSave(stage[c], job[c]) \notin {"config", "rmknown"} \cup {"idle"} \cup StatusLabels
      BY DEF AfterSave, AfterTunnel, AfterBlock, AfterRemote
    <3>. QED BY <2>2, <3>1 DEF SaveWrite
  <2>. QED BY <1>4, <2>1, <2>2
<1>5. ASSUME NEW c \in Commands,
             \/ RunPreflight(c) \/ SpawnSupervisor(c) \/ WaitReady(c)
             \/ WaitExit(c) \/ WaitTimeout(c) \/ KillRecorded(c)
      PROVE  PinInv'
    BY <1>5, <1>t DEF RunPreflight, SpawnSupervisor, WaitReady, WaitExit, WaitTimeout,
       KillRecorded, Goto, Enter, FailEarly, diskVars
<1>6. ASSUME NEW c \in Commands,
             UpsertBlock(c) \/ ConfigureRemote(c) \/ PrepareUserDataDir(c) \/ LaunchVSCode(c)
      PROVE  PinInv'
    BY <1>6, <1>t DEF UpsertBlock, ConfigureRemote, PrepareUserDataDir, LaunchVSCode,
       AfterRemote, Goto, Enter, FailLate, diskVars, sshVars
<1>7. ASSUME NEW c \in Commands, CleanupStep(c)
      PROVE  PinInv'
  <2>. USE <1>t DEF Goto, Enter, End, CleanupFails, sshVars
  <2>1. CASE RemoveManagedBlock(c) BY <2>1 DEF RemoveManagedBlock
  <2>2. CASE RemoveSSHConfig(c) BY <2>2 DEF RemoveSSHConfig
  <2>3. CASE RemoveKnownHosts(c) BY <2>3 DEF RemoveKnownHosts
  <2>4. CASE CleanupUserDataDir(c) BY <2>4 DEF CleanupUserDataDir
  <2>5. CASE ClearSession(c) BY <2>5 DEF ClearSession, Cleared
  <2>. QED BY <1>7, <2>1, <2>2, <2>3, <2>4, <2>5 DEF CleanupStep
<1>8. ASSUME NEW p \in Pids, ProcessStep(p)
      PROVE  PinInv'
    BY <1>8 DEF ProcessStep, SupervisorLoads, SupervisorGivesUp, TunnelUp, WriteReady,
       TunnelDown, SupervisorCrash, OrphanExits, OtherStarts, OtherExits,
       cmdVars, diskVars, sshVars
<1>9. CASE UNCHANGED vars
    BY <1>9 DEF vars, cmdVars, diskVars
<1>. QED
    BY <1>1, <1>2, <1>3, <1>4, <1>5, <1>6, <1>7, <1>8, <1>9
       DEF Next, CommandStep, UserStep, ConnectStep, OtherStep

\* If connect and disconnect do not overlap, then in every state, whichever
\* steps fail and wherever a command or a supervisor is killed, a generated
\* ssh_config has its known_hosts file beside it.  This is what the order of the
\* writes in WriteSessionFiles and of the removals in Cleanup is for.
THEOREM HostKeyAlwaysPinned ==
    ASSUME Exclusive
    PROVE  Spec => []ConfigNeverUnpinned
<1>1. Init => TypeInv /\ PinInv
    BY InitTyped, InitPinned
<1>2. TypeInv /\ PinInv /\ [Next]_vars => (TypeInv /\ PinInv)'
    BY StepTyped, StepPinned
<1>3. PinInv => ConfigNeverUnpinned
    BY DEF PinInv, ConfigNeverUnpinned
<1>. QED BY <1>1, <1>2, <1>3, PTL DEF Spec

-----------------------------------------------------------------------------
(* A recorded pid is that of a supervisor of the recorded target. *)

\* Labels between the allocation of a port and the end of connect.
OwnStateLabels == {"known", "config", "save", "write", "preflight", "spawn", "wait",
                   "block", "remote", "data", "launch", "done"}

\* p was started as the supervisor of target t, and is never started again.
StartedFor(p, t) == p \in Pids /\ proc[p] # "unused" /\ work[p].target = t

\* The same of every place a pid passes through on its way to session.json.
PidInv ==
    /\ \A c \in Commands :
          /\ st[c] # None /\ st[c].pid # None => StartedFor(st[c].pid, st[c].target)
          /\ pc[c] \in OwnStateLabels => st[c].target = job[c].target
          /\ pc[c] = "wait" => StartedFor(child[c], job[c].target)
    /\ sessionFile \in SessionState /\ sessionFile.pid # None =>
          StartedFor(sessionFile.pid, sessionFile.target)

LEMMA InitPids == Init => PidInv
BY SentinelAssumption DEF Init, PidInv, OwnStateLabels

LEMMA UpdateKeepsPid ==
    ASSUME NEW s \in SessionState, NEW p \in Pids
    PROVE  /\ WithBlock(s).pid = s.pid /\ WithBlock(s).target = s.target
           /\ WithData(s).pid = s.pid /\ WithData(s).target = s.target
           /\ WithPid(s, p).pid = p /\ WithPid(s, p).target = s.target
BY DEF SessionState, WithBlock, WithData, WithPid

LEMMA StepPids ==
    ASSUME ~PidReuse, TypeInv, PidInv, [Next]_vars
    PROVE  PidInv'
<1>. USE DEF OwnStateLabels
<1>t. /\ pc \in [Commands -> Labels] /\ job \in [Commands -> Requests \cup {None}]
      /\ st \in [Commands -> SessionState \cup {None}]
      /\ child \in [Commands -> Pids \cup {None}]
      /\ proc \in [Pids -> ProcStates] /\ work \in [Pids -> Work]
    BY DEF TypeInv, TypeOK
<1>n. None \notin SessionState /\ Torn \notin SessionState /\ None \notin Pids
    BY SentinelAssumption
<1>1. ASSUME NEW c \in Commands,
             \/ StartConnect(c) \/ StartDisconnect(c) \/ StartStatus(c)
             \/ CheckStale(c) \/ RunPreflight(c) \/ WaitExit(c)
             \/ ConfigureRemote(c) \/ LaunchVSCode(c) \/ RespondPrepared(c)
             \/ ReportStatus(c) \/ Crash(c)
      PROVE  PidInv'
  <2>. USE <1>t DEF PidInv, StartedFor, Goto, Enter, End, FailEarly, FailLate, diskVars, procVars
  <2>1. CASE StartConnect(c) BY <2>1 DEF StartConnect, MayStart
  <2>2. CASE StartDisconnect(c) BY <2>2 DEF StartDisconnect, MayStart
  <2>3. CASE StartStatus(c) BY <2>3 DEF StartStatus
  <2>4. CASE CheckStale(c) BY <2>4 DEF CheckStale
  <2>5. CASE RunPreflight(c) BY <2>5 DEF RunPreflight
  <2>6. CASE WaitExit(c) BY <2>6 DEF WaitExit
  <2>7. CASE ConfigureRemote(c) BY <2>7 DEF ConfigureRemote, AfterRemote
  <2>8. CASE LaunchVSCode(c) BY <2>8 DEF LaunchVSCode
  <2>9. CASE RespondPrepared(c) BY <2>9 DEF RespondPrepared
  <2>10. CASE ReportStatus(c) BY <2>10 DEF ReportStatus
  <2>11. CASE Crash(c) BY <2>11 DEF Crash
  <2>. QED BY <1>1, <2>1, <2>2, <2>3, <2>4, <2>5, <2>6, <2>7, <2>8, <2>9, <2>10, <2>11
<1>2. ASSUME NEW c \in Commands,
             CheckSession(c) \/ LoadForDisconnect(c) \/ LoadForStatus(c)
      PROVE  PidInv'
  <2>. USE <1>t, <1>n DEF PidInv, StartedFor, Load, Goto, Enter, End, diskVars, procVars
  <2>1. CASE CheckSession(c) BY <2>1 DEF CheckSession
  <2>2. CASE LoadForDisconnect(c) BY <2>2 DEF LoadForDisconnect
  <2>3. CASE LoadForStatus(c) BY <2>3 DEF LoadForStatus
  <2>. QED BY <1>2, <2>1, <2>2, <2>3
<1>3. ASSUME NEW c \in Commands,
             AllocatePort(c) \/ WriteKnownHosts(c) \/ WriteSSHConfig(c)
      PROVE  PidInv'
  <2>. USE <1>t DEF PidInv, StartedFor, Goto, Enter, End, diskVars, procVars
  <2>1. CASE AllocatePort(c) BY <2>1 DEF AllocatePort
  <2>2. CASE WriteKnownHosts(c) BY <2>2 DEF WriteKnownHosts
  <2>3. CASE WriteSSHConfig(c) BY <2>3 DEF WriteSSHConfig
  <2>. QED BY <1>3, <2>1, <2>2, <2>3
<1>4. ASSUME NEW c \in Commands, SaveTruncate(c) \/ SaveWrite(c)
      PROVE  PidInv'
  <2>. USE <1>t, <1>n DEF PidInv, StartedFor, Goto, Enter, End, SaveFails, FailEarly,
           FailLate, procVars
  <2>1. CASE SaveTruncate(c) BY <2>1 DEF SaveTruncate
  <2>2. CASE SaveWrite(c)
    <3>1. AfterSave(stage[c], job[c]) # "wait"
      BY DEF AfterSave, AfterTunnel, AfterBlock, AfterRemote
    <3>2. st[c] \in SessionState
      BY <2>2 DEF SaveWrite, TypeInv, LocalOK, HoldingLabels
    <3>. QED BY <2>2, <3>1, <3>2 DEF SaveWrite
  <2>. QED BY <1>4, <2>1, <2>2
<1>5. ASSUME NEW c \in Commands, SpawnSupervisor(c)
      PROVE  PidInv'
  <2>1. CASE UNCHANGED <<child, procVars>> /\ FailEarly(c)
    BY <1>5, <1>t, <2>1 DEF SpawnSupervisor, PidInv, StartedFor, FailEarly, Enter,
       diskVars, procVars
  <2>2. ASSUME NEW p \in FreePids,
               proc' = [proc EXCEPT ![p] = "boot"],
               work' = [work EXCEPT ![p] =
                           [target |-> job[c].target, port |-> None,
                            reconnect |-> job[c].reconnect, fresh |-> ~readyFile]],
               child' = [child EXCEPT ![c] = p],
               Goto(c, "wait")
        PROVE  PidInv'
    <3>1. p \in Pids /\ proc[p] = "unused"
      BY <2>2 DEF FreePids
    <3>2. \A q, t : StartedFor(q, t) => StartedFor(q, t)'
      BY <1>t, <2>2, <3>1 DEF StartedFor
    <3>3. StartedFor(p, job[c].target)'
      BY <1>t, <1>5, <2>2, <3>1 DEF StartedFor, SpawnSupervisor
    <3>4. UNCHANGED <<st, job, sessionFile>> /\ pc[c] = "spawn"
      BY <1>5 DEF SpawnSupervisor, diskVars
    <3>. QED BY <1>t, <2>2, <3>2, <3>3, <3>4 DEF PidInv, Goto
  <2>. QED BY <1>5, <2>1, <2>2 DEF SpawnSupervisor
<1>6. ASSUME NEW c \in Commands, WaitReady(c)
      PROVE  PidInv'
  <2>1. st[c] \in SessionState /\ child[c] \in Pids
    BY <1>6 DEF WaitReady, TypeInv, LocalOK, HoldingLabels
  <2>2. /\ WithPid(st[c], child[c]).pid = child[c]
        /\ WithPid(st[c], child[c]).target = st[c].target
    BY <2>1, UpdateKeepsPid
  <2>. QED BY <1>6, <1>t, <2>1, <2>2
           DEF WaitReady, PidInv, StartedFor, Enter, diskVars, procVars
<1>7. ASSUME NEW c \in Commands, WaitTimeout(c) \/ KillRecorded(c)
      PROVE  PidInv'
  <2>1. \A q, t : StartedFor(q, t) => StartedFor(q, t)'
    BY <1>t, <1>7 DEF StartedFor, WaitTimeout, KillRecorded, TerminateProcess, AfterKill,
       Supervising
  <2>. QED BY <1>t, <1>7, <2>1 DEF WaitTimeout, KillRecorded, PidInv, Enter, FailEarly,
              diskVars
<1>8. ASSUME NEW c \in Commands, UpsertBlock(c) \/ PrepareUserDataDir(c)
      PROVE  PidInv'
  <2>1. st[c] \in SessionState
    BY <1>8 DEF UpsertBlock, PrepareUserDataDir, TypeInv, LocalOK, HoldingLabels
  <2>2. /\ pc[c] \in OwnStateLabels /\ UNCHANGED <<job, child, sessionFile, proc, work>>
        /\ pc' = [pc EXCEPT ![c] = "save"] \/ pc' = [pc EXCEPT ![c] = "rmblock"]
    BY <1>8 DEF UpsertBlock, PrepareUserDataDir, Enter, FailLate, procVars
  <2>3. \E s \in {st[c], WithBlock(st[c]), WithData(st[c])} : st' = [st EXCEPT ![c] = s]
    BY <1>8, <1>t DEF UpsertBlock, PrepareUserDataDir
  <2>4. PICK s \in {st[c], WithBlock(st[c]), WithData(st[c])} : st' = [st EXCEPT ![c] = s]
    BY <2>3
  <2>5. s.pid = st[c].pid /\ s.target = st[c].target
    BY <2>1, <2>4 DEF WithBlock, WithData, SessionState
  <2>. QED BY <1>t, <1>n, <2>1, <2>2, <2>4, <2>5 DEF PidInv, StartedFor
<1>9. ASSUME NEW c \in Commands, CleanupStep(c)
      PROVE  PidInv'
  <2>. USE <1>t, <1>n DEF PidInv, StartedFor, Goto, Enter, End, CleanupFails, procVars
  <2>1. CASE RemoveManagedBlock(c) BY <2>1 DEF RemoveManagedBlock
  <2>2. CASE RemoveSSHConfig(c) BY <2>2 DEF RemoveSSHConfig
  <2>3. CASE RemoveKnownHosts(c) BY <2>3 DEF RemoveKnownHosts
  <2>4. CASE CleanupUserDataDir(c) BY <2>4 DEF CleanupUserDataDir
  <2>5. CASE ClearSession(c) BY <2>5 DEF ClearSession, Cleared
  <2>. QED BY <1>9, <2>1, <2>2, <2>3, <2>4, <2>5 DEF CleanupStep
<1>10. ASSUME NEW p \in Pids, ProcessStep(p)
       PROVE  PidInv'
  <2>1. \A q, t : StartedFor(q, t) => StartedFor(q, t)'
    <3>. USE <1>t DEF StartedFor, Supervising
    <3>1. CASE SupervisorLoads(p) BY <3>1 DEF SupervisorLoads, Work
    <3>2. CASE SupervisorGivesUp(p) BY <3>2 DEF SupervisorGivesUp
    <3>3. CASE TunnelUp(p) BY <3>3 DEF TunnelUp
    <3>4. CASE WriteReady(p) BY <3>4 DEF WriteReady
    <3>5. CASE TunnelDown(p) BY <3>5 DEF TunnelDown
    <3>6. CASE SupervisorCrash(p) BY <3>6 DEF SupervisorCrash
    <3>7. CASE OrphanExits(p) BY <3>7 DEF OrphanExits
    <3>8. CASE OtherStarts(p) BY <3>8 DEF OtherStarts
    <3>9. CASE OtherExits(p) BY <3>9 DEF OtherExits
    <3>. QED BY <1>10, <3>1, <3>2, <3>3, <3>4, <3>5, <3>6, <3>7, <3>8, <3>9 DEF ProcessStep
  <2>2. UNCHANGED <<cmdVars, sessionFile>>
    BY <1>10 DEF ProcessStep, SupervisorLoads, SupervisorGivesUp, TunnelUp, WriteReady,
       TunnelDown, SupervisorCrash, OrphanExits, OtherStarts, OtherExits, diskVars
  <2>. QED BY <2>1, <2>2 DEF PidInv, cmdVars
<1>11. CASE UNCHANGED vars
    BY <1>11 DEF vars, cmdVars, diskVars, procVars, PidInv, StartedFor
<1>. QED
    BY <1>1, <1>2, <1>3, <1>4, <1>5, <1>6, <1>7, <1>8, <1>9, <1>10, <1>11
       DEF Next, CommandStep, UserStep, ConnectStep, OtherStep

\* However commands overlap, fail or are killed, the pid session.json records is
\* that of a supervisor started for the target session.json names, provided the
\* kernel does not hand that pid out a second time.
THEOREM RecordedPidCorrect ==
    ASSUME ~PidReuse
    PROVE  Spec => []RecordedPidServesTarget
<1>1. Init => TypeInv /\ PidInv
    BY InitTyped, InitPids
<1>2. TypeInv /\ PidInv /\ [Next]_vars => (TypeInv /\ PidInv)'
    BY StepTyped, StepPids
<1>3. PidInv => RecordedPidServesTarget
    BY SentinelAssumption DEF PidInv, StartedFor, RecordedPidServesTarget, Recorded
<1>. QED BY <1>1, <1>2, <1>3, PTL DEF Spec
=============================================================================
