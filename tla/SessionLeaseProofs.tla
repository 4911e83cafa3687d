------------------------- MODULE SessionLeaseProofs -------------------------
(***************************************************************************)
(* The tunnel between the commands of Session: at most one supervisor is   *)
(* alive, it is always accounted for, and the commands implement the lease *)
(* of TunnelLease.                                                         *)
(***************************************************************************)
EXTENDS SessionProofs

\* connect has a state of its own and has not started its supervisor yet, or
\* still waits for it; connect has the supervisor's pid in its state.
BeforePid(c) ==
    \/ pc[c] \in {"known", "config", "preflight", "spawn", "wait"}
    \/ pc[c] \in {"save", "write"} /\ stage[c] = "prepared"

WithOwnPid(c) ==
    \/ pc[c] \in {"block", "remote", "data", "launch", "done"}
    \/ pc[c] \in {"save", "write"} /\ stage[c] \in {"tunnel", "block", "data"}

\* A connect that is about to save: what is still on disk is its own last state.
OnDiskBefore(c) ==
    /\ sessionFile \in SessionState
    /\ sessionFile.target = st[c].target /\ sessionFile.port = st[c].port
    /\ sessionFile.pid = IF stage[c] = "tunnel" THEN None ELSE st[c].pid

\* What a command knows of session.json, and of its own state, at each label.
FlowAt(c) ==
    /\ pc[c] \in {"save", "write"} => stage[c] \in SaveStages
    /\ pc[c] \in CleanupLabels => stage[c] \in CleanupStages
    /\ child[c] # None => pc[c] = "wait"
    /\ BeforePid(c) => st[c].pid = None /\ ~st[c].block /\ ~st[c].data
    /\ WithOwnPid(c) => st[c].pid \in Pids
    /\ pc[c] \in {"stale", "kill", "preflight", "spawn", "wait", "block", "remote",
                  "data", "launch", "done"} => sessionFile = st[c]
    /\ pc[c] \in {"alloc", "known", "config"} => sessionFile = None
    /\ pc[c] = "save" /\ stage[c] = "prepared" => sessionFile = None
    /\ pc[c] = "save" /\ stage[c] # "prepared" => OnDiskBefore(c)
    /\ pc[c] = "write" => sessionFile = Torn

FlowInv == \A c \in Commands : FlowAt(c)

\* A step of c leaves the local variables of the other commands alone.
OthersKept(c) ==
    \A d \in Commands \ {c} :
        /\ pc'[d] = pc[d] /\ stage'[d] = stage[d] /\ job'[d] = job[d]
        /\ st'[d] = st[d] /\ child'[d] = child[d]

LEMMA StepIsLocal ==
    ASSUME TypeInv, NEW c \in Commands, CommandStep(c) \/ UserStep(c)
    PROVE  OthersKept(c)
<1>t. /\ pc \in [Commands -> Labels] /\ stage \in [Commands -> Stages]
      /\ job \in [Commands -> Requests \cup {None}]
      /\ st \in [Commands -> SessionState \cup {None}]
      /\ child \in [Commands -> Pids \cup {None}]
    BY DEF TypeInv, TypeOK
<1>. USE <1>t DEF OthersKept, Goto, Enter, End, FailEarly, FailLate
<1>1. CASE StartConnect(c) \/ StartDisconnect(c) \/ StartStatus(c) \/ Crash(c)
    BY <1>1 DEF StartConnect, StartDisconnect, StartStatus, Crash
<1>2. CASE CheckSession(c) \/ LoadForDisconnect(c) \/ LoadForStatus(c)
    BY <1>2 DEF CheckSession, LoadForDisconnect, LoadForStatus, Load
<1>3. CASE CheckStale(c) \/ AllocatePort(c) \/ WriteKnownHosts(c) \/ WriteSSHConfig(c)
    BY <1>3 DEF CheckStale, AllocatePort, WriteKnownHosts, WriteSSHConfig
<1>4. CASE SaveTruncate(c) \/ SaveWrite(c)
    BY <1>4 DEF SaveTruncate, SaveWrite, SaveFails
<1>5. CASE RunPreflight(c) \/ SpawnSupervisor(c) \/ WaitReady(c) \/ WaitExit(c)
              \/ WaitTimeout(c)
    BY <1>5 DEF RunPreflight, SpawnSupervisor, WaitReady, WaitExit, WaitTimeout
<1>6. CASE UpsertBlock(c) \/ ConfigureRemote(c) \/ LaunchVSCode(c) \/ RespondPrepared(c)
    BY <1>6 DEF UpsertBlock, ConfigureRemote, LaunchVSCode, RespondPrepared
<1>7. CASE PrepareUserDataDir(c)
    BY <1>7 DEF PrepareUserDataDir
<1>8. CASE CleanupStep(c)
    BY <1>8 DEF CleanupStep, RemoveManagedBlock, RemoveSSHConfig, RemoveKnownHosts,
       CleanupUserDataDir, ClearSession, CleanupFails, Cleared
<1>9. CASE KillRecorded(c) \/ ReportStatus(c)
    BY <1>9 DEF KillRecorded, ReportStatus
<1>. QED BY <1>1, <1>2, <1>3, <1>4, <1>5, <1>6, <1>7, <1>8, <1>9
         DEF CommandStep, UserStep, ConnectStep, OtherStep

\* A command that is idle or runs `status' changes nothing but itself.
LEMMA StepOfBusy ==
    ASSUME NEW c \in Commands, CommandStep(c), TypeInv
    PROVE  Busy(c) \/ LoadForStatus(c) \/ ReportStatus(c)
BY DEF Busy, StatusLabels, CommandStep, ConnectStep, CleanupStep, OtherStep,
   CheckSession, CheckStale, AllocatePort, WriteKnownHosts, WriteSSHConfig, SaveTruncate,
   SaveWrite, RunPreflight, SpawnSupervisor, WaitReady, WaitExit, WaitTimeout, UpsertBlock,
   ConfigureRemote, PrepareUserDataDir, LaunchVSCode, RespondPrepared, RemoveManagedBlock,
   RemoveSSHConfig, RemoveKnownHosts, CleanupUserDataDir, ClearSession, LoadForDisconnect,
   KillRecorded

\* While c writes, the other commands are idle or read: nothing is claimed of them.
LEMMA OthersFlow ==
    ASSUME PinInv, FlowInv, NEW c \in Commands, Busy(c), OthersKept(c)
    PROVE  \A d \in Commands \ {c} : FlowAt(d)'
<1>. SUFFICES ASSUME NEW d \in Commands \ {c} PROVE FlowAt(d)'
    OBVIOUS
<1>1. pc[d] \in {"idle"} \cup StatusLabels
    BY DEF PinInv, Busy
<1>2. child[d] = None
    BY <1>1 DEF FlowInv, FlowAt, StatusLabels
<1>. QED BY <1>1, <1>2 DEF OthersKept, FlowAt, BeforePid, WithOwnPid, StatusLabels, CleanupLabels

LEMMA InitFlow == Init => FlowInv
BY DEF Init, FlowInv, FlowAt, BeforePid, WithOwnPid, CleanupLabels

LEMMA StepFlow ==
    ASSUME Exclusive, TypeInv, PinInv, FlowInv, [Next]_vars
    PROVE  FlowInv'
<1>t. /\ pc \in [Commands -> Labels] /\ stage \in [Commands -> Stages]
      /\ job \in [Commands -> Requests \cup {None}]
      /\ st \in [Commands -> SessionState \cup {None}]
      /\ child \in [Commands -> Pids \cup {None}]
    BY DEF TypeInv, TypeOK
<1>n. None \notin SessionState /\ Torn \notin SessionState /\ None \notin Pids
    BY SentinelAssumption
<1>1. ASSUME NEW c \in Commands, StartConnect(c) \/ StartDisconnect(c) \/ StartStatus(c)
      PROVE  FlowInv'
    BY <1>1, <1>t DEF StartConnect, StartDisconnect, StartStatus, MayStart, Goto, FlowInv,
       FlowAt, BeforePid, WithOwnPid, OnDiskBefore, CleanupLabels, diskVars
<1>2. ASSUME NEW c \in Commands, LoadForStatus(c) \/ ReportStatus(c) \/ Crash(c)
      PROVE  FlowInv'
  <2>1. UNCHANGED <<sessionFile>> /\ OthersKept(c)
    BY <1>2, StepIsLocal DEF CommandStep, UserStep, OtherStep, LoadForStatus, ReportStatus,
       Crash, diskVars
  <2>2. \A d \in Commands \ {c} : FlowAt(d)'
    BY <2>1 DEF OthersKept, FlowInv, FlowAt, BeforePid, WithOwnPid, OnDiskBefore
  <2>3. FlowAt(c)'
    BY <1>2, <1>t DEF LoadForStatus, ReportStatus, Crash, Load, Goto, End, FlowInv, FlowAt,
       BeforePid, WithOwnPid, CleanupLabels
  <2>. QED BY <2>2, <2>3 DEF FlowInv
<1>3. ASSUME NEW c \in Commands, Busy(c), CommandStep(c)
      PROVE  FlowInv'
  <2>1. \A d \in Commands \ {c} : FlowAt(d)'
    BY <1>3, StepIsLocal, OthersFlow
  <2>f. FlowAt(c) /\ pc[c] \notin {"idle", "sload", "scheck"}
    BY <1>3 DEF FlowInv, Busy, StatusLabels
  <2>2. FlowAt(c)'
    <3>. USE <1>t, <1>n DEF Goto, Enter, End, FailEarly, FailLate, FlowAt, BeforePid,
             WithOwnPid, CleanupLabels, SaveStages, CleanupStages
    <3>1. CASE CheckSession(c) \/ LoadForDisconnect(c)
        BY <3>1, <2>f DEF CheckSession, LoadForDisconnect, Load, diskVars
    <3>2. CASE CheckStale(c)
        BY <3>2, <2>f DEF CheckStale, diskVars
    <3>3. CASE AllocatePort(c)
        BY <3>3, <2>f DEF AllocatePort, diskVars
    <3>4. CASE WriteKnownHosts(c) \/ WriteSSHConfig(c)
        BY <3>4, <2>f DEF WriteKnownHosts, WriteSSHConfig
    <3>5. CASE SaveTruncate(c)
        BY <3>5, <2>f DEF SaveTruncate, SaveFails
    <3>6. CASE SaveWrite(c)
      <4>1. /\ stage[c] = "prepared" => AfterSave(stage[c], job[c]) = "preflight"
            /\ stage[c] # "prepared" =>
                   AfterSave(stage[c], job[c]) \in {"block", "done", "remote", "data", "launch"}
        BY DEF AfterSave, AfterTunnel, AfterBlock, AfterRemote
      <4>. QED BY <3>6, <2>f, <4>1 DEF SaveWrite, SaveFails
    <3>7. CASE RunPreflight(c)
        BY <3>7, <2>f DEF RunPreflight, diskVars
    <3>8. CASE SpawnSupervisor(c)
        BY <3>8, <2>f DEF SpawnSupervisor, diskVars
    <3>9. CASE WaitReady(c)
      <4>1. st[c] \in SessionState /\ child[c] \in Pids
        BY <3>9 DEF WaitReady, TypeInv, LocalOK, HoldingLabels
      <4>2. /\ WithPid(st[c], child[c]).pid = child[c]
            /\ WithPid(st[c], child[c]).target = st[c].target
            /\ WithPid(st[c], child[c]).port = st[c].port
        BY <4>1 DEF WithPid, SessionState
      <4>. QED BY <3>9, <2>f, <4>1, <4>2 DEF WaitReady, OnDiskBefore, diskVars
    <3>10. CASE WaitExit(c) \/ WaitTimeout(c)
        BY <3>10, <2>f DEF WaitExit, WaitTimeout, diskVars
    <3>11. CASE UpsertBlock(c)
      <4>1. st[c] \in SessionState
        BY <3>11 DEF UpsertBlock, TypeInv, LocalOK, HoldingLabels
      <4>2. /\ WithBlock(st[c]).pid = st[c].pid /\ WithBlock(st[c]).target = st[c].target
            /\ WithBlock(st[c]).port = st[c].port
        BY <4>1 DEF WithBlock, SessionState
      <4>. QED BY <3>11, <2>f, <4>1, <4>2 DEF UpsertBlock, OnDiskBefore
    <3>12. CASE PrepareUserDataDir(c)
      <4>1. st[c] \in SessionState
        BY <3>12 DEF PrepareUserDataDir, TypeInv, LocalOK, HoldingLabels
      <4>2. /\ WithData(st[c]).pid = st[c].pid /\ WithData(st[c]).target = st[c].target
            /\ WithData(st[c]).port = st[c].port
        BY <4>1 DEF WithData, SessionState
      <4>. QED BY <3>12, <2>f, <4>1, <4>2 DEF PrepareUserDataDir, OnDiskBefore
    <3>13. CASE ConfigureRemote(c) \/ LaunchVSCode(c) \/ RespondPrepared(c)
        BY <3>13, <2>f DEF ConfigureRemote, AfterRemote, LaunchVSCode, RespondPrepared, diskVars
    <3>14. CASE RemoveManagedBlock(c) \/ RemoveSSHConfig(c) \/ RemoveKnownHosts(c)
                  \/ CleanupUserDataDir(c)
        BY <3>14, <2>f DEF RemoveManagedBlock, RemoveSSHConfig, RemoveKnownHosts,
           CleanupUserDataDir, CleanupFails
    <3>15. CASE ClearSession(c)
        BY <3>15, <2>f DEF ClearSession, Cleared
    <3>16. CASE KillRecorded(c)
        BY <3>16, <2>f DEF KillRecorded, diskVars
    <3>17. ~LoadForStatus(c) /\ ~ReportStatus(c)
        BY <2>f DEF LoadForStatus, ReportStatus
    <3>. QED BY <1>3, <3>1, <3>2, <3>3, <3>4, <3>5, <3>6, <3>7, <3>8, <3>9, <3>10, <3>11,
                <3>12, <3>13, <3>14, <3>15, <3>16, <3>17
             DEF CommandStep, ConnectStep, CleanupStep, OtherStep
  <2>. QED BY <2>1, <2>2 DEF FlowInv
<1>4. ASSUME NEW p \in Pids, ProcessStep(p)
      PROVE  FlowInv'
  <2>1. UNCHANGED <<cmdVars, sessionFile>>
    BY <1>4 DEF ProcessStep, SupervisorLoads, SupervisorGivesUp, TunnelUp, WriteReady,
       TunnelDown, SupervisorCrash, OrphanExits, OtherStarts, OtherExits, diskVars
  <2>. QED BY <2>1 DEF FlowInv, FlowAt, BeforePid, WithOwnPid, OnDiskBefore, cmdVars
<1>5. CASE UNCHANGED vars
    BY <1>5 DEF vars, cmdVars, diskVars, FlowInv, FlowAt, BeforePid, WithOwnPid, OnDiskBefore
<1>. QED
    BY <1>1, <1>2, <1>3, <1>4, <1>5, StepOfBusy DEF Next, UserStep

-----------------------------------------------------------------------------
NoneAlive    == \A p \in Pids : proc[p] \notin Supervising
OnlyAlive(h) == \A p \in Pids : proc[p] \in Supervising => p = h

\* Labels at which a command has not changed anything yet.
ReadingLabels == {"idle", "check", "stale", "load", "kill"} \cup StatusLabels

\* Which supervisors can be alive at each label.
AliveAt(c) ==
    /\ pc[c] \in CleanupLabels => stage[c] # "abort"
    /\ pc[c] \in CleanupLabels \cup {"alloc"} => NoneAlive
    /\ BeforePid(c) /\ pc[c] # "wait" => NoneAlive
    /\ pc[c] = "wait" => OnlyAlive(child[c])
    /\ WithOwnPid(c) => OnlyAlive(st[c].pid)

LeaseInv ==
    /\ (\A c \in Commands : pc[c] \in ReadingLabels) =>
           \A p \in Pids : proc[p] \in Supervising => Recorded(p)
    /\ \A c \in Commands : AliveAt(c)

\* The failures after which connect gives up without stopping the supervisor it
\* has started: run session_claim_orphan shows what they lead to.  The remote
\* set-up is one even without a fault, when the tunnel is down at that moment, so
\* no request asks for it.
LateFaults  == {"resave", "block", "data", "launch"}
NoLateError == Faults \cap LateFaults = {} /\ \A r \in Requests : ~r.remote

\* No step but the start of a supervisor brings one to life.
AliveShrinks == \A p \in Pids : proc'[p] \in Supervising => proc[p] \in Supervising

LEMMA ProcessShrinks ==
    ASSUME TypeInv, NEW p \in Pids, ProcessStep(p)
    PROVE  AliveShrinks /\ UNCHANGED <<cmdVars, sessionFile>>
<1>t. proc \in [Pids -> ProcStates]
    BY DEF TypeInv, TypeOK
<1>. USE <1>t DEF AliveShrinks, Supervising, diskVars
<1>1. CASE SupervisorLoads(p) BY <1>1 DEF SupervisorLoads
<1>2. CASE SupervisorGivesUp(p) BY <1>2 DEF SupervisorGivesUp
<1>3. CASE TunnelUp(p) BY <1>3 DEF TunnelUp
<1>4. CASE WriteReady(p) BY <1>4 DEF WriteReady
<1>5. CASE TunnelDown(p) BY <1>5 DEF TunnelDown
<1>6. CASE SupervisorCrash(p) BY <1>6 DEF SupervisorCrash
<1>7. CASE OrphanExits(p) BY <1>7 DEF OrphanExits
<1>8. CASE OtherStarts(p) BY <1>8 DEF OtherStarts
<1>9. CASE OtherExits(p) BY <1>9 DEF OtherExits
<1>. QED BY <1>1, <1>2, <1>3, <1>4, <1>5, <1>6, <1>7, <1>8, <1>9 DEF ProcessStep

\* A terminated process, and no other, stops being alive.
LEMMA TerminateStops ==
    ASSUME TypeInv, NEW h, TerminateProcess(h)
    PROVE  \A p \in Pids : /\ proc'[p] \in Supervising => p # h /\ proc[p] \in Supervising
                           /\ p # h => proc'[p] = proc[p]
<1>t. proc \in [Pids -> ProcStates]
    BY DEF TypeInv, TypeOK
<1>n. None \notin Pids
    BY SentinelAssumption
<1>. QED BY <1>t, <1>n DEF TerminateProcess, AfterKill, Supervising

LEMMA OthersAlive ==
    ASSUME PinInv, NEW c \in Commands, Busy(c), OthersKept(c)
    PROVE  \A d \in Commands \ {c} : AliveAt(d)' /\ pc'[d] \in {"idle"} \cup StatusLabels
BY DEF PinInv, Busy, OthersKept, AliveAt, BeforePid, WithOwnPid, StatusLabels, CleanupLabels

LEMMA InitLease == Init => LeaseInv
BY DEF Init, LeaseInv, AliveAt, BeforePid, WithOwnPid, CleanupLabels, Supervising

LEMMA StepLease ==
    ASSUME Exclusive, "cli" \notin Crashes, NoLateError,
           TypeInv, PinInv, FlowInv, LeaseInv, [Next]_vars
    PROVE  LeaseInv'
<1>t. /\ pc \in [Commands -> Labels] /\ stage \in [Commands -> Stages]
      /\ st \in [Commands -> SessionState \cup {None}]
      /\ child \in [Commands -> Pids \cup {None}]
      /\ proc \in [Pids -> ProcStates]
    BY DEF TypeInv, TypeOK
<1>n. None \notin SessionState /\ Torn \notin SessionState /\ None \notin Pids
    BY SentinelAssumption
<1>l. /\ "resave" \notin Faults /\ "block" \notin Faults
      /\ "data" \notin Faults /\ "launch" \notin Faults
      /\ \A c \in Commands : pc[c] # "remote"
    BY DEF NoLateError, LateFaults, TypeInv, LocalOK, ConnectLabels
<1>1. ASSUME NEW c \in Commands, StartConnect(c) \/ StartDisconnect(c) \/ StartStatus(c)
      PROVE  LeaseInv'
    BY <1>1, <1>t DEF StartConnect, StartDisconnect, StartStatus, MayStart, Goto, LeaseInv,
       AliveAt, BeforePid, WithOwnPid, NoneAlive, OnlyAlive, Recorded, ReadingLabels,
       StatusLabels, CleanupLabels, diskVars, procVars
<1>2. ASSUME NEW c \in Commands, LoadForStatus(c) \/ ReportStatus(c)
      PROVE  LeaseInv'
  <2>1. /\ UNCHANGED <<sessionFile, proc>> /\ OthersKept(c)
        /\ pc[c] \in StatusLabels /\ pc'[c] \in {"idle"} \cup StatusLabels
    BY <1>2, <1>t, StepIsLocal DEF CommandStep, OtherStep, LoadForStatus, ReportStatus,
       Load, Goto, End, StatusLabels, diskVars, procVars
  <2>. QED BY <2>1 DEF OthersKept, LeaseInv, AliveAt, BeforePid, WithOwnPid, NoneAlive,
              OnlyAlive, Recorded, ReadingLabels, StatusLabels, CleanupLabels
<1>3. ASSUME NEW c \in Commands, Busy(c), CommandStep(c)
      PROVE  LeaseInv'
  <2>1. /\ \A d \in Commands \ {c} : AliveAt(d)' /\ pc'[d] \in {"idle"} \cup StatusLabels
        /\ \A d \in Commands \ {c} : pc[d] \in {"idle"} \cup StatusLabels
    BY <1>3, StepIsLocal, OthersAlive DEF PinInv, Busy
  <2>f. /\ FlowAt(c) /\ AliveAt(c)
        /\ pc[c] \notin {"idle", "sload", "scheck"}
        /\ pc[c] \in ReadingLabels => \A p \in Pids : proc[p] \in Supervising => Recorded(p)
    BY <1>3, <2>1 DEF FlowInv, LeaseInv, Busy, StatusLabels, ReadingLabels
  <2>2. /\ AliveAt(c)'
        /\ pc'[c] \in ReadingLabels =>
              \A p \in Pids : proc'[p] \in Supervising => Recorded(p)'
    <3>. USE <1>t, <1>n, <1>l, <2>f DEF Goto, Enter, End, FailEarly, FailLate, FlowAt,
             AliveAt, BeforePid, WithOwnPid, CleanupLabels, SaveStages, CleanupStages,
             NoneAlive, OnlyAlive, Recorded, ReadingLabels, StatusLabels
    <3>1. CASE CheckSession(c)
        BY <3>1 DEF CheckSession, Load, diskVars, procVars
    <3>2. CASE LoadForDisconnect(c)
        BY <3>2 DEF LoadForDisconnect, Load, diskVars, procVars
    <3>3. CASE CheckStale(c)
        BY <3>3 DEF CheckStale, IsStale, ProcessExists, diskVars, procVars
    <3>4. CASE AllocatePort(c)
        BY <3>4 DEF AllocatePort, diskVars, procVars
    <3>5. CASE WriteKnownHosts(c) \/ WriteSSHConfig(c)
        BY <3>5 DEF WriteKnownHosts, WriteSSHConfig, procVars
    <3>6. CASE SaveTruncate(c)
        BY <3>6 DEF SaveTruncate, SaveFails, SaveFault, procVars
    <3>7. CASE SaveWrite(c)
      <4>1. /\ stage[c] = "prepared" => AfterSave(stage[c], job[c]) = "preflight"
            /\ stage[c] # "prepared" =>
                   AfterSave(stage[c], job[c]) \in {"block", "done", "remote", "data", "launch"}
        BY DEF AfterSave, AfterTunnel, AfterBlock, AfterRemote
      <4>. QED BY <3>7, <4>1 DEF SaveWrite, SaveFails, SaveFault, procVars
    <3>8. CASE RunPreflight(c)
        BY <3>8 DEF RunPreflight, diskVars, procVars
    <3>9. CASE SpawnSupervisor(c)
        BY <3>9 DEF SpawnSupervisor, FreePids, diskVars, procVars
    <3>10. CASE WaitReady(c)
      <4>1. st[c] \in SessionState /\ child[c] \in Pids
        BY <3>10 DEF WaitReady, TypeInv, LocalOK, HoldingLabels
      <4>2. WithPid(st[c], child[c]).pid = child[c]
        BY <4>1, UpdateKeepsPid
      <4>. QED BY <3>10, <4>2 DEF WaitReady, diskVars, procVars
    <3>11. CASE WaitExit(c)
        BY <3>11 DEF WaitExit, Supervising, diskVars, procVars
    <3>12. CASE WaitTimeout(c)
        BY <3>12, TerminateStops DEF WaitTimeout, diskVars
    <3>13. CASE UpsertBlock(c)
      <4>1. st[c] \in SessionState
        BY <3>13 DEF UpsertBlock, TypeInv, LocalOK, HoldingLabels
      <4>2. WithBlock(st[c]).pid = st[c].pid
        BY <4>1 DEF WithBlock, SessionState
      <4>. QED BY <3>13, <4>2 DEF UpsertBlock, procVars
    <3>14. CASE PrepareUserDataDir(c)
      <4>1. st[c] \in SessionState
        BY <3>14 DEF PrepareUserDataDir, TypeInv, LocalOK, HoldingLabels
      <4>2. WithData(st[c]).pid = st[c].pid
        BY <4>1 DEF WithData, SessionState
      <4>. QED BY <3>14, <4>2 DEF PrepareUserDataDir, procVars
    <3>15. CASE ConfigureRemote(c) \/ LaunchVSCode(c) \/ RespondPrepared(c)
      <4>1. st[c] \in SessionState
        BY <3>15 DEF ConfigureRemote, LaunchVSCode, RespondPrepared, TypeInv, LocalOK,
           HoldingLabels
      <4>. QED BY <3>15, <4>1 DEF ConfigureRemote, AfterRemote, LaunchVSCode, RespondPrepared,
                  diskVars, procVars
    <3>16. CASE RemoveManagedBlock(c) \/ RemoveSSHConfig(c) \/ RemoveKnownHosts(c)
                  \/ CleanupUserDataDir(c)
        BY <3>16 DEF RemoveManagedBlock, RemoveSSHConfig, RemoveKnownHosts,
           CleanupUserDataDir, CleanupFails, procVars
    <3>17. CASE ClearSession(c)
        BY <3>17 DEF ClearSession, Cleared, procVars
    <3>18. CASE KillRecorded(c)
        BY <3>18, TerminateStops DEF KillRecorded, diskVars
    <3>19. ~LoadForStatus(c) /\ ~ReportStatus(c)
        BY DEF LoadForStatus, ReportStatus
    <3>. QED BY <1>3, <3>1, <3>2, <3>3, <3>4, <3>5, <3>6, <3>7, <3>8, <3>9, <3>10, <3>11,
                <3>12, <3>13, <3>14, <3>15, <3>16, <3>17, <3>18, <3>19
             DEF CommandStep, ConnectStep, CleanupStep, OtherStep
  <2>. QED BY <2>1, <2>2 DEF LeaseInv
<1>4. ASSUME NEW p \in Pids, ProcessStep(p)
      PROVE  LeaseInv'
    BY <1>4, ProcessShrinks DEF AliveShrinks, LeaseInv, AliveAt, BeforePid, WithOwnPid,
       NoneAlive, OnlyAlive, Recorded, cmdVars
<1>5. CASE UNCHANGED vars
    BY <1>5 DEF vars, cmdVars, diskVars, procVars, LeaseInv, AliveAt, BeforePid, WithOwnPid,
       NoneAlive, OnlyAlive, Recorded
<1>. QED
    BY <1>1, <1>2, <1>3, <1>4, <1>5, StepOfBusy DEF Next, UserStep, Crash

\* The hypotheses on which the lease rests: commands do not overlap, none of them
\* is killed, and none of the late failures happens.
LEMMA LeaseHolds ==
    ASSUME Exclusive, "cli" \notin Crashes, NoLateError
    PROVE  Spec => [](TypeInv /\ PinInv /\ FlowInv /\ LeaseInv)
<1>1. Init => TypeInv /\ PinInv /\ FlowInv /\ LeaseInv
    BY InitTyped, InitPinned, InitFlow, InitLease
<1>2. TypeInv /\ PinInv /\ FlowInv /\ LeaseInv /\ [Next]_vars
        => (TypeInv /\ PinInv /\ FlowInv /\ LeaseInv)'
    BY StepTyped, StepPinned, StepFlow, StepLease
<1>. QED BY <1>1, <1>2, PTL DEF Spec

\* If connect and disconnect do not overlap, none of them is killed and none of
\* connect's late steps fails, then at no time are two supervisors alive,
\* whatever else fails, whichever supervisors crash and however pids are reused.
THEOREM OneTunnel ==
    ASSUME Exclusive, "cli" \notin Crashes, NoLateError
    PROVE  Spec => []AtMostOneTunnel
<1>1. TypeInv /\ FlowInv /\ LeaseInv => AtMostOneTunnel
  <2>. SUFFICES ASSUME TypeInv, LeaseInv, FlowInv PROVE AtMostOneTunnel
    OBVIOUS
  <2>1. CASE \A c \in Commands : pc[c] \in ReadingLabels
    BY <2>1 DEF LeaseInv, AtMostOneTunnel, Recorded
  <2>2. CASE \E c \in Commands : pc[c] \notin ReadingLabels
    <3>1. PICK c \in Commands : pc[c] \notin ReadingLabels
      BY <2>2
    <3>2. pc[c] \in Labels /\ AliveAt(c) /\ FlowAt(c)
      BY <3>1 DEF TypeInv, TypeOK, LeaseInv, FlowInv
    <3>. QED BY <3>1, <3>2 DEF AliveAt, FlowAt, BeforePid, WithOwnPid, NoneAlive, OnlyAlive,
                AtMostOneTunnel, Labels, ReadingLabels, ConnectLabels, CleanupLabels,
                StatusLabels, SaveStages
  <2>. QED BY <2>1, <2>2
<1>. QED BY <1>1, LeaseHolds, PTL

\* Under the same conditions, whenever no connect or disconnect is running every
\* living supervisor is the one session.json records: disconnect can stop it.
THEOREM NoForgottenTunnel ==
    ASSUME Exclusive, "cli" \notin Crashes, NoLateError
    PROVE  Spec => []NoOrphanTunnel
<1>1. LeaseInv => NoOrphanTunnel
    BY DEF LeaseInv, NoOrphanTunnel, Quiet, ReadingLabels, StatusLabels
<1>. QED BY <1>1, LeaseHolds, PTL

-----------------------------------------------------------------------------
(* session.json can always be reclaimed. *)

\* session.json, between commands and while one is cleaned up.
Reclaimable == \/ sessionFile = None
               \/ sessionFile \in SessionState /\ sessionFile.pid # None

ReclaimInv ==
    /\ (\A c \in Commands : pc[c] \in ReadingLabels) => Reclaimable
    /\ \A c \in Commands :
          pc[c] \in CleanupLabels /\ stage[c] \in {"stale", "disconnect"} => Reclaimable

LEMMA InitReclaim == Init => ReclaimInv
BY DEF Init, ReclaimInv, Reclaimable, CleanupLabels

LEMMA StepReclaim ==
    ASSUME Exclusive, "cli" \notin Crashes, Faults \cap {"save", "clear"} = {},
           TypeInv, PinInv, FlowInv, ReclaimInv, [Next]_vars
    PROVE  ReclaimInv'
<1>t. /\ pc \in [Commands -> Labels] /\ stage \in [Commands -> Stages]
      /\ st \in [Commands -> SessionState \cup {None}]
    BY DEF TypeInv, TypeOK
<1>n. None \notin SessionState /\ Torn \notin SessionState /\ None \notin Pids
    BY SentinelAssumption
<1>1. ASSUME NEW c \in Commands, StartConnect(c) \/ StartDisconnect(c) \/ StartStatus(c)
      PROVE  ReclaimInv'
    BY <1>1, <1>t DEF StartConnect, StartDisconnect, StartStatus, MayStart, Goto, ReclaimInv,
       Reclaimable, ReadingLabels, StatusLabels, CleanupLabels, diskVars
<1>2. ASSUME NEW c \in Commands, LoadForStatus(c) \/ ReportStatus(c)
      PROVE  ReclaimInv'
  <2>1. /\ UNCHANGED sessionFile /\ OthersKept(c)
        /\ pc[c] \in StatusLabels /\ pc'[c] \in {"idle"} \cup StatusLabels
    BY <1>2, <1>t, StepIsLocal DEF CommandStep, OtherStep, LoadForStatus, ReportStatus,
       Load, Goto, End, StatusLabels, diskVars
  <2>. QED BY <2>1 DEF OthersKept, ReclaimInv, Reclaimable, ReadingLabels, StatusLabels,
              CleanupLabels
<1>3. ASSUME NEW c \in Commands, Busy(c), CommandStep(c)
      PROVE  ReclaimInv'
  <2>1. /\ \A d \in Commands \ {c} : pc'[d] \in {"idle"} \cup StatusLabels
        /\ \A d \in Commands \ {c} : pc[d] \in {"idle"} \cup StatusLabels
    BY <1>3, StepIsLocal DEF OthersKept, PinInv, Busy
  <2>f. /\ FlowAt(c) /\ pc[c] \notin {"idle", "sload", "scheck"}
        /\ pc[c] \in ReadingLabels => Reclaimable
        /\ pc[c] \in CleanupLabels /\ stage[c] \in {"stale", "disconnect"} => Reclaimable
    BY <1>3, <2>1 DEF FlowInv, ReclaimInv, Busy, StatusLabels, ReadingLabels
  <2>2. \/ pc'[c] \in ReadingLabels
        \/ pc'[c] \in CleanupLabels /\ stage'[c] \in {"stale", "disconnect"}
        => Reclaimable'
    <3>. USE <1>t, <1>n, <2>f DEF Goto, Enter, End, FailEarly, FailLate, FlowAt,
             BeforePid, WithOwnPid, CleanupLabels, SaveStages, CleanupStages,
             Reclaimable, ReadingLabels, StatusLabels
    <3>1. CASE CheckSession(c) \/ LoadForDisconnect(c)
        BY <3>1 DEF CheckSession, LoadForDisconnect, Load, diskVars
    <3>2. CASE CheckStale(c)
        BY <3>2 DEF CheckStale, diskVars
    <3>3. CASE AllocatePort(c)
        BY <3>3 DEF AllocatePort, diskVars
    <3>4. CASE WriteKnownHosts(c) \/ WriteSSHConfig(c)
        BY <3>4 DEF WriteKnownHosts, WriteSSHConfig
    <3>5. CASE SaveTruncate(c)
        BY <3>5 DEF SaveTruncate, SaveFails, SaveFault
    <3>6. CASE SaveWrite(c)
      <4>1. AfterSave(stage[c], job[c]) \in
                {"preflight", "block", "done", "remote", "data", "launch"}
        BY DEF AfterSave, AfterTunnel, AfterBlock, AfterRemote
      <4>. QED BY <3>6, <4>1 DEF SaveWrite, SaveFails, SaveFault
    <3>7. CASE RunPreflight(c) \/ SpawnSupervisor(c) \/ WaitReady(c) \/ WaitExit(c)
                 \/ WaitTimeout(c)
        BY <3>7 DEF RunPreflight, SpawnSupervisor, WaitReady, WaitExit, WaitTimeout
    <3>8. CASE UpsertBlock(c) \/ ConfigureRemote(c) \/ PrepareUserDataDir(c)
                 \/ LaunchVSCode(c) 
        BY <3>8 DEF UpsertBlock, ConfigureRemote, AfterRemote, PrepareUserDataDir,
           LaunchVSCode
    <3>9. CASE RespondPrepared(c)
      <4>1. st[c] \in SessionState
        BY <3>9 DEF RespondPrepared, TypeInv, LocalOK, HoldingLabels
      <4>. QED BY <3>9, <4>1 DEF RespondPrepared, diskVars
    <3>10. CASE RemoveManagedBlock(c) \/ RemoveSSHConfig(c) \/ RemoveKnownHosts(c)
                  \/ CleanupUserDataDir(c)
        BY <3>10 DEF RemoveManagedBlock, RemoveSSHConfig, RemoveKnownHosts,
           CleanupUserDataDir, CleanupFails
    <3>11. CASE ClearSession(c)
        BY <3>11 DEF ClearSession
    <3>12. CASE KillRecorded(c)
        BY <3>12 DEF KillRecorded, diskVars
    <3>13. ~LoadForStatus(c) /\ ~ReportStatus(c)
        BY DEF LoadForStatus, ReportStatus
    <3>. QED BY <1>3, <3>1, <3>2, <3>3, <3>4, <3>5, <3>6, <3>7, <3>8, <3>9, <3>10, <3>11,
                <3>12, <3>13
             DEF CommandStep, ConnectStep, CleanupStep, OtherStep
  <2>. QED BY <2>1, <2>2 DEF ReclaimInv, CleanupLabels, StatusLabels
<1>4. ASSUME NEW p \in Pids, ProcessStep(p)
      PROVE  ReclaimInv'
    BY <1>4, ProcessShrinks DEF ReclaimInv, Reclaimable, cmdVars
<1>5. CASE UNCHANGED vars
    BY <1>5 DEF vars, cmdVars, diskVars, ReclaimInv, Reclaimable
<1>. QED
    BY <1>1, <1>2, <1>3, <1>4, <1>5, StepOfBusy DEF Next, UserStep, Crash

\* If connect and disconnect do not overlap and none is killed, and neither the
\* first Save nor Clear fails, then between commands session.json is absent or
\* records a pid: whatever other step failed, the next connect is refused only by
\* a process that is alive.
THEOREM SessionAlwaysReclaimable ==
    ASSUME Exclusive, "cli" \notin Crashes, Faults \cap {"save", "clear"} = {}
    PROVE  Spec => []SessionReclaimable
<1>1. Init => TypeInv /\ PinInv /\ FlowInv /\ ReclaimInv
    BY InitTyped, InitPinned, InitFlow, InitReclaim
<1>2. TypeInv /\ PinInv /\ FlowInv /\ ReclaimInv /\ [Next]_vars
        => (TypeInv /\ PinInv /\ FlowInv /\ ReclaimInv)'
    BY StepTyped, StepPinned, StepFlow, StepReclaim
<1>3. ReclaimInv => SessionReclaimable
    BY DEF ReclaimInv, Reclaimable, SessionReclaimable, Quiet, ReadingLabels, StatusLabels
<1>. QED BY <1>1, <1>2, <1>3, PTL DEF Spec

-----------------------------------------------------------------------------
(* connect takes only its own supervisor's report for readiness. *)

ReadyAt(c) ==
    /\ pc[c] = "wait" /\ work[child[c]].fresh /\ readyFile => told[child[c]]
    /\ WithOwnPid(c) /\ work[st[c].pid].fresh => told[st[c].pid]

ReadyInv == \A c \in Commands : ReadyAt(c)

LEMMA InitReady == Init => ReadyInv
BY DEF Init, ReadyInv, ReadyAt, WithOwnPid

\* No step of a supervisor changes why it was started, or takes a report back.
LEMMA ProcessKeepsReports ==
    ASSUME TypeInv, NEW p \in Pids, ProcessStep(p), NEW q \in Pids
    PROVE  /\ work'[q].fresh => work[q].fresh
           /\ told[q] => told'[q]
           /\ readyFile' => readyFile \/ (proc[p] = "listen" /\ told'[p])
<1>t. /\ work \in [Pids -> Work] /\ told \in [Pids -> BOOLEAN]
    BY DEF TypeInv, TypeOK
<1>1. CASE SupervisorLoads(p)
  <2>1. work'[q].fresh = work[q].fresh
    BY <1>1, <1>t DEF SupervisorLoads, Work
  <2>2. told' = told /\ readyFile' = readyFile
    BY <1>1 DEF SupervisorLoads, diskVars
  <2>. QED BY <2>1, <2>2, Zenon
<1>2. CASE WriteReady(p)
  <2>1. told'[p] /\ proc[p] = "listen" /\ work' = work
    BY <1>2, <1>t DEF WriteReady
  <2>2. told[q] => told'[q]
    BY <1>2, <1>t DEF WriteReady
  <2>. QED BY <2>1, <2>2, Zenon
<1>3. CASE \/ SupervisorGivesUp(p) \/ TunnelUp(p) \/ TunnelDown(p) \/ SupervisorCrash(p)
           \/ OrphanExits(p) \/ OtherStarts(p) \/ OtherExits(p)
  <2>1. work' = work /\ told' = told /\ readyFile' = readyFile
    BY <1>3 DEF SupervisorGivesUp, TunnelUp, TunnelDown, SupervisorCrash, OrphanExits,
       OtherStarts, OtherExits, diskVars
  <2>. QED BY <2>1, Zenon
<1>. QED BY <1>1, <1>2, <1>3 DEF ProcessStep

LEMMA StepReady ==
    ASSUME Exclusive, TypeInv, PinInv, FlowInv, LeaseInv, ReadyInv, [Next]_vars
    PROVE  ReadyInv'
<1>t. /\ pc \in [Commands -> Labels] /\ stage \in [Commands -> Stages]
      /\ st \in [Commands -> SessionState \cup {None}]
      /\ child \in [Commands -> Pids \cup {None}]
      /\ proc \in [Pids -> ProcStates] /\ work \in [Pids -> Work]
      /\ told \in [Pids -> BOOLEAN] /\ readyFile \in BOOLEAN
    BY DEF TypeInv, TypeOK
<1>1. ASSUME NEW c \in Commands,
             \/ StartConnect(c) \/ StartDisconnect(c) \/ StartStatus(c)
             \/ LoadForStatus(c) \/ ReportStatus(c) \/ Crash(c)
      PROVE  ReadyInv'
  <2>1. /\ UNCHANGED <<work, told, readyFile>> /\ OthersKept(c)
        /\ pc'[c] \in {"idle", "check", "load"} \cup StatusLabels
    BY <1>1, <1>t, StepIsLocal DEF CommandStep, UserStep, OtherStep, LoadForStatus,
       ReportStatus, StartConnect, StartDisconnect, StartStatus, Crash,
       Load, Goto, End, StatusLabels, diskVars, procVars
  <2>. QED BY <2>1 DEF OthersKept, ReadyInv, ReadyAt, WithOwnPid, StatusLabels
<1>2. ASSUME NEW c \in Commands, Busy(c), CommandStep(c)
      PROVE  ReadyInv'
  <2>1. ASSUME NEW d \in Commands \ {c} PROVE ReadyAt(d)'
    BY <1>2, StepIsLocal DEF OthersKept, PinInv, Busy, ReadyAt, WithOwnPid, StatusLabels
  <2>f. /\ FlowAt(c) /\ ReadyAt(c)
    BY DEF FlowInv, ReadyInv
  <2>2. ReadyAt(c)'
    <3>1. CASE SpawnSupervisor(c)
      <4>1. CASE pc'[c] # "wait"
        BY <3>1, <4>1, <1>t DEF SpawnSupervisor, FailEarly, Enter, Goto, ReadyAt, WithOwnPid
      <4>2. CASE pc'[c] = "wait"
        <5>1. PICK p \in FreePids :
                  /\ work' = [work EXCEPT ![p] =
                                 [target |-> job[c].target, port |-> None,
                                  reconnect |-> job[c].reconnect, fresh |-> ~readyFile]]
                  /\ child' = [child EXCEPT ![c] = p]
          BY <3>1, <4>2, <1>t DEF SpawnSupervisor, FailEarly, Enter
        <5>2. work'[child'[c]].fresh = ~readyFile /\ readyFile' = readyFile
          BY <3>1, <5>1, <1>t DEF SpawnSupervisor, FreePids, diskVars
        <5>. QED BY <4>2, <5>2 DEF ReadyAt, WithOwnPid
      <4>. QED BY <4>1, <4>2
    <3>2. CASE WaitReady(c)
      <4>1. st[c] \in SessionState /\ child[c] \in Pids
        BY <3>2 DEF WaitReady, TypeInv, LocalOK, HoldingLabels
      <4>2. WithPid(st[c], child[c]).pid = child[c]
        BY <4>1, UpdateKeepsPid
      <4>. QED BY <3>2, <2>f, <4>2, <1>t DEF WaitReady, Enter, ReadyAt, WithOwnPid, diskVars,
                  procVars
    <3>3. CASE UpsertBlock(c) \/ PrepareUserDataDir(c)
      <4>1. st[c] \in SessionState
        BY <3>3 DEF UpsertBlock, PrepareUserDataDir, TypeInv, LocalOK, HoldingLabels
      <4>2. WithBlock(st[c]).pid = st[c].pid /\ WithData(st[c]).pid = st[c].pid
        BY <4>1, UpdateKeepsPid DEF WithBlock, WithData, SessionState
      <4>3. /\ WithOwnPid(c) /\ UNCHANGED <<work, told>>
            /\ st'[c].pid = st[c].pid /\ pc'[c] # "wait"
        BY <3>3, <4>2, <1>t DEF UpsertBlock, PrepareUserDataDir, Enter, FailLate, WithOwnPid,
           procVars
      <4>. QED BY <2>f, <4>3 DEF ReadyAt
    <3>4. CASE SaveTruncate(c) \/ SaveWrite(c) \/ ConfigureRemote(c) \/ LaunchVSCode(c)
                  \/ RespondPrepared(c)
      <4>1. AfterSave(stage[c], job[c]) # "wait"
              /\ (stage[c] = "prepared" => AfterSave(stage[c], job[c]) = "preflight")
        BY DEF AfterSave, AfterTunnel, AfterBlock, AfterRemote
      <4>2. /\ UNCHANGED <<work, told>> /\ pc'[c] # "wait"
            /\ WithOwnPid(c)' => WithOwnPid(c) /\ st'[c] = st[c]
        BY <3>4, <4>1, <1>t, <2>f DEF FlowAt, SaveTruncate, SaveWrite, SaveFails,
           ConfigureRemote, AfterRemote, LaunchVSCode, RespondPrepared, Goto, Enter, End,
           FailEarly, FailLate, WithOwnPid, SaveStages, procVars
      <4>. QED BY <2>f, <4>2 DEF ReadyAt
    <3>5. CASE \/ CheckSession(c) \/ LoadForDisconnect(c) \/ CheckStale(c) \/ AllocatePort(c)
               \/ WriteKnownHosts(c) \/ WriteSSHConfig(c) \/ RunPreflight(c) \/ WaitExit(c)
               \/ WaitTimeout(c) \/ KillRecorded(c)
      <4>1. pc'[c] # "wait" /\ ~WithOwnPid(c)'
        BY <3>5, <1>t DEF CheckSession, LoadForDisconnect, Load, CheckStale, AllocatePort,
           WriteKnownHosts, WriteSSHConfig, RunPreflight, WaitExit, WaitTimeout, KillRecorded,
           Goto, Enter, End, FailEarly, WithOwnPid
      <4>. QED BY <4>1 DEF ReadyAt
    <3>6. CASE CleanupStep(c)
      <4>1. pc'[c] # "wait" /\ ~WithOwnPid(c)'
        BY <3>6, <1>t DEF CleanupStep, RemoveManagedBlock, RemoveSSHConfig, RemoveKnownHosts,
           CleanupUserDataDir, ClearSession, Cleared, CleanupFails, Goto, Enter, End,
           WithOwnPid
      <4>. QED BY <4>1 DEF ReadyAt
    <3>7. ~LoadForStatus(c) /\ ~ReportStatus(c)
      BY <1>2 DEF LoadForStatus, ReportStatus, Busy, StatusLabels
    <3>. QED BY <1>2, <3>1, <3>2, <3>3, <3>4, <3>5, <3>6, <3>7
             DEF CommandStep, ConnectStep, OtherStep
  <2>. QED BY <2>1, <2>2 DEF ReadyInv
<1>3. ASSUME NEW p \in Pids, ProcessStep(p)
      PROVE  ReadyInv'
  <2>1. ASSUME NEW c \in Commands PROVE ReadyAt(c)'
    <3>1. pc' = pc /\ stage' = stage /\ st' = st /\ child' = child
      BY <1>3, ProcessShrinks DEF cmdVars
    <3>2. /\ ReadyAt(c)
          /\ WithOwnPid(c) => st[c].pid \in Pids
          /\ pc[c] = "wait" => child[c] \in Pids /\ OnlyAlive(child[c])
      BY DEF ReadyInv, FlowInv, FlowAt, TypeInv, LocalOK, LeaseInv, AliveAt
    <3>3. proc[p] = "listen" => p = child[c] \/ pc[c] # "wait"
      BY <3>2 DEF OnlyAlive, Supervising
    <3>4. ASSUME NEW q \in Pids
          PROVE  /\ work'[q].fresh => work[q].fresh
                 /\ told[q] => told'[q]
                 /\ readyFile' => readyFile \/ (proc[p] = "listen" /\ told'[p])
      BY <1>3, ProcessKeepsReports
    <3>5. pc[c] = "wait" /\ work'[child[c]].fresh /\ readyFile' => told'[child[c]]
      BY <3>2, <3>3, <3>4, Zenon DEF ReadyAt
    <3>6. WithOwnPid(c) /\ work'[st[c].pid].fresh => told'[st[c].pid]
      BY <3>2, <3>4, Zenon DEF ReadyAt
    <3>. QED BY <3>1, <3>5, <3>6 DEF ReadyAt, WithOwnPid
  <2>. QED BY <2>1 DEF ReadyInv
<1>4. CASE UNCHANGED vars
    BY <1>4 DEF vars, cmdVars, diskVars, procVars, ReadyInv, ReadyAt, WithOwnPid
<1>. QED
    BY <1>1, <1>2, <1>3, <1>4, StepOfBusy DEF Next, UserStep

\* Under the conditions of the lease, if supervisor.ready was absent when connect
\* started its supervisor, connect goes on only after this very supervisor has
\* reported its tunnel: with at most one supervisor alive, nobody else can have
\* written the file that connect's ticker finds.
THEOREM ReadinessIsOwn ==
    ASSUME Exclusive, "cli" \notin Crashes, NoLateError
    PROVE  Spec => []ReadyIsOwn
<1>1. Init => ReadyInv
    BY InitReady
<1>2. TypeInv /\ PinInv /\ FlowInv /\ LeaseInv /\ ReadyInv /\ [Next]_vars => ReadyInv'
    BY StepReady
<1>3. FlowInv /\ ReadyInv => ReadyIsOwn
    BY DEF FlowInv, FlowAt, ReadyInv, ReadyAt, ReadyIsOwn, BeforePid, WithOwnPid, SaveStages
<1>. QED BY <1>1, <1>2, <1>3, LeaseHolds, PTL DEF Spec

-----------------------------------------------------------------------------
(* The commands implement the lease. *)

Live        == {p \in Pids : proc[p] \in Supervising}
RecordedPid == IF OnDisk \in SessionState THEN OnDisk.pid ELSE None

\* What the only command that is not idle or reading makes of the lease.
PendingAt(c) == IF pc[c] = "wait" THEN child[c]
                ELSE IF pc[c] = "save" /\ stage[c] = "tunnel" THEN st[c].pid ELSE None
DiskAt(c)    == IF pc[c] = "write" THEN st[c] ELSE sessionFile

OthersRead(c) == \A d \in Commands \ {c} : pc[d] \in {"idle"} \cup StatusLabels

\* Pending and OnDisk choose a command; there is only one to choose.
LeaseView ==
    \A c \in Commands : OthersRead(c) => Pending = PendingAt(c) /\ OnDisk = DiskAt(c)

LEMMA ViewHolds == TypeInv /\ FlowInv => LeaseView
<1>. SUFFICES ASSUME TypeInv, FlowInv, NEW c \in Commands, OthersRead(c)
              PROVE  Pending = PendingAt(c) /\ OnDisk = DiskAt(c)
    BY DEF LeaseView
<1>n. None \notin Pids
    BY SentinelAssumption
<1>1. {d \in Commands : child[d] # None} = IF pc[c] = "wait" THEN {c} ELSE {}
  <2>1. ASSUME NEW d \in Commands, child[d] # None PROVE d = c /\ pc[c] = "wait"
    BY <2>1 DEF FlowInv, FlowAt, OthersRead, StatusLabels
  <2>2. pc[c] = "wait" => child[c] # None
    BY <1>n DEF TypeInv, LocalOK
  <2>. QED BY <2>1, <2>2
<1>2. {d \in Commands : pc[d] = "save" /\ stage[d] = "tunnel"}
        = IF pc[c] = "save" /\ stage[c] = "tunnel" THEN {c} ELSE {}
    BY DEF OthersRead, StatusLabels
<1>3. {d \in Commands : pc[d] = "write"} = IF pc[c] = "write" THEN {c} ELSE {}
    BY DEF OthersRead, StatusLabels
<1>4. pc[c] = "write" => sessionFile = Torn
    BY DEF FlowInv, FlowAt
<1>5. (CHOOSE d \in {c} : TRUE) = c
    OBVIOUS
<1>6. Pending = PendingAt(c)
    BY <1>1, <1>2, <1>5 DEF Pending, PendingAt
<1>7. OnDisk = DiskAt(c)
    BY <1>3, <1>4, <1>5 DEF OnDisk, DiskAt
<1>. QED BY <1>6, <1>7

\* The moves of the lease, on the state the refinement maps to.
LEMMA LeaseMove ==
    ASSUME \/ Live' = Live /\ Pending' = Pending /\ RecordedPid' = RecordedPid
           \/ \E h \in Pids : /\ Live = {} /\ Pending = None /\ RecordedPid = None
                              /\ Live' = {h} /\ Pending' = h /\ RecordedPid' = None
           \/ Pending # None /\ RecordedPid' = Pending /\ Pending' = None /\ Live' = Live
           \/ Pending # None /\ Live' = {} /\ Pending' = None /\ RecordedPid' = RecordedPid
           \/ Live' = {} /\ Pending' = Pending /\ RecordedPid' = RecordedPid
           \/ /\ Live = {} /\ RecordedPid' = None
              /\ Live' = Live /\ Pending' = Pending
    PROVE  [Lease!LeaseNext]_(Lease!leaseVars)
BY DEF Live, RecordedPid, Lease!LeaseNext, Lease!leaseVars, Lease!Grant, Lease!Record,
   Lease!Withdraw, Lease!Lose, Lease!Release

LEMMA StepHoldsLease ==
    ASSUME Exclusive, "cli" \notin Crashes, NoLateError,
           TypeInv, PinInv, FlowInv, LeaseInv, LeaseView, LeaseView', AtMostOneTunnel,
           [Next]_vars
    PROVE  [Lease!LeaseNext]_(Lease!leaseVars)
<1>t. /\ pc \in [Commands -> Labels] /\ stage \in [Commands -> Stages]
      /\ st \in [Commands -> SessionState \cup {None}]
      /\ child \in [Commands -> Pids \cup {None}]
      /\ proc \in [Pids -> ProcStates]
    BY DEF TypeInv, TypeOK
<1>n. None \notin SessionState /\ Torn \notin SessionState /\ None \notin Pids
    BY SentinelAssumption
<1>l. /\ "resave" \notin Faults /\ "block" \notin Faults
      /\ "data" \notin Faults /\ "launch" \notin Faults
      /\ \A c \in Commands : pc[c] # "remote"
    BY DEF NoLateError, LateFaults, TypeInv, LocalOK, ConnectLabels
\* A step that only a command at a reading label can see.
<1>1. ASSUME NEW c \in Commands,
             \/ StartConnect(c) \/ StartDisconnect(c) \/ StartStatus(c)
             \/ LoadForStatus(c) \/ ReportStatus(c)
      PROVE  [Lease!LeaseNext]_(Lease!leaseVars)
  <2>1. /\ OthersKept(c) /\ UNCHANGED <<sessionFile, proc>>
        /\ pc[c] \in {"idle"} \cup StatusLabels
        /\ pc'[c] \in ReadingLabels
        /\ pc'[c] \in {"check", "load"} => OthersRead(c)
    BY <1>1, <1>t, StepIsLocal DEF CommandStep, UserStep, OtherStep, LoadForStatus,
       ReportStatus, StartConnect, StartDisconnect, StartStatus, MayStart, OthersRead,
       Load, Goto, End, StatusLabels, ReadingLabels, diskVars, procVars
  <2>2. PICK d \in Commands : OthersRead(d) /\ OthersRead(d)'
    <3>1. CASE \E d \in Commands : Busy(d)
      <4>1. PICK d \in Commands : Busy(d)
        BY <3>1
      <4>2. OthersRead(d) /\ d # c
        BY <2>1, <4>1 DEF PinInv, Busy, OthersRead
      <4>3. ~OthersRead(c)
        BY <4>1, <4>2 DEF OthersRead, Busy
      <4>4. pc'[c] \in {"idle"} \cup StatusLabels
        BY <1>1, <1>t, <2>1, <4>3 DEF StartConnect, StartDisconnect, StartStatus, LoadForStatus,
           ReportStatus, Load, Goto, End, StatusLabels
      <4>5. OthersRead(d)'
        BY <2>1, <4>2, <4>4 DEF OthersRead, OthersKept
      <4>. QED BY <4>2, <4>5
    <3>2. CASE \A d \in Commands : ~Busy(d)
      BY <2>1, <3>2 DEF Busy, OthersRead, OthersKept
    <3>. QED BY <3>1, <3>2
  <2>3. PendingAt(d)' = PendingAt(d) /\ DiskAt(d)' = DiskAt(d)
    <3>1. CASE d # c
      BY <2>1, <3>1 DEF OthersKept, PendingAt, DiskAt
    <3>2. CASE d = c
      BY <2>1, <3>2 DEF PendingAt, DiskAt, ReadingLabels, StatusLabels
    <3>. QED BY <3>1, <3>2
  <2>4. Pending' = Pending /\ OnDisk' = OnDisk
    BY <2>2, <2>3 DEF LeaseView
  <2>. QED BY <2>1, <2>4, LeaseMove DEF Live, RecordedPid
<1>2. ASSUME NEW c \in Commands, Busy(c), CommandStep(c)
      PROVE  [Lease!LeaseNext]_(Lease!leaseVars)
  <2>1. OthersRead(c) /\ OthersRead(c)'
    BY <1>2, StepIsLocal DEF OthersRead, OthersKept, PinInv, Busy
  <2>2. /\ Pending = PendingAt(c) /\ OnDisk = DiskAt(c)
        /\ Pending' = PendingAt(c)' /\ OnDisk' = DiskAt(c)'
    BY <2>1 DEF LeaseView
  <2>f. /\ FlowAt(c) /\ AliveAt(c)
        /\ pc[c] \notin {"idle", "sload", "scheck"}
    BY <1>2 DEF FlowInv, LeaseInv, Busy, StatusLabels
  <2>. USE <1>t, <1>n, <1>l DEF PendingAt, DiskAt, Goto, Enter, End, FailEarly, FailLate
  <2>3. CASE \/ CheckSession(c) \/ LoadForDisconnect(c) \/ CheckStale(c) \/ AllocatePort(c)
             \/ WriteKnownHosts(c) \/ WriteSSHConfig(c) \/ RunPreflight(c)
             \/ ConfigureRemote(c) \/ LaunchVSCode(c) \/ RespondPrepared(c)
             \/ RemoveManagedBlock(c) \/ RemoveSSHConfig(c) \/ RemoveKnownHosts(c)
             \/ CleanupUserDataDir(c)
    <3>1. /\ UNCHANGED <<sessionFile, proc>>
          /\ pc[c] \notin {"wait", "save", "write"} /\ pc'[c] \notin {"wait", "write"}
          /\ pc'[c] = "save" => stage'[c] = "prepared"
      BY <2>3 DEF CheckSession, LoadForDisconnect, Load, CheckStale, AllocatePort,
         WriteKnownHosts, WriteSSHConfig, RunPreflight, ConfigureRemote, AfterRemote,
         LaunchVSCode, RespondPrepared, RemoveManagedBlock, RemoveSSHConfig,
         RemoveKnownHosts, CleanupUserDataDir, CleanupFails, diskVars, procVars
    <3>2. Pending' = Pending /\ OnDisk' = OnDisk
      BY <2>2, <3>1
    <3>. QED BY <3>1, <3>2, LeaseMove DEF Live, RecordedPid
  <2>4. CASE UpsertBlock(c) \/ PrepareUserDataDir(c)
    <3>1. /\ UNCHANGED <<sessionFile, proc>>
          /\ pc[c] \notin {"wait", "save", "write"} /\ pc'[c] = "save"
          /\ stage'[c] \in {"block", "data"}
      BY <2>4 DEF UpsertBlock, PrepareUserDataDir, procVars
    <3>2. Pending' = Pending /\ OnDisk' = OnDisk
      BY <2>2, <3>1
    <3>. QED BY <3>1, <3>2, LeaseMove DEF Live, RecordedPid
  <2>5. CASE SaveTruncate(c)
    <3>1. /\ proc' = proc /\ pc[c] = "save" /\ stage[c] \in SaveStages
          /\ st[c] \in SessionState
      BY <2>5, <2>f DEF SaveTruncate, FlowAt, OnDiskBefore, TypeInv, LocalOK, HoldingLabels,
         SaveStages, procVars
    <3>2. CASE stage[c] = "prepared"
      <4>1. /\ OnDisk = None /\ Pending = None /\ Pending' = None
            /\ OnDisk' = None \/ (OnDisk' = st[c] /\ st[c].pid = None)
        BY <2>5, <2>2, <2>f, <3>1, <3>2 DEF SaveTruncate, SaveFails, FlowAt, BeforePid
      <4>. QED BY <3>1, <4>1, LeaseMove DEF Live, RecordedPid
    <3>3. CASE stage[c] # "prepared"
      <4>1. /\ pc'[c] = "write" /\ st'[c] = st[c] /\ stage'[c] = stage[c]
        BY <2>5, <3>3 DEF SaveTruncate, SaveFault
      <4>2. /\ OnDisk' = st[c] /\ Pending' = None /\ OnDisk = sessionFile
            /\ Pending = IF stage[c] = "tunnel" THEN st[c].pid ELSE None
        BY <2>2, <3>1, <4>1
      <4>3. /\ RecordedPid' = st[c].pid /\ st[c].pid \in Pids
            /\ RecordedPid = IF stage[c] = "tunnel" THEN None ELSE st[c].pid
        BY <2>f, <3>1, <3>3, <4>2 DEF RecordedPid, FlowAt, WithOwnPid, OnDiskBefore, SaveStages
      <4>. QED BY <3>1, <4>2, <4>3, LeaseMove DEF Live
    <3>. QED BY <3>2, <3>3
  <2>6. CASE SaveWrite(c)
    <3>1. /\ proc' = proc /\ pc[c] = "write" /\ st[c] \in SessionState
          /\ AfterSave(stage[c], job[c]) \notin {"wait", "save", "write"}
      BY <2>6 DEF SaveWrite, TypeInv, LocalOK, HoldingLabels, AfterSave, AfterTunnel,
         AfterBlock, AfterRemote, procVars
    <3>2. /\ OnDisk = st[c] /\ Pending = None /\ Pending' = None
          /\ \/ OnDisk' = st[c]
             \/ st[c].pid = None /\ OnDisk' = Torn
      BY <2>6, <2>2, <2>f, <3>1 DEF SaveWrite, SaveFails, SaveFault, FlowAt, BeforePid
    <3>. QED BY <3>1, <3>2, LeaseMove DEF Live, RecordedPid
  <2>7. CASE SpawnSupervisor(c)
    <3>1. /\ sessionFile' = sessionFile /\ pc[c] = "spawn" /\ st[c] \in SessionState
          /\ sessionFile = st[c] /\ st[c].pid = None /\ Live = {}
      BY <2>7, <2>f DEF SpawnSupervisor, TypeInv, LocalOK, HoldingLabels, FlowAt, BeforePid,
         AliveAt, NoneAlive, Live, diskVars
    <3>2. CASE pc'[c] = "wait"
      <4>1. PICK h \in FreePids : /\ proc' = [proc EXCEPT ![h] = "boot"]
                                  /\ child' = [child EXCEPT ![c] = h]
        BY <2>7, <3>2 DEF SpawnSupervisor
      <4>2. Live' = {h} /\ h \in Pids
        BY <3>1, <4>1 DEF FreePids, Live, Supervising
      <4>3. /\ Pending = None /\ Pending' = h /\ OnDisk = st[c] /\ OnDisk' = st[c]
        BY <2>2, <3>1, <3>2, <4>1
      <4>. QED BY <3>1, <4>2, <4>3, LeaseMove DEF RecordedPid
    <3>3. CASE pc'[c] # "wait"
      <4>1. proc' = proc /\ pc'[c] = "rmconfig"
        BY <2>7, <3>3 DEF SpawnSupervisor, procVars
      <4>2. Pending' = Pending /\ OnDisk' = OnDisk
        BY <2>2, <3>1, <4>1
      <4>. QED BY <4>1, <4>2, LeaseMove DEF Live, RecordedPid
    <3>. QED BY <3>2, <3>3
  <2>8. CASE WaitReady(c)
    <3>1. st[c] \in SessionState /\ child[c] \in Pids
      BY <2>8 DEF WaitReady, TypeInv, LocalOK, HoldingLabels
    <3>2. WithPid(st[c], child[c]).pid = child[c]
      BY <3>1, UpdateKeepsPid
    <3>3. /\ proc' = proc /\ sessionFile' = sessionFile /\ pc[c] = "wait" /\ pc'[c] = "save"
          /\ stage'[c] = "tunnel" /\ st'[c].pid = child[c]
      BY <2>8, <3>2 DEF WaitReady, diskVars, procVars
    <3>4. Pending' = Pending /\ OnDisk' = OnDisk
      BY <2>2, <3>3
    <3>. QED BY <3>3, <3>4, LeaseMove DEF Live, RecordedPid
  <2>9. CASE WaitExit(c) \/ WaitTimeout(c)
    <3>1. /\ sessionFile' = sessionFile /\ pc[c] = "wait" /\ pc'[c] = "rmconfig"
          /\ child[c] \in Pids /\ OnlyAlive(child[c])
      BY <2>9, <2>f DEF WaitExit, WaitTimeout, TypeInv, LocalOK, AliveAt, diskVars
    <3>2. Live' = {}
      <4>1. CASE WaitExit(c)
        BY <3>1, <4>1 DEF WaitExit, Live, OnlyAlive, Supervising, procVars
      <4>2. CASE WaitTimeout(c)
        BY <3>1, <4>2, TerminateStops DEF WaitTimeout, Live, OnlyAlive
      <4>. QED BY <2>9, <4>1, <4>2
    <3>3. Pending = child[c] /\ Pending' = None /\ OnDisk' = OnDisk
      BY <2>2, <3>1
    <3>. QED BY <3>1, <3>2, <3>3, LeaseMove DEF RecordedPid
  <2>10. CASE ClearSession(c)
    <3>1. /\ proc' = proc /\ pc[c] = "clear" /\ pc'[c] \in {"alloc", "idle"} /\ Live = {}
          /\ sessionFile' = None \/ sessionFile' = sessionFile
      BY <2>10, <2>f DEF ClearSession, Cleared, AliveAt, CleanupLabels, NoneAlive, Live,
         procVars
    <3>2. Pending' = Pending /\ (OnDisk' = None \/ OnDisk' = OnDisk)
      BY <2>2, <3>1
    <3>. QED BY <3>1, <3>2, LeaseMove DEF Live, RecordedPid
  <2>11. CASE KillRecorded(c)
    <3>1. /\ sessionFile' = sessionFile /\ pc[c] = "kill" /\ pc'[c] = "rmblock"
          /\ sessionFile = st[c]
      BY <2>11, <2>f DEF KillRecorded, FlowAt, diskVars
    <3>2. \A p \in Pids : proc[p] \in Supervising => p = st[c].pid
      BY <2>1, <3>1 DEF LeaseInv, Recorded, OthersRead, ReadingLabels
    <3>3. Live' = {}
      BY <2>11, <3>2, TerminateStops DEF KillRecorded, Live
    <3>4. Pending' = Pending /\ OnDisk' = OnDisk
      BY <2>2, <3>1
    <3>. QED BY <3>3, <3>4, LeaseMove DEF RecordedPid
  <2>12. ~LoadForStatus(c) /\ ~ReportStatus(c)
    BY <2>f DEF LoadForStatus, ReportStatus
  <2>. QED BY <1>2, <2>3, <2>4, <2>5, <2>6, <2>7, <2>8, <2>9, <2>10, <2>11, <2>12
           DEF CommandStep, ConnectStep, CleanupStep, OtherStep
<1>3. ASSUME NEW p \in Pids, ProcessStep(p)
      PROVE  [Lease!LeaseNext]_(Lease!leaseVars)
  <2>1. Pending' = Pending /\ RecordedPid' = RecordedPid
    <3>1. /\ pc' = pc /\ stage' = stage /\ st' = st /\ child' = child
          /\ sessionFile' = sessionFile
      BY <1>3, ProcessShrinks DEF cmdVars
    <3>2. Pending' = Pending /\ OnDisk' = OnDisk
      BY <3>1 DEF Pending, OnDisk
    <3>. QED BY <3>2 DEF RecordedPid
  <2>2. Live' = Live \/ Live' = {}
    <3>1. Live' \subseteq Live
      BY <1>3, ProcessShrinks DEF AliveShrinks, Live
    <3>2. \A q, r \in Live : q = r
      BY DEF AtMostOneTunnel, Live
    <3>. QED BY <3>1, <3>2
  <2>. QED BY <2>1, <2>2, LeaseMove
<1>4. CASE UNCHANGED vars
  <2>1. Live' = Live /\ Pending' = Pending /\ RecordedPid' = RecordedPid
    BY <1>4 DEF vars, cmdVars, diskVars, procVars, Pending, OnDisk, RecordedPid, Live
  <2>. QED BY <2>1, LeaseMove
<1>. QED BY <1>1, <1>2, <1>3, <1>4, StepOfBusy DEF Next, UserStep, Crash

\* Under the conditions of the lease every step of every command and every
\* process is a step of TunnelLease, or none: the lease is granted only when
\* nothing is alive, pending or recorded, and released only by the dead.
THEOREM CommandsHoldLease ==
    ASSUME Exclusive, "cli" \notin Crashes, NoLateError
    PROVE  Spec => HoldsLease
<1>1. Init => Lease!LeaseInit
  <2>. SUFFICES ASSUME Init PROVE Lease!LeaseInit
    OBVIOUS
  <2>1. Pending = None /\ OnDisk = None /\ Live = {}
    BY DEF Init, Pending, OnDisk, Live, Supervising
  <2>. QED BY <2>1, SentinelAssumption DEF Lease!LeaseInit, Live
<1>2. TypeInv /\ PinInv /\ FlowInv /\ LeaseInv /\ LeaseView /\ LeaseView' /\ AtMostOneTunnel
        /\ [Next]_vars => [Lease!LeaseNext]_(Lease!leaseVars)
    BY StepHoldsLease
<1>3. TypeInv /\ FlowInv => LeaseView
    BY ViewHolds
<1>. QED BY <1>1, <1>2, <1>3, LeaseHolds, OneTunnel, PTL
         DEF Spec, HoldsLease, Lease!LeaseSpec
=============================================================================
