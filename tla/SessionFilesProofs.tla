------------------------- MODULE SessionFilesProofs -------------------------
(***************************************************************************)
(* The files of a session: connect's error paths and disconnect take back  *)
(* all that connect has made, and a session with a live tunnel always has  *)
(* the files that belong to it.                                            *)
(***************************************************************************)
EXTENDS SessionLeaseProofs

NoBlocks == \A t \in Targets : userBlock[t] = None
Clean    == sshConfig = None /\ knownHosts = None /\ NoBlocks /\ ~dataDir

\* Every managed block, and the VS Code directory, is one that s records.
Covered(s) ==
    /\ \A t \in Targets : userBlock[t] # None => s.block /\ t = s.target
    /\ dataDir => s.data

FilesAt(c) ==
    /\ pc[c] \in {"alloc", "known", "clear"} => Clean
    /\ pc[c] \in {"config", "rmknown", "rmdata"} => sshConfig = None
    /\ pc[c] = "rmdata" => knownHosts = None
    /\ pc[c] \in {"rmblock", "rmdata"} => stage[c] # "failed"
    /\ BeforePid(c) \/ WithOwnPid(c) \/ pc[c] = "rmblock" => Covered(st[c])
    /\ pc[c] \in {"save", "write"} /\ stage[c] = "tunnel" => ~st[c].block /\ ~st[c].data
    /\ pc[c] \in {"rmconfig", "rmknown", "rmdata"} =>
          /\ NoBlocks
          /\ dataDir => stage[c] # "failed" /\ st[c].data

FilesInv ==
    /\ (\A c \in Commands : pc[c] \in ReadingLabels) =>
          /\ sessionFile = None => Clean
          /\ sessionFile \in SessionState => Covered(sessionFile)
    /\ \A c \in Commands : FilesAt(c)

\* The failures after which connect, or a cleanup, itself leaves a file behind.
UndoableFaults == FaultKinds \ {"ssh", "save", "block", "data", "remove"}

LEMMA InitFiles == Init => FilesInv
BY SentinelAssumption DEF Init, FilesInv, FilesAt, BeforePid, WithOwnPid, Clean, NoBlocks

LEMMA OthersFiles ==
    ASSUME PinInv, NEW c \in Commands, Busy(c), OthersKept(c)
    PROVE  \A d \in Commands \ {c} : FilesAt(d)' /\ pc'[d] \in {"idle"} \cup StatusLabels
BY DEF PinInv, Busy, OthersKept, FilesAt, BeforePid, WithOwnPid, StatusLabels

LEMMA StepFiles ==
    ASSUME Exclusive, "cli" \notin Crashes, Faults \subseteq UndoableFaults,
           TypeInv, PinInv, FlowInv, FilesInv, [Next]_vars
    PROVE  FilesInv'
<1>t. /\ pc \in [Commands -> Labels] /\ stage \in [Commands -> Stages]
      /\ st \in [Commands -> SessionState \cup {None}]
      /\ userBlock \in [Targets -> Ports \cup {None}] /\ dataDir \in BOOLEAN
    BY DEF TypeInv, TypeOK
<1>n. None \notin SessionState /\ Torn \notin SessionState /\ None \notin Pids
        /\ None # Torn /\ None \notin Ports
    BY SentinelAssumption
<1>l. "ssh" \notin Faults /\ "save" \notin Faults /\ "block" \notin Faults
        /\ "data" \notin Faults /\ "remove" \notin Faults
    BY DEF UndoableFaults
<1>1. ASSUME NEW c \in Commands, StartConnect(c) \/ StartDisconnect(c) \/ StartStatus(c)
      PROVE  FilesInv'
  <2>1. /\ OthersKept(c) /\ UNCHANGED diskVars
        /\ pc[c] = "idle" /\ pc'[c] \in {"check", "load", "sload"}
    BY <1>1, <1>t, StepIsLocal DEF UserStep, StartConnect, StartDisconnect, StartStatus,
       MayStart, Goto
  <2>. QED BY <2>1 DEF OthersKept, FilesInv, FilesAt, BeforePid, WithOwnPid, Clean, NoBlocks,
              Covered, ReadingLabels, StatusLabels, diskVars
<1>2. ASSUME NEW c \in Commands, LoadForStatus(c) \/ ReportStatus(c)
      PROVE  FilesInv'
  <2>1. /\ UNCHANGED diskVars /\ OthersKept(c)
        /\ pc[c] \in StatusLabels /\ pc'[c] \in {"idle"} \cup StatusLabels
    BY <1>2, <1>t, StepIsLocal DEF CommandStep, OtherStep, LoadForStatus, ReportStatus,
       Load, Goto, End, StatusLabels
  <2>. QED BY <2>1 DEF OthersKept, FilesInv, FilesAt, BeforePid, WithOwnPid, Clean, NoBlocks,
              Covered, ReadingLabels, StatusLabels, diskVars
<1>3. ASSUME NEW c \in Commands, Busy(c), CommandStep(c)
      PROVE  FilesInv'
  <2>1. /\ \A d \in Commands \ {c} : FilesAt(d)' /\ pc'[d] \in {"idle"} \cup StatusLabels
        /\ \A d \in Commands \ {c} : pc[d] \in {"idle"} \cup StatusLabels
    BY <1>3, StepIsLocal, OthersFiles DEF PinInv, Busy
  <2>f. /\ FlowAt(c) /\ FilesAt(c)
        /\ pc[c] \notin {"idle", "sload", "scheck"}
        /\ pc[c] \in ReadingLabels =>
              /\ sessionFile = None => Clean
              /\ sessionFile \in SessionState => Covered(sessionFile)
    BY <1>3, <2>1 DEF FlowInv, FilesInv, Busy, StatusLabels, ReadingLabels
  <2>s. pc[c] \in HoldingLabels => st[c] \in SessionState
    BY DEF TypeInv, LocalOK
  <2>2. /\ FilesAt(c)'
        /\ pc'[c] \in ReadingLabels =>
              /\ sessionFile' = None => Clean'
              /\ sessionFile' \in SessionState => Covered(sessionFile)'
    <3>. USE <1>t, <1>n, <1>l, <2>f DEF Goto, Enter, End, FailEarly, FailLate, FlowAt,
             FilesAt, BeforePid, WithOwnPid, SaveStages, CleanupStages, CleanupLabels,
             Clean, NoBlocks, Covered, ReadingLabels, StatusLabels
    <3>1. CASE CheckSession(c)
        BY <3>1 DEF CheckSession, Load, diskVars
    <3>2. CASE LoadForDisconnect(c)
        BY <3>2 DEF LoadForDisconnect, Load, diskVars
    <3>3. CASE CheckStale(c)
        BY <3>3, <2>s DEF CheckStale, HoldingLabels, diskVars
    <3>4. CASE AllocatePort(c)
        BY <3>4 DEF AllocatePort, diskVars
    <3>5. CASE WriteKnownHosts(c) \/ WriteSSHConfig(c)
        BY <3>5 DEF WriteKnownHosts, WriteSSHConfig
    <3>6. CASE SaveTruncate(c)
        BY <3>6 DEF SaveTruncate, SaveFails, SaveFault, sshVars
    <3>7. CASE SaveWrite(c)
      <4>1. /\ stage[c] = "prepared" => AfterSave(stage[c], job[c]) = "preflight"
            /\ stage[c] # "prepared" =>
                   AfterSave(stage[c], job[c]) \in {"block", "done", "remote", "data", "launch"}
        BY DEF AfterSave, AfterTunnel, AfterBlock, AfterRemote
      <4>. QED BY <3>7, <4>1 DEF SaveWrite, SaveFails, SaveFault, sshVars
    <3>8. CASE RunPreflight(c)
        BY <3>8 DEF RunPreflight, diskVars
    <3>9. CASE SpawnSupervisor(c)
        BY <3>9 DEF SpawnSupervisor, diskVars
    <3>10. CASE WaitReady(c)
      <4>1. st[c] \in SessionState /\ child[c] \in Pids
        BY <3>10, <2>s DEF WaitReady, TypeInv, LocalOK, HoldingLabels
      <4>2. /\ WithPid(st[c], child[c]).block = st[c].block
            /\ WithPid(st[c], child[c]).data = st[c].data
            /\ WithPid(st[c], child[c]).target = st[c].target
        BY <4>1 DEF WithPid, SessionState
      <4>. QED BY <3>10, <4>2 DEF WaitReady, diskVars
    <3>11. CASE WaitExit(c) \/ WaitTimeout(c)
        BY <3>11 DEF WaitExit, WaitTimeout, diskVars
    <3>12. CASE UpsertBlock(c)
      <4>1. st[c] \in SessionState
        BY <3>12, <2>s DEF UpsertBlock, HoldingLabels
      <4>2. /\ WithBlock(st[c]).block /\ WithBlock(st[c]).data = st[c].data
            /\ WithBlock(st[c]).target = st[c].target
        BY <4>1 DEF WithBlock, SessionState
      <4>. QED BY <3>12, <4>1, <4>2 DEF UpsertBlock, sshVars
    <3>13. CASE PrepareUserDataDir(c)
      <4>1. st[c] \in SessionState
        BY <3>13, <2>s DEF PrepareUserDataDir, HoldingLabels
      <4>2. /\ WithData(st[c]).data /\ WithData(st[c]).block = st[c].block
            /\ WithData(st[c]).target = st[c].target
        BY <4>1 DEF WithData, SessionState
      <4>. QED BY <3>13, <4>1, <4>2 DEF PrepareUserDataDir, sshVars
    <3>14. CASE ConfigureRemote(c) \/ LaunchVSCode(c)
        BY <3>14 DEF ConfigureRemote, AfterRemote, LaunchVSCode, diskVars
    <3>15. CASE RespondPrepared(c)
        BY <3>15, <2>s DEF RespondPrepared, HoldingLabels, diskVars
    <3>16. CASE RemoveManagedBlock(c)
      <4>1. st[c].target \in Targets
        BY <3>16, <2>s DEF RemoveManagedBlock, HoldingLabels, SessionState
      <4>. QED BY <3>16, <4>1 DEF RemoveManagedBlock, sshVars
    <3>17. CASE RemoveSSHConfig(c) \/ RemoveKnownHosts(c)
        BY <3>17 DEF RemoveSSHConfig, RemoveKnownHosts
    <3>18. CASE CleanupUserDataDir(c)
      <4>1. pc[c] = "rmdata" /\ pc'[c] = "clear" /\ UNCHANGED <<sshVars, userBlock>>
        BY <3>18 DEF CleanupUserDataDir
      <4>2. dataDir' = (dataDir /\ ~st[c].data)
        BY <3>18, <1>l DEF CleanupUserDataDir
      <4>3. ~dataDir'
        BY <2>f, <4>1, <4>2
      <4>. QED BY <4>1, <4>3 DEF sshVars
    <3>19. CASE ClearSession(c)
        BY <3>19 DEF ClearSession, Cleared, sshVars
    <3>20. CASE KillRecorded(c)
        BY <3>20, <2>s DEF KillRecorded, HoldingLabels, diskVars
    <3>21. ~LoadForStatus(c) /\ ~ReportStatus(c)
        BY DEF LoadForStatus, ReportStatus
    <3>. QED BY <1>3, <3>1, <3>2, <3>3, <3>4, <3>5, <3>6, <3>7, <3>8, <3>9, <3>10, <3>11,
                <3>12, <3>13, <3>14, <3>15, <3>16, <3>17, <3>18, <3>19, <3>20, <3>21
             DEF CommandStep, ConnectStep, CleanupStep, OtherStep
  <2>. QED BY <2>1, <2>2 DEF FilesInv
<1>4. ASSUME NEW p \in Pids, ProcessStep(p)
      PROVE  FilesInv'
  <2>1. UNCHANGED <<cmdVars, sessionFile, sshConfig, knownHosts, userBlock, dataDir>>
    BY <1>4 DEF ProcessStep, SupervisorLoads, SupervisorGivesUp, TunnelUp, WriteReady,
       TunnelDown, SupervisorCrash, OrphanExits, OtherStarts, OtherExits, diskVars, sshVars
  <2>. QED BY <2>1 DEF FilesInv, FilesAt, BeforePid, WithOwnPid, Clean, NoBlocks, Covered,
              cmdVars
<1>5. CASE UNCHANGED vars
    BY <1>5 DEF vars, cmdVars, diskVars, FilesInv, FilesAt, BeforePid, WithOwnPid, Clean,
       NoBlocks, Covered
<1>. QED
    BY <1>1, <1>2, <1>3, <1>4, <1>5, StepOfBusy DEF Next, UserStep, Crash

\* If connect and disconnect do not overlap and none is killed, then between
\* commands, when there is no session.json, nothing of a session is left: not
\* after a failed port allocation, preflight, start, supervisor, remote setup,
\* launch, later Save or Clear, nor after disconnect.
THEOREM CleanedUp ==
    ASSUME Exclusive, "cli" \notin Crashes, Faults \subseteq UndoableFaults
    PROVE  Spec => []NothingLeftBehind
<1>1. Init => TypeInv /\ PinInv /\ FlowInv /\ FilesInv
    BY InitTyped, InitPinned, InitFlow, InitFiles
<1>2. TypeInv /\ PinInv /\ FlowInv /\ FilesInv /\ [Next]_vars
        => (TypeInv /\ PinInv /\ FlowInv /\ FilesInv)'
    BY StepTyped, StepPinned, StepFlow, StepFiles
<1>3. FilesInv => NothingLeftBehind
    BY DEF FilesInv, NothingLeftBehind, Clean, NoBlocks, Quiet, ReadingLabels, StatusLabels
<1>. QED BY <1>1, <1>2, <1>3, PTL DEF Spec

-----------------------------------------------------------------------------
(* A session with a live tunnel can be used. *)

Matches(s) ==
    /\ sshConfig = [target |-> s.target, port |-> s.port]
    /\ knownHosts = sshConfig
    /\ s.block => userBlock[s.target] = s.port
    /\ s.data => dataDir

\* What is claimed of a state whose supervisor is alive.
Usable(s) ==
    s.pid # None /\ proc[s.pid] \in Supervising =>
        /\ Matches(s)
        /\ proc[s.pid] \in {"dial", "listen"} => work[s.pid].port = s.port

\* A cleanup runs only when the recorded supervisor is gone; connect's own files
\* match its state from the first Save on.
UsableAt(c) ==
    /\ pc[c] \in CleanupLabels =>
          /\ stage[c] # "abort"
          /\ sessionFile \in SessionState /\ sessionFile.pid # None =>
                 proc[sessionFile.pid] \notin Supervising
    /\ pc[c] = "config" => knownHosts = MyEndpoint(c)
    /\ BeforePid(c) /\ pc[c] \notin {"known", "config"} => Matches(st[c])
    /\ pc[c] = "wait" /\ proc[child[c]] \in {"dial", "listen"} =>
          work[child[c]].port = st[c].port
    /\ WithOwnPid(c) => Usable(st[c])

UsableInv ==
    /\ sessionFile \in SessionState => Usable(sessionFile)
    /\ \A c \in Commands : UsableAt(c)

LEMMA InitUsable == Init => UsableInv
BY SentinelAssumption DEF Init, UsableInv, UsableAt, BeforePid, WithOwnPid, CleanupLabels

\* A supervisor that serves a port has it from an earlier step, or has just read it
\* from session.json.
LEMMA ProcessKeepsPort ==
    ASSUME TypeInv, NEW p \in Pids, ProcessStep(p), NEW q \in Pids,
           proc'[q] \in {"dial", "listen"}
    PROVE  \/ proc[q] \in {"dial", "listen"} /\ work'[q].port = work[q].port
           \/ sessionFile \in SessionState /\ work'[q].port = sessionFile.port
<1>t. proc \in [Pids -> ProcStates] /\ work \in [Pids -> Work]
    BY DEF TypeInv, TypeOK
<1>1. CASE SupervisorLoads(p)
    BY <1>1, <1>t DEF SupervisorLoads, Work
<1>2. CASE \/ SupervisorGivesUp(p) \/ TunnelUp(p) \/ WriteReady(p) \/ TunnelDown(p)
           \/ SupervisorCrash(p) \/ OrphanExits(p) \/ OtherStarts(p) \/ OtherExits(p)
    BY <1>2, <1>t DEF SupervisorGivesUp, TunnelUp, WriteReady, TunnelDown, SupervisorCrash,
       OrphanExits, OtherStarts, OtherExits
<1>. QED BY <1>1, <1>2 DEF ProcessStep

LEMMA StepUsable ==
    ASSUME Exclusive, NoLateError,
           TypeInv, PinInv, FlowInv, UsableInv, [Next]_vars
    PROVE  UsableInv'
<1>t. /\ pc \in [Commands -> Labels] /\ stage \in [Commands -> Stages]
      /\ st \in [Commands -> SessionState \cup {None}]
      /\ child \in [Commands -> Pids \cup {None}]
      /\ userBlock \in [Targets -> Ports \cup {None}] /\ dataDir \in BOOLEAN
      /\ proc \in [Pids -> ProcStates] /\ work \in [Pids -> Work]
    BY DEF TypeInv, TypeOK
<1>n. None \notin SessionState /\ Torn \notin SessionState /\ None \notin Pids
        /\ None # Torn /\ None \notin Ports
    BY SentinelAssumption
<1>p. \A s \in SessionState : s.pid \in Pids \cup {None}
    BY DEF SessionState
<1>l. /\ "resave" \notin Faults /\ "block" \notin Faults
      /\ "data" \notin Faults /\ "launch" \notin Faults
      /\ \A c \in Commands : pc[c] # "remote"
    BY DEF NoLateError, LateFaults, TypeInv, LocalOK, ConnectLabels
<1>1. ASSUME NEW c \in Commands,
             \/ StartConnect(c) \/ StartDisconnect(c) \/ StartStatus(c)
             \/ LoadForStatus(c) \/ ReportStatus(c) \/ Crash(c)
      PROVE  UsableInv'
  <2>1. /\ UNCHANGED <<diskVars, procVars>> /\ OthersKept(c)
        /\ pc'[c] \in {"idle", "check", "load"} \cup StatusLabels
    BY <1>1, <1>t, StepIsLocal DEF CommandStep, UserStep, OtherStep, LoadForStatus,
       ReportStatus, StartConnect, StartDisconnect, StartStatus, Crash,
       Load, Goto, End, StatusLabels
  <2>. QED BY <2>1 DEF OthersKept, UsableInv, UsableAt, Usable, Matches, MyEndpoint, BeforePid,
              WithOwnPid, CleanupLabels, StatusLabels, diskVars, procVars
<1>2. ASSUME NEW c \in Commands, Busy(c), CommandStep(c)
      PROVE  UsableInv'
  <2>1. \A d \in Commands \ {c} : UsableAt(d)'
    BY <1>2, StepIsLocal DEF PinInv, Busy, OthersKept, UsableAt, BeforePid, WithOwnPid,
       CleanupLabels, StatusLabels
  <2>f. /\ FlowAt(c) /\ UsableAt(c)
        /\ sessionFile \in SessionState => Usable(sessionFile)
        /\ pc[c] \notin {"idle", "sload", "scheck"}
    BY <1>2 DEF FlowInv, UsableInv, Busy, StatusLabels
  <2>s. pc[c] \in HoldingLabels => st[c] \in SessionState
    BY DEF TypeInv, LocalOK
  <2>2. /\ UsableAt(c)'
        /\ sessionFile' \in SessionState => Usable(sessionFile)'
    <3>. USE <1>t, <1>n, <1>l, <1>p, <2>f DEF Goto, Enter, End, FailEarly, FailLate, FlowAt,
             UsableAt, BeforePid, WithOwnPid, SaveStages, CleanupStages, CleanupLabels
    <3>1. CASE CheckSession(c)
        BY <3>1 DEF CheckSession, Load, Usable, Matches, diskVars, procVars
    <3>2. CASE LoadForDisconnect(c)
        BY <3>2 DEF LoadForDisconnect, Load, Usable, Matches, diskVars, procVars
    <3>3. CASE CheckStale(c)
        BY <3>3 DEF CheckStale, IsStale, ProcessExists, Usable, Matches, diskVars, procVars
    <3>4. CASE AllocatePort(c)
        BY <3>4 DEF AllocatePort, diskVars, procVars
    <3>5. CASE WriteKnownHosts(c)
        BY <3>5 DEF WriteKnownHosts, MyEndpoint
    <3>6. CASE WriteSSHConfig(c)
        BY <3>6 DEF WriteSSHConfig, MyEndpoint, Matches
    <3>7. CASE SaveTruncate(c)
        BY <3>7 DEF SaveTruncate, SaveFails, SaveFault, Usable, Matches, sshVars, procVars
    <3>8. CASE SaveWrite(c)
      <4>1. /\ stage[c] = "prepared" => AfterSave(stage[c], job[c]) = "preflight"
            /\ stage[c] # "prepared" =>
                   AfterSave(stage[c], job[c]) \in {"block", "done", "remote", "data", "launch"}
        BY DEF AfterSave, AfterTunnel, AfterBlock, AfterRemote
      <4>. QED BY <3>8, <4>1 DEF SaveWrite, SaveFails, SaveFault, Usable, Matches, sshVars, procVars
    <3>9. CASE RunPreflight(c)
        BY <3>9 DEF RunPreflight, Usable, Matches, diskVars, procVars
    <3>10. CASE SpawnSupervisor(c)
        BY <3>10 DEF SpawnSupervisor, FreePids, Usable, Matches, diskVars, procVars
    <3>11. CASE WaitReady(c)
      <4>1. st[c] \in SessionState /\ child[c] \in Pids
        BY <3>11, <2>s DEF WaitReady, TypeInv, LocalOK, HoldingLabels
      <4>2. /\ WithPid(st[c], child[c]).block = st[c].block
            /\ WithPid(st[c], child[c]).data = st[c].data
            /\ WithPid(st[c], child[c]).target = st[c].target
            /\ WithPid(st[c], child[c]).port = st[c].port
            /\ WithPid(st[c], child[c]).pid = child[c]
        BY <4>1 DEF WithPid, SessionState
      <4>. QED BY <3>11, <4>2 DEF WaitReady, Usable, Matches, diskVars, procVars
    <3>12. CASE WaitExit(c) \/ WaitTimeout(c)
        BY <3>12 DEF WaitExit, WaitTimeout, Usable, diskVars
    <3>13. CASE UpsertBlock(c)
      <4>1. st[c] \in SessionState /\ st[c].target \in Targets
        BY <3>13, <2>s DEF UpsertBlock, HoldingLabels, SessionState
      <4>2. /\ WithBlock(st[c]).pid = st[c].pid /\ WithBlock(st[c]).data = st[c].data
            /\ WithBlock(st[c]).target = st[c].target /\ WithBlock(st[c]).port = st[c].port
        BY <4>1 DEF WithBlock, SessionState
      <4>. QED BY <3>13, <4>1, <4>2 DEF UpsertBlock, Usable, Matches, sshVars, procVars
    <3>14. CASE PrepareUserDataDir(c)
      <4>1. st[c] \in SessionState
        BY <3>14, <2>s DEF PrepareUserDataDir, HoldingLabels
      <4>2. /\ WithData(st[c]).pid = st[c].pid /\ WithData(st[c]).block = st[c].block
            /\ WithData(st[c]).target = st[c].target /\ WithData(st[c]).port = st[c].port
        BY <4>1 DEF WithData, SessionState
      <4>3. /\ pc[c] = "data" /\ sessionFile' = sessionFile /\ proc' = proc /\ work' = work
            /\ sshConfig' = sshConfig /\ knownHosts' = knownHosts /\ userBlock' = userBlock
            /\ pc'[c] = "save" /\ stage'[c] = "data" /\ st'[c] = WithData(st[c])
        BY <3>14 DEF PrepareUserDataDir, sshVars, procVars
      <4>4. dataDir'
        BY <3>14, <1>l DEF PrepareUserDataDir
      <4>5. Usable(st[c]) /\ sessionFile = st[c]
        BY <4>3
      <4>6. Usable(sessionFile)'
        BY <4>3, <4>4, <4>5 DEF Usable, Matches
      <4>7. Usable(st[c])'
        BY <4>2, <4>3, <4>4, <4>5 DEF Usable, Matches
      <4>. QED BY <4>3, <4>6, <4>7
    <3>15. CASE ConfigureRemote(c) \/ LaunchVSCode(c) \/ RespondPrepared(c)
        BY <3>15 DEF ConfigureRemote, AfterRemote, LaunchVSCode, RespondPrepared, Usable,
           Matches, diskVars, procVars
    <3>16. CASE RemoveManagedBlock(c) \/ RemoveSSHConfig(c) \/ RemoveKnownHosts(c)
                  \/ CleanupUserDataDir(c)
      <4>1. /\ pc[c] \in CleanupLabels /\ UNCHANGED <<proc, sessionFile>>
            /\ (pc'[c] \in CleanupLabels /\ stage'[c] = stage[c]) \/ pc'[c] = "idle"
        BY <3>16 DEF RemoveManagedBlock, RemoveSSHConfig, RemoveKnownHosts,
           CleanupUserDataDir, CleanupFails, procVars
      <4>. QED BY <4>1 DEF Usable
    <3>17. CASE ClearSession(c)
        BY <3>17 DEF ClearSession, Cleared, Usable, procVars
    <3>18. CASE KillRecorded(c)
        BY <3>18, TerminateStops DEF KillRecorded, Usable, diskVars
    <3>19. ~LoadForStatus(c) /\ ~ReportStatus(c)
        BY DEF LoadForStatus, ReportStatus
    <3>. QED BY <1>2, <3>1, <3>2, <3>3, <3>4, <3>5, <3>6, <3>7, <3>8, <3>9, <3>10, <3>11,
                <3>12, <3>13, <3>14, <3>15, <3>16, <3>17, <3>18, <3>19
             DEF CommandStep, ConnectStep, CleanupStep, OtherStep
  <2>. QED BY <2>1, <2>2 DEF UsableInv
<1>3. ASSUME NEW p \in Pids, ProcessStep(p)
      PROVE  UsableInv'
  <2>1. UNCHANGED <<cmdVars, sessionFile, sshConfig, knownHosts, userBlock, dataDir>>
    BY <1>3 DEF ProcessStep, SupervisorLoads, SupervisorGivesUp, TunnelUp, WriteReady,
       TunnelDown, SupervisorCrash, OrphanExits, OtherStarts, OtherExits, diskVars, sshVars
  <2>2. AliveShrinks
    BY <1>3, ProcessShrinks
  <2>3. ASSUME NEW s \in SessionState, Usable(s),
               sessionFile \in SessionState => sessionFile.port = s.port
        PROVE  s.pid # None /\ proc'[s.pid] \in Supervising =>
                   /\ Matches(s)
                   /\ proc'[s.pid] \in {"dial", "listen"} => work'[s.pid].port = s.port
    <3>. SUFFICES ASSUME s.pid # None, proc'[s.pid] \in Supervising
                  PROVE  /\ Matches(s)
                         /\ proc'[s.pid] \in {"dial", "listen"} => work'[s.pid].port = s.port
      OBVIOUS
    <3>1. s.pid \in Pids /\ proc[s.pid] \in Supervising
      BY <1>p, <2>2 DEF AliveShrinks
    <3>2. Matches(s) /\ (proc[s.pid] \in {"dial", "listen"} => work[s.pid].port = s.port)
      BY <2>3, <3>1 DEF Usable
    <3>3. proc'[s.pid] \in {"dial", "listen"} => work'[s.pid].port = s.port
      BY <1>3, <2>3, <3>1, <3>2, ProcessKeepsPort
    <3>. QED BY <3>2, <3>3
  <2>4. sessionFile' \in SessionState => Usable(sessionFile)'
    BY <2>1, <2>3 DEF UsableInv, Usable, Matches
  <2>5. ASSUME NEW c \in Commands PROVE UsableAt(c)'
    <3>1. UsableAt(c) /\ FlowAt(c)
      BY DEF UsableInv, FlowInv
    <3>2. WithOwnPid(c) => /\ st[c] \in SessionState
                           /\ sessionFile \in SessionState => sessionFile.port = st[c].port
      <4>1. WithOwnPid(c) => pc[c] \in HoldingLabels
        BY DEF WithOwnPid, HoldingLabels
      <4>. QED BY <3>1, <4>1, <1>n DEF FlowAt, WithOwnPid, OnDiskBefore, TypeInv, LocalOK
    <3>3. WithOwnPid(c)' => Usable(st[c])'
      BY <2>1, <2>3, <3>1, <3>2 DEF UsableAt, Usable, Matches, WithOwnPid, cmdVars
    <3>4. pc[c] = "wait" /\ proc'[child[c]] \in {"dial", "listen"} =>
              work'[child[c]].port = st[c].port
      BY <1>3, <3>1, ProcessKeepsPort DEF UsableAt, FlowAt, TypeInv, LocalOK
    <3>5. pc[c] \in CleanupLabels =>
              /\ stage[c] # "abort"
              /\ sessionFile \in SessionState /\ sessionFile.pid # None =>
                     proc'[sessionFile.pid] \notin Supervising
      BY <1>p, <2>2, <3>1 DEF UsableAt, AliveShrinks
    <3>6. /\ pc[c] = "config" => knownHosts = MyEndpoint(c)
          /\ BeforePid(c) /\ pc[c] \notin {"known", "config"} => Matches(st[c])
      BY <3>1 DEF UsableAt
    <3>. QED BY <2>1, <3>3, <3>4, <3>5, <3>6
             DEF UsableAt, MyEndpoint, BeforePid, Matches, cmdVars
  <2>. QED BY <2>4, <2>5 DEF UsableInv
<1>4. CASE UNCHANGED vars
    BY <1>4 DEF vars, cmdVars, diskVars, procVars, UsableInv, UsableAt, Usable, Matches,
       MyEndpoint, BeforePid, WithOwnPid
<1>. QED
    BY <1>1, <1>2, <1>3, <1>4, StepOfBusy DEF Next, UserStep

\* If connect and disconnect do not overlap and no late step of connect fails,
\* then between commands a recorded supervisor that runs kubectl has the OpenSSH
\* files, the managed block, the VS Code directory and the port of session.json,
\* wherever commands and supervisors were killed, whichever step of a cleanup
\* failed and however pids are reused.
THEOREM LiveTunnelUsable ==
    ASSUME Exclusive, NoLateError
    PROVE  Spec => []LiveSessionUsable
<1>1. Init => TypeInv /\ PinInv /\ FlowInv /\ UsableInv
    BY InitTyped, InitPinned, InitFlow, InitUsable
<1>2. TypeInv /\ PinInv /\ FlowInv /\ UsableInv /\ [Next]_vars
        => (TypeInv /\ PinInv /\ FlowInv /\ UsableInv)'
    BY StepTyped, StepPinned, StepFlow, StepUsable
<1>3. UsableInv => LiveSessionUsable
    BY SentinelAssumption DEF UsableInv, Usable, Matches, LiveSessionUsable, Supervising
<1>. QED BY <1>1, <1>2, <1>3, PTL DEF Spec
=============================================================================
