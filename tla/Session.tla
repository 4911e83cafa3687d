------------------------------- MODULE Session -------------------------------
(***************************************************************************)
(* The managed session of dev-connect: `connect', `disconnect' and         *)
(* `status' are separate processes that share one session directory        *)
(* (session.json, the temporary OpenSSH files, supervisor.ready), the      *)
(* user's OpenSSH config and the process table in which the detached       *)
(* tunnel supervisors run.  No lock is taken: session.AcquireLock is only  *)
(* called by tests.                                                        *)
(*                                                                         *)
(* One action is one system call, or one run of an external program, that  *)
(* another process can observe.  session.Store.Save is two actions,        *)
(* because os.WriteFile truncates the file before it writes it.            *)
(***************************************************************************)
EXTENDS Naturals, FiniteSets

CONSTANTS
    Commands,   \* slots in which the user runs dev-connect commands
    Targets,    \* configured targets
    Ports,      \* loopback ports the kernel hands out
    Pids,       \* process identifiers
    Requests,   \* connect invocations: target, flags and config switches
    Faults,     \* the external operations that may fail in this instance
    Crashes,    \* which processes may be killed: "cli", "supervisor"
    Exclusive,  \* TRUE: connect and disconnect never overlap
    PidReuse,   \* TRUE: the kernel hands a dead process's pid out again
    None,       \* an absent file, pid, target or port
    Torn        \* a session.json that does not parse

\* "save" is the Save of Prepare, "resave" one of the later three.
FaultKinds == {"alloc", "ssh", "save", "preflight", "start", "supervisor",
               "resave", "block", "remote", "data", "launch", "remove", "clear"}

RequestType == [target : Targets, manage : BOOLEAN, code : BOOLEAN,
                remote : BOOLEAN, isolated : BOOLEAN, reconnect : BOOLEAN,
                timeout : BOOLEAN]

\* session.State, reduced to the fields the commands act on.  block and data
\* say whether UserSSHConfigPath and VSCodeUserDataDir are set.
SessionState == [target : Targets, port : Ports, pid : Pids \cup {None},
                 block : BOOLEAN, data : BOOLEAN, reconnect : BOOLEAN]

\* The updates connect makes to its result.State.
WithPid(s, p) == [s EXCEPT !.pid = p]
WithBlock(s)  == [s EXCEPT !.block = TRUE]
WithData(s)   == [s EXCEPT !.data = TRUE]

\* What a pair of generated OpenSSH files is about.
Endpoint == [target : Targets, port : Ports]

\* What a supervisor works for: the target it was started for, the port it
\* read from session.json, whether it reconnects, and (history) whether
\* supervisor.ready was absent when it was started.
Work == [target : Targets \cup {None}, port : Ports \cup {None},
         reconnect : BOOLEAN, fresh : BOOLEAN]

ASSUME SentinelAssumption ==
    /\ None \notin Targets \cup Ports \cup Pids \cup SessionState
                   \cup Endpoint \cup Requests
    /\ Torn \notin SessionState \cup {None}

ASSUME InstanceAssumption ==
    /\ Requests \subseteq RequestType
    /\ Faults \subseteq FaultKinds
    /\ Crashes \subseteq {"cli", "supervisor"}
    /\ Exclusive \in BOOLEAN
    /\ PidReuse \in BOOLEAN

VARIABLES
    pc,          \* where each command is
    stage,       \* which Save, or on whose behalf a cleanup, it runs
    job,         \* the connect request it serves
    st,          \* its local session.State
    child,       \* the supervisor it waits for
    out,         \* how the last command in this slot ended
    sessionFile, \* session.json
    knownHosts,  \* ssh/known_hosts
    sshConfig,   \* ssh/ssh_config
    userBlock,   \* the managed block of each target in the user's config
    dataDir,     \* the vscode-user-data directory exists
    readyFile,   \* supervisor.ready exists
    proc,        \* the process table
    work,        \* what each supervisor works for
    told         \* the supervisor has written supervisor.ready

cmdVars  == <<pc, stage, job, st, child, out>>
sshVars  == <<knownHosts, sshConfig>>
diskVars == <<sessionFile, knownHosts, sshConfig, userBlock, dataDir, readyFile>>
procVars == <<proc, work, told>>
vars     == <<cmdVars, diskVars, procVars>>

ConnectLabels == {"check", "stale", "alloc", "known", "config", "save", "write",
                  "preflight", "spawn", "wait", "block", "remote", "data",
                  "launch", "done"}
CleanupLabels == {"rmblock", "rmconfig", "rmknown", "rmdata", "clear"}
StatusLabels  == {"sload", "scheck"}
Labels == {"idle", "load", "kill"} \cup ConnectLabels \cup CleanupLabels
              \cup StatusLabels

SaveStages    == {"prepared", "tunnel", "block", "data"}
CleanupStages == {"stale", "disconnect", "failed", "abort"}
Stages  == {"none"} \cup SaveStages \cup CleanupStages
Replies == {"none", "prepared", "locked", "disconnected", "connected", "stale",
            "error", "crashed"}

\* A pid that was never handed out; a supervisor that is starting, is running
\* kubectl without a tunnel, or has a tunnel; a kubectl that outlived its
\* killed supervisor; an exited process; a process that is not dev-connect's;
\* one such process killed by a dev-connect command.
ProcStates == {"unused", "boot", "dial", "listen", "orphan", "dead", "other",
               "killed"}
Supervising == {"boot", "dial", "listen"}

TypeOK ==
    /\ pc \in [Commands -> Labels]
    /\ stage \in [Commands -> Stages]
    /\ job \in [Commands -> Requests \cup {None}]
    /\ st \in [Commands -> SessionState \cup {None}]
    /\ child \in [Commands -> Pids \cup {None}]
    /\ out \in [Commands -> Replies]
    /\ sessionFile \in SessionState \cup {None, Torn}
    /\ knownHosts \in Endpoint \cup {None}
    /\ sshConfig \in Endpoint \cup {None}
    /\ userBlock \in [Targets -> Ports \cup {None}]
    /\ dataDir \in BOOLEAN
    /\ readyFile \in BOOLEAN
    /\ proc \in [Pids -> ProcStates]
    /\ work \in [Pids -> Work]
    /\ told \in [Pids -> BOOLEAN]

NoWork == [target |-> None, port |-> None, reconnect |-> FALSE, fresh |-> FALSE]

Init ==
    /\ pc = [c \in Commands |-> "idle"]
    /\ stage = [c \in Commands |-> "none"]
    /\ job = [c \in Commands |-> None]
    /\ st = [c \in Commands |-> None]
    /\ child = [c \in Commands |-> None]
    /\ out = [c \in Commands |-> "none"]
    /\ sessionFile = None
    /\ knownHosts = None
    /\ sshConfig = None
    /\ userBlock = [t \in Targets |-> None]
    /\ dataDir = FALSE
    /\ readyFile = FALSE
    /\ proc = [p \in Pids |-> "unused"]
    /\ work = [p \in Pids |-> NoWork]
    /\ told = [p \in Pids |-> FALSE]

-----------------------------------------------------------------------------
(* Processes. *)

ProcessExists(p) == proc[p] \in Supervising \cup {"other"}

\* Mutant: every recorded process counts as gone.
IsStaleWithoutProbe(s) == s.pid # None

\* session.State.IsStale: a state without a pid is never stale.
IsStale(s) == s.pid # None /\ ~ProcessExists(s.pid)

\* terminateProcess signals the process group, so the kubectl of a supervisor
\* dies with it, even when the supervisor itself is already gone.
AfterKill(state) ==
    CASE state \in Supervising \cup {"orphan"} -> "dead"
      [] state = "other" -> "killed"
      [] OTHER -> state

TerminateProcess(p) ==
    proc' = IF p = None THEN proc ELSE [proc EXCEPT ![p] = AfterKill(@)]

PortHolders(port) == {p \in Pids : proc[p] \in {"listen", "orphan"}
                                      /\ work[p].port = port}
FreePorts == {port \in Ports : PortHolders(port) = {}}

\* Pids the kernel can give to a new process.  A pid whose exit status some
\* command still has to collect is not among them.
FreePids == {p \in Pids : /\ \/ proc[p] = "unused"
                             \/ PidReuse /\ proc[p] = "dead"
                          /\ \A c \in Commands : child[c] # p}

-----------------------------------------------------------------------------
(* Control of a command. *)

Goto(c, label) == pc' = [pc EXCEPT ![c] = label]

\* The command returns: its process, and with it all local state, is gone.
End(c, reply) ==
    /\ pc' = [pc EXCEPT ![c] = "idle"]
    /\ stage' = [stage EXCEPT ![c] = "none"]
    /\ job' = [job EXCEPT ![c] = None]
    /\ st' = [st EXCEPT ![c] = None]
    /\ child' = [child EXCEPT ![c] = None]
    /\ out' = [out EXCEPT ![c] = reply]

\* Run a Save, or a cleanup, and remember what it is for.
Enter(c, label, why) ==
    /\ pc' = [pc EXCEPT ![c] = label]
    /\ stage' = [stage EXCEPT ![c] = why]

\* Mutant: a late error removes only the temporary OpenSSH files.
FailLateAsEarly(c) == Enter(c, "rmconfig", "failed")

\* connect's early error paths call sshconfig.Cleanup and Clear; the late ones
\* cleanupSessionArtifacts and Clear.
FailEarly(c) == Enter(c, "rmconfig", "failed")
FailLate(c)  == Enter(c, "rmblock", "abort")

\* With Exclusive, the user runs one connect or disconnect at a time.
MayStart(c) ==
    /\ pc[c] = "idle"
    /\ Exclusive => \A d \in Commands : pc[d] \in {"idle"} \cup StatusLabels

StartConnect(c) ==
    /\ MayStart(c)
    /\ \E r \in Requests : job' = [job EXCEPT ![c] = r]
    /\ Goto(c, "check")
    /\ out' = [out EXCEPT ![c] = "none"]
    /\ UNCHANGED <<stage, st, child, diskVars, procVars>>

StartDisconnect(c) ==
    /\ MayStart(c)
    /\ Goto(c, "load")
    /\ out' = [out EXCEPT ![c] = "none"]
    /\ UNCHANGED <<stage, job, st, child, diskVars, procVars>>

StartStatus(c) ==
    /\ pc[c] = "idle"
    /\ Goto(c, "sload")
    /\ out' = [out EXCEPT ![c] = "none"]
    /\ UNCHANGED <<stage, job, st, child, diskVars, procVars>>

\* Mutant: a session.json that does not parse is used as it is.
LoadUnparsed(c, absent, present) ==
    \/ sessionFile = None /\ absent
    \/ /\ sessionFile # None
       /\ st' = [st EXCEPT ![c] = sessionFile]
       /\ Goto(c, present)
       /\ UNCHANGED <<stage, job, child, out>>

\* session.Store.Load: ErrNotFound goes to absent, a parse error ends the
\* command, otherwise the state is kept.
Load(c, absent, present) ==
    \/ /\ sessionFile = None
       /\ absent
    \/ /\ sessionFile = Torn
       /\ End(c, "error")
    \/ /\ sessionFile \in SessionState
       /\ st' = [st EXCEPT ![c] = sessionFile]
       /\ Goto(c, present)
       /\ UNCHANGED <<stage, job, child, out>>

-----------------------------------------------------------------------------
(* connect: ensureNoActiveSession and connect.Prepare. *)

CheckSession(c) ==
    /\ pc[c] = "check"
    /\ Load(c, Goto(c, "alloc") /\ UNCHANGED <<stage, job, st, child, out>>, "stale")
    /\ UNCHANGED <<diskVars, procVars>>

CheckStale(c) ==
    /\ pc[c] = "stale"
    /\ IF IsStale(st[c])
         THEN Enter(c, "rmblock", "stale") /\ UNCHANGED <<job, st, child, out>>
         ELSE End(c, "locked")
    /\ UNCHANGED <<diskVars, procVars>>

\* Everything Prepare does before it writes a file: the target, the gateway
\* and the host key are looked up and a port is drawn.
AllocatePort(c) ==
    /\ pc[c] = "alloc"
    /\ \/ /\ "alloc" \in Faults \/ FreePorts = {}
          /\ End(c, "error")
       \/ \E port \in FreePorts :
             /\ st' = [st EXCEPT ![c] =
                          [target |-> job[c].target, port |-> port, pid |-> None,
                           block |-> FALSE, data |-> FALSE,
                           reconnect |-> job[c].reconnect]]
             /\ Goto(c, "known")
             /\ UNCHANGED <<stage, job, child, out>>
    /\ UNCHANGED <<diskVars, procVars>>

MyEndpoint(c) == [target |-> st[c].target, port |-> st[c].port]

\* WriteSessionFiles writes known_hosts first.  A failed write, or a chmod that
\* fails after it, returns from Prepare without removing anything.
WriteKnownHosts(c) ==
    /\ pc[c] = "known"
    /\ \/ /\ knownHosts' = MyEndpoint(c)
          /\ Goto(c, "config")
          /\ UNCHANGED <<stage, job, st, child, out>>
       \/ /\ "ssh" \in Faults
          /\ knownHosts' \in {knownHosts, MyEndpoint(c)}
          /\ End(c, "error")
    /\ UNCHANGED <<sessionFile, sshConfig, userBlock, dataDir, readyFile, procVars>>

WriteSSHConfig(c) ==
    /\ pc[c] = "config"
    /\ \/ /\ sshConfig' = MyEndpoint(c)
          /\ Enter(c, "save", "prepared")
          /\ UNCHANGED <<job, st, child, out>>
       \/ /\ "ssh" \in Faults
          /\ sshConfig' \in {sshConfig, MyEndpoint(c)}
          /\ End(c, "error")
    /\ UNCHANGED <<sessionFile, knownHosts, userBlock, dataDir, readyFile, procVars>>

-----------------------------------------------------------------------------
(* session.Store.Save, called from four places of connect. *)

AfterRemote(r) == IF r.isolated THEN "data" ELSE "launch"
AfterBlock(r)  == IF ~r.code THEN "done"
                  ELSE IF r.remote THEN "remote" ELSE AfterRemote(r)
AfterTunnel(r) == IF r.manage THEN "block" ELSE AfterBlock(r)

AfterSave(why, r) ==
    CASE why = "prepared" -> "preflight"
      [] why = "tunnel"   -> AfterTunnel(r)
      [] why = "block"    -> AfterBlock(r)
      [] OTHER            -> "launch"

\* Prepare returns the error with its files left in place; the save of the
\* pid cleans up as the early errors do, the later ones as the late errors do.
SaveFails(c) ==
    CASE stage[c] = "prepared" -> End(c, "error")
      [] stage[c] = "tunnel" ->
             FailEarly(c) /\ UNCHANGED <<job, st, child, out>>
      [] OTHER -> FailLate(c) /\ UNCHANGED <<job, st, child, out>>

SaveFault(c) == IF stage[c] = "prepared" THEN "save" ELSE "resave"

\* os.WriteFile opens with O_TRUNC; before it MkdirAll may fail.
SaveTruncate(c) ==
    /\ pc[c] = "save"
    /\ \/ /\ sessionFile' = Torn
          /\ Goto(c, "write")
          /\ UNCHANGED <<stage, job, st, child, out>>
       \/ /\ SaveFault(c) \in Faults
          /\ SaveFails(c)
          /\ UNCHANGED sessionFile
    /\ UNCHANGED <<sshVars, userBlock, dataDir, readyFile, procVars>>

\* The write, and the chmod after it.
SaveWrite(c) ==
    /\ pc[c] = "write"
    /\ \/ /\ sessionFile' = st[c]
          /\ Enter(c, AfterSave(stage[c], job[c]), "none")
          /\ UNCHANGED <<job, st, child, out>>
       \/ /\ SaveFault(c) \in Faults
          /\ sessionFile' \in {sessionFile, st[c]}
          /\ SaveFails(c)
    /\ UNCHANGED <<sshVars, userBlock, dataDir, readyFile, procVars>>

-----------------------------------------------------------------------------
(* connect: preflight and the tunnel supervisor. *)

RunPreflight(c) ==
    /\ pc[c] = "preflight"
    /\ \/ Goto(c, "spawn") /\ UNCHANGED stage
       \/ "preflight" \in Faults /\ FailEarly(c)
    /\ UNCHANGED <<job, st, child, out, diskVars, procVars>>

\* startTunnelSupervisor up to cmd.Start.  supervisor.ready is not removed.
SpawnSupervisor(c) ==
    /\ pc[c] = "spawn"
    /\ \/ \E p \in FreePids :
             /\ proc' = [proc EXCEPT ![p] = "boot"]
             /\ work' = [work EXCEPT ![p] =
                            [target |-> job[c].target, port |-> None,
                             reconnect |-> job[c].reconnect, fresh |-> ~readyFile]]
             /\ told' = [told EXCEPT ![p] = FALSE]
             /\ child' = [child EXCEPT ![c] = p]
             /\ Goto(c, "wait")
             /\ UNCHANGED stage
       \/ /\ "start" \in Faults \/ FreePids = {}
          /\ FailEarly(c)
          /\ UNCHANGED <<child, procVars>>
    /\ UNCHANGED <<job, st, out, diskVars>>

\* Mutant: the supervisor counts as ready at the first tick.
WaitReadyUnchecked(c) ==
    /\ pc[c] = "wait"
    /\ st' = [st EXCEPT ![c] = WithPid(@, child[c])]
    /\ child' = [child EXCEPT ![c] = None]
    /\ Enter(c, "save", "tunnel")
    /\ UNCHANGED <<job, out, diskVars, procVars>>

\* Mutant: the pid is not saved.
WaitReadyUnsaved(c) ==
    /\ pc[c] = "wait"
    /\ readyFile
    /\ st' = [st EXCEPT ![c] = WithPid(@, child[c])]
    /\ child' = [child EXCEPT ![c] = None]
    /\ Goto(c, AfterTunnel(job[c]))
    /\ UNCHANGED <<stage, job, out, diskVars, procVars>>

\* The ticker finds supervisor.ready; the pid goes into the state.
WaitReady(c) ==
    /\ pc[c] = "wait"
    /\ readyFile
    /\ st' = [st EXCEPT ![c] = WithPid(@, child[c])]
    /\ child' = [child EXCEPT ![c] = None]
    /\ Enter(c, "save", "tunnel")
    /\ UNCHANGED <<job, out, diskVars, procVars>>

\* cmd.Wait returned before the ticker saw the file.
WaitExit(c) ==
    /\ pc[c] = "wait"
    /\ proc[child[c]] \in {"orphan", "dead"}
    /\ child' = [child EXCEPT ![c] = None]
    /\ FailEarly(c)
    /\ UNCHANGED <<job, st, out, diskVars, procVars>>

\* Mutant: a timeout leaves the supervisor running.
WaitTimeoutWithoutKill(c) ==
    /\ pc[c] = "wait"
    /\ job[c].timeout
    /\ child' = [child EXCEPT ![c] = None]
    /\ FailEarly(c)
    /\ UNCHANGED <<job, st, out, diskVars, procVars>>

\* Mutant: the timeout is not applied to a tunnel that reconnects.
WaitTimeoutIfFinal(c) ==
    /\ pc[c] = "wait"
    /\ job[c].timeout /\ ~job[c].reconnect
    /\ TerminateProcess(child[c])
    /\ child' = [child EXCEPT ![c] = None]
    /\ FailEarly(c)
    /\ UNCHANGED <<job, st, out, diskVars, work, told>>

\* --timeout, when positive, bounds the wait; the supervisor is killed.
WaitTimeout(c) ==
    /\ pc[c] = "wait"
    /\ job[c].timeout
    /\ TerminateProcess(child[c])
    /\ child' = [child EXCEPT ![c] = None]
    /\ FailEarly(c)
    /\ UNCHANGED <<job, st, out, diskVars, work, told>>

-----------------------------------------------------------------------------
(* connect: the user's OpenSSH config and VS Code. *)

UpsertBlock(c) ==
    /\ pc[c] = "block"
    /\ \/ /\ userBlock' = [userBlock EXCEPT ![st[c].target] = st[c].port]
          /\ st' = [st EXCEPT ![c] = WithBlock(@)]
          /\ Enter(c, "save", "block")
       \/ /\ "block" \in Faults
          /\ userBlock' \in {userBlock,
                             [userBlock EXCEPT ![st[c].target] = st[c].port]}
          /\ FailLate(c)
          /\ UNCHANGED st
    /\ UNCHANGED <<job, child, out, sessionFile, sshVars, dataDir, readyFile, procVars>>

\* vscode.ConfigureRemote runs ssh through the local port of the session: it is
\* refused when no kubectl listens there, and may fail for other reasons.
ConfigureRemote(c) ==
    /\ pc[c] = "remote"
    /\ \/ /\ PortHolders(st[c].port) # {}
          /\ Goto(c, AfterRemote(job[c]))
          /\ UNCHANGED stage
       \/ /\ "remote" \in Faults \/ PortHolders(st[c].port) = {}
          /\ FailLate(c)
    /\ UNCHANGED <<job, st, child, out, diskVars, procVars>>

PrepareUserDataDir(c) ==
    /\ pc[c] = "data"
    /\ \/ /\ dataDir' = TRUE
          /\ st' = [st EXCEPT ![c] = WithData(@)]
          /\ Enter(c, "save", "data")
       \/ /\ "data" \in Faults
          /\ dataDir' \in {dataDir, TRUE}
          /\ FailLate(c)
          /\ UNCHANGED st
    /\ UNCHANGED <<job, child, out, sessionFile, sshVars, userBlock, readyFile, procVars>>

LaunchVSCode(c) ==
    /\ pc[c] = "launch"
    /\ \/ Goto(c, "done") /\ UNCHANGED stage
       \/ "launch" \in Faults /\ FailLate(c)
    /\ UNCHANGED <<job, st, child, out, diskVars, procVars>>

RespondPrepared(c) ==
    /\ pc[c] = "done"
    /\ End(c, "prepared")
    /\ UNCHANGED <<diskVars, procVars>>

-----------------------------------------------------------------------------
(* Cleanup: sshconfig.RemoveManagedBlock, sshconfig.Cleanup,               *)
(* vscode.CleanupUserDataDir and session.Store.Clear, in this order.       *)

\* A removal fails.  disconnect and the stale check return the error; connect's
\* own error paths ignore it, skip the rest of the cleanup and clear.
CleanupFails(c) ==
    IF stage[c] \in {"stale", "disconnect"}
      THEN End(c, "error")
      ELSE Goto(c, "clear") /\ UNCHANGED <<stage, job, st, child, out>>

RemoveManagedBlock(c) ==
    /\ pc[c] = "rmblock"
    /\ \/ /\ userBlock' = IF st[c].block
                            THEN [userBlock EXCEPT ![st[c].target] = None]
                            ELSE userBlock
          /\ Goto(c, "rmconfig")
          /\ UNCHANGED <<stage, job, st, child, out>>
       \/ /\ "remove" \in Faults
          /\ st[c].block
          /\ userBlock' \in {userBlock, [userBlock EXCEPT ![st[c].target] = None]}
          /\ CleanupFails(c)
    /\ UNCHANGED <<sessionFile, sshVars, dataDir, readyFile, procVars>>

\* Mutant: Cleanup goes on with known_hosts when ssh_config cannot be removed.
RemoveSSHConfigAndGoOn(c) ==
    /\ pc[c] = "rmconfig"
    /\ \/ sshConfig' = None
       \/ "remove" \in Faults /\ UNCHANGED sshConfig
    /\ Goto(c, "rmknown")
    /\ UNCHANGED <<stage, job, st, child, out, sessionFile, knownHosts, userBlock,
                   dataDir, readyFile, procVars>>

RemoveSSHConfig(c) ==
    /\ pc[c] = "rmconfig"
    /\ \/ /\ sshConfig' = None
          /\ Goto(c, "rmknown")
          /\ UNCHANGED <<stage, job, st, child, out>>
       \/ /\ "remove" \in Faults
          /\ CleanupFails(c)
          /\ UNCHANGED sshConfig
    /\ UNCHANGED <<sessionFile, knownHosts, userBlock, dataDir, readyFile, procVars>>

\* The early error paths do not touch the VS Code directory.
RemoveKnownHosts(c) ==
    /\ pc[c] = "rmknown"
    /\ \/ /\ knownHosts' = None
          /\ Goto(c, IF stage[c] = "failed" THEN "clear" ELSE "rmdata")
          /\ UNCHANGED <<stage, job, st, child, out>>
       \/ /\ "remove" \in Faults
          /\ CleanupFails(c)
          /\ UNCHANGED knownHosts
    /\ UNCHANGED <<sessionFile, sshConfig, userBlock, dataDir, readyFile, procVars>>

CleanupUserDataDir(c) ==
    /\ pc[c] = "rmdata"
    /\ \/ /\ dataDir' = (dataDir /\ ~st[c].data)
          /\ Goto(c, "clear")
          /\ UNCHANGED <<stage, job, st, child, out>>
       \/ /\ "remove" \in Faults
          /\ st[c].data
          /\ CleanupFails(c)
          /\ UNCHANGED dataDir
    /\ UNCHANGED <<sessionFile, sshVars, userBlock, readyFile, procVars>>

\* After Clear a stale check goes on with Prepare; the others are done.
Cleared(c) ==
    CASE stage[c] = "stale" -> Enter(c, "alloc", "none") /\ UNCHANGED <<job, st, child, out>>
      [] stage[c] = "disconnect" -> End(c, "disconnected")
      [] OTHER -> End(c, "error")

ClearSession(c) ==
    /\ pc[c] = "clear"
    /\ \/ sessionFile' = None /\ Cleared(c)
       \/ "clear" \in Faults /\ End(c, "error") /\ UNCHANGED sessionFile
    /\ UNCHANGED <<sshVars, userBlock, dataDir, readyFile, procVars>>

-----------------------------------------------------------------------------
(* disconnect and status. *)

LoadForDisconnect(c) ==
    /\ pc[c] = "load"
    /\ Load(c, Enter(c, "clear", "disconnect") /\ UNCHANGED <<job, st, child, out>>,
            "kill")
    /\ UNCHANGED <<diskVars, procVars>>

\* Mutant: disconnect does not stop the recorded process.
KillRecordedSkipped(c) ==
    /\ pc[c] = "kill"
    /\ Enter(c, "rmblock", "disconnect")
    /\ UNCHANGED <<job, st, child, out, diskVars, procVars>>

\* The result of TerminateProcess is ignored.
KillRecorded(c) ==
    /\ pc[c] = "kill"
    /\ TerminateProcess(st[c].pid)
    /\ Enter(c, "rmblock", "disconnect")
    /\ UNCHANGED <<job, st, child, out, diskVars, work, told>>

LoadForStatus(c) ==
    /\ pc[c] = "sload"
    /\ Load(c, End(c, "disconnected"), "scheck")
    /\ UNCHANGED <<diskVars, procVars>>

ReportStatus(c) ==
    /\ pc[c] = "scheck"
    /\ End(c, IF IsStale(st[c]) THEN "stale" ELSE "connected")
    /\ UNCHANGED <<diskVars, procVars>>

-----------------------------------------------------------------------------
(* The tunnel supervisor (its inner loop is module TunnelSupervisor). *)

\* runTunnelSupervisor reads session.json once, at start.
SupervisorLoads(p) ==
    /\ proc[p] = "boot"
    /\ sessionFile \in SessionState
    /\ sessionFile.target = work[p].target
    /\ proc' = [proc EXCEPT ![p] = "dial"]
    /\ work' = [work EXCEPT ![p].port = sessionFile.port,
                            ![p].reconnect = @ /\ sessionFile.reconnect]
    /\ UNCHANGED <<cmdVars, diskVars, told>>

\* session.json is missing, torn or about another target, or the config or
\* kubectl cannot be used.
SupervisorGivesUp(p) ==
    /\ proc[p] = "boot"
    /\ \/ sessionFile \notin SessionState
       \/ sessionFile \in SessionState /\ sessionFile.target # work[p].target
       \/ "supervisor" \in Faults
    /\ proc' = [proc EXCEPT ![p] = "dead"]
    /\ UNCHANGED <<cmdVars, diskVars, work, told>>

TunnelUp(p) ==
    /\ proc[p] = "dial"
    /\ PortHolders(work[p].port) = {}
    /\ proc' = [proc EXCEPT ![p] = "listen"]
    /\ UNCHANGED <<cmdVars, diskVars, work, told>>

WriteReady(p) ==
    /\ proc[p] = "listen"
    /\ readyFile' = TRUE
    /\ told' = [told EXCEPT ![p] = TRUE]
    /\ UNCHANGED <<cmdVars, sessionFile, sshVars, userBlock, dataDir, proc, work>>

\* kubectl exits, with or without having had a tunnel.
TunnelDown(p) ==
    /\ proc[p] \in {"dial", "listen"}
    /\ proc' = [proc EXCEPT ![p] = IF work[p].reconnect THEN "dial" ELSE "dead"]
    /\ UNCHANGED <<cmdVars, diskVars, work, told>>

-----------------------------------------------------------------------------
(* The environment. *)

\* The supervisor alone is killed: its kubectl runs on.
SupervisorCrash(p) ==
    /\ "supervisor" \in Crashes
    /\ proc[p] \in Supervising
    /\ proc' = [proc EXCEPT ![p] = IF @ = "boot" THEN "dead" ELSE "orphan"]
    /\ UNCHANGED <<cmdVars, diskVars, work, told>>

OrphanExits(p) ==
    /\ proc[p] = "orphan"
    /\ proc' = [proc EXCEPT ![p] = "dead"]
    /\ UNCHANGED <<cmdVars, diskVars, work, told>>

OtherStarts(p) ==
    /\ PidReuse
    /\ p \in FreePids
    /\ proc' = [proc EXCEPT ![p] = "other"]
    /\ UNCHANGED <<cmdVars, diskVars, work, told>>

OtherExits(p) ==
    /\ proc[p] = "other"
    /\ proc' = [proc EXCEPT ![p] = "dead"]
    /\ UNCHANGED <<cmdVars, diskVars, work, told>>

\* Ctrl-C or a kill between two steps of a command; no signal is handled.
Crash(c) ==
    /\ "cli" \in Crashes
    /\ pc[c] # "idle"
    /\ End(c, "crashed")
    /\ UNCHANGED <<diskVars, procVars>>

-----------------------------------------------------------------------------
ConnectStep(c) ==
    \/ CheckSession(c) \/ CheckStale(c) \/ AllocatePort(c)
    \/ WriteKnownHosts(c) \/ WriteSSHConfig(c)
    \/ SaveTruncate(c) \/ SaveWrite(c)
    \/ RunPreflight(c) \/ SpawnSupervisor(c)
    \/ WaitReady(c) \/ WaitExit(c) \/ WaitTimeout(c)
    \/ UpsertBlock(c) \/ ConfigureRemote(c) \/ PrepareUserDataDir(c)
    \/ LaunchVSCode(c) \/ RespondPrepared(c)

CleanupStep(c) ==
    \/ RemoveManagedBlock(c) \/ RemoveSSHConfig(c) \/ RemoveKnownHosts(c)
    \/ CleanupUserDataDir(c) \/ ClearSession(c)

OtherStep(c) == LoadForDisconnect(c) \/ KillRecorded(c)
                   \/ LoadForStatus(c) \/ ReportStatus(c)

CommandStep(c) == ConnectStep(c) \/ CleanupStep(c) \/ OtherStep(c)

UserStep(c) == StartConnect(c) \/ StartDisconnect(c) \/ StartStatus(c) \/ Crash(c)

ProcessStep(p) ==
    \/ SupervisorLoads(p) \/ SupervisorGivesUp(p) \/ TunnelUp(p)
    \/ WriteReady(p) \/ TunnelDown(p)
    \/ SupervisorCrash(p) \/ OrphanExits(p) \/ OtherStarts(p) \/ OtherExits(p)

Next ==
    \/ \E c \in Commands : CommandStep(c) \/ UserStep(c)
    \/ \E p \in Pids : ProcessStep(p)

Spec == Init /\ [][Next]_vars

\* A started command is scheduled until it returns, and the programs it runs to
\* completion return: kubectl in the preflight, which is under --timeout (module
\* Preflight), ssh and code.  Nothing is assumed of the user, the network or the
\* supervisors.
Fairness == \A c \in Commands : WF_vars(CommandStep(c))

FairSpec == Spec /\ Fairness

-----------------------------------------------------------------------------
(* What the commands promise. *)

\* No connect or disconnect is in progress.
Quiet == \A c \in Commands : pc[c] \in {"idle"} \cup StatusLabels

Recorded(p) == sessionFile \in SessionState /\ sessionFile.pid = p

\* Whenever no connect or disconnect is running, every supervisor that is alive
\* is the one session.json records, so `disconnect' can stop it: no path through
\* connect's wait, its timeout or its error returns forgets a process.
NoOrphanTunnel ==
    Quiet => \A p \in Pids : proc[p] \in Supervising => Recorded(p)

\* At no time, in the middle of a command or not, are two supervisors alive.
\* ensureNoActiveSession and disconnect's kill are what ensures it.
AtMostOneTunnel ==
    \A p, q \in Pids :
        proc[p] \in Supervising /\ proc[q] \in Supervising => p = q

\* The lease of the tunnel: connect's supervisor is pending from its start until
\* the Save of its pid, and a session.json that is being rewritten counts as what
\* is being written.
Pending ==
    LET waited == {c \in Commands : child[c] # None}
        saving == {c \in Commands : pc[c] = "save" /\ stage[c] = "tunnel"}
    IN  IF waited # {} THEN child[CHOOSE c \in waited : TRUE]
        ELSE IF saving # {} THEN st[CHOOSE c \in saving : TRUE].pid ELSE None

OnDisk ==
    LET writing == {c \in Commands : pc[c] = "write"}
    IN  IF sessionFile = Torn /\ writing # {} THEN st[CHOOSE c \in writing : TRUE]
        ELSE sessionFile

Lease == INSTANCE TunnelLease WITH
             Holders <- Pids,
             live    <- {p \in Pids : proc[p] \in Supervising},
             pending <- Pending,
             record  <- IF OnDisk \in SessionState THEN OnDisk.pid ELSE None

\* The commands implement the lease: no command starts a supervisor while one is
\* alive, pending or recorded, none loses track of one it has started, and
\* session.json stops naming a supervisor only after that is gone, whatever the
\* order in which supervisors die, waits time out and pids are used again.
HoldsLease == Lease!LeaseSpec

\* Between commands session.json is absent, or records a pid: the next connect
\* can tell whether the session is stale and is refused only by a process.
SessionReclaimable ==
    Quiet => \/ sessionFile = None
             \/ sessionFile \in SessionState /\ sessionFile.pid # None

\* If supervisor.ready was absent when connect started its supervisor, then
\* connect gets past startTunnelSupervisor only after this very supervisor has
\* reported its tunnel.
ReadyIsOwn ==
    \A c \in Commands :
        pc[c] \in {"save", "write", "block", "remote", "data", "launch", "done"}
            /\ st[c].pid # None /\ work[st[c].pid].fresh => told[st[c].pid]

\* Functional specification, section 6.2: connect waits until the tunnel is
\* established before it launches VS Code.  connect only looks for
\* supervisor.ready, which an earlier session has left in the session directory;
\* without a remote set-up nothing else of connect needs the tunnel.
TunnelBeforeCode ==
    \A c \in Commands : pc[c] = "launch" => told[st[c].pid]

\* Between commands, when there is no session.json there is also no generated
\* OpenSSH file, no managed block and no VS Code directory: connect's error
\* paths and disconnect take back all that connect had made.
NothingLeftBehind ==
    Quiet /\ sessionFile = None =>
        /\ sshConfig = None /\ knownHosts = None /\ ~dataDir
        /\ \A t \in Targets : userBlock[t] = None

\* Between commands, a session whose supervisor runs kubectl is usable: the
\* OpenSSH files, the managed block and the supervisor agree with session.json
\* on target and port.  No crash of a command and no failed step of a cleanup
\* leaves a live tunnel with files missing or of another session.
LiveSessionUsable ==
    Quiet /\ sessionFile \in SessionState =>
        \A p \in Pids : sessionFile.pid = p /\ proc[p] \in {"dial", "listen"} =>
            /\ sshConfig = [target |-> sessionFile.target, port |-> sessionFile.port]
            /\ knownHosts = sshConfig
            /\ work[p].port = sessionFile.port
            /\ sessionFile.block => userBlock[sessionFile.target] = sessionFile.port
            /\ sessionFile.data => dataDir

\* As long as commands do not overlap, in every intermediate state, after any
\* crash and any failed step, an ssh_config on disk has a known_hosts file beside
\* it, so that OpenSSH never runs without the pinned host key: WriteSessionFiles
\* writes known_hosts first and Cleanup removes it last.
ConfigNeverUnpinned == sshConfig # None => knownHosts # None

\* Even with overlapping commands, a pid in session.json is that of a supervisor
\* started for the target session.json names.
RecordedPidServesTarget ==
    \A p \in Pids : Recorded(p) => work[p].target = sessionFile.target

\* A command that was started returns, also when kubectl never reports a tunnel.
CommandsEnd == \A c \in Commands : pc[c] # "idle" ~> pc[c] = "idle"
=============================================================================
