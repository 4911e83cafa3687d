# dev-connect in TLA+

`dev-connect` opens a VS Code Remote SSH session to a target behind a Kubernetes
gateway.  It allocates a loopback port, writes temporary OpenSSH files, starts a
detached supervisor that keeps `kubectl port-forward` running, optionally adds a
block to the user's OpenSSH config, and launches VS Code.  Later commands find
the session again through files in a session directory.

This directory holds TLA+ models of that code, TLC configurations that check
them on small instances, and TLAPS proofs of the results that hold for every
instance.  `PROJECT.json` lists the components, runs, mutants, the map from
definitions to source lines, the disagreements found between documents and code,
and the hazards the properties are aimed at.

## 1. Inventory

| Component | State | Operations | Hard behaviours | What makes it correct |
|---|---|---|---|---|
| `connect`, `disconnect`, `status` (`cmd/dev-connect/main.go`, `internal/connect`) | program counter, the local `session.State` | a sequence of about fifteen file and process operations, each with an error path | no lock; a crash or Ctrl-C between any two steps; errors in the middle of a cleanup; reading what another command is writing | one tunnel, no forgotten process, nothing left behind, a live session is usable, commands end |
| Session store (`internal/session`) | `session.json` | Save, Load, Clear, IsStale, TerminateProcess; AcquireLock and Release (no caller outside tests) | Save truncates before it writes; a state without pid is never stale; pids are reused | a session on disk can be told live or stale, the recorded pid is the right one |
| Temporary OpenSSH files (`internal/sshconfig/sshconfig.go`) | `ssh_config`, `known_hosts` | WriteSessionFiles, Cleanup | one of two writes or removals fails | the config never exists without the pinned host key |
| Managed block (`internal/sshconfig/userconfig.go`) | the user's OpenSSH config | UpsertManagedBlock, RemoveManagedBlock | read-modify-write without a lock, torn writes, markers found as substrings | the user's lines are kept, one block per alias with the current port |
| Tunnel supervisor (`runTunnelSupervisor` and below) | attempt, pause, kubectl child, two scanner goroutines, `supervisor.ready` | run kubectl, scan its output, report readiness, pause, repeat | `Wait` closes pipes under the scanners; two goroutines share a `sync.Once`; a stale ready file | attempts do not mix, readiness is true, the pause grows to its limit, no attempt hangs |
| Preflight (`internal/preflight`) and kubectl runner (`internal/kubectl`) | a kubectl child, two scanners, a channel with two places, a wait goroutine, a context | version, `auth can-i`, port-forward probe | `select` over output, exit and deadline; senders blocked on a full channel | no kubectl is left, "valid" is justified, it returns |
| Inline tunnel (`internal/tunnel`, `StartUntilReady`), selected by `DEV_CONNECT_TEST_INLINE_TUNNEL` | attempts, a kubectl child and two log files each, a wait goroutine, a context | Start | retries that outlive the deadline; a ticker, the exit and the context ready at once; log files that nobody removes | one kubectl at a time, none left behind, no announcement is lost to an early exit, it decides |
| Port allocation (`internal/port`) | none | listen on port 0, close | the port is free only until someone takes it | - |
| VS Code (`internal/vscode`) | the user data directory; on the target `server-env-setup`, `settings.json` and a temporary file | prepare, remote setup script over ssh, launch, cleanup | external programs fail; the script ends anywhere, files are truncated before they are written, scripts of several connects overlap | taken back on failure; a set-up that succeeds is whole, the remote user's settings are kept |
| Configuration (`internal/config`, `selectedCluster`, `kubernetesContext`) | the parsed file | Load, Validate, choice of cluster, context and gateway | several rules for one choice, made twice | the recorded choice is the used one |
| kubectl's program and environment (`ResolveLocalExecutable`, `internal/proxy`, `kubectlBaseEnv`) | none | search, override variables | two spellings, variables that are already set, Windows' case-blind names; programs come and go between two searches | kubectl sees what is configured; a named kubectl stays the one at its path |
| Output, logging, `list`/`config`/`version` | none | build lists and print | - | - |

The commands interact only through the disk (session directory, user's OpenSSH
config) and the process table.  The supervisor is a detached process in its own
process group: it reads `session.json` once, and tells `connect` about its
tunnel by creating `supervisor.ready`, for which `connect` polls.

## 2. Modules

| Module | Models | Runs |
|---|---|---|
| `Session` | the three commands, the disk, the supervisors in the process table, crashes, pid reuse | `session_*` |
| `MCSession` | requests, fault sets and symmetry for TLC | |
| `SessionProofs` | theorems about `Session`: types, the pinned host key, the recorded pid | |
| `SessionLeaseProofs` | extends it: one tunnel, never forgotten, the refinement of `TunnelLease`, readiness | |
| `SessionFilesProofs` | extends that: cleanup, and the files of a live session | |
| `TunnelLease` | abstract: the one lease of the tunnel that the commands hand on; implemented by `Session` | `session_exclusive` |
| `TunnelSupervisor` | the reconnect loop with its goroutines and kubectl child | `tunnel_supervisor*` |
| `SupervisorContract` | abstract: a supervisor as the other parts see it; implemented by `TunnelSupervisor` | `tunnel_supervisor` |
| `TunnelSupervisorProofs` | theorems about `TunnelSupervisor` | |
| `Preflight` | `Validate` over `Run` and `RunUntilReady` | `connect_programs` |
| `TunnelStart` | `tunnel.Supervisor.Start` over `StartUntilReady` | `connect_programs` |
| `RemoteSetup` | the script of `ConfigureRemote` and the files it works on | `connect_programs` |
| `ConnectPrograms`, `MCConnectPrograms` | the three in the order in which one connect runs them | `connect_programs` |
| `RemoteSetupProofs` | the inductive invariant of `RemoteSetup` | |
| `ConnectProgramsProofs` | those of `Preflight` and `TunnelStart`, and the theorems about the composition | |
| `UserSSHConfig`, `MCUserSSHConfig` | the rewriting of the user's file, line by line | `user_config*` |
| `UserSSHConfigProofs` | theorems about `UserSSHConfig` | |
| `KubectlProcess` | operators: which kubectl is run, and with which environment | `configuration` |
| `Configuration`, `MCConfiguration` | search, validation and choices, by connect and again by the supervisor | `configuration` |
| `ConfigurationProofs` | theorems about `Configuration` and `KubectlProcess` | |

`Session` composes the others at their interfaces: its `RunPreflight` is the
outcome of `Preflight`, its supervisor states `dial` and `listen` and its actions
`TunnelUp`, `WriteReady` and `TunnelDown` are the modes and the actions `Up`,
`Report` and `Down` of `SupervisorContract`, which `TunnelSupervisor` is shown to
implement; its `userBlock` is what `UserSSHConfig` does to one alias, its
`ConfigureRemote` the outcome of `RemoteSetup`, which ssh can only reach while a
kubectl holds the local port, and its fault "alloc" includes
every refusal of `Configuration`.  `ConnectPrograms` extends `Preflight`,
`TunnelStart` and `RemoteSetup`, whose kubectl processes share one local port.

### Session

Each command runs in a slot `c` of `Commands`; `pc[c]` is the next system call.
`st[c]` is the local `session.State`, reduced to the fields the commands act on;
`block` and `data` stand for the two optional paths being set.  `stage[c]`
remembers which of the four `Save` calls, or which cleanup (stale check,
disconnect, early error, late error), is running, since these continue
differently.  `child[c]` is the supervisor `connect` waits for.

`sessionFile` is `None`, `Torn` or a state: `Save` is the two actions
`SaveTruncate` and `SaveWrite`, because `os.WriteFile` truncates.  `proc` is the
process table.  A supervisor is `boot` until it has read `session.json`, `dial`
while it has no tunnel, `listen` while it has one.  `orphan` is a kubectl whose
supervisor was killed alone; `terminateProcess` signals the group, so it reaches
that too.  `other` is an unrelated process that was given a reused pid, and
`killed` one that dev-connect signalled.

`Requests` are connect invocations with their flags and config switches
(`manage` user config, launch `code`, `remote` setup, `isolated` user data,
`reconnect`, positive `timeout`).  `Faults` names the operations that may fail;
each has the error path of the code.  "save" is the `Save` of `Prepare`, whose
error leaves the OpenSSH files, "resave" one of the later three.  A failing write may or may not have
changed the file.  `Crashes` says whether a command ("cli") or a supervisor may
be killed.  `Exclusive` stands for the locking the documents ask for and the
code lacks: with it the user runs one connect or disconnect at a time.  `status`
is never excluded.

Simplifications: the two OpenSSH files and the user's block are written in one
step (the torn user file is in `UserSSHConfig`); a pid whose exit status a
connect still has to collect is not reused, as in Unix; a fork fails when no pid
is free; pauses between attempts are part of `dial`; the configuration lookups
of `Prepare` are the fault "alloc".

### TunnelLease

A supervisor is granted only when none is alive, pending or recorded; it is
pending until its pid is saved, and the record is released only once it is gone.
Under the refinement mapping the lease is pending from `SpawnSupervisor` until
the `Save` of the pid has reached the disk, and a `session.json` that is being
rewritten counts as what is being written.  `HoldsLease` is checked with
`Exclusive` and without crashes and late failures.  It needs these conditions:
an overlap grants the lease twice, a late failure releases the record of a
supervisor that is alive, and a connect killed before its `Save` forgets one.

### TunnelSupervisor

`phase` is the position of the main goroutine.  kubectl writes lines into a pipe
per stream; a scanner reads all that is there into its buffer and handles it
line by line.  `WaitReturns` closes the pipes, so a scanner may lose what it has
not read.  At a line that is too long for `bufio.Scanner` the scanner gives up,
while kubectl may stay up; nobody reads that stream again in this attempt.  `Cancel` is the command's context; kubectl dies with it, and it can
no longer be started.  The program runs cobra's `Execute()` with a context that
nobody cancels, so today `Cancel` exercises handling that only a caller with
another context would reach; without it the properties hold as well, since it is
never forced.  The attempt counter stops at `AttemptBound`, the pipe at
`PipeBound` lines.

### Preflight

`Run` for the first two commands, `RunUntilReady` for the probe.  `main` is the
position in the runner: `select`, or `stop` (waiting for `waitCh` after
`stopProcess`).  Scanners block when the channel has `ChannelSize` events.  The
collected output is reduced to the streams on which a ready line was seen.  An
over-long line ends a scanner here too.  `RunReturns` waits for kubectl only:
`cmd.Run` with buffers returns when every holder of the pipes has closed them, so
kubectl is assumed to leave no child behind that holds them.

### TunnelStart

`starter` is the position of `Start`: opening an attempt, in the `select` of
`StartUntilReady`, or waiting for `waitCh` after `stopProcess`.  Each attempt has
its own kubectl and its own log files; `log` has the attempts whose files hold a
forwarding line.  A log file or kubectl may fail to open (`OpenMayFail`) and the
loop goes on at once.  `MaxReconnects` is 3 in the code and in the run.  That a
log file cannot be read back is left out.

### RemoteSetup

One action per command of the script that touches a file; `cat >`, `cp` and
`write_text` are two steps, truncation and write, and the script may die before
any of them.  Several connects, `Scripts`, use the same target; connect's own
script is `Self`, the others start again and again.  `settings.json` is a
function from keys to values, missing, or partial (half written, or no JSON
object).  `alone` and `endangered` are history: whether a script has had the
target to itself, and whether the user's settings were exposed to an overlap or
to a death inside their rewriting, against which the script has no defence.

### SupervisorContract

Three modes, `dial`, `listen` and `dead`; readiness is reported only while
listening.  `TunnelSupervisor` listens while its kubectl has announced a tunnel
and its scanners are not drained.  A line left over from an attempt that ended
would report readiness in the wrong mode.

### UserSSHConfig

A file is a sequence of lines: user text, blank, begin marker, body, end marker,
and `tail`, the rest of a longer alias's marker.  `ExtendedBy` says which aliases
begin with which.  A command reads the file in one step (`Read`) into `new`, the
content that the code holds in `content` and `updated`; each turn of the loop of
`removeManagedBlock` is a step on it (`RemoveBlock`), what the loop returns and
the new block another one (`Update`), and the file is written in two (`Truncate`,
`Write`).  `read` keeps what was read for the comparison that lets a removal
return without a write.

`Call` lets a command connect or remove any alias at any time.  The program does
less: `ensureNoActiveSession` refuses a second live session of one session
directory and cleans up a stale one, and a removal only names the recorded
target.  Two aliases are in the file together after a connect was killed between
its `UpsertManagedBlock` and the save that records the block, or when two session
directories share the user's file.  The model has these histories and more.

`wanted` is the history of the commands that have returned: the port of each
alias's block.  `disturbed` remembers that two commands overlapped or that one
was killed inside its write; the properties about what is between commands hold
until then, and `wanted` is reset.

### Configuration

A Go map is a function on a set of names, the empty string is `None`.  A file is
absent, bad (unreadable, no YAML, another `apiVersion` or `kind`, a negative
keepalive) or a content, whose sections `Validate` checks as the code does: a
reference into an empty section is not checked.  `Connect` is the part of
`connect` up to the preflight: it loads a file, chooses, records and probes.
Before the supervisor starts, `EditFile` and `EditProgram` may change, create or
remove up to `EditBound` files and kubectls.  The supervisor then loads and chooses again, from the path
connect has loaded, the same flags, and gateway and namespace of `session.json`.
`home` says whether there is a default directory; without one `Load` fails even
with `--config`.

### KubectlProcess

An environment is a sequence of entries, as in `os.Environ`; a key has a name and
a spelling, which Windows does not tell apart.  On Unix `os.Environ` has each key
once; on Windows it is the block of the process as it is, and may hold
`http_proxy` beside `HTTP_PROXY`.  `set` replaces the first entry of a key or
appends one; `Seen` is what a process reads, the last entry, and `Inherited` the
environment that `os/exec` passes to a child, in which the earlier entries of a
variable are left out (`None` in the sequence).
`SearchOrder` stands for dev-connect's directory, `PATH` and the default places
of the system.  A named path is the answer or the error, and a relative one is
always an error.

## 3. What is checked

Runs that pass:

| Run | Instance | Shows |
|---|---|---|
| `session_exclusive` | one connect or disconnect at a time and a `status` beside it, faults before the tunnel is up, pids reused | types; the abstract lease; one tunnel at most; no supervisor is forgotten; a session on disk has a pid between commands; readiness is the own supervisor's if no ready file was left |
| `session_failures` | failing later saves, remote setup and launch as well; fairness of commands | the error paths remove the files connect made; commands return |
| `session_crash` | commands and supervisors killed anywhere, failing writes of `Prepare`, removals and clears | a live tunnel always has its files; `ssh_config` never without `known_hosts` |
| `tunnel_supervisor` | two streams, seven attempts, the real limits 1 and 30, fairness of goroutines | isolation, true readiness which is reported, the pause, no attempt that hangs, the abstract contract |
| `connect_programs` | two lines per stream, two channel places; four attempts; two set-up scripts with three sets of options on targets with and without `python3`; fairness of goroutines and the deadlines | one kubectl at a time and none left, justified verdicts, no announcement lost, bounded log files, decisions in time; whole set-ups, kept user settings |
| `user_config` | two aliases, two ports, five files, two commands, kills | kept lines, exact blocks, original restored, never two blocks of an alias |
| `configuration` | 1900 files with 54 choices of names; four paths with four contents each; 18 ways to name kubectl with all sets of seven programs; 18 clusters over all environments of at most two entries on both systems, both spellings of one variable on Windows included; two edits | one file for `config location` and `Load`; the tunnel is the one probed; `list` names the context in use; a validated file with gateways and host keys fails connect only for what the user named or left open; kubectl's program and environment are the configured ones, before and after |

Runs in which TLC refutes a sentence of the documents, each by a behaviour of
the code (section "findings" of `PROJECT.json` quotes the sentences):

| Run | Behaviour |
|---|---|
| `session_claim_orphan` | VS Code cannot be launched; the session is cleared, the supervisor keeps running |
| `session_claim_ready` | the ready file of the last session lets connect go on before the tunnel is up |
| `session_claim_one_tunnel` | two overlapping connects |
| `user_config_claim_prefix` | with both in the file, disconnecting `dev1` removes the block of `dev10` |
| `tunnel_supervisor_claim_attempts` | the supervisor reconnects a sixth time; the documents give it a maximum, five unless configured |

The conditions of the passing runs are needed.  Other behaviours the models
have, which follow from the code and which no run singles out: a connect killed
before it saved the pid leaves a session that is never stale, so later connects
are refused until `disconnect`; one killed inside `Save` leaves a file on which
every command fails, `disconnect` too; `status` in the middle of a connect says
connected; `disconnect` signals whoever has the recorded pid; the kubectl of a
supervisor that was killed alone survives connect's error path and the stale
cleanup; a failed write in `Prepare` leaves the OpenSSH files; a kill between
the truncation and the write of the user's config empties it; a failed block or
user data step after the file was changed leaves the change behind;
`supervisor.ready` and `supervisor.log` are never removed.

Of the programs of connect: `StartUntilReady` does not tie kubectl to its context,
so that after the deadline `Start` still starts the attempts it has left, stops
each at once, or even succeeds with one; a kubectl that announces its tunnel and
exits before the ticker sees it counts as started, with a dead pid; the log files
are never removed.  On a target without `python3` the set-up replaces
`settings.json`; a script that dies inside the write of that file loses the
user's settings, and so does an overlap in which one script reads what the other
has truncated; the set-up has no timeout of its own.

Of kubectl: a relative `--kubectl-path` is refused, since no directory is given
to look for it in; without a named kubectl the supervisor may find another one
than the preflight did, if one was installed or removed in between; another
program put at the same path is not told apart.  When a Windows environment holds
a proxy variable in two spellings, `set` replaces the first entry and `os/exec`
passes on the last: the preflight's kubectl sees the old value, and the
supervisor's, which inherits one entry only, the configured one.

Of the configuration: `config location` names a path given by flag or
environment even when its file is missing, while `Load` goes on to the next
candidate; the gateway that `list` prints as default, the one of the context, is
not the one `connect` uses, which is the target's; the recorded Kubernetes
context is empty without `--context` and ignores `--cluster`; a file with an
empty `gateways` or `hostKeys` section validates and then fails connect.

### Bounds

Two targets, two ports and two pids let a second session differ from
the first in all three; two slots are enough for every race between two
commands, since the commands only meet through the disk and the process table.
Overlapping commands are in
`session_claim_one_tunnel` and `user_config`; the types and, without reuse of
pids, `RecordedPidServesTarget` are proved for any number of overlapping commands
(no run repeats the latter), and of the passing runs of `Session` only
`session_exclusive` has a second slot, for `status`, which changes nothing.
`session_exclusive`, `session_crash` and two claims have no remote set-up among
their requests: it fails late whenever the tunnel is down, which is no fault of
ssh and leads to what `session_claim_orphan` shows.  `session_failures` has it.  Slots and pids are interchangeable in safety
runs; symmetry is not used with liveness.  Two lines per stream make one line
arrive before and one after the ready line; the channel has its real size.
Seven attempts pass the point where the pause reaches its limit, and the maximum
that the documents speak of and the code does not have.
`TunnelStart` has the code's four attempts.  Two set-up scripts meet in every
order, and the second one is repeated, so that one finds what any number of
others have left behind.  Environments of two entries hold both spellings of
one, in either order, and each entry a value of its own; seven programs are one for each place the search knows, a
relative one included.

### Fairness

`Session`: a command that was started is scheduled until it returns.  This
includes the programs it runs to completion: kubectl in the preflight is under
`--timeout` (that it then returns is `ValidateEnds`), `ssh` and `code` are
assumed to return.  Nothing is assumed of the user, the network or the
supervisors; the wait for the tunnel ends through its timeout.
`TunnelSupervisor`: its goroutines run; kubectl may stay up for ever and may be
silent.  `Preflight`: goroutines run and the deadline passes; kubectl may hang.
`ConnectPrograms`: the same for `Start`, whose deadline is connect's positive
`--timeout`; nothing is assumed of ssh and the target.

## 4. What is proved

The eight modules named `...Proofs` are checked by TLAPS.  Their theorems hold
for all values of the constants that satisfy the modules' named assumptions:
any number of commands, targets, ports, pids, streams, lines, attempts, scripts,
files.  Where a theorem needs a condition on the environment, it is a hypothesis
of the theorem, and it is one that the instance of the run satisfies.  All
theorems but `BackoffMonotone` and `RecordedPidCorrect` state a property of a
passing run.  The invariants behind them were checked by TLC before they were
proved.

### Session

| Theorem | Property | Hypotheses |
|---|---|---|
| `TypeCorrect` | `TypeOK` | - |
| `RecordedPidCorrect` | `RecordedPidServesTarget` | no pid reuse |
| `HostKeyAlwaysPinned` | `ConfigNeverUnpinned` | `Exclusive` |
| `OneTunnel` | `AtMostOneTunnel` | `Exclusive`, commands are not killed, `NoLateError` |
| `NoForgottenTunnel` | `NoOrphanTunnel` | the same |
| `CommandsHoldLease` | `HoldsLease` | the same |
| `ReadinessIsOwn` | `ReadyIsOwn` | the same |
| `SessionAlwaysReclaimable` | `SessionReclaimable` | `Exclusive`, commands are not killed, neither `Prepare`'s Save nor Clear fails |
| `CleanedUp` | `NothingLeftBehind` | `Exclusive`, commands are not killed, only faults whose error path undoes what was done |
| `LiveTunnelUsable` | `LiveSessionUsable` | `Exclusive`, `NoLateError` |

Late faults (`LateFaults`) are the failures after the supervisor is up: of a
later Save, the block, the user data and the launch.  The remote set-up fails
whenever the tunnel is down, whatever the faults.  So `NoLateError` says that there
is no late fault and no request with remote set-up.  After a late failure connect
clears the session and leaves the supervisor alone, which is what
`session_claim_orphan` shows.  `UndoableFaults` are all but those of the
OpenSSH files, `Prepare`'s Save, the block, the user data and the removals, each
of which leaves a file behind in the code.  Pids may be reused and supervisors
may crash in all of these theorems but `RecordedPidCorrect`, which in turn allows
overlapping commands.  The argument, layer by layer:

* `TypeInv`: which locals exist at which label.  `TypeOK` alone is not inductive,
  since a step reads `st[c].target`, `child[c]` or `job[c]`.
* `PinInv`: at most one command is outside `idle` and the status labels, and
  the order of the two OpenSSH files.  `StepIsLocal` and `StepOfBusy` then reduce
  every later invariant to the one busy command and to the processes.
* `PidInv`: the state a command holds, and the child it waits for, are of its
  own target, unless it loaded the state, when the loaded state has the property.
* `FlowInv`: what a command knows of `session.json` at each label: it is what
  it has in memory, or absent, or torn by itself.  It needs `Exclusive`, and
  holds with crashes and all faults.
* `LeaseInv`: which supervisors can be alive at each label: none during a
  cleanup or before `SpawnSupervisor`, only the child during the wait, only the
  one with the own pid afterwards, and only the recorded one between commands.
  Together with `FlowInv` it gives `OneTunnel` and `NoForgottenTunnel`.
* `LeaseView` computes the abstract lease at each label, and `LeaseMove` lists
  the moves of the lease; `CommandsHoldLease` shows per action which move it is.
* `ReadyInv`: a ready file found in the wait was written by the child, since
  `LeaseInv` leaves nobody else to write it.
* `ReclaimInv`: the stale check and `disconnect` clean up only a session with a
  pid or none.
* `FilesInv`: what exists on disk is covered by the state being cleaned up, file
  by file in the order of the removals; between commands by `session.json`.
* `UsableInv`: connect's files match its state from the first Save on, and a
  cleanup runs only when the recorded supervisor is gone.  No label forbids a
  crash, so `LiveTunnelUsable` allows commands to be killed anywhere.

### TunnelSupervisor

`TypeCorrect`; `AttemptsIsolated` (`AttemptsDoNotOverlap`) from `OverlapInv`, in
which phases kubectl and the scanners have ended; `ReadinessIsTrue`
(`ReadyIsTrue`) from `AnnouncedInv`, that each forwarding line in a pipe or a
buffer is one of this attempt's kubectl.  `LoopImplementsContract`
(`ImplementsContract`) is the refinement of `SupervisorContract`: `ContractMove`
states its moves on the mapped state, and each step of the loop, the scanners
and kubectl is one of them.  `BackoffIsExponential` (`BackoffLaw`) and
`BackoffMonotone` are about the pauses, for any limits.  The first needs
`2^(n+1) = 2 * 2^n`, which the provers do not know; `PowerOfTwo` derives it by
counting subsets with the library's theorems about finite sets.

### Preflight, TunnelStart, RemoteSetup

The theorems are about the composition, `ProgramsSpec`, and have no hypotheses:

| Theorem | Property | Invariant |
|---|---|---|
| `ProgramsTypeCorrect` | `ProgramsTypeOK` | all |
| `PreflightLeavesNoKubectl` | `NoKubectlLeft` | `ChildInv`: at which position of the runner there is a child |
| `ValidIsForwarded` | `ValidMeansForwarded` | `OutputInv`: a ready line in the pipe, the buffer, the channel or the collected output was printed |
| `OneKubectlAtATime` | `OneKubectl` | `ReapInv` (a collected exit is the attempt's own) and `PhaseInv` (no attempt before the preflight is over) |
| `NoAnnouncementIsLost` | `AnnouncementNotLost` | `AnnounceInv`: without a deadline, no attempt was left whose files hold a forwarding line |
| `LogFilesAreBounded` | `LogFilesBounded` | `LogInv`: two files for each attempt begun |
| `SetupIsComplete` | `SetupComplete` | `AloneInv`: what a script that nobody interferes with has achieved at each line |
| `UserSettingsAreKept` | `UserSettingsKept` | `KeptInv`: the user's entries are in the file or in the memory of the one script that rewrites it |

`ProgramsInv` is their conjunction; it is preserved because each program leaves
the variables of the others alone, and the attempts begin with the step that
leaves the preflight.

### Configuration

* `TypeCorrect` (`TypeOK`): all that is recorded or forwarded is complete, since
  `Validate` refuses empty fields.
* `SupervisorFollowsConnect` (`TunnelAsPreflighted`): `RecordInv` says that
  session and probe follow from the loaded content and the programs there were;
  the rest is that an existing `--config` wins (`FlagWins`) and that the
  supervisor's arguments select the same cluster and kubectl.
* `KubectlPinned` (`NamedKubectlPinned`): from the same invariant and the lemma
  that a named path has at most one answer.
* `LocationCorrect` (`LocationIsLoaded`): the two searches agree, by cases over
  the four candidates.
* `ListedContextIsUsed` (`ContextAsListed`): the three functions that choose a
  context agree, by cases over the flag and the number of contexts.
* `FailuresAreTheUsers` (`FailureIsTheUsers`): `ValidAnswers` shows that in a
  valid file every lookup succeeds unless it is one the property excuses, and
  `FailedInv` that connect fails only when a lookup does.
* `EnvironmentIsOverridden` (`EnvironmentOverridden`): `SetSeen` says what one
  override does to what a process sees, for an environment of any length, when
  the key is there once at most; `ProxySeen` and `BaseEnvSeen` chain it.  A key
  that Windows holds twice is left to the behaviour described in section 3.

### UserSSHConfig

For any aliases, ports, texts, contents of any length and any number of commands:

| Theorem | Property | Hypotheses |
|---|---|---|
| `TypeCorrect` | `TypeOK` | none |
| `OneBlock` | `OneBlockPerAlias` | each end marker in the original closes a block of its own alias, one at most for each |
| `UserLines` | `UserLinesKept` | the original has no end marker |
| `Blocks` | `BlocksAsWanted` | that, and no alias is a prefix of another one |
| `Restored` | `OriginalRestored` | the same two |

Three views of a content are inductive, each from what `TrimLeft`, one turn of
the loop and `prependManagedBlock` do to it, position by position:

* `Tidy`, that every end marker closes a whole block and each alias has one at
  most, needs nothing of the other commands: what a command writes is made of
  what it has read, and both are tidy.  So `OneBlock` holds in every state, with
  overlaps, kills and prefixes, and a tail left by a shorter alias does no harm.
  When the loop ends on a tidy content, there is no end marker of the alias at
  all, so the new block is the only one.
* `Keeps`: a content ends as the original does, and nothing above is the user's.
  The end marker that a turn finds is always above that end, since the original
  has none; so the turn removes no line of the user, whatever begin marker it
  starts from.  This holds for prefixes too: the block of the wrong alias is lost,
  but no line of the user.
* `Managed` and `Shape`: a content is a head of blocks and blank lines over the
  original, and its blocks are the ones that are wanted.  `SoloInv` follows them
  from the file through `new`, where the block of the command's alias may already
  be gone, and back.  Prefixes are excluded because there the property fails, as
  `user_config_claim_prefix` shows.

A begin marker without an end marker in the original, as in one file of the run,
is allowed everywhere.  The hypothesis on end markers is needed: a begin marker and
an end marker in the original are a block that the loop removes, with the lines of
the user between them.

### Only model-checked

The liveness properties `CommandsEnd`, `ReadyReported`, `NoAttemptHangs`,
`ValidateEnds` and `TunnelDecided`: TLAPS has no rules for fairness and `ENABLED`.

## 5. Not modelled

* `session.AcquireLock` and `Release`: no command calls them; `Exclusive` stands
  for what they would give.
* Windows process handling (one process instead of a group is killed).
* The search for `code`: it is one call that finds a launcher or fails, which the
  fault "launch" of `Session` stands for.
* The text of generated files, quoting and file modes; YAML, and the
  configuration's keepalive and VS Code switches.
* Output, logging and redaction, and the commands that only print: no state.
* `mergeEnv` and the runner interfaces without background support: no command
  sets `Command.Env`, and only tests have such runners.
* Test support.

## 6. Plan

The state-changing code is modelled, and every safety property that a run checks
is also proved.  What could follow:

* `Session` and `UserSSHConfig` meet at `userBlock`, which is one alias's place in
  the file; a refinement mapping between the two would replace that reading of it
  by a theorem;
* the Windows variants of the process handling;
* the liveness properties, should a prover with rules for fairness be at hand.
