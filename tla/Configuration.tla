---------------------------- MODULE Configuration ----------------------------
(***************************************************************************)
(* How one invocation of dev-connect finds its configuration file and      *)
(* chooses cluster, gateway and host key from it, and how the detached     *)
(* tunnel supervisor makes the same choices again, from command line,      *)
(* environment, session.json and a configuration file it reads anew.       *)
(* Files may change, and kubectls come and go, between the two.            *)
(*                                                                         *)
(* A Go map is a function on a set of names, an empty string is None.      *)
(***************************************************************************)
EXTENDS KubectlProcess, FiniteSets

CONSTANTS
    Paths, DefaultPath, DevelopmentPath,  \* configuration files
    ContextNames, ClusterNames, GatewayNames, TargetNames, HostKeyNames,
    KubeContexts, Namespaces, Services, Ports, Keys,
    Contents,     \* parsed configuration files, valid or not
    Situations,   \* the files and the invocation a behaviour starts with
    Edits,        \* what a file may be changed to
    EditBound,    \* how many files are changed while connect runs
    Absent, Bad   \* no such file; one that is unreadable, is no YAML or has
                  \* another apiVersion or kind or a negative keepalive

IsMap(m, K, V) == DOMAIN m \subseteq K /\ \A k \in DOMAIN m : m[k] \in V

ContextType == [cluster : Optional(ClusterNames), gateway : Optional(GatewayNames)]
GatewayType == [namespace : Optional(Namespaces), service : Optional(Services),
                port : Ports]
ClusterType == [context : Optional(KubeContexts), kubeconfig : Optional(EnvValues),
                kubectlPath : Optional(Programs), proxy : ProxyType]
TargetType  == [gateway : Optional(GatewayNames), hostKeyRef : Optional(HostKeyNames)]

IsConfig(cfg) ==
    /\ cfg = [contexts |-> cfg.contexts, clusters |-> cfg.clusters,
              gateways |-> cfg.gateways, targets |-> cfg.targets,
              hostKeys |-> cfg.hostKeys]
    /\ IsMap(cfg.contexts, ContextNames, ContextType)
    /\ IsMap(cfg.clusters, ClusterNames, ClusterType)
    /\ IsMap(cfg.gateways, GatewayNames, GatewayType)
    /\ IsMap(cfg.targets, TargetNames, TargetType)
    /\ IsMap(cfg.hostKeys, HostKeyNames, Optional(Keys))

\* The flags --config, --context, --cluster, --gateway, --kubectl-path and the
\* argument of connect; DEV_CONNECT_CONFIG and DEV_CONNECT_KUBECTL_PATH; whether
\* HOME (APPDATA) is set; the system; and the other variables of os.Environ,
\* which the supervisor inherits.
Invocation == [config : Optional(Paths), env : Optional(Paths), home : BOOLEAN,
               context : Optional(ContextNames), cluster : Optional(ClusterNames),
               gateway : Optional(GatewayNames), target : TargetNames,
               kubectl : Optional(Programs), kubectlEnv : Optional(Programs),
               windows : BOOLEAN, environ : Seq(Slot)]

\* The choices recorded in session.json.
SessionType == [gateway : GatewayNames, namespace : Namespaces,
                kubernetesContext : Optional(KubeContexts), hostKey : Keys]

\* What connect has found: a file, its content, and which programs there were.
LoadedType == [path : Paths, content : Contents, programs : SUBSET Programs]

ASSUME ConfigurationAssumption ==
    /\ DefaultPath \in Paths /\ DevelopmentPath \in Paths
    /\ None \notin Paths \cup ContextNames \cup ClusterNames \cup GatewayNames
                   \cup TargetNames \cup HostKeyNames \cup KubeContexts
                   \cup Namespaces \cup Services \cup Keys
    /\ Error \notin Paths \cup KubeContexts \cup Namespaces \cup Services \cup Keys
                    \cup ClusterType \cup SessionType
    /\ TargetNames \subseteq HostKeyNames
    /\ Ports \subseteq Int
    /\ EditBound \in Nat

ASSUME ContentAssumption ==
    /\ \A cfg \in Contents : IsConfig(cfg) /\ IsFiniteSet(DOMAIN cfg.contexts)
    /\ Contents \cap {Absent, Bad} = {} /\ Absent # Bad
    /\ None \notin LoadedType
    /\ Edits \subseteq Contents \cup {Absent, Bad}
    /\ Situations \subseteq [files : [Paths -> Contents \cup {Absent, Bad}],
                             inv : Invocation, programs : SUBSET Programs]
    /\ \A s \in Situations : IsEnviron(s.inv.windows, s.inv.environ)

-----------------------------------------------------------------------------
(* internal/config *)

Known(name, map) == DOMAIN map # {} => name \in DOMAIN map

\* A lookup of a Go map of strings: the empty string if there is no entry.
StringAt(map, name) == IF name \in DOMAIN map THEN map[name] ELSE None

ContextValid(cfg, x) ==
    /\ x.cluster # None /\ Known(x.cluster, cfg.clusters)
    /\ x.gateway # None /\ Known(x.gateway, cfg.gateways)

HostKeyRef(t, target) == IF target.hostKeyRef = None THEN t ELSE target.hostKeyRef

\* Mutant: host key references are not checked.
HostKeyUnchecked(cfg, t) == TRUE

HostKeyValid(cfg, t) ==
    DOMAIN cfg.hostKeys # {} =>
        StringAt(cfg.hostKeys, HostKeyRef(t, cfg.targets[t])) # None

TargetValid(cfg, t) ==
    /\ cfg.targets[t].gateway # None /\ Known(cfg.targets[t].gateway, cfg.gateways)
    /\ HostKeyValid(cfg, t)

GatewayValid(g) == g.namespace # None /\ g.service # None /\ g.port > 0

Validate(cfg) ==
    /\ \A x \in DOMAIN cfg.contexts : ContextValid(cfg, cfg.contexts[x])
    /\ \A t \in DOMAIN cfg.targets : TargetValid(cfg, t)
    /\ \A g \in DOMAIN cfg.gateways : GatewayValid(cfg.gateways[g])

\* Validate fills in the missing host key references; cfg.Targets is a map, so
\* that Parse returns them.
WithHostKeyRefs(cfg) ==
    [cfg EXCEPT !.targets = [t \in DOMAIN cfg.targets |->
        [cfg.targets[t] EXCEPT !.hostKeyRef = HostKeyRef(t, cfg.targets[t])]]]

Parse(content) ==
    IF content # Bad /\ Validate(content) THEN WithHostKeyRefs(content) ELSE Error

\* Mutant: the environment before the flag.
CandidatesEnvFirst(i) == <<i.env, i.config, DefaultPath, DevelopmentPath>>

candidates(i) == <<i.config, i.env, DefaultPath, DevelopmentPath>>

\* The first candidate that is set and whose file exists; the other ones are
\* not looked at, even if that file has an error.
FirstPresent(fs, i) ==
    LET path    == candidates(i)
        present == {n \in 1..4 : path[n] # None /\ fs[path[n]] # Absent}
    IN  IF present = {} THEN Error
        ELSE path[CHOOSE n \in present : \A m \in present : n <= m]

\* Without HOME there is no list of candidates, whatever --config says.
Load(fs, i) ==
    LET path == FirstPresent(fs, i)
    IN  IF ~i.home \/ path = Error THEN [path |-> None, config |-> Error]
        ELSE [path |-> path, config |-> Parse(fs[path])]

-----------------------------------------------------------------------------
(* cmd/dev-connect and internal/connect *)

configLocation(fs, i) ==
    IF i.config # None THEN i.config
    ELSE IF i.env # None THEN i.env
    ELSE IF ~i.home THEN Error
    ELSE IF fs[DefaultPath] = Absent /\ fs[DevelopmentPath] # Absent
         THEN DevelopmentPath ELSE DefaultPath

TheOnly(S) == CHOOSE x \in S : S = {x}

\* The context whose name list prints as the default.
defaultContextName(cfg, i) ==
    IF i.context # None THEN i.context
    ELSE IF Cardinality(DOMAIN cfg.contexts) = 1 THEN TheOnly(DOMAIN cfg.contexts)
    ELSE None

ClusterOfContext(cfg, x) ==
    IF x \in DOMAIN cfg.contexts /\ cfg.contexts[x].cluster \in DOMAIN cfg.clusters
    THEN cfg.clusters[cfg.contexts[x].cluster] ELSE Error

\* The zero config.Cluster.
NoCluster == [context |-> None, kubeconfig |-> None, kubectlPath |-> None,
              proxy |-> [enabled |-> FALSE, http |-> None, https |-> None, no |-> None]]

\* Mutant: takes any of several contexts.
SelectedFirstCluster(cfg, i) ==
    IF i.cluster # None
    THEN IF i.cluster \in DOMAIN cfg.clusters THEN cfg.clusters[i.cluster] ELSE Error
    ELSE IF i.context # None THEN ClusterOfContext(cfg, i.context)
    ELSE IF DOMAIN cfg.contexts = {} THEN NoCluster
    ELSE ClusterOfContext(cfg, CHOOSE x \in DOMAIN cfg.contexts : TRUE)

\* --cluster wins over --context; without contexts kubectl's own settings are
\* used, and of several contexts the user has to choose one.
selectedCluster(cfg, i) ==
    IF i.cluster # None
    THEN IF i.cluster \in DOMAIN cfg.clusters THEN cfg.clusters[i.cluster] ELSE Error
    ELSE IF i.context # None THEN ClusterOfContext(cfg, i.context)
    ELSE IF DOMAIN cfg.contexts = {} THEN NoCluster
    ELSE IF Cardinality(DOMAIN cfg.contexts) = 1
         THEN ClusterOfContext(cfg, TheOnly(DOMAIN cfg.contexts)) ELSE Error

\* Mutant: the name of the dev-connect context.
KubernetesContextName(cfg, x) == x

\* The Kubernetes context recorded in session.json looks at --context only.
kubernetesContext(cfg, x) ==
    IF x # None /\ ClusterOfContext(cfg, x) # Error
    THEN ClusterOfContext(cfg, x).context ELSE None

GatewayName(cfg, i) ==
    IF i.gateway # None THEN i.gateway ELSE cfg.targets[i.target].gateway

\* The lookups of Prepare, before it touches the disk.
Prepare(cfg, i) ==
    IF /\ i.target \in DOMAIN cfg.targets
       /\ GatewayName(cfg, i) \in DOMAIN cfg.gateways
       /\ StringAt(cfg.hostKeys, HostKeyRef(i.target, cfg.targets[i.target])) # None
    THEN LET g == cfg.gateways[GatewayName(cfg, i)]
         IN  [gateway |-> GatewayName(cfg, i), namespace |-> g.namespace,
              kubernetesContext |-> kubernetesContext(cfg, i.context),
              hostKey |-> StringAt(cfg.hostKeys,
                             HostKeyRef(i.target, cfg.targets[i.target]))]
    ELSE Error

kubectlPath(i, cluster, exe) ==
    ResolveLocalExecutable(i.kubectl, i.kubectlEnv, cluster.kubectlPath, exe)

\* A kubectl process: the program, its environment and what it is told.
Forward(namespace, gateway, i, cluster, exe) ==
    [namespace |-> namespace, service |-> gateway.service, port |-> gateway.port,
     context |-> cluster.context, kubeconfig |-> cluster.kubeconfig,
     path |-> kubectlPath(i, cluster, exe),
     env |-> kubectlBaseEnv(i.windows, i.environ, cluster.proxy, cluster.kubeconfig)]

\* Mutant: the supervisor searches for the file again.
SupervisorArgsAsGiven(i, path) == i

\* The supervisor gets the path of the file connect has loaded, connect's other
\* flags, and its environment.
supervisorArgs(i, path) ==
    [i EXCEPT !.config = path, !.environ = Inherited(i.windows, i.environ)]

-----------------------------------------------------------------------------
VARIABLES
    files,      \* what each path holds
    inv,        \* the invocation
    programs,   \* the paths that hold an executable
    phase,      \* of connect and its supervisor
    loaded,     \* the path connect has loaded and what it found there
    session,    \* the choices recorded in session.json
    checked,    \* what the preflight has probed
    forwarded,  \* what the supervisor forwards
    edits       \* files and programs changed since connect has read them

vars == <<files, inv, programs, phase, loaded, session, checked, forwarded, edits>>

ForwardType == [namespace : Namespaces, service : Services, port : Ports,
                context : Optional(KubeContexts), kubeconfig : Optional(EnvValues),
                path : Programs, env : Seq(Slot)]

TypeOK ==
    /\ files \in [Paths -> Contents \cup {Absent, Bad}]
    /\ inv \in Invocation
    /\ programs \subseteq Programs
    /\ phase \in {"start", "failed", "prepared", "running", "exited"}
    /\ loaded \in Optional(LoadedType)
    /\ session \in Optional(SessionType)
    /\ checked \in Optional(ForwardType)
    /\ forwarded \in Optional(ForwardType)
    /\ edits \in 0..EditBound

Init ==
    /\ \E s \in Situations : files = s.files /\ inv = s.inv /\ programs = s.programs
    /\ phase = "start"
    /\ loaded = None /\ session = None /\ checked = None /\ forwarded = None
    /\ edits = 0

\* The configuration answers all of connect's questions, and there is a kubectl.
Resolved(cfg, i, exe) ==
    /\ cfg # Error /\ selectedCluster(cfg, i) # Error /\ Prepare(cfg, i) # Error
    /\ kubectlPath(i, selectedCluster(cfg, i), exe) # Error

\* connect loads the file, makes its choices, records them and probes the
\* gateway (whose failures, and the removal of the record when there is no
\* kubectl, are in Session).
Connect ==
    LET l   == Load(files, inv)
        cfg == l.config
    IN  /\ phase = "start"
        /\ Resolved(cfg, inv, programs)
        /\ phase' = "prepared"
        /\ loaded' = [path |-> l.path, content |-> files[l.path], programs |-> programs]
        /\ session' = Prepare(cfg, inv)
        /\ checked' = Forward(session'.namespace, cfg.gateways[session'.gateway],
                              inv, selectedCluster(cfg, inv), programs)
        /\ UNCHANGED <<files, inv, programs, forwarded, edits>>

ConnectFails ==
    /\ phase = "start"
    /\ ~Resolved(Load(files, inv).config, inv, programs)
    /\ phase' = "failed"
    /\ UNCHANGED <<files, inv, programs, loaded, session, checked, forwarded, edits>>

\* Someone changes, creates or removes a file before the supervisor reads it.
EditFile ==
    /\ phase = "prepared" /\ edits < EditBound
    /\ \E p \in Paths, content \in Edits :
           content # files[p] /\ files' = [files EXCEPT ![p] = content]
    /\ edits' = edits + 1
    /\ UNCHANGED <<inv, programs, phase, loaded, session, checked, forwarded>>

\* A kubectl is installed or removed meanwhile.
EditProgram ==
    /\ phase = "prepared" /\ edits < EditBound
    /\ \E p \in Programs : programs' \in {programs \cup {p}, programs \ {p}}
    /\ programs' # programs
    /\ edits' = edits + 1
    /\ UNCHANGED <<files, inv, phase, loaded, session, checked, forwarded>>

\* The choices of runTunnelSupervisor: cluster from the file and the flags,
\* service and port from the file, gateway and namespace from session.json, and
\* kubectl from all of them and the environment.
Supervised(cfg, i, exe) ==
    /\ cfg # Error /\ selectedCluster(cfg, i) # Error
    /\ session.gateway \in DOMAIN cfg.gateways
    /\ kubectlPath(i, selectedCluster(cfg, i), exe) # Error

SupervisorStarts ==
    LET i   == supervisorArgs(inv, loaded.path)
        cfg == Load(files, i).config
    IN  /\ phase = "prepared"
        /\ Supervised(cfg, i, programs)
        /\ phase' = "running"
        /\ forwarded' = Forward(session.namespace, cfg.gateways[session.gateway],
                                i, selectedCluster(cfg, i), programs)
        /\ UNCHANGED <<files, inv, programs, loaded, session, checked, edits>>

SupervisorExits ==
    LET i == supervisorArgs(inv, loaded.path)
    IN  /\ phase = "prepared"
        /\ ~Supervised(Load(files, i).config, i, programs)
        /\ phase' = "exited"
        /\ UNCHANGED <<files, inv, programs, loaded, session, checked, forwarded, edits>>

Next == Connect \/ ConnectFails \/ EditFile \/ EditProgram
           \/ SupervisorStarts \/ SupervisorExits

Spec == Init /\ [][Next]_vars

-----------------------------------------------------------------------------
\* As long as the file connect has loaded and the installed kubectls are not
\* changed, the supervisor starts and runs the very program, with the same
\* kubeconfig, context, namespace, service and port, that the preflight has
\* probed with, though it reads and resolves everything again; files that other
\* candidates name may come and go.  The environment is the same too, unless
\* Windows holds a variable in two spellings, of which os/exec passes on one.
TunnelAsPreflighted ==
    (/\ phase \in {"running", "exited"}
     /\ files[loaded.path] = loaded.content /\ programs = loaded.programs)
    => /\ phase = "running"
       /\ [forwarded EXCEPT !.env = checked.env] = checked
       /\ (inv.windows => \A key \in EnvKeys : HeldOnce(inv.windows, inv.environ, key))
             => forwarded.env = checked.env

\* kubectl sees the proxies and the kubeconfig of the chosen cluster in every
\* spelling of their variables, also those that the environment had before, in
\* whatever order, and every other variable as dev-connect has it.  Excepted is a
\* variable that a Windows environment already holds in two spellings: there only
\* the first entry is replaced, and the last one counts.
EnvironmentOverridden ==
    phase = "prepared" =>
        LET cluster == selectedCluster(Parse(loaded.content), inv)
            proxied(value) == IF cluster.proxy.enabled THEN value ELSE None
            wanted(key) == CASE key.name = "HTTP_PROXY"  -> proxied(cluster.proxy.http)
                             [] key.name = "HTTPS_PROXY" -> proxied(cluster.proxy.https)
                             [] key.name = "NO_PROXY"    -> proxied(cluster.proxy.no)
                             [] key = Upper("KUBECONFIG") -> cluster.kubeconfig
                             [] key.name = "KUBECONFIG" /\ inv.windows -> cluster.kubeconfig
                             [] OTHER -> None
        IN  \A key \in EnvKeys :
                LET seen == Seen(inv.windows, checked.env, key)
                IN  IF wanted(key) = None
                    THEN seen = Seen(inv.windows, inv.environ, key)
                    ELSE (inv.windows => HeldOnce(inv.windows, inv.environ, key))
                             => seen = wanted(key)

\* A kubectl named by flag, environment or cluster is pinned: whatever is
\* installed or removed between the preflight and the supervisor's own search,
\* the supervisor runs the program at the path that was probed with, or none.
\* Another program put at that path is not told apart.
NamedKubectlPinned ==
    phase = "running" /\ files[loaded.path] = loaded.content =>
        LET cluster == selectedCluster(Parse(loaded.content), inv)
        IN  {inv.kubectl, inv.kubectlEnv, cluster.kubectlPath} # {None}
            => forwarded.path = checked.path

\* If the file `config location' prints exists, it is the one that Load reads,
\* although the two search for it with separate code.
LocationIsLoaded ==
    LET path == configLocation(files, inv)
    IN  inv.home /\ files[path] # Absent => Load(files, inv).path = path

\* After `config validate' succeeds for a file that has gateways, clusters and
\* host keys, connect finds all it looks up except a name the user has given
\* on the command line, a context the user has to choose, or a kubectl.
FailureIsTheUsers ==
    LET cfg == Load(files, inv).config
    IN  (/\ phase = "failed" /\ cfg # Error
         /\ {} \notin {DOMAIN cfg.gateways, DOMAIN cfg.clusters, DOMAIN cfg.hostKeys})
        => \/ inv.target \notin DOMAIN cfg.targets
           \/ inv.gateway \notin Optional(DOMAIN cfg.gateways)
           \/ inv.cluster \notin Optional(DOMAIN cfg.clusters)
           \/ inv.context \notin Optional(DOMAIN cfg.contexts)
           \/ inv.context = None /\ Cardinality(DOMAIN cfg.contexts) > 1
           \/ kubectlPath(inv, selectedCluster(cfg, inv), programs) = Error

\* Without --cluster, the tunnel goes to the cluster of the context that `list'
\* names as the default one, or to kubectl's own context if it names none; and
\* a Kubernetes context recorded in session.json is the one in use.  Three
\* functions compute these.
ContextAsListed ==
    phase = "prepared" /\ inv.cluster = None =>
        LET cfg == Parse(loaded.content)
            x   == defaultContextName(cfg, inv)
        IN  /\ checked.context = IF x = None THEN None
                                 ELSE cfg.clusters[cfg.contexts[x].cluster].context
            /\ session.kubernetesContext \in {None, checked.context}
=============================================================================
