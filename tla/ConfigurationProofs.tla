------------------------- MODULE ConfigurationProofs -------------------------
(***************************************************************************)
(* For every set of files, every invocation and every set of installed     *)
(* programs: the types, the agreement of `config location' with Load and   *)
(* of the context in use with the listed one, that the supervisor repeats  *)
(* the choices of connect while the loaded file is unchanged, that a file  *)
(* which validates does not fail connect, and kubectl's environment.       *)
(***************************************************************************)
EXTENDS Configuration, FiniteSetTheorems, WellFoundedInduction, TLAPS

FileMaps == [Paths -> Contents \cup {Absent, Bad}]

\* The search of Load ends at a path with a file, if it ends at one.
LEMMA FoundIsPresent ==
    ASSUME NEW fs \in FileMaps, NEW i \in Invocation, FirstPresent(fs, i) # Error
    PROVE  FirstPresent(fs, i) \in Paths /\ fs[FirstPresent(fs, i)] # Absent
<1>. DEFINE path    == candidates(i)
            present == {n \in 1..4 : path[n] # None /\ fs[path[n]] # Absent}
            least   == CHOOSE n \in present : \A m \in present : n <= m
<1>1. /\ path[1] \in Optional(Paths) /\ path[2] \in Optional(Paths)
      /\ path[3] \in Paths /\ path[4] \in Paths
  BY ConfigurationAssumption DEF candidates, Invocation, Optional
<1>2. present # {} BY DEF FirstPresent
<1>3. \E n \in present : \A m \in present : n <= m
  <2>1. CASE 1 \in present BY <2>1
  <2>2. CASE 1 \notin present /\ 2 \in present BY <2>2
  <2>3. CASE 1 \notin present /\ 2 \notin present /\ 3 \in present BY <2>3
  <2>4. CASE 1 \notin present /\ 2 \notin present /\ 3 \notin present
    <3>1. PICK n \in present : TRUE BY <1>2
    <3>2. n = 4 BY <2>4, <3>1
    <3>. QED BY <2>4, <3>2
  <2>. QED BY <2>1, <2>2, <2>3, <2>4
<1>4. least \in present BY <1>3
<1>5. FirstPresent(fs, i) = path[least] BY <1>2 DEF FirstPresent
<1>. HIDE DEF least
<1>6. least \in 1..4 /\ path[least] # None /\ fs[path[least]] # Absent BY <1>4
<1>7. path[least] \in Paths
  <2>. HIDE DEF path
  <2>1. least = 1 \/ least = 2 \/ least = 3 \/ least = 4 BY <1>6
  <2>. QED BY <1>1, <1>6, <2>1 DEF Optional
<1>. QED BY <1>5, <1>6, <1>7

\* A file named with --config that exists is the one that is loaded.
LEMMA FlagWins ==
    ASSUME NEW fs \in FileMaps, NEW i \in Invocation,
           i.config # None, fs[i.config] # Absent
    PROVE  FirstPresent(fs, i) = i.config
<1>. DEFINE path    == candidates(i)
            present == {n \in 1..4 : path[n] # None /\ fs[path[n]] # Absent}
            least   == CHOOSE n \in present : \A m \in present : n <= m
<1>1. path[1] = i.config BY DEF candidates
<1>2. 1 \in present BY <1>1
<1>3. \A n \in present : (\A m \in present : n <= m) => n = 1 BY <1>2
<1>4. \A m \in present : 1 <= m OBVIOUS
<1>5. least = 1 BY <1>2, <1>3, <1>4
<1>6. FirstPresent(fs, i) = path[least] BY <1>2 DEF FirstPresent
<1>. QED BY <1>1, <1>5, <1>6

\* If the file `config location' prints exists, it is the one that Load reads,
\* for any files and any invocation.
LEMMA LocationAgrees ==
    ASSUME NEW fs \in FileMaps, NEW i \in Invocation, i.home,
           fs[configLocation(fs, i)] # Absent
    PROVE  Load(fs, i).path = configLocation(fs, i)
<1>. DEFINE path    == candidates(i)
            present == {n \in 1..4 : path[n] # None /\ fs[path[n]] # Absent}
            least   == CHOOSE n \in present : \A m \in present : n <= m
            at      == configLocation(fs, i)
<1>1. /\ path[1] = i.config /\ path[2] = i.env
      /\ path[3] = DefaultPath /\ path[4] = DevelopmentPath
  BY DEF candidates
<1>2. DefaultPath # None /\ DevelopmentPath # None BY ConfigurationAssumption
<1>3. \E n \in present : path[n] = at /\ \A m \in present : n <= m
  <2>1. CASE i.config # None
    <3>1. at = path[1] /\ 1 \in present BY <1>1, <2>1 DEF configLocation
    <3>. QED BY <3>1
  <2>2. CASE i.config = None /\ i.env # None
    <3>1. at = path[2] /\ 2 \in present /\ 1 \notin present
      BY <1>1, <2>2 DEF configLocation
    <3>. QED BY <3>1
  <2>3. CASE i.config = None /\ i.env = None /\ fs[DefaultPath] # Absent
    <3>1. at = path[3] /\ 3 \in present /\ 1 \notin present /\ 2 \notin present
      BY <1>1, <1>2, <2>3 DEF configLocation
    <3>. QED BY <3>1
  <2>4. CASE i.config = None /\ i.env = None /\ fs[DefaultPath] = Absent
    <3>1. at = path[4] /\ 4 \in present BY <1>1, <1>2, <2>4 DEF configLocation
    <3>2. 1 \notin present /\ 2 \notin present /\ 3 \notin present
      BY <1>1, <2>4
    <3>. QED BY <3>1, <3>2
  <2>. QED BY <2>1, <2>2, <2>3, <2>4
<1>4. PICK n \in present : path[n] = at /\ \A m \in present : n <= m BY <1>3
<1>5. least \in present /\ \A m \in present : least <= m BY <1>3
<1>6. present \subseteq Int OBVIOUS
<1>7. FirstPresent(fs, i) = path[least] BY <1>4 DEF FirstPresent
<1>. HIDE DEF least, present
<1>8. least = n BY <1>4, <1>5, <1>6
<1>9. FirstPresent(fs, i) = at BY <1>4, <1>7, <1>8
<1>10. at # Error
  <2>1. at \in Paths
    BY ConfigurationAssumption DEF configLocation, Invocation, Optional
  <2>. QED BY <2>1, ConfigurationAssumption
<1>. QED BY <1>9, <1>10 DEF Load

-----------------------------------------------------------------------------
\* A configuration that Load returns is the one of an existing, valid file.
LEMMA LoadedIsParsed ==
    ASSUME NEW fs \in FileMaps, NEW i \in Invocation, Load(fs, i).config # Error
    PROVE  /\ i.home
           /\ Load(fs, i).path = FirstPresent(fs, i)
           /\ Load(fs, i).path \in Paths
           /\ fs[Load(fs, i).path] \in Contents
           /\ Load(fs, i).config = Parse(fs[Load(fs, i).path])
<1>1. /\ i.home /\ FirstPresent(fs, i) # Error
      /\ Load(fs, i) = [path |-> FirstPresent(fs, i),
                        config |-> Parse(fs[FirstPresent(fs, i)])]
  BY DEF Load
<1>2. FirstPresent(fs, i) \in Paths /\ fs[FirstPresent(fs, i)] # Absent
  BY <1>1, FoundIsPresent
<1>3. fs[FirstPresent(fs, i)] # Bad BY <1>1 DEF Parse
<1>. QED BY <1>1, <1>2, <1>3 DEF FileMaps

\* Parsing changes no section but the targets, and what it returns is valid.
LEMMA ParsedIsValid ==
    ASSUME NEW content \in Contents, Parse(content) # Error
    PROVE  /\ Parse(content).clusters = content.clusters
           /\ Parse(content).contexts = content.contexts
           /\ Parse(content).gateways = content.gateways
           /\ Parse(content).hostKeys = content.hostKeys
           /\ Validate(content) /\ IsConfig(content)
<1>1. Parse(content) = WithHostKeyRefs(content) /\ Validate(content) BY DEF Parse
<1>2. IsConfig(content) BY ContentAssumption
<1>. DEFINE refs == [t \in DOMAIN content.targets |->
        [content.targets[t] EXCEPT !.hostKeyRef = HostKeyRef(t, content.targets[t])]]
<1>3. WithHostKeyRefs(content) = [content EXCEPT !.targets = refs] BY DEF WithHostKeyRefs
<1>. HIDE DEF refs
<1>. QED BY <1>1, <1>2, <1>3 DEF IsConfig

\* The gateways of a valid configuration are complete.
LEMMA GatewayTyped ==
    ASSUME NEW content \in Contents, Parse(content) # Error,
           NEW g \in DOMAIN Parse(content).gateways
    PROVE  /\ g \in GatewayNames
           /\ Parse(content).gateways[g].namespace \in Namespaces
           /\ Parse(content).gateways[g].service \in Services
           /\ Parse(content).gateways[g].port \in Ports
BY ParsedIsValid DEF IsConfig, IsMap, Validate, GatewayValid, GatewayType, Optional

\* A cluster that was selected is one of the configured ones or none.
LEMMA ClusterTyped ==
    ASSUME NEW content \in Contents, Parse(content) # Error, NEW i \in Invocation
    PROVE  /\ selectedCluster(Parse(content), i) # Error =>
                  selectedCluster(Parse(content), i) \in ClusterType
           /\ kubernetesContext(Parse(content), i.context) \in Optional(KubeContexts)
<1>. DEFINE cfg == Parse(content)
<1>1. \A c \in DOMAIN cfg.clusters : cfg.clusters[c] \in ClusterType
  BY ParsedIsValid DEF IsConfig, IsMap
<1>. HIDE DEF cfg
<1>2. \A x : ClusterOfContext(cfg, x) # Error =>
                 ClusterOfContext(cfg, x) \in ClusterType
  BY <1>1 DEF ClusterOfContext
<1>3. NoCluster \in ClusterType BY DEF NoCluster, ClusterType, ProxyType, Optional
<1>4. selectedCluster(cfg, i) # Error => selectedCluster(cfg, i) \in ClusterType
  BY <1>1, <1>2, <1>3 DEF selectedCluster
<1>5. kubernetesContext(cfg, i.context) \in Optional(KubeContexts)
  <2>1. \A c \in ClusterType : c.context \in Optional(KubeContexts) BY DEF ClusterType
  <2>2. None \in Optional(KubeContexts) BY DEF Optional
  <2>. QED BY <1>2, <2>1, <2>2 DEF kubernetesContext
<1>. QED BY <1>4, <1>5 DEF cfg

\* What Prepare records is complete and names a configured gateway.
LEMMA PreparedTyped ==
    ASSUME NEW content \in Contents, Parse(content) # Error, NEW i \in Invocation,
           Prepare(Parse(content), i) # Error
    PROVE  /\ Prepare(Parse(content), i) \in SessionType
           /\ Prepare(Parse(content), i).gateway \in DOMAIN Parse(content).gateways
<1>. DEFINE cfg == Parse(content)
            ref == HostKeyRef(i.target, cfg.targets[i.target])
            g   == GatewayName(cfg, i)
<1>1. /\ g \in DOMAIN cfg.gateways
      /\ StringAt(cfg.hostKeys, ref) # None
      /\ Prepare(cfg, i) =
            [gateway |-> g, namespace |-> cfg.gateways[g].namespace,
             kubernetesContext |-> kubernetesContext(cfg, i.context),
             hostKey |-> StringAt(cfg.hostKeys, ref)]
  BY DEF Prepare
<1>2. g \in GatewayNames /\ cfg.gateways[g].namespace \in Namespaces
  BY <1>1, GatewayTyped
<1>3. kubernetesContext(cfg, i.context) \in Optional(KubeContexts) BY ClusterTyped
<1>4. StringAt(cfg.hostKeys, ref) \in Keys
  BY <1>1, ParsedIsValid DEF StringAt, IsConfig, IsMap, Optional
<1>. HIDE DEF cfg, ref, g
<1>5. Prepare(cfg, i) \in SessionType /\ Prepare(cfg, i).gateway = g
  BY <1>1, <1>2, <1>3, <1>4 DEF SessionType
<1>. QED BY <1>1, <1>5 DEF cfg

-----------------------------------------------------------------------------
\* Setting a variable leaves an environment an environment.
LEMMA SetTyped ==
    ASSUME NEW w \in BOOLEAN, NEW env \in Seq(Slot), NEW key \in EnvKeys,
           NEW value \in EnvValues
    PROVE  set(w, env, key, value) \in Seq(Slot)
<1>. DEFINE entry == [key |-> key, value |-> value]
            least == CHOOSE n \in Hits(w, env, key) :
                         \A m \in Hits(w, env, key) : n <= m
<1>1. entry \in Slot BY DEF Entry, Slot, Optional
<1>2. set(w, env, key, value) =
          IF Hits(w, env, key) = {} THEN Append(env, entry)
          ELSE [env EXCEPT ![least] = entry]
  BY DEF set
<1>. HIDE DEF entry, least
<1>3. [env EXCEPT ![least] = entry] \in Seq(Slot)
  <2>1. env \in [1..Len(env) -> Slot] /\ Len(env) \in Nat OBVIOUS
  <2>2. [env EXCEPT ![least] = entry] \in [1..Len(env) -> Slot] BY <1>1, <2>1
  <2>. QED BY <2>1, <2>2
<1>4. Append(env, entry) \in Seq(Slot) BY <1>1
<1>. QED BY <1>2, <1>3, <1>4

\* The environment of kubectl is made of entries.
LEMMA BaseEnvTyped ==
    ASSUME NEW w \in BOOLEAN, NEW env \in Seq(Slot), NEW proxy \in ProxyType,
           NEW kubeconfig \in Optional(EnvValues)
    PROVE  kubectlBaseEnv(w, env, proxy, kubeconfig) \in Seq(Slot)
<1>1. \A name \in EnvNames : Upper(name) \in EnvKeys /\ Lower(name) \in EnvKeys
  BY DEF Upper, Lower, EnvKeys
<1>2. ASSUME NEW e \in Seq(Slot), NEW name \in EnvNames,
             NEW value \in Optional(EnvValues)
      PROVE  SetProxy(w, e, name, value) \in Seq(Slot)
  <2>1. CASE value = None BY <2>1 DEF SetProxy
  <2>2. CASE value # None
    <3>1. value \in EnvValues BY <2>2 DEF Optional
    <3>2. set(w, e, Upper(name), value) \in Seq(Slot) BY <1>1, <3>1, SetTyped
    <3>3. set(w, set(w, e, Upper(name), value), Lower(name), value) \in Seq(Slot)
      BY <1>1, <3>1, <3>2, SetTyped
    <3>. QED BY <2>2, <3>2, <3>3 DEF SetProxy
  <2>. QED BY <2>1, <2>2
<1>3. BuildEnv(w, env, proxy) \in Seq(Slot)
  <2>. DEFINE http  == SetProxy(w, env, "HTTP_PROXY", proxy.http)
              https == SetProxy(w, http, "HTTPS_PROXY", proxy.https)
              no    == SetProxy(w, https, "NO_PROXY", proxy.no)
  <2>1. /\ proxy.http \in Optional(EnvValues) /\ proxy.https \in Optional(EnvValues)
        /\ proxy.no \in Optional(EnvValues)
    BY DEF ProxyType
  <2>2. {"HTTP_PROXY", "HTTPS_PROXY", "NO_PROXY"} \subseteq EnvNames BY DEF EnvNames
  <2>3. http \in Seq(Slot) BY <1>2, <2>1, <2>2
  <2>. HIDE DEF http
  <2>4. https \in Seq(Slot) BY <1>2, <2>1, <2>2, <2>3
  <2>. HIDE DEF https
  <2>5. no \in Seq(Slot) BY <1>2, <2>1, <2>2, <2>4
  <2>6. BuildEnv(w, env, proxy) = IF ~proxy.enabled THEN env ELSE no
    BY DEF BuildEnv, no, https, http
  <2>. QED BY <2>5, <2>6
<1>4. kubeconfig # None =>
          set(w, BuildEnv(w, env, proxy), Upper("KUBECONFIG"), kubeconfig) \in Seq(Slot)
  BY <1>1, <1>3, SetTyped DEF Optional, EnvNames
<1>. QED BY <1>3, <1>4 DEF kubectlBaseEnv

\* A set of positions has a first and, up to a bound, a last element.
LEMMA LeastExists ==
    ASSUME NEW S \in SUBSET Nat, S # {}
    PROVE  \E n \in S : \A m \in S : n <= m
<1>. DEFINE Less == {p \in Nat \X Nat : p[1] < p[2]}
<1>1. IsWellFoundedOn(Less, Nat) BY NatLessThanWellFounded DEF OpToRel
<1>2. \E n \in S : \A m \in S : <<m, n>> \notin Less
  <2>. HIDE DEF Less
  <2>. QED BY <1>1, WFMin
<1>3. PICK n \in S : \A m \in S : <<m, n>> \notin Less BY <1>2
<1>4. ASSUME NEW m \in S PROVE n <= m
  <2>1. m \in Nat /\ n \in Nat OBVIOUS
  <2>2. <<m, n>> \in Less <=> m < n BY <2>1
  <2>. QED BY <1>3, <2>1, <2>2
<1>. QED BY <1>4

LEMMA GreatestExists ==
    ASSUME NEW len \in Nat, NEW S \in SUBSET (1..len), S # {}
    PROVE  \E n \in S : \A m \in S : m <= n
<1>. DEFINE T == {len - n : n \in S}
<1>1. T \in SUBSET Nat /\ T # {}
  <2>1. PICK k \in S : TRUE OBVIOUS
  <2>2. len - k \in T OBVIOUS
  <2>3. \A n \in S : len - n \in Nat OBVIOUS
  <2>. QED BY <2>2, <2>3
<1>2. PICK t \in T : \A u \in T : t <= u
  <2>. HIDE DEF T
  <2>. QED BY <1>1, LeastExists
<1>3. PICK n \in S : t = len - n OBVIOUS
<1>4. ASSUME NEW m \in S PROVE m <= n
  <2>1. len - m \in T /\ m \in Int /\ n \in Int OBVIOUS
  <2>2. t <= len - m BY <1>2, <2>1
  <2>. QED BY <1>3, <2>1, <2>2
<1>. QED BY <1>4

\* A search for kubectl that succeeds ends at a program.
LEMMA ResolvedIsProgram ==
    ASSUME NEW exe \in SUBSET Programs, NEW flag \in Optional(Programs),
           NEW env \in Optional(Programs), NEW configured \in Optional(Programs),
           ResolveLocalExecutable(flag, env, configured, exe) # Error
    PROVE  ResolveLocalExecutable(flag, env, configured, exe) \in Programs
<1>. DEFINE given == IF flag # None THEN flag ELSE IF env # None THEN env ELSE configured
            hits  == {n \in DOMAIN SearchOrder :
                         executablePathForOS(SearchOrder[n], exe) # Error}
            least == CHOOSE n \in hits : \A m \in hits : n <= m
            found == SearchOrder[least]
<1>1. ResolveLocalExecutable(flag, env, configured, exe) =
          IF given # None THEN ResolveExecutableForOS(given, exe)
          ELSE IF hits = {} THEN Error ELSE found
  BY DEF ResolveLocalExecutable
<1>2. CASE given # None
  BY <1>1, <1>2 DEF ResolveExecutableForOS, executablePathForOS
<1>3. CASE given = None
  <2>1. hits # {} BY <1>1, <1>3
  <2>2. \E n \in hits : \A m \in hits : n <= m
    <3>1. hits \subseteq Nat BY ProcessAssumption
    <3>. HIDE DEF hits
    <3>. QED BY <2>1, <3>1, LeastExists
  <2>3. least \in hits BY <2>2
  <2>. HIDE DEF least
  <2>4. found \in exe BY <2>3 DEF executablePathForOS
  <2>. QED BY <1>1, <1>3, <2>1, <2>4
<1>. QED BY <1>2, <1>3

\* The program is another one only where none was named.
LEMMA NamedIsAnswer ==
    ASSUME NEW exe, NEW exe2, NEW flag, NEW env, NEW configured,
           {flag, env, configured} # {None},
           ResolveLocalExecutable(flag, env, configured, exe) # Error,
           ResolveLocalExecutable(flag, env, configured, exe2) # Error
    PROVE  ResolveLocalExecutable(flag, env, configured, exe) =
               ResolveLocalExecutable(flag, env, configured, exe2)
BY DEF ResolveLocalExecutable, ResolveExecutableForOS, executablePathForOS

-----------------------------------------------------------------------------
\* What connect has recorded and probed follows from the content it has loaded.
RecordInv ==
    phase \in {"prepared", "running", "exited"} =>
        /\ loaded # None /\ inv.home
        /\ Resolved(Parse(loaded.content), inv, loaded.programs)
        /\ session = Prepare(Parse(loaded.content), inv)
        /\ checked = Forward(session.namespace,
                             Parse(loaded.content).gateways[session.gateway],
                             inv, selectedCluster(Parse(loaded.content), inv),
                             loaded.programs)

\* The environment stays one that os.Environ returns.
EnvironInv == IsEnviron(inv.windows, inv.environ)

ConfigInv ==
    TypeOK /\ EnvironInv /\ RecordInv /\ TunnelAsPreflighted /\ NamedKubectlPinned

\* The kubectl of a valid file, with its environment and arguments, is complete.
LEMMA ForwardTyped ==
    ASSUME NEW content \in Contents, Parse(content) # Error, NEW i \in Invocation,
           selectedCluster(Parse(content), i) # Error, NEW exe \in SUBSET Programs,
           kubectlPath(i, selectedCluster(Parse(content), i), exe) # Error,
           NEW n \in Namespaces, NEW g \in DOMAIN Parse(content).gateways
    PROVE  Forward(n, Parse(content).gateways[g], i, selectedCluster(Parse(content), i),
                   exe) \in ForwardType
<1>. DEFINE c == selectedCluster(Parse(content), i)
            gateway == Parse(content).gateways[g]
<1>1. gateway.service \in Services /\ gateway.port \in Ports BY GatewayTyped
<1>2. c \in ClusterType BY ClusterTyped
<1>. HIDE DEF c, gateway
<1>3. /\ c.context \in Optional(KubeContexts) /\ c.kubeconfig \in Optional(EnvValues)
      /\ c.kubectlPath \in Optional(Programs) /\ c.proxy \in ProxyType
  BY <1>2 DEF ClusterType
<1>4. /\ i.kubectl \in Optional(Programs) /\ i.kubectlEnv \in Optional(Programs)
      /\ i.windows \in BOOLEAN /\ i.environ \in Seq(Slot)
  BY DEF Invocation
<1>5. kubectlPath(i, c, exe) \in Programs
  BY <1>3, <1>4, ResolvedIsProgram DEF kubectlPath, c
<1>6. kubectlBaseEnv(i.windows, i.environ, c.proxy, c.kubeconfig) \in Seq(Slot)
  BY <1>3, <1>4, BaseEnvTyped
<1>7. Forward(n, gateway, i, c, exe) \in ForwardType
  BY <1>1, <1>3, <1>5, <1>6 DEF Forward, ForwardType
<1>. QED BY <1>7 DEF c, gateway

\* os/exec passes an environment on as it is, if it holds no variable twice.
AllOnce(i) == \A key \in EnvKeys : HeldOnce(i.windows, i.environ, key)

LEMMA InheritedTyped ==
    ASSUME NEW i \in Invocation
    PROVE  /\ Inherited(i.windows, i.environ) \in Seq(Slot)
           /\ AllOnce(i) => Inherited(i.windows, i.environ) = i.environ
<1>. DEFINE env == i.environ
            new == Inherited(i.windows, env)
<1>1. env \in Seq(Slot) BY DEF Invocation
<1>2. /\ new \in [1..Len(env) -> Slot] /\ Len(env) \in Nat
      /\ env \in [1..Len(env) -> Slot]
  <2>1. env \in [1..Len(env) -> Slot] /\ Len(env) \in Nat BY <1>1
  <2>2. \A n \in 1..Len(env) : env[n] \in Slot /\ None \in Slot
    BY <2>1 DEF Slot, Optional
  <2>. QED BY <2>1, <2>2 DEF Inherited
<1>3. new \in Seq(Slot) BY <1>2
<1>4. ASSUME AllOnce(i), NEW n \in 1..Len(env) PROVE new[n] = env[n]
  <2>1. CASE env[n] = None BY <1>2, <2>1 DEF Inherited
  <2>2. CASE env[n] # None
    <3>1. env[n].key \in EnvKeys BY <1>2, <2>2 DEF Slot, Optional, Entry
    <3>2. n \in Hits(i.windows, env, env[n].key) BY <1>2, <2>2 DEF Hits, hasEnvKey
    <3>3. \A m \in Hits(i.windows, env, env[n].key) : m = n
      BY <1>4, <3>1, <3>2 DEF AllOnce, HeldOnce
    <3>4. ~\E m \in Hits(i.windows, env, env[n].key) : m > n BY <3>3
    <3>. QED BY <1>2, <3>4 DEF Inherited
  <2>. QED BY <2>1, <2>2
<1>. HIDE DEF new
<1>5. AllOnce(i) => new = env BY <1>2, <1>4
<1>. QED BY <1>3, <1>5 DEF new

\* The supervisor's command line names the loaded file and repeats the rest.
LEMMA SupervisorArgsTyped ==
    ASSUME NEW i \in Invocation, NEW p \in Paths
    PROVE  /\ supervisorArgs(i, p) \in Invocation
           /\ supervisorArgs(i, p).config = p
           /\ supervisorArgs(i, p).home = i.home
           /\ \A cfg : selectedCluster(cfg, supervisorArgs(i, p)) = selectedCluster(cfg, i)
           /\ \A c, exe : kubectlPath(supervisorArgs(i, p), c, exe) = kubectlPath(i, c, exe)
           /\ \A n, g, c, exe :
                 LET f == Forward(n, g, supervisorArgs(i, p), c, exe)
                     w == Forward(n, g, i, c, exe)
                 IN  [f EXCEPT !.env = w.env] = w /\ (AllOnce(i) => f = w)
<1>. DEFINE j == supervisorArgs(i, p)
<1>1. /\ j \in Invocation
      /\ j.config = p /\ j.home = i.home
      /\ j.cluster = i.cluster /\ j.context = i.context
      /\ j.kubectl = i.kubectl /\ j.kubectlEnv = i.kubectlEnv
      /\ j.windows = i.windows /\ (AllOnce(i) => j.environ = i.environ)
  BY InheritedTyped DEF supervisorArgs, Invocation, Optional
<1>. HIDE DEF j
<1>2. \A cfg : selectedCluster(cfg, j) = selectedCluster(cfg, i)
  BY <1>1 DEF selectedCluster
<1>3. \A c, exe : kubectlPath(j, c, exe) = kubectlPath(i, c, exe)
  BY <1>1 DEF kubectlPath
<1>4. ASSUME NEW n, NEW g, NEW c, NEW exe
      PROVE  LET f == Forward(n, g, j, c, exe)
                 w == Forward(n, g, i, c, exe)
             IN  [f EXCEPT !.env = w.env] = w /\ (AllOnce(i) => f = w)
  BY <1>1, <1>3 DEF Forward
<1>. QED BY <1>1, <1>2, <1>3, <1>4 DEF j

\* While the loaded file is unchanged the supervisor loads the same content.
LEMMA SupervisorLoadsSame ==
    ASSUME NEW fs \in FileMaps, NEW i \in Invocation, NEW p \in Paths,
           i.home, fs[p] \in Contents
    PROVE  Load(fs, supervisorArgs(i, p)).config = Parse(fs[p])
<1>. DEFINE j == supervisorArgs(i, p)
<1>1. j \in Invocation /\ j.config = p /\ j.home BY SupervisorArgsTyped
<1>2. p # None /\ p # Error BY ConfigurationAssumption
<1>3. fs[p] # Absent BY ContentAssumption
<1>. HIDE DEF j
<1>4. FirstPresent(fs, j) = p BY <1>1, <1>2, <1>3, FlagWins
<1>5. Load(fs, j).config = Parse(fs[p]) BY <1>1, <1>2, <1>4 DEF Load
<1>. QED BY <1>5 DEF j

LEMMA InitConfigInv == Init => ConfigInv
<1>. SUFFICES ASSUME Init PROVE ConfigInv OBVIOUS
<1>1. PICK s \in Situations :
          files = s.files /\ inv = s.inv /\ programs = s.programs
  BY DEF Init
<1>2. /\ files \in [Paths -> Contents \cup {Absent, Bad}] /\ inv \in Invocation
      /\ programs \subseteq Programs
  BY <1>1, ContentAssumption
<1>3. edits \in 0..EditBound BY ConfigurationAssumption DEF Init
<1>4. EnvironInv BY <1>1, ContentAssumption DEF EnvironInv
<1>. QED BY <1>2, <1>3, <1>4
  DEF Init, ConfigInv, TypeOK, RecordInv, TunnelAsPreflighted, NamedKubectlPinned, Optional

LEMMA ConnectConfigInv == ConfigInv /\ Connect => ConfigInv'
<1>. SUFFICES ASSUME ConfigInv, Connect PROVE ConfigInv' OBVIOUS
<1>. DEFINE l   == Load(files, inv)
            cfg == l.config
<1>1. /\ Resolved(cfg, inv, programs)
      /\ phase' = "prepared"
      /\ loaded' = [path |-> l.path, content |-> files[l.path], programs |-> programs]
      /\ session' = Prepare(cfg, inv)
      /\ checked' = Forward(session'.namespace, cfg.gateways[session'.gateway],
                            inv, selectedCluster(cfg, inv), programs)
      /\ UNCHANGED <<files, inv, programs, forwarded, edits>>
  BY DEF Connect
<1>2. files \in FileMaps /\ inv \in Invocation /\ programs \in SUBSET Programs
  BY DEF ConfigInv, TypeOK, FileMaps
<1>3. /\ cfg # Error /\ selectedCluster(cfg, inv) # Error /\ Prepare(cfg, inv) # Error
      /\ kubectlPath(inv, selectedCluster(cfg, inv), programs) # Error
  BY <1>1 DEF Resolved
<1>4. /\ inv.home /\ l.path \in Paths /\ files[l.path] \in Contents
      /\ cfg = Parse(files[l.path])
  BY <1>2, <1>3, LoadedIsParsed
<1>. HIDE DEF l, cfg
<1>5. session' \in SessionType /\ session'.gateway \in DOMAIN cfg.gateways
  BY <1>1, <1>2, <1>3, <1>4, PreparedTyped
<1>6. checked' \in ForwardType
  <2>1. session'.namespace \in Namespaces BY <1>5 DEF SessionType
  <2>. QED BY <1>1, <1>2, <1>3, <1>4, <1>5, <2>1, ForwardTyped
<1>7. /\ loaded' \in LoadedType
      /\ loaded'.content = files[l.path] /\ loaded'.programs = programs
  BY <1>1, <1>2, <1>4 DEF LoadedType
<1>8. loaded' # None BY <1>7, ContentAssumption
<1>9. TypeOK' BY <1>1, <1>5, <1>6, <1>7 DEF ConfigInv, TypeOK, Optional
<1>10. RecordInv' BY <1>1, <1>4, <1>7, <1>8 DEF RecordInv, Resolved
<1>11. TunnelAsPreflighted' /\ NamedKubectlPinned'
  BY <1>1 DEF TunnelAsPreflighted, NamedKubectlPinned
<1>12. EnvironInv' BY <1>1 DEF ConfigInv, EnvironInv
<1>. QED BY <1>9, <1>10, <1>11, <1>12 DEF ConfigInv

LEMMA SupervisorConfigInv ==
    ConfigInv /\ (SupervisorStarts \/ SupervisorExits) => ConfigInv'
<1>. SUFFICES ASSUME ConfigInv, SupervisorStarts \/ SupervisorExits PROVE ConfigInv'
  OBVIOUS
<1>. DEFINE i   == supervisorArgs(inv, loaded.path)
            cfg == Load(files, i).config
            was == Parse(loaded.content)
            Same == files[loaded.path] = loaded.content
<1>1. /\ phase = "prepared"
      /\ UNCHANGED <<files, inv, programs, loaded, session, checked, edits>>
  BY DEF SupervisorStarts, SupervisorExits
<1>2. files \in FileMaps /\ inv \in Invocation /\ programs \in SUBSET Programs
  BY DEF ConfigInv, TypeOK, FileMaps
<1>3. /\ loaded.path \in Paths /\ loaded.content \in Contents
      /\ inv.home /\ Resolved(was, inv, loaded.programs)
      /\ session = Prepare(was, inv)
      /\ checked = Forward(session.namespace, was.gateways[session.gateway],
                           inv, selectedCluster(was, inv), loaded.programs)
  BY <1>1 DEF ConfigInv, TypeOK, RecordInv, Optional, LoadedType
<1>4. session \in SessionType /\ session.gateway \in DOMAIN was.gateways
  BY <1>2, <1>3, PreparedTyped DEF Resolved
<1>5. /\ i \in Invocation /\ \A c : selectedCluster(c, i) = selectedCluster(c, inv)
      /\ \A c, exe : kubectlPath(i, c, exe) = kubectlPath(inv, c, exe)
      /\ \A n, g, c, exe :
            LET f == Forward(n, g, i, c, exe)
                w == Forward(n, g, inv, c, exe)
            IN  [f EXCEPT !.env = w.env] = w /\ (AllOnce(inv) => f = w)
  BY <1>2, <1>3, SupervisorArgsTyped
<1>6. Same => cfg = was BY <1>2, <1>3, SupervisorLoadsSame
<1>. HIDE DEF was
<1>7. Same /\ programs = loaded.programs => Supervised(cfg, i, programs)
  BY <1>3, <1>4, <1>5, <1>6 DEF Supervised, Resolved
<1>10. EnvironInv' BY <1>1 DEF ConfigInv, EnvironInv
<1>8. CASE SupervisorStarts
  <2>1. /\ phase' = "running" /\ Supervised(cfg, i, programs)
        /\ forwarded' = Forward(session.namespace, cfg.gateways[session.gateway],
                                i, selectedCluster(cfg, i), programs)
    BY <1>8 DEF SupervisorStarts
  <2>2. /\ cfg # Error /\ selectedCluster(cfg, i) # Error
        /\ session.gateway \in DOMAIN cfg.gateways
        /\ kubectlPath(i, selectedCluster(cfg, i), programs) # Error
    BY <2>1 DEF Supervised
  <2>3. forwarded' \in ForwardType
    <3>1. \E content \in Contents : cfg = Parse(content)
      BY <1>2, <1>5, <2>2, LoadedIsParsed
    <3>2. session.namespace \in Namespaces BY <1>4 DEF SessionType
    <3>. HIDE DEF cfg, i
    <3>. QED BY <1>2, <1>5, <2>1, <2>2, <3>1, <3>2, ForwardTyped
  <2>. HIDE DEF cfg, i
  <2>4. Same /\ programs = loaded.programs =>
           /\ [forwarded' EXCEPT !.env = checked.env] = checked
           /\ AllOnce(inv) => forwarded' = checked
    BY <1>3, <1>5, <1>6, <2>1
  <2>10. (inv.windows => \A key \in EnvKeys : HeldOnce(inv.windows, inv.environ, key))
            => AllOnce(inv)
    BY DEF ConfigInv, EnvironInv, IsEnviron, AllOnce
  <2>5. ASSUME Same,
               {inv.kubectl, inv.kubectlEnv, selectedCluster(was, inv).kubectlPath} # {None}
        PROVE  forwarded'.path = checked.path
    <3>1. forwarded'.path = kubectlPath(inv, selectedCluster(was, inv), programs)
      <4>1. forwarded' = Forward(session.namespace, was.gateways[session.gateway],
                                 i, selectedCluster(was, inv), programs)
        BY <1>5, <1>6, <2>1, <2>5
      <4>2. forwarded'.path = kubectlPath(i, selectedCluster(was, inv), programs)
        BY <4>1 DEF Forward
      <4>. QED BY <1>5, <4>2
    <3>2. checked.path = kubectlPath(inv, selectedCluster(was, inv), loaded.programs)
      BY <1>3 DEF Forward
    <3>3. /\ kubectlPath(inv, selectedCluster(was, inv), programs) # Error
          /\ kubectlPath(inv, selectedCluster(was, inv), loaded.programs) # Error
      BY <1>3, <1>5, <1>6, <2>2, <2>5 DEF Resolved
    <3>. QED BY <2>5, <3>1, <3>2, <3>3, NamedIsAnswer DEF kubectlPath
  <2>6. TypeOK' BY <1>1, <2>1, <2>3 DEF ConfigInv, TypeOK, Optional
  <2>7. RecordInv' BY <1>1 DEF ConfigInv, RecordInv, Resolved
  <2>8. TunnelAsPreflighted' BY <1>1, <2>1, <2>4, <2>10 DEF TunnelAsPreflighted
  <2>9. NamedKubectlPinned' BY <1>1, <2>5 DEF NamedKubectlPinned, was
  <2>. QED BY <1>10, <2>6, <2>7, <2>8, <2>9 DEF ConfigInv
<1>9. CASE SupervisorExits
  <2>1. phase' = "exited" /\ ~Supervised(cfg, i, programs) /\ forwarded' = forwarded
    BY <1>9 DEF SupervisorExits
  <2>. HIDE DEF cfg, i
  <2>4. TypeOK' BY <1>1, <2>1 DEF ConfigInv, TypeOK
  <2>5. RecordInv' BY <1>1 DEF ConfigInv, RecordInv, Resolved
  <2>6. TunnelAsPreflighted' /\ NamedKubectlPinned'
    BY <1>1, <1>7, <2>1 DEF TunnelAsPreflighted, NamedKubectlPinned
  <2>. QED BY <1>10, <2>4, <2>5, <2>6 DEF ConfigInv
<1>. QED BY <1>8, <1>9

LEMMA EditConfigInv == ConfigInv /\ (EditFile \/ EditProgram) => ConfigInv'
<1>. SUFFICES ASSUME ConfigInv, EditFile \/ EditProgram PROVE ConfigInv' OBVIOUS
<1>1. /\ phase = "prepared" /\ edits < EditBound /\ edits' = edits + 1
      /\ UNCHANGED <<inv, phase, loaded, session, checked, forwarded>>
  BY DEF EditFile, EditProgram
<1>2. /\ files' \in [Paths -> Contents \cup {Absent, Bad}]
      /\ programs' \subseteq Programs
  <2>1. CASE EditFile BY <2>1, ContentAssumption DEF EditFile, ConfigInv, TypeOK
  <2>2. CASE EditProgram BY <2>2 DEF EditProgram, ConfigInv, TypeOK
  <2>. QED BY <2>1, <2>2
<1>3. edits' \in 0..EditBound
  BY <1>1, ConfigurationAssumption DEF ConfigInv, TypeOK
<1>4. TypeOK' BY <1>1, <1>2, <1>3 DEF ConfigInv, TypeOK
<1>5. RecordInv' BY <1>1 DEF ConfigInv, RecordInv, Resolved
<1>6. TunnelAsPreflighted' /\ NamedKubectlPinned'
  BY <1>1 DEF TunnelAsPreflighted, NamedKubectlPinned
<1>7. EnvironInv' BY <1>1 DEF ConfigInv, EnvironInv
<1>. QED BY <1>4, <1>5, <1>6, <1>7 DEF ConfigInv

LEMMA ConfigInvariant == Spec => []ConfigInv
<1>1. ConfigInv /\ [Next]_vars => ConfigInv'
  <2>. SUFFICES ASSUME ConfigInv, [Next]_vars PROVE ConfigInv' OBVIOUS
  <2>1. CASE ConnectFails
    BY <2>1 DEF ConnectFails, ConfigInv, TypeOK, EnvironInv, RecordInv,
                TunnelAsPreflighted, NamedKubectlPinned
  <2>2. CASE UNCHANGED vars
    BY <2>2 DEF vars, ConfigInv, TypeOK, EnvironInv, RecordInv, TunnelAsPreflighted,
                NamedKubectlPinned, Resolved
  <2>. QED BY <2>1, <2>2, ConnectConfigInv, EditConfigInv, SupervisorConfigInv DEF Next
<1>. QED BY <1>1, InitConfigInv, PTL DEF Spec

\* Every choice connect and the supervisor record or pass on has its type, so
\* that a Kubernetes context is never the name of a dev-connect context, and no
\* namespace, service or host key is empty.
THEOREM TypeCorrect == Spec => []TypeOK
<1>1. ConfigInv => TypeOK BY DEF ConfigInv
<1>. QED BY <1>1, ConfigInvariant, PTL

\* For all files, invocations, installed programs and edits: while the file
\* connect has loaded and the programs are unchanged, the supervisor runs the
\* kubectl, with the arguments and, if no variable stands in it twice, with the
\* environment that the preflight has probed with.
THEOREM SupervisorFollowsConnect == Spec => []TunnelAsPreflighted
<1>1. ConfigInv => TunnelAsPreflighted BY DEF ConfigInv
<1>. QED BY <1>1, ConfigInvariant, PTL

\* For all files, invocations and edits: a kubectl that was named is the one the
\* supervisor runs, whatever is installed or removed after the preflight.
THEOREM KubectlPinned == Spec => []NamedKubectlPinned
<1>1. ConfigInv => NamedKubectlPinned BY DEF ConfigInv
<1>. QED BY <1>1, ConfigInvariant, PTL

\* For all files and invocations: an existing file that `config location' prints
\* is the one that connect loads.
THEOREM LocationCorrect == Spec => []LocationIsLoaded
<1>1. ConfigInv => LocationIsLoaded
  <2>. SUFFICES ASSUME ConfigInv PROVE LocationIsLoaded OBVIOUS
  <2>1. files \in FileMaps /\ inv \in Invocation BY DEF ConfigInv, TypeOK, FileMaps
  <2>. QED BY <2>1, LocationAgrees DEF LocationIsLoaded
<1>. QED BY <1>1, ConfigInvariant, PTL

-----------------------------------------------------------------------------
(* The context. *)

\* Without --cluster, the tunnel goes to the cluster of the context that `list'
\* prints as the default one; for all files and invocations.
THEOREM ListedContextIsUsed == Spec => []ContextAsListed
<1>1. ConfigInv => ContextAsListed
  <2>. SUFFICES ASSUME ConfigInv, phase = "prepared", inv.cluster = None PROVE ContextAsListed
    BY DEF ContextAsListed
  <2>. DEFINE cfg == Parse(loaded.content)
              x   == defaultContextName(cfg, inv)
              c   == selectedCluster(cfg, inv)
  <2>1. /\ loaded.content \in Contents /\ inv \in Invocation
        /\ cfg # Error /\ c # Error /\ Prepare(cfg, inv) # Error
        /\ session = Prepare(cfg, inv)
        /\ checked.context = c.context
    BY DEF ConfigInv, TypeOK, RecordInv, Resolved, Optional, LoadedType, Forward
  <2>2. DOMAIN cfg.contexts \subseteq ContextNames
    BY <2>1, ParsedIsValid DEF IsConfig, IsMap
  <2>3. session.kubernetesContext = kubernetesContext(cfg, inv.context)
    BY <2>1 DEF Prepare
  <2>. HIDE DEF cfg
  <2>4. CASE inv.context # None
    <3>1. x = inv.context /\ c = ClusterOfContext(cfg, x)
      BY <2>4 DEF defaultContextName, selectedCluster
    <3>2. c = cfg.clusters[cfg.contexts[x].cluster] BY <2>1, <3>1 DEF ClusterOfContext
    <3>3. kubernetesContext(cfg, inv.context) = c.context
      BY <2>1, <2>4, <3>1 DEF kubernetesContext
    <3>. QED BY <2>1, <2>3, <2>4, <3>1, <3>2, <3>3 DEF ContextAsListed, cfg
  <2>5. CASE inv.context = None /\ DOMAIN cfg.contexts = {}
    <3>1. x = None BY <2>5, FS_EmptySet DEF defaultContextName
    <3>2. c.context = None BY <2>5 DEF selectedCluster, NoCluster
    <3>3. kubernetesContext(cfg, inv.context) = None BY <2>5 DEF kubernetesContext
    <3>. QED BY <2>1, <2>3, <3>1, <3>2, <3>3 DEF ContextAsListed, cfg
  <2>6. CASE inv.context = None /\ DOMAIN cfg.contexts # {}
    <3>1. x = TheOnly(DOMAIN cfg.contexts) /\ c = ClusterOfContext(cfg, x)
      BY <2>1, <2>6 DEF defaultContextName, selectedCluster
    <3>2. x \in DOMAIN cfg.contexts /\ c = cfg.clusters[cfg.contexts[x].cluster]
      BY <2>1, <3>1 DEF ClusterOfContext
    <3>3. x # None BY <2>2, <3>2, ConfigurationAssumption
    <3>4. kubernetesContext(cfg, inv.context) = None BY <2>6 DEF kubernetesContext
    <3>. QED BY <2>1, <2>3, <3>2, <3>3, <3>4 DEF ContextAsListed, cfg
  <2>. QED BY <2>4, <2>5, <2>6
<1>. QED BY <1>1, ConfigInvariant, PTL

-----------------------------------------------------------------------------
(* Failures. *)

\* Every lookup of connect in a valid file with gateways, clusters and host keys
\* finds something, unless the user has given a name or has to choose.
LEMMA ValidAnswers ==
    ASSUME NEW content \in Contents, Parse(content) # Error, NEW i \in Invocation,
           DOMAIN content.gateways # {}, DOMAIN content.clusters # {},
           DOMAIN content.hostKeys # {},
           i.target \in DOMAIN Parse(content).targets,
           i.gateway \in Optional(DOMAIN content.gateways),
           i.cluster \in Optional(DOMAIN content.clusters),
           i.context \in Optional(DOMAIN content.contexts),
           ~(i.context = None /\ Cardinality(DOMAIN content.contexts) > 1)
    PROVE  selectedCluster(Parse(content), i) # Error /\ Prepare(Parse(content), i) # Error
<1>. DEFINE cfg == Parse(content)
            t   == i.target
<1>1. /\ cfg.clusters = content.clusters /\ cfg.contexts = content.contexts
      /\ cfg.gateways = content.gateways /\ cfg.hostKeys = content.hostKeys
      /\ Validate(content) /\ IsConfig(content)
  BY ParsedIsValid
<1>2. cfg = WithHostKeyRefs(content) BY DEF Parse
<1>3. selectedCluster(cfg, i) # Error
  <2>. HIDE DEF cfg
  <2>1. \A k \in DOMAIN cfg.clusters : cfg.clusters[k] # Error
    BY <1>1, ConfigurationAssumption DEF IsConfig, IsMap
  <2>2. \A x \in DOMAIN cfg.contexts : ClusterOfContext(cfg, x) # Error
    <3>1. \A x \in DOMAIN content.contexts : content.contexts[x].cluster \in DOMAIN content.clusters
      BY <1>1 DEF Validate, ContextValid, Known
    <3>. QED BY <1>1, <2>1, <3>1 DEF ClusterOfContext
  <2>3. CASE i.cluster # None BY <1>1, <2>1, <2>3 DEF selectedCluster, Optional
  <2>4. CASE i.cluster = None /\ i.context # None
    BY <1>1, <2>2, <2>4 DEF selectedCluster, Optional
  <2>5. CASE i.cluster = None /\ i.context = None /\ DOMAIN cfg.contexts = {}
    <3>1. NoCluster \in ClusterType BY DEF NoCluster, ClusterType, ProxyType, Optional
    <3>. QED BY <2>5, <3>1, ConfigurationAssumption DEF selectedCluster
  <2>6. CASE i.cluster = None /\ i.context = None /\ DOMAIN cfg.contexts # {}
    <3>1. IsFiniteSet(DOMAIN cfg.contexts) BY <1>1, ContentAssumption
    <3>2. Cardinality(DOMAIN cfg.contexts) \in Nat /\ Cardinality(DOMAIN cfg.contexts) # 0
      BY <2>6, <3>1, FS_CardinalityType, FS_EmptySet
    <3>3. Cardinality(DOMAIN cfg.contexts) = 1 BY <1>1, <2>6, <3>2
    <3>4. \E x : DOMAIN cfg.contexts = {x} BY <3>1, <3>3, FS_Singleton
    <3>5. TheOnly(DOMAIN cfg.contexts) \in DOMAIN cfg.contexts BY <3>4 DEF TheOnly
    <3>. QED BY <2>2, <2>6, <3>3, <3>5 DEF selectedCluster
  <2>. QED BY <2>3, <2>4, <2>5, <2>6
<1>4. Prepare(cfg, i) # Error
  <2>. DEFINE refs == [u \in DOMAIN content.targets |->
         [content.targets[u] EXCEPT !.hostKeyRef = HostKeyRef(u, content.targets[u])]]
              old  == content.targets[t]
  <2>1. cfg.targets = refs
    <3>1. cfg = [content EXCEPT !.targets = refs] BY <1>2 DEF WithHostKeyRefs
    <3>. HIDE DEF refs, cfg
    <3>. QED BY <1>1, <3>1 DEF IsConfig
  <2>2. t \in DOMAIN content.targets BY <2>1
  <2>3. t \in HostKeyNames /\ old \in TargetType
    BY <1>1, <2>2, ConfigurationAssumption DEF IsConfig, IsMap
  <2>4. cfg.targets[t] = [old EXCEPT !.hostKeyRef = HostKeyRef(t, old)] BY <2>1, <2>2
  <2>5. /\ cfg.targets[t].gateway = old.gateway
        /\ cfg.targets[t].hostKeyRef = HostKeyRef(t, old)
    <3>. HIDE DEF old, cfg
    <3>. QED BY <2>3, <2>4 DEF TargetType
  <2>6. HostKeyRef(t, cfg.targets[t]) = HostKeyRef(t, old)
    <3>1. HostKeyRef(t, old) # None BY <2>3, ConfigurationAssumption DEF HostKeyRef
    <3>. QED BY <2>5, <3>1 DEF HostKeyRef
  <2>7. TargetValid(content, t) BY <1>1, <2>2 DEF Validate
  <2>8. GatewayName(cfg, i) \in DOMAIN cfg.gateways
    <3>1. old.gateway \in DOMAIN content.gateways BY <2>7 DEF TargetValid, Known
    <3>. QED BY <1>1, <2>5, <3>1 DEF GatewayName, Optional
  <2>9. StringAt(cfg.hostKeys, HostKeyRef(t, cfg.targets[t])) # None
    BY <1>1, <2>6, <2>7 DEF TargetValid, HostKeyValid
  <2>. DEFINE g == GatewayName(cfg, i)
              r == [gateway |-> g, namespace |-> cfg.gateways[g].namespace,
                    kubernetesContext |-> kubernetesContext(cfg, i.context),
                    hostKey |-> StringAt(cfg.hostKeys, HostKeyRef(t, cfg.targets[t]))]
  <2>10. Prepare(cfg, i) = r BY <2>8, <2>9 DEF Prepare
  <2>11. r \in SessionType
    <3>1. g \in GatewayNames /\ cfg.gateways[g].namespace \in Namespaces
      BY <2>8, GatewayTyped
    <3>2. kubernetesContext(cfg, i.context) \in Optional(KubeContexts) BY ClusterTyped
    <3>3. StringAt(cfg.hostKeys, HostKeyRef(t, cfg.targets[t])) \in Keys
      BY <1>1, <2>9 DEF StringAt, IsConfig, IsMap, Optional
    <3>. HIDE DEF g, cfg
    <3>. QED BY <3>1, <3>2, <3>3 DEF SessionType
  <2>. QED BY <2>10, <2>11, ConfigurationAssumption
<1>. QED BY <1>3, <1>4

\* connect has failed, on files and programs that are still the same.
FailedInv == phase = "failed" => ~Resolved(Load(files, inv).config, inv, programs)

LEMMA FailedInvariant == Spec => []FailedInv
<1>1. Init => FailedInv BY DEF Init, FailedInv
<1>2. FailedInv /\ [Next]_vars => FailedInv'
  <2>. SUFFICES ASSUME FailedInv, [Next]_vars, phase' = "failed"
                PROVE  ~Resolved(Load(files', inv').config, inv', programs')
    BY DEF FailedInv
  <2>1. /\ files' = files /\ inv' = inv /\ programs' = programs
        /\ ~Resolved(Load(files, inv).config, inv, programs)
    BY DEF Next, Connect, ConnectFails, EditFile, EditProgram, SupervisorStarts,
           SupervisorExits, FailedInv, vars
  <2>. QED BY <2>1
<1>. QED BY <1>1, <1>2, PTL DEF Spec

\* For all files and invocations: after a successful `config validate', connect
\* fails in the configuration only because of what the user has given, has to
\* choose, or has not installed.
THEOREM FailuresAreTheUsers == Spec => []FailureIsTheUsers
<1>1. ConfigInv /\ FailedInv => FailureIsTheUsers
  <2>. SUFFICES ASSUME ConfigInv, FailedInv PROVE FailureIsTheUsers OBVIOUS
  <2>. DEFINE cfg == Load(files, inv).config
  <2>. SUFFICES ASSUME phase = "failed", cfg # Error,
                       {} \notin {DOMAIN cfg.gateways, DOMAIN cfg.clusters,
                                 DOMAIN cfg.hostKeys},
                       inv.target \in DOMAIN cfg.targets,
                       inv.gateway \in Optional(DOMAIN cfg.gateways),
                       inv.cluster \in Optional(DOMAIN cfg.clusters),
                       inv.context \in Optional(DOMAIN cfg.contexts),
                       ~(inv.context = None /\ Cardinality(DOMAIN cfg.contexts) > 1),
                       kubectlPath(inv, selectedCluster(cfg, inv), programs) # Error
                PROVE  FALSE
    BY DEF FailureIsTheUsers
  <2>1. files \in FileMaps /\ inv \in Invocation BY DEF ConfigInv, TypeOK, FileMaps
  <2>2. PICK content \in Contents : cfg = Parse(content) BY <2>1, LoadedIsParsed
  <2>3. ~Resolved(cfg, inv, programs) BY DEF FailedInv
  <2>. HIDE DEF cfg
  <2>4. /\ cfg.clusters = content.clusters /\ cfg.contexts = content.contexts
        /\ cfg.gateways = content.gateways /\ cfg.hostKeys = content.hostKeys
    BY <2>2, ParsedIsValid
  <2>5. selectedCluster(cfg, inv) # Error /\ Prepare(cfg, inv) # Error
    BY <2>1, <2>2, <2>4, ValidAnswers
  <2>. QED BY <2>3, <2>5 DEF Resolved
<1>. QED BY <1>1, ConfigInvariant, FailedInvariant, PTL

-----------------------------------------------------------------------------
(* The environment. *)

\* Two keys that the system does not tell apart.
SameKey(w, k, key) == k.name = key.name /\ (w \/ k.lower = key.lower)

LEMMA SeenNone ==
    ASSUME NEW w, NEW env, NEW k, Hits(w, env, k) = {}
    PROVE  Seen(w, env, k) = None
BY DEF Seen

\* Two environments with the same entries of a variable.
LEMMA SeenSame ==
    ASSUME NEW w, NEW k, NEW env \in Seq(Slot), NEW new,
           Hits(w, new, k) = Hits(w, env, k),
           \A n \in Hits(w, env, k) : new[n] = env[n]
    PROVE  Seen(w, new, k) = Seen(w, env, k)
<1>. DEFINE hits == Hits(w, env, k)
            last == CHOOSE n \in hits : \A m \in hits : m <= n
<1>1. CASE hits = {} BY <1>1, SeenNone
<1>2. CASE hits # {}
  <2>1. hits \in SUBSET (1..Len(env)) /\ Len(env) \in Nat BY DEF Hits
  <2>2. \E n \in hits : \A m \in hits : m <= n
    <3>. HIDE DEF hits
    <3>. QED BY <1>2, <2>1, GreatestExists
  <2>3. last \in hits BY <2>2
  <2>4. Seen(w, env, k) = env[last].value /\ Seen(w, new, k) = new[last].value
    BY <1>2 DEF Seen
  <2>. HIDE DEF last
  <2>. QED BY <2>3, <2>4
<1>. QED BY <1>1, <1>2

\* A process sees the only entry of a variable.
LEMMA SeenIsTheOnly ==
    ASSUME NEW w \in BOOLEAN, NEW env, NEW k, NEW n \in Int, Hits(w, env, k) = {n}
    PROVE  Seen(w, env, k) = env[n].value
<1>1. n <= n OBVIOUS
<1>2. n = CHOOSE m \in Hits(w, env, k) : \A j \in Hits(w, env, k) : j <= m
  BY <1>1
<1>. QED BY <1>2 DEF Seen

\* Where set writes: over the first entry of the variable, or at the end.
WrittenAt(w, env, new, entry, at) ==
    /\ DOMAIN new = DOMAIN env \cup {at}
    /\ new[at] = entry
    /\ \A n \in DOMAIN env : n # at => new[n] = env[n]
    /\ at \in DOMAIN env => hasEnvKey(w, env[at], entry.key)
    /\ at \notin DOMAIN env => Hits(w, env, entry.key) = {}

LEMMA SetAt ==
    ASSUME NEW w \in BOOLEAN, NEW env \in Seq(Slot), NEW key \in EnvKeys,
           NEW value \in EnvValues
    PROVE  \E at \in Nat :
              WrittenAt(w, env, set(w, env, key, value), [key |-> key, value |-> value], at)
<1>. DEFINE entry == [key |-> key, value |-> value]
            new   == set(w, env, key, value)
            hits  == Hits(w, env, key)
            first == CHOOSE n \in hits : \A m \in hits : n <= m
<1>1. CASE hits = {}
  <2>1. new = Append(env, entry) BY <1>1 DEF set
  <2>. DEFINE last == Len(env) + 1
  <2>2. /\ last \in Nat /\ last \notin DOMAIN env
        /\ DOMAIN new = DOMAIN env \cup {last} /\ new[last] = entry
    BY <2>1
  <2>3. \A n \in DOMAIN env : new[n] = env[n] BY <2>1
  <2>4. entry.key = key OBVIOUS
  <2>. HIDE DEF new, last, entry
  <2>5. WrittenAt(w, env, new, entry, last) BY <1>1, <2>2, <2>3, <2>4 DEF WrittenAt
  <2>. QED BY <2>2, <2>5 DEF entry, new
<1>2. CASE hits # {}
  <2>1. hits \in SUBSET Nat BY DEF Hits
  <2>2. \E n \in hits : \A m \in hits : n <= m
    <3>. HIDE DEF hits
    <3>. QED BY <1>2, <2>1, LeastExists
  <2>3. first \in hits BY <2>2
  <2>4. new = [env EXCEPT ![first] = entry] BY <1>2 DEF set
  <2>5. first \in DOMAIN env /\ hasEnvKey(w, env[first], key) /\ first \in Nat
    BY <2>1, <2>3 DEF Hits
  <2>8. entry.key = key OBVIOUS
  <2>. HIDE DEF first, hits, entry
  <2>6. DOMAIN new = DOMAIN env \cup {first} /\ new[first] = entry BY <2>4, <2>5
  <2>7. \A n \in DOMAIN env : n # first => new[n] = env[n] BY <2>4, <2>5
  <2>. HIDE DEF new
  <2>9. WrittenAt(w, env, new, entry, first) BY <2>5, <2>6, <2>7, <2>8 DEF WrittenAt
  <2>. QED BY <2>5, <2>9 DEF entry, new
<1>. QED BY <1>1, <1>2

\* Setting a variable changes what is seen of it, in every spelling the system
\* takes for it, if there was at most one entry, and of no other variable.
LEMMA SetSeen ==
    ASSUME NEW w \in BOOLEAN, NEW env \in Seq(Slot), NEW key \in EnvKeys,
           NEW value \in EnvValues
    PROVE  /\ set(w, env, key, value) \in Seq(Slot)
           /\ \A k \in EnvKeys :
                 /\ HeldOnce(w, env, k) => HeldOnce(w, set(w, env, key, value), k)
                 /\ SameKey(w, k, key) /\ HeldOnce(w, env, k)
                       => Seen(w, set(w, env, key, value), k) = value
                 /\ ~SameKey(w, k, key)
                       => Seen(w, set(w, env, key, value), k) = Seen(w, env, k)
<1>. DEFINE entry == [key |-> key, value |-> value]
            new   == set(w, env, key, value)
<1>0. entry \in Entry /\ entry.key = key /\ entry.value = value BY DEF Entry
<1>1. new \in Seq(Slot) BY SetTyped
<1>. HIDE DEF new, entry
<1>5. PICK at \in Nat : WrittenAt(w, env, new, entry, at) BY SetAt DEF new, entry
<1>2. /\ DOMAIN new = DOMAIN env \cup {at}
      /\ new[at] = entry
      /\ \A n \in DOMAIN env : n # at => new[n] = env[n]
      /\ at \in DOMAIN env => hasEnvKey(w, env[at], key)
      /\ at \notin DOMAIN env => Hits(w, env, key) = {}
  BY <1>0, <1>5 DEF WrittenAt
<1>6. entry # None BY <1>0, ProcessAssumption
<1>3. ASSUME NEW k \in EnvKeys, SameKey(w, k, key)
      PROVE  /\ HeldOnce(w, env, k) => HeldOnce(w, new, k)
             /\ HeldOnce(w, env, k) => Seen(w, new, k) = value
  <2>. SUFFICES ASSUME HeldOnce(w, env, k)
                PROVE  HeldOnce(w, new, k) /\ Seen(w, new, k) = value
    OBVIOUS
  <2>1. at \in Hits(w, new, k) BY <1>0, <1>2, <1>3, <1>6 DEF Hits, hasEnvKey, SameKey
  <2>2. at \in DOMAIN env => at \in Hits(w, env, k)
    BY <1>2, <1>3 DEF Hits, hasEnvKey, SameKey
  <2>3. ASSUME NEW n \in Hits(w, new, k), n # at PROVE FALSE
    <3>1. n \in Hits(w, env, k) BY <1>2, <2>3 DEF Hits
    <3>2. at \notin DOMAIN env BY <2>2, <2>3, <3>1 DEF HeldOnce
    <3>3. Hits(w, env, key) # {}
      BY <1>3, <3>1 DEF Hits, hasEnvKey, SameKey
    <3>. QED BY <1>2, <3>2, <3>3
  <2>4. Hits(w, new, k) = {at} BY <2>1, <2>3
  <2>5. Seen(w, new, k) = new[at].value
    <3>1. at \in Int OBVIOUS
    <3>. QED BY <2>4, <3>1, SeenIsTheOnly
  <2>. QED BY <1>0, <1>2, <2>4, <2>5 DEF HeldOnce
<1>4. ASSUME NEW k \in EnvKeys, ~SameKey(w, k, key)
      PROVE  /\ HeldOnce(w, env, k) => HeldOnce(w, new, k)
             /\ Seen(w, new, k) = Seen(w, env, k)
  <2>1. at \notin Hits(w, new, k) BY <1>0, <1>2, <1>4 DEF Hits, hasEnvKey, SameKey
  <2>2. at \notin Hits(w, env, k)
    BY <1>2, <1>4 DEF Hits, hasEnvKey, SameKey
  <2>3. Hits(w, new, k) = Hits(w, env, k) BY <1>2, <2>1, <2>2 DEF Hits
  <2>4. \A n \in Hits(w, env, k) : new[n] = env[n] BY <1>2, <2>2 DEF Hits
  <2>5. Seen(w, new, k) = Seen(w, env, k) BY <2>3, <2>4, SeenSame
  <2>. QED BY <2>3, <2>5 DEF HeldOnce
<1>. QED BY <1>1, <1>3, <1>4 DEF new

\* What is seen of a key when value is given for all spellings of name.
Given(w, env, new, name, value, k) ==
    /\ HeldOnce(w, env, k) => HeldOnce(w, new, k)
    /\ value # None /\ k.name = name /\ HeldOnce(w, env, k) => Seen(w, new, k) = value
    /\ value = None \/ k.name # name => Seen(w, new, k) = Seen(w, env, k)

\* A proxy that is given is seen in both spellings.
LEMMA ProxySeen ==
    ASSUME NEW w \in BOOLEAN, NEW env \in Seq(Slot), NEW name \in EnvNames,
           NEW value \in Optional(EnvValues)
    PROVE  /\ SetProxy(w, env, name, value) \in Seq(Slot)
           /\ \A k \in EnvKeys : Given(w, env, SetProxy(w, env, name, value), name, value, k)
<1>. USE DEF Given
<1>1. CASE value = None BY <1>1 DEF SetProxy
<1>2. CASE value # None
  <2>. DEFINE upper == set(w, env, Upper(name), value)
              both  == set(w, upper, Lower(name), value)
  <2>1. /\ Upper(name) \in EnvKeys /\ Lower(name) \in EnvKeys /\ value \in EnvValues
        /\ Upper(name).name = name /\ Upper(name).lower = FALSE
        /\ Lower(name).name = name /\ Lower(name).lower = TRUE
    BY <1>2 DEF Upper, Lower, EnvKeys, Optional
  <2>2. /\ upper \in Seq(Slot)
        /\ \A k \in EnvKeys :
              /\ HeldOnce(w, env, k) => HeldOnce(w, upper, k)
              /\ SameKey(w, k, Upper(name)) /\ HeldOnce(w, env, k)
                    => Seen(w, upper, k) = value
              /\ ~SameKey(w, k, Upper(name)) => Seen(w, upper, k) = Seen(w, env, k)
    BY <2>1, SetSeen
  <2>. HIDE DEF upper
  <2>3. /\ both \in Seq(Slot)
        /\ \A k \in EnvKeys :
              /\ HeldOnce(w, upper, k) => HeldOnce(w, both, k)
              /\ SameKey(w, k, Lower(name)) /\ HeldOnce(w, upper, k)
                    => Seen(w, both, k) = value
              /\ ~SameKey(w, k, Lower(name)) => Seen(w, both, k) = Seen(w, upper, k)
    BY <2>1, <2>2, SetSeen
  <2>. HIDE DEF both
  <2>4. SetProxy(w, env, name, value) = IF w THEN upper ELSE both
    BY <1>2 DEF SetProxy, upper, both
  <2>5. ASSUME NEW k \in EnvKeys
        PROVE  /\ w => (SameKey(w, k, Upper(name)) <=> k.name = name)
               /\ ~w => (SameKey(w, k, Upper(name)) \/ SameKey(w, k, Lower(name))
                            <=> k.name = name)
    <3>1. k.lower = TRUE \/ k.lower = FALSE BY DEF EnvKeys
    <3>. QED BY <2>1, <3>1 DEF SameKey
  <2>6. CASE w BY <1>2, <2>2, <2>4, <2>5, <2>6
  <2>7. CASE ~w BY <1>2, <2>2, <2>3, <2>4, <2>5, <2>7
  <2>. QED BY <2>6, <2>7
<1>. QED BY <1>1, <1>2

\* What the cluster wants of a variable, and None if nothing.
Wanted(w, proxy, kubeconfig, k) ==
    IF k.name = "HTTP_PROXY" /\ proxy.enabled THEN proxy.http
    ELSE IF k.name = "HTTPS_PROXY" /\ proxy.enabled THEN proxy.https
    ELSE IF k.name = "NO_PROXY" /\ proxy.enabled THEN proxy.no
    ELSE IF SameKey(w, k, Upper("KUBECONFIG")) THEN kubeconfig
    ELSE None

\* What kubectl sees of a variable.
LEMMA BaseEnvSeen ==
    ASSUME NEW w \in BOOLEAN, NEW env \in Seq(Slot), NEW proxy \in ProxyType,
           NEW kubeconfig \in Optional(EnvValues), NEW k \in EnvKeys
    PROVE  LET seen   == Seen(w, kubectlBaseEnv(w, env, proxy, kubeconfig), k)
               wanted == Wanted(w, proxy, kubeconfig, k)
           IN  /\ wanted = None => seen = Seen(w, env, k)
               /\ wanted # None /\ HeldOnce(w, env, k) => seen = wanted
<1>. DEFINE http  == SetProxy(w, env, "HTTP_PROXY", proxy.http)
            https == SetProxy(w, http, "HTTPS_PROXY", proxy.https)
            no    == SetProxy(w, https, "NO_PROXY", proxy.no)
            built == BuildEnv(w, env, proxy)
            all   == set(w, built, Upper("KUBECONFIG"), kubeconfig)
<1>1. /\ proxy.enabled \in BOOLEAN
      /\ proxy.http \in Optional(EnvValues) /\ proxy.https \in Optional(EnvValues)
      /\ proxy.no \in Optional(EnvValues)
  BY DEF ProxyType
<1>2. /\ "HTTP_PROXY" \in EnvNames /\ "HTTPS_PROXY" \in EnvNames
      /\ "NO_PROXY" \in EnvNames
      /\ Upper("KUBECONFIG") \in EnvKeys /\ Upper("KUBECONFIG").name = "KUBECONFIG"
  BY DEF EnvNames, EnvKeys, Upper
<1>3. http \in Seq(Slot) /\ Given(w, env, http, "HTTP_PROXY", proxy.http, k)
  BY <1>1, <1>2, ProxySeen
<1>. HIDE DEF http
<1>4. https \in Seq(Slot) /\ Given(w, http, https, "HTTPS_PROXY", proxy.https, k)
  BY <1>1, <1>2, <1>3, ProxySeen
<1>. HIDE DEF https
<1>5. no \in Seq(Slot) /\ Given(w, https, no, "NO_PROXY", proxy.no, k)
  BY <1>1, <1>2, <1>4, ProxySeen
<1>. HIDE DEF no
<1>6. built = IF ~proxy.enabled THEN env ELSE no BY DEF BuildEnv, no, https, http
<1>. HIDE DEF built
<1>7. built \in Seq(Slot) /\ (HeldOnce(w, env, k) => HeldOnce(w, built, k))
  BY <1>3, <1>4, <1>5, <1>6 DEF Given
<1>8. kubeconfig # None =>
        /\ SameKey(w, k, Upper("KUBECONFIG")) /\ HeldOnce(w, built, k)
              => Seen(w, all, k) = kubeconfig
        /\ ~SameKey(w, k, Upper("KUBECONFIG")) => Seen(w, all, k) = Seen(w, built, k)
  BY <1>2, <1>7, SetSeen DEF Optional
<1>. HIDE DEF all
<1>9. kubectlBaseEnv(w, env, proxy, kubeconfig) = IF kubeconfig = None THEN built ELSE all
  BY DEF kubectlBaseEnv, built, all
<1>10. SameKey(w, k, Upper("KUBECONFIG")) => k.name = "KUBECONFIG" BY <1>2 DEF SameKey
<1>. HIDE DEF Upper, SameKey
<1>11. CASE proxy.enabled
  BY <1>3, <1>4, <1>5, <1>6, <1>7, <1>8, <1>9, <1>10, <1>11 DEF Wanted, Given
<1>12. CASE ~proxy.enabled
  BY <1>6, <1>7, <1>8, <1>9, <1>10, <1>12 DEF Wanted
<1>. QED BY <1>1, <1>11, <1>12

\* For every environment and cluster: kubectl sees the cluster's proxies and
\* kubeconfig in every spelling, on Windows of every variable that the environment
\* did not hold in two spellings, and every other variable as dev-connect has it,
\* also one that stands there twice.
THEOREM EnvironmentIsOverridden == Spec => []EnvironmentOverridden
<1>1. ConfigInv => EnvironmentOverridden
  <2>. SUFFICES ASSUME ConfigInv, phase = "prepared" PROVE EnvironmentOverridden
    BY DEF EnvironmentOverridden
  <2>. DEFINE cluster == selectedCluster(Parse(loaded.content), inv)
  <2>1. /\ loaded.content \in Contents /\ inv \in Invocation
        /\ Parse(loaded.content) # Error /\ cluster # Error
        /\ checked.env = kubectlBaseEnv(inv.windows, inv.environ, cluster.proxy,
                                        cluster.kubeconfig)
    BY DEF ConfigInv, TypeOK, RecordInv, Resolved, Optional, LoadedType, Forward
  <2>2. cluster \in ClusterType BY <2>1, ClusterTyped
  <2>. DEFINE proxied(value) == IF cluster.proxy.enabled THEN value ELSE None
              wanted(key) == CASE key.name = "HTTP_PROXY"  -> proxied(cluster.proxy.http)
                               [] key.name = "HTTPS_PROXY" -> proxied(cluster.proxy.https)
                               [] key.name = "NO_PROXY"    -> proxied(cluster.proxy.no)
                               [] key = Upper("KUBECONFIG") -> cluster.kubeconfig
                               [] key.name = "KUBECONFIG" /\ inv.windows -> cluster.kubeconfig
                               [] OTHER -> None
  <2>3. ASSUME NEW key \in EnvKeys
        PROVE  LET seen == Seen(inv.windows, checked.env, key)
               IN  IF wanted(key) = None
                   THEN seen = Seen(inv.windows, inv.environ, key)
                   ELSE (inv.windows => HeldOnce(inv.windows, inv.environ, key))
                            => seen = wanted(key)
    <3>. HIDE DEF cluster
    <3>1. /\ cluster.proxy \in ProxyType /\ cluster.kubeconfig \in Optional(EnvValues)
          /\ inv.windows \in BOOLEAN /\ cluster.proxy.enabled \in BOOLEAN
          /\ inv.environ \in Seq(Slot)
      BY <2>1, <2>2 DEF ClusterType, Invocation, ProxyType
    <3>2. SameKey(inv.windows, key, Upper("KUBECONFIG")) <=>
             key = Upper("KUBECONFIG") \/ (key.name = "KUBECONFIG" /\ inv.windows)
      BY <3>1 DEF SameKey, Upper, EnvKeys
    <3>3. Upper("KUBECONFIG").name = "KUBECONFIG" BY DEF Upper
    <3>4. wanted(key) = Wanted(inv.windows, cluster.proxy, cluster.kubeconfig, key)
      <4>1. CASE key.name = "HTTP_PROXY" BY <3>2, <3>3, <4>1 DEF Wanted
      <4>2. CASE key.name = "HTTPS_PROXY" BY <3>2, <3>3, <4>2 DEF Wanted
      <4>3. CASE key.name = "NO_PROXY" BY <3>2, <3>3, <4>3 DEF Wanted
      <4>4. CASE key.name \notin {"HTTP_PROXY", "HTTPS_PROXY", "NO_PROXY"}
        BY <3>2, <3>3, <4>4 DEF Wanted
      <4>. QED BY <4>1, <4>2, <4>3, <4>4
    <3>5. ~inv.windows => HeldOnce(inv.windows, inv.environ, key)
      BY DEF ConfigInv, EnvironInv, IsEnviron
    <3>. HIDE DEF wanted
    <3>. QED BY <2>1, <3>1, <3>4, <3>5, BaseEnvSeen
  <2>. QED BY <2>3 DEF EnvironmentOverridden
<1>. QED BY <1>1, ConfigInvariant, PTL
=============================================================================
