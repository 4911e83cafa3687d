--------------------------- MODULE MCConfiguration ---------------------------
(***************************************************************************)
(* Small instances of the configuration for TLC.                            *)
(***************************************************************************)
EXTENDS Configuration, TLC

Context(c, g)    == [cluster |-> c, gateway |-> g]
Gateway(n, s, p) == [namespace |-> n, service |-> s, port |-> p]
Target(g, h)     == [gateway |-> g, hostKeyRef |-> h]
Cluster(x)       == [NoCluster EXCEPT !.context = x]
EmptyMap         == <<>>
InDefault(cfg)   == [p \in Paths |-> IF p = "default" THEN cfg ELSE Absent]

\* Every section on its own: empty, small, with two entries, and with each
\* kind of mistake.
SomeContents ==
    [contexts : {EmptyMap, "x" :> Context("k1", "g1"),
                 "x" :> Context("k2", "g1") @@ "y" :> Context("k1", "g2"),
                 "x" :> Context(None, "g1"), "x" :> Context("k1", None)},
     clusters : {EmptyMap, "k1" :> Cluster("kc1"), "k1" :> Cluster("kc1") @@ "k2" :> Cluster("kc2"),
                 "k1" :> NoCluster},
     gateways : {EmptyMap, "g1" :> Gateway("n1", "s1", 22),
                 "g1" :> Gateway("n1", "s1", 22) @@ "g2" :> Gateway("n2", "s2", 22),
                 "g1" :> Gateway(None, "s1", 22), "g1" :> Gateway("n1", None, 22),
                 "g1" :> Gateway("n1", "s1", 0)},
     targets  : {EmptyMap, "t" :> Target("g1", None), "t" :> Target("g2", "h"),
                 "t" :> Target(None, None)},
     hostKeys : {EmptyMap, "t" :> "key", "h" :> "key", "t" :> None}]

\* Two valid files that agree on names and on nothing else.
One == [contexts |-> "x" :> Context("k1", "g1"), clusters |-> "k1" :> Cluster("kc1"),
        gateways |-> "g1" :> Gateway("n1", "s1", 22),
        targets  |-> "t" :> Target("g1", None), hostKeys |-> "t" :> "key"]
Two == [One EXCEPT !.clusters = "k1" :> Cluster("kc2"),
                   !.gateways = "g1" :> Gateway("n2", "s2", 22)]

OneOf(S) == S \cup {Absent, Bad}

Plain == [config |-> None, env |-> None, home |-> TRUE, context |-> None,
          cluster |-> None, gateway |-> None, target |-> "t",
          kubectl |-> None, kubectlEnv |-> None, windows |-> FALSE, environ |-> <<>>]

\* Any content, with any choice of names on the command line.
AnyContent ==
    [files : {InDefault(cfg) : cfg \in SomeContents},
     inv   : {[Plain EXCEPT !.context = x, !.cluster = c, !.gateway = g, !.target = t] :
                 x \in {None, "x", "z"}, c \in {None, "k1", "k2"},
                 g \in {None, "g1", "g2"}, t \in {"t", "u"}},
     programs : {{"path"}}]

\* Any set of files, with any way to name them.
AnyPlace ==
    [files : [Paths -> OneOf({One, Two})],
     inv   : {[Plain EXCEPT !.config = p, !.env = e, !.home = h] :
                 p \in {None, "explicit"}, e \in {None, "env"}, h \in BOOLEAN},
     programs : {{"path"}}]

\* One file, whose only cluster is k.
Only(k) == [One EXCEPT !.clusters = "k1" :> k]

\* Any way to name kubectl, with any set of installed ones; one of the paths is
\* relative.
PathClusters == {[Cluster("kc1") EXCEPT !.kubectlPath = p] : p \in {None, "conf", "rel"}}
AnyProgram ==
    [files : {InDefault(Only(k)) : k \in PathClusters},
     inv   : {[Plain EXCEPT !.kubectl = f, !.kubectlEnv = e] :
                 f \in {None, "flag", "rel"}, e \in {None, "env"}},
     programs : SUBSET Programs]

\* Any proxies and kubeconfig over any environment of at most two entries.  On
\* Windows two entries may be of one variable.
EnvClusters ==
    {[Cluster("kc1") EXCEPT !.kubeconfig = f, !.proxy = p] :
        f \in {None, "new"},
        p \in [enabled : {TRUE}, http : {None, "new"}, https : {None, "new"},
               no : {None, "new"}]
              \cup {[enabled |-> FALSE, http |-> "new", https |-> "new", no |-> "new"]}}
Environs(windows) ==
    {env \in {[n \in DOMAIN keys |-> [key |-> keys[n], value |-> <<"older", "old">>[n]]] :
                 keys \in UNION {[1..n -> EnvKeys] : n \in 0..2}} :
        IsEnviron(windows, env)}
AnyEnvironment ==
    [files : {InDefault(Only(k)) : k \in EnvClusters},
     inv   : UNION {{[Plain EXCEPT !.windows = w, !.environ = env] :
                        env \in Environs(w)} : w \in BOOLEAN},
     programs : {{"path"}}]

\* dev-connect's own directory, PATH, and a default place.
SomeSearchOrder == <<"beside", "path", "usual">>

AllContents   == SomeContents \cup {One, Two}
                    \cup {Only(k) : k \in PathClusters \cup EnvClusters}
AllSituations == AnyContent \cup AnyPlace \cup AnyProgram \cup AnyEnvironment
SomeEdits     == OneOf({Two})
=============================================================================
