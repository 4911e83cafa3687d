---------------------------- MODULE KubectlProcess ----------------------------
(***************************************************************************)
(* Which kubectl is run for a cluster and with which environment:          *)
(* kubectl.ResolveLocalExecutable, proxy.BuildEnv and kubectlBaseEnvFrom.  *)
(*                                                                         *)
(* An environment is a sequence of entries, as in os.Environ.  A key is a  *)
(* name and whether it is spelled in lower case; Windows does not tell the *)
(* spellings apart.                                                         *)
(***************************************************************************)
EXTENDS Integers, Sequences

CONSTANTS
    Programs,     \* paths at which there may be an executable
    Absolute,     \* the absolute ones
    SearchOrder,  \* beside dev-connect, along PATH, the defaults of the system
    EnvValues,    \* proxies, lists of hosts, kubeconfig files
    None, Error

Optional(S) == S \cup {None}

EnvNames  == {"HTTP_PROXY", "HTTPS_PROXY", "NO_PROXY", "KUBECONFIG", "OTHER"}
EnvKeys   == [name : EnvNames, lower : BOOLEAN]
Entry     == [key : EnvKeys, value : EnvValues]
Slot      == Optional(Entry)   \* None: an entry that os/exec has left out
ProxyType == [enabled : BOOLEAN, http : Optional(EnvValues),
              https : Optional(EnvValues), no : Optional(EnvValues)]

ASSUME ProcessAssumption ==
    /\ Absolute \subseteq Programs
    /\ SearchOrder \in Seq(Programs)
    /\ None \notin Programs \cup EnvValues \cup Entry
    /\ Error \notin Programs \cup {None}

-----------------------------------------------------------------------------
(* The environment. *)

Upper(name) == [name |-> name, lower |-> FALSE]
Lower(name) == [name |-> name, lower |-> TRUE]

hasEnvKey(windows, entry, key) ==
    /\ entry # None
    /\ entry.key.name = key.name /\ (windows \/ entry.key.lower = key.lower)

Hits(windows, env, key) == {n \in DOMAIN env : hasEnvKey(windows, env[n], key)}

\* The first entry of the key is replaced, or one is appended; setProcessEnv is
\* a copy of this in cmd/dev-connect.
set(windows, env, key, value) ==
    LET hits  == Hits(windows, env, key)
        entry == [key |-> key, value |-> value]
    IN  IF hits = {} THEN Append(env, entry)
        ELSE [env EXCEPT ![CHOOSE n \in hits : \A m \in hits : n <= m] = entry]

\* Mutant: only the upper-case variable.
SetUpperOnly(windows, env, name, value) ==
    IF value = None THEN env ELSE set(windows, env, Upper(name), value)

\* Both spellings, where they differ.
SetProxy(windows, env, name, value) ==
    IF value = None THEN env
    ELSE LET upper == set(windows, env, Upper(name), value)
         IN  IF windows THEN upper ELSE set(windows, upper, Lower(name), value)

BuildEnv(windows, env, proxy) ==
    IF ~proxy.enabled THEN env
    ELSE LET http  == SetProxy(windows, env, "HTTP_PROXY", proxy.http)
             https == SetProxy(windows, http, "HTTPS_PROXY", proxy.https)
         IN  SetProxy(windows, https, "NO_PROXY", proxy.no)

kubectlBaseEnv(windows, env, proxy, kubeconfig) ==
    LET built == BuildEnv(windows, env, proxy)
    IN  IF kubeconfig = None THEN built
        ELSE set(windows, built, Upper("KUBECONFIG"), kubeconfig)

\* What a process sees of a variable: os/exec keeps the last entry of a key.
Seen(windows, env, key) ==
    LET hits == Hits(windows, env, key)
    IN  IF hits = {} THEN None
        ELSE env[CHOOSE n \in hits : \A m \in hits : m <= n].value

\* What a process started with os/exec gets of this environment.
Inherited(windows, env) ==
    [n \in DOMAIN env |->
        IF env[n] # None /\ \E m \in Hits(windows, env, env[n].key) : m > n
        THEN None ELSE env[n]]

HeldOnce(windows, env, key) == \A n, m \in Hits(windows, env, key) : n = m

\* os.Environ has each key once on Unix.  On Windows it is the block of the
\* process as it is, which may hold HTTP_PROXY and http_proxy.
IsEnviron(windows, env) ==
    /\ env \in Seq(Entry)
    /\ ~windows => \A key \in EnvKeys : HeldOnce(windows, env, key)

-----------------------------------------------------------------------------
(* The executable. *)

\* Mutant: a given path that is no executable falls through to the search.
ResolveFallingThrough(flag, env, configured, programs) ==
    LET tried == <<flag, env, configured>> \o SearchOrder
        hits  == {n \in DOMAIN tried : tried[n] \in programs}
    IN  IF hits = {} THEN Error ELSE tried[CHOOSE n \in hits : \A m \in hits : n <= m]

executablePathForOS(path, programs) == IF path \in programs THEN path ELSE Error

\* Of a given path: there are no directories to look for a relative one in.
ResolveExecutableForOS(path, programs) ==
    IF path \in Absolute THEN executablePathForOS(path, programs) ELSE Error

\* The first path that is given is the answer or the error; the search is for
\* those who give none.
ResolveLocalExecutable(flag, env, configured, programs) ==
    LET given == IF flag # None THEN flag ELSE IF env # None THEN env ELSE configured
        hits  == {n \in DOMAIN SearchOrder :
                     executablePathForOS(SearchOrder[n], programs) # Error}
    IN  IF given # None THEN ResolveExecutableForOS(given, programs)
        ELSE IF hits = {} THEN Error
        ELSE SearchOrder[CHOOSE n \in hits : \A m \in hits : n <= m]
=============================================================================
