----------------------------- MODULE RemoteSetup -----------------------------
(***************************************************************************)
(* vscode.ConfigureRemote: a shell script, sent over ssh to the target,    *)
(* that writes the proxy settings of the VS Code server and merges them    *)
(* into the settings.json the remote user may have.                        *)
(*                                                                         *)
(* Several connects may set up the same target at the same time, from      *)
(* different machines.  A script may end after any of its commands: the    *)
(* connection is lost, or a command fails and `set -e' ends it.  `cat >',  *)
(* cp and Python's write_text truncate the file before they write it.      *)
(***************************************************************************)
EXTENDS Naturals, FiniteSets

CONSTANTS
    Scripts,       \* connects that set up this target
    Proxies,       \* proxy URLs
    NoProxies,     \* lists of hosts without proxy
    Options,       \* the configured vscode.remoteSetup of these connects
    UserKeys,      \* keys of settings.json that dev-connect does not manage
    Previous,      \* what settings.json may hold before
    Unset,         \* an empty option
    Blank,         \* a noProxy string of commas and blanks
    Missing,       \* no such file
    Partial        \* a file that is empty, half written or no JSON object

OptionType == [http : Proxies \cup {Unset}, https : Proxies \cup {Unset},
               no : NoProxies \cup {Blank, Unset}, support : {"off", Unset}]

ManagedKeys == {"http.proxySupport", "http.proxy", "http.noProxy"}

\* What dev-connect writes into settings.json, and what else it may hold.
Values ==
    Proxies \cup NoProxies \cup {"off", "override"}
       \cup UNION {{f[k] : k \in DOMAIN f} : f \in Previous \ {Missing, Partial}}

\* A JSON object is a function from some of the keys.
Objects == UNION {[keys -> Values] : keys \in SUBSET (UserKeys \cup ManagedKeys)}

IsObject(f) == f \in Objects

ASSUME RemoteAssumption ==
    /\ Options \subseteq OptionType
    /\ UserKeys \cap ManagedKeys = {}
    /\ {Missing, Partial} \cap Objects = {}
    /\ Previous \subseteq Objects \cup {Missing, Partial}
    /\ Unset \notin Proxies \cup NoProxies

VARIABLES
    line,          \* where each script is
    option,        \* its options
    read,          \* what it has read of settings.json, then what it will write
    envSetup,      \* ~/.vscode-server/server-env-setup
    wanted,        \* data/Machine/dev-connect-settings.json
    settings,      \* data/Machine/settings.json
    python,        \* the target has python3; Unset until a connect reaches it
    original,      \* history: settings.json before
    alone,         \* history: no other script has run since this one started
    endangered     \* history: scripts have overlapped, or one ended inside a
                   \* write of settings.json

remoteVars == <<line, option, read, envSetup, wanted, settings, python, original,
                alone, endangered>>

Ended  == {"none", "ok", "failed"}
Steps  == {"env", "envwrite", "want", "wantwrite", "readold", "readwanted",
           "settings", "settingswrite", "finish"}
Active == {s \in Scripts : line[s] \in Steps}

RemoteInit ==
    /\ line = [s \in Scripts |-> "none"]
    /\ option = [s \in Scripts |-> Unset]
    /\ read = [s \in Scripts |-> Missing]
    /\ envSetup = Missing /\ wanted = Missing
    /\ settings = Missing /\ original = Missing
    /\ python = Unset
    /\ alone = [s \in Scripts |-> FALSE]
    /\ endangered = FALSE

-----------------------------------------------------------------------------
(* RenderRemoteSetupScript. *)

primaryProxy(o) == IF o.https # Unset THEN o.https ELSE o.http

proxySupport(o) == IF o.support # Unset THEN o.support ELSE "override"

\* splitNoProxy: the entries that are not blank.
HasNoProxy(o) == o.no \notin {Unset, Blank}

DesiredSettings(o) ==
    [k \in IF HasNoProxy(o) THEN ManagedKeys ELSE ManagedKeys \ {"http.noProxy"} |->
        CASE k = "http.proxySupport" -> proxySupport(o)
          [] k = "http.proxy" -> primaryProxy(o)
          [] OTHER -> o.no]

\* The exported variables, each in two spellings; a blank list is exported.
ServerEnv(o) == [HTTPS_PROXY |-> o.https, HTTP_PROXY |-> o.http, NO_PROXY |-> o.no]

\* Mutant: what is there wins.
MergeKeepingCurrent(current, desired) ==
    [k \in DOMAIN current \cup DOMAIN desired |->
        IF k \in DOMAIN current THEN current[k] ELSE desired[k]]

\* Mutant: the settings are replaced.
MergeReplacing(current, desired) == desired

\* current.update(desired)
Merge(current, desired) ==
    [k \in DOMAIN current \cup DOMAIN desired |->
        IF k \in DOMAIN desired THEN desired[k] ELSE current[k]]

-----------------------------------------------------------------------------
\* The target as it is found.
FindTarget ==
    /\ python = Unset
    /\ python' \in BOOLEAN
    /\ settings' \in Previous /\ original' = settings'
    /\ UNCHANGED <<line, option, read, envSetup, wanted, alone, endangered>>

Continue(s, l) == line' = [line EXCEPT ![s] = l]

\* The script has ended and its memory is gone.
End(s, how) == Continue(s, how) /\ read' = [read EXCEPT ![s] = Missing]

\* ConfigureRemote refuses to run without a proxy; else ssh starts the script.
StartScript(s) ==
    /\ python # Unset
    /\ line[s] \in Ended
    /\ \E o \in Options :
          /\ option' = [option EXCEPT ![s] = o]
          /\ IF o.http = Unset /\ o.https = Unset
               THEN Continue(s, "failed") /\ UNCHANGED <<alone, endangered>>
               ELSE /\ Continue(s, "env")
                    /\ alone' = [t \in Scripts |-> t = s /\ Active = {}]
                    /\ endangered' = (endangered \/ Active # {})
    /\ UNCHANGED <<read, envSetup, wanted, settings, python, original>>

WriteEnvSetup(s) ==
    /\ \/ line[s] = "env" /\ envSetup' = Partial /\ Continue(s, "envwrite")
       \/ /\ line[s] = "envwrite"
          /\ envSetup' = ServerEnv(option[s]) /\ Continue(s, "want")
    /\ UNCHANGED <<option, read, wanted, settings, python, original, alone, endangered>>

WriteWanted(s) ==
    /\ \/ line[s] = "want" /\ wanted' = Partial /\ Continue(s, "wantwrite")
       \/ /\ line[s] = "wantwrite"
          /\ wanted' = DesiredSettings(option[s])
          /\ Continue(s, IF python THEN "readold" ELSE "readwanted")
    /\ UNCHANGED <<option, read, envSetup, settings, python, original, alone, endangered>>

\* Anything that is not an object, or cannot be parsed, counts as empty.
ReadSettings(s) ==
    /\ line[s] = "readold"
    /\ read' = [read EXCEPT ![s] = IF IsObject(settings) THEN settings ELSE <<>>]
    /\ Continue(s, "readwanted")
    /\ UNCHANGED <<option, envSetup, wanted, settings, python, original, alone, endangered>>

\* Python fails unless the file parses, cp only if there is none.
ReadWanted(s) ==
    /\ line[s] = "readwanted"
    /\ IF wanted = Missing \/ (python /\ wanted = Partial)
         THEN End(s, "failed")
         ELSE /\ read' = [read EXCEPT ![s] = IF python THEN Merge(@, wanted) ELSE wanted]
              /\ Continue(s, "settings")
    /\ UNCHANGED <<option, envSetup, wanted, settings, python, original, alone, endangered>>

\* cp may read its source before or after another script has changed it.
Copied(s) == IF python THEN {read[s]} ELSE {read[s], wanted} \ {Missing}

WriteSettings(s) ==
    /\ \/ line[s] = "settings" /\ settings' = Partial /\ Continue(s, "settingswrite")
       \/ /\ line[s] = "settingswrite"
          /\ settings' \in Copied(s)
          /\ Continue(s, "finish")
    /\ UNCHANGED <<option, read, envSetup, wanted, python, original, alone, endangered>>

\* chmod and rm.
Finish(s) ==
    /\ line[s] = "finish"
    /\ wanted' = Missing
    /\ End(s, "ok")
    /\ UNCHANGED <<option, envSetup, settings, python, original, alone, endangered>>

ScriptDies(s) ==
    /\ line[s] \in Steps
    /\ End(s, "failed")
    /\ endangered' = (endangered \/ line[s] = "settingswrite")
    /\ UNCHANGED <<option, envSetup, wanted, settings, python, original, alone>>

ScriptStep(s) == WriteEnvSetup(s) \/ WriteWanted(s) \/ ReadSettings(s) \/ ReadWanted(s)
                    \/ WriteSettings(s) \/ Finish(s) \/ ScriptDies(s)

-----------------------------------------------------------------------------
RemoteTypeOK ==
    /\ line \in [Scripts -> Steps \cup Ended]
    /\ option \in [Scripts -> Options \cup {Unset}]
    /\ envSetup \in {Missing, Partial} \cup {ServerEnv(o) : o \in Options}
    /\ wanted \in {Missing, Partial} \cup {DesiredSettings(o) : o \in Options}
    /\ settings \in {Missing, Partial} \/ IsObject(settings)
    /\ python \in BOOLEAN \cup {Unset} /\ endangered \in BOOLEAN
    /\ alone \in [Scripts -> BOOLEAN]

\* When ConfigureRemote succeeds and no other connect has set up the target in
\* the meantime, the target has the proxy settings of this connect, whole, and
\* the temporary file is gone: what scripts that ended half-way, or overlapped,
\* have left behind is repaired, be it a half-written file or old settings.
SetupComplete ==
    \A s \in Scripts : line[s] = "ok" /\ alone[s] =>
        /\ envSetup = ServerEnv(option[s])
        /\ wanted = Missing
        /\ IsObject(settings)
        /\ \A k \in DOMAIN DesiredSettings(option[s]) :
              k \in DOMAIN settings /\ settings[k] = DesiredSettings(option[s])[k]

\* On a target with python3, the remote user's own entries of settings.json
\* outlive any number of set-ups with changing options, and scripts that end at
\* any point except inside the write of settings.json itself.  A file with comments,
\* which VS Code accepts and Python's json does not, is Partial: of it the script
\* keeps nothing.
UserSettingsKept ==
    python = TRUE /\ ~endangered /\ IsObject(original) /\ IsObject(settings) =>
        \A k \in DOMAIN original \ ManagedKeys :
            k \in DOMAIN settings /\ settings[k] = original[k]
=============================================================================
