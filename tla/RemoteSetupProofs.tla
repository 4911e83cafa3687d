-------------------------- MODULE RemoteSetupProofs --------------------------
(***************************************************************************)
(* For any number of connects that set up one target, with any options,    *)
(* in any order and ending at any point: a script that had the target to   *)
(* itself leaves it complete, and the remote user's own settings are kept. *)
(*                                                                         *)
(* AloneInv says, line by line, what a script that nobody interferes with  *)
(* has achieved so far; KeptInv, where the user's settings are while a     *)
(* script rewrites them: in the file, or in the memory of that script.     *)
(***************************************************************************)
EXTENDS RemoteSetup, TLAPS

\* ConfigureRemote refuses other options.
Settable == {o \in Options : ~(o.http = Unset /\ o.https = Unset)}

AnyFile == Objects \cup {Missing, Partial}

ScriptInv ==
    /\ python = Unset => \A s \in Scripts : line[s] = "none"
    /\ read \in [Scripts -> AnyFile]
    /\ \A s \in Scripts : line[s] \in Steps \cup {"ok"} => option[s] \in Settable
    /\ wanted \in {Missing, Partial} \cup {DesiredSettings(o) : o \in Settable}
    /\ \A s \in Scripts : line[s] = "readwanted" /\ python = TRUE => IsObject(read[s])

\* The file has all settings of these options.
Carries(f, o) ==
    /\ IsObject(f)
    /\ \A k \in DOMAIN DesiredSettings(o) :
          k \in DOMAIN f /\ f[k] = DesiredSettings(o)[k]

EnvDone    == Steps \ {"env", "envwrite"}
WantedDone == EnvDone \ {"want", "wantwrite"}

Sole(s) ==
    /\ \A t \in Scripts : t # s => line[t] \notin Steps
    /\ line[s] \in EnvDone \cup {"ok"} => envSetup = ServerEnv(option[s])
    /\ line[s] \in WantedDone => wanted = DesiredSettings(option[s])
    /\ line[s] \in {"settings", "settingswrite"} => Carries(read[s], option[s])
    /\ line[s] \in {"finish", "ok"} => Carries(settings, option[s])
    /\ line[s] = "ok" => wanted = Missing

AloneInv == \A s \in Scripts : alone[s] /\ line[s] \in Steps \cup {"ok"} => Sole(s)

\* The file has all entries of the user.
Keeps(f) ==
    /\ IsObject(f)
    /\ \A k \in DOMAIN original \ ManagedKeys : k \in DOMAIN f /\ f[k] = original[k]

Kept ==
    /\ \A s, t \in Scripts : line[s] \in Steps /\ line[t] \in Steps => s = t
    /\ settings = Partial \/ Keeps(settings)
    /\ settings = Partial => \E s \in Scripts : line[s] = "settingswrite"
    /\ \A s \in Scripts :
          line[s] \in {"readwanted", "settings", "settingswrite"} => Keeps(read[s])

KeptInv == python = TRUE /\ ~endangered /\ IsObject(original) => Kept

RemoteInv == RemoteTypeOK /\ ScriptInv /\ AloneInv /\ KeptInv

-----------------------------------------------------------------------------
(* Objects. *)

LEMMA EmptyObject == IsObject(<<>>)
<1>1. <<>> \in [{} -> Values] OBVIOUS
<1>. QED BY <1>1 DEF IsObject, Objects

\* What the script writes is an object of managed keys.
LEMMA DesiredObject ==
    ASSUME NEW o \in Settable
    PROVE  /\ IsObject(DesiredSettings(o))
           /\ DOMAIN DesiredSettings(o) \subseteq ManagedKeys
<1>. DEFINE keys == IF HasNoProxy(o) THEN ManagedKeys ELSE ManagedKeys \ {"http.noProxy"}
<1>1. o \in OptionType /\ ~(o.http = Unset /\ o.https = Unset)
  BY RemoteAssumption DEF Settable
<1>2. DOMAIN DesiredSettings(o) = keys BY DEF DesiredSettings
<1>3. \A k \in keys : DesiredSettings(o)[k] \in Values
  <2>1. primaryProxy(o) \in Proxies BY <1>1 DEF primaryProxy, OptionType
  <2>2. proxySupport(o) \in {"off", "override"} BY <1>1 DEF proxySupport, OptionType
  <2>3. HasNoProxy(o) => o.no \in NoProxies BY <1>1 DEF HasNoProxy, OptionType
  <2>. QED BY <2>1, <2>2, <2>3 DEF DesiredSettings, Values, ManagedKeys
<1>4. DesiredSettings(o) \in [keys -> Values] BY <1>2, <1>3 DEF DesiredSettings
<1>5. keys \in SUBSET (UserKeys \cup ManagedKeys) OBVIOUS
<1>6. DesiredSettings(o) \in Objects BY <1>4, <1>5 DEF Objects
<1>. QED BY <1>2, <1>6 DEF IsObject

\* current.update(desired)
LEMMA MergeObject ==
    ASSUME NEW f, NEW g, IsObject(f), IsObject(g)
    PROVE  /\ IsObject(Merge(f, g))
           /\ DOMAIN Merge(f, g) = DOMAIN f \cup DOMAIN g
           /\ \A k \in DOMAIN g : Merge(f, g)[k] = g[k]
           /\ \A k \in DOMAIN f \ DOMAIN g : Merge(f, g)[k] = f[k]
<1>1. PICK F \in SUBSET (UserKeys \cup ManagedKeys) : f \in [F -> Values]
  BY DEF IsObject, Objects
<1>2. PICK G \in SUBSET (UserKeys \cup ManagedKeys) : g \in [G -> Values]
  BY DEF IsObject, Objects
<1>3. Merge(f, g) \in [F \cup G -> Values] BY <1>1, <1>2 DEF Merge
<1>4. Merge(f, g) \in Objects
  <2>1. F \cup G \in SUBSET (UserKeys \cup ManagedKeys) OBVIOUS
  <2>. QED BY <1>3, <2>1 DEF Objects
<1>5. /\ DOMAIN Merge(f, g) = DOMAIN f \cup DOMAIN g
      /\ \A k \in DOMAIN g : Merge(f, g)[k] = g[k]
      /\ \A k \in DOMAIN f \ DOMAIN g : Merge(f, g)[k] = f[k]
  BY DEF Merge
<1>. QED BY <1>4, <1>5 DEF IsObject

LEMMA ObjectIsFile == \A f : IsObject(f) => f \in AnyFile /\ f # Missing /\ f # Partial
BY RemoteAssumption DEF IsObject, AnyFile

-----------------------------------------------------------------------------
(* One script moves. *)

\* A script can only spoil what it has itself achieved: when it runs, no other
\* script is alone on the target.
LEMMA AloneStep ==
    ASSUME RemoteTypeOK, AloneInv, NEW s \in Scripts, line[s] \in Steps, NEW l,
           line' = [line EXCEPT ![s] = l], alone' = alone,
           Sole(s) /\ l \in Steps \cup {"ok"} => Sole(s)'
    PROVE  AloneInv'
<1>. SUFFICES ASSUME NEW t \in Scripts, alone'[t], line'[t] \in Steps \cup {"ok"}
              PROVE  Sole(t)'
  BY DEF AloneInv
<1>1. CASE t = s
  <2>1. Sole(s) BY <1>1 DEF AloneInv
  <2>2. line'[s] = l BY DEF RemoteTypeOK
  <2>. QED BY <1>1, <2>1, <2>2
<1>2. CASE t # s
  <2>1. line'[t] = line[t] BY <1>2 DEF RemoteTypeOK
  <2>2. Sole(t) BY <2>1 DEF AloneInv
  <2>. QED BY <1>2, <2>2 DEF Sole
<1>. QED BY <1>1, <1>2

\* The part of Kept about the files, for a step of script s.
KeptFiles ==
    /\ settings = Partial \/ Keeps(settings)
    /\ settings = Partial => \E s \in Scripts : line[s] = "settingswrite"
    /\ \A s \in Scripts :
          line[s] \in {"readwanted", "settings", "settingswrite"} => Keeps(read[s])

LEMMA KeptStep ==
    ASSUME RemoteTypeOK, KeptInv, NEW s \in Scripts, line[s] \in Steps, NEW l,
           line' = [line EXCEPT ![s] = l], python' = python, original' = original,
           endangered => endangered',
           python = TRUE /\ ~endangered' /\ Kept => KeptFiles'
    PROVE  KeptInv'
<1>. SUFFICES ASSUME python' = TRUE, ~endangered', IsObject(original') PROVE Kept'
  BY DEF KeptInv
<1>1. Kept BY DEF KeptInv
<1>2. KeptFiles' BY <1>1
<1>3. \A t, u \in Scripts : line'[t] \in Steps /\ line'[u] \in Steps => t = u
  BY <1>1 DEF Kept, RemoteTypeOK
<1>. QED BY <1>2, <1>3 DEF Kept, KeptFiles

LEMMA EnvRemoteInv ==
    ASSUME NEW s \in Scripts, RemoteInv, WriteEnvSetup(s) PROVE RemoteInv'
<1>. DEFINE l == line'[s]
<1>. USE DEF RemoteInv
<1>1. /\ line[s] \in {"env", "envwrite"}
      /\ line[s] = "env" => l = "envwrite" /\ envSetup' = Partial
      /\ line[s] = "envwrite" => l = "want" /\ envSetup' = ServerEnv(option[s])
      /\ line' = [line EXCEPT ![s] = l]
      /\ option' = option /\ read' = read /\ wanted' = wanted /\ settings' = settings
      /\ python' = python /\ original' = original /\ alone' = alone
      /\ endangered' = endangered
  BY DEF WriteEnvSetup, Continue, RemoteTypeOK
<1>2. line[s] \in Steps /\ l \in Steps BY <1>1 DEF Steps
<1>. HIDE DEF l
<1>3. option[s] \in Settable BY <1>2 DEF ScriptInv
<1>4. RemoteTypeOK' BY <1>1, <1>2, <1>3 DEF RemoteTypeOK, Settable
<1>5. ScriptInv' BY <1>1, <1>2, <1>3 DEF ScriptInv, RemoteTypeOK, Steps
<1>6. AloneInv'
  <2>1. Sole(s) => Sole(s)'
    BY <1>1, <1>2 DEF Sole, EnvDone, WantedDone, RemoteTypeOK
  <2>. QED BY <1>1, <1>2, <2>1, AloneStep
<1>7. KeptInv'
  <2>1. Kept => KeptFiles' BY <1>1 DEF Kept, KeptFiles, Keeps, RemoteTypeOK
  <2>. QED BY <1>1, <1>2, <2>1, KeptStep
<1>. QED BY <1>4, <1>5, <1>6, <1>7

LEMMA WantedRemoteInv ==
    ASSUME NEW s \in Scripts, RemoteInv, WriteWanted(s) PROVE RemoteInv'
<1>. DEFINE l == line'[s]
<1>. USE DEF RemoteInv
<1>1. /\ line[s] \in {"want", "wantwrite"}
      /\ line[s] = "want" => l = "wantwrite" /\ wanted' = Partial
      /\ line[s] = "wantwrite" => /\ l = IF python THEN "readold" ELSE "readwanted"
                                  /\ wanted' = DesiredSettings(option[s])
      /\ line' = [line EXCEPT ![s] = l]
      /\ option' = option /\ read' = read /\ envSetup' = envSetup /\ settings' = settings
      /\ python' = python /\ original' = original /\ alone' = alone
      /\ endangered' = endangered
  BY DEF WriteWanted, Continue, RemoteTypeOK
<1>2. /\ line[s] \in Steps /\ l \in Steps
      /\ python = TRUE => l # "readwanted"
      /\ l \notin {"settings", "settingswrite", "finish"}
      /\ l \in WantedDone => wanted' = DesiredSettings(option[s])
  BY <1>1 DEF Steps, WantedDone, EnvDone
<1>. HIDE DEF l
<1>3. option[s] \in Settable BY <1>2 DEF ScriptInv
<1>4. RemoteTypeOK' BY <1>1, <1>2, <1>3 DEF RemoteTypeOK, Settable
<1>5. ScriptInv' BY <1>1, <1>2, <1>3 DEF ScriptInv, RemoteTypeOK, Steps
<1>6. AloneInv'
  <2>1. Sole(s) => Sole(s)'
    BY <1>1, <1>2 DEF Sole, EnvDone, WantedDone, RemoteTypeOK, Steps
  <2>. QED BY <1>1, <1>2, <2>1, AloneStep
<1>7. KeptInv'
  <2>1. python = TRUE /\ Kept => KeptFiles'
    BY <1>1, <1>2 DEF Kept, KeptFiles, Keeps, RemoteTypeOK
  <2>. QED BY <1>1, <1>2, <2>1, KeptStep
<1>. QED BY <1>4, <1>5, <1>6, <1>7

LEMMA ReadRemoteInv ==
    ASSUME NEW s \in Scripts, RemoteInv, ReadSettings(s) PROVE RemoteInv'
<1>. DEFINE f == IF IsObject(settings) THEN settings ELSE <<>>
<1>. USE DEF RemoteInv
<1>1. /\ line[s] = "readold" /\ line' = [line EXCEPT ![s] = "readwanted"]
      /\ read' = [read EXCEPT ![s] = f]
      /\ option' = option /\ envSetup' = envSetup /\ wanted' = wanted
      /\ settings' = settings
      /\ python' = python /\ original' = original /\ alone' = alone
      /\ endangered' = endangered
  BY DEF ReadSettings, Continue
<1>2. line[s] \in Steps /\ "readwanted" \in Steps BY <1>1 DEF Steps
<1>3. IsObject(f) /\ f \in AnyFile BY EmptyObject, ObjectIsFile
<1>4. IsObject(settings) => f = settings OBVIOUS
<1>. HIDE DEF f
<1>5. RemoteTypeOK' BY <1>1, <1>2 DEF RemoteTypeOK
<1>6. ScriptInv'
  BY <1>1, <1>2, <1>3 DEF ScriptInv, RemoteTypeOK, Steps
<1>7. AloneInv'
  <2>1. Sole(s) => Sole(s)'
    BY <1>1, <1>2 DEF Sole, EnvDone, WantedDone, RemoteTypeOK, Steps
  <2>. QED BY <1>1, <1>2, <2>1, AloneStep
<1>8. KeptInv'
  <2>1. Kept => KeptFiles'
    <3>. SUFFICES ASSUME Kept PROVE KeptFiles' OBVIOUS
    <3>1. settings # Partial BY <1>1, <1>2 DEF Kept, Steps
    <3>2. Keeps(f) BY <1>4, <3>1 DEF Kept, Keeps
    <3>. QED
      BY <1>1, <3>1, <3>2 DEF Kept, KeptFiles, Keeps, RemoteTypeOK, ScriptInv
  <2>. QED BY <1>1, <1>2, <2>1, KeptStep
<1>. QED BY <1>5, <1>6, <1>7, <1>8

LEMMA MergeRemoteInv ==
    ASSUME NEW s \in Scripts, RemoteInv, ReadWanted(s) PROVE RemoteInv'
<1>. USE DEF RemoteInv
<1>1. /\ line[s] = "readwanted"
      /\ option' = option /\ envSetup' = envSetup /\ wanted' = wanted
      /\ settings' = settings
      /\ python' = python /\ original' = original /\ alone' = alone
      /\ endangered' = endangered
  BY DEF ReadWanted
<1>2. line[s] \in Steps BY <1>1 DEF Steps
<1>3. python \in BOOLEAN BY <1>1 DEF ScriptInv, RemoteTypeOK
<1>4. CASE End(s, "failed")
  <2>1. /\ line' = [line EXCEPT ![s] = "failed"] /\ read' = [read EXCEPT ![s] = Missing]
        /\ "failed" \notin Steps \cup {"ok"}
    BY <1>4 DEF End, Continue, Steps
  <2>2. RemoteTypeOK' BY <1>1, <2>1 DEF RemoteTypeOK, Ended
  <2>3. ScriptInv' BY <1>1, <2>1 DEF ScriptInv, RemoteTypeOK, AnyFile
  <2>4. AloneInv' BY <1>1, <1>2, <2>1, AloneStep
  <2>5. Kept => KeptFiles'
    BY <1>1, <2>1 DEF Kept, KeptFiles, Keeps, RemoteTypeOK, ScriptInv
  <2>6. KeptInv' BY <1>1, <1>2, <2>1, <2>5, KeptStep
  <2>. QED BY <2>2, <2>3, <2>4, <2>6
<1>5. CASE ~End(s, "failed")
  <2>. DEFINE f == IF python THEN Merge(read[s], wanted) ELSE wanted
  <2>1. /\ wanted # Missing /\ ~(python /\ wanted = Partial)
        /\ line' = [line EXCEPT ![s] = "settings"]
        /\ read' = [read EXCEPT ![s] = IF python THEN Merge(@, wanted) ELSE wanted]
    BY <1>5 DEF ReadWanted, Continue
  <2>2. read' = [read EXCEPT ![s] = f] BY <2>1 DEF ScriptInv
  <2>3. (IsObject(wanted) /\ DOMAIN wanted \subseteq ManagedKeys) \/ wanted = Partial
    BY <2>1, DesiredObject DEF ScriptInv
  <2>4. python = TRUE => /\ IsObject(wanted) /\ DOMAIN wanted \subseteq ManagedKeys
                         /\ IsObject(read[s]) /\ f = Merge(read[s], wanted)
    BY <1>1, <2>1, <2>3 DEF ScriptInv
  <2>5. python = FALSE => f = wanted OBVIOUS
  <2>6. python = TRUE => /\ IsObject(f)
                         /\ \A k \in DOMAIN wanted : k \in DOMAIN f /\ f[k] = wanted[k]
                         /\ \A k \in DOMAIN read[s] \ ManagedKeys :
                               k \in DOMAIN f /\ f[k] = read[s][k]
    <3>. SUFFICES ASSUME python = TRUE
                  PROVE  /\ IsObject(f)
                         /\ \A k \in DOMAIN wanted : k \in DOMAIN f /\ f[k] = wanted[k]
                         /\ \A k \in DOMAIN read[s] \ ManagedKeys :
                               k \in DOMAIN f /\ f[k] = read[s][k]
      OBVIOUS
    <3>. HIDE DEF f
    <3>1. /\ IsObject(Merge(read[s], wanted))
          /\ DOMAIN Merge(read[s], wanted) = DOMAIN read[s] \cup DOMAIN wanted
          /\ \A k \in DOMAIN wanted : Merge(read[s], wanted)[k] = wanted[k]
          /\ \A k \in DOMAIN read[s] \ DOMAIN wanted : Merge(read[s], wanted)[k] = read[s][k]
      BY <2>4, MergeObject
    <3>. QED BY <2>4, <3>1
  <2>7. f \in AnyFile
    <3>1. CASE python = TRUE BY <2>6, <3>1, ObjectIsFile
    <3>2. CASE python = FALSE BY <2>3, <2>5, <3>2, ObjectIsFile DEF AnyFile
    <3>. QED BY <1>3, <3>1, <3>2
  <2>. HIDE DEF f
  <2>8. "settings" \in Steps BY DEF Steps
  <2>9. RemoteTypeOK' BY <1>1, <2>1, <2>8 DEF RemoteTypeOK
  <2>10. ScriptInv' BY <1>1, <1>2, <2>1, <2>2, <2>7, <2>8 DEF ScriptInv, RemoteTypeOK
  <2>11. Sole(s) => Sole(s)'
    <3>. SUFFICES ASSUME Sole(s) PROVE Sole(s)' OBVIOUS
    <3>1. wanted = DesiredSettings(option[s]) /\ envSetup = ServerEnv(option[s])
      BY <1>1 DEF Sole, WantedDone, EnvDone, Steps
    <3>2. option[s] \in Settable BY <1>2 DEF ScriptInv
    <3>3. IsObject(wanted) BY <3>1, <3>2, DesiredObject
    <3>4. Carries(f, option[s])
      <4>1. CASE python = TRUE BY <2>6, <3>1, <4>1 DEF Carries
      <4>2. CASE python = FALSE BY <2>5, <3>1, <3>3, <4>2 DEF Carries
      <4>. QED BY <1>3, <4>1, <4>2
    <3>5. line'[s] = "settings" /\ read'[s] = f /\ option'[s] = option[s]
      BY <1>1, <2>1, <2>2 DEF RemoteTypeOK, ScriptInv
    <3>6. Carries(read'[s], option'[s]) BY <3>4, <3>5
    <3>7. \A t \in Scripts : t # s => line'[t] \notin Steps
      BY <2>1 DEF Sole, RemoteTypeOK
    <3>. QED BY <1>1, <3>1, <3>5, <3>6, <3>7 DEF Sole
  <2>12. AloneInv' BY <1>1, <1>2, <2>1, <2>11, AloneStep
  <2>13. python = TRUE /\ Kept => KeptFiles'
    <3>. SUFFICES ASSUME python = TRUE, Kept PROVE KeptFiles' OBVIOUS
    <3>1. Keeps(read[s]) BY <1>1 DEF Kept
    <3>2. Keeps(f) BY <2>6, <3>1 DEF Keeps
    <3>. QED
      BY <1>1, <2>1, <2>2, <3>2 DEF Kept, KeptFiles, Keeps, RemoteTypeOK, ScriptInv
  <2>14. KeptInv' BY <1>1, <1>2, <2>1, <2>13, KeptStep
  <2>. QED BY <2>9, <2>10, <2>12, <2>14
<1>. QED BY <1>4, <1>5

LEMMA SettingsRemoteInv ==
    ASSUME NEW s \in Scripts, RemoteInv, WriteSettings(s) PROVE RemoteInv'
<1>. USE DEF RemoteInv
<1>1. /\ option' = option /\ read' = read /\ envSetup' = envSetup /\ wanted' = wanted
      /\ python' = python /\ original' = original /\ alone' = alone
      /\ endangered' = endangered
  BY DEF WriteSettings
<1>2. CASE line[s] = "settings" /\ settings' = Partial /\ Continue(s, "settingswrite")
  <2>1. line' = [line EXCEPT ![s] = "settingswrite"] BY <1>2 DEF Continue
  <2>2. line[s] \in Steps /\ "settingswrite" \in Steps BY <1>2 DEF Steps
  <2>3. RemoteTypeOK' BY <1>1, <1>2, <2>1, <2>2 DEF RemoteTypeOK
  <2>4. ScriptInv'
    <3>1. option[s] \in Settable BY <2>2 DEF ScriptInv
    <3>. QED BY <1>1, <1>2, <2>1, <3>1 DEF ScriptInv, RemoteTypeOK
  <2>5. Sole(s) => Sole(s)'
    BY <1>1, <1>2, <2>1 DEF Sole, EnvDone, WantedDone, RemoteTypeOK, Steps
  <2>6. AloneInv' BY <1>1, <2>1, <2>2, <2>5, AloneStep
  <2>7. Kept => KeptFiles'
    BY <1>1, <1>2, <2>1 DEF Kept, KeptFiles, Keeps, RemoteTypeOK
  <2>8. KeptInv' BY <1>1, <2>1, <2>2, <2>7, KeptStep
  <2>. QED BY <2>3, <2>4, <2>6, <2>8
<1>3. CASE line[s] = "settingswrite" /\ settings' \in Copied(s) /\ Continue(s, "finish")
  <2>1. line' = [line EXCEPT ![s] = "finish"] BY <1>3 DEF Continue
  <2>2. line[s] \in Steps /\ "finish" \in Steps BY <1>3 DEF Steps
  <2>3. settings' \in {read[s], wanted} BY <1>3 DEF Copied
  <2>4. wanted \in AnyFile BY DesiredObject, ObjectIsFile DEF ScriptInv, AnyFile
  <2>5. settings' \in AnyFile BY <2>3, <2>4 DEF ScriptInv
  <2>6. RemoteTypeOK' BY <1>1, <2>1, <2>2, <2>5 DEF RemoteTypeOK, AnyFile, IsObject
  <2>7. ScriptInv'
    <3>1. option[s] \in Settable BY <2>2 DEF ScriptInv
    <3>. QED BY <1>1, <1>3, <2>1, <3>1 DEF ScriptInv, RemoteTypeOK
  <2>8. Sole(s) => Sole(s)'
    <3>. SUFFICES ASSUME Sole(s) PROVE Sole(s)' OBVIOUS
    <3>1. /\ wanted = DesiredSettings(option[s]) /\ envSetup = ServerEnv(option[s])
          /\ Carries(read[s], option[s])
      BY <1>3 DEF Sole, WantedDone, EnvDone, Steps
    <3>2. option[s] \in Settable BY <2>2 DEF ScriptInv
    <3>3. Carries(wanted, option[s]) BY <3>1, <3>2, DesiredObject DEF Carries
    <3>4. Carries(settings', option'[s]) BY <1>1, <2>3, <3>1, <3>3
    <3>5. line'[s] = "finish" BY <2>1 DEF RemoteTypeOK
    <3>6. \A t \in Scripts : t # s => line'[t] \notin Steps
      BY <2>1 DEF Sole, RemoteTypeOK
    <3>. QED BY <1>1, <3>1, <3>4, <3>5, <3>6 DEF Sole
  <2>9. AloneInv' BY <1>1, <2>1, <2>2, <2>8, AloneStep
  <2>10. python = TRUE /\ Kept => KeptFiles'
    <3>. SUFFICES ASSUME python = TRUE, Kept PROVE KeptFiles' OBVIOUS
    <3>1. settings' = read[s] BY <1>3 DEF Copied
    <3>2. Keeps(read[s]) BY <1>3 DEF Kept
    <3>3. settings' # Partial BY <3>1, <3>2, ObjectIsFile DEF Keeps
    <3>. QED BY <1>1, <2>1, <3>1, <3>2, <3>3 DEF Kept, KeptFiles, Keeps, RemoteTypeOK
  <2>11. KeptInv' BY <1>1, <2>1, <2>2, <2>10, KeptStep
  <2>. QED BY <2>6, <2>7, <2>9, <2>11
<1>. QED BY <1>2, <1>3 DEF WriteSettings

\* The script is over, well or not.
LEMMA EndRemoteInv ==
    ASSUME NEW s \in Scripts, RemoteInv, Finish(s) \/ ScriptDies(s) PROVE RemoteInv'
<1>. USE DEF RemoteInv
<1>1. CASE Finish(s)
  <2>1. /\ line[s] = "finish" /\ line' = [line EXCEPT ![s] = "ok"]
        /\ read' = [read EXCEPT ![s] = Missing] /\ wanted' = Missing
        /\ option' = option /\ envSetup' = envSetup /\ settings' = settings
        /\ python' = python /\ original' = original /\ alone' = alone
        /\ endangered' = endangered
    BY <1>1 DEF Finish, End, Continue
  <2>2. line[s] \in Steps /\ "ok" \notin Steps BY <2>1 DEF Steps
  <2>3. option[s] \in Settable BY <2>2 DEF ScriptInv
  <2>4. RemoteTypeOK' BY <2>1 DEF RemoteTypeOK, Ended
  <2>5. ScriptInv' BY <2>1, <2>3 DEF ScriptInv, RemoteTypeOK, AnyFile
  <2>6. Sole(s) => Sole(s)'
    BY <2>1, <2>2 DEF Sole, EnvDone, WantedDone, RemoteTypeOK, Steps
  <2>7. AloneInv' BY <2>1, <2>2, <2>6, AloneStep
  <2>8. Kept => KeptFiles'
    BY <2>1 DEF Kept, KeptFiles, Keeps, RemoteTypeOK, ScriptInv
  <2>9. KeptInv' BY <2>1, <2>2, <2>8, KeptStep
  <2>. QED BY <2>4, <2>5, <2>7, <2>9
<1>2. CASE ScriptDies(s)
  <2>1. /\ line[s] \in Steps /\ line' = [line EXCEPT ![s] = "failed"]
        /\ read' = [read EXCEPT ![s] = Missing] /\ wanted' = wanted
        /\ option' = option /\ envSetup' = envSetup /\ settings' = settings
        /\ python' = python /\ original' = original /\ alone' = alone
    BY <1>2 DEF ScriptDies, End, Continue
  <2>2. "failed" \notin Steps \cup {"ok"} BY DEF Steps
  <2>3. /\ endangered' \in BOOLEAN
        /\ endangered => endangered'
        /\ ~endangered' => line[s] # "settingswrite"
    BY <1>2 DEF ScriptDies, RemoteTypeOK
  <2>4. RemoteTypeOK' BY <2>1, <2>3 DEF RemoteTypeOK, Ended
  <2>5. ScriptInv' BY <2>1, <2>2 DEF ScriptInv, RemoteTypeOK, AnyFile, Steps
  <2>6. AloneInv' BY <2>1, <2>2, AloneStep
  <2>7. ~endangered' /\ Kept => KeptFiles'
    BY <2>1, <2>3 DEF Kept, KeptFiles, Keeps, RemoteTypeOK, ScriptInv
  <2>8. KeptInv' BY <2>1, <2>3, <2>7, KeptStep
  <2>. QED BY <2>4, <2>5, <2>6, <2>8
<1>. QED BY <1>1, <1>2

\* A script begins, or is refused.
LEMMA StartRemoteInv ==
    ASSUME NEW s \in Scripts, RemoteInv, StartScript(s) PROVE RemoteInv'
<1>. USE DEF RemoteInv
<1>1. PICK o \in Options :
          /\ option' = [option EXCEPT ![s] = o]
          /\ IF o.http = Unset /\ o.https = Unset
               THEN Continue(s, "failed") /\ UNCHANGED <<alone, endangered>>
               ELSE /\ Continue(s, "env")
                    /\ alone' = [t \in Scripts |-> t = s /\ Active = {}]
                    /\ endangered' = (endangered \/ Active # {})
  BY DEF StartScript
<1>2. /\ python # Unset /\ line[s] \in Ended
      /\ read' = read /\ envSetup' = envSetup /\ wanted' = wanted
      /\ settings' = settings /\ python' = python /\ original' = original
  BY DEF StartScript
<1>3. line[s] \notin Steps BY <1>2 DEF Ended, Steps
<1>4. CASE o.http = Unset /\ o.https = Unset
  <2>1. /\ line' = [line EXCEPT ![s] = "failed"] /\ alone' = alone
        /\ endangered' = endangered
    BY <1>1, <1>4 DEF Continue
  <2>2. "failed" \notin Steps \cup {"ok"} BY DEF Steps
  <2>3. RemoteTypeOK' BY <1>1, <1>2, <2>1 DEF RemoteTypeOK, Ended
  <2>4. ScriptInv' BY <1>1, <1>2, <2>1, <2>2 DEF ScriptInv, RemoteTypeOK
  <2>5. AloneInv'
    <3>. SUFFICES ASSUME NEW t \in Scripts, alone'[t], line'[t] \in Steps \cup {"ok"}
                  PROVE  Sole(t)'
      BY DEF AloneInv
    <3>1. t # s /\ line'[t] = line[t] /\ option'[t] = option[t]
      BY <1>1, <2>1, <2>2 DEF RemoteTypeOK
    <3>2. Sole(t) BY <2>1, <3>1 DEF AloneInv
    <3>3. \A u \in Scripts : u # t => line'[u] \notin Steps
      BY <2>1, <2>2, <3>2 DEF Sole, RemoteTypeOK
    <3>. QED BY <1>2, <3>1, <3>2, <3>3 DEF Sole, Carries
  <2>6. KeptInv'
    <3>. SUFFICES ASSUME python' = TRUE, ~endangered', IsObject(original') PROVE Kept'
      BY DEF KeptInv
    <3>1. Kept BY <1>2, <2>1 DEF KeptInv
    <3>2. \A t \in Scripts : t # s => line'[t] = line[t] BY <2>1 DEF RemoteTypeOK
    <3>3. line'[s] = "failed" BY <2>1 DEF RemoteTypeOK
    <3>. QED BY <1>2, <1>3, <2>2, <3>1, <3>2, <3>3 DEF Kept, Keeps, Steps
  <2>. QED BY <2>3, <2>4, <2>5, <2>6
<1>5. CASE ~(o.http = Unset /\ o.https = Unset)
  <2>1. /\ line' = [line EXCEPT ![s] = "env"]
        /\ alone' = [t \in Scripts |-> t = s /\ Active = {}]
        /\ endangered' = (endangered \/ Active # {})
    BY <1>1, <1>5 DEF Continue
  <2>2. "env" \in Steps /\ o \in Settable BY <1>5 DEF Steps, Settable
  <2>3. /\ endangered' \in BOOLEAN
        /\ ~endangered' => ~endangered /\ Active = {}
    BY <2>1 DEF RemoteTypeOK
  <2>4. RemoteTypeOK' BY <1>1, <1>2, <2>1, <2>2, <2>3 DEF RemoteTypeOK
  <2>5. ScriptInv' BY <1>1, <1>2, <2>1, <2>2 DEF ScriptInv, RemoteTypeOK
  <2>6. AloneInv'
    <3>. SUFFICES ASSUME NEW t \in Scripts, alone'[t], line'[t] \in Steps \cup {"ok"}
                  PROVE  Sole(t)'
      BY DEF AloneInv
    <3>1. t = s /\ Active = {} BY <2>1
    <3>2. line'[s] = "env" BY <2>1 DEF RemoteTypeOK
    <3>3. \A u \in Scripts : u # s => line'[u] \notin Steps
      BY <2>1, <3>1 DEF Active, RemoteTypeOK
    <3>. QED BY <3>1, <3>2, <3>3 DEF Sole, EnvDone, WantedDone
  <2>7. KeptInv'
    <3>. SUFFICES ASSUME python' = TRUE, ~endangered', IsObject(original') PROVE Kept'
      BY DEF KeptInv
    <3>1. Kept /\ Active = {} BY <1>2, <2>3 DEF KeptInv
    <3>2. \A t \in Scripts : t # s => line'[t] = line[t] /\ line[t] \notin Steps
      BY <2>1, <3>1 DEF Active, RemoteTypeOK
    <3>3. line'[s] = "env" BY <2>1 DEF RemoteTypeOK
    <3>4. settings # Partial BY <3>1 DEF Kept, Active, Steps
    <3>. QED BY <1>2, <3>1, <3>2, <3>3, <3>4 DEF Kept, Keeps, Steps
  <2>. QED BY <2>4, <2>5, <2>6, <2>7
<1>. QED BY <1>4, <1>5

-----------------------------------------------------------------------------
(* The invariant. *)

LEMMA InitRemoteInv == RemoteInit => RemoteInv
<1>. SUFFICES ASSUME RemoteInit PROVE RemoteInv OBVIOUS
<1>. USE DEF RemoteInit
<1>0. "none" \notin Steps \cup {"ok"} BY DEF Steps
<1>1. RemoteTypeOK BY DEF RemoteTypeOK, Ended
<1>2. ScriptInv BY <1>0 DEF ScriptInv, AnyFile
<1>3. AloneInv BY DEF AloneInv
<1>4. KeptInv BY <1>0, RemoteAssumption DEF KeptInv, IsObject
<1>. QED BY <1>1, <1>2, <1>3, <1>4 DEF RemoteInv

\* The user's settings are what a connect finds.
LEMMA FindRemoteInv == RemoteInv /\ FindTarget => RemoteInv'
<1>. SUFFICES ASSUME RemoteInv, FindTarget PROVE RemoteInv' OBVIOUS
<1>. USE DEF RemoteInv
<1>1. /\ python = Unset /\ python' \in BOOLEAN
      /\ settings' \in Previous /\ original' = settings'
      /\ line' = line /\ option' = option /\ read' = read /\ envSetup' = envSetup
      /\ wanted' = wanted /\ alone' = alone /\ endangered' = endangered
  BY DEF FindTarget
<1>2. \A s \in Scripts : line[s] = "none" BY <1>1 DEF ScriptInv
<1>3. "none" \notin Steps \cup {"ok"} BY DEF Steps
<1>4. settings' \in Objects \cup {Missing, Partial} BY <1>1, RemoteAssumption
<1>5. RemoteTypeOK' BY <1>1, <1>4 DEF RemoteTypeOK, IsObject
<1>6. ScriptInv' BY <1>1, <1>2 DEF ScriptInv
<1>7. AloneInv' BY <1>1, <1>2, <1>3 DEF AloneInv
<1>8. KeptInv'
  <2>. SUFFICES ASSUME IsObject(original') PROVE Kept' BY DEF KeptInv
  <2>1. settings' # Partial /\ Keeps(settings)'
    BY <1>1, ObjectIsFile DEF Keeps
  <2>. QED BY <1>1, <1>2, <1>3, <2>1 DEF Kept
<1>. QED BY <1>5, <1>6, <1>7, <1>8

LEMMA StutterRemoteInv == RemoteInv /\ UNCHANGED remoteVars => RemoteInv'
BY DEF RemoteInv, remoteVars, RemoteTypeOK, ScriptInv, AloneInv, KeptInv, Sole, Kept,
       Keeps, Carries, Active

LEMMA ScriptRemoteInv ==
    ASSUME NEW s \in Scripts, RemoteInv, StartScript(s) \/ ScriptStep(s) PROVE RemoteInv'
BY StartRemoteInv, EnvRemoteInv, WantedRemoteInv, ReadRemoteInv, MergeRemoteInv,
   SettingsRemoteInv, EndRemoteInv DEF ScriptStep

\* The invariant contains what the set-up promises.
LEMMA RemoteConsequences ==
    RemoteInv => RemoteTypeOK /\ SetupComplete /\ UserSettingsKept
<1>. SUFFICES ASSUME RemoteInv PROVE RemoteTypeOK /\ SetupComplete /\ UserSettingsKept
  OBVIOUS
<1>. USE DEF RemoteInv
<1>1. SetupComplete BY DEF AloneInv, Sole, Carries, SetupComplete
<1>2. UserSettingsKept
  <2>. SUFFICES ASSUME python = TRUE, ~endangered, IsObject(original), IsObject(settings)
                PROVE  \A k \in DOMAIN original \ ManagedKeys :
                          k \in DOMAIN settings /\ settings[k] = original[k]
    BY DEF UserSettingsKept
  <2>1. settings # Partial BY ObjectIsFile
  <2>. QED BY <2>1 DEF KeptInv, Kept, Keeps
<1>. QED BY <1>1, <1>2
=============================================================================
