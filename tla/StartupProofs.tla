---------------------------- MODULE StartupProofs ----------------------------
(***************************************************************************)
(* Proofs about Config and Startup for every set of files, environments    *)
(* and profiles.                                                           *)
(***************************************************************************)
EXTENDS Startup, TLAPS

SdkSwitches == {"offline", "useCache"}

(* What every stage of the load leaves in place: the sections and fields   *)
(* the properties read, with their types.                                  *)
WellFormed(c) ==
  /\ {"options", "sdks"} \subseteq DOMAIN c
  /\ Endpoints \cup {"offline"} \subseteq DOMAIN c.options
  /\ "enabled" \in DOMAIN c.options.offline /\ c.options.offline.enabled \in BOOLEAN
  /\ \A e \in Endpoints : "origins" \in DOMAIN c.options[e] /\ c.options[e].origins \in Seq(STRING)
  /\ \A id \in DOMAIN c.sdks : \A switch \in SdkSwitches :
       switch \in DOMAIN c.sdks[id] /\ c.sdks[id][switch] \in BOOLEAN

(* d differs from c in levels, intervals and versions only. *)
FixedUp ==
  {"log", "offlineLog", "pollInterval", "validFor", "filePollInterval", "cachePollInterval", "version"}

SameBut(c, d) ==
  /\ DOMAIN d = DOMAIN c
  /\ DOMAIN d.options = DOMAIN c.options
  /\ \A s \in DOMAIN c.options : \A k \in DOMAIN c.options[s] \ FixedUp :
       k \in DOMAIN d.options[s] /\ d.options[s][k] = c.options[s][k]
  /\ DOMAIN d.sdks = DOMAIN c.sdks
  /\ \A id \in DOMAIN c.sdks : \A k \in DOMAIN c.sdks[id] \ FixedUp :
       k \in DOMAIN d.sdks[id] /\ d.sdks[id][k] = c.sdks[id][k]

-----------------------------------------------------------------------------
(* Config *)

LEMMA IntoField ==
  ASSUME NEW keys, NEW struct, NEW k \in DOMAIN struct
  PROVE  /\ k \in DOMAIN Into(keys, struct)
         /\ Into(keys, struct)[k] = IF k \in DOMAIN keys THEN keys[k] ELSE struct[k]
BY DEF Into

(* A layer that sets an option decides about it, and about no other. *)
LEMMA OverField ==
  ASSUME NEW layer, NEW options, NEW s \in DOMAIN options, NEW k \in DOMAIN options[s]
  PROVE  /\ s \in DOMAIN Over(layer, options) /\ k \in DOMAIN Over(layer, options)[s]
         /\ Over(layer, options)[s][k] =
              IF s \in DOMAIN layer /\ k \in DOMAIN layer[s] THEN layer[s][k] ELSE options[s][k]
BY IntoField DEF Over

(* The fields of the defaults that the properties are about *)
LEMMA OfflineDefault ==
  /\ "offline" \in DOMAIN setDefaults /\ "enabled" \in DOMAIN setDefaults["offline"]
  /\ setDefaults["offline"]["enabled"] = FALSE
<1>1. ASSUME NEW x, x = [enabled |-> FALSE, cachePollInterval |-> 0, log |-> ""]
      PROVE  "enabled" \in DOMAIN x /\ x["enabled"] = FALSE
  BY <1>1
<1>2. setDefaults["offline"] = [enabled |-> FALSE, cachePollInterval |-> 0, log |-> ""]
  BY DEF setDefaults
<1>3. "offline" \in DOMAIN setDefaults
  BY DEF setDefaults
<1> QED
  BY <1>1, <1>2, <1>3, Zenon

LEMMA EndpointDefault ==
  \A e \in Endpoints : /\ e \in DOMAIN setDefaults /\ "origins" \in DOMAIN setDefaults[e]
                       /\ setDefaults[e]["origins"] = <<>>
<1>1. setDefaults["sse"] = Endpoint
  BY DEF setDefaults
<1>2. setDefaults["cdn"] = Endpoint
  BY DEF setDefaults
<1>3. setDefaults["api"] = Endpoint
  BY DEF setDefaults
<1>4. setDefaults["ofrep"] = Endpoint
  BY DEF setDefaults
<1>5. "origins" \in DOMAIN Endpoint /\ Endpoint["origins"] = <<>>
  BY DEF Endpoint
<1>6. Endpoints \subseteq DOMAIN setDefaults
  BY DEF setDefaults, Endpoints
<1> QED
  BY <1>1, <1>2, <1>3, <1>4, <1>5, <1>6, Zenon DEF Endpoints

LEMMA SdkDefault ==
  /\ \A switch \in SdkSwitches : switch \in DOMAIN ZeroSdk /\ ZeroSdk[switch] = FALSE
  /\ {"offline", "useCache", "file", "cachePollInterval", "offlineLog"} \subseteq DOMAIN ZeroSdk
  /\ ZeroSdk.file = ""
BY DEF ZeroSdk, SdkSwitches

(* What the file and the environment leave, before the fixups *)
LEMMA LayeredField ==
  ASSUME NEW y, NEW v, NEW options, options = Over(v, Over(y, setDefaults)),
         NEW s \in DOMAIN setDefaults, NEW k \in DOMAIN setDefaults[s]
  PROVE  /\ s \in DOMAIN options /\ k \in DOMAIN options[s]
         /\ options[s][k] = IF s \in DOMAIN v /\ k \in DOMAIN v[s] THEN v[s][k]
                           ELSE IF s \in DOMAIN y /\ k \in DOMAIN y[s] THEN y[s][k] ELSE setDefaults[s][k]
<1>1. PICK file : file = Over(y, setDefaults)
  OBVIOUS
<1>2. options = Over(v, file)
  BY <1>1
<1>3. /\ s \in DOMAIN file /\ k \in DOMAIN file[s]
      /\ file[s][k] = IF s \in DOMAIN y /\ k \in DOMAIN y[s] THEN y[s][k] ELSE setDefaults[s][k]
  BY <1>1, OverField
<1>4. /\ s \in DOMAIN options /\ k \in DOMAIN options[s]
      /\ options[s][k] = IF s \in DOMAIN v /\ k \in DOMAIN v[s] THEN v[s][k] ELSE file[s][k]
  BY <1>2, <1>3, OverField
<1> QED
  BY <1>3, <1>4

LEMMA LayeredOptions ==
  ASSUME NEW start \in Starts, NEW options,
         options = Over(start[2].options, Over(start[1].options, setDefaults))
  PROVE  /\ Endpoints \cup {"offline"} \subseteq DOMAIN options
         /\ "enabled" \in DOMAIN options.offline /\ options.offline.enabled \in BOOLEAN
         /\ options.offline.enabled = GlobalOffline(start[1], start[2])
         /\ \A e \in Endpoints : "origins" \in DOMAIN options[e] /\ options[e].origins \in Seq(STRING)
<1> DEFINE y == start[1].options
           v == start[2].options
           Sets(layer) == "offline" \in DOMAIN layer /\ "enabled" \in DOMAIN layer["offline"]
<1>1. \A layer \in {y, v} : Sets(layer) => layer["offline"]["enabled"] \in BOOLEAN
  BY StartsAssumption
<1>2. \A layer \in {y, v} : \A e \in Endpoints \cap DOMAIN layer :
        "origins" \in DOMAIN layer[e] => layer[e]["origins"] \in Seq(STRING)
  BY StartsAssumption
<1>3. ASSUME NEW s \in DOMAIN setDefaults, NEW k \in DOMAIN setDefaults[s]
      PROVE  /\ s \in DOMAIN options /\ k \in DOMAIN options[s]
             /\ options[s][k] = IF s \in DOMAIN v /\ k \in DOMAIN v[s] THEN v[s][k]
                               ELSE IF s \in DOMAIN y /\ k \in DOMAIN y[s] THEN y[s][k] ELSE setDefaults[s][k]
  BY LayeredField
<1>4. /\ "offline" \in DOMAIN options /\ "enabled" \in DOMAIN options["offline"]
      /\ options["offline"]["enabled"] = IF Sets(v) THEN v["offline"]["enabled"]
                                        ELSE IF Sets(y) THEN y["offline"]["enabled"] ELSE FALSE
  <2> HIDE DEF y, v
  <2> QED
    BY <1>3, OfflineDefault
<1>5. /\ options["offline"]["enabled"] \in BOOLEAN
      /\ options["offline"]["enabled"] = IF Sets(v) THEN v["offline"]["enabled"]
                                        ELSE Sets(y) /\ y["offline"]["enabled"]
  <2>1. CASE Sets(v)
    BY <2>1, <1>1, <1>4
  <2>2. CASE ~Sets(v) /\ Sets(y)
    BY <2>2, <1>1, <1>4
  <2>3. CASE ~Sets(v) /\ ~Sets(y)
    BY <2>3, <1>4
  <2> QED
    BY <2>1, <2>2, <2>3
<1>6. ASSUME NEW e \in Endpoints
      PROVE  e \in DOMAIN options /\ "origins" \in DOMAIN options[e] /\ options[e]["origins"] \in Seq(STRING)
  <2>1. /\ e \in DOMAIN options /\ "origins" \in DOMAIN options[e]
        /\ options[e]["origins"] = IF e \in DOMAIN v /\ "origins" \in DOMAIN v[e] THEN v[e]["origins"]
                                  ELSE IF e \in DOMAIN y /\ "origins" \in DOMAIN y[e] THEN y[e]["origins"]
                                  ELSE <<>>
    BY <1>3, EndpointDefault
  <2>2. <<>> \in Seq(STRING)
    OBVIOUS
  <2> QED
    BY <1>2, <2>1, <2>2
<1> QED
  BY <1>4, <1>5, <1>6 DEF GlobalOffline

LEMMA LayeredSdks ==
  ASSUME NEW start \in Starts, NEW sdks, sdks = loadSdks(Unmarshal(start[1]), start[2])
  PROVE  /\ \A id \in DOMAIN sdks :
              /\ \A switch \in SdkSwitches : switch \in DOMAIN sdks[id] /\ sdks[id][switch] \in BOOLEAN
              /\ sdks[id].offline = OwnOffline(id, start[1], start[2])
         /\ \A id : OwnOffline(id, start[1], start[2]) => id \in DOMAIN sdks
<1> DEFINE y == start[1].sdks
           v == start[2].sdks
           Says(section) == "offline" \in DOMAIN section /\ section["offline"]
<1>1. sdks = [id \in DOMAIN y \cup DOMAIN v |->
                IF id \in DOMAIN v THEN Into(v[id], ZeroSdk) ELSE Into(y[id], ZeroSdk)]
  BY DEF loadSdks, Unmarshal
<1>2. \A layer \in {y, v} : \A id \in DOMAIN layer : \A switch \in SdkSwitches :
        switch \in DOMAIN layer[id] => layer[id][switch] \in BOOLEAN
  BY StartsAssumption DEF SdkSwitches
<1>3. ASSUME NEW section, NEW switch \in SdkSwitches,
             switch \in DOMAIN section => section[switch] \in BOOLEAN
      PROVE  /\ switch \in DOMAIN Into(section, ZeroSdk) /\ Into(section, ZeroSdk)[switch] \in BOOLEAN
             /\ Into(section, ZeroSdk)[switch] = (switch \in DOMAIN section /\ section[switch])
  <2>1. switch \in DOMAIN ZeroSdk /\ ZeroSdk[switch] = FALSE
    BY SdkDefault
  <2>2. /\ switch \in DOMAIN Into(section, ZeroSdk)
        /\ Into(section, ZeroSdk)[switch] = IF switch \in DOMAIN section THEN section[switch] ELSE FALSE
    BY <2>1, IntoField, Zenon
  <2> QED
    BY <1>3, <2>2
<1>4. ASSUME NEW id \in DOMAIN sdks
      PROVE  /\ \A switch \in SdkSwitches : switch \in DOMAIN sdks[id] /\ sdks[id][switch] \in BOOLEAN
             /\ sdks[id]["offline"] = IF id \in DOMAIN v THEN Says(v[id]) ELSE Says(y[id])
             /\ id \in DOMAIN y \/ id \in DOMAIN v
  <2> "offline" \in SdkSwitches
    BY DEF SdkSwitches
  <2>1. CASE id \in DOMAIN v
    <3>1. sdks[id] = Into(v[id], ZeroSdk)
      BY <1>1, <2>1
    <3> QED
      BY <1>2, <1>3, <2>1, <3>1
  <2>2. CASE id \notin DOMAIN v
    <3>1. sdks[id] = Into(y[id], ZeroSdk) /\ id \in DOMAIN y
      BY <1>1, <2>2
    <3> QED
      BY <1>2, <1>3, <2>2, <3>1
  <2> QED
    BY <2>1, <2>2
<1>5. DOMAIN sdks = DOMAIN y \cup DOMAIN v
  BY <1>1
<1> QED
  BY <1>4, <1>5 DEF OwnOffline

(* The fixups of levels, intervals and versions *)
LEMMA LogLevelsFixed ==
  ASSUME NEW c, {"options", "sdks"} \subseteq DOMAIN c
  PROVE  SameBut(c, fixupLogLevels(c))
<1> DEFINE d == fixupLogLevels(c)
<1>1. DOMAIN d = DOMAIN c
  BY DEF fixupLogLevels
<1>2. DOMAIN d.options = DOMAIN c.options
  BY DEF fixupLogLevels
<1>3. ASSUME NEW s \in DOMAIN c.options, NEW k \in DOMAIN c.options[s] \ FixedUp
      PROVE  k \in DOMAIN d.options[s] /\ d.options[s][k] = c.options[s][k]
  BY <1>3 DEF fixupLogLevels, FixedUp
<1>4. DOMAIN d.sdks = DOMAIN c.sdks
  BY DEF fixupLogLevels
<1>5. ASSUME NEW id \in DOMAIN c.sdks, NEW k \in DOMAIN c.sdks[id] \ FixedUp
      PROVE  k \in DOMAIN d.sdks[id] /\ d.sdks[id][k] = c.sdks[id][k]
  BY <1>5 DEF fixupLogLevels, FixedUp
<1> HIDE DEF d
<1>6. SameBut(c, d)
  BY <1>1, <1>2, <1>3, <1>4, <1>5 DEF SameBut
<1> QED
  BY <1>6 DEF d

LEMMA SectionDefaults ==
  ASSUME NEW section, NEW k \in DOMAIN section \ FixedUp
  PROVE  /\ k \in DOMAIN SdkDefaults(section) /\ SdkDefaults(section)[k] = section[k]
         /\ k \in DOMAIN ProfileDefaults(section) /\ ProfileDefaults(section)[k] = section[k]
BY DEF SdkDefaults, ProfileDefaults, FixedUp

LEMMA DefaultsFixed ==
  ASSUME NEW c, {"options", "sdks"} \subseteq DOMAIN c
  PROVE  SameBut(c, fixupDefaults(c))
<1> DEFINE d == fixupDefaults(c)
<1>1. DOMAIN d = DOMAIN c
  BY DEF fixupDefaults
<1>2. DOMAIN d.options = DOMAIN c.options
  BY DEF fixupDefaults
<1>3. ASSUME NEW s \in DOMAIN c.options, NEW k \in DOMAIN c.options[s] \ FixedUp
      PROVE  k \in DOMAIN d.options[s] /\ d.options[s][k] = c.options[s][k]
  <2>1. CASE s = "offline"
    <3>1. k # "cachePollInterval"
      BY DEF FixedUp
    <3> QED
      BY <2>1, <3>1 DEF fixupDefaults
  <2>2. CASE s = "profile"
    <3>1. d.options[s] = ProfileDefaults(c.options[s])
      BY <2>2 DEF fixupDefaults
    <3> HIDE DEF d
    <3> QED
      BY <3>1, SectionDefaults
  <2>3. CASE s # "offline" /\ s # "profile"
    <3>1. d.options[s] = c.options[s]
      BY <2>3 DEF fixupDefaults
    <3> QED
      BY <3>1
  <2> QED
    BY <2>1, <2>2, <2>3
<1>4. DOMAIN d.sdks = DOMAIN c.sdks /\ \A id \in DOMAIN c.sdks : d.sdks[id] = SdkDefaults(c.sdks[id])
  BY DEF fixupDefaults
<1> HIDE DEF d
<1>5. ASSUME NEW id \in DOMAIN c.sdks, NEW k \in DOMAIN c.sdks[id] \ FixedUp
      PROVE  k \in DOMAIN d.sdks[id] /\ d.sdks[id][k] = c.sdks[id][k]
  BY <1>4, SectionDefaults
<1>6. SameBut(c, d)
  BY <1>1, <1>2, <1>3, <1>4, <1>5 DEF SameBut
<1> QED
  BY <1>6 DEF d

LEMMA VersionsFixed ==
  ASSUME NEW c, {"options", "sdks"} \subseteq DOMAIN c
  PROVE  SameBut(c, fixupTlsMinVersions(c))
<1> DEFINE d == fixupTlsMinVersions(c)
<1>1. DOMAIN d = DOMAIN c
  BY DEF fixupTlsMinVersions
<1>2. DOMAIN d.options = DOMAIN c.options
  BY DEF fixupTlsMinVersions
<1>3. d.sdks = c.sdks
  BY DEF fixupTlsMinVersions
<1>4. ASSUME NEW s \in DOMAIN c.options, NEW k \in DOMAIN c.options[s] \ FixedUp
      PROVE  k \in DOMAIN d.options[s] /\ d.options[s][k] = c.options[s][k]
  <2>1. k # "version"
    BY DEF FixedUp
  <2>2. CASE s \notin {"tls", "redisTls", "mongodbTls"}
    BY <2>2 DEF fixupTlsMinVersions
  <2>3. CASE s = "tls"
    BY <2>1, <2>3 DEF fixupTlsMinVersions
  <2>4. CASE s = "redisTls"
    BY <2>1, <2>4 DEF fixupTlsMinVersions
  <2>5. CASE s = "mongodbTls"
    BY <2>1, <2>5 DEF fixupTlsMinVersions
  <2> QED
    BY <2>2, <2>3, <2>4, <2>5
<1> HIDE DEF d
<1>5. SameBut(c, d)
  BY <1>1, <1>2, <1>3, <1>4 DEF SameBut
<1> QED
  BY <1>5 DEF d

(* Every option that no fixup is about is the environment's if it sets it, *)
(* else the file's, else the default (config.go, LoadConfigFromFileAnd-    *)
(* Environment; env.go), for every file and every environment.             *)
THEOREM Precedence ==
  ASSUME NEW file, NEW variables, NEW s \in DOMAIN setDefaults, NEW k \in DOMAIN setDefaults[s] \ FixedUp
  PROVE  LET Sets(layer) == s \in DOMAIN layer.options /\ k \in DOMAIN layer.options[s]
         IN  Loaded(file, variables).options[s][k] =
               IF Sets(variables) THEN variables.options[s][k]
               ELSE IF Sets(file) THEN file.options[s][k] ELSE setDefaults[s][k]
<1>1. PICK c0 : c0 = loadEnv(Unmarshal(file), variables)
  OBVIOUS
<1>2. PICK c1 : c1 = fixupLogLevels(c0)
  OBVIOUS
<1>3. PICK c2 : c2 = fixupDefaults(c1)
  OBVIOUS
<1>4. PICK c3 : c3 = fixupTlsMinVersions(c2)
  OBVIOUS
<1>5. Loaded(file, variables) = fixupOffline(c3)
  BY <1>1, <1>2, <1>3, <1>4 DEF Loaded
<1>6. DOMAIN c0 = {"options", "sdks", "nil"} /\ c0.options = Over(variables.options, Over(file.options, setDefaults))
  BY <1>1 DEF loadEnv, Unmarshal
<1>7. PICK options : options = c0.options
  OBVIOUS
<1>8. /\ s \in DOMAIN options /\ k \in DOMAIN options[s]
      /\ options[s][k] = IF s \in DOMAIN variables.options /\ k \in DOMAIN variables.options[s]
                        THEN variables.options[s][k]
                        ELSE IF s \in DOMAIN file.options /\ k \in DOMAIN file.options[s]
                        THEN file.options[s][k] ELSE setDefaults[s][k]
  BY <1>6, <1>7, LayeredField
<1>9. SameBut(c0, c1)
  BY <1>2, <1>6, LogLevelsFixed
<1>10. SameBut(c1, c2)
  BY <1>3, <1>6, <1>9, DefaultsFixed DEF SameBut
<1>11. SameBut(c2, c3)
  BY <1>4, <1>6, <1>9, <1>10, VersionsFixed DEF SameBut
<1>12. c3.options[s][k] = options[s][k]
  <2>1. s \in DOMAIN c1.options /\ k \in DOMAIN c1.options[s] /\ c1.options[s][k] = options[s][k]
    BY <1>7, <1>8, <1>9 DEF SameBut
  <2>2. s \in DOMAIN c2.options /\ k \in DOMAIN c2.options[s] /\ c2.options[s][k] = options[s][k]
    BY <1>10, <2>1 DEF SameBut
  <2> QED
    BY <1>11, <2>2 DEF SameBut
<1>13. fixupOffline(c3).options = c3.options
  <2>1. DOMAIN c3 = {"options", "sdks", "nil"}
    BY <1>6, <1>9, <1>10, <1>11 DEF SameBut
  <2> QED
    BY <2>1 DEF fixupOffline
<1> QED
  BY <1>5, <1>8, <1>12, <1>13

(* Offline mode, the origins and the SDKs are none of their business. *)
LEMMA FixupsKeep ==
  ASSUME NEW c, NEW d, WellFormed(c), SameBut(c, d)
  PROVE  /\ WellFormed(d)
         /\ d.options.offline.enabled = c.options.offline.enabled
         /\ DOMAIN d.sdks = DOMAIN c.sdks
         /\ \A id \in DOMAIN c.sdks : d.sdks[id].offline = c.sdks[id].offline
<1>1. {"options", "sdks"} \subseteq DOMAIN d
  BY DEF WellFormed, SameBut
<1>2. Endpoints \cup {"offline"} \subseteq DOMAIN d.options
  BY DEF WellFormed, SameBut
<1>3. /\ "enabled" \in DOMAIN d.options["offline"]
      /\ d.options["offline"]["enabled"] = c.options["offline"]["enabled"]
  <2>1. "enabled" \in DOMAIN c.options["offline"] \ FixedUp /\ "offline" \in DOMAIN c.options
    BY DEF WellFormed, FixedUp
  <2> QED
    BY <2>1 DEF SameBut
<1>4. \A e \in Endpoints : /\ "origins" \in DOMAIN d.options[e]
                           /\ d.options[e]["origins"] = c.options[e]["origins"]
  <2> SUFFICES ASSUME NEW e \in Endpoints
               PROVE  "origins" \in DOMAIN d.options[e] /\ d.options[e]["origins"] = c.options[e]["origins"]
    OBVIOUS
  <2>1. "origins" \in DOMAIN c.options[e] \ FixedUp /\ e \in DOMAIN c.options
    BY DEF WellFormed, FixedUp
  <2> QED
    BY <2>1 DEF SameBut
<1>5. DOMAIN d.sdks = DOMAIN c.sdks
  BY DEF SameBut
<1>6. \A id \in DOMAIN c.sdks : \A switch \in SdkSwitches :
        switch \in DOMAIN d.sdks[id] /\ d.sdks[id][switch] = c.sdks[id][switch]
  <2> SUFFICES ASSUME NEW id \in DOMAIN c.sdks, NEW switch \in SdkSwitches
               PROVE  switch \in DOMAIN d.sdks[id] /\ d.sdks[id][switch] = c.sdks[id][switch]
    OBVIOUS
  <2>1. switch \in DOMAIN c.sdks[id] /\ switch \notin FixedUp
    BY DEF WellFormed, FixedUp, SdkSwitches
  <2> QED
    BY <2>1 DEF SameBut
<1>7. "offline" \in SdkSwitches
  BY DEF SdkSwitches
<1>8. WellFormed(d)
  BY <1>1, <1>2, <1>3, <1>4, <1>5, <1>6 DEF WellFormed
<1> QED
  BY <1>3, <1>5, <1>6, <1>7, <1>8

(* Global offline mode takes every SDK along. *)
LEMMA OfflineFixed ==
  ASSUME NEW c, WellFormed(c)
  PROVE  /\ WellFormed(fixupOffline(c))
         /\ fixupOffline(c).options = c.options
         /\ DOMAIN fixupOffline(c).sdks = DOMAIN c.sdks
         /\ \A id \in DOMAIN c.sdks :
              fixupOffline(c).sdks[id].offline = (c.options.offline.enabled \/ c.sdks[id].offline)
<1> DEFINE d == fixupOffline(c)
<1>1. DOMAIN d = DOMAIN c /\ d.options = c.options
  BY DEF fixupOffline, WellFormed
<1>2. DOMAIN d.sdks = DOMAIN c.sdks /\ \A id \in DOMAIN c.sdks : d.sdks[id] = TakenOffline(c.sdks[id], c.options)
  BY DEF fixupOffline, WellFormed
<1>3. ASSUME NEW id \in DOMAIN c.sdks
      PROVE  /\ DOMAIN d.sdks[id] = DOMAIN c.sdks[id]
             /\ d.sdks[id]["offline"] \in BOOLEAN /\ d.sdks[id]["useCache"] \in BOOLEAN
             /\ d.sdks[id]["offline"] = (c.options.offline.enabled \/ c.sdks[id].offline)
  <2> DEFINE sdk == c.sdks[id]
  <2>1. /\ "offline" \in DOMAIN sdk /\ "useCache" \in DOMAIN sdk
        /\ sdk["offline"] \in BOOLEAN /\ sdk["useCache"] \in BOOLEAN
        /\ c.options.offline.enabled \in BOOLEAN
    BY DEF WellFormed, SdkSwitches
  <2>2. CASE ~c.options.offline.enabled \/ sdk.offline
    <3>1. d.sdks[id] = sdk
      BY <1>2, <2>2 DEF TakenOffline
    <3> QED
      BY <2>1, <2>2, <3>1
  <2>3. CASE c.options.offline.enabled /\ ~sdk.offline
    <3>1. d.sdks[id] = [sdk EXCEPT !.offline = TRUE, !.useCache = TRUE,
                          !.cachePollInterval = c.options.offline.cachePollInterval,
                          !.offlineLog = c.options.offline.log]
      BY <1>2, <2>3 DEF TakenOffline
    <3> HIDE DEF sdk, d
    <3>2. DOMAIN d.sdks[id] = DOMAIN sdk /\ d.sdks[id]["offline"] = TRUE /\ d.sdks[id]["useCache"] = TRUE
      BY <2>1, <3>1
    <3> QED
      BY <2>1, <2>3, <3>2 DEF sdk
  <2> QED
    BY <2>2, <2>3
<1> HIDE DEF d
<1>4. WellFormed(d)
  BY <1>1, <1>2, <1>3 DEF WellFormed, SdkSwitches
<1> QED
  BY <1>1, <1>2, <1>3, <1>4 DEF d

(* What is loaded is what the file and the environment say: global offline *)
(* mode, and for each SDK of either, whether it is offline.                *)
LEMMA LoadedAsMeant ==
  ASSUME NEW start \in Starts
  PROVE  LET c == Loaded(start[1], start[2])
             global == GlobalOffline(start[1], start[2])
         IN  /\ WellFormed(c)
             /\ c.options.offline.enabled = global
             /\ \A id \in DOMAIN c.sdks : c.sdks[id].offline = (global \/ OwnOffline(id, start[1], start[2]))
             /\ \A id : OwnOffline(id, start[1], start[2]) => id \in DOMAIN c.sdks
<1> DEFINE global == GlobalOffline(start[1], start[2])
           Own(id) == OwnOffline(id, start[1], start[2])
           AsMeant(c) == /\ WellFormed(c)
                         /\ c.options.offline.enabled = global
                         /\ \A id \in DOMAIN c.sdks : c.sdks[id].offline = Own(id)
                         /\ \A id : Own(id) => id \in DOMAIN c.sdks
<1>1. PICK c0 : c0 = loadEnv(Unmarshal(start[1]), start[2])
  OBVIOUS
<1>2. PICK c1 : c1 = fixupLogLevels(c0)
  OBVIOUS
<1>3. PICK c2 : c2 = fixupDefaults(c1)
  OBVIOUS
<1>4. PICK c3 : c3 = fixupTlsMinVersions(c2)
  OBVIOUS
<1>5. Loaded(start[1], start[2]) = fixupOffline(c3)
  BY <1>1, <1>2, <1>3, <1>4 DEF Loaded
<1>6. AsMeant(c0)
  <2>1. /\ DOMAIN c0 = {"options", "sdks", "nil"}
        /\ c0.options = Over(start[2].options, Unmarshal(start[1]).options)
        /\ c0.sdks = loadSdks(Unmarshal(start[1]), start[2])
    BY <1>1 DEF loadEnv
  <2>2. Unmarshal(start[1]).options = Over(start[1].options, setDefaults)
    BY DEF Unmarshal
  <2>3. PICK options, sdks : options = c0.options /\ sdks = c0.sdks
    OBVIOUS
  <2>4. /\ Endpoints \cup {"offline"} \subseteq DOMAIN options
        /\ "enabled" \in DOMAIN options.offline /\ options.offline.enabled \in BOOLEAN
        /\ options.offline.enabled = GlobalOffline(start[1], start[2])
        /\ \A e \in Endpoints : "origins" \in DOMAIN options[e] /\ options[e].origins \in Seq(STRING)
    BY <2>1, <2>2, <2>3, LayeredOptions
  <2>5. /\ \A id \in DOMAIN sdks :
             /\ \A switch \in SdkSwitches : switch \in DOMAIN sdks[id] /\ sdks[id][switch] \in BOOLEAN
             /\ sdks[id].offline = OwnOffline(id, start[1], start[2])
        /\ \A id : OwnOffline(id, start[1], start[2]) => id \in DOMAIN sdks
    BY <2>1, <2>3, LayeredSdks
  <2>6. WellFormed(c0)
    BY <2>1, <2>3, <2>4, <2>5 DEF WellFormed
  <2> QED
    BY <2>3, <2>4, <2>5, <2>6
<1>7. ASSUME NEW c, NEW d, AsMeant(c), SameBut(c, d)
      PROVE  AsMeant(d)
  BY <1>7, FixupsKeep
<1>8. ASSUME NEW c, AsMeant(c) PROVE {"options", "sdks"} \subseteq DOMAIN c
  BY <1>8 DEF WellFormed
<1> HIDE DEF AsMeant
<1>9. AsMeant(c1)
  BY <1>2, <1>6, <1>7, <1>8, LogLevelsFixed
<1>10. AsMeant(c2)
  BY <1>3, <1>9, <1>7, <1>8, DefaultsFixed
<1>11. AsMeant(c3)
  BY <1>4, <1>10, <1>7, <1>8, VersionsFixed
<1> USE DEF AsMeant
<1>12. PICK c : c = Loaded(start[1], start[2])
  OBVIOUS
<1>13. /\ WellFormed(c) /\ c.options = c3.options /\ DOMAIN c.sdks = DOMAIN c3.sdks
       /\ \A id \in DOMAIN c3.sdks : c.sdks[id].offline = (c3.options.offline.enabled \/ c3.sdks[id].offline)
  BY <1>5, <1>11, <1>12, OfflineFixed
<1> QED
  BY <1>11, <1>12, <1>13

LEMMA ValidMeans ==
  ASSUME NEW c, "ok" \in Validate(c)
  PROVE  /\ \A id \in DOMAIN c.sdks : validOffline(c.sdks[id], c.options)
         /\ validGlobalOffline(c.options)
BY DEF Validate, validSdk

-----------------------------------------------------------------------------
(* The inductive invariant: what main has passed *)

UntilCache == {"load", "validate", "diag", "cache"}
StartInv == \E start \in Starts : yaml = start[1] /\ env = start[2]
LoadInv == main \notin {"load", "exited"} => conf = Loaded(yaml, env)
ValidInv == main \notin {"load", "validate", "exited"} => "ok" \in Validate(conf)
CacheInv == main \notin UntilCache \cup {"exited"} /\ CacheIsSet(Options) => cache # "none"
ClientsInv == \A id \in DOMAIN clients : {"offline", "storage", "open"} \subseteq DOMAIN clients[id]

OfflineInv ==
  /\ StartInv /\ LoadInv /\ ValidInv /\ CacheInv /\ ClientsInv
  /\ OfflineClientsHaveASource /\ OfflineAsConfigured

(* What is open has its shutdown function registered, until it has run. *)
UntilDiag == {"load", "validate", "diag"}

OpenInv ==
  /\ DOMAIN server = Servers
  /\ main \in UntilDiag => cache = "none" /\ call = "none" /\ \A s \in Servers : server[s] = "off"
  /\ cache = "open" => "cache" \in shutdown
  /\ \A s \in Servers : server[s] \in {"starting", "serving"} => s \in shutdown
  /\ call \notin {"none", "ended"} => "grpc" \in shutdown

ExitInv ==
  /\ exit # "none" => main = "exited"
  /\ main \in {"router", "shutdown"} \/ exit = "ok"
     => (~ProfileIsSet(Options) => \A id \in DOMAIN clients : ~clients[id].open)
  /\ exit = "ok" => shutdown = {}

-----------------------------------------------------------------------------
(* Offline clients *)

(* The options of a client in profile mode: offline as the local section   *)
(* and global offline mode say, and then with a source.                    *)
LEMMA BuiltSdk ==
  ASSUME NEW id, WellFormed(conf), "ok" \in Validate(conf)
  PROVE  /\ buildSdkConfig(id).offline =
              (Options.offline.enabled \/ (id \in DOMAIN conf.sdks /\ conf.sdks[id].offline))
         /\ (CacheIsSet(Options) => cache # "none") /\ buildSdkConfig(id).offline
            => Storage(buildSdkConfig(id)) \in {"file", "notifying cache"}
<1>1. PICK sdk : sdk = IF id \notin DOMAIN conf.sdks THEN ZeroSdk
                       ELSE LET local == conf.sdks[id]
                            IN  [ZeroSdk EXCEPT !.offline = local.offline, !.useCache = local.useCache,
                                   !.file = local.file, !.cachePollInterval = local.cachePollInterval]
  OBVIOUS
<1>2. PICK built : built = buildSdkConfig(id)
  OBVIOUS
<1>3. built = TakenOffline(sdk, Options)
  BY <1>1, <1>2 DEF buildSdkConfig
<1>4. PICK global : global = Options.offline.enabled /\ global \in BOOLEAN
  BY DEF WellFormed, Options
<1>5. global => CacheIsSet(Options)
  BY <1>4, ValidMeans DEF validGlobalOffline, CacheIsSet, Options
<1>6. /\ "offline" \in DOMAIN sdk /\ "useCache" \in DOMAIN sdk /\ "file" \in DOMAIN sdk
      /\ sdk.offline \in BOOLEAN /\ sdk.useCache \in BOOLEAN
      /\ sdk.offline = (id \in DOMAIN conf.sdks /\ conf.sdks[id].offline)
      /\ sdk.offline => ((sdk.file # "") # sdk.useCache) /\ (sdk.useCache => CacheIsSet(Options))
  <2>1. CASE id \notin DOMAIN conf.sdks
    <3>1. sdk = ZeroSdk
      BY <1>1, <2>1
    <3> QED
      BY <2>1, <3>1 DEF ZeroSdk
  <2>2. CASE id \in DOMAIN conf.sdks
    <3>1. PICK local : local = conf.sdks[id]
      OBVIOUS
    <3>2. /\ local["offline"] \in BOOLEAN /\ local["useCache"] \in BOOLEAN
      BY <2>2, <3>1 DEF WellFormed, SdkSwitches
    <3>3. sdk = [ZeroSdk EXCEPT !.offline = local.offline, !.useCache = local.useCache,
                   !.file = local.file, !.cachePollInterval = local.cachePollInterval]
      BY <1>1, <2>2, <3>1
    <3>4. /\ "offline" \in DOMAIN sdk /\ "useCache" \in DOMAIN sdk /\ "file" \in DOMAIN sdk
          /\ sdk.offline = local.offline /\ sdk.useCache = local.useCache /\ sdk.file = local.file
      BY <3>3, SdkDefault
    <3>5. local.offline => ((local.file # "") # local.useCache) /\ (local.useCache => CacheIsSet(Options))
      BY <2>2, <3>1, ValidMeans DEF validOffline, Options
    <3> QED
      BY <2>2, <3>1, <3>2, <3>4, <3>5
  <2> QED
    BY <2>1, <2>2
<1>7. CASE ~global \/ sdk.offline
  <2>1. built = sdk
    BY <1>3, <1>4, <1>7 DEF TakenOffline
  <2>2. built.offline = (global \/ (id \in DOMAIN conf.sdks /\ conf.sdks[id].offline))
    BY <1>4, <1>6, <1>7, <2>1
  <2>3. (CacheIsSet(Options) => cache # "none") /\ sdk.offline => Storage(sdk) \in {"file", "notifying cache"}
    BY <1>6 DEF Storage
  <2> QED
    BY <1>2, <1>4, <2>1, <2>2, <2>3
<1>8. CASE global /\ ~sdk.offline
  <2>1. built = [sdk EXCEPT !.offline = TRUE, !.useCache = TRUE,
                   !.cachePollInterval = Options.offline.cachePollInterval, !.offlineLog = Options.offline.log]
    BY <1>3, <1>4, <1>8 DEF TakenOffline
  <2>2. built.offline = TRUE /\ built.useCache = TRUE
    BY <1>6, <2>1
  <2>3. (CacheIsSet(Options) => cache # "none") => Storage(built) \in {"file", "notifying cache"}
    BY <1>5, <1>8, <2>2 DEF Storage
  <2> QED
    BY <1>2, <1>4, <1>8, <2>2, <2>3
<1> QED
  BY <1>4, <1>6, <1>7, <1>8

LEMMA OfflineInit == Init => OfflineInv
BY DEF Init, OfflineInv, StartInv, LoadInv, ValidInv, CacheInv, UntilCache, ClientsInv, OfflineClientsHaveASource,
       OfflineAsConfigured

(* The steps that leave the options and the clients alone, main staying or *)
(* moving on, and may close the cache                                      *)
LEMMA OfflineKept ==
  ASSUME OfflineInv, UNCHANGED <<yaml, env, conf, clients>>,
         cache' = cache \/ cache' # "none", main \in UntilCache => main' \in UntilCache \cup {"exited"},
         main = "load" => main' \in {"load", "exited"}, main = "exited" => main' = "exited",
         main = "validate" /\ main' \notin {"validate", "exited"} => "ok" \in Validate(conf)
  PROVE  OfflineInv'
<1>1. StartInv' /\ LoadInv' /\ ValidInv'
  BY DEF OfflineInv, StartInv, LoadInv, ValidInv
<1>2. CacheInv'
  BY DEF OfflineInv, CacheInv, UntilCache, Options
<1>3. OfflineClientsHaveASource' /\ ClientsInv'
  BY DEF OfflineInv, OfflineClientsHaveASource, ClientsInv
<1>4. OfflineAsConfigured'
  BY DEF OfflineInv, OfflineAsConfigured
<1> QED
  BY <1>1, <1>2, <1>3, <1>4 DEF OfflineInv

LEMMA RegistrarStep ==
  ASSUME OfflineInv, NewRegistrar
  PROVE  OfflineInv'
<1>1. StartInv' /\ LoadInv' /\ ValidInv' /\ CacheInv'
  BY DEF NewRegistrar, Exit, OfflineInv, StartInv, LoadInv, ValidInv, CacheInv, UntilCache, Options
<1>2. CASE clients' = clients
  <2>1. OfflineClientsHaveASource' /\ ClientsInv'
    BY <1>2 DEF OfflineInv, OfflineClientsHaveASource, ClientsInv
  <2>2. OfflineAsConfigured'
    BY <1>2 DEF NewRegistrar, OfflineInv, OfflineAsConfigured
  <2> QED
    BY <1>1, <2>1, <2>2 DEF OfflineInv
<1>3. PICK start \in Starts : yaml = start[1] /\ env = start[2]
  BY DEF OfflineInv, StartInv
<1>4. conf = Loaded(start[1], start[2]) /\ "ok" \in Validate(conf)
  BY <1>3 DEF OfflineInv, LoadInv, ValidInv, NewRegistrar
<1>5. PICK global : global = GlobalOffline(start[1], start[2])
  OBVIOUS
<1>6. /\ WellFormed(conf) /\ Options.offline.enabled = global
      /\ \A id \in DOMAIN conf.sdks : conf.sdks[id].offline = (global \/ OwnOffline(id, start[1], start[2]))
      /\ \A id : OwnOffline(id, start[1], start[2]) => id \in DOMAIN conf.sdks
  BY <1>4, <1>5, LoadedAsMeant DEF Options
<1>7. CacheIsSet(Options) => cache # "none"
  BY DEF OfflineInv, CacheInv, UntilCache, NewRegistrar
<1>8. ASSUME NEW ids, NEW sdk, clients' = [id \in ids |-> NewClient(sdk[id])],
             \A id \in ids : /\ sdk[id].offline = (global \/ OwnOffline(id, start[1], start[2]))
                             /\ sdk[id].offline => Storage(sdk[id]) \in {"file", "notifying cache"}
      PROVE  OfflineInv'
  <2>1. DOMAIN clients' = ids /\ \A id \in ids : /\ clients'[id].offline = sdk[id].offline
                                                 /\ clients'[id].storage = Storage(sdk[id])
    BY <1>8 DEF NewClient
  <2>2. OfflineClientsHaveASource'
    BY <1>8, <2>1 DEF OfflineClientsHaveASource
  <2>2a. ClientsInv'
    BY <1>8 DEF NewClient, ClientsInv
  <2>3. yaml' = start[1] /\ env' = start[2]
    BY <1>3 DEF NewRegistrar
  <2>4. OfflineAsConfigured'
    BY <1>5, <1>8, <2>1, <2>3 DEF OfflineAsConfigured
  <2> QED
    BY <1>1, <2>2, <2>2a, <2>4 DEF OfflineInv
<1>9. CASE clients' = [id \in DOMAIN conf.sdks |-> NewClient(conf.sdks[id])]
  <2>1. ASSUME NEW id \in DOMAIN conf.sdks, conf.sdks[id].offline
        PROVE  Storage(conf.sdks[id]) \in {"file", "notifying cache"}
    <3>1. PICK sdk : sdk = conf.sdks[id]
      OBVIOUS
    <3>2. sdk["useCache"] \in BOOLEAN
      BY <1>6, <3>1 DEF WellFormed, SdkSwitches
    <3>3. validOffline(sdk, Options)
      BY <1>4, <3>1, ValidMeans DEF Options
    <3>4. sdk.offline
      BY <2>1, <3>1
    <3>5. Storage(sdk) \in {"file", "notifying cache"}
      BY <1>7, <3>2, <3>3, <3>4 DEF validOffline, Storage
    <3> QED
      BY <3>1, <3>5
  <2> QED
    BY <1>6, <1>8, <1>9, <2>1
<1>10. ASSUME NEW ids \in SUBSET ProfileSdks, clients' = [id \in ids |-> NewClient(buildSdkConfig(id))]
       PROVE  OfflineInv'
  <2>1. PICK sdk : sdk = [id \in ids |-> buildSdkConfig(id)]
    OBVIOUS
  <2>2. clients' = [id \in ids |-> NewClient(sdk[id])]
    BY <1>10, <2>1
  <2>3. ASSUME NEW id \in ids
        PROVE  /\ sdk[id].offline = (global \/ OwnOffline(id, start[1], start[2]))
               /\ sdk[id].offline => Storage(sdk[id]) \in {"file", "notifying cache"}
    <3>1. sdk[id] = buildSdkConfig(id)
      BY <2>1
    <3>2. /\ sdk[id].offline = (Options.offline.enabled \/ (id \in DOMAIN conf.sdks /\ conf.sdks[id].offline))
          /\ sdk[id].offline => Storage(sdk[id]) \in {"file", "notifying cache"}
      BY <1>4, <1>6, <1>7, <3>1, BuiltSdk
    <3> QED
      BY <1>6, <3>2
  <2> QED
    BY <1>8, <2>2, <2>3
<1> QED
  BY <1>2, <1>9, <1>10 DEF NewRegistrar

(* A refresh in progress while main is past the registrar *)
LEMMA RefreshStep ==
  ASSUME NEW id, OfflineInv, StoreSdk(id) \/ DeleteSdk(id)
  PROVE  OfflineInv'
<1>1. StartInv' /\ LoadInv' /\ ValidInv' /\ CacheInv'
  BY DEF StoreSdk, DeleteSdk, OfflineInv, StartInv, LoadInv, ValidInv, CacheInv, Options
<1>2. ASSUME NEW ids, DOMAIN clients' = ids, ids \subseteq DOMAIN clients \cup {id},
             \A other \in ids \ {id} : other \in DOMAIN clients /\ clients'[other] = clients[other],
             id \in ids => /\ {"offline", "storage", "open"} \subseteq DOMAIN clients'[id]
                           /\ clients'[id].offline = (GlobalOffline(yaml, env) \/ OwnOffline(id, yaml, env))
                           /\ clients'[id].offline => clients'[id].storage \in {"file", "notifying cache"}
      PROVE  OfflineInv'
  <2>1. OfflineClientsHaveASource'
    BY <1>2 DEF OfflineInv, OfflineClientsHaveASource
  <2>2. ClientsInv'
    BY <1>2 DEF OfflineInv, ClientsInv
  <2>3. yaml' = yaml /\ env' = env
    BY DEF StoreSdk, DeleteSdk
  <2>4. OfflineAsConfigured'
    BY <1>2, <2>3 DEF OfflineInv, OfflineAsConfigured
  <2> QED
    BY <1>1, <2>1, <2>2, <2>4 DEF OfflineInv
<1>3. CASE DeleteSdk(id)
  BY <1>2, <1>3 DEF DeleteSdk
<1>4. CASE StoreSdk(id)
  <2>1. PICK start \in Starts : yaml = start[1] /\ env = start[2]
    BY DEF OfflineInv, StartInv
  <2>2. conf = Loaded(start[1], start[2]) /\ "ok" \in Validate(conf)
    BY <1>4, <2>1 DEF OfflineInv, LoadInv, ValidInv, StoreSdk, Refreshing
  <2>3. PICK global : global = GlobalOffline(start[1], start[2])
    OBVIOUS
  <2>4. /\ WellFormed(conf) /\ Options.offline.enabled = global
        /\ \A other \in DOMAIN conf.sdks : conf.sdks[other].offline = (global \/ OwnOffline(other, start[1], start[2]))
        /\ \A other : OwnOffline(other, start[1], start[2]) => other \in DOMAIN conf.sdks
    BY <2>2, <2>3, LoadedAsMeant DEF Options
  <2>5. CacheIsSet(Options) => cache # "none"
    BY <1>4 DEF OfflineInv, CacheInv, UntilCache, StoreSdk, Refreshing
  <2>6. PICK built : built = buildSdkConfig(id)
    OBVIOUS
  <2>7. /\ built.offline = (Options.offline.enabled \/ (id \in DOMAIN conf.sdks /\ conf.sdks[id].offline))
        /\ built.offline => Storage(built) \in {"file", "notifying cache"}
    BY <2>2, <2>4, <2>5, <2>6, BuiltSdk
  <2>8. built.offline = (GlobalOffline(yaml, env) \/ OwnOffline(id, yaml, env))
    BY <2>1, <2>3, <2>4, <2>7
  <2>9. /\ DOMAIN clients' = DOMAIN clients \cup {id}
        /\ \A other \in DOMAIN clients \ {id} : clients'[other] = clients[other]
        /\ clients'[id] = NewClient(built)
    BY <1>4, <2>6 DEF StoreSdk
  <2>10. /\ {"offline", "storage", "open"} \subseteq DOMAIN NewClient(built)
         /\ NewClient(built).offline = built.offline /\ NewClient(built).storage = Storage(built)
    BY DEF NewClient
  <2> QED
    BY <1>2, <2>7, <2>8, <2>9, <2>10
<1> QED
  BY <1>3, <1>4

LEMMA OfflineStep == OfflineInv /\ [Next]_vars => OfflineInv'
<1> SUFFICES ASSUME OfflineInv, [Next]_vars PROVE OfflineInv'
  OBVIOUS
<1>1. CASE Load
  <2>1. StartInv' /\ LoadInv' /\ ValidInv' /\ CacheInv'
    BY <1>1 DEF Load, Exit, OfflineInv, StartInv, LoadInv, ValidInv, CacheInv, UntilCache
  <2>2. OfflineClientsHaveASource' /\ ClientsInv'
    BY <1>1 DEF Load, OfflineInv, OfflineClientsHaveASource, ClientsInv
  <2>3. OfflineAsConfigured'
    BY <1>1 DEF Load, OfflineInv, OfflineAsConfigured
  <2> QED
    BY <2>1, <2>2, <2>3 DEF OfflineInv
<1>2. CASE ValidateConfig
  BY <1>2, OfflineKept DEF ValidateConfig, Exit, UntilCache
<1>3. CASE StartDiag
  BY <1>3, OfflineKept DEF StartDiag, UntilCache
<1>4. CASE SetupExternalCache
  <2>1. StartInv' /\ LoadInv' /\ ValidInv'
    BY <1>4 DEF SetupExternalCache, Exit, OfflineInv, StartInv, LoadInv, ValidInv
  <2>2. CacheInv'
    BY <1>4 DEF SetupExternalCache, Exit, CacheInv, UntilCache, Options
  <2>3. OfflineClientsHaveASource' /\ ClientsInv'
    BY <1>4 DEF SetupExternalCache, OfflineInv, OfflineClientsHaveASource, ClientsInv
  <2>4. OfflineAsConfigured'
    BY <1>4 DEF SetupExternalCache, OfflineInv, OfflineAsConfigured
  <2> QED
    BY <2>1, <2>2, <2>3, <2>4 DEF OfflineInv
<1>5. CASE NewRegistrar
  BY <1>5, RegistrarStep
<1>6. CASE StartServer("http", "grpc") \/ StartServer("grpc", "select")
  BY <1>6, OfflineKept DEF StartServer, Exit, UntilCache
<1>7. CASE CloseRegistrar
  <2>1. StartInv' /\ LoadInv' /\ ValidInv' /\ CacheInv'
    BY <1>7 DEF CloseRegistrar, OfflineInv, StartInv, LoadInv, ValidInv, CacheInv, UntilCache, Options
  <2>2. /\ DOMAIN clients' = DOMAIN clients
        /\ \A id \in DOMAIN clients : clients'[id] = [clients[id] EXCEPT !.open = FALSE]
    BY <1>7 DEF CloseRegistrar
  <2>3. \A id \in DOMAIN clients : /\ clients'[id].offline = clients[id].offline
                                  /\ clients'[id].storage = clients[id].storage
    BY <2>2 DEF OfflineInv, ClientsInv
  <2>4. OfflineClientsHaveASource' /\ ClientsInv'
    BY <2>2, <2>3 DEF OfflineInv, OfflineClientsHaveASource, ClientsInv
  <2>5. OfflineAsConfigured'
    BY <1>7, <2>2, <2>3 DEF CloseRegistrar, OfflineInv, OfflineAsConfigured
  <2> QED
    BY <2>1, <2>4, <2>5 DEF OfflineInv
<1>8. CASE CloseRouter \/ AllShutDown \/ TakeSignal
  BY <1>8, OfflineKept DEF CloseRouter, AllShutDown, TakeSignal, Exit, UntilCache
<1>9. CASE ShutdownFunc
  BY <1>9, OfflineKept DEF ShutdownFunc, CloseCache, CloseFlagService, GracefulStop, ShutdownServer, UntilCache
<1>10. CASE Stream \/ StreamBegins \/ PeerLeaves \/ RunBlocks \/ RunReturns \/ SendSignal
  BY <1>10, OfflineKept DEF Stream, StreamConnects, StreamLeaves, StreamEnds, StreamBegins, PeerLeaves, RunBlocks,
                           RunReturns, SendSignal
<1>11. CASE ClosesTwice \/ CloseHangs
  BY <1>11, OfflineKept DEF ClosesTwice, CloseHangs, Refreshing, Exit, UntilCache
<1>12. ASSUME NEW id, StoreSdk(id) \/ DeleteSdk(id) PROVE OfflineInv'
  BY <1>12, RefreshStep
<1>13. ASSUME NEW s \in Servers, Bind(s) \/ ListenFails(s) \/ TakeError(s) PROVE OfflineInv'
  BY <1>13, OfflineKept DEF Bind, ListenFails, TakeError, Exit, UntilCache
<1>14. CASE UNCHANGED vars
  BY <1>14, OfflineKept DEF vars
<1> QED
  BY <1>1, <1>2, <1>3, <1>4, <1>5, <1>6, <1>7, <1>8, <1>9, <1>10, <1>11, <1>12, <1>13, <1>14 DEF Next, Main

(* The inductive invariant of the way from the options to the clients. *)
THEOREM OfflineInvariant == Spec => []OfflineInv
<1> QED
  BY OfflineInit, OfflineStep, PTL DEF Spec

(* Whatever files, environments and profiles there are, and whatever mix   *)
(* of them got past Validate, an offline client reads a file or the cache  *)
(* (sdk.go NewClient; config.go, validation.go).                           *)
THEOREM OfflineSources == Spec => []OfflineClientsHaveASource
<1> QED
  BY OfflineInvariant, PTL DEF OfflineInv

(* A client is offline exactly if global offline mode is on or its own     *)
(* section, of the environment before the file, says so (env.go loadSdks,  *)
(* config.go fixupOffline, sdk_auto_registrar.go buildSdkConfig).          *)
THEOREM OfflineModes == Spec => []OfflineAsConfigured
<1> QED
  BY OfflineInvariant, PTL DEF OfflineInv

-----------------------------------------------------------------------------
(* Origins *)

LEMMA OriginChecked ==
  ASSUME NEW options, NEW e \in Endpoints, NEW o, options[e].origins \in Seq(STRING),
         options[e].cors, options[e].origins # <<>> \/ options[e].patterns # {},
         determineOrigin(o, e, options) = o
  PROVE  \/ o \in options[e].patterns \cup {options[e].ifNoMatch}
         \/ \E i \in DOMAIN options[e].origins : options[e].origins[i] = o
         \/ e = "ofrep" /\ options[e].origins = <<>>
<1>1. options[e].origins # <<>> => 1 \in DOMAIN options[e].origins
  OBVIOUS
<1> QED
  BY <1>1 DEF determineOrigin, Regexes

(* The Access-Control-Allow-Origin of an endpoint with lists or patterns   *)
(* of origins names one of them (cors.go determineOrigin), for every list  *)
(* and every set of patterns.                                              *)
THEOREM CheckedOrigins == Spec => []OriginsAreChecked
<1>1. OfflineInv => OriginsAreChecked
  <2> SUFFICES ASSUME OfflineInv, main = "select", NEW e \in Endpoints, NEW o \in {"x", "y"},
                      Options[e].cors, Options[e].origins # <<>> \/ Options[e].patterns # {},
                      determineOrigin(o, e, Options) = o
               PROVE  \/ o \in Options[e].patterns \cup {Options[e].ifNoMatch}
                      \/ \E i \in DOMAIN Options[e].origins : Options[e].origins[i] = o
                      \/ e = "ofrep" /\ Options[e].origins = <<>>
    BY DEF OriginsAreChecked
  <2>1. PICK start \in Starts : yaml = start[1] /\ env = start[2]
    BY DEF OfflineInv, StartInv
  <2>2. conf = Loaded(start[1], start[2])
    BY <2>1 DEF OfflineInv, LoadInv
  <2>3. WellFormed(conf)
    BY <2>2, LoadedAsMeant
  <2>4. Options[e].origins \in Seq(STRING)
    BY <2>3 DEF WellFormed, Options
  <2> QED
    BY <2>4, OriginChecked
<1> QED
  BY <1>1, OfflineInvariant, PTL

-----------------------------------------------------------------------------
(* Ending *)

LEMMA ExitInit == Init => OpenInv /\ ExitInv
BY DEF Init, OpenInv, ExitInv

LEMMA OpenStep == OpenInv /\ [Next]_vars => OpenInv'
<1> SUFFICES ASSUME OpenInv, [Next]_vars PROVE OpenInv'
  OBVIOUS
<1> USE DEF OpenInv, UntilDiag, Servers
<1>1. CASE Load
  BY <1>1 DEF Load, Exit
<1>2. CASE ValidateConfig
  BY <1>2 DEF ValidateConfig, Exit
<1>3. CASE StartDiag
  BY <1>3 DEF StartDiag
<1>4. CASE SetupExternalCache
  BY <1>4 DEF SetupExternalCache, Exit
<1>5. CASE NewRegistrar
  BY <1>5 DEF NewRegistrar, Exit
<1>6. CASE StartServer("http", "grpc")
  BY <1>6 DEF StartServer, Exit
<1>7. CASE StartServer("grpc", "select")
  BY <1>7 DEF StartServer, Exit
<1>8. CASE CloseRegistrar \/ CloseRouter \/ AllShutDown \/ TakeSignal
  BY <1>8 DEF CloseRegistrar, CloseRouter, AllShutDown, TakeSignal, Exit
<1>9. CASE CloseCache \/ CloseFlagService
  BY <1>9 DEF CloseCache, CloseFlagService
<1>10. CASE GracefulStop
  BY <1>10 DEF GracefulStop, ShutdownServer
<1>11. ASSUME NEW s \in {"telemetry", "diag", "http"}, ShutdownServer(s) PROVE OpenInv'
  BY <1>11 DEF ShutdownServer
<1>12. CASE Stream \/ StreamBegins \/ PeerLeaves \/ RunBlocks \/ RunReturns \/ SendSignal
  BY <1>12 DEF Stream, StreamConnects, StreamLeaves, StreamEnds, StreamBegins, PeerLeaves, RunBlocks, RunReturns,
               SendSignal
<1>13. ASSUME NEW s \in Servers, Bind(s) \/ ListenFails(s) PROVE OpenInv'
  BY <1>13 DEF Bind, ListenFails
<1>14. ASSUME NEW s \in Servers, TakeError(s) PROVE OpenInv'
  BY <1>14 DEF TakeError, Exit
<1>15. ASSUME NEW id, StoreSdk(id) \/ DeleteSdk(id) PROVE OpenInv'
  BY <1>15 DEF StoreSdk, DeleteSdk
<1>16. CASE ClosesTwice \/ CloseHangs
  BY <1>16 DEF ClosesTwice, CloseHangs, Exit
<1>17. CASE UNCHANGED vars
  BY <1>17 DEF vars
<1> HIDE DEF OpenInv, UntilDiag, Servers
<1> QED
  BY <1>1, <1>2, <1>3, <1>4, <1>5, <1>6, <1>7, <1>8, <1>9, <1>10, <1>11, <1>12, <1>13, <1>14, <1>15, <1>16, <1>17
     DEF Next, Main, ShutdownFunc

LEMMA ExitStep == ClientsInv /\ ExitInv /\ [Next]_vars => ExitInv'
<1> SUFFICES ASSUME ClientsInv, ExitInv, [Next]_vars PROVE ExitInv'
  OBVIOUS
<1> USE DEF ExitInv, Options
<1>1. CASE Load \/ ValidateConfig
  BY <1>1 DEF Load, ValidateConfig, Exit
<1>2. CASE StartDiag \/ SetupExternalCache
  BY <1>2 DEF StartDiag, SetupExternalCache, Exit
<1>3. CASE NewRegistrar
  BY <1>3 DEF NewRegistrar, Exit
<1>4. CASE StartServer("http", "grpc") \/ StartServer("grpc", "select")
  BY <1>4 DEF StartServer, Exit
<1>5. CASE CloseRegistrar
  <2>1. \A id \in DOMAIN clients' : clients'[id].open = FALSE
    BY <1>5 DEF CloseRegistrar, ClientsInv
  <2> QED
    BY <1>5, <2>1 DEF CloseRegistrar
<1>6. CASE CloseRouter \/ AllShutDown \/ TakeSignal
  BY <1>6 DEF CloseRouter, AllShutDown, TakeSignal, Exit
<1>7. CASE ShutdownFunc
  BY <1>7 DEF ShutdownFunc, CloseCache, CloseFlagService, GracefulStop, ShutdownServer
<1>8. CASE Stream \/ StreamBegins \/ PeerLeaves \/ RunBlocks \/ RunReturns \/ SendSignal
  BY <1>8 DEF Stream, StreamConnects, StreamLeaves, StreamEnds, StreamBegins, PeerLeaves, RunBlocks, RunReturns,
              SendSignal
<1>9. ASSUME NEW s \in Servers, Bind(s) \/ ListenFails(s) \/ TakeError(s) PROVE ExitInv'
  BY <1>9 DEF Bind, ListenFails, TakeError, Exit
<1>10. ASSUME NEW id, StoreSdk(id) \/ DeleteSdk(id) PROVE ExitInv'
  BY <1>10 DEF StoreSdk, DeleteSdk, Refreshing
<1>11. CASE ClosesTwice \/ CloseHangs
  BY <1>11 DEF ClosesTwice, CloseHangs, Refreshing, Exit
<1>12. CASE UNCHANGED vars
  BY <1>12 DEF vars
<1> HIDE DEF ExitInv, Options
<1> QED
  BY <1>1, <1>2, <1>3, <1>4, <1>5, <1>6, <1>7, <1>8, <1>9, <1>10, <1>11, <1>12 DEF Next, Main

(* The process ends with 0 only when nothing is left open: every shutdown  *)
(* function that main.go appended has returned, and there is one for the   *)
(* cache and for every listener that was started; the handlers of the gRPC *)
(* streams have ended, by the close, by the removal of their SDK or because*)
(* their peer left; and the clients are closed, in profile mode up to those*)
(* a refresh stores behind Close (main.go:107-124, grpc/server.go:138,     *)
(* sdk_auto_registrar.go:142-152).                                         *)
THEOREM CleanExits == Spec => []CleanExit
<1>1. OfflineInv => ClientsInv
  BY DEF OfflineInv
<1>2. OpenInv /\ ExitInv => CleanExit
  BY DEF OpenInv, ExitInv, CleanExit
<1> QED
  BY <1>1, <1>2, ExitInit, OpenStep, ExitStep, OfflineInvariant, PTL DEF Spec
=============================================================================
