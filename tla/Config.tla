------------------------------- MODULE Config -------------------------------
(***************************************************************************)
(* The config package: how the options of the proxy come from defaults, a  *)
(* YAML file and the environment, what is filled in, and what Validate     *)
(* accepts.  Pure operators; module Startup runs them.                     *)
(*                                                                         *)
(* An option is conf.<section>.<name>.  A layer is a record of partial     *)
(* sections: the keys of a YAML file, the environment variables that are   *)
(* set and not empty.  Options that only name a URL, a user, a header or a *)
(* table are left out, and so is the wording of errors.                    *)
(***************************************************************************)
EXTENDS Integers, Sequences

Endpoints == {"sse", "cdn", "api", "ofrep"}
Levels == {"debug", "info", "warn", "error"}
TlsVersions == {10, 11, 12, 13}

-----------------------------------------------------------------------------
(* Defaults *)

ZeroTls == [enabled |-> FALSE, version |-> 0, certs |-> "none"]
Endpoint == [enabled |-> TRUE, cors |-> TRUE, origins |-> <<>>, patterns |-> {}, ifNoMatch |-> ""]

setDefaults ==
  [http |-> [enabled |-> TRUE, port |-> 8050, log |-> ""],
   grpc |-> [enabled |-> TRUE, port |-> 50051, health |-> TRUE, log |-> ""],
   diag |-> [enabled |-> TRUE, port |-> 8051, status |-> TRUE],
   metrics |-> [enabled |-> TRUE, prometheus |-> TRUE, otlp |-> FALSE, protocol |-> "http"],
   traces |-> [enabled |-> FALSE, otlp |-> FALSE, protocol |-> "http"],
   sse |-> Endpoint, cdn |-> Endpoint, api |-> Endpoint, ofrep |-> Endpoint,
   webhook |-> [enabled |-> TRUE, user |-> "", password |-> ""],
   redis |-> [enabled |-> FALSE, addresses |-> 1], redisTls |-> ZeroTls,
   mongodb |-> [enabled |-> FALSE, url |-> ""], mongodbTls |-> ZeroTls,
   dynamodb |-> [enabled |-> FALSE],
   profile |-> [key |-> "", secret |-> "", pollInterval |-> 0, signingKey |-> "", validFor |-> 0, log |-> ""],
   offline |-> [enabled |-> FALSE, cachePollInterval |-> 0, log |-> ""],
   tls |-> ZeroTls,
   log |-> [log |-> ""]]

ZeroSdk ==
  [key |-> "", pollInterval |-> 0, dataGovernance |-> "", signingKey |-> "", validFor |-> 0, log |-> "",
   offline |-> FALSE, useCache |-> FALSE, cachePollInterval |-> 0, offlineLog |-> "",
   file |-> "", polling |-> FALSE, filePollInterval |-> 0]

(* Decoding some keys into a struct leaves its other fields as they are. *)
Into(keys, struct) ==
  [k \in DOMAIN keys \cup DOMAIN struct |-> IF k \in DOMAIN keys THEN keys[k] ELSE struct[k]]

-----------------------------------------------------------------------------
(* Plausible bugs *)

\* the file wins over the environment
MutloadSdks(conf, env) ==
  [id \in DOMAIN conf.sdks \cup DOMAIN env.sdks |->
     IF id \in DOMAIN conf.sdks THEN conf.sdks[id] ELSE Into(env.sdks[id], ZeroSdk)]

\* the patterns of another endpoint are not compiled either
MutRegexes(e, options) == IF e \in {"api", "cdn"} /\ options[e].cors THEN options[e].patterns ELSE {}

\* use_cache is taken at its word
MutvalidOffline(sdk, options) ==
  sdk.offline => (sdk.file # "") # sdk.useCache /\ (sdk.useCache => sdk.cachePollInterval >= 1)

-----------------------------------------------------------------------------
(* Layers *)

Over(layer, options) ==
  [s \in DOMAIN options |-> IF s \in DOMAIN layer THEN Into(layer[s], options[s]) ELSE options[s]]

(* yaml.Unmarshal into the defaults.  A section of an SDK may be empty:    *)
(* its pointer is nil.                                                     *)
Unmarshal(yaml) ==
  [options |-> Over(yaml.options, setDefaults),
   sdks |-> [id \in DOMAIN yaml.sdks |-> Into(yaml.sdks[id], ZeroSdk)],
   nil |-> yaml.nil]

(* loadEnv: an SDK named by CONFIGCAT_SDKS takes nothing from the file. *)
loadSdks(conf, env) ==
  [id \in DOMAIN conf.sdks \cup DOMAIN env.sdks |->
     IF id \in DOMAIN env.sdks THEN Into(env.sdks[id], ZeroSdk) ELSE conf.sdks[id]]

loadEnv(conf, env) ==
  [options |-> Over(env.options, conf.options),
   sdks |-> loadSdks(conf, env),
   nil |-> conf.nil \ DOMAIN env.sdks]

-----------------------------------------------------------------------------
(* Fixups, in the order of LoadConfigFromFileAndEnvironment *)

Or(value, default) == IF value = 0 THEN default ELSE value

fixupLogLevels(conf) ==
  LET Or_(level, default) == IF level \in Levels THEN level ELSE default
      default == Or_(conf.options.log.log, "warn")
  IN  [conf EXCEPT
        !.options = [s \in DOMAIN @ |-> IF "log" \in DOMAIN @[s]
                                        THEN [@[s] EXCEPT !.log = Or_(@, default)] ELSE @[s]],
        !.sdks = [id \in DOMAIN @ |-> [@[id] EXCEPT !.log = Or_(@, default), !.offlineLog = Or_(@, default)]]]

SdkDefaults(sdk) ==
  [sdk EXCEPT !.validFor = Or(@, 300), !.pollInterval = Or(@, 60),
              !.filePollInterval = Or(@, 5), !.cachePollInterval = Or(@, 5)]

ProfileDefaults(profile) == [profile EXCEPT !.pollInterval = Or(@, 300), !.validFor = Or(@, 300)]

fixupDefaults(conf) ==
  [conf EXCEPT !.sdks = [id \in DOMAIN @ |-> SdkDefaults(@[id])],
               !.options.offline.cachePollInterval = Or(@, 5),
               !.options.profile = ProfileDefaults(@)]

fixupTlsMinVersions(conf) ==
  LET Or_(version) == IF version \in TlsVersions THEN version ELSE 12
  IN  [conf EXCEPT !.options.tls.version = Or_(@), !.options.redisTls.version = Or_(@),
                   !.options.mongodbTls.version = Or_(@)]

(* What global offline mode makes of an SDK that is not offline itself,    *)
(* here and in buildSdkConfig.                                             *)
TakenOffline(sdk, options) ==
  IF ~options.offline.enabled \/ sdk.offline THEN sdk
  ELSE [sdk EXCEPT !.offline = TRUE, !.useCache = TRUE,
                   !.cachePollInterval = options.offline.cachePollInterval, !.offlineLog = options.offline.log]

fixupOffline(conf) ==
  [conf EXCEPT !.sdks = [id \in DOMAIN @ |-> TakenOffline(@[id], conf.options)]]

(* compileOriginRegexes does not look at the patterns of OFREP. *)
Compiles(options) ==
  \A e \in {"api", "cdn", "sse"} : options[e].cors => "bad" \notin options[e].patterns

Regexes(e, options) == IF e # "ofrep" /\ options[e].cors THEN options[e].patterns ELSE {}

Loaded(yaml, env) ==
  fixupOffline(fixupTlsMinVersions(fixupDefaults(fixupLogLevels(loadEnv(Unmarshal(yaml), env)))))

(* The file or a variable that cannot be read or converted ends the load. *)
Loads(yaml, env) == yaml.readable /\ env.readable /\ Compiles(Loaded(yaml, env).options)

-----------------------------------------------------------------------------
(* Validate *)

CacheIsSet(options) == options.redis.enabled \/ options.mongodb.enabled \/ options.dynamodb.enabled
ProfileIsSet(options) == options.profile.key # ""

validPort(port) == port \in 1 .. 65535
validTls(tls) == tls.enabled => tls.certs # "half"

validProfile(options) ==
  /\ options.profile.secret # "" \/ options.offline.enabled
  /\ options.profile.pollInterval >= 60
  /\ options.profile.signingKey # "" => options.profile.validFor >= 5

validLocal(sdk) == sdk.file # "missing" /\ (sdk.polling => sdk.filePollInterval >= 1)

validOffline(sdk, options) ==
  sdk.offline =>
    /\ (sdk.file # "") # sdk.useCache
    /\ sdk.file # "" => validLocal(sdk)
    /\ sdk.useCache => CacheIsSet(options) /\ sdk.cachePollInterval >= 1

validSdk(sdk, options) ==
  /\ ProfileIsSet(options) \/ sdk.key # ""
  /\ sdk.dataGovernance \in {"", "global", "eu"}
  /\ sdk.signingKey # "" => sdk.validFor >= 5
  /\ validOffline(sdk, options)

validHttp(options) ==
  /\ validPort(options.http.port)
  /\ options.webhook.enabled => (options.webhook.user = "") = (options.webhook.password = "")
  /\ \A e \in Endpoints : options[e].cors /\ options[e].patterns # {} => options[e].ifNoMatch # ""

validDiag(options) ==
  /\ validPort(options.diag.port)
  /\ \A o \in {options.metrics, options.traces} :
       options.diag.enabled /\ o.enabled /\ o.otlp => o.protocol \in {"http", "https", "grpc"}

validCaches(options) ==
  /\ options.redis.enabled => options.redis.addresses > 0 /\ validTls(options.redisTls)
  /\ options.mongodb.enabled => options.mongodb.url # "" /\ validTls(options.mongodbTls)

(* Redis only: another cache does not do for global offline mode. *)
validGlobalOffline(options) ==
  options.offline.enabled => options.redis.enabled /\ options.offline.cachePollInterval >= 1

(* The outcomes of Validate.  It visits the SDKs in the order of a map and *)
(* dereferences each pointer, a nil one too.                               *)
Validate(conf) ==
  LET options == conf.options
      invalid == {id \in DOMAIN conf.sdks : ~validSdk(conf.sdks[id], options)}
  IN  IF \/ DOMAIN conf.sdks \cup conf.nil = {} /\ ~ProfileIsSet(options)
         \/ ProfileIsSet(options) /\ ~validProfile(options)
      THEN {"error"}
      ELSE IF conf.nil # {}
      THEN {"panic"} \cup (IF invalid = {} THEN {} ELSE {"error"})
      ELSE IF /\ invalid = {}
              /\ validTls(options.tls) /\ validHttp(options) /\ validDiag(options)
              /\ validPort(options.grpc.port) /\ validCaches(options) /\ validGlobalOffline(options)
      THEN {"ok"} ELSE {"error"}

ShouldRunDiagServer(options) ==
  options.diag.enabled /\ (options.diag.status \/ (options.metrics.enabled /\ options.metrics.prometheus))

-----------------------------------------------------------------------------
(* web/mware/cors.go: the Access-Control-Allow-Origin of an answer.  A     *)
(* pattern is named by the origin it matches.                              *)
determineOrigin(origin, e, options) ==
  LET origins == options[e].origins
      regexes == Regexes(e, options)
  IN  IF (\E i \in DOMAIN origins : origins[i] = origin) \/ origin \in regexes THEN origin
      ELSE IF regexes # {} THEN options[e].ifNoMatch
      ELSE IF origins # <<>> THEN origins[1]
      ELSE IF origin # "" THEN origin ELSE "*"
=============================================================================
