----------------------------- MODULE MCStartup -----------------------------
EXTENDS Startup, TLC

Nothing == [s \in {} |-> ""]
Sdk == [key |-> "k"]

(* SDK sections, for one SDK: the sources of an offline client, present,   *)
(* absent and doubled, and the boundaries of the intervals.                *)
Sections ==
  {[key |-> ""], Sdk, Sdk @@ [dataGovernance |-> "us"]} \cup
  {Sdk @@ [signingKey |-> "s", validFor |-> n] : n \in {0, 4, 5}} \cup
  {Sdk @@ [offline |-> o, useCache |-> u, file |-> f] : o, u \in BOOLEAN, f \in {"", "there"}} \cup
  {Sdk @@ [offline |-> TRUE, useCache |-> TRUE, cachePollInterval |-> n] : n \in {-1, 1}} \cup
  {Sdk @@ [offline |-> TRUE, file |-> "there", polling |-> TRUE, filePollInterval |-> n] : n \in {-1, 1}} \cup
  {Sdk @@ [offline |-> TRUE, file |-> "missing"]}

(* Options that decide about caches, profile and global offline mode *)
Caches ==
  {Nothing, [redis |-> [enabled |-> TRUE]], [mongodb |-> [enabled |-> TRUE, url |-> "u"]]}

Modes ==
  {Nothing, [offline |-> [enabled |-> TRUE]], [offline |-> [enabled |-> TRUE, cachePollInterval |-> -1]],
   [profile |-> [key |-> "p", secret |-> "s"]],
   [profile |-> [key |-> "p"], offline |-> [enabled |-> TRUE]]}

(* One option off its default that is about the listeners, or how they end *)
Listeners ==
  {Nothing, [http |-> [port |-> 8051]], [grpc |-> [port |-> 8050]], [grpc |-> [enabled |-> FALSE]],
   [http |-> [enabled |-> FALSE]], [diag |-> [enabled |-> FALSE]],
   [redis |-> [enabled |-> TRUE], diag |-> [enabled |-> FALSE]],
   [profile |-> [key |-> "p", secret |-> "s"], diag |-> [enabled |-> FALSE]]} \cup
  {[tls |-> [enabled |-> TRUE, certs |-> c]] : c \in {"none", "good", "half", "unreadable"}}

(* One option off its default about which only Validate has to say *)
Single ==
  {[http |-> [port |-> n]] : n \in {0, 1, 65535, 65536}} \cup
  {[grpc |-> [port |-> 0]], [diag |-> [port |-> 0]],
   [metrics |-> [enabled |-> FALSE], diag |-> [status |-> FALSE]],
   [metrics |-> [otlp |-> TRUE, protocol |-> "ftp"]],
   [traces |-> [enabled |-> TRUE, otlp |-> TRUE]],
   [webhook |-> [user |-> "u"]], [webhook |-> [user |-> "u", password |-> "p"]],
   [redis |-> [enabled |-> TRUE, addresses |-> 0]], [mongodb |-> [enabled |-> TRUE]],
   [dynamodb |-> [enabled |-> TRUE]], [log |-> [log |-> "debug"], http |-> [log |-> "loud"]],
   [redis |-> [enabled |-> TRUE], redisTls |-> [enabled |-> TRUE, certs |-> "unreadable"]],
   [mongodb |-> [enabled |-> TRUE, url |-> "u"], mongodbTls |-> [enabled |-> TRUE, certs |-> "unreadable"]]} \cup
  {[profile |-> [key |-> "p", secret |-> "s", pollInterval |-> n]] : n \in {59, 60}} \cup
  {[profile |-> [key |-> "p", secret |-> "s", signingKey |-> "s", validFor |-> n]] : n \in {4, 5}} \cup
  {[profile |-> [key |-> "p"]]}

Cors ==
  {[s \in {e} |-> [origins |-> os, patterns |-> ps, ifNoMatch |-> n]] :
     e \in Endpoints, os \in {<<>>, <<"z">>}, ps \in {{}, {"x"}, {"bad"}}, n \in {"", "z"}}

(* Without the servers, where the question is not about them *)
HttpOnly == [diag |-> [enabled |-> FALSE], grpc |-> [enabled |-> FALSE]]
NoServers == HttpOnly @@ [http |-> [enabled |-> FALSE]]

Yaml(options, sdks, nil) == [readable |-> TRUE, options |-> options, sdks |-> sdks, nil |-> nil]

Env(options, sdks) == [readable |-> TRUE, options |-> options, sdks |-> sdks]
NoEnv == Env(Nothing, Nothing)
Named(section) == [id \in {"s1"} |-> section]

(* The environment may name the SDK of the file and turn global offline    *)
(* mode off.                                                               *)
MCEnvs ==
  {Env(o, s) : o \in {Nothing, [offline |-> [enabled |-> FALSE]]},
               s \in {Nothing, Named(Sdk), Named(Sdk @@ [offline |-> TRUE, useCache |-> TRUE])}}

MCStarts ==
  {<<[Yaml(Nothing, Named(Sdk), {}) EXCEPT !.readable = FALSE], NoEnv>>,
   <<Yaml(Nothing, Named(Sdk), {}), [NoEnv EXCEPT !.readable = FALSE]>>,
   <<Yaml(Nothing, Nothing, {}), NoEnv>>, <<Yaml(Nothing, Nothing, {}), Env(Nothing, Named(Sdk))>>,
   <<Yaml(Nothing, Nothing, {"s1"}), NoEnv>>, <<Yaml(Nothing, Named([key |-> ""]), {"s2"}), NoEnv>>} \cup
  {<<Yaml(o, Named(Sdk), {}), NoEnv>> : o \in Listeners} \cup
  {<<Yaml(o @@ HttpOnly, Named(Sdk), {}), NoEnv>> : o \in Single} \cup
  {<<Yaml(o @@ HttpOnly, Named(Sdk), {}), NoEnv>> : o \in Cors} \cup
  {<<Yaml(c @@ m @@ NoServers, Named(s), {}), e>> : c \in Caches, m \in Modes, s \in Sections, e \in MCEnvs}
=============================================================================
