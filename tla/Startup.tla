------------------------------- MODULE Startup -------------------------------
(***************************************************************************)
(* main.go: from the options to the running servers, and from the signal   *)
(* or the first error to the end of the process.  The external cache, the  *)
(* registrars' choice of a storage for each client, the three listeners    *)
(* and their shutdown are here; what a client and a stream do meanwhile is *)
(* in modules Client and Stream.  In profile mode the auto registrar goes  *)
(* on refreshing while main starts the servers and ends.                   *)
(***************************************************************************)
EXTENDS Config

CONSTANTS
  Starts,      \* files [readable, options, sdks, nil] and environments
               \* [readable, options, sdks] to start with: a set of pairs
  ProfileSdks  \* the ids a proxy profile may name

(* A switch that a layer sets is a bool, a list of origins a []string: a   *)
(* value that does not convert makes the layer unreadable.                 *)
ASSUME StartsAssumption ==
  \A start \in Starts : \A layer \in {start[1], start[2]} :
    /\ "offline" \in DOMAIN layer.options /\ "enabled" \in DOMAIN layer.options.offline
       => layer.options.offline.enabled \in BOOLEAN
    /\ \A e \in Endpoints \cap DOMAIN layer.options :
         "origins" \in DOMAIN layer.options[e] => layer.options[e].origins \in Seq(STRING)
    /\ \A id \in DOMAIN layer.sdks : \A switch \in {"offline", "useCache"} \cap DOMAIN layer.sdks[id] :
         layer.sdks[id][switch] \in BOOLEAN

Servers == {"diag", "http", "grpc"}

VARIABLES
  yaml, env,   \* what the process was started with
  conf,        \* the loaded options
  main,        \* where run (main.go) is
  cache,       \* externalCache: "none", "open", "closed"
  clients,     \* id -> [offline, storage, open], of the last client built for it
  server,      \* "off", "starting", "serving", "failed" (sends to errorChan), "stopped"
  signal,      \* closeSignal, a channel of capacity one
  call,        \* a gRPC stream: "none", "connecting" (past the poll of stop), "open",
               \* "leaving" (in CloseConnection, past the poll of stop), "ended"
  loop,        \* run of the call's stream: "select", "blocked" (in a send to a handler
               \* that is leaving), "returned"
  closed,      \* the gRPC server's flagService and its streams are closed
  shutdown,    \* the shutdown functions that have not returned
  exit         \* "none", "ok", "failure", "panic"

vars == <<yaml, env, conf, main, cache, clients, server, signal, call, loop, closed, shutdown, exit>>

Init ==
  /\ \E start \in Starts : yaml = start[1] /\ env = start[2]
  /\ conf = Unmarshal([options |-> [s \in {} |-> ""], sdks |-> [s \in {} |-> ""], nil |-> {}])
  /\ main = "load" /\ exit = "none"
  /\ cache = "none" /\ clients = [id \in {} |-> ""]
  /\ server = [s \in Servers |-> "off"]
  /\ signal = FALSE /\ call = "none" /\ loop = "select" /\ closed = FALSE /\ shutdown = {}

Options == conf.options

Exit(code) == main' = "exited" /\ exit' = code

-----------------------------------------------------------------------------
(* Plausible bugs *)

\* a failed listener ends the process only while no other one serves
MutTakeError(s) ==
  /\ main = "select" /\ server[s] = "failed" /\ \A t \in Servers : server[t] # "serving"
  /\ Exit("failure")
  /\ UNCHANGED <<yaml, env, conf, cache, clients, server, signal, call, loop, closed, shutdown>>

\* the streams stay open, so GracefulStop waits for their handlers
MutCloseFlagService ==
  /\ main = "shutdown" /\ "grpc" \in shutdown /\ ~closed
  /\ call = "none" /\ closed' = TRUE
  /\ UNCHANGED <<yaml, env, conf, main, cache, clients, server, signal, call, loop, shutdown, exit>>

\* the gRPC server stops without waiting for its handlers
MutGracefulStop ==
  /\ main = "shutdown" /\ "grpc" \in shutdown /\ closed
  /\ shutdown' = shutdown \ {"grpc"} /\ server' = [server EXCEPT !["grpc"] = "stopped"]
  /\ UNCHANGED <<yaml, env, conf, main, cache, clients, signal, call, loop, closed, exit>>

-----------------------------------------------------------------------------
(* Starting *)

Load ==
  /\ main = "load"
  /\ IF Loads(yaml, env)
     THEN conf' = Loaded(yaml, env) /\ main' = "validate" /\ UNCHANGED exit
     ELSE UNCHANGED conf /\ Exit("failure")
  /\ UNCHANGED <<yaml, env, cache, clients, server, signal, call, loop, closed, shutdown>>

ValidateConfig ==
  /\ main = "validate"
  /\ \/ "ok" \in Validate(conf) /\ main' = "diag" /\ UNCHANGED exit
     \/ "error" \in Validate(conf) /\ Exit("failure")
     \/ "panic" \in Validate(conf) /\ Exit("panic")
  /\ UNCHANGED <<yaml, env, conf, cache, clients, server, signal, call, loop, closed, shutdown>>

(* The reporters always have a Shutdown; the diagnostics server if it runs.*)
StartDiag ==
  /\ main = "diag" /\ main' = "cache"
  /\ LET runs == ShouldRunDiagServer(Options)
     IN  /\ server' = [server EXCEPT !["diag"] = IF runs THEN "starting" ELSE "off"]
         /\ shutdown' = {"telemetry"} \cup (IF runs THEN {"diag"} ELSE {})
  /\ UNCHANGED <<yaml, env, conf, cache, clients, signal, call, loop, closed, exit>>

(* Redis before MongoDB before DynamoDB.  Redis connects later: it fails   *)
(* here only over its certificates.                                        *)
Unreadable(tls) == tls.enabled /\ tls.certs = "unreadable"

SetupExternalCache ==
  /\ main = "cache"
  /\ LET fails == IF Options.redis.enabled THEN Unreadable(Options.redisTls)
                  ELSE Options.mongodb.enabled /\ Unreadable(Options.mongodbTls)
     IN  \/ ~CacheIsSet(Options) /\ main' = "registrar" /\ UNCHANGED <<cache, shutdown, exit>>
         \/ /\ CacheIsSet(Options) /\ ~fails
            /\ cache' = "open" /\ shutdown' = shutdown \cup {"cache"}
            /\ main' = "registrar" /\ UNCHANGED exit
         \/ /\ CacheIsSet(Options) /\ (fails \/ ~Options.redis.enabled)
            /\ Exit("failure") /\ UNCHANGED <<cache, shutdown>>
  /\ UNCHANGED <<yaml, env, conf, clients, server, signal, call, loop, closed>>

(* NewClient's choice of a storage; the cache is there, shut down or not. *)
Storage(sdk) ==
  IF sdk.offline /\ sdk.file # "" THEN "file"
  ELSE IF sdk.offline /\ sdk.useCache /\ cache # "none" THEN "notifying cache"
  ELSE IF ~sdk.offline /\ cache # "none" THEN "cache" ELSE "memory"

NewClient(sdk) == [offline |-> sdk.offline, storage |-> Storage(sdk), open |-> TRUE]

(* The auto registrar's options of an SDK: the local section's offline     *)
(* mode, then global offline mode.                                         *)
buildSdkConfig(id) ==
  LET sdk == IF id \notin DOMAIN conf.sdks THEN ZeroSdk
             ELSE LET local == conf.sdks[id]
                  IN  [ZeroSdk EXCEPT !.offline = local.offline, !.useCache = local.useCache,
                                      !.file = local.file, !.cachePollInterval = local.cachePollInterval]
  IN  TakenOffline(sdk, Options)

(* NewRegistrar: all SDKs of the options, or those the profile names; the  *)
(* auto registrar fails without a profile (module Profile).                *)
NewRegistrar ==
  /\ main = "registrar"
  /\ \/ /\ ~ProfileIsSet(Options)
        /\ clients' = [id \in DOMAIN conf.sdks |-> NewClient(conf.sdks[id])]
        /\ main' = "http" /\ UNCHANGED exit
     \/ /\ ProfileIsSet(Options)
        /\ \E ids \in SUBSET ProfileSdks : clients' = [id \in ids |-> NewClient(buildSdkConfig(id))]
        /\ main' = "http" /\ UNCHANGED exit
     \/ ProfileIsSet(Options) /\ Exit("failure") /\ UNCHANGED clients
  /\ UNCHANGED <<yaml, env, conf, cache, server, signal, call, loop, closed, shutdown>>

(* NewServer of web and grpc load the certificates; then Listen. *)
StartServer(s, next) ==
  /\ main = s
  /\ \/ ~Options[s].enabled /\ main' = next /\ UNCHANGED <<server, shutdown, exit>>
     \/ /\ Options[s].enabled /\ ~Unreadable(Options.tls)
        /\ server' = [server EXCEPT ![s] = "starting"]
        /\ shutdown' = shutdown \cup {s}
        /\ main' = next /\ UNCHANGED exit
     \/ /\ Options[s].enabled /\ Unreadable(Options.tls)
        /\ Exit("failure") /\ UNCHANGED <<server, shutdown>>
  /\ UNCHANGED <<yaml, env, conf, cache, clients, signal, call, loop, closed>>

-----------------------------------------------------------------------------
(* Running *)

Running == exit = "none"

(* The goroutine of Listen: the port is free or it is not, and HTTP over   *)
(* TLS needs a certificate; Serve may also fail later.                     *)
Bind(s) ==
  /\ Running /\ server[s] = "starting"
  /\ \A t \in Servers : server[t] = "serving" => Options[t].port # Options[s].port
  /\ s = "http" /\ Options.tls.enabled => Options.tls.certs # "none"
  /\ server' = [server EXCEPT ![s] = "serving"]
  /\ UNCHANGED <<yaml, env, conf, main, cache, clients, signal, call, loop, closed, shutdown, exit>>

ListenFails(s) ==
  /\ Running /\ server[s] \in {"starting", "serving"}
  /\ server' = [server EXCEPT ![s] = "failed"]
  /\ UNCHANGED <<yaml, env, conf, main, cache, clients, signal, call, loop, closed, shutdown, exit>>

SendSignal ==
  /\ Running /\ ~signal
  /\ signal' = TRUE
  /\ UNCHANGED <<yaml, env, conf, main, cache, clients, server, call, loop, closed, shutdown, exit>>

(* run of the auto registrar applies one profile after another and builds, *)
(* replaces and deletes clients.  Close does not wait for it: the refresh  *)
(* it is in goes on and may store clients behind Close.                    *)
Refreshing ==
  ProfileIsSet(Options) /\ main \notin {"load", "validate", "diag", "cache", "registrar", "exited"}

StoreSdk(id) ==
  /\ Refreshing
  /\ clients' = [other \in DOMAIN clients \cup {id} |->
                   IF other = id THEN NewClient(buildSdkConfig(id)) ELSE clients[other]]
  /\ UNCHANGED <<yaml, env, conf, main, cache, server, signal, call, loop, closed, shutdown, exit>>

DeleteSdk(id) ==
  /\ Refreshing /\ main \in {"http", "grpc", "select", "closing"}
  /\ clients' = [other \in DOMAIN clients \ {id} |-> clients[other]]
  /\ UNCHANGED <<yaml, env, conf, main, cache, server, signal, call, loop, closed, shutdown, exit>>

(* A gRPC stream, whose peer reads what it is sent or leaves.              *)
(* CreateConnection and CloseConnection poll stop, then wait for run; the  *)
(* handler's loop ends when its stream or the service is closed.           *)
StreamBegins ==
  /\ Running /\ server["grpc"] = "serving" /\ call = "none" /\ ~closed
  /\ call' = "connecting"
  /\ UNCHANGED <<yaml, env, conf, main, cache, clients, server, signal, loop, closed, shutdown, exit>>

StreamConnects ==
  /\ Running /\ call = "connecting" /\ loop = "select"
  /\ call' = "open"
  /\ UNCHANGED <<yaml, env, conf, main, cache, clients, server, signal, loop, closed, shutdown, exit>>

PeerLeaves ==
  /\ Running /\ call = "open" /\ ~closed /\ loop # "returned"
  /\ call' = "leaving"
  /\ UNCHANGED <<yaml, env, conf, main, cache, clients, server, signal, loop, closed, shutdown, exit>>

StreamLeaves ==
  /\ Running /\ call = "leaving" /\ loop = "select"
  /\ call' = "ended"
  /\ UNCHANGED <<yaml, env, conf, main, cache, clients, server, signal, loop, closed, shutdown, exit>>

StreamEnds ==
  /\ Running /\ call = "open" /\ (closed \/ loop = "returned")
  /\ call' = "ended"
  /\ UNCHANGED <<yaml, env, conf, main, cache, clients, server, signal, loop, closed, shutdown, exit>>

(* run sends to the full queue of a connection whose handler is leaving,   *)
(* this one or another of the stream, and never comes back (finding        *)
(* stream_blocked).                                                        *)
RunBlocks ==
  /\ Running /\ call \in {"connecting", "leaving"} /\ loop = "select"
  /\ loop' = "blocked"
  /\ UNCHANGED <<yaml, env, conf, main, cache, clients, server, signal, call, closed, shutdown, exit>>

(* The stream is closed: with the service, or because its SDK was removed. *)
RunReturns ==
  /\ Running /\ call \notin {"none", "ended"} /\ loop = "select" /\ (closed \/ Refreshing)
  /\ loop' = "returned"
  /\ UNCHANGED <<yaml, env, conf, main, cache, clients, server, signal, call, closed, shutdown, exit>>

-----------------------------------------------------------------------------
(* Ending: the select of run *)

TakeError(s) ==
  /\ main = "select" /\ server[s] = "failed"
  /\ Exit("failure")
  /\ UNCHANGED <<yaml, env, conf, cache, clients, server, signal, call, loop, closed, shutdown>>

TakeSignal ==
  /\ main = "select" /\ signal /\ signal' = FALSE
  /\ main' = "closing"
  /\ UNCHANGED <<yaml, env, conf, cache, clients, server, call, loop, closed, shutdown, exit>>

(* sdkRegistrar.Close: Close of the auto registrar ranges over the clients *)
(* it finds, and StoreSdk may follow.                                      *)
CloseRegistrar ==
  /\ main = "closing" /\ main' = "router"
  /\ clients' = [id \in DOMAIN clients |-> [clients[id] EXCEPT !.open = FALSE]]
  /\ UNCHANGED <<yaml, env, conf, cache, server, signal, call, loop, closed, shutdown, exit>>

(* A refresh in progress and Close close the same client (finding          *)
(* registrar_panic), or the stream server and its Close the same stream.   *)
ClosesTwice ==
  /\ Refreshing /\ DOMAIN clients # {} /\ main \in {"closing", "router", "shutdown"}
  /\ Exit("panic")
  /\ UNCHANGED <<yaml, env, conf, cache, clients, server, signal, call, loop, closed, shutdown>>

(* router.Close closes the streams of SSE, then all shutdown functions are *)
(* started at once.                                                        *)
CloseRouter ==
  /\ main = "router" /\ main' = "shutdown"
  /\ UNCHANGED <<yaml, env, conf, cache, clients, server, signal, call, loop, closed, shutdown, exit>>

(* stream.Close waits in Unsubscribe for the worker of a client that the   *)
(* refresh in progress closes after the poll of its publisher: main waits  *)
(* in router.Close, or for the shutdown function of the gRPC server.       *)
CloseHangs ==
  /\ Refreshing /\ DOMAIN clients # {}
  /\ \/ main = "router" /\ Options.http.enabled /\ Options.sse.enabled
     \/ main = "shutdown" /\ "grpc" \in shutdown /\ ~closed
  /\ main' = "stuck"
  /\ UNCHANGED <<yaml, env, conf, cache, clients, server, signal, call, loop, closed, shutdown, exit>>

CloseCache ==
  /\ main = "shutdown" /\ "cache" \in shutdown
  /\ cache' = "closed" /\ shutdown' = shutdown \ {"cache"}
  /\ UNCHANGED <<yaml, env, conf, main, clients, server, signal, call, loop, closed, exit>>

(* The reporters and the HTTP servers give up after five seconds. *)
ShutdownServer(s) ==
  /\ main = "shutdown" /\ s \in shutdown
  /\ shutdown' = shutdown \ {s}
  /\ server' = IF s \in Servers /\ server[s] # "failed" THEN [server EXCEPT ![s] = "stopped"] ELSE server
  /\ UNCHANGED <<yaml, env, conf, main, cache, clients, signal, call, loop, closed, exit>>

(* grpc.Server.Shutdown: the health check, flagService.Close ... *)
CloseFlagService ==
  /\ main = "shutdown" /\ "grpc" \in shutdown /\ ~closed
  /\ closed' = TRUE
  /\ UNCHANGED <<yaml, env, conf, main, cache, clients, server, signal, call, loop, shutdown, exit>>

(* ... and GracefulStop, which waits for the handlers without a limit. *)
GracefulStop == closed /\ call \in {"none", "ended"} /\ ShutdownServer("grpc")

AllShutDown ==
  /\ main = "shutdown" /\ shutdown = {}
  /\ Exit("ok")
  /\ UNCHANGED <<yaml, env, conf, cache, clients, server, signal, call, loop, closed, shutdown>>

Main ==
  \/ Load \/ ValidateConfig \/ StartDiag \/ SetupExternalCache \/ NewRegistrar
  \/ StartServer("http", "grpc") \/ StartServer("grpc", "select")
  \/ CloseRegistrar \/ CloseRouter \/ AllShutDown

ShutdownFunc ==
  CloseCache \/ CloseFlagService \/ GracefulStop \/ \E s \in {"telemetry", "diag", "http"} : ShutdownServer(s)

Stream == StreamConnects \/ StreamLeaves \/ StreamEnds

Next ==
  \/ Main \/ ShutdownFunc \/ ClosesTwice \/ CloseHangs
  \/ StreamBegins \/ Stream \/ PeerLeaves \/ RunBlocks \/ RunReturns
  \/ \E id \in ProfileSdks : StoreSdk(id) \/ DeleteSdk(id)
  \/ SendSignal \/ TakeSignal
  \/ \E s \in Servers : Bind(s) \/ ListenFails(s) \/ TakeError(s)

(* main goes on, its calls being bounded by their contexts; its select     *)
(* picks one of the ready cases; a port that is taken makes Listen fail.   *)
Spec ==
  /\ Init /\ [][Next]_vars
  /\ WF_vars(Main) /\ WF_vars(ShutdownFunc) /\ WF_vars(Stream)
  /\ WF_vars(TakeSignal \/ \E s \in Servers : TakeError(s))
  /\ \A s \in Servers : WF_vars(server[s] = "starting" /\ (Bind(s) \/ ListenFails(s)))

-----------------------------------------------------------------------------
(* Properties *)

(* An offline client "uses the configured cache or a file as a source"     *)
(* (README.md:26): whatever mix of file, environment, profile and global   *)
(* offline mode got past Validate, none is left with a memory store that   *)
(* nobody fills (sdk.go:79-89).                                            *)
OfflineClientsHaveASource ==
  \A id \in DOMAIN clients : clients[id].offline => clients[id].storage \in {"file", "notifying cache"}

(* What the layers say: the environment where it sets the option, the file *)
(* otherwise, of an SDK the whole section.                                 *)
GlobalOffline(file, variables) ==
  LET Sets(layer) == "offline" \in DOMAIN layer.options /\ "enabled" \in DOMAIN layer.options.offline
  IN  IF Sets(variables) THEN variables.options.offline.enabled ELSE Sets(file) /\ file.options.offline.enabled

OwnOffline(id, file, variables) ==
  LET Says(layer) == id \in DOMAIN layer.sdks /\ "offline" \in DOMAIN layer.sdks[id] /\ layer.sdks[id].offline
  IN  IF id \in DOMAIN variables.sdks THEN Says(variables) ELSE Says(file)

(* A client is offline exactly if global offline mode is on or its own     *)
(* section says so: the environment's if CONFIGCAT_SDKS names the SDK      *)
(* (env.go:65-72), the file's otherwise, in profile mode too               *)
(* (sdk_auto_registrar.go:310-320).                                        *)
OfflineAsConfigured ==
  \A id \in DOMAIN clients :
    clients[id].offline = (GlobalOffline(yaml, env) \/ OwnOffline(id, yaml, env))

(* An endpoint with a list or with patterns of origins does not allow one  *)
(* that is in neither (cors.go:81), except OFREP, whose patterns are never *)
(* compiled (config.go:467-478) and which then allows every origin.        *)
OriginsAreChecked ==
  main = "select" =>
    \A e \in Endpoints, o \in {"x", "y"} :
      LET c == Options[e]
      IN  /\ c.enabled /\ c.cors /\ (c.origins # <<>> \/ c.patterns # {})
          /\ determineOrigin(o, e, Options) = o
          => \/ o \in c.patterns \cup {c.ifNoMatch} \/ \E i \in DOMAIN c.origins : c.origins[i] = o
             \/ e = "ofrep" /\ c.origins = <<>>

(* A listener that fails, at once or later, ends the process with a        *)
(* failure unless a shutdown has begun (main.go:125): errorChan has no     *)
(* buffer and a failure while main still sets up waits for its select.     *)
Closing == main \in {"closing", "router", "shutdown", "stuck"}
FailureEnds ==
  \A s \in Servers : server[s] = "failed" ~> exit = "failure" \/ Closing \/ main = "exited"

(* A signal, before the servers run too, ends the process (main.go:107-124,*)
(* grpc/server.go:138), with two exceptions.  GracefulStop waits forever   *)
(* for a gRPC handler in CreateConnection (stream.go:116) or in            *)
(* CloseConnection (stream.go:126) whose stream's run has returned or is   *)
(* blocked.  In profile mode a refresh in progress may leave main in the   *)
(* close of a stream (stream.go:143).                                      *)
SignalEnds ==
  signal ~> exit # "none" \/ main = "stuck" \/ (call \in {"connecting", "leaving"} /\ loop # "select")

(* The exit code 0 says that the shutdown functions, which all run at once *)
(* after the registrar's Close (main.go:113-124), have left nothing open:  *)
(* neither the cache nor a listener nor a handler of a gRPC stream, nor a  *)
(* client; in profile mode a refresh that Close has overtaken may have     *)
(* stored one behind it (sdk_auto_registrar.go:145-149, 373, 400).         *)
CleanExit ==
  exit = "ok" =>
    /\ cache # "open" /\ call \in {"none", "ended"}
    /\ \A s \in Servers : server[s] \notin {"starting", "serving"}
    /\ ~ProfileIsSet(Options) => \A id \in DOMAIN clients : ~clients[id].open
=============================================================================
