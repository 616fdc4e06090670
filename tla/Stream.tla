------------------------------- MODULE Stream -------------------------------
(***************************************************************************)
(* stream/stream.go with its channels and connections, the SDK clients it  *)
(* listens to (sdk/sdk.go) and the SSE and gRPC handlers that serve one    *)
(* connection each (web/sse/sse.go, grpc/flag_service.go).                 *)
(*                                                                         *)
(* A change of an SDK's config travels                                     *)
(*   go-sdk hook -> client.signal -> publisher of the client ->            *)
(*   sdkConfigChanged -> stream.run -> conn.receive -> handler -> peer     *)
(* and every arrow but the first is a channel of the code.  The publisher  *)
(* is module Publisher reduced to its one subscriber and to messages that  *)
(* carry nothing.  Clients are numbered in the order the registrar creates *)
(* them; it stores a newer one before it closes the one it replaces.       *)
(***************************************************************************)
EXTENDS Integers, Sequences, FiniteSets, SequencesExt

CONSTANTS
  Conns,        \* handler goroutines, one connection each
  Topics,       \* pairs of a flag key (or [ALL]) and a user: one channel each
  TopicOf,      \* the topic every handler asks for
  AllTopics,    \* the topics whose key is [ALL]
  Configs,      \* config JSONs
  NoConfig,     \* nothing was fetched yet (store.EntryWithEtag.Empty)
  EmptyConfigs, \* configs without any flag
  FlagOf,       \* the value of the single flag in a config ...
  Missing,      \* ... or Missing when Eval reports an error
  PubCap,       \* capacity of a client's publisher (64)
  RecvCap,      \* capacity of conn.receive (64)
  Quitters,     \* the handlers whose peer may go away
  Removable,    \* whether the SDK may be removed from the profile
  MaxClients,   \* bound: clients the registrar creates
  MaxChanges,   \* bound: config changes
  MaxResets     \* bound: calls of ResetSdk

ASSUME StreamAssumption ==
  /\ NoConfig \in EmptyConfigs /\ EmptyConfigs \subseteq Configs
  /\ TopicOf \in [Conns -> Topics] /\ AllTopics \subseteq Topics
  /\ DOMAIN FlagOf = Configs
  /\ \A c \in EmptyConfigs : FlagOf[c] = Missing
  /\ {PubCap, RecvCap, MaxClients} \subseteq Nat \ {0}
  /\ {MaxChanges, MaxResets} \subseteq Nat
  /\ Quitters \subseteq Conns /\ Removable \in BOOLEAN

Clients == 1 .. MaxClients

VARIABLES
  \* SDK clients
  phase,        \* "none", "starting", "live" (ready is closed), "closed"
  cfg,          \* the config a client evaluates
  signals,      \* calls of signal that wait to run
  initialized,  \* client.initialized
  pubq,         \* messages in the client's publisher
  worker,       \* the publisher's worker: "select", "deliver" (it is sending to
                \* sdkConfigChanged) or "exited"
  subs,         \* sdkConfigChanged is subscribed
  \* the stream
  sdkClient,    \* the client the stream evaluates with
  changed,      \* messages in sdkConfigChanged (capacity 1)
  stop,         \* stream.stop is closed
  running,      \* run has not returned
  channels,     \* per topic: its connections in order and its last payload
  todo,         \* channels that notifyConnections has yet to visit
  using,        \* the client notifyConnections loaded
  sending,      \* connections Notify has yet to send the payload to
  connCount,
  \* server.run inside ResetSdk
  reset,        \* its step and the clients it moves between
  \* handlers
  handler,      \* "idle", "creating", "streaming", "closing", "done"
  receive,      \* conn.receive
  gone,         \* the request's context is done
  \* history and bounds
  shown,        \* the last payload the handler took from conn.receive
  synced,       \* a message of the current client came through since ResetSdk
  changes,
  resets

clientVars == <<phase, cfg, signals, initialized, pubq, worker, subs>>
loopVars == <<todo, using, sending>>
handlerVars == <<handler, receive, gone, shown>>
bounds == <<changes, resets>>
vars == <<clientVars, sdkClient, changed, stop, running, channels, loopVars,
          connCount, reset, handlerVars, synced, bounds>>

-----------------------------------------------------------------------------
(* Evaluation *)

NoPayload == "nothing shown"

(* Eval and EvalAll with PayloadFromEvalData: the payload of a topic. *)
Payload(c, t) == IF t \in AllTopics THEN cfg[c] ELSE FlagOf[cfg[c]]

(* Notify sends unless the evaluation failed, the config has no flags, or  *)
(* (single flag only) the value is the one that was sent last.             *)
Notifies(c, t) ==
  IF t \in AllTopics THEN cfg[c] \notin EmptyConfigs
  ELSE Payload(c, t) # Missing /\ Payload(c, t) # channels[t].last

(* ensureReady: evaluation waits for the first fetch or for Close. *)
CanEvaluate(c) == phase[c] \in {"live", "closed"}

(* connectionHolder.RemoveConnection: the first occurrence goes. *)
RemoveConnection(conns, k) ==
  LET at == {i \in DOMAIN conns : conns[i] = k}
  IN  IF at = {} THEN conns
      ELSE RemoveAt(conns, CHOOSE i \in at : \A j \in at : i <= j)

Exists(t) == channels[t].conns # <<>>
NoChannel == [conns |-> <<>>, last |-> NoPayload]

(* run is at its select. *)
AtSelect == running /\ todo = {} /\ sending = <<>>

Init ==
  /\ phase = [c \in Clients |-> IF c = 1 THEN "starting" ELSE "none"]
  /\ cfg = [c \in Clients |-> NoConfig]
  /\ signals = [c \in Clients |-> 0]
  /\ initialized = [c \in Clients |-> FALSE]
  /\ pubq = [c \in Clients |-> 0]
  /\ worker = [c \in Clients |-> "select"]
  /\ subs = [c \in Clients |-> c = 1]
  /\ sdkClient = 1
  /\ changed = 0
  /\ stop = FALSE /\ running = TRUE
  /\ channels = [t \in Topics |-> NoChannel]
  /\ todo = {} /\ using = 1 /\ sending = <<>>
  /\ connCount = 0
  /\ reset = [step |-> "idle", old |-> 1, new |-> 1]
  /\ handler = [k \in Conns |-> "idle"]
  /\ receive = [k \in Conns |-> <<>>]
  /\ gone = [k \in Conns |-> FALSE]
  /\ shown = [k \in Conns |-> NoPayload]
  /\ synced = TRUE
  /\ changes = 0 /\ resets = 0

-----------------------------------------------------------------------------
(* Plausible bugs, one per property. *)

\* removeConnection leaves the connection in its channel
MutTakeClosed(k) ==
  /\ AtSelect /\ handler[k] = "closing"
  /\ handler' = [handler EXCEPT ![k] = "done"]
  /\ connCount' = connCount - 1
  /\ UNCHANGED <<clientVars, sdkClient, changed, stop, running, channels, loopVars,
                 reset, receive, gone, shown, synced, bounds>>

\* the last connection of a stream is never removed
MutTakeClosedLive(k) ==
  /\ AtSelect /\ handler[k] = "closing" /\ connCount > 1
  /\ handler' = [handler EXCEPT ![k] = "done"]
  /\ channels' = [channels EXCEPT ![TopicOf[k]].conns = RemoveConnection(@, k)]
  /\ connCount' = connCount - 1
  /\ UNCHANGED <<clientVars, sdkClient, changed, stop, running, loopVars,
                 reset, receive, gone, shown, synced, bounds>>

\* Notify forgets to remember the payload it sends
MutNotifyChannel(t) ==
  /\ sending = <<>> /\ t \in todo /\ CanEvaluate(using)
  /\ todo' = todo \ {t}
  /\ sending' = IF Notifies(using, t)
                  THEN [i \in DOMAIN channels[t].conns |->
                          [to |-> channels[t].conns[i], payload |-> Payload(using, t)]]
                  ELSE <<>>
  /\ UNCHANGED <<clientVars, sdkClient, changed, stop, running, using, channels,
                 connCount, reset, handlerVars, synced, bounds>>

\* signal swallows every change until a second caller arrives
MutSignal(c) ==
  /\ signals[c] > 0
  /\ phase[c] \in {"live", "starting"} => pubq[c] < PubCap
  /\ signals' = [signals EXCEPT ![c] = @ - 1]
  /\ initialized' = [initialized EXCEPT ![c] = ~@]
  /\ pubq' = IF initialized[c] /\ phase[c] # "closed" THEN [pubq EXCEPT ![c] = @ + 1] ELSE pubq
  /\ UNCHANGED <<phase, cfg, worker, subs, sdkClient, changed, stop, running, channels,
                 loopVars, connCount, reset, handlerVars, synced, bounds>>

\* notifyConnections skips the channels that connections share
MutTakeChanged ==
  /\ AtSelect /\ changed = 1
  /\ changed' = 0
  /\ todo' = {t \in Topics : Exists(t) /\ Len(channels[t].conns) = 1}
  /\ using' = sdkClient
  /\ UNCHANGED <<clientVars, sdkClient, stop, running, channels, sending, connCount, reset,
                 handlerVars, synced, bounds>>

\* run sends without waiting for room in conn.receive
MutSendPayload ==
  /\ running /\ sending # <<>>
  /\ receive' = [receive EXCEPT ![Head(sending).to] = Append(@, Head(sending).payload)]
  /\ sending' = Tail(sending)
  /\ UNCHANGED <<clientVars, sdkClient, changed, stop, running, channels, todo, using,
                 connCount, reset, handler, gone, shown, synced, bounds>>

-----------------------------------------------------------------------------
(* SDK clients: the go-sdk fetches and calls OnConfigChanged in a goroutine *)
(* of its own; the publisher's worker forwards to sdkConfigChanged.         *)

(* The registrar builds the next client of this SDK id. *)
NewClient(c) ==
  /\ phase[c] = "none" /\ c > 1 /\ phase[c - 1] # "none" /\ ~stop
  /\ phase' = [phase EXCEPT ![c] = "starting"]
  /\ UNCHANGED <<cfg, signals, initialized, pubq, worker, subs, sdkClient, changed, stop,
                 running, channels, loopVars, connCount, reset, handlerVars, synced, bounds>>

(* The first Refresh ends, with a config or with an error; ready is closed. *)
FirstFetch(c) ==
  /\ phase[c] = "starting"
  /\ phase' = [phase EXCEPT ![c] = "live"]
  /\ \E j \in Configs :
       /\ cfg' = [cfg EXCEPT ![c] = j]
       /\ signals' = [signals EXCEPT ![c] = IF j = NoConfig THEN 0 ELSE 1]
  /\ UNCHANGED <<initialized, pubq, worker, subs, sdkClient, changed, stop, running,
                 channels, loopVars, connCount, reset, handlerVars, synced, bounds>>

(* A later Refresh (poll, webhook) fetched a different config. *)
ConfigChange(c) ==
  /\ phase[c] = "live" /\ changes < MaxChanges
  /\ \E j \in Configs \ {NoConfig, cfg[c]} : cfg' = [cfg EXCEPT ![c] = j]
  /\ signals' = [signals EXCEPT ![c] = @ + 1]
  /\ changes' = changes + 1
  /\ UNCHANGED <<phase, initialized, pubq, worker, subs, sdkClient, changed, stop, running,
                 channels, loopVars, connCount, reset, handlerVars, synced, resets>>

(* client.signal: the first one is swallowed, the others Publish, which    *)
(* returns at once when the publisher is closed and waits when it is full. *)
Signal(c) ==
  /\ signals[c] > 0
  /\ signals' = [signals EXCEPT ![c] = @ - 1]
  /\ initialized' = [initialized EXCEPT ![c] = TRUE]
  /\ IF initialized[c] /\ phase[c] # "closed"
       THEN pubq[c] < PubCap /\ pubq' = [pubq EXCEPT ![c] = @ + 1]
       ELSE UNCHANGED pubq
  /\ UNCHANGED <<phase, cfg, worker, subs, sdkClient, changed, stop, running, channels,
                 loopVars, connCount, reset, handlerVars, synced, bounds>>

(* The worker takes a message; without a subscriber it is dropped. *)
WorkerTake(c) ==
  /\ worker[c] = "select" /\ pubq[c] > 0
  /\ pubq' = [pubq EXCEPT ![c] = @ - 1]
  /\ worker' = [worker EXCEPT ![c] = IF subs[c] THEN "deliver" ELSE "select"]
  /\ UNCHANGED <<phase, cfg, signals, initialized, subs, sdkClient, changed, stop, running,
                 channels, loopVars, connCount, reset, handlerVars, synced, bounds>>

WorkerDeliver(c) ==
  /\ worker[c] = "deliver" /\ changed = 0
  /\ changed' = 1
  /\ worker' = [worker EXCEPT ![c] = "select"]
  /\ synced' = (synced \/ (c = sdkClient /\ reset.step = "idle"))
  /\ UNCHANGED <<phase, cfg, signals, initialized, pubq, subs, sdkClient, stop, running,
                 channels, loopVars, connCount, reset, handlerVars, bounds>>

(* client.Close by the registrar, which removes the SDK or has stored a    *)
(* newer client.  The worker may serve what is queued before it notices.   *)
CloseClient(c) ==
  /\ phase[c] \in {"starting", "live"}
  /\ phase' = [phase EXCEPT ![c] = "closed"]
  /\ UNCHANGED <<cfg, signals, initialized, pubq, worker, subs, sdkClient, changed, stop,
                 running, channels, loopVars, connCount, reset, handlerVars, synced, bounds>>

WorkerExit(c) ==
  /\ worker[c] = "select" /\ phase[c] = "closed"
  /\ worker' = [worker EXCEPT ![c] = "exited"]
  /\ pubq' = [pubq EXCEPT ![c] = 0]
  /\ UNCHANGED <<phase, cfg, signals, initialized, subs, sdkClient, changed, stop,
                 running, channels, loopVars, connCount, reset, handlerVars, synced, bounds>>

-----------------------------------------------------------------------------
(* ResetSdk, called by the stream server for the client the registrar now  *)
(* holds: a newer one, the replaced one being closed already or not yet    *)
(* (sdk_auto_registrar.go:400, 408), or the same one when only its         *)
(* secondary key changed.                                                  *)

ResetSwap(new) ==
  /\ reset.step = "idle" /\ resets < MaxResets /\ ~stop
  /\ phase[new] # "none" /\ new >= sdkClient
  /\ sdkClient' = new
  /\ reset' = [step |-> "unsubscribe", old |-> sdkClient, new |-> new]
  /\ synced' = FALSE
  /\ resets' = resets + 1
  /\ UNCHANGED <<clientVars, changed, stop, running, channels, loopVars, connCount,
                 handlerVars, changes>>

(* Unsubscribe and Subscribe poll the publisher's stop and then hand       *)
(* sdkConfigChanged to its worker: two steps each.                         *)
ResetPoll ==
  LET closed == phase[IF reset.step = "subscribe" THEN reset.new ELSE reset.old] = "closed"
      \* what follows if the publisher is closed, and if it is open
      after(s) == CASE s = "unsubscribe" -> <<"subscribe", "unsubscribing">>
                    [] s = "subscribe" -> <<"idle", "subscribing">>
                    [] s = "close" -> <<"idle", "leaving">>
  IN  /\ reset.step \in {"unsubscribe", "subscribe", "close"}
      /\ reset' = [reset EXCEPT !.step = after(@)[IF closed THEN 1 ELSE 2]]
      /\ UNCHANGED <<clientVars, sdkClient, changed, stop, running, channels, loopVars,
                     connCount, handlerVars, synced, bounds>>

ResetUnsubscribe ==
  /\ reset.step \in {"unsubscribing", "leaving"} /\ worker[reset.old] = "select"
  /\ subs' = [subs EXCEPT ![reset.old] = FALSE]
  /\ reset' = [reset EXCEPT !.step = IF @ = "leaving" THEN "idle" ELSE "subscribe"]
  /\ UNCHANGED <<phase, cfg, signals, initialized, pubq, worker, sdkClient, changed, stop,
                 running, channels, loopVars, connCount, handlerVars, synced, bounds>>

ResetSubscribe ==
  /\ reset.step = "subscribing" /\ worker[reset.new] = "select"
  /\ subs' = [subs EXCEPT ![reset.new] = TRUE]
  /\ reset' = [reset EXCEPT !.step = "idle"]
  /\ UNCHANGED <<phase, cfg, signals, initialized, pubq, worker, sdkClient, changed, stop,
                 running, channels, loopVars, connCount, handlerVars, synced, bounds>>

(* stream.Close: the SDK was removed.  It closes stop, then unsubscribes.  *)
CloseStream ==
  /\ Removable /\ ~stop /\ reset.step = "idle"
  /\ stop' = TRUE
  /\ reset' = [step |-> "close", old |-> sdkClient, new |-> sdkClient]
  /\ UNCHANGED <<clientVars, sdkClient, changed, running, channels, loopVars, connCount,
                 handlerVars, synced, bounds>>

-----------------------------------------------------------------------------
(* stream.run *)

(* case established := <-s.connEstablished; addConnection *)
TakeEstablished(k) ==
  LET t == TopicOf[k]
      last == IF Exists(t) THEN channels[t].last ELSE Payload(sdkClient, t)
  IN  /\ AtSelect /\ handler[k] = "creating"
      /\ Exists(t) \/ CanEvaluate(sdkClient)
      /\ channels' = [channels EXCEPT ![t] = [conns |-> Append(@.conns, k), last |-> last]]
      /\ receive' = [receive EXCEPT ![k] = Append(@, last)]
      /\ handler' = [handler EXCEPT ![k] = "streaming"]
      /\ connCount' = connCount + 1
      /\ UNCHANGED <<clientVars, sdkClient, changed, stop, running, loopVars, reset, gone,
                     shown, synced, bounds>>

(* case closed := <-s.connClosed; removeConnection drops an empty channel *)
TakeClosed(k) ==
  /\ AtSelect /\ handler[k] = "closing"
  /\ LET rest == RemoveConnection(channels[TopicOf[k]].conns, k)
     IN  channels' = [channels EXCEPT ![TopicOf[k]] =
                        IF rest = <<>> THEN NoChannel ELSE [@ EXCEPT !.conns = rest]]
  /\ handler' = [handler EXCEPT ![k] = "done"]
  /\ connCount' = connCount - 1
  /\ UNCHANGED <<clientVars, sdkClient, changed, stop, running, loopVars, reset, receive,
                 gone, shown, synced, bounds>>

(* case <-s.sdkConfigChanged; notifyConnections loads the client once *)
TakeChanged ==
  /\ AtSelect /\ changed = 1
  /\ changed' = 0
  /\ todo' = {t \in Topics : Exists(t)}
  /\ using' = sdkClient
  /\ UNCHANGED <<clientVars, sdkClient, stop, running, channels, sending, connCount, reset,
                 handlerVars, synced, bounds>>

(* channel.Notify: evaluate, remember, send to the connections in order *)
NotifyChannel(t) ==
  /\ sending = <<>> /\ t \in todo /\ CanEvaluate(using)
  /\ todo' = todo \ {t}
  /\ IF Notifies(using, t)
       THEN /\ channels' = [channels EXCEPT ![t].last = Payload(using, t)]
            /\ sending' = [i \in DOMAIN channels[t].conns |->
                             [to |-> channels[t].conns[i], payload |-> Payload(using, t)]]
       ELSE UNCHANGED <<channels, sending>>
  /\ UNCHANGED <<clientVars, sdkClient, changed, stop, running, using, connCount, reset,
                 handlerVars, synced, bounds>>

(* conn.receive <- payload completes *)
SendPayload ==
  /\ running /\ sending # <<>>
  /\ LET next == Head(sending)
     IN  /\ Len(receive[next.to]) < RecvCap
         /\ receive' = [receive EXCEPT ![next.to] = Append(@, next.payload)]
  /\ sending' = Tail(sending)
  /\ UNCHANGED <<clientVars, sdkClient, changed, stop, running, channels, todo, using,
                 connCount, reset, handler, gone, shown, synced, bounds>>

(* case <-s.stop *)
TakeStop ==
  /\ AtSelect /\ stop
  /\ running' = FALSE
  /\ UNCHANGED <<clientVars, sdkClient, changed, stop, channels, loopVars, connCount, reset,
                 handlerVars, synced, bounds>>

-----------------------------------------------------------------------------
(* A handler: SingleFlag / AllFlags and listenAndRespond of the SSE server, *)
(* EvalFlagStream / EvalAllFlagsStream of the gRPC service.                 *)

(* IsInValidState, CanEval (single flag only), then CreateConnection, which *)
(* polls stop.  On a closed stream the handler leaves its loop at once.     *)
Connect(k) ==
  /\ handler[k] = "idle" /\ CanEvaluate(sdkClient)
  /\ cfg[sdkClient] # NoConfig
  /\ TopicOf[k] \in AllTopics \/ FlagOf[cfg[sdkClient]] # Missing
  /\ handler' = [handler EXCEPT ![k] = IF stop THEN "done" ELSE "creating"]
  /\ UNCHANGED <<clientVars, sdkClient, changed, stop, running, channels, loopVars, connCount,
                 reset, receive, gone, shown, synced, bounds>>

(* case payload := <-conn.Receive(), written to the peer *)
HandlerReceive(k) ==
  /\ handler[k] = "streaming" /\ receive[k] # <<>>
  /\ shown' = [shown EXCEPT ![k] = Head(receive[k])]
  /\ receive' = [receive EXCEPT ![k] = Tail(@)]
  /\ UNCHANGED <<clientVars, sdkClient, changed, stop, running, channels, loopVars, connCount,
                 reset, handler, gone, synced, bounds>>

(* The peer goes away. *)
Disconnect(k) ==
  /\ k \in Quitters /\ handler[k] \in {"creating", "streaming"} /\ ~gone[k]
  /\ gone' = [gone EXCEPT ![k] = TRUE]
  /\ UNCHANGED <<clientVars, sdkClient, changed, stop, running, channels, loopVars, connCount,
                 reset, handler, receive, shown, synced, bounds>>

(* case <-r.Context().Done(): CloseConnection polls stop, then waits for run *)
HandlerGone(k) ==
  /\ handler[k] = "streaming" /\ gone[k]
  /\ handler' = [handler EXCEPT ![k] = IF stop THEN "done" ELSE "closing"]
  /\ UNCHANGED <<clientVars, sdkClient, changed, stop, running, channels, loopVars, connCount,
                 reset, receive, gone, shown, synced, bounds>>

(* case <-str.Closed() *)
HandlerStreamClosed(k) ==
  /\ handler[k] = "streaming" /\ stop
  /\ handler' = [handler EXCEPT ![k] = "done"]
  /\ UNCHANGED <<clientVars, sdkClient, changed, stop, running, channels, loopVars, connCount,
                 reset, receive, gone, shown, synced, bounds>>

-----------------------------------------------------------------------------
ClientStep(c) ==
  \/ NewClient(c) \/ FirstFetch(c) \/ ConfigChange(c) \/ Signal(c)
  \/ WorkerTake(c) \/ WorkerDeliver(c) \/ CloseClient(c) \/ WorkerExit(c)
HandlerStep(k) ==
  \/ Connect(k) \/ HandlerReceive(k) \/ Disconnect(k) \/ HandlerGone(k)
  \/ HandlerStreamClosed(k)
RunStep ==
  \/ \E k \in Conns : TakeEstablished(k) \/ TakeClosed(k)
  \/ TakeChanged \/ TakeStop
  \/ \E t \in Topics : NotifyChannel(t)
  \/ SendPayload
ServerStep ==
  \/ \E c \in Clients : ResetSwap(c)
  \/ ResetPoll \/ ResetUnsubscribe \/ ResetSubscribe \/ CloseStream

Next ==
  \/ \E c \in Clients : ClientStep(c)
  \/ \E k \in Conns : HandlerStep(k)
  \/ RunStep
  \/ ServerStep

Spec == Init /\ [][Next]_vars

(* Goroutines that can run do run.  Weak fairness is enough for the cases  *)
(* of run's select because configs change and peers connect finitely often *)
(* here.  Nothing is assumed of the environment: configs need not change,  *)
(* peers need not connect or leave, the stream need not be closed.         *)
Fairness ==
  /\ \A c \in Clients : /\ WF_vars(FirstFetch(c)) /\ WF_vars(Signal(c))
                        /\ WF_vars(WorkerTake(c)) /\ WF_vars(WorkerDeliver(c))
  /\ \A k \in Conns : /\ WF_vars(HandlerReceive(k)) /\ WF_vars(HandlerGone(k))
                      /\ WF_vars(HandlerStreamClosed(k))
  /\ WF_vars(RunStep)
  /\ WF_vars(ResetPoll \/ ResetUnsubscribe \/ ResetSubscribe)

FairSpec == Spec /\ Fairness

-----------------------------------------------------------------------------
(* Properties *)

Payloads == Configs \cup {FlagOf[c] : c \in Configs} \cup {NoPayload}
Channels == [conns : Seq(Conns), last : Payloads]
Messages == [to : Conns, payload : Payloads]
ResetSteps == {"idle", "unsubscribe", "unsubscribing", "subscribe", "subscribing", "close", "leaving"}
ClientsTypeOK ==
  /\ phase \in [Clients -> {"none", "starting", "live", "closed"}]
  /\ cfg \in [Clients -> Configs]
  /\ signals \in [Clients -> 0 .. MaxChanges + 1] /\ pubq \in [Clients -> 0 .. PubCap]
  /\ initialized \in [Clients -> BOOLEAN] /\ subs \in [Clients -> BOOLEAN]
  /\ worker \in [Clients -> {"select", "deliver", "exited"}]
  /\ changes \in 0 .. MaxChanges
RunTypeOK ==
  /\ sdkClient \in Clients /\ using \in Clients /\ changed \in 0 .. 1
  /\ channels \in [Topics -> Channels] /\ todo \subseteq Topics /\ sending \in Seq(Messages)
  /\ reset \in [step : ResetSteps, old : Clients, new : Clients]
HandlersTypeOK ==
  /\ handler \in [Conns -> {"idle", "creating", "streaming", "closing", "done"}]
  /\ receive \in [Conns -> Seq(Payloads)] /\ \A k \in Conns : Len(receive[k]) <= RecvCap
  /\ shown \in [Conns -> Payloads] /\ gone \in [Conns -> BOOLEAN]
TypeOK == ClientsTypeOK /\ RunTypeOK /\ HandlersTypeOK

(* The connections the stream holds are those of the handlers that stream  *)
(* or wait in CloseConnection, each once and under its own topic, and      *)
(* connCount counts them (stream.go:75,81,177).  A handler that left       *)
(* because the stream was closed does not deregister.                      *)
Registered(k) == \E i \in DOMAIN channels[TopicOf[k]].conns : channels[TopicOf[k]].conns[i] = k
ConnectionsMatchHandlers ==
  /\ \A t \in Topics : /\ IsInjective(channels[t].conns)
                       /\ \A i \in DOMAIN channels[t].conns : TopicOf[channels[t].conns[i]] = t
  /\ \A k \in Conns : /\ handler[k] \in {"streaming", "closing"} => Registered(k)
                      /\ Registered(k) => handler[k] \notin {"idle", "creating"}
                      /\ Registered(k) /\ handler[k] = "done" => stop
  /\ IsFiniteSet({k \in Conns : Registered(k)})
  /\ connCount = Cardinality({k \in Conns : Registered(k)})

(* What the last message to a connection was or will be. *)
LastSent(k) ==
  LET mine == {i \in DOMAIN sending : sending[i].to = k}
  IN  IF mine # {} THEN sending[CHOOSE i \in mine : \A j \in mine : j <= i].payload
      ELSE IF receive[k] # <<>> THEN Last(receive[k]) ELSE shown[k]

(* Connections that share a channel agree: whoever joins late is given the *)
(* payload the others got last (stream.go:164, channel.go:LastPayload).    *)
ChannelAgrees ==
  \A k \in Conns : Registered(k) => LastSent(k) = channels[TopicOf[k]].last

(* No message is on its way anywhere. *)
Quiet ==
  /\ \A c \in Clients : signals[c] = 0 /\ pubq[c] = 0 /\ worker[c] # "deliver"
  /\ changed = 0 /\ todo = {} /\ sending = <<>> /\ reset.step = "idle"
  /\ \A k \in Conns : receive[k] = <<>>

UpToDate(k) ==
  LET now == Payload(sdkClient, TopicOf[k])
  IN  \/ shown[k] = now
      \/ now = Missing \/ cfg[sdkClient] \in EmptyConfigs

(* No update is lost: once everything in flight has been handled, each     *)
(* peer holds the value its SDK evaluates now, although the first change   *)
(* of a client is swallowed (sdk.go:189), sdkConfigChanged holds only one  *)
(* message and single flags are compared with the last payload.  Between   *)
(* ResetSdk and the next change of the client it got this is not promised. *)
QuietImpliesUpToDate ==
  Quiet /\ synced /\ phase[sdkClient] = "live" /\ ~stop
    => \A k \in Conns : handler[k] = "streaming" => UpToDate(k)

(* When the configs stop changing every streaming peer comes to hold the    *)
(* current value, unless it leaves or the client is closed (README.md:17).  *)
EventuallyUpToDate ==
  \A k \in Conns :
    handler[k] = "streaming"
      ~> (UpToDate(k) \/ handler[k] # "streaming" \/ gone[k] \/ phase[sdkClient] = "closed")

(* A request ends once its peer left or its SDK was removed (sse.go:110-117,*)
(* "the removal closes the connection, so it won't block indefinitely",     *)
(* sse_test.go:77).  Exactly one case is left behind: a handler that found  *)
(* the stream open and waits in CreateConnection or CloseConnection for a   *)
(* run that has returned since (stream.go:116, 126).                        *)
HandlersEnd ==
  \A k \in Conns :
    handler[k] \in {"creating", "streaming", "closing"} /\ (gone[k] \/ stop)
      ~> handler[k] = "done" \/ (~running /\ handler[k] \in {"creating", "closing"})
=============================================================================
