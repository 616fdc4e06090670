---------------------------- MODULE StreamProofs ----------------------------
(***************************************************************************)
(* Proofs about Stream for every number of clients, handlers, topics and   *)
(* configs and every capacity: the connections a stream holds are those of *)
(* its handlers, connections that share a channel agree, and no change of  *)
(* a config is lost on the way to a peer.                                  *)
(***************************************************************************)
EXTENDS Stream, FiniteSetTheorems, TLAPS

(* A client has a config once it signalled; its publisher has a message    *)
(* only after the first signal, which it swallows.                         *)
ClientOk(c) ==
  /\ signals[c] <= changes + 1
  /\ cfg[c] = NoConfig => signals[c] = 0 /\ ~initialized[c]
  /\ cfg[c] # NoConfig /\ ~initialized[c] => signals[c] > 0
  /\ ~initialized[c] => pubq[c] = 0 /\ worker[c] # "deliver"
  /\ phase[c] \in {"none", "starting"} => cfg[c] = NoConfig
  /\ worker[c] = "exited" => phase[c] = "closed"
ClientInv == \A c \in Clients : ClientOk(c)

(* What Notify still has to send is the last payload of a channel that the *)
(* receiver is in, once to each; a connection that is not established got  *)
(* nothing yet.                                                            *)
SendInv ==
  /\ \A i \in DOMAIN sending :
       /\ Registered(sending[i].to)
       /\ sending[i].payload = channels[TopicOf[sending[i].to]].last
       /\ \A j \in DOMAIN sending : sending[j].to = sending[i].to => i = j
  /\ \A k \in Conns : handler[k] \in {"idle", "creating"} => receive[k] = <<>>

(* Between two calls of ResetSdk the stream is subscribed to its client. *)
ResetInv ==
  /\ synced /\ ~stop => reset.step = "idle"
  /\ reset.step \in {"close", "leaving"} => stop
  /\ reset.step # "idle" /\ ~stop => reset.new = sdkClient
  /\ reset.step = "idle" /\ ~stop /\ phase[sdkClient] # "closed" => subs[sdkClient]

(* Something will make run look at the channel again: a signal that is not *)
(* swallowed, a message of the client, or notifyConnections itself.        *)
Coming(t) ==
  \/ signals[sdkClient] > IF initialized[sdkClient] THEN 0 ELSE 1
  \/ pubq[sdkClient] > 0 \/ worker[sdkClient] = "deliver" \/ changed = 1
  \/ t \in todo /\ using = sdkClient
Current(t) ==
  \/ channels[t].last = Payload(sdkClient, t)
  \/ Payload(sdkClient, t) = Missing \/ cfg[sdkClient] \in EmptyConfigs
Followed ==
  /\ cfg[sdkClient] = NoConfig => \A k \in Conns : handler[k] = "idle"
  /\ todo # {} => using = sdkClient \/ changed = 1
  /\ phase[sdkClient] = "live" => \A t \in Topics : Exists(t) => Current(t) \/ Coming(t)
SyncInv == synced /\ ~stop => Followed

StreamInv ==
  /\ TypeOK /\ ClientInv /\ ConnectionsMatchHandlers /\ SendInv /\ ChannelAgrees
  /\ ResetInv /\ SyncInv

-----------------------------------------------------------------------------
(* Types *)

LEMMA Constants ==
  /\ PubCap \in Nat \ {0} /\ RecvCap \in Nat \ {0} /\ MaxClients \in Nat \ {0} /\ MaxChanges \in Nat
  /\ 1 \in Clients /\ Clients \subseteq Nat
BY StreamAssumption DEF Clients

LEMMA PayloadType ==
  ASSUME TypeOK, NEW c \in Clients, NEW t \in Topics PROVE Payload(c, t) \in Payloads
BY DEF TypeOK, ClientsTypeOK, Payload, Payloads

(* What RemoveConnection leaves of a sequence *)
LEMMA Removed ==
  ASSUME NEW s \in Seq(Conns), NEW k \in Conns, IsInjective(s)
  PROVE  LET r == RemoveConnection(s, k)
         IN  /\ r \in Seq(Conns) /\ IsInjective(r)
             /\ \A j \in Conns : (\E i \in DOMAIN r : r[i] = j) <=> j # k /\ \E i \in DOMAIN s : s[i] = j
<1> DEFINE at == {i \in DOMAIN s : s[i] = k}
           r == RemoveConnection(s, k)
<1>1. CASE at = {}
  <2>1. r = s
    BY <1>1 DEF RemoveConnection
  <2> QED
    BY <1>1, <2>1
<1>2. CASE at # {}
  <2>1. PICK p \in DOMAIN s : s[p] = k
    BY <1>2
  <2>2. \A i \in at : i = p
    BY <2>1 DEF IsInjective
  <2>3. (CHOOSE i \in at : \A j \in at : i <= j) = p
    BY <2>1, <2>2
  <2>4. r = SubSeq(s, 1, p - 1) \o SubSeq(s, p + 1, Len(s))
    BY <1>2, <2>3 DEF RemoveConnection, RemoveAt
  <2>5. p \in 1 .. Len(s) /\ Len(s) \in Nat
    BY <2>1
  <2>6. /\ r \in Seq(Conns) /\ Len(r) = Len(s) - 1
        /\ \A i \in 1 .. Len(s) - 1 : r[i] = IF i < p THEN s[i] ELSE s[i + 1]
    <3> DEFINE a == SubSeq(s, 1, p - 1)
               b == SubSeq(s, p + 1, Len(s))
    <3>1. a \in Seq(Conns) /\ Len(a) = p - 1 /\ \A i \in 1 .. p - 1 : a[i] = s[i]
      BY <2>5
    <3>2. b \in Seq(Conns) /\ Len(b) = Len(s) - p /\ \A i \in 1 .. Len(s) - p : b[i] = s[p + i]
      BY <2>5
    <3> HIDE DEF a, b
    <3>3. r = a \o b
      BY <2>4 DEF a, b
    <3>4. /\ a \o b \in Seq(Conns) /\ Len(a \o b) = Len(a) + Len(b)
          /\ \A i \in 1 .. Len(a) + Len(b) :
               (a \o b)[i] = IF i <= Len(a) THEN a[i] ELSE b[i - Len(a)]
      BY SMTT(20), <3>1, <3>2
    <3>5. r \in Seq(Conns) /\ Len(r) = Len(s) - 1
      BY <2>5, <3>1, <3>2, <3>3, <3>4
    <3>6. ASSUME NEW i \in 1 .. Len(s) - 1 PROVE r[i] = IF i < p THEN s[i] ELSE s[i + 1]
      <4>1. r[i] = IF i <= p - 1 THEN a[i] ELSE b[i - (p - 1)]
        <5>1. i \in 1 .. Len(a) + Len(b)
          BY <2>5, <3>1, <3>2
        <5>2. (a \o b)[i] = IF i <= Len(a) THEN a[i] ELSE b[i - Len(a)]
          BY <3>4, <5>1
        <5> QED
          BY <3>1, <3>3, <5>2
      <4>2. CASE i < p
        BY <2>5, <3>1, <4>1, <4>2
      <4>3. CASE i >= p
        <5>1. i - (p - 1) \in 1 .. Len(s) - p /\ p + (i - (p - 1)) = i + 1
          BY <2>5, <4>3
        <5> QED
          BY SMTT(20), <2>5, <3>2, <4>1, <4>3, <5>1
      <4> QED
        BY <2>5, <4>2, <4>3
    <3> QED
      BY <3>5, <3>6
  <2>7. IsInjective(r)
    BY SMTT(20), <2>5, <2>6 DEF IsInjective
  <2>8. ASSUME NEW j \in Conns
        PROVE  (\E i \in DOMAIN r : r[i] = j) <=> j # k /\ \E i \in DOMAIN s : s[i] = j
    <3>1. ASSUME NEW i \in DOMAIN r, r[i] = j PROVE j # k /\ \E n \in DOMAIN s : s[n] = j
      BY <2>1, <2>5, <2>6, <3>1 DEF IsInjective
    <3>2. ASSUME NEW n \in DOMAIN s, s[n] = j, j # k PROVE \E i \in DOMAIN r : r[i] = j
      <4>1. CASE n < p
        <5>1. n \in DOMAIN r /\ r[n] = j
          BY <2>5, <2>6, <3>2, <4>1
        <5> QED
          BY <5>1
      <4>2. CASE n > p
        <5>1. n - 1 \in DOMAIN r /\ r[n - 1] = j
          BY <2>5, <2>6, <3>2, <4>2
        <5> QED
          BY <5>1
      <4> QED
        BY <2>1, <2>5, <3>2, <4>1, <4>2
    <3> QED
      BY <3>1, <3>2
  <2> QED
    BY <2>6, <2>7, <2>8
<1> QED
  BY <1>1, <1>2

LEMMA ClientTypes ==
  ASSUME TypeOK, ClientInv, NEW c \in Clients, ClientStep(c) PROVE TypeOK'
<1>1. HandlersTypeOK'
  BY DEF ClientStep, NewClient, FirstFetch, ConfigChange, Signal, WorkerTake, WorkerDeliver,
         CloseClient, WorkerExit, handlerVars, TypeOK, HandlersTypeOK
<1>2. RunTypeOK'
  <2>1. /\ UNCHANGED <<sdkClient, using, channels, todo, sending, reset>>
        /\ changed' = changed \/ changed' = 1
    BY DEF ClientStep, NewClient, FirstFetch, ConfigChange, Signal, WorkerTake, WorkerDeliver,
           CloseClient, WorkerExit, loopVars
  <2> QED
    BY <2>1 DEF TypeOK, RunTypeOK
<1>3. ClientsTypeOK /\ signals[c] \in Nat /\ pubq[c] \in Nat /\ changes \in Nat
  BY Constants DEF TypeOK, ClientsTypeOK
<1>4. CASE NewClient(c) \/ CloseClient(c)
  <2>1. ClientsTypeOK'
    BY <1>3, <1>4 DEF NewClient, CloseClient, ClientsTypeOK, bounds
  <2> QED
    BY <1>1, <1>2, <2>1 DEF TypeOK
<1>5. CASE FirstFetch(c)
  <2>1. PICK j \in Configs : /\ cfg' = [cfg EXCEPT ![c] = j]
                             /\ signals' = [signals EXCEPT ![c] = IF j = NoConfig THEN 0 ELSE 1]
    BY <1>5 DEF FirstFetch
  <2>2. 0 \in 0 .. MaxChanges + 1 /\ 1 \in 0 .. MaxChanges + 1
    BY Constants
  <2>3. ClientsTypeOK'
    BY <1>3, <1>5, <2>1, <2>2 DEF FirstFetch, ClientsTypeOK, bounds
  <2> QED
    BY <1>1, <1>2, <2>3 DEF TypeOK
<1>6. CASE ConfigChange(c)
  <2>1. signals[c] + 1 \in 0 .. MaxChanges + 1 /\ changes + 1 \in 0 .. MaxChanges
    BY <1>3, <1>6, Constants DEF ConfigChange, ClientInv, ClientOk, ClientsTypeOK
  <2>2. PICK j \in Configs : cfg' = [cfg EXCEPT ![c] = j]
    BY <1>6 DEF ConfigChange
  <2>3. ClientsTypeOK'
    BY <1>3, <1>6, <2>1, <2>2 DEF ConfigChange, ClientsTypeOK
  <2> QED
    BY <1>1, <1>2, <2>3 DEF TypeOK
<1>7. CASE Signal(c)
  <2>1. signals[c] - 1 \in 0 .. MaxChanges + 1 /\ (pubq[c] < PubCap => pubq[c] + 1 \in 0 .. PubCap)
    BY <1>3, <1>7, Constants DEF Signal, ClientsTypeOK
  <2>2. ClientsTypeOK'
    BY <1>3, <1>7, <2>1 DEF Signal, ClientsTypeOK, bounds
  <2> QED
    BY <1>1, <1>2, <2>2 DEF TypeOK
<1>8. CASE WorkerTake(c)
  <2>1. pubq[c] - 1 \in 0 .. PubCap
    BY <1>3, <1>8, Constants DEF WorkerTake, ClientsTypeOK
  <2>2. ClientsTypeOK'
    BY <1>3, <1>8, <2>1 DEF WorkerTake, ClientsTypeOK, bounds
  <2> QED
    BY <1>1, <1>2, <2>2 DEF TypeOK
<1>9. CASE WorkerDeliver(c) \/ WorkerExit(c)
  <2>1. 0 \in 0 .. PubCap
    BY Constants
  <2>2. ClientsTypeOK'
    BY <1>3, <1>9, <2>1 DEF WorkerDeliver, WorkerExit, ClientsTypeOK, bounds
  <2> QED
    BY <1>1, <1>2, <2>2 DEF TypeOK
<1> QED
  BY <1>4, <1>5, <1>6, <1>7, <1>8, <1>9 DEF ClientStep

LEMMA HandlerTypes ==
  ASSUME TypeOK, NEW k \in Conns, HandlerStep(k) PROVE TypeOK'
<1>1. ClientsTypeOK' /\ RunTypeOK'
  BY DEF HandlerStep, Connect, HandlerReceive, Disconnect, HandlerGone, HandlerStreamClosed,
         clientVars, loopVars, bounds, TypeOK, ClientsTypeOK, RunTypeOK
<1>2. HandlersTypeOK
  BY DEF TypeOK
<1>3. CASE HandlerReceive(k)
  <2>1. /\ Head(receive[k]) \in Payloads /\ Tail(receive[k]) \in Seq(Payloads)
        /\ Len(Tail(receive[k])) <= RecvCap
    BY <1>2, <1>3, Constants DEF HandlerReceive, HandlersTypeOK
  <2>2. HandlersTypeOK'
    BY <1>2, <1>3, <2>1 DEF HandlerReceive, HandlersTypeOK
  <2> QED
    BY <1>1, <2>2 DEF TypeOK
<1>4. CASE ~HandlerReceive(k)
  <2>1. HandlersTypeOK'
    BY <1>2, <1>4 DEF HandlerStep, Connect, Disconnect, HandlerGone, HandlerStreamClosed, HandlersTypeOK
  <2> QED
    BY <1>1, <2>1 DEF TypeOK
<1> QED
  BY <1>3, <1>4

LEMMA ServerTypes ==
  ASSUME TypeOK, ServerStep PROVE TypeOK'
<1>1. HandlersTypeOK'
  BY DEF ServerStep, ResetSwap, ResetPoll, ResetUnsubscribe, ResetSubscribe, CloseStream,
         handlerVars, TypeOK, HandlersTypeOK
<1>2. ClientsTypeOK'
  <2>1. /\ UNCHANGED <<phase, cfg, signals, initialized, pubq, worker, changes>>
        /\ \/ UNCHANGED subs
           \/ subs' = [subs EXCEPT ![reset.old] = FALSE] \/ subs' = [subs EXCEPT ![reset.new] = TRUE]
    BY DEF ServerStep, ResetSwap, ResetPoll, ResetUnsubscribe, ResetSubscribe, CloseStream,
           clientVars, bounds
  <2> QED
    BY <2>1 DEF TypeOK, ClientsTypeOK
<1>3. RunTypeOK'
  <2>1. RunTypeOK /\ UNCHANGED <<using, changed, channels, todo, sending>>
    BY DEF ServerStep, ResetSwap, ResetPoll, ResetUnsubscribe, ResetSubscribe, CloseStream,
           loopVars, TypeOK
  <2>2. CASE (\E c \in Clients : ResetSwap(c)) \/ CloseStream
    BY <2>1, <2>2 DEF ResetSwap, CloseStream, RunTypeOK, ResetSteps
  <2>3. CASE ResetPoll
    <3>1. sdkClient' = sdkClient /\ \E s \in ResetSteps : reset' = [reset EXCEPT !.step = s]
      BY <2>3 DEF ResetPoll, ResetSteps
    <3> QED
      BY <2>1, <3>1 DEF RunTypeOK
  <2>4. CASE ResetUnsubscribe \/ ResetSubscribe
    <3>1. sdkClient' = sdkClient /\ \E s \in ResetSteps : reset' = [reset EXCEPT !.step = s]
      BY <2>4 DEF ResetUnsubscribe, ResetSubscribe, ResetSteps
    <3> QED
      BY <2>1, <3>1 DEF RunTypeOK
  <2> QED
    BY <2>2, <2>3, <2>4 DEF ServerStep
<1> QED
  BY <1>1, <1>2, <1>3 DEF TypeOK

LEMMA RunTypes ==
  ASSUME TypeOK, ConnectionsMatchHandlers, SendInv, RunStep PROVE TypeOK'
<1> USE StreamAssumption
<1>0. RunTypeOK /\ HandlersTypeOK
  BY DEF TypeOK
<1>1. ClientsTypeOK'
  BY DEF RunStep, TakeEstablished, TakeClosed, TakeChanged, TakeStop, NotifyChannel, SendPayload,
         clientVars, bounds, TypeOK, ClientsTypeOK
<1>2. ASSUME NEW k \in Conns, TakeEstablished(k) PROVE RunTypeOK' /\ HandlersTypeOK'
  <2> DEFINE t == TopicOf[k]
             last == IF Exists(t) THEN channels[t].last ELSE Payload(sdkClient, t)
  <2>1. t \in Topics /\ channels[t] \in Channels /\ last \in Payloads
    BY <1>0, PayloadType DEF RunTypeOK, Channels
  <2>2. [conns |-> Append(channels[t].conns, k), last |-> last] \in Channels
    BY <2>1 DEF Channels
  <2>3. Append(receive[k], last) \in Seq(Payloads) /\ Len(Append(receive[k], last)) <= RecvCap
    <3>1. receive[k] = <<>>
      BY <1>2 DEF TakeEstablished, SendInv
    <3>2. Append(<<>>, last) \in Seq(Payloads) /\ Len(Append(<<>>, last)) = 1
      BY <2>1
    <3> QED
      BY <3>1, <3>2, Constants
  <2>4. RunTypeOK'
    BY <1>0, <1>2, <2>1, <2>2 DEF TakeEstablished, RunTypeOK, loopVars
  <2>5. HandlersTypeOK'
    BY <1>0, <1>2, <2>1, <2>3 DEF TakeEstablished, HandlersTypeOK
  <2> QED
    BY <2>4, <2>5
<1>3. ASSUME NEW k \in Conns, TakeClosed(k) PROVE RunTypeOK' /\ HandlersTypeOK'
  <2> DEFINE t == TopicOf[k]
             rest == RemoveConnection(channels[t].conns, k)
  <2>1. t \in Topics /\ channels[t] \in Channels /\ channels[t].conns \in Seq(Conns)
    BY <1>0 DEF RunTypeOK, Channels
  <2>2. rest \in Seq(Conns)
    BY <2>1, Removed DEF ConnectionsMatchHandlers
  <2>3. NoChannel \in Channels /\ [channels[t] EXCEPT !.conns = rest] \in Channels
    BY <2>1, <2>2 DEF NoChannel, Channels, Payloads
  <2>4. RunTypeOK'
    BY <1>0, <1>3, <2>1, <2>3 DEF TakeClosed, RunTypeOK, loopVars
  <2>5. HandlersTypeOK'
    BY <1>0, <1>3 DEF TakeClosed, HandlersTypeOK
  <2> QED
    BY <2>4, <2>5
<1>4. CASE TakeChanged \/ TakeStop
  <2>1. RunTypeOK'
    BY <1>0, <1>4 DEF TakeChanged, TakeStop, RunTypeOK, loopVars
  <2>2. HandlersTypeOK'
    BY <1>0, <1>4 DEF TakeChanged, TakeStop, HandlersTypeOK, handlerVars
  <2> QED
    BY <1>1, <2>1, <2>2 DEF TypeOK
<1>5. ASSUME NEW t \in Topics, NotifyChannel(t) PROVE RunTypeOK' /\ HandlersTypeOK'
  <2>1. /\ Payload(using, t) \in Payloads /\ channels[t] \in Channels
        /\ channels[t].conns \in Seq(Conns)
    BY <1>0, PayloadType DEF RunTypeOK, Channels
  <2>2. [channels[t] EXCEPT !.last = Payload(using, t)] \in Channels
    BY <2>1 DEF Channels
  <2>3. [i \in DOMAIN channels[t].conns |->
           [to |-> channels[t].conns[i], payload |-> Payload(using, t)]] \in Seq(Messages)
    <3>1. PICK n \in Nat : DOMAIN channels[t].conns = 1 .. n
      BY <2>1
    <3>2. \A i \in 1 .. n : [to |-> channels[t].conns[i], payload |-> Payload(using, t)] \in Messages
      BY <2>1, <3>1 DEF Messages
    <3>3. [i \in 1 .. n |-> [to |-> channels[t].conns[i], payload |-> Payload(using, t)]]
            \in [1 .. n -> Messages]
      BY <3>2
    <3> QED
      BY <3>1, <3>3
  <2>4. RunTypeOK'
    BY <1>0, <1>5, <2>2, <2>3 DEF NotifyChannel, RunTypeOK
  <2>5. HandlersTypeOK'
    BY <1>0, <1>5 DEF NotifyChannel, HandlersTypeOK, handlerVars
  <2> QED
    BY <2>4, <2>5
<1>6. CASE SendPayload
  <2>1. Head(sending) \in Messages /\ Tail(sending) \in Seq(Messages)
    BY <1>0, <1>6 DEF SendPayload, RunTypeOK
  <2>2. Head(sending).to \in Conns /\ Head(sending).payload \in Payloads
    BY <2>1 DEF Messages
  <2>3. /\ Append(receive[Head(sending).to], Head(sending).payload) \in Seq(Payloads)
        /\ Len(Append(receive[Head(sending).to], Head(sending).payload)) <= RecvCap
    BY <1>0, <1>6, <2>2, Constants DEF SendPayload, HandlersTypeOK
  <2>4. RunTypeOK'
    BY <1>0, <1>6, <2>1 DEF SendPayload, RunTypeOK
  <2>5. HandlersTypeOK'
    BY <1>0, <1>6, <2>2, <2>3 DEF SendPayload, HandlersTypeOK
  <2> QED
    BY <1>1, <2>4, <2>5 DEF TypeOK
<1> QED
  BY <1>1, <1>2, <1>3, <1>4, <1>5, <1>6 DEF RunStep, TypeOK

-----------------------------------------------------------------------------
(* The clients *)

LEMMA ClientKeeps ==
  ASSUME ClientInv, UNCHANGED <<phase, cfg, signals, initialized, pubq, worker, changes>>
  PROVE  ClientInv'
BY DEF ClientInv, ClientOk

LEMMA ClientInvStep ==
  ASSUME TypeOK, ClientInv, NEW c \in Clients, ClientStep(c) PROVE ClientInv'
<1>1. /\ ClientsTypeOK /\ signals[c] \in Nat /\ pubq[c] \in Nat /\ changes \in Nat
      /\ \A d \in Clients : signals[d] \in Nat
  BY Constants DEF TypeOK, ClientsTypeOK
<1>2. \A d \in Clients : ClientOk(d)
  BY DEF ClientInv, ClientOk
<1>3. \A d \in Clients \ {c} :
        /\ phase'[d] = phase[d] /\ cfg'[d] = cfg[d] /\ signals'[d] = signals[d]
        /\ initialized'[d] = initialized[d] /\ pubq'[d] = pubq[d] /\ worker'[d] = worker[d]
  <2>1. CASE NewClient(c) \/ CloseClient(c) \/ WorkerTake(c) \/ WorkerDeliver(c) \/ WorkerExit(c)
    BY <1>1, <2>1 DEF NewClient, CloseClient, WorkerTake, WorkerDeliver, WorkerExit, ClientsTypeOK
  <2>2. CASE FirstFetch(c) \/ ConfigChange(c)
    BY <1>1, <2>2 DEF FirstFetch, ConfigChange, ClientsTypeOK
  <2>3. CASE Signal(c)
    BY <1>1, <2>3 DEF Signal, ClientsTypeOK
  <2> QED
    BY <2>1, <2>2, <2>3 DEF ClientStep
<1>4. changes' \in Nat /\ changes' >= changes
  BY <1>1 DEF ClientStep, NewClient, CloseClient, WorkerTake, WorkerDeliver, WorkerExit, FirstFetch,
              ConfigChange, Signal, bounds
<1>5. \A d \in Clients \ {c} : ClientOk(d)'
  BY <1>1, <1>2, <1>3, <1>4 DEF ClientOk
<1>6. ClientOk(c)'
  <2>1. CASE NewClient(c) \/ CloseClient(c)
    <3>1. /\ phase'[c] \in {"starting", "closed"}
          /\ phase'[c] = "starting" => phase[c] = "none"
          /\ phase[c] # "closed"
      BY <1>1, <2>1 DEF NewClient, CloseClient, ClientsTypeOK
    <3>2. UNCHANGED <<cfg, signals, initialized, pubq, worker, changes>>
      BY <2>1 DEF NewClient, CloseClient, bounds
    <3> QED
      BY <1>2, <3>1, <3>2 DEF ClientOk
  <2>2. CASE FirstFetch(c)
    <3>1. PICK j \in Configs : /\ cfg' = [cfg EXCEPT ![c] = j]
                               /\ signals' = [signals EXCEPT ![c] = IF j = NoConfig THEN 0 ELSE 1]
      BY <2>2 DEF FirstFetch
    <3>2. /\ phase[c] = "starting" /\ phase'[c] = "live" /\ cfg'[c] = j
          /\ signals'[c] = IF j = NoConfig THEN 0 ELSE 1
          /\ UNCHANGED <<initialized, pubq, worker, changes>>
      BY <1>1, <2>2, <3>1 DEF FirstFetch, ClientsTypeOK, bounds
    <3>3. ~initialized[c]
      BY <1>2, <3>2 DEF ClientOk
    <3> QED
      BY <1>1, <1>2, <3>2, <3>3 DEF ClientOk
  <2>3. CASE ConfigChange(c)
    <3>1. PICK j \in Configs \ {NoConfig} : cfg' = [cfg EXCEPT ![c] = j]
      BY <2>3 DEF ConfigChange
    <3>2. /\ cfg'[c] = j /\ signals'[c] = signals[c] + 1 /\ changes' = changes + 1
          /\ phase[c] = "live" /\ UNCHANGED <<phase, initialized, pubq, worker>>
      BY <1>1, <2>3, <3>1 DEF ConfigChange, ClientsTypeOK
    <3> QED
      BY <1>1, <1>2, <3>1, <3>2 DEF ClientOk
  <2>4. CASE Signal(c)
    <3>1. /\ signals[c] > 0 /\ signals'[c] = signals[c] - 1 /\ initialized'[c] = TRUE
          /\ UNCHANGED <<phase, cfg, worker, changes>>
      BY <1>1, <2>4 DEF Signal, ClientsTypeOK, bounds
    <3>2. cfg[c] # NoConfig
      BY <1>1, <1>2, <3>1 DEF ClientOk
    <3> QED
      BY <1>1, <1>2, <3>1, <3>2 DEF ClientOk
  <2>5. CASE WorkerTake(c)
    <3>1. /\ pubq[c] > 0 /\ worker'[c] \in {"deliver", "select"}
          /\ UNCHANGED <<phase, cfg, signals, initialized, changes>>
      BY <1>1, <2>5 DEF WorkerTake, ClientsTypeOK, bounds
    <3>2. initialized[c]
      BY <1>1, <1>2, <3>1 DEF ClientOk
    <3> QED
      BY <1>2, <3>1, <3>2 DEF ClientOk
  <2>6. CASE WorkerDeliver(c) \/ WorkerExit(c)
    <3>1. /\ worker'[c] = "select" \/ (worker'[c] = "exited" /\ phase[c] = "closed")
          /\ pubq'[c] = pubq[c] \/ pubq'[c] = 0
          /\ UNCHANGED <<phase, cfg, signals, initialized, changes>>
      BY <1>1, <2>6 DEF WorkerDeliver, WorkerExit, ClientsTypeOK, bounds
    <3> QED
      BY <1>2, <3>1 DEF ClientOk
  <2> QED
    BY <2>1, <2>2, <2>3, <2>4, <2>5, <2>6 DEF ClientStep
<1> QED
  BY <1>5, <1>6 DEF ClientInv, ClientOk

-----------------------------------------------------------------------------
(* ResetSdk *)

LEMMA ResetKeeps ==
  ASSUME ResetInv, UNCHANGED <<stop, reset, sdkClient>>,
         synced' => synced \/ reset.step = "idle",
         phase[sdkClient] = "closed" => phase'[sdkClient] = "closed",
         subs[sdkClient] => subs'[sdkClient]
  PROVE  ResetInv'
BY DEF ResetInv

LEMMA ResetInvStep ==
  ASSUME TypeOK, ResetInv, ServerStep PROVE ResetInv'
<1>1. reset \in [step : ResetSteps, old : Clients, new : Clients] /\ ClientsTypeOK
  BY DEF TypeOK, RunTypeOK
<1>2. CASE \E c \in Clients : ResetSwap(c)
  BY <1>2 DEF ResetSwap, ResetInv, clientVars
<1>3. CASE ResetPoll
  <2>1. /\ reset'.old = reset.old /\ reset'.new = reset.new /\ UNCHANGED <<phase, subs, synced, stop, sdkClient>>
        /\ reset.step # "idle"
        /\ \/ /\ reset.step = "unsubscribe" /\ reset'.step \in {"subscribe", "unsubscribing"}
           \/ /\ reset.step = "subscribe" /\ reset'.step = "subscribing"
           \/ /\ reset.step = "subscribe" /\ reset'.step = "idle" /\ phase[reset.new] = "closed"
           \/ /\ reset.step = "close" /\ reset'.step \in {"idle", "leaving"}
    BY <1>1, <1>3 DEF ResetPoll, ResetSteps, clientVars
  <2> QED
    BY <2>1 DEF ResetInv
<1>4. CASE ResetUnsubscribe
  <2>1. /\ reset'.new = reset.new /\ UNCHANGED <<phase, synced, stop, sdkClient>>
        /\ \/ reset.step = "unsubscribing" /\ reset'.step = "subscribe"
           \/ reset.step = "leaving" /\ reset'.step = "idle"
    BY <1>1, <1>4 DEF ResetUnsubscribe
  <2> QED
    BY <2>1 DEF ResetInv
<1>5. CASE ResetSubscribe
  <2>1. /\ reset.step = "subscribing" /\ reset'.step = "idle"
        /\ subs'[reset.new] = TRUE /\ UNCHANGED <<phase, synced, stop, sdkClient>>
    BY <1>1, <1>5 DEF ResetSubscribe, ClientsTypeOK
  <2> QED
    BY <2>1 DEF ResetInv
<1>6. CASE CloseStream
  BY <1>6 DEF CloseStream, ResetInv
<1> QED
  BY <1>2, <1>3, <1>4, <1>5, <1>6 DEF ServerStep

LEMMA ResetInvClient ==
  ASSUME TypeOK, ResetInv, NEW c \in Clients, ClientStep(c) PROVE ResetInv'
<1>1. UNCHANGED <<stop, reset, sdkClient, subs>>
  BY DEF ClientStep, NewClient, FirstFetch, ConfigChange, Signal, WorkerTake, WorkerDeliver,
         CloseClient, WorkerExit
<1>2. synced' => synced \/ reset.step = "idle"
  BY DEF ClientStep, NewClient, FirstFetch, ConfigChange, Signal, WorkerTake, WorkerDeliver,
         CloseClient, WorkerExit
<1>3. phase[sdkClient] = "closed" => phase'[sdkClient] = "closed"
  <2>1. phase' = phase \/ \E p \in {"starting", "live", "closed"} : phase' = [phase EXCEPT ![c] = p] /\ phase[c] # "closed"
    BY DEF ClientStep, NewClient, FirstFetch, ConfigChange, Signal, WorkerTake, WorkerDeliver,
           CloseClient, WorkerExit
  <2> QED
    BY <2>1 DEF TypeOK, ClientsTypeOK, RunTypeOK
<1> QED
  BY <1>1, <1>2, <1>3, ResetKeeps

-----------------------------------------------------------------------------
(* The connections of the channels *)

LEMMA MatchKeeps ==
  ASSUME TypeOK, ConnectionsMatchHandlers, UNCHANGED connCount, stop => stop',
         \A t \in Topics : channels'[t].conns = channels[t].conns,
         \A k \in Conns :
           /\ handler'[k] \in {"streaming", "closing"} => handler[k] \in {"streaming", "closing"}
           /\ handler'[k] \in {"idle", "creating"} => handler[k] \in {"idle", "creating"}
           /\ handler'[k] = "done" /\ handler[k] \in {"streaming", "closing"} => stop'
  PROVE  ConnectionsMatchHandlers'
<1> USE StreamAssumption
<1>1. \A k \in Conns : Registered(k)' <=> Registered(k)
  BY DEF Registered
<1>2. {k \in Conns : Registered(k)}' = {k \in Conns : Registered(k)}
  BY <1>1
<1>3. \A t \in Topics : (IsInjective(channels[t].conns)
                         /\ \A i \in DOMAIN channels[t].conns : TopicOf[channels[t].conns[i]] = t)'
  BY DEF ConnectionsMatchHandlers
<1>4. \A k \in Conns : (/\ handler[k] \in {"streaming", "closing"} => Registered(k)
                        /\ Registered(k) => handler[k] \notin {"idle", "creating"}
                        /\ Registered(k) /\ handler[k] = "done" => stop)'
  <2> SUFFICES ASSUME NEW k \in Conns
               PROVE  (/\ handler[k] \in {"streaming", "closing"} => Registered(k)
                       /\ Registered(k) => handler[k] \notin {"idle", "creating"}
                       /\ Registered(k) /\ handler[k] = "done" => stop)'
    OBVIOUS
  <2>1. /\ handler[k] \in {"streaming", "closing"} => Registered(k)
        /\ Registered(k) => handler[k] \notin {"idle", "creating"}
        /\ Registered(k) /\ handler[k] = "done" => stop
        /\ handler[k] \in {"idle", "creating", "streaming", "closing", "done"}
    BY DEF ConnectionsMatchHandlers, TypeOK, HandlersTypeOK
  <2>2. Registered(k)' <=> Registered(k)
    BY <1>1
  <2> QED
    BY <2>1, <2>2
<1>5. (/\ IsFiniteSet({k \in Conns : Registered(k)})
       /\ connCount = Cardinality({k \in Conns : Registered(k)}))'
  BY <1>2 DEF ConnectionsMatchHandlers
<1> QED
  BY <1>3, <1>4, <1>5 DEF ConnectionsMatchHandlers

(* A connection joins the end of its channel. *)
LEMMA MatchEstablished ==
  ASSUME TypeOK, ConnectionsMatchHandlers, NEW k \in Conns, TakeEstablished(k)
  PROVE  ConnectionsMatchHandlers'
<1> USE StreamAssumption
<1> DEFINE t == TopicOf[k]
<1>1. /\ t \in Topics /\ channels[t] \in Channels /\ channels[t].conns \in Seq(Conns)
      /\ handler[k] = "creating" /\ ~Registered(k)
  BY DEF TakeEstablished, TypeOK, RunTypeOK, Channels, ConnectionsMatchHandlers
<1>2. PICK s \in Seq(Conns) : s = channels[t].conns
  BY <1>1
<1>3. /\ channels'[t].conns = Append(s, k)
      /\ \A u \in Topics \ {t} : channels'[u] = channels[u]
      /\ handler'[k] = "streaming" /\ \A j \in Conns \ {k} : handler'[j] = handler[j]
      /\ connCount' = connCount + 1 /\ UNCHANGED stop
  BY <1>1, <1>2 DEF TakeEstablished, TypeOK, RunTypeOK, HandlersTypeOK
<1>4. /\ DOMAIN Append(s, k) = 1 .. Len(s) + 1 /\ DOMAIN s = 1 .. Len(s) /\ Len(s) \in Nat
      /\ Append(s, k)[Len(s) + 1] = k /\ \A i \in 1 .. Len(s) : Append(s, k)[i] = s[i]
  BY SMTT(20), <1>2
<1>5. /\ IsInjective(s) /\ \A i \in DOMAIN s : TopicOf[s[i]] = t
      /\ \A i \in DOMAIN s : s[i] # k
  BY <1>1, <1>2 DEF ConnectionsMatchHandlers, Registered
<1>6. \A j \in Conns : Registered(j)' <=> Registered(j) \/ j = k
  <2>1. Registered(k)'
    BY <1>3, <1>4 DEF Registered
  <2>2. ASSUME NEW j \in Conns, j # k, TopicOf[j] = t PROVE Registered(j)' <=> Registered(j)
    <3>1. Registered(j)' <=> \E i \in DOMAIN Append(s, k) : Append(s, k)[i] = j
      BY <1>3, <2>2 DEF Registered
    <3>2. Registered(j) <=> \E i \in DOMAIN s : s[i] = j
      BY <1>2, <2>2 DEF Registered
    <3> QED
      BY <1>4, <2>2, <3>1, <3>2
  <2>3. ASSUME NEW j \in Conns, TopicOf[j] # t PROVE Registered(j)' <=> Registered(j)
    BY <1>3, <2>3 DEF Registered
  <2> QED
    BY <2>1, <2>2, <2>3
<1>7. \A u \in Topics : (IsInjective(channels[u].conns)
                         /\ \A i \in DOMAIN channels[u].conns : TopicOf[channels[u].conns[i]] = u)'
  <2>1. IsInjective(Append(s, k)) /\ \A i \in DOMAIN Append(s, k) : TopicOf[Append(s, k)[i]] = t
    BY <1>4, <1>5 DEF IsInjective
  <2>2. ASSUME NEW u \in Topics \ {t}
        PROVE  (IsInjective(channels[u].conns)
                /\ \A i \in DOMAIN channels[u].conns : TopicOf[channels[u].conns[i]] = u)'
    BY <1>3, <2>2 DEF ConnectionsMatchHandlers
  <2> QED
    BY ZenonT(30), <1>3, <2>1, <2>2
<1>8. \A j \in Conns : (/\ handler[j] \in {"streaming", "closing"} => Registered(j)
                        /\ Registered(j) => handler[j] \notin {"idle", "creating"}
                        /\ Registered(j) /\ handler[j] = "done" => stop)'
  BY <1>3, <1>6 DEF ConnectionsMatchHandlers
<1>9. (/\ IsFiniteSet({j \in Conns : Registered(j)})
       /\ connCount = Cardinality({j \in Conns : Registered(j)}))'
  <2>1. {j \in Conns : Registered(j)}' = {j \in Conns : Registered(j)} \cup {k}
    BY <1>6
  <2>2. k \notin {j \in Conns : Registered(j)}
    BY <1>1
  <2>3. IsFiniteSet({j \in Conns : Registered(j)}) /\ connCount = Cardinality({j \in Conns : Registered(j)})
    BY DEF ConnectionsMatchHandlers
  <2>4. \A S : IsFiniteSet(S) /\ k \notin S => /\ IsFiniteSet(S \cup {k})
                                               /\ Cardinality(S \cup {k}) = Cardinality(S) + 1
    BY FS_AddElement
  <2> QED
    BY <1>3, <2>1, <2>2, <2>3, <2>4
<1> QED
  BY <1>7, <1>8, <1>9 DEF ConnectionsMatchHandlers

(* A connection leaves its channel. *)
LEMMA MatchClosed ==
  ASSUME TypeOK, ConnectionsMatchHandlers, NEW k \in Conns, TakeClosed(k)
  PROVE  ConnectionsMatchHandlers'
<1> USE StreamAssumption
<1> DEFINE t == TopicOf[k]
<1>1. /\ t \in Topics /\ channels[t] \in Channels /\ channels[t].conns \in Seq(Conns)
      /\ handler[k] = "closing" /\ Registered(k)
  BY DEF TakeClosed, TypeOK, RunTypeOK, Channels, ConnectionsMatchHandlers
<1>2. PICK s \in Seq(Conns) : s = channels[t].conns
  BY <1>1
<1>3. PICK r : r = RemoveConnection(s, k)
  OBVIOUS
<1>4. /\ channels'[t].conns = r
      /\ \A u \in Topics \ {t} : channels'[u] = channels[u]
      /\ handler'[k] = "done" /\ \A j \in Conns \ {k} : handler'[j] = handler[j]
      /\ connCount' = connCount - 1 /\ UNCHANGED stop
  <2>1. channels' = [channels EXCEPT ![t] = IF r = <<>> THEN NoChannel ELSE [channels[t] EXCEPT !.conns = r]]
    BY <1>2, <1>3 DEF TakeClosed
  <2>2. channels'[t] = IF r = <<>> THEN NoChannel ELSE [channels[t] EXCEPT !.conns = r]
    BY <1>1, <2>1 DEF TypeOK, RunTypeOK
  <2>3. channels'[t].conns = r
    BY <1>1, <2>2 DEF NoChannel, Channels
  <2> QED
    BY <1>1, <2>1, <2>3 DEF TakeClosed, TypeOK, RunTypeOK, HandlersTypeOK
<1>5. IsInjective(s) /\ \A i \in DOMAIN s : TopicOf[s[i]] = t
  BY <1>1, <1>2 DEF ConnectionsMatchHandlers
<1>6. /\ r \in Seq(Conns) /\ IsInjective(r)
      /\ \A j \in Conns : (\E i \in DOMAIN r : r[i] = j) <=> j # k /\ \E i \in DOMAIN s : s[i] = j
  <2>1. /\ RemoveConnection(s, k) \in Seq(Conns) /\ IsInjective(RemoveConnection(s, k))
        /\ \A j \in Conns : (\E i \in DOMAIN RemoveConnection(s, k) : RemoveConnection(s, k)[i] = j)
                             <=> j # k /\ \E i \in DOMAIN s : s[i] = j
    BY <1>5, Removed, Zenon
  <2> QED
    BY <1>3, <2>1, Zenon
<1>7. \A j \in Conns : Registered(j)' <=> Registered(j) /\ j # k
  <2>1. ASSUME NEW j \in Conns, TopicOf[j] = t PROVE Registered(j)' <=> Registered(j) /\ j # k
    <3>1. Registered(j)' <=> \E i \in DOMAIN r : r[i] = j
      BY <1>4, <2>1 DEF Registered
    <3>2. Registered(j) <=> \E i \in DOMAIN s : s[i] = j
      BY <1>2, <2>1 DEF Registered
    <3> QED
      BY <1>6, <3>1, <3>2
  <2>2. ASSUME NEW j \in Conns, TopicOf[j] # t PROVE Registered(j)' <=> Registered(j) /\ j # k
    BY <1>4, <2>2 DEF Registered
  <2> QED
    BY <2>1, <2>2
<1>8. \A u \in Topics : (IsInjective(channels[u].conns)
                         /\ \A i \in DOMAIN channels[u].conns : TopicOf[channels[u].conns[i]] = u)'
  <2>1. \A i \in DOMAIN r : TopicOf[r[i]] = t
    <3> SUFFICES ASSUME NEW i \in DOMAIN r PROVE TopicOf[r[i]] = t
      OBVIOUS
    <3>1. r[i] \in Conns
      BY <1>6
    <3>2. PICK n \in DOMAIN s : s[n] = r[i]
      BY <1>6, <3>1
    <3> QED
      BY <1>5, <3>2
  <2>2. ASSUME NEW u \in Topics \ {t}
        PROVE  (IsInjective(channels[u].conns)
                /\ \A i \in DOMAIN channels[u].conns : TopicOf[channels[u].conns[i]] = u)'
    BY <1>4, <2>2 DEF ConnectionsMatchHandlers
  <2> QED
    BY <1>4, <1>6, <2>1, <2>2
<1>9. \A j \in Conns : (/\ handler[j] \in {"streaming", "closing"} => Registered(j)
                        /\ Registered(j) => handler[j] \notin {"idle", "creating"}
                        /\ Registered(j) /\ handler[j] = "done" => stop)'
  BY <1>4, <1>7 DEF ConnectionsMatchHandlers
<1>10. (/\ IsFiniteSet({j \in Conns : Registered(j)})
        /\ connCount = Cardinality({j \in Conns : Registered(j)}))'
  <2>1. {j \in Conns : Registered(j)}' = {j \in Conns : Registered(j)} \ {k}
    BY <1>7
  <2>2. k \in {j \in Conns : Registered(j)}
    BY <1>1
  <2>3. IsFiniteSet({j \in Conns : Registered(j)}) /\ connCount = Cardinality({j \in Conns : Registered(j)})
    BY DEF ConnectionsMatchHandlers
  <2>4. \A S : IsFiniteSet(S) /\ k \in S => /\ IsFiniteSet(S \ {k})
                                            /\ Cardinality(S \ {k}) = Cardinality(S) - 1
    BY FS_RemoveElement
  <2> QED
    BY <1>4, <2>1, <2>2, <2>3, <2>4
<1> QED
  BY <1>8, <1>9, <1>10 DEF ConnectionsMatchHandlers

LEMMA NotifyConns ==
  ASSUME TypeOK, NEW t \in Topics, NotifyChannel(t)
  PROVE  \A u \in Topics : channels'[u].conns = channels[u].conns
<1>1. UNCHANGED channels \/ channels' = [channels EXCEPT ![t].last = Payload(using, t)]
  BY DEF NotifyChannel
<1> QED
  BY <1>1 DEF TypeOK, RunTypeOK, Channels

(* No other step changes the connections of a channel. *)
LEMMA MatchStep ==
  ASSUME TypeOK, ConnectionsMatchHandlers, Next PROVE ConnectionsMatchHandlers'
<1>1. CASE \E c \in Clients : ClientStep(c)
  <2>1. UNCHANGED <<connCount, stop, channels, handler>>
    BY <1>1 DEF ClientStep, NewClient, FirstFetch, ConfigChange, Signal, WorkerTake, WorkerDeliver,
                CloseClient, WorkerExit, handlerVars
  <2> QED
    BY <2>1, MatchKeeps
<1>2. CASE ServerStep
  <2>1. UNCHANGED <<connCount, channels, handler>> /\ (stop => stop')
    BY <1>2 DEF ServerStep, ResetSwap, ResetPoll, ResetUnsubscribe, ResetSubscribe, CloseStream, handlerVars
  <2> QED
    BY <2>1, MatchKeeps
<1>3. ASSUME NEW k \in Conns, HandlerStep(k) PROVE ConnectionsMatchHandlers'
  <2>1. UNCHANGED <<connCount, channels, stop>>
    BY <1>3 DEF HandlerStep, Connect, HandlerReceive, Disconnect, HandlerGone, HandlerStreamClosed
  <2>2. \/ UNCHANGED handler
        \/ /\ handler[k] = "idle" /\ \E h \in {"done", "creating"} : handler' = [handler EXCEPT ![k] = h]
        \/ /\ handler[k] = "streaming" /\ handler' = [handler EXCEPT ![k] = "closing"]
        \/ /\ handler[k] = "streaming" /\ stop /\ handler' = [handler EXCEPT ![k] = "done"]
    BY <1>3 DEF HandlerStep, Connect, HandlerReceive, Disconnect, HandlerGone, HandlerStreamClosed
  <2>3. \A j \in Conns :
          /\ handler'[j] \in {"streaming", "closing"} => handler[j] \in {"streaming", "closing"}
          /\ handler'[j] \in {"idle", "creating"} => handler[j] \in {"idle", "creating"}
          /\ handler'[j] = "done" /\ handler[j] \in {"streaming", "closing"} => stop'
    BY <2>1, <2>2 DEF TypeOK, HandlersTypeOK
  <2> QED
    BY <2>1, <2>3, MatchKeeps
<1>4. CASE TakeChanged \/ TakeStop \/ SendPayload
  <2>1. UNCHANGED <<connCount, channels, stop, handler>>
    BY <1>4 DEF TakeChanged, TakeStop, SendPayload, handlerVars
  <2> QED
    BY <2>1, MatchKeeps
<1>5. ASSUME NEW t \in Topics, NotifyChannel(t) PROVE ConnectionsMatchHandlers'
  <2>1. UNCHANGED <<connCount, stop, handler>>
    BY <1>5 DEF NotifyChannel, handlerVars
  <2> QED
    BY <1>5, <2>1, NotifyConns, MatchKeeps
<1> QED
  BY <1>1, <1>2, <1>3, <1>4, <1>5, MatchEstablished, MatchClosed DEF Next, RunStep

-----------------------------------------------------------------------------
(* What is sent to the connections *)

Pending(k) == \E i \in DOMAIN sending : sending[i].to = k
Taken(k) == IF receive[k] # <<>> THEN Last(receive[k]) ELSE shown[k]

(* ChannelAgrees without the search in what Notify has yet to send *)
TakenAgrees == \A k \in Conns : Registered(k) /\ ~Pending(k) => Taken(k) = channels[TopicOf[k]].last

LEMMA AgreeIff == TypeOK /\ SendInv => (ChannelAgrees <=> TakenAgrees)
<1> SUFFICES ASSUME TypeOK, SendInv, NEW k \in Conns
             PROVE  /\ Pending(k) => LastSent(k) = channels[TopicOf[k]].last
                    /\ ~Pending(k) => LastSent(k) = Taken(k)
  BY DEF ChannelAgrees, TakenAgrees
<1> DEFINE mine == {i \in DOMAIN sending : sending[i].to = k}
<1>1. ASSUME Pending(k) PROVE LastSent(k) = channels[TopicOf[k]].last
  <2>1. PICK p \in DOMAIN sending : sending[p].to = k
    BY <1>1 DEF Pending
  <2>2. mine = {p}
    BY <2>1 DEF SendInv
  <2>3. PICK q : q = CHOOSE i \in mine : \A j \in mine : j <= i
    OBVIOUS
  <2>4. LastSent(k) = sending[q].payload
    BY <2>2, <2>3 DEF LastSent
  <2>5. q = p
    <3>1. p <= p
      BY <2>1 DEF TypeOK, RunTypeOK
    <3> QED
      BY <2>2, <2>3, <3>1
  <2> QED
    BY <2>1, <2>4, <2>5 DEF SendInv
<1>2. ASSUME ~Pending(k) PROVE LastSent(k) = Taken(k)
  <2>1. mine = {}
    BY <1>2 DEF Pending
  <2> QED
    BY <2>1 DEF LastSent, Taken
<1> QED
  BY <1>1, <1>2

LEMMA AgreeIffNext == (TypeOK /\ SendInv => (ChannelAgrees <=> TakenAgrees))'
BY AgreeIff, PTL

(* A step that leaves what is sent and what is taken alone *)
LEMMA SendKeeps ==
  ASSUME SendInv, TakenAgrees, UNCHANGED <<channels, sending, receive, shown>>,
         \A k \in Conns : handler'[k] \in {"idle", "creating"} => handler[k] \in {"idle", "creating"}
  PROVE  SendInv' /\ TakenAgrees'
<1>1. SendInv'
  BY DEF SendInv, Registered
<1>2. TakenAgrees'
  BY DEF TakenAgrees, Registered, Pending, Taken
<1> QED
  BY <1>1, <1>2

LEMMA SendEstablished ==
  ASSUME TypeOK, ConnectionsMatchHandlers, SendInv, TakenAgrees, NEW k \in Conns, TakeEstablished(k)
  PROVE  SendInv' /\ TakenAgrees'
<1> USE StreamAssumption
<1> DEFINE t == TopicOf[k]
<1>1. /\ t \in Topics /\ channels[t] \in Channels /\ sending = <<>> /\ receive[k] = <<>>
      /\ UNCHANGED <<sending, shown>>
  BY DEF TakeEstablished, TypeOK, RunTypeOK, AtSelect, loopVars, SendInv
<1>2. PICK last : last = IF Exists(t) THEN channels[t].last ELSE Payload(sdkClient, t)
  OBVIOUS
<1>3. /\ channels' = [channels EXCEPT ![t] = [conns |-> Append(channels[t].conns, k), last |-> last]]
      /\ receive' = [receive EXCEPT ![k] = Append(receive[k], last)]
      /\ handler' = [handler EXCEPT ![k] = "streaming"]
  BY <1>2 DEF TakeEstablished
<1>4. /\ channels'[t].conns = Append(channels[t].conns, k) /\ channels'[t].last = last
      /\ \A u \in Topics \ {t} : channels'[u] = channels[u]
  BY <1>1, <1>3 DEF TypeOK, RunTypeOK
<1>5. /\ receive'[k] = Append(<<>>, last) /\ handler'[k] = "streaming"
      /\ \A j \in Conns \ {k} : receive'[j] = receive[j] /\ handler'[j] = handler[j]
  BY <1>1, <1>3 DEF TypeOK, HandlersTypeOK
<1>6. SendInv'
  BY <1>1, <1>5 DEF SendInv
<1>7. TakenAgrees'
  <2>1. Taken(k)' = last
    <3>1. Append(<<>>, last) # <<>> /\ Last(Append(<<>>, last)) = last
      BY DEF Last
    <3> QED
      BY <1>5, <3>1 DEF Taken
  <2>2. ASSUME NEW j \in Conns, j # k, Registered(j)'
        PROVE  Taken(j)' = channels'[TopicOf[j]].last
    <3>1. Taken(j)' = Taken(j) /\ ~Pending(j)
      BY <1>1, <1>5, <2>2 DEF Taken, Pending
    <3>2. CASE TopicOf[j] = t
      <4>1. PICK s \in Seq(Conns) : s = channels[t].conns
        BY <1>1 DEF Channels
      <4>2. PICK i \in DOMAIN Append(s, k) : Append(s, k)[i] = j
        BY <1>4, <2>2, <3>2, <4>1 DEF Registered
      <4>3. i \in DOMAIN s /\ s[i] = j
        BY <2>2, <4>1, <4>2
      <4>4. Registered(j)
        BY <3>2, <4>1, <4>3 DEF Registered
      <4>5. Exists(t)
        BY <4>1, <4>3 DEF Exists
      <4> QED
        BY <1>2, <1>4, <3>1, <3>2, <4>4, <4>5 DEF TakenAgrees
    <3>3. CASE TopicOf[j] # t
      <4>1. TopicOf[j] \in Topics \ {t}
        BY <3>3
      <4>2. Registered(j)
        BY <1>4, <2>2, <4>1 DEF Registered
      <4> QED
        BY <1>4, <3>1, <4>1, <4>2 DEF TakenAgrees
    <3> QED
      BY <3>2, <3>3
  <2> QED
    BY <1>4, <2>1, <2>2 DEF TakenAgrees
<1> QED
  BY <1>6, <1>7

LEMMA SendClosed ==
  ASSUME TypeOK, ConnectionsMatchHandlers, SendInv, TakenAgrees, NEW k \in Conns, TakeClosed(k)
  PROVE  SendInv' /\ TakenAgrees'
<1> USE StreamAssumption
<1> DEFINE t == TopicOf[k]
<1>1. /\ t \in Topics /\ channels[t] \in Channels /\ channels[t].conns \in Seq(Conns)
      /\ IsInjective(channels[t].conns)
      /\ sending = <<>> /\ UNCHANGED <<sending, shown, receive>>
      /\ handler' = [handler EXCEPT ![k] = "done"]
  BY DEF TakeClosed, TypeOK, RunTypeOK, Channels, AtSelect, loopVars, ConnectionsMatchHandlers
<1>2. PICK s \in Seq(Conns) : s = channels[t].conns /\ IsInjective(s)
  BY <1>1
<1>i. IsInjective(s)
  BY <1>2
<1>3. PICK r : r = RemoveConnection(s, k)
  OBVIOUS
<1>4. channels' = [channels EXCEPT ![t] = IF r = <<>> THEN NoChannel ELSE [channels[t] EXCEPT !.conns = r]]
  BY <1>2, <1>3 DEF TakeClosed
<1>5. /\ channels'[t].conns = r /\ (r # <<>> => channels'[t].last = channels[t].last)
      /\ \A u \in Topics \ {t} : channels'[u] = channels[u]
  <2>1. channels'[t] = IF r = <<>> THEN NoChannel ELSE [channels[t] EXCEPT !.conns = r]
    BY <1>1, <1>4 DEF TypeOK, RunTypeOK
  <2>2. channels'[t].conns = r /\ (r # <<>> => channels'[t].last = channels[t].last)
    BY <1>1, <2>1 DEF NoChannel, Channels
  <2> QED
    BY <1>1, <1>4, <2>2 DEF TypeOK, RunTypeOK
<1>6. \A j \in Conns : (\E i \in DOMAIN r : r[i] = j) => \E i \in DOMAIN s : s[i] = j
  <2>1. /\ RemoveConnection(s, k) \in Seq(Conns) /\ IsInjective(RemoveConnection(s, k))
        /\ \A j \in Conns : (\E i \in DOMAIN RemoveConnection(s, k) : RemoveConnection(s, k)[i] = j)
                             <=> j # k /\ \E i \in DOMAIN s : s[i] = j
    BY <1>i, Removed, Zenon
  <2> QED
    BY <1>3, <2>1, Zenon
<1>7. SendInv'
  BY <1>1 DEF SendInv, TypeOK, HandlersTypeOK
<1>8. TakenAgrees'
  <2> SUFFICES ASSUME NEW j \in Conns, Registered(j)'
               PROVE  Taken(j)' = channels'[TopicOf[j]].last
    BY DEF TakenAgrees
  <2>1. Taken(j)' = Taken(j) /\ ~Pending(j)
    BY <1>1 DEF Taken, Pending
  <2>2. CASE TopicOf[j] = t
    <3>1. PICK i \in DOMAIN r : r[i] = j
      BY <1>5, <2>2 DEF Registered
    <3>2. Registered(j)
      BY <1>2, <1>6, <2>2, <3>1 DEF Registered
    <3>3. r # <<>>
      BY <3>1
    <3> QED
      BY <1>5, <2>1, <2>2, <3>2, <3>3 DEF TakenAgrees
  <2>3. CASE TopicOf[j] # t
    <3>1. channels'[TopicOf[j]] = channels[TopicOf[j]]
      BY <1>5, <2>3
    <3>2. Registered(j)
      BY <3>1 DEF Registered
    <3> QED
      BY <2>1, <3>1, <3>2 DEF TakenAgrees
  <2> QED
    BY <2>2, <2>3
<1> QED
  BY <1>7, <1>8

LEMMA SendNotify ==
  ASSUME TypeOK, ConnectionsMatchHandlers, SendInv, TakenAgrees, NEW t \in Topics, NotifyChannel(t)
  PROVE  SendInv' /\ TakenAgrees'
<1> USE StreamAssumption
<1>1. sending = <<>> /\ UNCHANGED <<handler, receive, shown>>
  BY DEF NotifyChannel, handlerVars
<1>2. CASE ~Notifies(using, t)
  BY <1>1, <1>2, SendKeeps DEF NotifyChannel
<1>3. CASE Notifies(using, t)
  <2>1. PICK s \in Seq(Conns) : s = channels[t].conns
    BY DEF TypeOK, RunTypeOK, Channels
  <2>2. PICK p : p = Payload(using, t)
    OBVIOUS
  <2>3. /\ channels' = [channels EXCEPT ![t].last = p]
        /\ sending' = [i \in DOMAIN s |-> [to |-> s[i], payload |-> p]]
    BY <1>3, <2>1, <2>2 DEF NotifyChannel
  <2>4. /\ channels'[t].conns = s /\ channels'[t].last = p
        /\ \A u \in Topics \ {t} : channels'[u] = channels[u]
    BY <2>1, <2>3 DEF TypeOK, RunTypeOK, Channels
  <2>5. /\ IsInjective(s)
        /\ \A i \in DOMAIN s : s[i] \in Conns /\ TopicOf[s[i]] = t
    BY <2>1 DEF ConnectionsMatchHandlers
  <2>6. /\ DOMAIN sending' = DOMAIN s
        /\ \A i \in DOMAIN s : sending'[i].to = s[i] /\ sending'[i].payload = p
    BY <2>3
  <2>7. \A j \in Conns : TopicOf[j] = t => (Registered(j)' <=> \E i \in DOMAIN s : s[i] = j)
    BY <2>4 DEF Registered
  <2>8. SendInv'
    <3>1. ASSUME NEW i \in DOMAIN s
          PROVE  /\ sending'[i].payload = channels'[TopicOf[sending'[i].to]].last
                 /\ \A j \in DOMAIN s : sending'[j].to = sending'[i].to => i = j
      BY <2>4, <2>5, <2>6 DEF IsInjective
    <3>2. \A i \in DOMAIN sending' : Registered(sending[i].to)'
      <4> SUFFICES ASSUME NEW i \in DOMAIN s
                   PROVE  \E n \in DOMAIN channels'[TopicOf[sending'[i].to]].conns :
                            channels'[TopicOf[sending'[i].to]].conns[n] = sending'[i].to
        BY <2>6 DEF Registered
      <4>1. sending'[i].to = s[i] /\ TopicOf[s[i]] = t
        BY <2>5, <2>6
      <4>2. channels'[TopicOf[sending'[i].to]].conns = s
        BY <2>4, <4>1
      <4> QED
        BY <4>1, <4>2
    <3>3. \A j \in Conns : handler'[j] \in {"idle", "creating"} => receive'[j] = <<>>
      BY <1>1 DEF SendInv
    <3> QED
      BY <2>6, <3>1, <3>2, <3>3 DEF SendInv
  <2>9. TakenAgrees'
    <3> SUFFICES ASSUME NEW j \in Conns, Registered(j)', ~Pending(j)'
                 PROVE  Taken(j)' = channels'[TopicOf[j]].last
      BY DEF TakenAgrees
    <3>1. TopicOf[j] # t
      BY <2>6, <2>7 DEF Pending
    <3>2. channels'[TopicOf[j]] = channels[TopicOf[j]]
      BY <2>4, <3>1
    <3>3. Registered(j) /\ ~Pending(j) /\ Taken(j)' = Taken(j)
      BY <1>1, <3>2 DEF Registered, Pending, Taken
    <3> QED
      BY <3>2, <3>3 DEF TakenAgrees
  <2> QED
    BY <2>8, <2>9
<1> QED
  BY <1>2, <1>3

LEMMA SendOne ==
  ASSUME TypeOK, ConnectionsMatchHandlers, SendInv, TakenAgrees, SendPayload
  PROVE  SendInv' /\ TakenAgrees'
<1> USE StreamAssumption
<1>1. PICK s \in Seq(Messages) : s = sending
  BY DEF TypeOK, RunTypeOK
<1>2. /\ s # <<>> /\ sending' = Tail(s) /\ UNCHANGED <<channels, handler, shown>>
      /\ receive' = [receive EXCEPT ![Head(s).to] = Append(receive[Head(s).to], Head(s).payload)]
  BY <1>1 DEF SendPayload
<1>m. Head(s) \in Messages
  BY <1>1, <1>2
<1>3. PICK k \in Conns : k = Head(s).to
  BY <1>m DEF Messages
<1>4. PICK p \in Payloads : p = Head(s).payload
  BY <1>m DEF Messages
<1>5. /\ receive'[k] = Append(receive[k], p)
      /\ \A j \in Conns \ {k} : receive'[j] = receive[j]
  BY <1>2, <1>3, <1>4 DEF TypeOK, HandlersTypeOK
<1>6. /\ 1 \in DOMAIN s /\ s[1].to = k /\ s[1].payload = p
      /\ \A i \in DOMAIN Tail(s) : i + 1 \in DOMAIN s /\ Tail(s)[i] = s[i + 1]
      /\ \A i \in DOMAIN s : i # 1 => i - 1 \in DOMAIN Tail(s) /\ Tail(s)[i - 1] = s[i]
  BY <1>1, <1>2, <1>3, <1>4
<1>7. Registered(k) /\ p = channels[TopicOf[k]].last /\ handler[k] \notin {"idle", "creating"}
  BY <1>1, <1>6 DEF SendInv, ConnectionsMatchHandlers
<1>8. SendInv'
  <2>1. ASSUME NEW i \in DOMAIN Tail(s)
        PROVE  /\ Tail(s)[i].payload = channels'[TopicOf[Tail(s)[i].to]].last
               /\ \A j \in DOMAIN Tail(s) : Tail(s)[j].to = Tail(s)[i].to => i = j
    BY <1>1, <1>2, <1>6 DEF SendInv
  <2>2. ASSUME NEW i \in DOMAIN Tail(s) PROVE Registered(Tail(s)[i].to)
    BY <1>1, <1>6 DEF SendInv
  <2>3. \A i \in DOMAIN sending' : Registered(sending[i].to)'
    BY <1>2, <2>2 DEF Registered
  <2>4. \A j \in Conns : handler'[j] \in {"idle", "creating"} => receive'[j] = <<>>
    BY <1>2, <1>5, <1>7 DEF SendInv
  <2> QED
    BY <1>2, <2>1, <2>3, <2>4 DEF SendInv
<1>9. TakenAgrees'
  <2>1. Taken(k)' = p
    <3>1. receive[k] \in Seq(Payloads)
      BY DEF TypeOK, HandlersTypeOK
    <3>2. Append(receive[k], p) # <<>> /\ Last(Append(receive[k], p)) = p
      BY <3>1 DEF Last
    <3> QED
      BY <1>5, <3>2 DEF Taken
  <2>2. ASSUME NEW j \in Conns, j # k, Registered(j)', ~Pending(j)'
        PROVE  Taken(j)' = channels'[TopicOf[j]].last
    <3>1. Registered(j)
      BY <1>2, <2>2 DEF Registered
    <3>2. ~Pending(j)
      <4> SUFFICES ASSUME NEW i \in DOMAIN s, s[i].to = j PROVE FALSE
        BY <1>1 DEF Pending
      <4>1. i # 1
        BY <1>6, <2>2
      <4>2. i - 1 \in DOMAIN sending' /\ sending'[i - 1].to = j
        BY <1>2, <1>6, <4>1
      <4> QED
        BY <2>2, <4>2 DEF Pending
    <3>3. Taken(j)' = Taken(j)
      BY <1>2, <1>5, <2>2 DEF Taken
    <3> QED
      BY <1>2, <3>1, <3>2, <3>3 DEF TakenAgrees
  <2> QED
    BY <1>2, <1>7, <2>1, <2>2 DEF TakenAgrees
<1> QED
  BY <1>8, <1>9

LEMMA SendReceive ==
  ASSUME TypeOK, SendInv, TakenAgrees, NEW k \in Conns, HandlerReceive(k)
  PROVE  SendInv' /\ TakenAgrees'
<1>1. PICK s \in Seq(Payloads) : s = receive[k]
  BY DEF TypeOK, HandlersTypeOK
<1>2. /\ UNCHANGED <<channels, sending, handler>> /\ handler[k] = "streaming" /\ s # <<>>
      /\ shown'[k] = Head(s) /\ receive'[k] = Tail(s)
      /\ \A j \in Conns \ {k} : shown'[j] = shown[j] /\ receive'[j] = receive[j]
  BY <1>1 DEF HandlerReceive, TypeOK, HandlersTypeOK, loopVars
<1>3. SendInv'
  <2>1. \A i \in DOMAIN sending' : Registered(sending[i].to)'
    BY <1>2 DEF SendInv, Registered
  <2> QED
    BY <1>2, <2>1 DEF SendInv
<1>4. Taken(k)' = Taken(k)
  <2>1. Taken(k) = Last(s)
    BY <1>1, <1>2 DEF Taken
  <2>2. Taken(k)' = IF Tail(s) # <<>> THEN Last(Tail(s)) ELSE Head(s)
    BY <1>2 DEF Taken
  <2>3. CASE Len(s) = 1
    BY <1>2, <2>1, <2>2, <2>3 DEF Last
  <2>4. CASE Len(s) > 1
    <3>1. Tail(s) # <<>> /\ Len(Tail(s)) = Len(s) - 1 /\ Tail(s)[Len(s) - 1] = s[Len(s)]
      BY <1>2, <2>4
    <3> QED
      BY <2>1, <2>2, <3>1 DEF Last
  <2>5. Len(s) = 1 \/ Len(s) > 1
    <3>1. PICK n \in Nat : n = Len(s) /\ n >= 1
      BY <1>2
    <3>2. n = 1 \/ n > 1
      BY <3>1
    <3> QED
      BY <3>1, <3>2
  <2> QED
    BY <2>3, <2>4, <2>5
<1>5. \A j \in Conns : Taken(j)' = Taken(j) /\ (Registered(j)' <=> Registered(j)) /\ (Pending(j)' <=> Pending(j))
  BY <1>2, <1>4 DEF Taken, Registered, Pending
<1>6. TakenAgrees'
  BY <1>2, <1>5 DEF TakenAgrees
<1> QED
  BY <1>3, <1>6

LEMMA SendStep ==
  ASSUME TypeOK, TypeOK', ConnectionsMatchHandlers, SendInv, ChannelAgrees, Next
  PROVE  SendInv' /\ ChannelAgrees'
<1>1. TakenAgrees
  BY AgreeIff
<1>2. SUFFICES SendInv' /\ TakenAgrees'
  BY AgreeIffNext
<1>3. CASE \E c \in Clients : ClientStep(c)
  <2>1. UNCHANGED <<channels, sending, receive, shown, handler>>
    BY <1>3 DEF ClientStep, NewClient, FirstFetch, ConfigChange, Signal, WorkerTake, WorkerDeliver,
                CloseClient, WorkerExit, handlerVars, loopVars
  <2> QED
    BY <1>1, <2>1, SendKeeps
<1>4. CASE ServerStep \/ TakeChanged \/ TakeStop
  <2>1. UNCHANGED <<channels, sending, receive, shown, handler>>
    BY <1>4 DEF ServerStep, ResetSwap, ResetPoll, ResetUnsubscribe, ResetSubscribe, CloseStream,
                TakeChanged, TakeStop, handlerVars, loopVars
  <2> QED
    BY <1>1, <2>1, SendKeeps
<1>5. ASSUME NEW k \in Conns, HandlerStep(k), ~HandlerReceive(k) PROVE SendInv' /\ TakenAgrees'
  <2>1. /\ UNCHANGED <<channels, sending, receive, shown>>
        /\ \/ UNCHANGED handler
           \/ handler[k] = "idle" /\ \E h \in {"done", "creating"} : handler' = [handler EXCEPT ![k] = h]
           \/ \E h \in {"done", "closing"} : handler' = [handler EXCEPT ![k] = h]
    BY <1>5 DEF HandlerStep, Connect, Disconnect, HandlerGone, HandlerStreamClosed, loopVars
  <2>2. \A j \in Conns : handler'[j] \in {"idle", "creating"} => handler[j] \in {"idle", "creating"}
    BY <2>1 DEF TypeOK, HandlersTypeOK
  <2> QED
    BY <1>1, <2>1, <2>2, SendKeeps
<1> QED
  BY <1>1, <1>3, <1>4, <1>5, SendEstablished, SendClosed, SendNotify, SendOne, SendReceive
     DEF Next, RunStep

-----------------------------------------------------------------------------
(* No update is lost *)

(* Without a handler there is no channel. *)
LEMMA IdleNoChannel ==
  ASSUME TypeOK, ConnectionsMatchHandlers, \A k \in Conns : handler[k] = "idle", NEW t \in Topics
  PROVE  ~Exists(t)
<1> SUFFICES ASSUME Exists(t) PROVE FALSE
  OBVIOUS
<1>1. PICK s \in Seq(Conns) : s = channels[t].conns
  BY DEF TypeOK, RunTypeOK, Channels
<1>2. 1 \in DOMAIN s /\ s[1] \in Conns
  BY <1>1 DEF Exists
<1>3. TopicOf[s[1]] = t /\ Registered(s[1])
  BY <1>1, <1>2 DEF ConnectionsMatchHandlers, Registered
<1> QED
  BY <1>2, <1>3 DEF ConnectionsMatchHandlers

(* A step that leaves the stream's client and what run does alone *)
LEMMA SyncKeeps ==
  ASSUME SyncInv, UNCHANGED <<sdkClient, channels, todo, using>>,
         synced' /\ ~stop' => synced /\ ~stop,
         changed = 1 => changed' = 1,
         cfg[sdkClient] = NoConfig => \A k \in Conns : handler[k] = "idle" => handler'[k] = "idle",
         phase'[sdkClient] = phase[sdkClient], cfg'[sdkClient] = cfg[sdkClient],
         signals'[sdkClient] = signals[sdkClient], initialized'[sdkClient] = initialized[sdkClient],
         pubq'[sdkClient] = pubq[sdkClient], worker'[sdkClient] = worker[sdkClient]
  PROVE  SyncInv'
<1> SUFFICES ASSUME Followed PROVE Followed'
  BY DEF SyncInv
<1>1. \A t \in Topics : /\ Exists(t)' <=> Exists(t)
                        /\ Current(t) => Current(t)'
                        /\ Coming(t) => Coming(t)'
  <2>1. \A t \in Topics : (Exists(t)' <=> Exists(t)) /\ Payload(sdkClient, t)' = Payload(sdkClient, t)
    BY DEF Exists, Payload
  <2>2. \A t \in Topics : Current(t) => Current(t)'
    BY <2>1 DEF Current
  <2>3. \A t \in Topics : Coming(t) => Coming(t)'
    BY DEF Coming
  <2> QED
    BY <2>1, <2>2, <2>3
<1> QED
  BY <1>1 DEF Followed

LEMMA SyncClient ==
  ASSUME TypeOK, ClientInv, ConnectionsMatchHandlers, ResetInv, SyncInv, NEW c \in Clients, ClientStep(c)
  PROVE  SyncInv'
<1>1. UNCHANGED <<sdkClient, channels, todo, using, stop, handler, reset>>
  BY DEF ClientStep, NewClient, FirstFetch, ConfigChange, Signal, WorkerTake, WorkerDeliver,
         CloseClient, WorkerExit, handlerVars, loopVars
<1>2. changed = 1 => changed' = 1
  BY DEF ClientStep, NewClient, FirstFetch, ConfigChange, Signal, WorkerTake, WorkerDeliver,
         CloseClient, WorkerExit
<1>3. ClientsTypeOK /\ sdkClient \in Clients
  BY DEF TypeOK, RunTypeOK
<1>4. CASE c # sdkClient
  <2>1. synced' => synced
    BY <1>4 DEF ClientStep, NewClient, FirstFetch, ConfigChange, Signal, WorkerTake, WorkerDeliver,
           CloseClient, WorkerExit
  <2>2. /\ phase'[sdkClient] = phase[sdkClient] /\ cfg'[sdkClient] = cfg[sdkClient]
        /\ signals'[sdkClient] = signals[sdkClient]
        /\ initialized'[sdkClient] = initialized[sdkClient]
        /\ pubq'[sdkClient] = pubq[sdkClient] /\ worker'[sdkClient] = worker[sdkClient]
    <3>1. CASE NewClient(c) \/ CloseClient(c) \/ WorkerTake(c) \/ WorkerDeliver(c) \/ WorkerExit(c)
      BY <1>3, <1>4, <3>1 DEF NewClient, CloseClient, WorkerTake, WorkerDeliver, WorkerExit, ClientsTypeOK
    <3>2. CASE FirstFetch(c) \/ ConfigChange(c)
      BY <1>3, <1>4, <3>2 DEF FirstFetch, ConfigChange, ClientsTypeOK
    <3>3. CASE Signal(c)
      BY <1>3, <1>4, <3>3 DEF Signal, ClientsTypeOK
    <3> QED
      BY <3>1, <3>2, <3>3 DEF ClientStep
  <2> QED
    BY <1>1, <1>2, <2>1, <2>2, SyncKeeps
<1>5. CASE c = sdkClient
  <2> SUFFICES ASSUME synced', ~stop
               PROVE  (/\ cfg[c] = NoConfig => \A k \in Conns : handler[k] = "idle"
                       /\ todo # {} => using = c \/ changed = 1
                       /\ phase[c] = "live" => \A t \in Topics : Exists(t) => Current(t) \/ Coming(t))'
    BY <1>1, <1>5 DEF SyncInv, Followed
  <2>0. /\ signals[c] \in Nat /\ pubq[c] \in Nat /\ initialized[c] \in BOOLEAN
        /\ \A t \in Topics : Exists(t)' <=> Exists(t)
    BY <1>1, <1>3, Constants DEF ClientsTypeOK, Exists
  <2>d. CASE WorkerDeliver(c)
    <3>1. changed' = 1 /\ worker[c] = "deliver" /\ UNCHANGED <<phase, cfg>>
      BY <2>d DEF WorkerDeliver
    <3>2. cfg[c] # NoConfig
      BY <1>3, <3>1 DEF ClientInv, ClientOk
    <3> QED
      BY <3>1, <3>2 DEF Coming
  <2>s. SUFFICES ASSUME ~WorkerDeliver(c)
                 PROVE  (/\ cfg[c] = NoConfig => \A k \in Conns : handler[k] = "idle"
                         /\ todo # {} => using = c \/ changed = 1
                         /\ phase[c] = "live" => \A t \in Topics : Exists(t) => Current(t) \/ Coming(t))'
    BY <2>d
  <2>1. synced /\ changed' = changed
    BY <2>s DEF ClientStep, NewClient, FirstFetch, ConfigChange, Signal, WorkerTake,
                CloseClient, WorkerExit
  <2>2. /\ cfg[c] = NoConfig => \A k \in Conns : handler[k] = "idle"
        /\ todo # {} => using = c \/ changed = 1
        /\ phase[c] = "live" => \A t \in Topics : Exists(t) => Current(t) \/ Coming(t)
    BY <1>5, <2>1 DEF SyncInv, Followed
  <2>3. (todo # {} => using = c \/ changed = 1)'
    BY <1>1, <2>1, <2>2
  <2>4. CASE NewClient(c) \/ CloseClient(c) \/ WorkerExit(c)
    BY <1>1, <1>3, <2>2, <2>3, <2>4 DEF NewClient, CloseClient, WorkerExit, ClientsTypeOK
  <2>5. CASE FirstFetch(c)
    <3>1. \A k \in Conns : handler[k] = "idle"
      BY <2>2, <2>5 DEF FirstFetch, ClientInv, ClientOk
    <3>2. \A t \in Topics : ~Exists(t)
      BY <3>1, IdleNoChannel
    <3> QED
      BY <1>1, <2>0, <2>3, <3>1, <3>2
  <2>6. CASE ConfigChange(c)
    <3>1. PICK j \in Configs \ {NoConfig} : cfg' = [cfg EXCEPT ![c] = j]
      BY <2>6 DEF ConfigChange
    <3>2. /\ cfg'[c] # NoConfig /\ signals'[c] = signals[c] + 1 /\ initialized' = initialized
      BY <1>3, <2>6, <3>1 DEF ConfigChange, ClientsTypeOK
    <3>3. CASE cfg[c] = NoConfig
      <4>1. \A t \in Topics : ~Exists(t)
        BY <2>2, <3>3, IdleNoChannel
      <4> QED
        BY <2>0, <2>3, <3>2, <4>1
    <3>4. CASE cfg[c] # NoConfig
      <4>1. signals'[c] > IF initialized'[c] THEN 0 ELSE 1
        BY <2>0, <3>2, <3>4 DEF ClientInv, ClientOk
      <4>2. \A t \in Topics : Coming(t)'
        BY <1>1, <1>5, <4>1 DEF Coming
      <4> QED
        BY <2>3, <3>2, <4>2
    <3> QED
      BY <3>3, <3>4
  <2>7. CASE Signal(c)
    <3>1. /\ signals[c] > 0 /\ signals'[c] = signals[c] - 1 /\ initialized'[c] = TRUE
          /\ UNCHANGED <<phase, cfg, worker>>
          /\ initialized[c] /\ phase[c] # "closed" => pubq'[c] = pubq[c] + 1
          /\ ~(initialized[c] /\ phase[c] # "closed") => pubq' = pubq
      BY <1>3, <2>7 DEF Signal, ClientsTypeOK
    <3>2. cfg'[c] # NoConfig
      BY <1>3, <2>0, <3>1 DEF ClientInv, ClientOk
    <3>3. ASSUME phase[c] = "live", NEW t \in Topics, Coming(t) PROVE Coming(t)'
      <4>1. CASE initialized[c]
        <5>1. pubq'[c] > 0
          BY <2>0, <3>1, <3>3, <4>1
        <5> QED
          BY <1>1, <1>5, <5>1 DEF Coming
      <4>2. CASE ~initialized[c]
        BY <1>1, <1>5, <2>0, <2>1, <3>1, <3>3, <4>2 DEF Coming
      <4> QED
        BY <4>1, <4>2
    <3>4. \A t \in Topics : Current(t) => Current(t)'
      BY <1>1, <3>1 DEF Current, Payload
    <3> QED
      BY <2>0, <2>2, <2>3, <3>1, <3>2, <3>3, <3>4
  <2>8. CASE WorkerTake(c)
    <3>1. UNCHANGED <<phase, cfg>> /\ worker'[c] = IF subs[c] THEN "deliver" ELSE "select"
      BY <1>3, <2>8 DEF WorkerTake, ClientsTypeOK
    <3>2. phase[c] = "live" => subs[c]
      BY <1>5, <2>1 DEF ResetInv
    <3>3. phase[c] = "live" => \A t \in Topics : Coming(t)'
      BY <1>1, <1>5, <3>1, <3>2 DEF Coming
    <3> QED
      BY <1>1, <2>2, <2>3, <3>1, <3>3
  <2> QED
    BY <2>4, <2>5, <2>6, <2>7, <2>8, <2>s DEF ClientStep
<1> QED
  BY <1>4, <1>5

LEMMA SyncHandler ==
  ASSUME TypeOK, SyncInv, NEW k \in Conns, HandlerStep(k) PROVE SyncInv'
<1>1. UNCHANGED <<clientVars, sdkClient, channels, todo, using, stop, synced, changed>>
  BY DEF HandlerStep, Connect, HandlerReceive, Disconnect, HandlerGone, HandlerStreamClosed, loopVars
<1>2. UNCHANGED <<phase, cfg, signals, initialized, pubq, worker>>
  BY <1>1 DEF clientVars
<1>3. cfg[sdkClient] = NoConfig => \A j \in Conns : handler[j] = "idle" => handler'[j] = "idle"
  <2>1. \/ UNCHANGED handler
        \/ cfg[sdkClient] # NoConfig
        \/ handler[k] # "idle" /\ \E h \in {"done", "closing"} : handler' = [handler EXCEPT ![k] = h]
    BY DEF HandlerStep, Connect, HandlerReceive, Disconnect, HandlerGone, HandlerStreamClosed
  <2> QED
    BY <2>1 DEF TypeOK, HandlersTypeOK
<1> QED
  BY <1>1, <1>2, <1>3, SyncKeeps

LEMMA SyncServer ==
  ASSUME TypeOK, ResetInv, SyncInv, ServerStep PROVE SyncInv'
<1>1. CASE (\E c \in Clients : ResetSwap(c)) \/ CloseStream
  BY <1>1 DEF ResetSwap, CloseStream, SyncInv
<1>2. CASE ResetPoll \/ ResetUnsubscribe \/ ResetSubscribe
  <2>1. reset.step # "idle" /\ UNCHANGED <<synced, stop>>
    BY <1>2 DEF ResetPoll, ResetUnsubscribe, ResetSubscribe
  <2> QED
    BY <2>1 DEF ResetInv, SyncInv
<1> QED
  BY <1>1, <1>2 DEF ServerStep

LEMMA SyncRun ==
  ASSUME TypeOK, ConnectionsMatchHandlers, SyncInv, RunStep PROVE SyncInv'
<1> USE StreamAssumption
<1>1. UNCHANGED <<phase, cfg, signals, initialized, pubq, worker, sdkClient, synced, stop>>
  BY DEF RunStep, TakeEstablished, TakeClosed, TakeChanged, TakeStop, NotifyChannel, SendPayload, clientVars
<1> SUFFICES ASSUME synced, ~stop, Followed PROVE Followed'
  BY <1>1 DEF SyncInv
<1>2. \A t \in Topics : Payload(sdkClient, t)' = Payload(sdkClient, t)
  BY <1>1 DEF Payload
<1>3. ASSUME NEW t \in Topics, Current(t), channels'[t].last = channels[t].last PROVE Current(t)'
  BY <1>1, <1>2, <1>3 DEF Current
<1>4. ASSUME NEW k \in Conns, TakeEstablished(k) \/ TakeClosed(k) PROVE Followed'
  <2> DEFINE t == TopicOf[k]
  <2>1. t \in Topics /\ channels[t] \in Channels /\ channels[t].conns \in Seq(Conns)
    BY DEF TypeOK, RunTypeOK, Channels
  <2>2. UNCHANGED <<changed, todo, using>> /\ handler[k] # "idle"
    BY <1>4 DEF TakeEstablished, TakeClosed, loopVars
  <2>3. (cfg[sdkClient] = NoConfig => \A j \in Conns : handler[j] = "idle")'
    BY <1>1, <2>2 DEF Followed
  <2>4. \A u \in Topics : Coming(u) => Coming(u)'
    BY <1>1, <2>2 DEF Coming
  <2>5. \A u \in Topics \ {t} : channels'[u] = channels[u]
    BY <1>4 DEF TakeEstablished, TakeClosed, TypeOK, RunTypeOK
  <2>6. \A u \in Topics \ {t} : (Exists(u)' <=> Exists(u)) /\ (Current(u) => Current(u)')
    BY <1>3, <2>5 DEF Exists
  <2>7. CASE TakeEstablished(k)
    <3>1. PICK last : last = IF Exists(t) THEN channels[t].last ELSE Payload(sdkClient, t)
      OBVIOUS
    <3>2. channels'[t].last = last
      <4>1. channels' = [channels EXCEPT ![t] = [conns |-> Append(channels[t].conns, k), last |-> last]]
        BY <2>7, <3>1 DEF TakeEstablished
      <4> QED
        BY <2>1, <4>1 DEF TypeOK, RunTypeOK
    <3>3. Exists(t) => (Current(t) => Current(t)')
      BY <1>3, <2>1, <3>1, <3>2
    <3>4. ~Exists(t) => Current(t)'
      BY <1>1, <1>2, <2>1, <3>1, <3>2 DEF Current
    <3> QED
      BY <1>1, <2>2, <2>3, <2>4, <2>6, <3>3, <3>4 DEF Followed
  <2>8. CASE TakeClosed(k)
    <3>1. PICK r : r = RemoveConnection(channels[t].conns, k)
      OBVIOUS
    <3>2. channels'[t] = IF r = <<>> THEN NoChannel ELSE [channels[t] EXCEPT !.conns = r]
      BY <2>1, <2>8, <3>1 DEF TakeClosed, TypeOK, RunTypeOK
    <3>3. r = <<>> => ~Exists(t)'
      BY <3>2 DEF Exists, NoChannel
    <3>4. r # <<>> => channels'[t].last = channels[t].last
      BY <2>1, <3>2 DEF Channels
    <3>5. r # <<>> => Exists(t)
      <4> SUFFICES ASSUME channels[t].conns = <<>> PROVE r = <<>>
        BY DEF Exists
      <4> QED
        BY <3>1 DEF RemoveConnection
    <3> QED
      BY <1>1, <1>3, <2>1, <2>2, <2>3, <2>4, <2>6, <3>3, <3>4, <3>5 DEF Followed
  <2> QED
    BY <1>4, <2>7, <2>8
<1>5. CASE TakeStop \/ SendPayload
  <2>1. UNCHANGED <<sdkClient, channels, todo, using, changed, handler>>
    BY <1>5 DEF TakeStop, SendPayload, loopVars, handlerVars
  <2> QED
    BY <1>1, <2>1, SyncKeeps DEF SyncInv
<1>6. CASE TakeChanged
  <2>1. todo' = {t \in Topics : Exists(t)} /\ using' = sdkClient /\ UNCHANGED <<channels, handler>>
    BY <1>6 DEF TakeChanged, handlerVars
  <2>2. \A t \in Topics : Exists(t)' => Coming(t)'
    BY <1>1, <2>1 DEF Coming, Exists
  <2> QED
    BY <1>1, <2>1, <2>2 DEF Followed
<1>7. ASSUME NEW t \in Topics, NotifyChannel(t) PROVE Followed'
  <2>1. /\ t \in todo /\ todo' = todo \ {t} /\ UNCHANGED <<using, changed, handler>>
        /\ channels[t] \in Channels
    BY <1>7 DEF NotifyChannel, handlerVars, TypeOK, RunTypeOK
  <2>2. \/ Notifies(using, t) /\ channels' = [channels EXCEPT ![t].last = Payload(using, t)]
        \/ ~Notifies(using, t) /\ channels' = channels
    BY <1>7 DEF NotifyChannel
  <2>3. \A u \in Topics : Exists(u)' <=> Exists(u)
    BY <1>7, NotifyConns DEF Exists
  <2>4. \A u \in Topics \ {t} : /\ Coming(u) => Coming(u)'
                                /\ Current(u) => Current(u)'
    <3>1. \A u \in Topics \ {t} : channels'[u] = channels[u]
      BY <2>2 DEF TypeOK, RunTypeOK
    <3>2. \A u \in Topics \ {t} : Current(u) => Current(u)'
      BY <1>3, <3>1
    <3>3. \A u \in Topics \ {t} : Coming(u) => Coming(u)'
      BY <1>1, <2>1 DEF Coming
    <3> QED
      BY <3>2, <3>3
  <2>5. Current(t)' \/ Coming(t)'
    <3>1. CASE using # sdkClient
      <4>1. changed' = 1
        BY <2>1, <3>1 DEF Followed
      <4> QED
        BY <4>1 DEF Coming
    <3>2. CASE using = sdkClient /\ Notifies(using, t)
      <4>1. channels'[t].last = Payload(sdkClient, t)
        BY <2>1, <2>2, <3>2 DEF TypeOK, RunTypeOK, Channels
      <4> QED
        BY <1>1, <1>2, <4>1 DEF Current
    <3>3. CASE using = sdkClient /\ ~Notifies(using, t)
      <4>1. Current(t)
        BY <3>3 DEF Notifies, Current
      <4> QED
        BY <1>3, <2>2, <3>3, <4>1
    <3> QED
      BY <3>1, <3>2, <3>3
  <2> QED
    BY <1>1, <2>1, <2>3, <2>4, <2>5 DEF Followed
<1> QED
  BY <1>4, <1>5, <1>6, <1>7 DEF RunStep

-----------------------------------------------------------------------------
(* The invariant *)

LEMMA InitStream == Init => StreamInv
<1> SUFFICES ASSUME Init PROVE StreamInv
  OBVIOUS
<1> USE StreamAssumption, Constants
<1>1. ClientsTypeOK
  <2>1. 0 \in 0 .. MaxChanges + 1 /\ 0 \in 0 .. PubCap /\ 0 \in 0 .. MaxChanges
    OBVIOUS
  <2> QED
    BY <2>1 DEF Init, ClientsTypeOK
<1>2. RunTypeOK
  <2>1. NoChannel \in Channels /\ <<>> \in Seq(Messages)
    BY DEF NoChannel, Channels, Payloads
  <2> QED
    BY <2>1 DEF Init, RunTypeOK, ResetSteps
<1>3. HandlersTypeOK
  <2>1. <<>> \in Seq(Payloads) /\ Len(<<>>) <= RecvCap /\ NoPayload \in Payloads
    BY DEF Payloads
  <2> QED
    BY <2>1 DEF Init, HandlersTypeOK
<1>4. ClientInv
  BY DEF Init, ClientInv, ClientOk
<1>5. \A t \in Topics : channels[t].conns = <<>>
  BY DEF Init, NoChannel
<1>6. \A k \in Conns : ~Registered(k) /\ handler[k] = "idle"
  BY <1>5 DEF Init, Registered
<1>7. ConnectionsMatchHandlers
  <2>1. {k \in Conns : Registered(k)} = {}
    BY <1>6
  <2>2. IsFiniteSet({k \in Conns : Registered(k)}) /\ connCount = Cardinality({k \in Conns : Registered(k)})
    BY <2>1, FS_EmptySet DEF Init
  <2>3. \A t \in Topics : /\ IsInjective(channels[t].conns)
                          /\ \A i \in DOMAIN channels[t].conns : TopicOf[channels[t].conns[i]] = t
    BY <1>5 DEF IsInjective
  <2> QED
    BY <1>6, <2>2, <2>3 DEF ConnectionsMatchHandlers
<1>8. SendInv /\ ChannelAgrees
  BY <1>6 DEF Init, SendInv, ChannelAgrees
<1>9. ResetInv
  BY DEF Init, ResetInv
<1>10. SyncInv
  BY <1>5, <1>6 DEF Init, SyncInv, Followed, Exists
<1> QED
  BY <1>1, <1>2, <1>3, <1>4, <1>7, <1>8, <1>9, <1>10 DEF StreamInv, TypeOK

LEMMA NextStream == StreamInv /\ [Next]_vars => StreamInv'
<1> SUFFICES ASSUME StreamInv, [Next]_vars PROVE StreamInv'
  OBVIOUS
<1>1. /\ TypeOK /\ ClientInv /\ ConnectionsMatchHandlers /\ SendInv /\ ChannelAgrees
      /\ ResetInv /\ SyncInv
  BY DEF StreamInv
<1>2. CASE Next
  <2>1. TypeOK'
    BY <1>1, <1>2, ClientTypes, HandlerTypes, ServerTypes, RunTypes DEF Next
  <2>2. ConnectionsMatchHandlers'
    BY <1>1, <1>2, MatchStep
  <2>3. SendInv' /\ ChannelAgrees'
    BY <1>1, <1>2, <2>1, SendStep
  <2>4. CASE \E c \in Clients : ClientStep(c)
    <3>1. ClientInv' /\ ResetInv' /\ SyncInv'
      BY <1>1, <2>4, ClientInvStep, ResetInvClient, SyncClient
    <3> QED
      BY <2>1, <2>2, <2>3, <3>1 DEF StreamInv
  <2>5. CASE ServerStep
    <3>1. ClientInv'
      BY <1>1, <2>5, ClientKeeps DEF ServerStep, ResetSwap, ResetPoll, ResetUnsubscribe,
         ResetSubscribe, CloseStream, clientVars, bounds
    <3>2. ResetInv' /\ SyncInv'
      BY <1>1, <2>5, ResetInvStep, SyncServer
    <3> QED
      BY <2>1, <2>2, <2>3, <3>1, <3>2 DEF StreamInv
  <2>6. CASE (\E k \in Conns : HandlerStep(k)) \/ RunStep
    <3>1. UNCHANGED <<phase, cfg, signals, initialized, pubq, worker, subs, changes, stop, reset,
                      sdkClient, synced>>
      <4>1. CASE \E k \in Conns : HandlerStep(k)
        BY <4>1 DEF HandlerStep, Connect, HandlerReceive, Disconnect, HandlerGone,
                    HandlerStreamClosed, clientVars, bounds
      <4>2. CASE RunStep
        BY <4>2 DEF RunStep, TakeEstablished, TakeClosed, TakeChanged, TakeStop, NotifyChannel,
                    SendPayload, clientVars, bounds
      <4> QED
        BY <2>6, <4>1, <4>2
    <3>2. ClientInv'
      BY <1>1, <3>1, ClientKeeps
    <3>3. ResetInv'
      BY <1>1, <3>1, ResetKeeps
    <3>4. SyncInv'
      BY <1>1, <2>6, SyncHandler, SyncRun
    <3> QED
      BY <2>1, <2>2, <2>3, <3>2, <3>3, <3>4 DEF StreamInv
  <2> QED
    BY <1>2, <2>4, <2>5, <2>6 DEF Next
<1>3. CASE UNCHANGED vars
  <2>1. UNCHANGED <<phase, cfg, signals, initialized, pubq, worker, subs, sdkClient, changed, stop,
                    channels, todo, using, sending, connCount, reset, handler, receive, gone, shown,
                    synced, changes>>
    BY <1>3 DEF vars, clientVars, loopVars, handlerVars, bounds
  <2>2. TypeOK'
    BY <1>1, <2>1 DEF TypeOK, ClientsTypeOK, RunTypeOK, HandlersTypeOK
  <2>3. ClientInv' /\ ResetInv'
    BY <1>1, <2>1, ClientKeeps, ResetKeeps
  <2>4. ConnectionsMatchHandlers'
    BY <1>1, <2>1, MatchKeeps
  <2>5. SendInv' /\ ChannelAgrees'
    <3>1. TakenAgrees
      BY <1>1, AgreeIff
    <3>2. SendInv' /\ TakenAgrees'
      BY <1>1, <2>1, <3>1, SendKeeps
    <3> QED
      BY <2>2, <3>2, AgreeIffNext
  <2>6. SyncInv'
    BY <1>1, <2>1, SyncKeeps
  <2> QED
    BY <2>2, <2>3, <2>4, <2>5, <2>6 DEF StreamInv
<1> QED
  BY <1>2, <1>3

(* The inductive invariant: the types, what the clients, Notify and        *)
(* ResetSdk are in the middle of, and that every channel is current or a   *)
(* message will make run look at it.                                       *)
THEOREM StreamInvariant == Spec => []StreamInv
BY InitStream, NextStream, PTL DEF Spec

(* Every variable keeps its type; in particular no publisher queue and no  *)
(* conn.receive ever holds more than its capacity.                         *)
THEOREM StreamTypes == Spec => []TypeOK
<1>1. StreamInv => TypeOK
  BY DEF StreamInv
<1> QED
  BY <1>1, StreamInvariant, PTL

(* The channels of a stream hold exactly the connections of the handlers   *)
(* that stream or wait in CloseConnection, each once, and connCount counts *)
(* them, for every number of handlers and topics.                          *)
THEOREM ConnectionsMatch == Spec => []ConnectionsMatchHandlers
<1>1. StreamInv => ConnectionsMatchHandlers
  BY DEF StreamInv
<1> QED
  BY <1>1, StreamInvariant, PTL

(* Connections that share a channel were given, or will be given, the same *)
(* last payload, whenever they joined.                                     *)
THEOREM ChannelsAgree == Spec => []ChannelAgrees
<1>1. StreamInv => ChannelAgrees
  BY DEF StreamInv
<1> QED
  BY <1>1, StreamInvariant, PTL

(* No update is lost, for every number of clients and configs and every    *)
(* capacity of the publisher and of conn.receive: once nothing is in       *)
(* flight, each streaming peer of a stream that follows a live client      *)
(* holds the value that client evaluates.                                  *)
THEOREM NoUpdateLost == Spec => []QuietImpliesUpToDate
<1>1. StreamInv => QuietImpliesUpToDate
  <2> SUFFICES ASSUME StreamInv, Quiet, synced, phase[sdkClient] = "live", ~stop,
                      NEW k \in Conns, handler[k] = "streaming"
               PROVE  UpToDate(k)
    BY DEF QuietImpliesUpToDate
  <2> DEFINE t == TopicOf[k]
  <2>1. TypeOK /\ ConnectionsMatchHandlers /\ ChannelAgrees /\ SyncInv
    BY DEF StreamInv
  <2>2. t \in Topics /\ sdkClient \in Clients
    BY <2>1, StreamAssumption DEF TypeOK, RunTypeOK
  <2>3. Registered(k)
    BY <2>1 DEF ConnectionsMatchHandlers
  <2>4. Exists(t)
    BY <2>3 DEF Registered, Exists
  <2>5. ~Coming(t)
    BY <2>2 DEF Quiet, Coming
  <2>6. Current(t)
    BY <2>1, <2>2, <2>4, <2>5 DEF SyncInv, Followed
  <2>7. LastSent(k) = shown[k]
    BY DEF Quiet, LastSent
  <2>8. shown[k] = channels[t].last
    BY <2>1, <2>3, <2>7 DEF ChannelAgrees
  <2> QED
    BY <2>6, <2>8 DEF Current, UpToDate
<1> QED
  BY <1>1, StreamInvariant, PTL
=============================================================================
