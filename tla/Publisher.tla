------------------------------ MODULE Publisher ------------------------------
(***************************************************************************)
(* pubsub/publisher.go: a publisher owns one worker goroutine.  Publish    *)
(* puts a message in the buffered channel pub; Subscribe and Unsubscribe   *)
(* hand a channel to the worker over the unbuffered channels sub and       *)
(* unsub; Close closes stop.  The worker selects among the four and sends  *)
(* each message to every subscriber, one blocking send after another.      *)
(*                                                                         *)
(* Every call first polls stop and only then blocks in its send, so a call *)
(* in progress is a state of its own (call[c]).  Messages are numbered by  *)
(* the order in which pub accepted them: the number is the message.        *)
(***************************************************************************)
EXTENDS Integers, Sequences

CONSTANTS
  Callers,      \* goroutines that call Publish
  Chans,        \* subscriber channels; each has one goroutine that calls
                \* Subscribe and Unsubscribe for it and one that reads it
  NoChan,       \* the worker is sending to no channel
  PubCap,       \* capacity of pub (64 in the code)
  ChanCap,      \* capacity of a subscriber channel (1 in stream/)
  MaxMessages   \* bound: how many messages are published

ASSUME CapAssumption == /\ PubCap \in Nat \ {0}
                        /\ ChanCap \in Nat \ {0}
                        /\ MaxMessages \in Nat
ASSUME ChanAssumption == /\ NoChan \notin Chans
                         /\ Callers \cap Chans = {}

VARIABLES
  subscriptions,  \* the worker's set of channels
  pub,            \* the buffered channel of published messages
  stop,           \* TRUE once stop is closed
  worker,         \* "select", "deliver" (inside the range loop), "exited"
  data,           \* the message of the range loop, 0 before the first one
  left,           \* channels the range loop has not sent to yet
  current,        \* the channel the worker is sending to
  call,           \* the send each caller is blocked in, "idle" otherwise
  inbox,          \* contents of each subscriber channel
  \* history, read by no action of the code:
  sent,           \* messages accepted by pub
  member,         \* what the channel's own goroutine may assume:
                  \* "in" after Subscribe returned, "out" after Unsubscribe
                  \* returned, "left" if it returned because of stop
  base,           \* messages the worker had taken when ch was subscribed
  delivered       \* messages put in ch since then

vars == <<subscriptions, pub, stop, worker, data, left, current, call,
          inbox, sent, member, base, delivered>>
wvars == <<worker, data, left, current>>
history == <<member, base, delivered>>

(* The number of messages the worker has received from pub. *)
Taken == sent - Len(pub)

TypeOK ==
  /\ subscriptions \subseteq Chans
  /\ pub \in Seq(Nat) /\ Len(pub) <= PubCap
  /\ stop \in BOOLEAN
  /\ worker \in {"select", "deliver", "exited"}
  /\ data \in Nat
  /\ left \subseteq Chans
  /\ current \in Chans \cup {NoChan}
  /\ call \in [Callers \cup Chans -> {"idle", "publish", "subscribe", "unsubscribe"}]
  /\ inbox \in [Chans -> Seq(Nat)]
  /\ \A ch \in Chans : Len(inbox[ch]) <= ChanCap
  /\ sent \in Nat
  /\ member \in [Chans -> {"out", "in", "left"}]
  /\ base \in [Chans -> Nat]
  /\ delivered \in [Chans -> Seq(Nat)]

(* NewPublisher *)
Init ==
  /\ subscriptions = {}
  /\ pub = <<>>
  /\ stop = FALSE
  /\ worker = "select"
  /\ data = 0
  /\ left = {}
  /\ current = NoChan
  /\ call = [c \in Callers \cup Chans |-> "idle"]
  /\ inbox = [ch \in Chans |-> <<>>]
  /\ sent = 0
  /\ member = [ch \in Chans |-> "out"]
  /\ base = [ch \in Chans |-> 0]
  /\ delivered = [ch \in Chans |-> <<>>]

-----------------------------------------------------------------------------
(* Plausible bugs, substituted for the definition they imitate when the    *)
(* properties are shown to be sensitive to it.                             *)

\* Unsubscribe returns without handing its channel to the worker
MutUnsubscribe(ch) ==
  /\ member[ch] = "in" /\ call[ch] = "idle"
  /\ member' = [member EXCEPT ![ch] = IF stop THEN "left" ELSE "out"]
  /\ UNCHANGED <<subscriptions, pub, stop, wvars, call, inbox, sent, base, delivered>>

\* the worker sends to nobody but the first channel of the range loop
MutDeliver ==
  /\ worker = "deliver"
  /\ Len(inbox[current]) < ChanCap
  /\ inbox' = [inbox EXCEPT ![current] = Append(@, data)]
  /\ delivered' = [delivered EXCEPT ![current] = Append(@, data)]
  /\ left' = {}
  /\ current' = NoChan
  /\ worker' = "select"
  /\ UNCHANGED <<subscriptions, pub, stop, data, call, sent, member, base>>

\* Publish does not wait for room in pub
MutPublishSend(c) ==
  /\ call[c] = "publish"
  /\ pub' = Append(pub, sent + 1)
  /\ sent' = sent + 1
  /\ call' = [call EXCEPT ![c] = "idle"]
  /\ UNCHANGED <<subscriptions, stop, wvars, inbox, history>>

\* the worker takes messages and commands but never looks at stop
MutTakeStop ==
  /\ worker = "select" /\ stop /\ Len(pub) > PubCap
  /\ worker' = "exited"
  /\ UNCHANGED <<subscriptions, pub, stop, data, left, current, call, inbox, sent, history>>

\* the worker stops serving commands once a message was published
MutTakeUnsubscribe(ch) ==
  /\ worker = "select" /\ call[ch] = "unsubscribe" /\ sent = 0
  /\ subscriptions' = subscriptions \ {ch}
  /\ call' = [call EXCEPT ![ch] = "idle"]
  /\ member' = [member EXCEPT ![ch] = "out"]
  /\ UNCHANGED <<pub, stop, wvars, inbox, sent, base, delivered>>

-----------------------------------------------------------------------------
(* Calls.  Each polls stop; if it is open the caller blocks in its send.   *)

Publish(c) ==
  /\ call[c] = "idle"
  /\ sent < MaxMessages
  /\ call' = [call EXCEPT ![c] = IF stop THEN "idle" ELSE "publish"]
  /\ UNCHANGED <<subscriptions, pub, stop, wvars, inbox, sent, history>>

Subscribe(ch) ==
  /\ member[ch] = "out" /\ call[ch] = "idle"
  /\ call' = [call EXCEPT ![ch] = IF stop THEN "idle" ELSE "subscribe"]
  /\ UNCHANGED <<subscriptions, pub, stop, wvars, inbox, sent, history>>

Unsubscribe(ch) ==
  /\ member[ch] = "in" /\ call[ch] = "idle"
  /\ IF stop
       THEN /\ member' = [member EXCEPT ![ch] = "left"]
            /\ UNCHANGED call
       ELSE /\ call' = [call EXCEPT ![ch] = "unsubscribe"]
            /\ UNCHANGED member
  /\ UNCHANGED <<subscriptions, pub, stop, wvars, inbox, sent, base, delivered>>

(* p.pub <- data completes: there is room in the buffer. *)
PublishSend(c) ==
  /\ call[c] = "publish"
  /\ Len(pub) < PubCap
  /\ pub' = Append(pub, sent + 1)
  /\ sent' = sent + 1
  /\ call' = [call EXCEPT ![c] = "idle"]
  /\ UNCHANGED <<subscriptions, stop, wvars, inbox, history>>

Close ==
  /\ ~stop
  /\ stop' = TRUE
  /\ UNCHANGED <<subscriptions, pub, wvars, call, inbox, sent, history>>

-----------------------------------------------------------------------------
(* The worker.  In "select" every ready case may be chosen.                *)

(* case data := <-p.pub, and the start of the range loop, whose first      *)
(* channel is arbitrary (the order of a Go map is random).                 *)
TakeMessage ==
  /\ worker = "select" /\ pub # <<>>
  /\ data' = Head(pub)
  /\ pub' = Tail(pub)
  /\ left' = subscriptions
  /\ IF subscriptions = {}
       THEN UNCHANGED <<worker, current>>
       ELSE /\ worker' = "deliver"
            /\ current' \in subscriptions
  /\ UNCHANGED <<subscriptions, stop, call, inbox, sent, history>>

(* sub <- data completes, and the loop moves on to another channel. *)
Deliver ==
  /\ worker = "deliver"
  /\ Len(inbox[current]) < ChanCap
  /\ inbox' = [inbox EXCEPT ![current] = Append(@, data)]
  /\ delivered' = [delivered EXCEPT ![current] = Append(@, data)]
  /\ left' = left \ {current}
  /\ IF left' = {} THEN worker' = "select" /\ current' = NoChan
                   ELSE worker' = "deliver" /\ current' \in left'
  /\ UNCHANGED <<subscriptions, pub, stop, data, call, sent, member, base>>

(* case ch := <-p.sub; the caller's Subscribe returns *)
TakeSubscribe(ch) ==
  /\ worker = "select" /\ call[ch] = "subscribe"
  /\ subscriptions' = subscriptions \cup {ch}
  /\ call' = [call EXCEPT ![ch] = "idle"]
  /\ member' = [member EXCEPT ![ch] = "in"]
  /\ base' = [base EXCEPT ![ch] = Taken]
  /\ delivered' = [delivered EXCEPT ![ch] = <<>>]
  /\ UNCHANGED <<pub, stop, wvars, inbox, sent>>

(* case ch := <-p.unsub; the caller's Unsubscribe returns *)
TakeUnsubscribe(ch) ==
  /\ worker = "select" /\ call[ch] = "unsubscribe"
  /\ subscriptions' = subscriptions \ {ch}
  /\ call' = [call EXCEPT ![ch] = "idle"]
  /\ member' = [member EXCEPT ![ch] = "out"]
  /\ UNCHANGED <<pub, stop, wvars, inbox, sent, base, delivered>>

(* case <-p.stop *)
TakeStop ==
  /\ worker = "select" /\ stop
  /\ worker' = "exited"
  /\ UNCHANGED <<subscriptions, pub, stop, data, left, current, call, inbox, sent, history>>

(* The goroutine that reads the subscriber channel receives a message. *)
Read(ch) ==
  /\ inbox[ch] # <<>>
  /\ inbox' = [inbox EXCEPT ![ch] = Tail(@)]
  /\ UNCHANGED <<subscriptions, pub, stop, wvars, call, sent, history>>

-----------------------------------------------------------------------------
Next ==
  \/ \E c \in Callers : Publish(c) \/ PublishSend(c)
  \/ \E ch \in Chans : \/ Subscribe(ch) \/ Unsubscribe(ch)
                       \/ TakeSubscribe(ch) \/ TakeUnsubscribe(ch)
                       \/ Read(ch)
  \/ TakeMessage \/ Deliver \/ TakeStop
  \/ Close

Spec == Init /\ [][Next]_vars

(* The Go scheduler runs every goroutine that can run (WF); select picks   *)
(* uniformly among its ready cases, and a channel serves its waiting       *)
(* senders in order, so a case or a sender that is ready again and again   *)
(* is eventually served (SF).  The subscribers read their channels.        *)
Fairness ==
  /\ SF_vars(TakeMessage) /\ WF_vars(Deliver) /\ SF_vars(TakeStop)
  /\ \A c \in Callers : SF_vars(PublishSend(c))
  /\ \A ch \in Chans : /\ SF_vars(TakeSubscribe(ch))
                       /\ SF_vars(TakeUnsubscribe(ch))
                       /\ WF_vars(Read(ch))

FairSpec == Spec /\ Fairness

-----------------------------------------------------------------------------
(* Properties *)

(* No gap, no duplicate, no reordering (publisher.go:37-39): what a channel *)
(* received since it subscribed is exactly the messages the worker took    *)
(* since then, in order, the one being sent now perhaps missing.           *)
ReceivesEveryMessage ==
  \A ch \in subscriptions :
    /\ \A i \in DOMAIN delivered[ch] : delivered[ch][i] = base[ch] + i
    /\ base[ch] + Len(delivered[ch]) = IF ch \in left THEN Taken - 1 ELSE Taken

(* Once Unsubscribe has returned on an open publisher (publisher.go:74) the *)
(* channel gets nothing more until it subscribes again, even though        *)
(* messages published before the call may still be queued.                 *)
SilentAfterUnsubscribe ==
  [][\A ch \in Chans : member[ch] = "out" => Len(inbox'[ch]) <= Len(inbox[ch])]_vars

(* Publisher implements Broadcast. *)
Log == INSTANCE Broadcast WITH
         members <- subscriptions,
         cursor <- [ch \in Chans |-> base[ch] + Len(delivered[ch])]
ImplementsBroadcast == Log!BSpec

(* While the publisher is open every call returns (publisher.go:56,65,74)  *)
(* although the worker serves them only between two messages.              *)
CallsReturn ==
  \A c \in Callers \cup Chans : call[c] # "idle" ~> (call[c] = "idle" \/ stop)

(* A message accepted while a channel is subscribed reaches that channel,  *)
(* unless the channel unsubscribes or the publisher is closed first.       *)
AcceptedIsDelivered ==
  \A ch \in Chans, m \in 1 .. MaxMessages :
    (member[ch] = "in" /\ base[ch] < m /\ m <= sent)
      ~> (base[ch] + Len(delivered[ch]) >= m \/ member[ch] # "in" \/ stop)

(* Close ends the worker goroutine (publisher.go:45), as long as the       *)
(* subscribers keep reading.                                               *)
CloseEndsWorker == stop ~> worker = "exited"
=============================================================================
