--------------------------- MODULE PublisherProofs ---------------------------
(***************************************************************************)
(* Proofs about Publisher for every number of callers and channels and     *)
(* every channel capacity: the delivery guarantee, silence after           *)
(* Unsubscribe, and the implementation of Broadcast.                       *)
(***************************************************************************)
EXTENDS Publisher, TLAPS

(* The worker's range loop: it is sending the last message it took, to a   *)
(* channel that has not had it, and to subscribers only.                   *)
LoopInv ==
  /\ worker # "deliver" => left = {}
  /\ worker = "deliver" => /\ current \in left
                           /\ left \subseteq subscriptions
                           /\ data = Taken

(* The buffer holds the messages numbered Taken + 1 .. sent, in order. *)
BufferInv == /\ Len(pub) <= sent
             /\ \A i \in 1 .. Len(pub) : pub[i] = Taken + i

MemberInv == \A ch \in Chans : member[ch] = "out" => ch \notin subscriptions

IInv == TypeOK /\ LoopInv /\ BufferInv /\ MemberInv /\ ReceivesEveryMessage

LEMMA InitIInv == Init => IInv
<1> SUFFICES ASSUME Init PROVE IInv
  OBVIOUS
<1>1. TypeOK
  <2>1. pub \in Seq(Nat) /\ Len(pub) <= PubCap
    BY CapAssumption DEF Init
  <2>2. \A ch \in Chans : Len(inbox[ch]) <= ChanCap
    BY CapAssumption DEF Init
  <2>3. inbox \in [Chans -> Seq(Nat)] /\ delivered \in [Chans -> Seq(Nat)]
    BY DEF Init
  <2> QED
    BY <2>1, <2>2, <2>3 DEF Init, TypeOK
<1>2. LoopInv /\ MemberInv /\ ReceivesEveryMessage
  BY DEF Init, LoopInv, MemberInv, ReceivesEveryMessage
<1>3. BufferInv
  BY DEF Init, BufferInv
<1> QED
  BY <1>1, <1>2, <1>3 DEF IInv

LEMMA TypeStep == TypeOK /\ LoopInv /\ BufferInv /\ [Next]_vars => TypeOK'
<1> SUFFICES ASSUME TypeOK, LoopInv, BufferInv, [Next]_vars PROVE TypeOK'
  OBVIOUS
<1> USE CapAssumption, ChanAssumption DEF TypeOK, LoopInv
<1>1. ASSUME NEW c \in Callers, Publish(c) PROVE TypeOK'
  BY <1>1 DEF Publish, wvars, history
<1>2. ASSUME NEW c \in Callers, PublishSend(c) PROVE TypeOK'
  BY <1>2 DEF PublishSend, wvars, history
<1>3. ASSUME NEW ch \in Chans, Subscribe(ch) PROVE TypeOK'
  BY <1>3 DEF Subscribe, wvars, history
<1>4. ASSUME NEW ch \in Chans, Unsubscribe(ch) PROVE TypeOK'
  BY <1>4 DEF Unsubscribe, wvars, history
<1>5. ASSUME NEW ch \in Chans, TakeSubscribe(ch) PROVE TypeOK'
  BY SMTT(20), <1>5 DEF TakeSubscribe, BufferInv, wvars, history, Taken
<1>6. ASSUME NEW ch \in Chans, TakeUnsubscribe(ch) PROVE TypeOK'
  BY <1>6 DEF TakeUnsubscribe, wvars, history
<1>7. ASSUME NEW ch \in Chans, Read(ch) PROVE TypeOK'
  BY SMTT(20), <1>7 DEF Read, wvars, history
<1>8. CASE TakeMessage
  BY <1>8 DEF TakeMessage, wvars, history
<1>9. CASE Deliver
  BY SMTT(20), <1>9 DEF Deliver, wvars, history
<1>10. CASE TakeStop
  BY <1>10 DEF TakeStop, wvars, history
<1>11. CASE Close
  BY <1>11 DEF Close, wvars, history
<1>12. CASE UNCHANGED vars
  BY <1>12 DEF vars
<1> QED
  BY <1>1, <1>2, <1>3, <1>4, <1>5, <1>6, <1>7, <1>8, <1>9, <1>10, <1>11, <1>12 DEF Next

(* Every action keeps the buffer, the range loop and the channels' view of *)
(* their membership consistent.                                            *)
LEMMA LoopStep == IInv /\ [Next]_vars => (LoopInv /\ BufferInv /\ MemberInv)'
<1> DEFINE Goal == LoopInv /\ BufferInv /\ MemberInv
<1> SUFFICES ASSUME IInv, [Next]_vars PROVE Goal'
  OBVIOUS
<1> USE CapAssumption, ChanAssumption DEF IInv, TypeOK, LoopInv, BufferInv, MemberInv, Taken
<1>1. ASSUME NEW c \in Callers, Publish(c) PROVE Goal'
  BY <1>1 DEF Publish, wvars, history
<1>2. ASSUME NEW c \in Callers, PublishSend(c) PROVE Goal'
  <2>1. Len(pub') = Len(pub) + 1 /\ Taken' = Taken
    BY <1>2 DEF PublishSend
  <2>2. \A i \in 1 .. Len(pub') : pub'[i] = Taken' + i
    <3> SUFFICES ASSUME NEW i \in 1 .. Len(pub') PROVE pub'[i] = Taken + i
      BY <2>1
    <3>1. CASE i = Len(pub) + 1
      BY <1>2, <3>1, <2>1 DEF PublishSend
    <3>2. CASE i # Len(pub) + 1
      <4>1. i \in 1 .. Len(pub) /\ pub'[i] = pub[i]
        BY <1>2, <3>2, <2>1 DEF PublishSend
      <4> QED
        BY <4>1
    <3> QED
      BY <3>1, <3>2
  <2> QED
    BY SMTT(20), <1>2, <2>1, <2>2 DEF PublishSend, wvars, history
<1>3. ASSUME NEW ch \in Chans, Subscribe(ch) PROVE Goal'
  BY <1>3 DEF Subscribe, wvars, history
<1>4. ASSUME NEW ch \in Chans, Unsubscribe(ch) PROVE Goal'
  BY <1>4 DEF Unsubscribe, wvars, history
<1>5. ASSUME NEW ch \in Chans, TakeSubscribe(ch) PROVE Goal'
  BY <1>5 DEF TakeSubscribe, wvars, history
<1>6. ASSUME NEW ch \in Chans, TakeUnsubscribe(ch) PROVE Goal'
  BY <1>6 DEF TakeUnsubscribe, wvars, history
<1>7. ASSUME NEW ch \in Chans, Read(ch) PROVE Goal'
  BY <1>7 DEF Read, wvars, history
<1>8. CASE TakeMessage
  <2>1. Len(pub) > 0 /\ Len(pub') = Len(pub) - 1 /\ Taken' = Taken + 1
    BY <1>8 DEF TakeMessage
  <2>2. \A i \in 1 .. Len(pub') : pub'[i] = Taken' + i
    <3> SUFFICES ASSUME NEW i \in 1 .. Len(pub') PROVE pub'[i] = Taken + 1 + i
      BY <2>1
    <3>1. i + 1 \in 1 .. Len(pub) /\ pub'[i] = pub[i + 1]
      BY <1>8, <2>1 DEF TakeMessage
    <3> QED
      BY <3>1
  <2>3. data' = Taken'
    BY <1>8, <2>1 DEF TakeMessage
  <2> QED
    BY <1>8, <2>1, <2>2, <2>3 DEF TakeMessage, wvars, history
<1>9. CASE Deliver
  BY <1>9 DEF Deliver, wvars, history
<1>10. CASE TakeStop
  BY <1>10 DEF TakeStop, wvars, history
<1>11. CASE Close
  BY <1>11 DEF Close, wvars, history
<1>12. CASE UNCHANGED vars
  BY <1>12 DEF vars
<1> QED
  BY <1>1, <1>2, <1>3, <1>4, <1>5, <1>6, <1>7, <1>8, <1>9, <1>10, <1>11, <1>12 DEF Next

(* Appending the next number to consecutive numbers leaves them consecutive. *)
LEMMA AppendConsecutive ==
  ASSUME NEW d \in Seq(Nat), NEW b \in Nat, NEW m \in Nat,
         \A i \in 1 .. Len(d) : d[i] = b + i, m = b + Len(d) + 1
  PROVE  /\ Len(Append(d, m)) = Len(d) + 1
         /\ \A i \in DOMAIN Append(d, m) : Append(d, m)[i] = b + i
<1>1. /\ Len(Append(d, m)) = Len(d) + 1
      /\ DOMAIN Append(d, m) = 1 .. Len(d) + 1
      /\ Append(d, m)[Len(d) + 1] = m
      /\ \A i \in 1 .. Len(d) : Append(d, m)[i] = d[i]
  OBVIOUS
<1>2. \A i \in 1 .. Len(d) + 1 : i = Len(d) + 1 \/ i \in 1 .. Len(d)
  OBVIOUS
<1> QED
  BY <1>1, <1>2

(* The send of the range loop brings its channel level with the worker. *)
LEMMA DeliverStep == IInv /\ Deliver => ReceivesEveryMessage'
<1> SUFFICES ASSUME IInv, Deliver PROVE ReceivesEveryMessage'
  OBVIOUS
<1>1. Taken \in Int /\ subscriptions \subseteq Chans /\ current \in left
  BY DEF IInv, TypeOK, LoopInv, Taken, Deliver
<1>2. UNCHANGED <<subscriptions, base, Taken>>
  BY DEF Deliver, Taken
<1>3. left' = left \ {current} /\ data = Taken
  BY DEF Deliver, IInv, LoopInv
<1> SUFFICES ASSUME NEW ch \in subscriptions
             PROVE  /\ \A i \in DOMAIN delivered'[ch] : delivered'[ch][i] = base[ch] + i
                    /\ base[ch] + Len(delivered'[ch]) = IF ch \in left' THEN Taken - 1 ELSE Taken
  BY <1>2, Zenon DEF ReceivesEveryMessage
<1>4. /\ \A i \in DOMAIN delivered[ch] : delivered[ch][i] = base[ch] + i
      /\ base[ch] + Len(delivered[ch]) = IF ch \in left THEN Taken - 1 ELSE Taken
  BY DEF IInv, ReceivesEveryMessage
<1>5. CASE ch = current
  <2>1. PICK d \in Seq(Nat) : d = delivered[ch]
    BY <1>1 DEF IInv, TypeOK
  <2>2. PICK b \in Nat : b = base[ch]
    BY <1>1 DEF IInv, TypeOK

  <2>3. PICK m \in Nat : m = data
    BY DEF IInv, TypeOK
  <2> DEFINE e == Append(d, m)
  <2>4. delivered'[ch] = e
    BY <1>1, <1>5, <2>1, <2>3 DEF Deliver, IInv, TypeOK
  <2>5. b + Len(d) = Taken - 1 /\ Len(d) \in Nat
    BY <1>1, <1>4, <1>5, <2>1, <2>2
  <2>6. m = b + Len(d) + 1
    BY <1>1, <1>3, <2>3, <2>5
  <2>7. \A i \in 1 .. Len(d) : d[i] = b + i
    BY <1>4, <2>1, <2>2
  <2>8. Len(e) = Len(d) + 1 /\ \A i \in DOMAIN e : e[i] = b + i
    BY <2>6, <2>7, AppendConsecutive
  <2>9. b + Len(e) = Taken
    BY <1>1, <2>5, <2>8
  <2>10. ch \notin left'
    BY <1>3, <1>5
  <2> QED
    BY <2>2, <2>4, <2>8, <2>9, <2>10, Zenon
<1>6. CASE ch # current
  <2>1. delivered'[ch] = delivered[ch]
    BY <1>1, <1>6 DEF Deliver, IInv, TypeOK
  <2>2. ch \in left' <=> ch \in left
    BY <1>3, <1>6
  <2> QED
    BY <1>4, <2>1, <2>2, Zenon
<1> QED
  BY <1>5, <1>6

(* Taking a message puts every subscriber one message behind; delivering   *)
(* it brings one of them level again; a new subscriber starts level.       *)
LEMMA DeliveryStep == IInv /\ [Next]_vars => ReceivesEveryMessage'
<1> SUFFICES ASSUME IInv, [Next]_vars PROVE ReceivesEveryMessage'
  OBVIOUS
<1> USE CapAssumption, ChanAssumption
    DEF IInv, TypeOK, LoopInv, BufferInv, MemberInv, ReceivesEveryMessage, Taken
<1>1. ASSUME NEW c \in Callers, Publish(c) PROVE ReceivesEveryMessage'
  BY <1>1 DEF Publish, wvars, history
<1>2. ASSUME NEW c \in Callers, PublishSend(c) PROVE ReceivesEveryMessage'
  BY <1>2 DEF PublishSend, wvars, history
<1>3. ASSUME NEW ch \in Chans, Subscribe(ch) PROVE ReceivesEveryMessage'
  BY <1>3 DEF Subscribe, wvars, history
<1>4. ASSUME NEW ch \in Chans, Unsubscribe(ch) PROVE ReceivesEveryMessage'
  BY <1>4 DEF Unsubscribe, wvars, history
<1>5. ASSUME NEW ch \in Chans, TakeSubscribe(ch) PROVE ReceivesEveryMessage'
  BY <1>5 DEF TakeSubscribe, wvars, history
<1>6. ASSUME NEW ch \in Chans, TakeUnsubscribe(ch) PROVE ReceivesEveryMessage'
  BY <1>6 DEF TakeUnsubscribe, wvars, history
<1>7. ASSUME NEW ch \in Chans, Read(ch) PROVE ReceivesEveryMessage'
  BY <1>7 DEF Read, wvars, history
<1>8. CASE TakeMessage
  <2>1. Len(pub) > 0 /\ Len(pub') = Len(pub) - 1 /\ Taken' = Taken + 1 /\ left = {}
    BY <1>8 DEF TakeMessage
  <2> QED
    BY <1>8, <2>1 DEF TakeMessage, wvars, history
<1>9. CASE Deliver
  BY <1>9, DeliverStep
<1>10. CASE TakeStop
  BY <1>10 DEF TakeStop, wvars, history
<1>11. CASE Close
  BY <1>11 DEF Close, wvars, history
<1>12. CASE UNCHANGED vars
  BY <1>12 DEF vars
<1> QED
  BY <1>1, <1>2, <1>3, <1>4, <1>5, <1>6, <1>7, <1>8, <1>9, <1>10, <1>11, <1>12 DEF Next

(* The inductive invariant holds in every reachable state of a publisher:  *)
(* the buffer numbering, the range loop of run and the delivery guarantee  *)
(* hold together.                                                          *)
THEOREM Inductive == Spec => []IInv
<1>1. IInv /\ [Next]_vars => IInv'
  BY TypeStep, LoopStep, DeliveryStep DEF IInv
<1> QED
  BY <1>1, InitIInv, PTL DEF Spec

(* Channels never exceed their capacity and every variable keeps its type. *)
THEOREM TypeCorrect == Spec => []TypeOK
<1>1. IInv => TypeOK
  BY DEF IInv
<1> QED
  BY <1>1, Inductive, PTL

(* Whatever the interleaving of calls, a subscriber of pubsub.Publisher    *)
(* receives every message taken since it subscribed, once and in order.    *)
THEOREM Delivery == Spec => []ReceivesEveryMessage
<1>1. IInv => ReceivesEveryMessage
  BY DEF IInv
<1> QED
  BY <1>1, Inductive, PTL

(* After Unsubscribe has returned on an open publisher nothing more is put *)
(* in the channel until it subscribes again.                               *)
THEOREM Silence == Spec => SilentAfterUnsubscribe
<1> DEFINE Quiet == \A ch \in Chans : member[ch] = "out" => Len(inbox'[ch]) <= Len(inbox[ch])
<1>1. IInv /\ [Next]_vars => [Quiet]_vars
  <2> SUFFICES ASSUME IInv, Next, NEW ch \in Chans, member[ch] = "out"
               PROVE Len(inbox'[ch]) <= Len(inbox[ch])
    OBVIOUS
  <2> USE DEF IInv, TypeOK
  <2>1. CASE Deliver
    <3>1. current # ch
      BY <2>1 DEF Deliver, LoopInv, MemberInv
    <3> QED
      BY <2>1, <3>1 DEF Deliver
  <2>2. ASSUME NEW d \in Chans, Read(d) PROVE Len(inbox'[ch]) <= Len(inbox[ch])
    BY <2>2 DEF Read
  <2>3. CASE inbox' = inbox
    BY <2>3
  <2> QED
    BY <2>1, <2>2, <2>3 DEF Next, Publish, PublishSend, Subscribe, Unsubscribe,
       TakeSubscribe, TakeUnsubscribe, TakeMessage, TakeStop, Close
<1> QED
  BY <1>1, Inductive, PTL DEF Spec, SilentAfterUnsubscribe

(* The cursor of the abstract log that a channel maps to. *)
Cursor == [ch \in Chans |-> base[ch] + Len(delivered[ch])]

(* Only a subscription, a delivery or nothing at all changes what a channel *)
(* has received.                                                            *)
LEMMA CursorFrame == UNCHANGED <<base, delivered>> => UNCHANGED Cursor
BY DEF Cursor

(* One message reaches one channel: a Receive of the abstract log. *)
LEMMA RefineDeliver == IInv /\ Deliver => Log!Receive(current) /\ current \in Chans
<1> SUFFICES ASSUME IInv, Deliver PROVE Log!Receive(current) /\ current \in Chans
  OBVIOUS
<1> USE DEF IInv
<1>1. /\ current \in left /\ left \subseteq subscriptions /\ subscriptions \subseteq Chans
      /\ current \in Chans
  BY DEF Deliver, LoopInv, TypeOK
<1>2. \A m \in subscriptions : Cursor[m] = IF m \in left THEN Taken - 1 ELSE Taken
  BY <1>1, Zenon DEF Cursor, ReceivesEveryMessage
<1>3. Taken \in Int /\ Taken <= sent /\ sent \in Nat
  BY DEF TypeOK, Taken, BufferInv
<1>4. Cursor[current] < sent
  BY <1>1, <1>2, <1>3
<1>5. \A m \in subscriptions : Cursor[current] <= Cursor[m]
  BY <1>1, <1>2, <1>3
<1>6. Cursor' = [Cursor EXCEPT ![current] = @ + 1]
  <2>1. base' = base /\ Cursor' \in [Chans -> Int] /\ Cursor \in [Chans -> Int]
    <3>1. \A ch \in Chans : /\ base[ch] \in Nat /\ Len(delivered[ch]) \in Nat
                            /\ Len(delivered'[ch]) \in Nat
      BY DEF Deliver, TypeOK
    <3>2. base' = base
      BY DEF Deliver
    <3> QED
      BY <3>1, <3>2 DEF Cursor
  <2>2. Cursor'[current] = Cursor[current] + 1
    BY <1>1, <2>1 DEF Cursor, Deliver, TypeOK
  <2>3. \A ch \in Chans \ {current} : Cursor'[ch] = Cursor[ch]
    BY <1>1, <2>1 DEF Cursor, Deliver, TypeOK
  <2> QED
    BY <1>1, <2>1, <2>2, <2>3
<1>7. UNCHANGED <<sent, subscriptions>>
  BY DEF Deliver
<1> QED
  BY <1>1, <1>4, <1>5, <1>6, <1>7 DEF Log!Receive, Cursor

(* A new subscriber starts level with all the others. *)
LEMMA RefineSubscribe ==
  ASSUME IInv, NEW ch \in Chans, TakeSubscribe(ch) PROVE Log!Join(ch)
<1> USE DEF IInv
<1>1. left = {} /\ subscriptions \subseteq Chans
  BY DEF TakeSubscribe, LoopInv, TypeOK
<1>2. \A m \in subscriptions : Taken = Cursor[m]
  BY <1>1 DEF Cursor, ReceivesEveryMessage
<1>3. Taken \in 0 .. sent
  BY DEF TypeOK, Taken, BufferInv
<1>4. Cursor' = [Cursor EXCEPT ![ch] = Taken]
  <2>1. Len(delivered'[ch]) = 0 /\ base'[ch] = Taken
    BY DEF TakeSubscribe, TypeOK
  <2>2. \A d \in Chans \ {ch} : base'[d] = base[d] /\ delivered'[d] = delivered[d]
    BY DEF TakeSubscribe, TypeOK
  <2>3. Cursor'[ch] = Taken
    BY <1>3, <2>1 DEF Cursor
  <2> QED
    BY <2>2, <2>3 DEF Cursor
<1>5. subscriptions' = subscriptions \cup {ch} /\ sent' = sent
  BY DEF TakeSubscribe
<1> QED
  BY <1>2, <1>3, <1>4, <1>5 DEF Log!Join, Cursor

(* The publisher with its worker and channels implements the numbered log: *)
(* every step is one step of the log or changes nothing that it shows.     *)
THEOREM Refinement == Spec => ImplementsBroadcast
<1>1. Init => Log!BInit
  BY DEF Init, Log!BInit
<1>2. IInv /\ [Next]_vars => [Log!BNext]_(Log!bvars)
  <2> SUFFICES ASSUME IInv, [Next]_vars PROVE [Log!BNext]_(Log!bvars)
    OBVIOUS
  <2> DEFINE Same == UNCHANGED <<sent, subscriptions, Cursor>>
  <2>1. ASSUME Same PROVE [Log!BNext]_(Log!bvars)
    BY <2>1 DEF Log!bvars, Cursor
  <2>2. CASE Deliver
    <3>1. PICK ch \in Chans : Log!Receive(ch)
      BY <2>2, RefineDeliver DEF Log!Receive
    <3> QED
      BY <3>1 DEF Log!BNext
  <2>3. ASSUME NEW ch \in Chans, TakeSubscribe(ch) PROVE [Log!BNext]_(Log!bvars)
    BY <2>3, RefineSubscribe DEF Log!BNext
  <2>4. ASSUME NEW ch \in Chans, TakeUnsubscribe(ch) PROVE [Log!BNext]_(Log!bvars)
    <3>1. UNCHANGED <<sent, Cursor>> /\ subscriptions' = subscriptions \ {ch}
      BY <2>4, CursorFrame DEF TakeUnsubscribe
    <3>2. CASE ch \in subscriptions
      BY <3>1, <3>2 DEF Log!BNext, Log!Leave, Cursor
    <3>3. CASE ch \notin subscriptions
      <4>1. subscriptions' = subscriptions
        BY <3>1, <3>3
      <4> QED
        BY <3>1, <4>1, <2>1
    <3> QED
      BY <3>2, <3>3
  <2>5. ASSUME NEW c \in Callers, PublishSend(c) PROVE [Log!BNext]_(Log!bvars)
    <3>1. sent' = sent + 1 /\ UNCHANGED <<subscriptions, Cursor>>
      BY <2>5, CursorFrame DEF PublishSend, history
    <3> QED
      BY <3>1 DEF Log!BNext, Log!Send, Cursor
  <2>6. CASE UNCHANGED <<sent, subscriptions, base, delivered>>
    BY <2>6, <2>1, CursorFrame
  <2>7. CASE \/ \E c \in Callers : Publish(c)
             \/ \E ch \in Chans : Subscribe(ch) \/ Unsubscribe(ch) \/ Read(ch)
             \/ TakeMessage \/ TakeStop \/ Close
             \/ UNCHANGED vars
    <3>1. UNCHANGED <<sent, subscriptions, base, delivered>>
      BY <2>7 DEF Publish, Subscribe, Unsubscribe, TakeMessage, TakeStop, Close, Read, history, vars
    <3> QED
      BY <3>1, <2>6
  <2> QED
    BY <2>2, <2>3, <2>4, <2>5, <2>7 DEF Next
<1> QED
  BY <1>1, <1>2, Inductive, PTL DEF Spec, ImplementsBroadcast, Log!BSpec
=============================================================================
