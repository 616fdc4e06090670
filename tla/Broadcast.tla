------------------------------ MODULE Broadcast ------------------------------
(***************************************************************************)
(* What pubsub.Publisher promises its users, without the worker goroutine, *)
(* its channels or the callers that wait on them: published messages form  *)
(* one numbered log, a member receives consecutive messages of that log    *)
(* from the moment it joins, and no member runs more than one message      *)
(* ahead of another.  Publisher implements this specification.             *)
(***************************************************************************)
EXTENDS Integers

CONSTANT Chans  \* the subscriber channels

VARIABLES
  sent,     \* the number of messages accepted so far; message i is the i-th
  members,  \* the channels that receive messages
  cursor    \* cursor[ch]: the last message that ch received or skipped

bvars == <<sent, members, cursor>>

BInit == /\ sent = 0
         /\ members = {}
         /\ cursor = [ch \in Chans |-> 0]

Send == /\ sent' = sent + 1
        /\ UNCHANGED <<members, cursor>>

(* A channel joins behind the end of the log, level with the other members. *)
Join(ch) ==
  \E k \in 0 .. sent :
    /\ \A m \in members : k = cursor[m]
    /\ members' = members \cup {ch}
    /\ cursor' = [cursor EXCEPT ![ch] = k]
    /\ UNCHANGED sent

Leave(ch) == /\ ch \in members
             /\ members' = members \ {ch}
             /\ UNCHANGED <<sent, cursor>>

(* The next message of the log reaches ch, which nobody may be behind by   *)
(* more than that one message.                                             *)
Receive(ch) ==
  /\ ch \in members
  /\ cursor[ch] < sent
  /\ \A m \in members : cursor[ch] <= cursor[m]
  /\ cursor' = [cursor EXCEPT ![ch] = @ + 1]
  /\ UNCHANGED <<sent, members>>

BNext == \/ Send
         \/ \E ch \in Chans : Join(ch) \/ Leave(ch) \/ Receive(ch)

BSpec == BInit /\ [][BNext]_bvars
=============================================================================
