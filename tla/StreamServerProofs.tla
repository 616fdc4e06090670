------------------------- MODULE StreamServerProofs -------------------------
(***************************************************************************)
(* Proofs about StreamServer for every set of SDKs, keys, profiles, clients *)
(* and streams: once every notice is handled the streams are those of the   *)
(* registrar's clients, and no stream that was dropped stays open.          *)
(***************************************************************************)
EXTENDS StreamServer, RegistrarProofs

(* The places of handleSdkId where a stream is created or reset, and where *)
(* it is closed                                                            *)
Opening == {"subscribe", "unlink", "reset", "unsubscribe", "unsubscribing", "subscribing", "store"}
Closing == {"close", "leave", "leaving"}

StreamType == [state : {"unused", "open", "closed"}, sdkClient : ClientIds \cup {NoClient}]
ServeType == [at : {"select", "stuck"} \cup Opening \cup Closing, id : Ids \cup {NoSdk},
              str : StreamIds \cup {NoStream}, sdkClient : ClientIds \cup {NoClient},
              old : ClientIds \cup {NoClient}]
STypeOK ==
  /\ streams \in [Ids -> StreamIds \cup {NoStream}]
  /\ streamByKey \in [Keys -> StreamIds \cup {NoStream}]
  /\ stream \in [StreamIds -> StreamType]
  /\ serve \in ServeType

(* What server.run has at hand *)
ServeInv ==
  /\ serve.at \in Opening \cup Closing => serve.id \in Ids /\ serve.str \in StreamIds
  /\ serve.at \in Opening => streams[serve.id] = serve.str /\ serve.sdkClient \in ClientIds
  /\ serve.at \in Closing =>
       streams[serve.id] = NoStream /\ \A id \in Ids : streams[id] # serve.str
  /\ serve.at = "close" => stream[serve.str].sdkClient \in ClientIds

(* Every SDK has its own open stream; an open stream has an SDK, or is the *)
(* one that is just being closed.                                          *)
HeldInv ==
  /\ \A id \in Ids : streams[id] # NoStream =>
       stream[streams[id]].state = "open" /\ stream[streams[id]].sdkClient \in ClientIds
  /\ \A i, j \in Ids : streams[i] = streams[j] /\ streams[i] # NoStream => i = j
  /\ \A x \in StreamIds : stream[x].state = "open" =>
       (\E id \in Ids : streams[id] = x) \/ (serve.at = "close" /\ serve.str = x)

(* However old the clients are that the server holds, their keys are keys  *)
(* of the right SDK: what it does for one SDK never touches another.       *)
OwnedInv ==
  /\ \A id \in Ids : streams[id] # NoStream => Owned(stream[streams[id]].sdkClient, id)
  /\ serve.at \in Opening => Owned(serve.sdkClient, serve.id)
  /\ serve.at = "close" => Owned(stream[serve.str].sdkClient, serve.id)

(* A notice for the SDK is on its way, or will be once run gets there. *)
Midway(id) ==
  step.id = id /\ step.at \in {"deleteKeys", "deleteClose", "rotate", "resetKeys", "resetClose",
                               "addStore"}
Stale(id) == Midway(id) \/ publishing = id \/ \E i \in DOMAIN notices : notices[i] = id

(* Without one the stream is as it should be, or is being made so with the *)
(* client that the registrar holds now.                                    *)
Follows(id) ==
  /\ sdkClients[id] = NoClient => streams[id] = NoStream
  /\ sdkClients[id] # NoClient =>
       /\ streams[id] # NoStream /\ stream[streams[id]].sdkClient = sdkClients[id]
       /\ \A k \in SdkKeys(sdkClients[id]) : streamByKey[k] = streams[id]
FollowInv ==
  /\ \A id \in Ids : ~Stale(id) /\ ~(serve.at \in Opening /\ serve.id = id) => Follows(id)
  /\ serve.at \in Opening /\ ~Stale(serve.id) => serve.sdkClient = sdkClients[serve.id]
  /\ serve.at \in Opening \ {"unlink", "reset"} => stream[serve.str].sdkClient = serve.sdkClient

HandlerInv == Open /\ serve.at # "stuck" => OwnedInv /\ FollowInv
SInv == STypeOK /\ ServeInv /\ HeldInv /\ HandlerInv

-----------------------------------------------------------------------------
(* The server only reads what the registrar keeps. *)
LEMMA ServerStepIsRegistrarStep == [ServerNext]_vars => [Next]_rvars
BY DEF ServerNext, HandleSdkId, HandleStep, HandleUnlink, HandleReset, HandleClose, HandlePoll,
       HandleCall, HandleStore, Next, vars, rvars

(* Under the stream server the registrar behaves as in module Registrar:   *)
(* server.run takes notices and never writes its maps (server.go:71-106).  *)
(* Every theorem about the registrar's Spec is one about ServerSpec.       *)
THEOREM ServerImplementsRegistrar == ServerSpec => Spec
<1>1. ServerInit => Init
  BY DEF ServerInit
<1> QED
  BY <1>1, ServerStepIsRegistrarStep, PTL DEF ServerSpec, Spec

-----------------------------------------------------------------------------
(* What a step of the registrar leaves alone: the owner of a client's keys *)
(* for good, and the client and keys of an SDK unless a notice follows.    *)
StillOwned == \A c \in ClientIds, j \in Ids : Owned(c, j) => Owned(c, j)'
Announced ==
  \A j \in Ids : ~Stale(j)' =>
    /\ ~Stale(j) /\ sdkClients'[j] = sdkClients[j]
    /\ sdkClients[j] # NoClient =>
         {client'[sdkClients[j]].key1, client'[sdkClients[j]].key2} \cap Keys = SdkKeys(sdkClients[j])

LEMMA SameClients ==
  ASSUME UNCHANGED client PROVE StillOwned
BY DEF StillOwned, Owned

LEMMA ClosedClients ==
  ASSUME TypeOK, NEW c \in ClientIds, client' = CloseOf(c)
  PROVE  /\ StillOwned
         /\ \A d \in ClientIds : client'[d].key1 = client[d].key1 /\ client'[d].key2 = client[d].key2
<1>1. \A d \in ClientIds : client'[d].key1 = client[d].key1 /\ client'[d].key2 = client[d].key2
  BY CloseOfType
<1> QED
  BY <1>1 DEF StillOwned, Owned

(* refreshConfig begins, a loop ends, the keys of an old client go. *)
LEMMA QuietAnnounced ==
  ASSUME IInv, UNCHANGED <<sdkClients, client, publishing, notices>>,
         \A j \in Ids : Midway(j) => Midway(j)'
  PROVE  StillOwned /\ Announced
<1>1. StillOwned
  BY SameClients
<1>2. Announced
  BY DEF Announced, Stale, SdkKeys
<1> QED
  BY <1>1, <1>2

LEMMA DeleteAnnounced ==
  ASSUME IInv, NEW id \in Ids, DeleteSdk(id) \/ DeleteKeys \/ DeleteClose
  PROVE  StillOwned /\ Announced
<1> USE RegistrarAssumption
<1>0. step \in StepType /\ sdkClients \in [Ids -> ClientIds \cup {NoClient}]
  BY DEF IInv, TypeOK, StepType
<1>1. CASE DeleteSdk(id)
  <2>1. /\ step.at = "delete" /\ UNCHANGED <<client, publishing, notices>>
        /\ sdkClients' = [sdkClients EXCEPT ![id] = NoClient]
        /\ sdkClients[id] # NoClient => step'.at = "deleteKeys" /\ step'.id = id
    BY <1>1 DEF DeleteSdk, Ready, Place
  <2>2. \A j \in Ids : ~Midway(j) /\ (sdkClients'[j] # sdkClients[j] => Midway(j)')
    BY <1>0, <2>1 DEF Midway
  <2> QED
    BY <2>1, <2>2, SameClients DEF Announced, Stale, SdkKeys
<1>2. CASE DeleteKeys
  <2>1. /\ step.at = "deleteKeys" /\ step' = [step EXCEPT !.at = "deleteClose"]
        /\ UNCHANGED <<sdkClients, client, publishing, notices>>
    BY <1>2 DEF DeleteKeys, Ready
  <2>2. step'.at = "deleteClose" /\ step'.id = step.id
    BY <1>0, <2>1 DEF StepType
  <2> QED
    BY <2>1, <2>2, QuietAnnounced DEF Midway
<1>3. CASE DeleteClose
  <2>1. /\ step.at = "deleteClose" /\ client' = CloseOf(step.old) /\ publishing' = step.id
        /\ publishing = NoSdk /\ step.old \in ClientIds
        /\ UNCHANGED <<sdkClients, notices>>
    BY <1>3 DEF DeleteClose, Ready, IInv, StepInv, OldAtHand
  <2>2. /\ StillOwned
        /\ \A d \in ClientIds : client'[d].key1 = client[d].key1 /\ client'[d].key2 = client[d].key2
    BY <2>1, ClosedClients DEF IInv
  <2>3. \A j \in Ids : Stale(j) => Stale(j)'
    BY <2>1 DEF Stale, Midway
  <2> QED
    BY <1>0, <2>1, <2>2, <2>3 DEF Announced, SdkKeys
<1> QED
  BY <1>1, <1>2, <1>3

LEMMA CheckAnnounced ==
  ASSUME IInv, Open, Shows, NEW id \in Ids, CheckSdk(id) PROVE StillOwned /\ Announced
<1> USE RegistrarAssumption
<1> DEFINE c == sdkClients[id]
           new == profile.sdks[id]
<1>1. /\ step.at = "check" /\ id \in work.check
      /\ UNCHANGED <<sdkClients, publishing, notices>>
  BY DEF CheckSdk, Ready
<1>2. /\ c \in ClientIds /\ Owned(c, id)
      /\ client \in [ClientIds -> ClientType] /\ profile \in Profiles /\ id \in Present(profile)
  BY <1>1 DEF IInv, TypeOK, WorkInv, Shows, ProgressInv, OwnersInv
<1>3. \A j \in Ids : ~Midway(j)
  BY <1>1 DEF Midway
<1>4. CASE UNCHANGED <<client, step>>
  BY <1>1, <1>3, <1>4, QuietAnnounced
<1>5. CASE ~UNCHANGED <<client, step>>
  <2>1. /\ client[c].key1 = new.key1
        /\ client' = [client EXCEPT ![c].key2 = new.key2]
        /\ step' = Place("rotate", id, NoClient, c, client[c].key2)
    BY <1>2, <1>5 DEF CheckSdk
  <2>2. /\ client'[c].key1 = client[c].key1 /\ client'[c].key2 = new.key2
        /\ \A d \in ClientIds \ {c} : client'[d] = client[d]
    BY <1>2, <2>1 DEF ClientType
  <2>3. new.key2 \in Keys => Owner[new.key2] = id /\ new.key2 # new.key1
    BY <1>2, ProfileAssumption DEF Present
  <2>4. StillOwned
    <3> SUFFICES ASSUME NEW d \in ClientIds, NEW j \in Ids, Owned(d, j) PROVE Owned(d, j)'
      BY DEF StillOwned
    <3>1. CASE d = c
      BY <1>2, <2>1, <2>2, <2>3, <3>1 DEF Owned
    <3>2. CASE d # c
      BY <2>2, <3>2 DEF Owned
    <3> QED
      BY <3>1, <3>2
  <2>5. step'.at = "rotate" /\ step'.id = id
    BY <2>1 DEF Place
  <2>6. \A j \in Ids \ {id} : sdkClients[j] # NoClient => client'[sdkClients[j]] = client[sdkClients[j]]
    BY <1>2, <2>2 DEF IInv, TypeOK, OpenInv, Open, ClientsLive
  <2>7. Announced
    BY <1>1, <1>3, <2>5, <2>6 DEF Announced, Stale, Midway, SdkKeys
  <2> QED
    BY <2>4, <2>7
<1> QED
  BY <1>4, <1>5

(* A new client: its name was in no map. *)
LEMMA BuildAnnounced ==
  ASSUME IInv, Open, Shows, NEW id \in Ids, ResetSdk(id) \/ AddSdk(id) PROVE StillOwned /\ Announced
<1> USE RegistrarAssumption
<1>0. AddSdk(id) => sdkClients[id] = NoClient
  BY DEF AddSdk, Shows, ProgressInv
<1>1. PICK c \in ClientIds :
        /\ Fresh(c)
        /\ client' = [client EXCEPT ![c] = Built(profile.sdks[id])]
        /\ sdkClients' = [sdkClients EXCEPT ![id] = c]
        /\ step' = Place(IF step.at = "add" THEN "addStore"
                         ELSE IF sdkClients[id] = NoClient THEN "resetStore" ELSE "resetKeys",
                         id, sdkClients[id], c, NilKey)
  BY <1>0 DEF ResetSdk, AddSdk, Ready
<1>2. /\ step.at \in {"reset", "add"} /\ UNCHANGED <<publishing, notices>>
      /\ step.at = "add" <=> sdkClients[id] = NoClient
  BY <1>0 DEF ResetSdk, AddSdk, Ready, Shows, ProgressInv
<1>3. step'.at \in {"addStore", "resetKeys"} /\ step'.id = id
  BY <1>1, <1>2 DEF Place
<1>4. StillOwned
  <2>1. client[c].key1 \notin Keys /\ \A d \in ClientIds \ {c} : client'[d] = client[d]
    BY <1>1 DEF Fresh, Unborn, IInv, TypeOK
  <2> QED
    BY <2>1 DEF StillOwned, Owned
<1>5. \A j \in Ids \ {id} :
        /\ sdkClients'[j] = sdkClients[j]
        /\ sdkClients[j] # NoClient => client'[sdkClients[j]] = client[sdkClients[j]]
  <2>1. \A j \in Ids : sdkClients[j] # c /\ (sdkClients[j] # NoClient => sdkClients[j] \in ClientIds)
    BY <1>1, FreshUnlinked DEF IInv, TypeOK
  <2> QED
    BY <1>1, <2>1 DEF IInv, TypeOK
<1>6. \A j \in Ids : ~Midway(j)
  BY <1>2 DEF Midway
<1>7. Announced
  BY <1>2, <1>3, <1>5, <1>6 DEF Announced, Stale, Midway, SdkKeys
<1> QED
  BY <1>4, <1>7

LEMMA ResetAnnounced ==
  ASSUME IInv, ResetKeys \/ ResetClose \/ ResetStore \/ AddStore \/ RotateKey
  PROVE  StillOwned /\ Announced
<1> USE RegistrarAssumption
<1>0. step \in StepType /\ sdkClients \in [Ids -> ClientIds \cup {NoClient}]
  BY DEF IInv, TypeOK, StepType
<1>1. CASE ResetKeys
  <2>1. /\ step.at = "resetKeys" /\ step' = [step EXCEPT !.at = "resetClose"]
        /\ UNCHANGED <<sdkClients, client, publishing, notices>>
    BY <1>1 DEF ResetKeys, Ready
  <2>2. step'.at = "resetClose" /\ step'.id = step.id
    BY <1>0, <2>1 DEF StepType
  <2> QED
    BY <2>1, <2>2, QuietAnnounced DEF Midway
<1>2. CASE ResetClose
  <2>1. /\ step.at = "resetClose" /\ client' = CloseOf(step.old) /\ publishing' = step.id
        /\ publishing = NoSdk /\ step.old \in ClientIds
        /\ UNCHANGED <<sdkClients, notices>>
    BY <1>2 DEF ResetClose, Ready, IInv, StepInv, OldAtHand
  <2>2. /\ StillOwned
        /\ \A d \in ClientIds : client'[d].key1 = client[d].key1 /\ client'[d].key2 = client[d].key2
    BY <2>1, ClosedClients DEF IInv
  <2>3. \A j \in Ids : Stale(j) => Stale(j)'
    BY <2>1 DEF Stale, Midway
  <2> QED
    BY <1>0, <2>1, <2>2, <2>3 DEF Announced, SdkKeys
<1>3. CASE ResetStore
  <2>1. step.at = "resetStore" /\ UNCHANGED <<sdkClients, client, publishing, notices>>
    BY <1>3 DEF ResetStore, Ready
  <2> QED
    BY <2>1, QuietAnnounced DEF Midway
<1>4. CASE AddStore \/ RotateKey
  <2>1. /\ step.at \in {"addStore", "rotate"} /\ publishing' = step.id /\ publishing = NoSdk
        /\ UNCHANGED <<sdkClients, client, notices>>
    BY <1>4 DEF AddStore, RotateKey, Ready
  <2>2. \A j \in Ids : Stale(j) => Stale(j)'
    BY <2>1 DEF Stale, Midway
  <2> QED
    BY <2>1, <2>2, SameClients DEF Announced, SdkKeys
<1> QED
  BY <1>1, <1>2, <1>3, <1>4

(* An open publisher forwards the notice. *)
LEMMA PublishAnnounced ==
  ASSUME IInv, Open, Publish PROVE StillOwned /\ Announced
<1>1. /\ notices' = Append(notices, publishing) /\ notices \in Seq(Ids) /\ publishing \in Ids
      /\ UNCHANGED <<sdkClients, client, step>>
  BY DEF Publish, Open, IInv, TypeOK
<1>2. /\ \A i \in DOMAIN notices : i \in DOMAIN notices' /\ notices'[i] = notices[i]
      /\ Len(notices) + 1 \in DOMAIN notices' /\ notices'[Len(notices) + 1] = publishing
  BY <1>1
<1>3. \A j \in Ids : Stale(j) => Stale(j)'
  BY <1>1, <1>2 DEF Stale, Midway
<1> QED
  BY <1>1, <1>3, SameClients DEF Announced, SdkKeys

LEMMA StepAnnounced ==
  ASSUME IInv, Open, Shows, RefreshStep PROVE StillOwned /\ Announced
<1>1. CASE \E p \in Profiles : RefreshConfig(p)
  <2>1. step.at = "idle" /\ UNCHANGED <<sdkClients, client, publishing, notices>>
    BY <1>1 DEF RefreshConfig, Ready
  <2> QED
    BY <2>1, QuietAnnounced DEF Midway
<1>2. CASE LoopDone
  <2>1. /\ step.at \in {"delete", "check", "reset", "add"}
        /\ UNCHANGED <<sdkClients, client, publishing, notices>>
    BY <1>2 DEF LoopDone
  <2> QED
    BY <2>1, QuietAnnounced DEF Midway
<1>3. CASE DeleteKeys \/ DeleteClose
  <2>1. step.id \in Ids
    BY <1>3 DEF DeleteKeys, DeleteClose, Ready, IInv, StepInv, OldAtHand
  <2> QED
    BY <1>3, <2>1, DeleteAnnounced
<1> QED
  BY <1>1, <1>2, <1>3, DeleteAnnounced, CheckAnnounced, BuildAnnounced, ResetAnnounced,
     PublishAnnounced DEF RefreshStep

-----------------------------------------------------------------------------
(* Each step keeps the invariant. *)

LEMMA OpenBefore == ASSUME IInv, [Next]_rvars, Open' PROVE Open /\ ~CloseStep
<1>1. ~CloseStep
  BY DEF CloseStep, CloseBegin, CloseOne, CloseDelete, CloseEnd, Open, IInv, OpenInv
<1> QED
  BY <1>1 DEF Next, RegistrarStep, RefreshStep, TakeNotice, rvars, Open, RefreshConfig, DeleteSdk,
              CheckSdk, ResetSdk, AddSdk, DeleteKeys, DeleteClose, LoopDone, RotateKey, ResetKeys,
              ResetClose, ResetStore, AddStore, Publish

(* The registrar moves on while the server is anywhere in handleSdkId. *)
LEMMA RegistrarServes ==
  ASSUME IInv, SettleInv, SInv, RegistrarStep, UNCHANGED svars PROVE SInv'
<1>1. (STypeOK /\ ServeInv /\ HeldInv)'
  BY DEF SInv, svars, STypeOK, ServeInv, HeldInv
<1> SUFFICES ASSUME Open', serve.at # "stuck" PROVE (OwnedInv /\ FollowInv)'
  BY <1>1 DEF SInv, HandlerInv, svars
<1>2. Open /\ ~CloseStep
  BY OpenBefore DEF Next
<1>3. StillOwned /\ Announced
  BY <1>2, StepAnnounced DEF RegistrarStep, SettleInv
<1>4. OwnedInv /\ FollowInv /\ ServeInv /\ HeldInv
  BY <1>2 DEF SInv, HandlerInv
<1>5. OwnedInv'
  <2>1. \A id \in Ids : streams'[id] # NoStream => Owned(stream[streams[id]].sdkClient, id)'
    <3> SUFFICES ASSUME NEW id \in Ids, streams[id] # NoStream
                 PROVE  Owned(stream[streams[id]].sdkClient, id)'
      BY DEF svars
    <3>1. stream[streams[id]].sdkClient \in ClientIds /\ Owned(stream[streams[id]].sdkClient, id)
      BY <1>4 DEF HeldInv, OwnedInv
    <3> QED
      BY <1>3, <3>1 DEF StillOwned, svars, Owned
  <2>2. serve'.at \in Opening => Owned(serve.sdkClient, serve.id)'
    BY <1>3, <1>4 DEF OwnedInv, ServeInv, StillOwned, svars, Owned
  <2>3. serve'.at = "close" => Owned(stream[serve.str].sdkClient, serve.id)'
    <3> SUFFICES ASSUME serve.at = "close" PROVE Owned(stream[serve.str].sdkClient, serve.id)'
      BY DEF svars
    <3>1. /\ stream[serve.str].sdkClient \in ClientIds /\ serve.id \in Ids
          /\ Owned(stream[serve.str].sdkClient, serve.id)
      BY <1>4 DEF ServeInv, OwnedInv, Closing
    <3> QED
      BY <1>3, <3>1 DEF StillOwned, svars, Owned
  <2> QED
    BY <2>1, <2>2, <2>3 DEF OwnedInv
<1>6. FollowInv'
  <2>1. \A id \in Ids : ~Stale(id)' /\ Follows(id) => Follows(id)'
    <3> SUFFICES ASSUME NEW id \in Ids, ~Stale(id)', Follows(id) PROVE Follows(id)'
      OBVIOUS
    <3>1. /\ sdkClients'[id] = sdkClients[id]
          /\ sdkClients[id] # NoClient => SdkKeys(sdkClients[id])' = SdkKeys(sdkClients[id])
      BY <1>3 DEF Announced, SdkKeys
    <3> QED
      BY <3>1 DEF Follows, svars
  <2>2. \A id \in Ids : ~Stale(id)' /\ ~(serve.at \in Opening /\ serve.id = id)' => Follows(id)'
    BY <1>3, <1>4, <2>1 DEF FollowInv, Announced, svars
  <2>3. serve'.at \in Opening /\ ~Stale(serve.id)' => serve'.sdkClient = sdkClients'[serve.id]
    BY <1>3, <1>4 DEF FollowInv, Announced, ServeInv, svars, Stale, Midway
  <2>4. serve'.at \in Opening \ {"unlink", "reset"} => stream'[serve.str].sdkClient = serve.sdkClient
    BY <1>4 DEF FollowInv, svars
  <2> QED
    BY <2>2, <2>3, <2>4 DEF FollowInv, svars
<1> QED
  BY <1>5, <1>6

(* What the server does for one SDK leaves the others as they are. *)
LEMMA OthersFollow ==
  ASSUME UNCHANGED <<sdkClients, client>>, Shows, NEW j \in Ids, Follows(j),
         streams'[j] = streams[j],
         streams[j] # NoStream => stream'[streams[j]].sdkClient = stream[streams[j]].sdkClient,
         \A k \in Keys : Owner[k] = j => streamByKey'[k] = streamByKey[k]
  PROVE  Follows(j)'
<1>1. sdkClients[j] # NoClient => \A k \in SdkKeys(sdkClients[j]) : k \in Keys /\ Owner[k] = j
  BY DEF Shows, OwnersInv, Owned, SdkKeys
<1>2. sdkClients[j] # NoClient => SdkKeys(sdkClients[j])' = SdkKeys(sdkClients[j])
  BY DEF SdkKeys
<1> QED
  BY <1>1, <1>2 DEF Follows

LEMMA NoticeTaken ==
  ASSUME IInv, notices # <<>>, TakeNotice
  PROVE  /\ Head(notices) \in Ids
         /\ \A j \in Ids \ {Head(notices)} : Stale(j) => Stale(j)'
<1>1. /\ notices \in Seq(Ids) /\ notices' = Tail(notices)
      /\ UNCHANGED <<step, publishing>>
  BY DEF IInv, TypeOK, TakeNotice
<1>2. Head(notices) \in Ids
  BY <1>1
<1>3. ASSUME NEW j \in Ids \ {Head(notices)}, Stale(j) PROVE Stale(j)'
  <2>1. CASE Midway(j) \/ publishing = j
    BY <1>1, <2>1 DEF Stale, Midway
  <2>2. CASE \E i \in DOMAIN notices : notices[i] = j
    <3>1. PICK i \in DOMAIN notices : notices[i] = j
      BY <2>2
    <3>2. i # 1 /\ i \in 1 .. Len(notices)
      BY <1>1, <3>1
    <3>3. i - 1 \in DOMAIN notices' /\ notices'[i - 1] = notices[i]
      BY <1>1, <3>2
    <3> QED
      BY <3>1, <3>3 DEF Stale
  <2> QED
    BY <1>3, <2>1, <2>2 DEF Stale
<1> QED
  BY <1>2, <1>3

(* handleSdkId begins: the lookup and the stream's entry. *)
LEMMA HandleIdServes ==
  ASSUME IInv, SettleInv, SInv, HandleSdkId PROVE SInv'
<1> USE RegistrarAssumption, StreamServerAssumption
<1>0. PICK id \in Ids : id = Head(notices)
  BY NoticeTaken DEF HandleSdkId
<1> DEFINE c == sdkClients[id]
           here == streams[id]
<1>1. /\ serve.at = "select" /\ UNCHANGED <<sdkClients, client, closing, streamByKey>>
      /\ id \in Ids /\ \A j \in Ids \ {id} : Stale(j) => Stale(j)'
  BY <1>0, NoticeTaken DEF HandleSdkId, TakeNotice
<1>2. /\ STypeOK /\ ServeInv /\ HeldInv /\ c \in ClientIds \cup {NoClient}
      /\ here \in StreamIds \cup {NoStream}
  BY <1>1 DEF SInv, STypeOK, IInv, TypeOK
<1>3. Open => OwnedInv /\ FollowInv /\ Shows
  BY <1>1 DEF SInv, HandlerInv, SettleInv
<1>4. Waiting \in ServeType
  BY DEF Waiting, ServeType
<1>5. CASE c # NoClient /\ here = NoStream
  <2>1. PICK x \in StreamIds :
          /\ FreshStream(x) /\ streams' = [streams EXCEPT ![id] = x]
          /\ stream' = [stream EXCEPT ![x] = [state |-> "open", sdkClient |-> c]]
          /\ serve' = [Waiting EXCEPT !.at = "subscribe", !.id = id, !.str = x, !.sdkClient = c]
    BY <1>0, <1>5 DEF HandleSdkId
  <2>2. /\ serve'.at = "subscribe" /\ serve'.id = id /\ serve'.str = x /\ serve'.sdkClient = c
        /\ serve' \in ServeType
    BY <1>1, <1>2, <1>4, <2>1 DEF ServeType, Opening, Waiting
  <2>3. /\ streams'[id] = x /\ \A j \in Ids \ {id} : streams'[j] = streams[j]
        /\ stream'[x] = [state |-> "open", sdkClient |-> c]
        /\ \A y \in StreamIds \ {x} : stream'[y] = stream[y]
        /\ x # NoStream
    BY <1>1, <1>2, <2>1 DEF STypeOK
  <2>4. \A j \in Ids : streams[j] # x
    BY <1>2, <2>1 DEF FreshStream, UnusedStream, HeldInv, NoStream
  <2>5. \A j \in Ids \ {id} : streams[j] # NoStream => stream'[streams'[j]] = stream[streams[j]]
    <3>1. \A j \in Ids : streams[j] # NoStream => streams[j] \in StreamIds \ {x}
      BY <1>2, <2>4 DEF STypeOK
    <3> QED
      BY <2>3, <3>1
  <2>6. STypeOK'
    BY <1>1, <1>2, <2>1, <2>2 DEF STypeOK, StreamType
  <2>7. ServeInv'
    BY <1>1, <1>2, <1>5, <2>2, <2>3 DEF ServeInv, Opening, Closing
  <2>8. HeldInv'
    <3>1. \A j \in Ids : streams'[j] # NoStream =>
            stream'[streams'[j]].state = "open" /\ stream'[streams'[j]].sdkClient \in ClientIds
      BY <1>2, <1>5, <2>3, <2>5 DEF HeldInv
    <3>2. \A i, j \in Ids : streams'[i] = streams'[j] /\ streams'[i] # NoStream => i = j
      BY <1>2, <2>3, <2>4 DEF HeldInv
    <3>3. \A y \in StreamIds : stream'[y].state = "open" => \E j \in Ids : streams'[j] = y
      BY <1>1, <1>2, <1>5, <2>3 DEF HeldInv
    <3> QED
      BY <3>1, <3>2, <3>3 DEF HeldInv
  <2>9. ASSUME Open' PROVE (OwnedInv /\ FollowInv)'
    <3>1. OwnedInv /\ FollowInv /\ Shows
      BY <1>1, <1>3, <2>9 DEF Open
    <3>2. Owned(c, id)
      BY <1>1, <1>5, <3>1 DEF Shows, OwnersInv
    <3>3. \A j \in Ids : streams'[j] # NoStream => Owned(stream[streams[j]].sdkClient, j)'
      <4>1. Owned(stream[streams[id]].sdkClient, id)'
        BY <1>1, <2>3, <3>2 DEF Owned
      <4>2. \A j \in Ids \ {id} : streams'[j] # NoStream => Owned(stream[streams[j]].sdkClient, j)'
        <5>1. \A j \in Ids \ {id} : streams'[j] # NoStream =>
                Owned(stream[streams[j]].sdkClient, j) /\ stream'[streams'[j]] = stream[streams[j]]
          BY <2>3, <2>5, <3>1 DEF OwnedInv
        <5> QED
          BY <1>1, <5>1 DEF Owned
      <4> QED
        BY <4>1, <4>2
    <3>4. OwnedInv'
      BY <1>1, <2>2, <3>2, <3>3 DEF OwnedInv, Owned
    <3>5. \A j \in Ids \ {id} : ~Stale(j)' => Follows(j)'
      <4> SUFFICES ASSUME NEW j \in Ids \ {id}, ~Stale(j)' PROVE Follows(j)'
        OBVIOUS
      <4>1. Follows(j)
        BY <1>1, <3>1 DEF FollowInv, Opening
      <4>2. streams[j] # NoStream => stream'[streams[j]].sdkClient = stream[streams[j]].sdkClient
        BY <2>3, <2>5
      <4> QED
        BY <1>1, <2>3, <3>1, <4>1, <4>2, OthersFollow
    <3>6. FollowInv'
      BY <1>1, <2>2, <2>3, <3>5 DEF FollowInv, Opening
    <3> QED
      BY <3>4, <3>6
  <2> QED
    BY <2>6, <2>7, <2>8, <2>9 DEF SInv, HandlerInv
<1>6. CASE c # NoClient /\ here # NoStream
  <2>1. /\ serve' = [Waiting EXCEPT !.at = "unlink", !.id = id, !.str = here, !.sdkClient = c]
        /\ UNCHANGED <<streams, stream>>
    BY <1>0, <1>6 DEF HandleSdkId
  <2>2. /\ serve'.at = "unlink" /\ serve'.id = id /\ serve'.str = here /\ serve'.sdkClient = c
        /\ serve' \in ServeType
    BY <1>1, <1>2, <1>4, <2>1 DEF ServeType, Opening, Waiting
  <2>3. (STypeOK /\ ServeInv /\ HeldInv)'
    BY <1>1, <1>2, <1>6, <2>1, <2>2 DEF STypeOK, ServeInv, HeldInv, Opening, Closing
  <2>4. ASSUME Open' PROVE (OwnedInv /\ FollowInv)'
    <3>1. OwnedInv /\ FollowInv /\ Shows
      BY <1>1, <1>3, <2>4 DEF Open
    <3>2. Owned(c, id)
      BY <1>1, <1>6, <3>1 DEF Shows, OwnersInv
    <3>3. OwnedInv'
      BY <1>1, <2>1, <2>2, <3>1, <3>2 DEF OwnedInv, Owned
    <3>4. \A j \in Ids \ {id} : ~Stale(j)' => Follows(j)'
      BY <1>1, <2>1, <3>1, OthersFollow DEF FollowInv, Opening
    <3>5. FollowInv'
      BY <1>1, <2>2, <3>4 DEF FollowInv, Opening
    <3> QED
      BY <3>3, <3>5
  <2> QED
    BY <2>3, <2>4 DEF SInv, HandlerInv
<1>7. CASE c = NoClient /\ here # NoStream
  <2>1. /\ serve' = [Waiting EXCEPT !.at = "close", !.id = id, !.str = here, !.sdkClient = c]
        /\ streams' = [streams EXCEPT ![id] = NoStream] /\ UNCHANGED stream
    BY <1>0, <1>7 DEF HandleSdkId
  <2>2. /\ serve'.at = "close" /\ serve'.id = id /\ serve'.str = here /\ serve' \in ServeType
    BY <1>1, <1>2, <1>4, <2>1 DEF ServeType, Closing, Waiting
  <2>3. /\ streams'[id] = NoStream /\ \A j \in Ids \ {id} : streams'[j] = streams[j]
        /\ streams' \in [Ids -> StreamIds \cup {NoStream}]
    BY <1>1, <1>2, <2>1 DEF STypeOK
  <2>4. STypeOK' /\ ServeInv'
    BY <1>1, <1>2, <1>7, <2>1, <2>2, <2>3 DEF STypeOK, ServeInv, HeldInv, Opening, Closing
  <2>5. HeldInv'
    BY <1>1, <1>2, <2>1, <2>2, <2>3 DEF HeldInv
  <2>6. ASSUME Open' PROVE (OwnedInv /\ FollowInv)'
    <3>1. OwnedInv /\ FollowInv /\ Shows
      BY <1>1, <1>3, <2>6 DEF Open
    <3>2. OwnedInv'
      <4>1. Owned(stream[serve.str].sdkClient, serve.id)'
        <5>1. Owned(stream[here].sdkClient, id)
          BY <1>1, <1>7, <3>1 DEF OwnedInv
        <5>2. stream'[serve'.str].sdkClient = stream[here].sdkClient /\ serve'.id = id
          BY <2>1, <2>2
        <5> QED
          BY <1>1, <5>1, <5>2 DEF Owned
      <4>2. \A j \in Ids : streams'[j] # NoStream => Owned(stream[streams[j]].sdkClient, j)'
        BY <1>1, <2>1, <2>3, <3>1 DEF OwnedInv, Owned
      <4> QED
        BY <2>2, <4>1, <4>2 DEF OwnedInv, Opening
    <3>3. \A j \in Ids \ {id} : ~Stale(j)' => Follows(j)'
      BY <1>1, <2>1, <2>3, <3>1, OthersFollow DEF FollowInv, Opening
    <3>4. Follows(id)'
      BY <1>1, <1>7, <2>3 DEF Follows
    <3>5. FollowInv'
      BY <2>2, <3>3, <3>4 DEF FollowInv, Opening
    <3> QED
      BY <3>2, <3>5
  <2> QED
    BY <2>4, <2>5, <2>6 DEF SInv, HandlerInv
<1>8. CASE c = NoClient /\ here = NoStream
  <2>1. UNCHANGED <<streams, stream, serve>>
    BY <1>0, <1>8 DEF HandleSdkId
  <2>2. (STypeOK /\ ServeInv /\ HeldInv)'
    BY <1>1, <1>2, <2>1 DEF STypeOK, ServeInv, HeldInv
  <2>3. ASSUME Open' PROVE (OwnedInv /\ FollowInv)'
    <3>1. OwnedInv /\ FollowInv /\ Shows
      BY <1>1, <1>3, <2>3 DEF Open
    <3>2. OwnedInv'
      BY <1>1, <2>1, <3>1 DEF OwnedInv, Owned, Opening
    <3>3. \A j \in Ids \ {id} : ~Stale(j)' => Follows(j)'
      BY <1>1, <2>1, <3>1, OthersFollow DEF FollowInv, Opening
    <3>4. Follows(id)'
      BY <1>1, <1>8, <2>1 DEF Follows
    <3>5. FollowInv'
      BY <1>1, <2>1, <3>3, <3>4 DEF FollowInv, Opening
    <3> QED
      BY <3>2, <3>5
  <2> QED
    BY <2>2, <2>3 DEF SInv, HandlerInv
<1> QED
  BY <1>5, <1>6, <1>7, <1>8

LEMMA UnlinkServes ==
  ASSUME IInv, SettleInv, SInv, HandleUnlink PROVE SInv'
<1> DEFINE d == stream[serve.str].sdkClient
<1>1. /\ serve.at = "unlink" /\ serve' = [serve EXCEPT !.at = "reset"]
      /\ streamByKey' = UnlinkKeys(serve.str)
      /\ UNCHANGED <<streams, stream, sdkClients, client, closing, step, publishing, notices>>
  BY DEF HandleUnlink, rvars
<1>2. /\ STypeOK /\ ServeInv /\ HeldInv /\ streams[serve.id] = serve.str
      /\ serve.id \in Ids /\ serve.str \in StreamIds
  BY <1>1 DEF SInv, ServeInv, Opening
<1>3. /\ serve' \in ServeType /\ serve'.at = "reset" /\ serve'.id = serve.id
      /\ serve'.str = serve.str /\ serve'.sdkClient = serve.sdkClient
  BY <1>1, <1>2 DEF STypeOK, ServeType, Opening
<1>4. (STypeOK /\ ServeInv /\ HeldInv)'
  BY <1>1, <1>2, <1>3 DEF STypeOK, ServeInv, HeldInv, Opening, Closing, UnlinkKeys
<1>5. ASSUME Open' PROVE (OwnedInv /\ FollowInv)'
  <2>1. OwnedInv /\ FollowInv /\ Shows
    BY <1>1, <1>5 DEF SInv, HandlerInv, SettleInv, Open
  <2>2. OwnedInv'
    BY <1>1, <1>3, <2>1 DEF OwnedInv, Owned, Opening
  <2>3. \A k \in Keys : Owner[k] # serve.id => streamByKey'[k] = streamByKey[k]
    <3>1. Owned(d, serve.id)
      BY <1>2, <2>1, StreamServerAssumption DEF OwnedInv
    <3> QED
      BY <1>1, <3>1 DEF UnlinkKeys, SdkKeys, Owned
  <2>4. \A j \in Ids : Stale(j)' <=> Stale(j)
    BY <1>1 DEF Stale, Midway
  <2>5. \A j \in Ids \ {serve.id} : ~Stale(j)' => Follows(j)'
    <3> SUFFICES ASSUME NEW j \in Ids \ {serve.id}, ~Stale(j)' PROVE Follows(j)'
      OBVIOUS
    <3>1. Follows(j) /\ \A k \in Keys : Owner[k] = j => streamByKey'[k] = streamByKey[k]
      BY <2>1, <2>3, <2>4 DEF FollowInv
    <3> QED
      BY <1>1, <2>1, <3>1, OthersFollow
  <2>6. FollowInv'
    BY <1>1, <1>2, <1>3, <2>1, <2>4, <2>5 DEF FollowInv, Opening
  <2> QED
    BY <2>2, <2>6
<1> QED
  BY <1>4, <1>5 DEF SInv, HandlerInv

LEMMA ResetServes ==
  ASSUME IInv, SettleInv, SInv, HandleReset PROVE SInv'
<1> USE StreamServerAssumption
<1> DEFINE x == serve.str
<1>1. /\ serve.at = "reset"
      /\ serve' = [serve EXCEPT !.at = "unsubscribe", !.old = stream[serve.str].sdkClient]
      /\ stream' = [stream EXCEPT ![serve.str].sdkClient = serve.sdkClient]
      /\ UNCHANGED <<streams, streamByKey, sdkClients, client, closing, step, publishing, notices>>
  BY DEF HandleReset, rvars
<1>2. /\ STypeOK /\ ServeInv /\ HeldInv /\ streams[serve.id] = serve.str
      /\ serve.id \in Ids /\ serve.str \in StreamIds /\ serve.sdkClient \in ClientIds
      /\ serve \in ServeType /\ stream \in [StreamIds -> StreamType]
  BY <1>1 DEF SInv, STypeOK, ServeInv, Opening
<1>3. /\ serve'.at = "unsubscribe" /\ serve'.id = serve.id /\ serve'.str = serve.str
      /\ serve'.sdkClient = serve.sdkClient /\ serve' \in ServeType
  <2>1. stream[serve.str].sdkClient \in ClientIds \cup {NoClient}
    BY <1>2 DEF StreamType
  <2> QED
    BY <1>1, <1>2, <2>1 DEF ServeType, Opening
<1>4. /\ stream'[x].sdkClient = serve.sdkClient /\ stream'[x].state = stream[x].state
      /\ \A y \in StreamIds \ {x} : stream'[y] = stream[y]
      /\ stream' \in [StreamIds -> StreamType]
  BY <1>1, <1>2 DEF StreamType
<1>5. \A j \in Ids \ {serve.id} : streams[j] # NoStream => streams[j] \in StreamIds \ {x}
  BY <1>2 DEF STypeOK, HeldInv
<1>6. STypeOK' /\ ServeInv'
  BY <1>1, <1>2, <1>3, <1>4 DEF STypeOK, ServeInv, Opening, Closing
<1>7. HeldInv'
  <2>1. \A j \in Ids : streams[j] # NoStream =>
          stream'[streams[j]].state = "open" /\ stream'[streams[j]].sdkClient \in ClientIds
    <3>1. stream'[x].state = "open" /\ stream'[x].sdkClient \in ClientIds
      BY <1>2, <1>4 DEF HeldInv, NoStream
    <3>2. \A j \in Ids \ {serve.id} : streams[j] # NoStream => stream'[streams[j]] = stream[streams[j]]
      BY <1>4, <1>5
    <3> QED
      BY <1>2, <3>1, <3>2 DEF HeldInv
  <2>2. \A y \in StreamIds : stream'[y].state = "open" => \E j \in Ids : streams[j] = y
    BY <1>1, <1>2, <1>4 DEF HeldInv
  <2> QED
    BY <1>1, <1>2, <2>1, <2>2 DEF HeldInv
<1>8. ASSUME Open' PROVE (OwnedInv /\ FollowInv)'
  <2>1. OwnedInv /\ FollowInv /\ Shows
    BY <1>1, <1>8 DEF SInv, HandlerInv, SettleInv, Open
  <2>2. Owned(serve.sdkClient, serve.id)
    BY <1>1, <2>1 DEF OwnedInv, Opening
  <2>3. \A j \in Ids : streams'[j] # NoStream => Owned(stream[streams[j]].sdkClient, j)'
    <3>1. \A j \in Ids : streams[j] # NoStream => Owned(stream'[streams[j]].sdkClient, j)
      BY <1>2, <1>4, <1>5, <2>1, <2>2 DEF OwnedInv
    <3> QED
      BY ZenonT(30), <1>1, <3>1 DEF Owned
  <2>4. OwnedInv'
    BY <1>1, <1>3, <2>2, <2>3 DEF OwnedInv, Owned
  <2>5. \A j \in Ids : Stale(j)' <=> Stale(j)
    BY <1>1 DEF Stale, Midway
  <2>6. \A j \in Ids \ {serve.id} : ~Stale(j)' => Follows(j)'
    <3> SUFFICES ASSUME NEW j \in Ids \ {serve.id}, ~Stale(j)' PROVE Follows(j)'
      OBVIOUS
    <3>1. Follows(j)
      BY <2>1, <2>5 DEF FollowInv
    <3>2. streams[j] # NoStream => stream'[streams[j]].sdkClient = stream[streams[j]].sdkClient
      BY <1>4, <1>5
    <3> QED
      BY <1>1, <2>1, <3>1, <3>2, OthersFollow
  <2>7. FollowInv'
    BY <1>1, <1>2, <1>3, <1>4, <2>1, <2>5, <2>6 DEF FollowInv, Opening
  <2> QED
    BY <2>4, <2>7
<1> QED
  BY <1>6, <1>7, <1>8 DEF SInv, HandlerInv

LEMMA CloseServes ==
  ASSUME IInv, SettleInv, SInv, HandleClose PROVE SInv'
<1> USE StreamServerAssumption
<1> DEFINE x == serve.str
<1>1. /\ serve.at = "close" /\ streamByKey' = UnlinkKeys(serve.str)
      /\ serve' = [serve EXCEPT !.at = "leave", !.old = stream[serve.str].sdkClient]
      /\ stream' = [stream EXCEPT ![serve.str].state = "closed"]
      /\ UNCHANGED <<streams, sdkClients, client, closing, step, publishing, notices>>
  BY DEF HandleClose, rvars
<1>2. /\ STypeOK /\ ServeInv /\ HeldInv /\ serve.id \in Ids /\ serve.str \in StreamIds
      /\ streams[serve.id] = NoStream /\ \A j \in Ids : streams[j] # serve.str
      /\ serve \in ServeType /\ stream \in [StreamIds -> StreamType]
  BY <1>1 DEF SInv, STypeOK, ServeInv, Closing
<1>3. serve'.at = "leave" /\ serve'.id = serve.id /\ serve'.str = serve.str /\ serve' \in ServeType
  <2>1. stream[serve.str].sdkClient \in ClientIds \cup {NoClient}
    BY <1>2 DEF StreamType
  <2> QED
    BY <1>1, <1>2, <2>1 DEF ServeType, Closing
<1>4. /\ stream'[x].state = "closed"
      /\ \A y \in StreamIds \ {x} : stream'[y] = stream[y]
      /\ stream' \in [StreamIds -> StreamType]
  BY <1>1, <1>2 DEF StreamType
<1>5. \A j \in Ids : streams[j] # NoStream => stream'[streams[j]] = stream[streams[j]]
  <2>1. \A j \in Ids : streams[j] # NoStream => streams[j] \in StreamIds \ {x}
    BY <1>2 DEF STypeOK
  <2> QED
    BY <1>4, <2>1
<1>6. STypeOK' /\ ServeInv'
  BY <1>1, <1>2, <1>3, <1>4 DEF STypeOK, ServeInv, Opening, Closing, UnlinkKeys
<1>7. HeldInv'
  <2>1. \A y \in StreamIds : stream'[y].state = "open" => \E j \in Ids : streams[j] = y
    BY <1>1, <1>2, <1>4 DEF HeldInv
  <2> QED
    BY <1>1, <1>2, <1>5, <2>1 DEF HeldInv
<1>8. ASSUME Open' PROVE (OwnedInv /\ FollowInv)'
  <2>1. OwnedInv /\ FollowInv /\ Shows
    BY <1>1, <1>8 DEF SInv, HandlerInv, SettleInv, Open
  <2>2. OwnedInv'
    <3>1. \A j \in Ids : streams'[j] # NoStream => Owned(stream[streams[j]].sdkClient, j)'
      <4>1. \A j \in Ids : streams[j] # NoStream => Owned(stream'[streams[j]].sdkClient, j)
        BY <1>5, <2>1 DEF OwnedInv
      <4> QED
        BY ZenonT(30), <1>1, <4>1 DEF Owned
    <3> QED
      BY <1>3, <3>1 DEF OwnedInv, Opening
  <2>3. \A k \in Keys : Owner[k] # serve.id => streamByKey'[k] = streamByKey[k]
    BY <1>1, <2>1 DEF UnlinkKeys, SdkKeys, Owned, OwnedInv
  <2>4. \A j \in Ids : Stale(j)' <=> Stale(j)
    BY <1>1 DEF Stale, Midway
  <2>5. ASSUME NEW j \in Ids, ~Stale(j)' PROVE Follows(j)'
    <3>1. Follows(j)
      BY <1>1, <2>1, <2>4, <2>5 DEF FollowInv, Opening
    <3>2. CASE sdkClients[j] = NoClient
      BY <1>1, <3>1, <3>2 DEF Follows
    <3>3. CASE sdkClients[j] # NoClient
      <4>1. j # serve.id
        BY <1>2, <3>1, <3>3 DEF Follows
      <4>2. \A k \in Keys : Owner[k] = j => streamByKey'[k] = streamByKey[k]
        BY <2>3, <4>1
      <4> QED
        BY <1>1, <1>5, <2>1, <3>1, <4>2, OthersFollow
    <3> QED
      BY <3>2, <3>3
  <2>6. FollowInv'
    BY <1>3, <2>5 DEF FollowInv, Opening
  <2> QED
    BY <2>2, <2>6
<1> QED
  BY <1>6, <1>7, <1>8 DEF SInv, HandlerInv

(* Publisher.Subscribe and Unsubscribe return, wait, or never return. *)
LEMMA PollServes ==
  ASSUME IInv, SettleInv, SInv, HandlePoll \/ HandleCall PROVE SInv'
<1>1. /\ UNCHANGED <<streams, streamByKey, stream, sdkClients, client, closing, step, publishing,
                     notices>>
      /\ STypeOK /\ ServeInv /\ HeldInv /\ serve \in ServeType
  BY DEF HandlePoll, HandleCall, rvars, SInv, STypeOK
<1>2. \/ /\ serve.at \in {"leave", "leaving"} /\ serve'.at \in {"leaving", "select", "stuck"}
      \/ /\ serve.at \in {"unsubscribe", "unsubscribing", "subscribe", "subscribing"}
         /\ serve'.at \in {"unsubscribing", "subscribe", "subscribing", "store", "stuck"}
  BY <1>1 DEF HandlePoll, HandleCall, Proceed, Polls, Returns, Waiting, ServeType
<1>3. serve' \in ServeType /\ (serve'.at # "select" =>
        serve'.id = serve.id /\ serve'.str = serve.str /\ serve'.sdkClient = serve.sdkClient)
  <2>1. serve' = Waiting \/ \E at \in {"stuck"} \cup Opening \cup Closing : serve' = [serve EXCEPT !.at = at]
    BY DEF HandlePoll, HandleCall, Proceed, Polls, Returns, Opening, Closing
  <2> QED
    BY <1>1, <2>1 DEF ServeType, Waiting
<1>4. (STypeOK /\ ServeInv /\ HeldInv)'
  BY <1>1, <1>2, <1>3 DEF STypeOK, ServeInv, HeldInv, Opening, Closing
<1>5. ASSUME Open', serve'.at # "stuck" PROVE (OwnedInv /\ FollowInv)'
  <2>1. OwnedInv /\ FollowInv
    BY <1>1, <1>2, <1>5 DEF SInv, HandlerInv, Open
  <2>2. OwnedInv'
    BY <1>1, <1>2, <1>3, <2>1 DEF OwnedInv, Owned, Opening
  <2>3. \A j \in Ids : (Stale(j)' <=> Stale(j)) /\ (Follows(j)' <=> Follows(j))
    BY <1>1 DEF Stale, Midway, Follows, SdkKeys
  <2>4. FollowInv'
    <3>1. CASE serve'.at \in Opening
      <4>1. serve.at \in Opening \ {"unlink", "reset"} /\ serve.id \in Ids
        BY <1>1, <1>2, <3>1 DEF Opening, ServeInv
      <4> QED
        BY <1>1, <1>2, <1>3, <2>1, <2>3, <3>1, <4>1 DEF FollowInv, Opening
    <3>2. CASE serve'.at \notin Opening
      BY <1>2, <1>5, <2>1, <2>3, <3>2 DEF FollowInv, Opening
    <3> QED
      BY <3>1, <3>2
  <2> QED
    BY <2>2, <2>4
<1> QED
  BY <1>4, <1>5 DEF SInv, HandlerInv

(* The stream is on its client: store the keys that client has by now. *)
LEMMA StoreServes ==
  ASSUME IInv, SettleInv, SInv, HandleStore PROVE SInv'
<1>1. /\ serve.at = "store" /\ serve' = Waiting
      /\ streamByKey' = [k \in Keys |-> IF k \in SdkKeys(serve.sdkClient) THEN serve.str
                                         ELSE streamByKey[k]]
      /\ UNCHANGED <<streams, stream, sdkClients, client, closing, step, publishing, notices>>
  BY DEF HandleStore, rvars
<1>2. /\ STypeOK /\ ServeInv /\ HeldInv /\ streams[serve.id] = serve.str
      /\ serve.id \in Ids /\ serve.str \in StreamIds /\ serve.sdkClient \in ClientIds
  BY <1>1 DEF SInv, ServeInv, Opening
<1>3. serve' \in ServeType /\ serve'.at = "select"
  BY <1>1 DEF Waiting, ServeType
<1>4. (STypeOK /\ ServeInv /\ HeldInv)'
  BY <1>1, <1>2, <1>3 DEF STypeOK, ServeInv, HeldInv, Opening, Closing
<1>5. ASSUME Open' PROVE (OwnedInv /\ FollowInv)'
  <2>1. OwnedInv /\ FollowInv /\ Shows
    BY <1>1, <1>5 DEF SInv, HandlerInv, SettleInv, Open
  <2>2. OwnedInv'
    BY <1>1, <1>3, <2>1 DEF OwnedInv, Owned, Opening
  <2>3. \A k \in Keys : Owner[k] # serve.id => streamByKey'[k] = streamByKey[k]
    <3>1. Owned(serve.sdkClient, serve.id)
      BY <1>1, <2>1 DEF OwnedInv, Opening
    <3> QED
      BY <1>1, <3>1 DEF SdkKeys, Owned
  <2>4. \A j \in Ids : Stale(j)' <=> Stale(j)
    BY <1>1 DEF Stale, Midway
  <2>5. ASSUME NEW j \in Ids, ~Stale(j)' PROVE Follows(j)'
    <3>1. CASE j # serve.id
      <4>1. Follows(j) /\ \A k \in Keys : Owner[k] = j => streamByKey'[k] = streamByKey[k]
        BY <2>1, <2>3, <2>4, <2>5, <3>1 DEF FollowInv
      <4> QED
        BY <1>1, <2>1, <4>1, OthersFollow
    <3>2. CASE j = serve.id
      <4>1. serve.sdkClient = sdkClients[j] /\ stream[serve.str].sdkClient = serve.sdkClient
        BY <1>1, <2>1, <2>4, <2>5, <3>2 DEF FollowInv, Opening
      <4>2. /\ sdkClients'[j] # NoClient /\ streams'[j] # NoStream
            /\ stream'[streams'[j]].sdkClient = sdkClients'[j]
        BY <1>1, <1>2, <3>2, <4>1, StreamServerAssumption, RegistrarAssumption
      <4>3. \A k \in SdkKeys(sdkClients[j])' : streamByKey'[k] = streams'[j]
        BY <1>1, <1>2, <3>2, <4>1 DEF SdkKeys
      <4> QED
        BY <4>2, <4>3 DEF Follows
    <3> QED
      BY <3>1, <3>2
  <2>6. FollowInv'
    BY <1>3, <2>5 DEF FollowInv, Opening
  <2> QED
    BY <2>2, <2>6
<1> QED
  BY <1>4, <1>5 DEF SInv, HandlerInv

-----------------------------------------------------------------------------
(* NewServer: one stream per client of the registrar, under all its keys. *)
LEMMA ServerInitInv == ServerInit => SInv
<1> USE RegistrarAssumption, StreamServerAssumption
<1> SUFFICES ASSUME ServerInit PROVE SInv
  OBVIOUS
<1>1. IInv /\ Shows /\ step.at = "idle" /\ serve = Waiting /\ serve.at = "select"
  BY InitIInv, InitSettled
     DEF ServerInit, SettleInv, Open, Init, Idle, At, Place, Waiting
<1>2. /\ sdkClients \in [Ids -> ClientIds \cup {NoClient}]
      /\ byKey \in [AllKeys -> ClientIds \cup {NoClient}]
      /\ \A i, j \in Ids : sdkClients[i] = sdkClients[j] /\ sdkClients[i] # NoClient => i = j
  BY <1>1 DEF IInv, TypeOK, OpenInv, ClientsLive, ServerInit, Init
<1>3. /\ streams \in [Ids -> StreamIds \cup {NoStream}]
      /\ \A id \in Ids : streams[id] = NoStream <=> sdkClients[id] = NoClient
      /\ \A i, j \in Ids : streams[i] <= streams[j] <=> sdkClients[i] <= sdkClients[j]
  BY DEF ServerInit, Named
<1>4. stream = [x \in StreamIds |->
                   IF \E id \in Ids : streams[id] = x
                     THEN [state |-> "open",
                           sdkClient |-> sdkClients[CHOOSE id \in Ids : streams[id] = x]]
                     ELSE UnusedStream]
  BY DEF ServerInit
<1>5. \A i, j \in Ids : streams[i] = streams[j] /\ streams[i] # NoStream => i = j
  <2> SUFFICES ASSUME NEW i \in Ids, NEW j \in Ids, streams[i] = streams[j], streams[i] # NoStream
               PROVE  i = j
    OBVIOUS
  <2>1. streams[i] \in Nat /\ sdkClients[i] \in Nat /\ sdkClients[j] \in Nat
    BY <1>2, <1>3 DEF NoStream, NoClient
  <2>2. sdkClients[i] <= sdkClients[j] /\ sdkClients[j] <= sdkClients[i]
    BY <1>3, <2>1
  <2>3. sdkClients[i] = sdkClients[j] /\ sdkClients[i] # NoClient
    BY <1>3, <2>1, <2>2
  <2> QED
    BY <1>2, <2>3
<1>6. \A id \in Ids : streams[id] # NoStream =>
        stream[streams[id]] = [state |-> "open", sdkClient |-> sdkClients[id]]
  <2> SUFFICES ASSUME NEW id \in Ids, streams[id] # NoStream
               PROVE  stream[streams[id]] = [state |-> "open", sdkClient |-> sdkClients[id]]
    OBVIOUS
  <2>1. (CHOOSE j \in Ids : streams[j] = streams[id]) = id
    BY <1>5
  <2> QED
    BY <1>3, <1>4, <2>1
<1>7. \A id \in Ids : streams[id] # NoStream =>
         stream[streams[id]].state = "open" /\ stream[streams[id]].sdkClient = sdkClients[id]
  <2> SUFFICES ASSUME NEW id \in Ids, streams[id] # NoStream
               PROVE  stream[streams[id]].state = "open" /\ stream[streams[id]].sdkClient = sdkClients[id]
    OBVIOUS
  <2>1. stream[streams[id]] = [state |-> "open", sdkClient |-> sdkClients[id]]
    BY <1>6
  <2> QED
    BY <2>1
<1>8. \A x \in StreamIds : stream[x] \in StreamType /\
        (stream[x].state = "open" => \E id \in Ids : streams[id] = x)
  <2> SUFFICES ASSUME NEW x \in StreamIds
               PROVE  stream[x] \in StreamType /\
                      (stream[x].state = "open" => \E id \in Ids : streams[id] = x)
    OBVIOUS
  <2>1. CASE \E id \in Ids : streams[id] = x
    <3>1. PICK id \in Ids : streams[id] = x
      BY <2>1
    <3>2. stream[x] = [state |-> "open", sdkClient |-> sdkClients[id]]
      BY <1>6, <3>1
    <3> QED
      BY <1>2, <3>1, <3>2 DEF StreamType
  <2>2. CASE ~\E id \in Ids : streams[id] = x
    BY <1>4, <2>2 DEF UnusedStream, StreamType
  <2> QED
    BY <2>1, <2>2
<1>9. STypeOK
  <2>1. streamByKey \in [Keys -> StreamIds \cup {NoStream}]
    BY <1>3 DEF ServerInit
  <2>2. stream \in [StreamIds -> StreamType]
    BY <1>8, <1>4
  <2>3. serve \in ServeType
    BY <1>1 DEF Waiting, ServeType
  <2> QED
    BY <1>3, <2>1, <2>2, <2>3 DEF STypeOK
<1>10. ServeInv
  BY <1>1 DEF ServeInv, Opening, Closing
<1>11. HeldInv
  <2>1. \A id \in Ids : streams[id] # NoStream =>
          stream[streams[id]].state = "open" /\ stream[streams[id]].sdkClient \in ClientIds
    BY <1>2, <1>3, <1>7
  <2> QED
    BY <1>5, <1>8, <2>1 DEF HeldInv
<1>12. OwnedInv
  <2>1. \A id \in Ids : streams[id] # NoStream => Owned(stream[streams[id]].sdkClient, id)
    BY <1>1, <1>3, <1>7 DEF Shows, OwnersInv
  <2> QED
    BY <1>1, <2>1 DEF OwnedInv, Opening
<1>13. \A id \in Ids : Follows(id)
  <2> SUFFICES ASSUME NEW id \in Ids, sdkClients[id] # NoClient
               PROVE  /\ streams[id] # NoStream /\ stream[streams[id]].sdkClient = sdkClients[id]
                      /\ \A k \in SdkKeys(sdkClients[id]) : streamByKey[k] = streams[id]
    BY <1>3 DEF Follows
  <2>1. streams[id] # NoStream /\ stream[streams[id]].sdkClient = sdkClients[id]
    BY <1>3, <1>7
  <2>2. ASSUME NEW k \in SdkKeys(sdkClients[id]) PROVE streamByKey[k] = streams[id]
    <3>1. k \in Keys /\ Owner[k] = id
      BY <1>1 DEF Shows, OwnersInv, Owned, SdkKeys
    <3>2. IndexClient(id) = sdkClients[id] /\ IndexKeys(id) = SdkKeys(sdkClients[id])
      BY <1>1 DEF IndexClient, IndexKeys
    <3>3. byKey[k] # NoClient
      BY <1>1, <2>2, <3>1, <3>2 DEF Shows, IndexInv
    <3> QED
      BY <3>1, <3>3 DEF ServerInit
  <2> QED
    BY <2>1, <2>2
<1>14. FollowInv
  BY <1>1, <1>13 DEF FollowInv, Opening
<1> QED
  BY <1>9, <1>10, <1>11, <1>12, <1>14 DEF SInv, HandlerInv

LEMMA ServerNextInv == IInv /\ SettleInv /\ SInv /\ [ServerNext]_vars => SInv'
<1> SUFFICES ASSUME IInv, SettleInv, SInv, [ServerNext]_vars PROVE SInv'
  OBVIOUS
<1>1. CASE UNCHANGED vars
  <2>1. (STypeOK /\ ServeInv /\ HeldInv)'
    BY <1>1 DEF vars, svars, SInv, STypeOK, ServeInv, HeldInv
  <2>2. UNCHANGED <<sdkClients, client, closing, step, publishing, notices, streams, streamByKey,
                    stream, serve>>
    BY <1>1 DEF vars, rvars, svars
  <2>3. OwnedInv => OwnedInv'
    BY <2>2 DEF OwnedInv, Owned
  <2>4. \A j \in Ids : (Stale(j)' <=> Stale(j)) /\ (Follows(j)' <=> Follows(j))
    BY <2>2 DEF Stale, Midway, Follows, SdkKeys
  <2>5. FollowInv => FollowInv'
    BY <2>2, <2>4 DEF FollowInv, Stale, Midway
  <2> QED
    BY <2>1, <2>2, <2>3, <2>5 DEF SInv, HandlerInv, Open
<1> QED
  BY <1>1, RegistrarServes, HandleIdServes, UnlinkServes, ResetServes, CloseServes, PollServes,
     StoreServes DEF ServerNext, HandleStep

(* The invariant of registrar and server together, for every constant. *)
THEOREM ServerInvariant == ServerSpec => [](IInv /\ SettleInv /\ SInv)
<1>1. ServerInit => IInv /\ SettleInv /\ SInv
  BY InitIInv, InitSettled, ServerInitInv DEF ServerInit
<1>2. IInv /\ SettleInv /\ SInv /\ [ServerNext]_vars => (IInv /\ SettleInv /\ SInv)'
  BY ServerStepIsRegistrarStep, NextIInv, NextSettle, ServerNextInv
<1> QED
  BY <1>1, <1>2, PTL DEF ServerSpec

(* Once every notice is handled each SDK of the profile has one open       *)
(* stream, on the registrar's client, under all current keys of that SDK   *)
(* (server.go:71-106): whatever the registrar did between a notice and the *)
(* lookup, and between the lookup and the store of the keys.               *)
THEOREM StreamsFollow == ServerSpec => []StreamsFollowRegistrar
<1>1. IInv /\ SettleInv /\ SettledShowsProfile /\ SInv => StreamsFollowRegistrar
  <2> SUFFICES ASSUME IInv, SettledShowsProfile, SInv, Settled,
                      OwnedInv, FollowInv
               PROVE  /\ \A id \in Ids :
                           IF sdkClients[id] = NoClient THEN streams[id] = NoStream
                           ELSE /\ streams[id] # NoStream
                                /\ stream[streams[id]] = [state |-> "open", sdkClient |-> sdkClients[id]]
                      /\ \A k \in Keys : byKey[k] # NoClient => streamByKey[k] = streams[Owner[k]]
    BY DEF StreamsFollowRegistrar, SInv, HandlerInv, Settled, Open
  <2>1. /\ step.at = "idle" /\ publishing = NoSdk /\ notices = <<>> /\ serve.at = "select"
        /\ Ready("idle") /\ closing = "open"
    BY DEF Settled, Ready
  <2>2. \A id \in Ids : Follows(id)
    <3>1. \A id \in Ids : ~Stale(id)
      BY <2>1, RegistrarAssumption DEF Stale, Midway
    <3> QED
      BY <2>1, <3>1 DEF FollowInv, Opening
  <2>3. ASSUME NEW id \in Ids, sdkClients[id] # NoClient
        PROVE  /\ streams[id] # NoStream
               /\ stream[streams[id]] = [state |-> "open", sdkClient |-> sdkClients[id]]
    <3>1. streams[id] # NoStream /\ stream[streams[id]].sdkClient = sdkClients[id]
      BY <2>2, <2>3 DEF Follows
    <3>2. stream[streams[id]].state = "open" /\ stream[streams[id]] \in StreamType
      BY <3>1 DEF SInv, HeldInv, STypeOK
    <3> QED
      BY <3>1, <3>2 DEF StreamType
  <2>4. ASSUME NEW k \in Keys, byKey[k] # NoClient PROVE streamByKey[k] = streams[Owner[k]]
    <3>1. /\ Owner[k] \in Ids /\ k \in ProfileKeys(Owner[k]) /\ sdkClients[Owner[k]] # NoClient
      BY <2>1, <2>4, RegistrarAssumption DEF SettledShowsProfile
    <3>2. k \in SdkKeys(sdkClients[Owner[k]])
      BY <2>1, <3>1 DEF SettledShowsProfile
    <3> QED
      BY <2>2, <3>1, <3>2 DEF Follows
  <2> QED
    BY <2>2, <2>3, <2>4 DEF Follows
<1> QED
  BY <1>1, ServerInvariant, ServerImplementsRegistrar, SettledShows, PTL

(* No stream that the server has dropped stays open: handlers that wait on *)
(* it leave (server.go:95,103).                                            *)
THEOREM DroppedClose == ServerSpec => []DroppedStreamsClose
<1>1. SInv => DroppedStreamsClose
  BY DEF SInv, HeldInv, DroppedStreamsClose, Settled
<1> QED
  BY <1>1, ServerInvariant, PTL
=============================================================================
