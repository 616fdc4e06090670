--------------------------- MODULE RegistrarProofs ---------------------------
(***************************************************************************)
(* Proofs about Registrar for every set of SDKs, keys and profiles: no     *)
(* lookup ever returns a closed client, UpdateSdk is called only for SDKs  *)
(* the status reporter knows, and between two refreshes the maps and the   *)
(* reporter show the last profile and nothing else.                        *)
(***************************************************************************)
EXTENDS Registrar, TLAPS

OldAtHand == {"deleteKeys", "deleteClose", "resetKeys", "resetClose"}
NewAtHand == {"rotate", "resetKeys", "resetClose", "resetStore", "addStore"}

(* What run has at hand in the middle of an SDK. *)
StepInv ==
  /\ step.at \in OldAtHand \cup NewAtHand => step.id \in Ids
  /\ step.at \in OldAtHand => step.old \in ClientIds
  /\ step.at \in NewAtHand => step.new \in ClientIds
  /\ step.at = "rotate" => step.id \in Present(profile)
  /\ step.at \in {"deleteKeys", "deleteClose"} => step.id \notin Present(profile)

(* What is left to delete is not in the profile, everything else is, and   *)
(* the reporter knows the SDKs that remain.                                *)
WorkInv ==
  /\ work.delete \cap Present(profile) = {}
  /\ work.check \cup work.reset \cup work.add \subseteq Present(profile)
  /\ work.check \cup work.reset \subseteq registered

(* The status reporter knows every SDK that has a client, except the one   *)
(* that is just being added.                                               *)
RegisteredInv ==
  /\ \A id \in Ids : sdkClients[id] # NoClient =>
       id \in registered \/ (step.at = "addStore" /\ step.id = id)
  /\ step.at \in {"deleteKeys", "deleteClose"} => sdkClients[step.id] = NoClient
  /\ UpdateOnlyRegistered

(* Until Close: the maps hold live clients only, and a client that is about *)
(* to be closed is in neither of them any more.                             *)
ClientsLive ==
  /\ \A id \in Ids : sdkClients[id] # NoClient => Live(sdkClients[id])
  /\ \A i, j \in Ids : sdkClients[i] = sdkClients[j] /\ sdkClients[i] # NoClient => i = j
KeysLive ==
  \A k \in Keys : byKey[k] # NoClient =>
    Live(byKey[k]) /\ (k \in SdkKeys(byKey[k]) \/ (step.at = "rotate" /\ k = step.key))
OldUnlinked ==
  /\ step.at \in OldAtHand => Live(step.old) /\ \A id \in Ids : sdkClients[id] # step.old
  /\ step.at \in {"deleteClose", "resetClose"} => \A k \in Keys : byKey[k] # step.old
NewLinked ==
  /\ step.at \in NewAtHand => sdkClients[step.id] = step.new
  /\ step.at = "rotate" => client[step.new].key2 = profile.sdks[step.id].key2
OpenInv ==
  closing = "open" =>
    unvisited = {} /\ ranging = NoSdk /\ ClientsLive /\ KeysLive /\ OldUnlinked /\ NewLinked

IInv == TypeOK /\ StepInv /\ WorkInv /\ RegisteredInv /\ OpenInv

-----------------------------------------------------------------------------
LEMMA ProfileTypes ==
  ASSUME NEW p \in Profiles, NEW id \in Present(p)
  PROVE  /\ id \in Ids
         /\ p.sdks[id].key1 \in Keys
         /\ p.sdks[id].key2 \in AllKeys
         /\ Built(p.sdks[id]) \in ClientType
         /\ Built(p.sdks[id]).state = "live"
<1>1. id \in Ids /\ p.sdks[id].key1 \in Keys /\ p.sdks[id].key2 \in AllKeys
  BY ProfileAssumption DEF Present, AllKeys
<1> QED
  BY <1>1 DEF Built, ClientType, AllKeys

LEMMA InitIInv == Init => IInv
<1> SUFFICES ASSUME Init PROVE IInv
  OBVIOUS
<1> USE RegistrarAssumption
<1>1. PICK f \in [Ids -> ClientIds \cup {NoClient}] :
        /\ \A id \in Ids : f[id] = NoClient <=> profile.sdks[id] = NoSdk
        /\ \A i, j \in Ids : f[i] = f[j] /\ f[i] # NoClient => i = j
        /\ sdkClients = f
        /\ client = [c \in ClientIds |->
                       IF \E id \in Ids : f[id] = c
                         THEN Built(profile.sdks[CHOOSE id \in Ids : f[id] = c])
                         ELSE Unborn]
  BY DEF Init
<1>2. \A id \in Ids : f[id] # NoClient => client[f[id]] = Built(profile.sdks[id])
  <2> SUFFICES ASSUME NEW id \in Ids, f[id] # NoClient
               PROVE  client[f[id]] = Built(profile.sdks[id])
    OBVIOUS
  <2>1. (CHOOSE i \in Ids : f[i] = f[id]) = id
    BY <1>1
  <2> QED
    BY <1>1, <2>1
<1>3. profile \in Profiles /\ \A id \in Ids : f[id] # NoClient <=> id \in Present(profile)
  BY <1>1 DEF Init, Present
<1>4. client \in [ClientIds -> ClientType]
  <2> SUFFICES ASSUME NEW c \in ClientIds PROVE client[c] \in ClientType
    BY <1>1
  <2>1. CASE \E id \in Ids : f[id] = c
    BY <1>2, <1>3, <2>1, ProfileTypes DEF NoClient
  <2>2. CASE ~(\E id \in Ids : f[id] = c)
    BY <1>1, <2>2 DEF Unborn, ClientType, AllKeys
  <2> QED
    BY <2>1, <2>2
<1>5. byKey \in [AllKeys -> ClientIds \cup {NoClient}]
        /\ \A k \in Keys : byKey[k] # NoClient =>
             \E id \in Ids : /\ byKey[k] = sdkClients[id]
                             /\ k \in {profile.sdks[id].key1, profile.sdks[id].key2}
  <2> SUFFICES ASSUME NEW k \in AllKeys
               PROVE  /\ byKey[k] \in ClientIds \cup {NoClient}
                      /\ byKey[k] # NoClient => \E id \in Ids :
                           /\ byKey[k] = sdkClients[id]
                           /\ k \in {profile.sdks[id].key1, profile.sdks[id].key2}
    BY DEF Init, AllKeys
  <2>1. CASE \E id \in Present(profile) :
               k \in {profile.sdks[id].key1, profile.sdks[id].key2} \cap Keys
    <3>1. PICK id \in Present(profile) :
            k \in {profile.sdks[id].key1, profile.sdks[id].key2} \cap Keys
      BY <2>1
    <3>2. Owner[k] = id /\ id \in Ids
      BY <1>3, <3>1, ProfileAssumption DEF Present
    <3>3. byKey[k] = sdkClients[id]
      BY <2>1, <3>2 DEF Init
    <3> QED
      BY <1>1, <3>1, <3>2, <3>3
  <2>2. CASE ~(\E id \in Present(profile) :
                 k \in {profile.sdks[id].key1, profile.sdks[id].key2} \cap Keys)
    <3>1. byKey[k] = NoClient
      BY <2>2 DEF Init
    <3> QED
      BY <3>1
  <2> QED
    BY <2>1, <2>2
<1>6. TypeOK
  <2>1. notices \in Seq(Ids) /\ Len(notices) <= NoticeCap
    <3>1. notices = <<>>
      BY DEF Init
    <3> QED
      BY <3>1
  <2>2. step \in [at : Places, id : Ids \cup {NoSdk}, old : ClientIds \cup {NoClient},
                  new : ClientIds \cup {NoClient}, key : AllKeys \cup {NilKey}]
    BY DEF Init, Idle, At, Place, Places
  <2>3. registered \subseteq Ids
    BY DEF Init, Present
  <2>4. work \in [delete : SUBSET Ids, check : SUBSET Ids, reset : SUBSET Ids, add : SUBSET Ids]
    BY DEF Init, NoWork
  <2>5. sdkClients \in [Ids -> ClientIds \cup {NoClient}]
    BY <1>1
  <2> QED
    BY <1>3, <1>4, <1>5, <2>1, <2>2, <2>3, <2>4, <2>5 DEF Init, TypeOK
<1>7. StepInv /\ WorkInv
  <2>1. step = Idle /\ work = NoWork
    BY DEF Init
  <2> QED
    BY <2>1 DEF StepInv, WorkInv, Idle, At, Place, NoWork, OldAtHand, NewAtHand
<1>8. RegisteredInv
  BY <1>1, <1>3 DEF Init, RegisteredInv, UpdateOnlyRegistered, Idle, At, Place
<1>9. OpenInv
  <2>1. ClientsLive
    <3>1. \A id \in Ids : f[id] # NoClient => Live(f[id])
      BY <1>2, <1>3, ProfileTypes DEF Live
    <3> QED
      BY <1>1, <3>1 DEF ClientsLive
  <2>2. KeysLive
    <3> SUFFICES ASSUME NEW k \in Keys, byKey[k] # NoClient
                 PROVE  Live(byKey[k]) /\ k \in SdkKeys(byKey[k])
      BY DEF KeysLive
    <3>1. PICK id \in Ids : /\ byKey[k] = f[id] /\ f[id] # NoClient
                            /\ k \in {profile.sdks[id].key1, profile.sdks[id].key2}
      BY <1>1, <1>5
    <3>2. client[f[id]] = Built(profile.sdks[id])
      BY <1>2, <3>1
    <3>3. k # NoKey
      OBVIOUS
    <3>4. k \in {client[f[id]].key1, client[f[id]].key2}
      BY <3>1, <3>2, <3>3 DEF Built
    <3> QED
      BY <1>1, <2>1, <3>1, <3>4 DEF SdkKeys, ClientsLive
  <2> QED
    BY <2>1, <2>2 DEF Init, OpenInv, OldUnlinked, NewLinked, Idle, At, Place, OldAtHand, NewAtHand
<1> QED
  BY <1>6, <1>7, <1>8, <1>9 DEF IInv

-----------------------------------------------------------------------------
(* Every step keeps the types. *)
StepType == [at : Places, id : Ids \cup {NoSdk}, old : ClientIds \cup {NoClient},
             new : ClientIds \cup {NoClient}, key : AllKeys \cup {NilKey}]

LEMMA PlaceType ==
  ASSUME NEW at \in Places, NEW id \in Ids \cup {NoSdk}, NEW old \in ClientIds \cup {NoClient},
         NEW new \in ClientIds \cup {NoClient}, NEW key \in AllKeys \cup {NilKey}
  PROVE  /\ Place(at, id, old, new, key) \in StepType
         /\ At(at) \in StepType
BY DEF Place, At, StepType

LEMMA CloseOfType ==
  ASSUME TypeOK, NEW c \in ClientIds
  PROVE  /\ CloseOf(c) \in [ClientIds -> ClientType]
         /\ CloseOf(c)[c] = [client[c] EXCEPT !.state = "closed"]
         /\ \A d \in ClientIds : /\ d # c => CloseOf(c)[d] = client[d]
                                /\ CloseOf(c)[d].key1 = client[d].key1
                                /\ CloseOf(c)[d].key2 = client[d].key2
<1>1. client \in [ClientIds -> ClientType]
  BY DEF TypeOK
<1>2. [client[c] EXCEPT !.state = "closed"] \in ClientType
  BY <1>1 DEF ClientType
<1> QED
  BY <1>1, <1>2 DEF CloseOf, ClientType

LEMMA RefreshType == ASSUME IInv, NEW p \in Profiles, RefreshConfig(p) PROVE TypeOK'
<1>1. step' \in StepType
  BY PlaceType DEF RefreshConfig, Places
<1>2. work' \in [delete : SUBSET Ids, check : SUBSET Ids, reset : SUBSET Ids, add : SUBSET Ids]
  BY DEF RefreshConfig, Present
<1>3. refreshes' \in Nat
  BY RegistrarAssumption DEF RefreshConfig, IInv, TypeOK
<1> QED
  BY <1>1, <1>2, <1>3 DEF RefreshConfig, IInv, TypeOK, StepType

LEMMA DeleteType ==
  ASSUME IInv, NEW id \in Ids, DeleteSdk(id) \/ DeleteKeys \/ DeleteClose PROVE TypeOK'
<1>1. CASE DeleteSdk(id)
  <2>1. step' \in StepType
    BY <1>1, PlaceType DEF DeleteSdk, Places, IInv, TypeOK, StepType
  <2> QED
    BY <1>1, <2>1 DEF DeleteSdk, IInv, TypeOK, StepType
<1>2. CASE DeleteKeys
  <2>1. byKey' \in [AllKeys -> ClientIds \cup {NoClient}]
    BY <1>2 DEF DeleteKeys, Without, IInv, TypeOK
  <2> QED
    BY <1>2, <2>1 DEF DeleteKeys, IInv, TypeOK, Places
<1>3. CASE DeleteClose
  <2>1. step' \in StepType /\ publishing' \in Ids
    BY <1>3, PlaceType DEF DeleteClose, Ready, Places, IInv, StepInv, OldAtHand
  <2>2. client' \in [ClientIds -> ClientType]
    BY <1>3, CloseOfType DEF DeleteClose, Ready, IInv, StepInv, OldAtHand
  <2>3. doubleClose' \in BOOLEAN
    BY <1>3 DEF DeleteClose, IInv, TypeOK
  <2> QED
    BY <1>3, <2>1, <2>2, <2>3 DEF DeleteClose, IInv, TypeOK, StepType
<1> QED
  BY <1>1, <1>2, <1>3

LEMMA CheckType == ASSUME IInv, NEW id \in Ids, CheckSdk(id) \/ RotateKey PROVE TypeOK'
<1>1. CASE CheckSdk(id)
  <2> DEFINE c == sdkClients[id]
  <2>1. id \in Present(profile)
    BY <1>1 DEF CheckSdk, IInv, WorkInv
  <2>2. profile.sdks[id].key2 \in AllKeys
    BY <2>1, ProfileTypes DEF IInv, TypeOK
  <2>3. work' \in [delete : SUBSET Ids, check : SUBSET Ids, reset : SUBSET Ids, add : SUBSET Ids]
    <3>1. \/ work' = [work EXCEPT !.check = @ \ {id}, !.reset = @ \cup {id}]
          \/ work' = [work EXCEPT !.check = @ \ {id}]
      BY <1>1 DEF CheckSdk
    <3>2. work \in [delete : SUBSET Ids, check : SUBSET Ids, reset : SUBSET Ids, add : SUBSET Ids]
      BY DEF IInv, TypeOK
    <3>3. CASE work' = [work EXCEPT !.check = @ \ {id}, !.reset = @ \cup {id}]
      BY <3>2, <3>3
    <3>4. CASE work' = [work EXCEPT !.check = @ \ {id}]
      BY <3>2, <3>4
    <3> QED
      BY <3>1, <3>3, <3>4
  <2>4. client' \in [ClientIds -> ClientType] /\ step' \in StepType
    <3>1. CASE UNCHANGED <<client, step>>
      BY <3>1 DEF IInv, TypeOK, StepType
    <3>2. CASE /\ c # NoClient
               /\ client' = [client EXCEPT ![c].key2 = profile.sdks[id].key2]
               /\ step' = Place("rotate", id, NoClient, c, client[c].key2)
      <4>1. c \in ClientIds /\ client[c] \in ClientType
        BY <3>2 DEF IInv, TypeOK
      <4>2. client[c].key2 \in AllKeys \cup {NilKey}
        BY <4>1 DEF ClientType
      <4> QED
        BY <2>2, <3>2, <4>1, <4>2, PlaceType DEF IInv, TypeOK, ClientType, Places
    <3> QED
      BY <1>1, <3>1, <3>2 DEF CheckSdk
  <2> QED
    BY <1>1, <2>3, <2>4 DEF CheckSdk, IInv, TypeOK, StepType
<1>2. CASE RotateKey
  <2>1. step' \in StepType /\ publishing' \in Ids
    BY <1>2, PlaceType DEF RotateKey, Ready, Places, IInv, StepInv, NewAtHand
  <2>2. byKey' \in [AllKeys -> ClientIds \cup {NoClient}]
    BY <1>2 DEF RotateKey, IInv, TypeOK
  <2> QED
    BY <1>2, <2>1, <2>2 DEF RotateKey, IInv, TypeOK, StepType
<1> QED
  BY <1>1, <1>2

LEMMA ResetType ==
  ASSUME IInv, NEW id \in Ids, ResetSdk(id) \/ ResetKeys \/ ResetClose \/ ResetStore
  PROVE  TypeOK'
<1>1. CASE ResetSdk(id)
  <2>1. PICK c \in ClientIds :
          /\ client' = [client EXCEPT ![c] = Built(profile.sdks[id])]
          /\ sdkClients' = [sdkClients EXCEPT ![id] = c]
          /\ step' = Place(IF sdkClients[id] = NoClient THEN "resetStore" ELSE "resetKeys",
                           id, sdkClients[id], c, NilKey)
    BY <1>1 DEF ResetSdk
  <2>2. Built(profile.sdks[id]) \in ClientType
    BY <1>1, ProfileTypes DEF ResetSdk, IInv, WorkInv, TypeOK
  <2>3. step' \in StepType
    BY <2>1, PlaceType DEF Places, IInv, TypeOK
  <2> QED
    BY <1>1, <2>1, <2>2, <2>3 DEF ResetSdk, IInv, TypeOK, StepType
<1>2. CASE ResetKeys
  <2>1. byKey' \in [AllKeys -> ClientIds \cup {NoClient}]
    BY <1>2 DEF ResetKeys, Without, IInv, TypeOK
  <2> QED
    BY <1>2, <2>1 DEF ResetKeys, IInv, TypeOK, Places
<1>3. CASE ResetClose
  <2>1. publishing' \in Ids
    BY <1>3 DEF ResetClose, Ready, IInv, StepInv, OldAtHand
  <2>2. client' \in [ClientIds -> ClientType]
    BY <1>3, CloseOfType DEF ResetClose, Ready, IInv, StepInv, OldAtHand
  <2>3. doubleClose' \in BOOLEAN
    BY <1>3 DEF ResetClose, IInv, TypeOK
  <2> QED
    BY <1>3, <2>1, <2>2, <2>3 DEF ResetClose, IInv, TypeOK, Places
<1>4. CASE ResetStore
  <2>1. step' \in StepType
    BY <1>4, PlaceType DEF ResetStore, Places
  <2>2. byKey' \in [AllKeys -> ClientIds \cup {NoClient}]
    BY <1>4 DEF ResetStore, With, IInv, TypeOK
  <2> QED
    BY <1>4, <2>1, <2>2 DEF ResetStore, IInv, TypeOK, StepType
<1> QED
  BY <1>1, <1>2, <1>3, <1>4

LEMMA AddType == ASSUME IInv, NEW id \in Ids, AddSdk(id) \/ AddStore PROVE TypeOK'
<1>1. CASE AddSdk(id)
  <2>1. CASE UNCHANGED <<client, sdkClients, step>>
    BY <1>1, <2>1 DEF AddSdk, IInv, TypeOK
  <2>2. CASE \E c \in ClientIds :
               /\ client' = [client EXCEPT ![c] = Built(profile.sdks[id])]
               /\ sdkClients' = [sdkClients EXCEPT ![id] = c]
               /\ step' = Place("addStore", id, NoClient, c, NilKey)
    <3>1. Built(profile.sdks[id]) \in ClientType
      BY <1>1, ProfileTypes DEF AddSdk, IInv, WorkInv, TypeOK
    <3>2. step' \in StepType
      BY <2>2, PlaceType DEF Places
    <3>3. /\ client' \in [ClientIds -> ClientType]
          /\ sdkClients' \in [Ids -> ClientIds \cup {NoClient}]
      BY <2>2, <3>1 DEF IInv, TypeOK
    <3>4. work' \in [delete : SUBSET Ids, check : SUBSET Ids, reset : SUBSET Ids, add : SUBSET Ids]
      BY <1>1 DEF AddSdk, IInv, TypeOK
    <3> QED
      BY <1>1, <3>2, <3>3, <3>4 DEF AddSdk, IInv, TypeOK, StepType
  <2> QED
    BY <1>1, <2>1, <2>2 DEF AddSdk
<1>2. CASE AddStore
  <2>1. step' \in StepType /\ step.id \in Ids
    BY <1>2, PlaceType DEF AddStore, Ready, Places, IInv, StepInv, NewAtHand
  <2>2. byKey' \in [AllKeys -> ClientIds \cup {NoClient}]
    BY <1>2 DEF AddStore, With, IInv, TypeOK
  <2> QED
    BY <1>2, <2>1, <2>2 DEF AddStore, IInv, TypeOK, StepType
<1> QED
  BY <1>1, <1>2

LEMMA OtherType ==
  ASSUME IInv, LoopDone \/ Publish \/ CloseStep \/ TakeNotice
  PROVE  TypeOK'
<1> USE RegistrarAssumption DEF IInv, TypeOK
<1>1. CASE LoopDone
  BY <1>1 DEF LoopDone, Idle, At, Place, Places
<1>2. CASE Publish
  <2>1. notices \in Seq(Ids) /\ publishing \in Ids
    BY <1>2 DEF Publish
  <2>2. Append(notices, publishing) \in Seq(Ids) /\ Len(Append(notices, publishing)) = Len(notices) + 1
    BY <2>1
  <2>3. notices' \in Seq(Ids) /\ Len(notices') <= NoticeCap /\ publishing' = NoSdk
    <3>1. CASE UNCHANGED notices
      BY <1>2, <3>1 DEF Publish
    <3>2. CASE Len(notices) < NoticeCap /\ notices' = Append(notices, publishing)
      <4>1. Len(notices) + 1 <= NoticeCap
        BY <2>1, <3>2
      <4> QED
        BY <1>2, <2>2, <3>2, <4>1 DEF Publish
    <3> QED
      BY <1>2, <3>1, <3>2 DEF Publish
  <2>4. UNCHANGED <<sdkClients, byKey, client, profile, registered, step, work, closing,
                    unvisited, ranging, doubleClose, refreshes>>
    BY <1>2 DEF Publish
  <2> QED
    BY <2>3, <2>4
<1>3. CASE CloseBegin \/ CloseDelete \/ CloseEnd
  BY <1>3 DEF CloseBegin, CloseDelete, CloseEnd
<1>4. CASE \E id \in Ids : CloseOne(id)
  <2> PICK id \in Ids : CloseOne(id)
    BY <1>4
  <2>1. sdkClients[id] \in ClientIds /\ client' = CloseOf(sdkClients[id])
    BY DEF CloseOne
  <2>2. client' \in [ClientIds -> ClientType]
    BY <2>1, CloseOfType
  <2> QED
    BY <2>2 DEF CloseOne
<1>5. CASE TakeNotice
  BY <1>5 DEF TakeNotice
<1> QED
  BY <1>1, <1>2, <1>3, <1>4, <1>5 DEF CloseStep

-----------------------------------------------------------------------------
(* Every step keeps what run has at hand, and what it has left to do.      *)
Bookkeeping == StepInv /\ WorkInv /\ RegisteredInv

LEMMA RefreshBooks == ASSUME IInv, NEW p \in Profiles, RefreshConfig(p) PROVE Bookkeeping'
<1>1. StepInv'
  BY DEF RefreshConfig, StepInv, At, Place, OldAtHand, NewAtHand
<1>2. RegisteredInv' /\ \A id \in Ids : sdkClients[id] # NoClient => id \in registered
  BY DEF RefreshConfig, Ready, At, Place, IInv, RegisteredInv, UpdateOnlyRegistered
<1>3. WorkInv'
  BY <1>2 DEF RefreshConfig, WorkInv, Present
<1> QED
  BY <1>1, <1>2, <1>3 DEF Bookkeeping

LEMMA DeleteBooks ==
  ASSUME IInv, NEW id \in Ids, DeleteSdk(id) \/ DeleteKeys \/ DeleteClose PROVE Bookkeeping'
<1> USE RegistrarAssumption
<1>1. CASE DeleteSdk(id)
  <2>1. StepInv'
    BY <1>1 DEF DeleteSdk, Ready, Place, IInv, TypeOK, StepInv, WorkInv, Present,
                OldAtHand, NewAtHand
  <2>2. WorkInv'
    BY <1>1 DEF DeleteSdk, IInv, TypeOK, WorkInv, Present
  <2>3. RegisteredInv'
    BY <1>1 DEF DeleteSdk, Ready, Place, IInv, TypeOK, RegisteredInv, UpdateOnlyRegistered
  <2> QED
    BY <2>1, <2>2, <2>3 DEF Bookkeeping
<1>2. CASE DeleteKeys
  <2>1. step' = [step EXCEPT !.at = "deleteClose"] /\ step.at = "deleteKeys"
    BY <1>2 DEF DeleteKeys, Ready
  <2>2. step'.at = "deleteClose" /\ step'.id = step.id /\ step'.old = step.old
    BY <2>1 DEF IInv, TypeOK
  <2>3. StepInv'
    BY <1>2, <2>1, <2>2 DEF DeleteKeys, IInv, StepInv, Present, OldAtHand, NewAtHand
  <2> QED
    BY <1>2, <2>1, <2>2, <2>3 DEF DeleteKeys, IInv, WorkInv, RegisteredInv,
                                   UpdateOnlyRegistered, Bookkeeping, Present
<1>3. CASE DeleteClose
  <2>1. StepInv'
    BY <1>3 DEF DeleteClose, StepInv, At, Place, OldAtHand, NewAtHand
  <2>2. WorkInv'
    BY <1>3 DEF DeleteClose, Ready, IInv, StepInv, WorkInv, Present
  <2>3. RegisteredInv'
    BY <1>3 DEF DeleteClose, Ready, At, Place, IInv, RegisteredInv, UpdateOnlyRegistered
  <2> QED
    BY <2>1, <2>2, <2>3 DEF Bookkeeping
<1> QED
  BY <1>1, <1>2, <1>3

LEMMA CheckBooks == ASSUME IInv, NEW id \in Ids, CheckSdk(id) \/ RotateKey PROVE Bookkeeping'
<1> USE RegistrarAssumption
<1>1. CASE CheckSdk(id)
  <2>1. \/ step' = step
        \/ /\ sdkClients[id] \in ClientIds
           /\ step' = Place("rotate", id, NoClient, sdkClients[id], client[sdkClients[id]].key2)
    BY <1>1 DEF CheckSdk, IInv, TypeOK
  <2>2. step.at = "check" /\ id \in work.check
    BY <1>1 DEF CheckSdk, Ready
  <2>3. StepInv'
    BY <1>1, <2>1, <2>2 DEF CheckSdk, Place, IInv, StepInv, WorkInv, Present,
                            OldAtHand, NewAtHand
  <2>4. WorkInv'
    <3>1. \/ work' = [work EXCEPT !.check = @ \ {id}, !.reset = @ \cup {id}]
          \/ work' = [work EXCEPT !.check = @ \ {id}]
      BY <1>1 DEF CheckSdk
    <3>2. /\ work'.delete = work.delete /\ work'.add = work.add
          /\ work'.check \subseteq work.check /\ work'.reset \subseteq work.reset \cup {id}
      <4>1. work \in [delete : SUBSET Ids, check : SUBSET Ids, reset : SUBSET Ids, add : SUBSET Ids]
        BY DEF IInv, TypeOK
      <4>2. CASE work' = [work EXCEPT !.check = @ \ {id}, !.reset = @ \cup {id}]
        BY <4>1, <4>2
      <4>3. CASE work' = [work EXCEPT !.check = @ \ {id}]
        BY <4>1, <4>3
      <4> QED
        BY <3>1, <4>2, <4>3
    <3>3. UNCHANGED <<profile, registered>>
      BY <1>1 DEF CheckSdk
    <3> QED
      BY <2>2, <3>2, <3>3 DEF IInv, WorkInv, Present
  <2>5. RegisteredInv'
    <3>1. UNCHANGED <<sdkClients, registered>>
      BY <1>1 DEF CheckSdk
    <3> QED
      BY <2>1, <2>2, <3>1 DEF Place, IInv, RegisteredInv, UpdateOnlyRegistered
  <2> QED
    BY <2>3, <2>4, <2>5 DEF Bookkeeping
<1>2. CASE RotateKey
  BY <1>2 DEF RotateKey, Ready, At, Place, IInv, StepInv, WorkInv, RegisteredInv, Present,
              UpdateOnlyRegistered, Bookkeeping, OldAtHand, NewAtHand
<1> QED
  BY <1>1, <1>2

LEMMA ResetBooks ==
  ASSUME IInv, NEW id \in Ids, ResetSdk(id) \/ ResetKeys \/ ResetClose \/ ResetStore
  PROVE  Bookkeeping'
<1> USE RegistrarAssumption
<1>1. CASE ResetSdk(id)
  <2>1. PICK c \in ClientIds :
          /\ sdkClients' = [sdkClients EXCEPT ![id] = c]
          /\ step' = Place(IF sdkClients[id] = NoClient THEN "resetStore" ELSE "resetKeys",
                           id, sdkClients[id], c, NilKey)
    BY <1>1 DEF ResetSdk
  <2>2. step.at = "reset" /\ id \in work.reset /\ UNCHANGED <<profile, registered>>
    BY <1>1 DEF ResetSdk, Ready
  <2>3. StepInv'
    BY <2>1, <2>2 DEF Place, IInv, TypeOK, StepInv, OldAtHand, NewAtHand
  <2>4. WorkInv'
    BY <1>1 DEF ResetSdk, IInv, TypeOK, WorkInv, Present
  <2>5. id \in registered
    BY <2>2 DEF IInv, WorkInv
  <2>6. RegisteredInv'
    BY <2>1, <2>2, <2>5 DEF Place, IInv, TypeOK, RegisteredInv, UpdateOnlyRegistered
  <2> QED
    BY <2>3, <2>4, <2>6 DEF Bookkeeping
<1>2. CASE ResetKeys \/ ResetClose
  <2>1. \/ step.at = "resetKeys" /\ step' = [step EXCEPT !.at = "resetClose"]
        \/ step.at = "resetClose" /\ step' = [step EXCEPT !.at = "resetStore"]
    BY <1>2 DEF ResetKeys, ResetClose, Ready
  <2>2. step'.id = step.id /\ step'.old = step.old /\ step'.new = step.new
          /\ step'.at = IF step.at = "resetKeys" THEN "resetClose" ELSE "resetStore"
    BY <2>1 DEF IInv, TypeOK
  <2>3. UNCHANGED <<sdkClients, profile, registered, work>>
    BY <1>2 DEF ResetKeys, ResetClose
  <2>4. StepInv'
    BY <2>1, <2>2, <2>3 DEF IInv, StepInv, OldAtHand, NewAtHand
  <2> QED
    BY <2>1, <2>2, <2>3, <2>4 DEF IInv, WorkInv, RegisteredInv, UpdateOnlyRegistered,
                                   Bookkeeping, Present
<1>3. CASE ResetStore
  BY <1>3 DEF ResetStore, Ready, At, Place, IInv, StepInv, WorkInv, RegisteredInv, Present,
              UpdateOnlyRegistered, Bookkeeping, OldAtHand, NewAtHand
<1> QED
  BY <1>1, <1>2, <1>3

LEMMA AddBooks == ASSUME IInv, NEW id \in Ids, AddSdk(id) \/ AddStore PROVE Bookkeeping'
<1> USE RegistrarAssumption
<1>1. CASE AddSdk(id)
  <2>1. \/ UNCHANGED <<sdkClients, step>>
        \/ \E c \in ClientIds : /\ sdkClients' = [sdkClients EXCEPT ![id] = c]
                               /\ step' = Place("addStore", id, NoClient, c, NilKey)
    BY <1>1 DEF AddSdk
  <2>2. step.at = "add" /\ UNCHANGED <<profile, registered>>
    BY <1>1 DEF AddSdk, Ready
  <2>3. StepInv'
    BY <2>1, <2>2 DEF Place, IInv, StepInv, OldAtHand, NewAtHand
  <2>4. WorkInv'
    BY <1>1 DEF AddSdk, IInv, TypeOK, WorkInv, Present
  <2>5. RegisteredInv'
    BY <2>1, <2>2 DEF Place, IInv, TypeOK, RegisteredInv, UpdateOnlyRegistered
  <2> QED
    BY <2>3, <2>4, <2>5 DEF Bookkeeping
<1>2. CASE AddStore
  BY <1>2 DEF AddStore, Ready, At, Place, IInv, StepInv, WorkInv, RegisteredInv, Present,
              UpdateOnlyRegistered, Bookkeeping, OldAtHand, NewAtHand
<1> QED
  BY <1>1, <1>2

LEMMA OtherBooks ==
  ASSUME IInv, LoopDone \/ Publish \/ CloseStep \/ TakeNotice
  PROVE  Bookkeeping'
<1> USE RegistrarAssumption
<1>1. CASE LoopDone
  <2>1. /\ step.at \in {"delete", "check", "reset", "add"}
        /\ step'.at \in {"check", "reset", "add", "idle"}
        /\ UNCHANGED <<sdkClients, profile, registered, work>>
    BY <1>1 DEF LoopDone, Idle, At, Place, IInv, TypeOK
  <2> QED
    BY <2>1 DEF IInv, StepInv, WorkInv, RegisteredInv, Present, UpdateOnlyRegistered,
                Bookkeeping, OldAtHand, NewAtHand
<1>2. CASE UNCHANGED <<sdkClients, profile, registered, step, work>>
  BY <1>2 DEF IInv, StepInv, WorkInv, RegisteredInv, Present, UpdateOnlyRegistered, Bookkeeping
<1>3. CASE CloseDelete
  BY <1>3 DEF CloseDelete, IInv, TypeOK, StepInv, WorkInv, RegisteredInv, Present,
              UpdateOnlyRegistered, Bookkeeping
<1> QED
  BY <1>1, <1>2, <1>3 DEF Publish, TakeNotice, CloseStep, CloseBegin, CloseOne, CloseEnd

-----------------------------------------------------------------------------
(* Until Close, every step leaves only live clients in the two maps.       *)
Open == closing = "open"
Linked == ClientsLive /\ KeysLive /\ OldUnlinked /\ NewLinked

(* A client that was just built is in neither map. *)
LEMMA FreshUnlinked ==
  ASSUME IInv, Open, NEW c \in ClientIds, Fresh(c)
  PROVE  /\ ~Live(c)
         /\ \A id \in Ids : sdkClients[id] # c
         /\ \A k \in Keys : byKey[k] # c
<1>1. ~Live(c)
  BY DEF Fresh, Unborn, Live
<1> QED
  BY <1>1, RegistrarAssumption DEF Open, IInv, OpenInv, ClientsLive, KeysLive, NoClient

(* Storing a new client for an SDK, and its record, keeps the maps live. *)
LEMMA BuildLinked ==
  ASSUME IInv, Open, NEW id \in Present(profile), NEW c \in ClientIds, Fresh(c),
         client' = [client EXCEPT ![c] = Built(profile.sdks[id])],
         sdkClients' = [sdkClients EXCEPT ![id] = c],
         UNCHANGED byKey, step.at # "rotate"
  PROVE  /\ ClientsLive' /\ Live(c)'
         /\ \A k \in Keys : byKey[k] # NoClient => Live(byKey[k])' /\ k \in SdkKeys(byKey[k])'
         /\ \A d \in ClientIds : Live(d) => Live(d)' /\ d # c
         /\ sdkClients[id] # NoClient => \A i \in Ids : sdkClients'[i] # sdkClients[id]
<1> USE RegistrarAssumption
<1>1. id \in Ids /\ Built(profile.sdks[id]).state = "live"
  BY ProfileTypes DEF IInv, TypeOK
<1>2. client'[c] = Built(profile.sdks[id]) /\ \A d \in ClientIds : d # c => client'[d] = client[d]
  BY DEF IInv, TypeOK
<1>3. Live(c)'
  BY <1>1, <1>2 DEF Live, NoClient
<1>4. \A d \in ClientIds : Live(d) => Live(d)' /\ d # c
  BY <1>2, FreshUnlinked DEF Live
<1>5. \A i \in Ids : sdkClients'[i] = IF i = id THEN c ELSE sdkClients[i]
  BY <1>1 DEF IInv, TypeOK
<1>6. \A i \in Ids : sdkClients[i] # NoClient => sdkClients[i] \in ClientIds /\ Live(sdkClients[i])
  BY DEF IInv, TypeOK, Open, OpenInv, ClientsLive
<1>7. ClientsLive'
  <2>1. \A i \in Ids : sdkClients'[i] # NoClient => client'[sdkClients'[i]].state = "live"
    BY <1>3, <1>4, <1>5, <1>6 DEF Live
  <2>2. \A i, j \in Ids : sdkClients'[i] = sdkClients'[j] /\ sdkClients'[i] # NoClient => i = j
    BY <1>5, FreshUnlinked DEF IInv, Open, OpenInv, ClientsLive
  <2> QED
    BY <2>1, <2>2 DEF ClientsLive, Live
<1>8. \A k \in Keys : byKey[k] # NoClient => Live(byKey[k])' /\ k \in SdkKeys(byKey[k])'
  <2> SUFFICES ASSUME NEW k \in Keys, byKey[k] # NoClient, byKey' = byKey
               PROVE  Live(byKey[k])' /\ k \in SdkKeys(byKey[k])'
    OBVIOUS
  <2>1. byKey[k] \in ClientIds /\ byKey[k] # c
    <3>1. byKey[k] \in ClientIds
      BY DEF IInv, TypeOK, AllKeys
    <3> QED
      BY <3>1, FreshUnlinked
  <2>2. Live(byKey[k]) /\ k \in SdkKeys(byKey[k])
    BY DEF IInv, Open, OpenInv, KeysLive
  <2>3. client'[byKey'[k]] = client[byKey[k]] /\ byKey'[k] = byKey[k]
    BY <1>2, <2>1
  <2> QED
    BY <2>2, <2>3 DEF Live, SdkKeys
<1>9. sdkClients[id] # NoClient => \A i \in Ids : sdkClients'[i] # sdkClients[id]
  BY <1>1, <1>5, FreshUnlinked DEF IInv, Open, OpenInv, ClientsLive
<1> QED
  BY <1>3, <1>4, <1>7, <1>8, <1>9

(* So does closing a client that is in neither map. *)
LEMMA CloseLinked ==
  ASSUME IInv, Open, step.at \in {"deleteClose", "resetClose"}, client' = CloseOf(step.old),
         UNCHANGED <<sdkClients, byKey>>
  PROVE  /\ ClientsLive'
         /\ \A k \in Keys : byKey[k] # NoClient => Live(byKey[k])' /\ k \in SdkKeys(byKey[k])'
<1> USE RegistrarAssumption
<1>1. step.old \in ClientIds
  BY DEF IInv, StepInv, OldAtHand
<1>2. \A d \in ClientIds : d # step.old => client'[d] = client[d]
  BY <1>1, CloseOfType DEF IInv
<1>3. \A i \in Ids : sdkClients[i] # NoClient =>
        sdkClients[i] \in ClientIds /\ sdkClients[i] # step.old /\ Live(sdkClients[i])
  BY DEF IInv, TypeOK, Open, OpenInv, ClientsLive, OldUnlinked, OldAtHand
<1>4. \A k \in Keys : byKey[k] # NoClient =>
        /\ byKey[k] \in ClientIds /\ byKey[k] # step.old
        /\ Live(byKey[k]) /\ k \in SdkKeys(byKey[k])
  BY DEF IInv, TypeOK, AllKeys, Open, OpenInv, KeysLive, OldUnlinked
<1>5. ClientsLive'
  BY <1>2, <1>3 DEF Live, ClientsLive, IInv, Open, OpenInv
<1>6. \A k \in Keys : byKey[k] # NoClient => Live(byKey[k])' /\ k \in SdkKeys(byKey[k])'
  BY <1>2, <1>4 DEF Live, SdkKeys
<1> QED
  BY <1>5, <1>6

(* Storing the keys of a client that is in the map of clients. *)
LEMMA StoreLinked ==
  ASSUME IInv, Open, step.at \in {"resetStore", "addStore"},
         byKey' = With(SdkKeys(step.new), step.new), UNCHANGED <<sdkClients, client>>
  PROVE  ClientsLive' /\ KeysLive'
<1> USE RegistrarAssumption
<1>1. ClientsLive'
  BY DEF IInv, Open, OpenInv, ClientsLive, Live
<1>2. Live(step.new)
  BY DEF IInv, StepInv, NewAtHand, Open, OpenInv, NewLinked, ClientsLive, NoClient
<1>3. \A k \in Keys : byKey'[k] = IF k \in SdkKeys(step.new) THEN step.new ELSE byKey[k]
  BY DEF With, AllKeys
<1>4. \A k \in Keys : byKey[k] # NoClient => Live(byKey[k]) /\ k \in SdkKeys(byKey[k])
  BY DEF IInv, Open, OpenInv, KeysLive
<1> QED
  BY <1>1, <1>2, <1>3, <1>4 DEF KeysLive, Live, SdkKeys

(* Deleting the keys of the client at hand. *)
LEMMA UnlinkLinked ==
  ASSUME IInv, Open, step.at \in {"deleteKeys", "resetKeys"},
         byKey' = Without(SdkKeys(step.old)), UNCHANGED <<sdkClients, client>>
  PROVE  ClientsLive' /\ KeysLive' /\ \A k \in Keys : byKey'[k] # step.old
<1> USE RegistrarAssumption
<1>1. ClientsLive'
  BY DEF IInv, Open, OpenInv, ClientsLive, Live
<1>2. step.old # NoClient
  BY DEF IInv, StepInv, OldAtHand, NoClient
<1>3. \A k \in Keys : byKey'[k] = IF k \in SdkKeys(step.old) THEN NoClient ELSE byKey[k]
  BY DEF Without, AllKeys
<1>4. \A k \in Keys : byKey[k] # NoClient => Live(byKey[k]) /\ k \in SdkKeys(byKey[k])
  BY DEF IInv, Open, OpenInv, KeysLive
<1> QED
  BY <1>1, <1>2, <1>3, <1>4 DEF KeysLive, Live, SdkKeys

-----------------------------------------------------------------------------
LEMMA RefreshOpen == ASSUME IInv, NEW p \in Profiles, RefreshConfig(p) PROVE OpenInv'
<1>1. step'.at = "delete" /\ step.at = "idle"
  BY DEF RefreshConfig, Ready, At, Place
<1>2. UNCHANGED <<sdkClients, byKey, client, closing, unvisited, ranging>>
  BY DEF RefreshConfig
<1> QED
  BY <1>1, <1>2 DEF IInv, OpenInv, ClientsLive, KeysLive, OldUnlinked, NewLinked, Live, SdkKeys,
                     OldAtHand, NewAtHand

LEMMA DeleteOpen ==
  ASSUME IInv, NEW id \in Ids, DeleteSdk(id) \/ DeleteKeys \/ DeleteClose PROVE OpenInv'
<1> SUFFICES ASSUME Open, UNCHANGED <<closing, unvisited, ranging>> PROVE Linked'
  BY DEF DeleteSdk, DeleteKeys, DeleteClose, Open, Linked, IInv, OpenInv
<1> USE RegistrarAssumption
<1>1. CASE DeleteSdk(id)
  <2>1. step.at = "delete" /\ UNCHANGED <<byKey, client>>
    BY <1>1 DEF DeleteSdk, Ready
  <2>2. \A i \in Ids : sdkClients'[i] = IF i = id THEN NoClient ELSE sdkClients[i]
    BY <1>1 DEF DeleteSdk, IInv, TypeOK
  <2>3. ClientsLive'
    BY <2>1, <2>2 DEF IInv, Open, OpenInv, ClientsLive, Live
  <2>4. \/ step' = step
        \/ sdkClients[id] # NoClient
             /\ step' = Place("deleteKeys", id, sdkClients[id], NoClient, NilKey)
    BY <1>1 DEF DeleteSdk
  <2>5. KeysLive'
    BY <2>1, <2>4 DEF IInv, Open, OpenInv, KeysLive, Live, SdkKeys, Place
  <2>6. OldUnlinked'
    BY <2>1, <2>2, <2>4 DEF IInv, Open, OpenInv, ClientsLive, OldUnlinked, Live, Place, OldAtHand
  <2>7. NewLinked'
    BY <2>1, <2>4 DEF NewLinked, NewAtHand, Place
  <2> QED
    BY <2>3, <2>5, <2>6, <2>7 DEF Linked
<1>2. CASE DeleteKeys
  <2>1. step' = [step EXCEPT !.at = "deleteClose"] /\ step.at = "deleteKeys"
    BY <1>2 DEF DeleteKeys, Ready
  <2>2. step'.at = "deleteClose" /\ step'.old = step.old
    BY <2>1 DEF IInv, TypeOK
  <2>3. ClientsLive' /\ KeysLive' /\ \A k \in Keys : byKey'[k] # step.old
    BY <1>2, <2>1, UnlinkLinked DEF DeleteKeys
  <2>4. OldUnlinked' /\ NewLinked'
    BY <1>2, <2>1, <2>2, <2>3 DEF DeleteKeys, IInv, Open, OpenInv, OldUnlinked, NewLinked, Live,
                                   OldAtHand, NewAtHand
  <2> QED
    BY <2>3, <2>4 DEF Linked
<1>3. CASE DeleteClose
  <2>1. step.at = "deleteClose" /\ step'.at = "delete" /\ byKey' = byKey
    BY <1>3 DEF DeleteClose, Ready, At, Place
  <2>2. /\ ClientsLive'
        /\ \A k \in Keys : byKey[k] # NoClient => Live(byKey[k])' /\ k \in SdkKeys(byKey[k])'
    BY <1>3, <2>1, CloseLinked DEF DeleteClose
  <2> QED
    BY <2>1, <2>2 DEF Linked, KeysLive, OldUnlinked, NewLinked, OldAtHand, NewAtHand
<1> QED
  BY <1>1, <1>2, <1>3

LEMMA CheckOpen == ASSUME IInv, NEW id \in Ids, CheckSdk(id) \/ RotateKey PROVE OpenInv'
<1> SUFFICES ASSUME Open, UNCHANGED <<closing, unvisited, ranging>> PROVE Linked'
  BY DEF CheckSdk, RotateKey, Open, Linked, IInv, OpenInv
<1> USE RegistrarAssumption
<1>1. CASE CheckSdk(id) /\ UNCHANGED <<client, step>>
  BY <1>1 DEF CheckSdk, Ready, IInv, Open, OpenInv, Linked, ClientsLive, KeysLive, OldUnlinked,
              NewLinked, Live, SdkKeys
<1>2. CASE CheckSdk(id) /\ ~UNCHANGED <<client, step>>
  <2> DEFINE c == sdkClients[id]
             k2 == profile.sdks[id].key2
  <2>1. /\ c # NoClient
        /\ client' = [client EXCEPT ![c].key2 = k2]
        /\ step' = Place("rotate", id, NoClient, c, client[c].key2)
        /\ step.at = "check" /\ UNCHANGED <<sdkClients, byKey, profile>>
    BY <1>2 DEF CheckSdk, Ready
  <2>2. c \in ClientIds /\ client[c] \in ClientType
    BY <2>1 DEF IInv, TypeOK
  <2>3. /\ client'[c].state = client[c].state /\ client'[c].key1 = client[c].key1
        /\ client'[c].key2 = k2
        /\ \A d \in ClientIds : d # c => client'[d] = client[d]
    BY <2>1, <2>2 DEF IInv, TypeOK, ClientType
  <2>4. \A d \in ClientIds : Live(d) => Live(d)'
    BY <2>3 DEF Live
  <2>5. ClientsLive'
    BY <2>1, <2>4 DEF IInv, TypeOK, Open, OpenInv, ClientsLive
  <2>6. KeysLive'
    <3> SUFFICES ASSUME NEW k \in Keys, byKey[k] # NoClient
                 PROVE  Live(byKey[k])' /\ (k \in SdkKeys(byKey[k])' \/ k = client[c].key2)
      BY <2>1 DEF KeysLive, Place
    <3>1. byKey[k] \in ClientIds /\ Live(byKey[k]) /\ k \in SdkKeys(byKey[k]) /\ byKey' = byKey
      BY <2>1 DEF IInv, TypeOK, AllKeys, Open, OpenInv, KeysLive
    <3> QED
      BY <2>3, <2>4, <3>1 DEF SdkKeys
  <2>7. OldUnlinked' /\ NewLinked'
    BY <2>1, <2>3 DEF OldUnlinked, NewLinked, Place, OldAtHand, NewAtHand
  <2> QED
    BY <2>5, <2>6, <2>7 DEF Linked
<1>3. CASE RotateKey
  <2>1. step.at = "rotate" /\ step'.at = "check" /\ UNCHANGED <<sdkClients, client>>
    BY <1>3 DEF RotateKey, Ready, At, Place
  <2>2. ClientsLive'
    BY <2>1 DEF IInv, Open, OpenInv, ClientsLive, Live
  <2>3. Live(step.new) /\ client[step.new].key2 = profile.sdks[step.id].key2
    BY <2>1 DEF IInv, StepInv, Open, OpenInv, NewLinked, ClientsLive, NewAtHand, NoClient
  <2>4. \A k \in Keys : byKey'[k] = IF k = profile.sdks[step.id].key2 THEN step.new
                                    ELSE IF k = step.key THEN NoClient ELSE byKey[k]
    BY <1>3 DEF RotateKey, AllKeys
  <2>5. \A k \in Keys : byKey[k] # NoClient /\ k # step.key =>
          Live(byKey[k]) /\ k \in SdkKeys(byKey[k])
    BY DEF IInv, Open, OpenInv, KeysLive
  <2>6. KeysLive'
    BY <2>1, <2>3, <2>4, <2>5 DEF KeysLive, Live, SdkKeys
  <2> QED
    BY <2>1, <2>2, <2>6 DEF Linked, OldUnlinked, NewLinked, OldAtHand, NewAtHand
<1> QED
  BY <1>1, <1>2, <1>3

LEMMA ResetOpen ==
  ASSUME IInv, NEW id \in Ids, ResetSdk(id) \/ ResetKeys \/ ResetClose \/ ResetStore
  PROVE  OpenInv'
<1> SUFFICES ASSUME Open, UNCHANGED <<closing, unvisited, ranging>> PROVE Linked'
  BY DEF ResetSdk, ResetKeys, ResetClose, ResetStore, Open, Linked, IInv, OpenInv
<1> USE RegistrarAssumption
<1>1. CASE ResetSdk(id)
  <2>1. PICK c \in ClientIds :
          /\ Fresh(c)
          /\ client' = [client EXCEPT ![c] = Built(profile.sdks[id])]
          /\ sdkClients' = [sdkClients EXCEPT ![id] = c]
          /\ step' = Place(IF sdkClients[id] = NoClient THEN "resetStore" ELSE "resetKeys",
                           id, sdkClients[id], c, NilKey)
    BY <1>1 DEF ResetSdk
  <2>2. step.at = "reset" /\ id \in Present(profile) /\ byKey' = byKey
    BY <1>1 DEF ResetSdk, Ready, IInv, WorkInv
  <2>3. /\ ClientsLive' /\ Live(c)'
        /\ \A k \in Keys : byKey[k] # NoClient => Live(byKey[k])' /\ k \in SdkKeys(byKey[k])'
        /\ \A d \in ClientIds : Live(d) => Live(d)' /\ d # c
        /\ sdkClients[id] # NoClient => \A i \in Ids : sdkClients'[i] # sdkClients[id]
    BY <2>1, <2>2, BuildLinked
  <2>4. /\ step'.at = IF sdkClients[id] = NoClient THEN "resetStore" ELSE "resetKeys"
        /\ step'.id = id /\ step'.old = sdkClients[id] /\ step'.new = c
    BY <2>1 DEF Place
  <2>5. KeysLive'
    BY <2>2, <2>3 DEF KeysLive
  <2>6. OldUnlinked'
    <3>1. CASE sdkClients[id] = NoClient
      BY <2>4, <3>1 DEF OldUnlinked, OldAtHand
    <3>2. CASE sdkClients[id] # NoClient
      <4>1. sdkClients[id] \in ClientIds /\ Live(sdkClients[id])
        BY <3>2 DEF IInv, TypeOK, Open, OpenInv, ClientsLive
      <4>2. client'[step'.old].state = "live" /\ step'.old # NoClient
        BY <2>3, <2>4, <3>2, <4>1 DEF Live
      <4> QED
        BY <2>3, <2>4, <3>2, <4>2 DEF OldUnlinked, Live
    <3> QED
      BY <3>1, <3>2
  <2>7. NewLinked'
    <3>1. sdkClients'[id] = c
      BY <2>1 DEF IInv, TypeOK
    <3> QED
      BY <2>4, <3>1 DEF NewLinked
  <2> QED
    BY <2>3, <2>5, <2>6, <2>7 DEF Linked
<1>2. CASE ResetKeys
  <2>1. step' = [step EXCEPT !.at = "resetClose"] /\ step.at = "resetKeys"
          /\ UNCHANGED <<sdkClients, client>>
    BY <1>2 DEF ResetKeys, Ready
  <2>2. /\ step'.at = "resetClose" /\ step'.id = step.id
        /\ step'.old = step.old /\ step'.new = step.new
    BY <2>1 DEF IInv, TypeOK
  <2>3. ClientsLive' /\ KeysLive' /\ \A k \in Keys : byKey'[k] # step.old
    BY <1>2, <2>1, UnlinkLinked DEF ResetKeys
  <2>4. OldUnlinked' /\ NewLinked'
    BY <2>1, <2>2, <2>3 DEF IInv, Open, OpenInv, OldUnlinked, NewLinked, Live,
                             OldAtHand, NewAtHand
  <2> QED
    BY <2>3, <2>4 DEF Linked
<1>3. CASE ResetClose
  <2>1. step' = [step EXCEPT !.at = "resetStore"] /\ step.at = "resetClose"
          /\ UNCHANGED <<sdkClients, byKey>>
    BY <1>3 DEF ResetClose, Ready
  <2>2. step'.at = "resetStore" /\ step'.id = step.id /\ step'.new = step.new
    BY <2>1 DEF IInv, TypeOK
  <2>3. /\ ClientsLive'
        /\ \A k \in Keys : byKey[k] # NoClient => Live(byKey[k])' /\ k \in SdkKeys(byKey[k])'
    BY <1>3, <2>1, CloseLinked DEF ResetClose
  <2>4. KeysLive'
    BY <2>1, <2>3 DEF KeysLive
  <2>5. OldUnlinked' /\ NewLinked'
    BY <2>1, <2>2 DEF IInv, Open, OpenInv, OldUnlinked, NewLinked, OldAtHand, NewAtHand
  <2> QED
    BY <2>3, <2>4, <2>5 DEF Linked
<1>4. CASE ResetStore
  <2>1. step.at = "resetStore" /\ step'.at = "reset"
    BY <1>4 DEF ResetStore, Ready, At, Place
  <2>2. ClientsLive' /\ KeysLive'
    BY <1>4, <2>1, StoreLinked DEF ResetStore
  <2> QED
    BY <2>1, <2>2 DEF Linked, OldUnlinked, NewLinked, OldAtHand, NewAtHand
<1> QED
  BY <1>1, <1>2, <1>3, <1>4

LEMMA AddOpen == ASSUME IInv, NEW id \in Ids, AddSdk(id) \/ AddStore PROVE OpenInv'
<1> SUFFICES ASSUME Open, UNCHANGED <<closing, unvisited, ranging>> PROVE Linked'
  BY DEF AddSdk, AddStore, Open, Linked, IInv, OpenInv
<1> USE RegistrarAssumption
<1>1. CASE AddSdk(id) /\ UNCHANGED <<client, sdkClients, step>>
  BY <1>1 DEF AddSdk, Ready, IInv, Open, OpenInv, Linked, ClientsLive, KeysLive, OldUnlinked,
              NewLinked, Live, SdkKeys, OldAtHand, NewAtHand
<1>2. CASE AddSdk(id) /\ ~UNCHANGED <<client, sdkClients, step>>
  <2>1. PICK c \in ClientIds :
          /\ Fresh(c)
          /\ client' = [client EXCEPT ![c] = Built(profile.sdks[id])]
          /\ sdkClients' = [sdkClients EXCEPT ![id] = c]
          /\ step' = Place("addStore", id, NoClient, c, NilKey)
    BY <1>2 DEF AddSdk
  <2>2. step.at = "add" /\ id \in Present(profile) /\ byKey' = byKey
    BY <1>2 DEF AddSdk, Ready, IInv, WorkInv
  <2>3. /\ ClientsLive'
        /\ \A k \in Keys : byKey[k] # NoClient => Live(byKey[k])' /\ k \in SdkKeys(byKey[k])'
    BY <2>1, <2>2, BuildLinked
  <2>4. KeysLive'
    BY <2>2, <2>3 DEF KeysLive
  <2>5. sdkClients'[id] = c
    BY <2>1 DEF IInv, TypeOK
  <2>6. OldUnlinked' /\ NewLinked'
    BY <2>1, <2>5 DEF OldUnlinked, NewLinked, Place, OldAtHand, NewAtHand
  <2> QED
    BY <2>3, <2>4, <2>6 DEF Linked
<1>3. CASE AddStore
  <2>1. step.at = "addStore" /\ step'.at = "add"
    BY <1>3 DEF AddStore, Ready, At, Place
  <2>2. ClientsLive' /\ KeysLive'
    BY <1>3, <2>1, StoreLinked DEF AddStore
  <2> QED
    BY <2>1, <2>2 DEF Linked, OldUnlinked, NewLinked, OldAtHand, NewAtHand
<1> QED
  BY <1>1, <1>2, <1>3

LEMMA OtherOpen ==
  ASSUME IInv, LoopDone \/ Publish \/ CloseStep \/ TakeNotice
  PROVE  OpenInv'
<1>1. CASE LoopDone
  <2>1. /\ step.at \in {"delete", "check", "reset", "add"}
        /\ step'.at \in {"check", "reset", "add", "idle"}
        /\ UNCHANGED <<sdkClients, byKey, client, closing, unvisited, ranging>>
    BY <1>1 DEF LoopDone, Idle, At, Place, IInv, TypeOK
  <2> QED
    BY <2>1 DEF IInv, OpenInv, ClientsLive, KeysLive, OldUnlinked, NewLinked, Live, SdkKeys,
                OldAtHand, NewAtHand
<1>2. CASE UNCHANGED <<sdkClients, byKey, client, profile, step, closing, unvisited, ranging>>
  BY <1>2 DEF IInv, OpenInv, ClientsLive, KeysLive, OldUnlinked, NewLinked, Live, SdkKeys
<1>3. CASE CloseStep
  <2>1. closing' # "open"
    BY <1>3 DEF CloseStep, CloseBegin, CloseOne, CloseDelete, CloseEnd, IInv, OpenInv
  <2> QED
    BY <2>1 DEF OpenInv
<1> QED
  BY <1>1, <1>2, <1>3 DEF Publish, TakeNotice

-----------------------------------------------------------------------------
LEMMA Stuttering == ASSUME IInv, UNCHANGED rvars PROVE IInv'
<1>1. TypeOK'
  BY DEF rvars, IInv, TypeOK
<1>2. (StepInv /\ WorkInv /\ RegisteredInv)'
  BY DEF rvars, IInv, StepInv, WorkInv, RegisteredInv, UpdateOnlyRegistered, Present
<1>3. OpenInv'
  BY DEF rvars, IInv, OpenInv, ClientsLive, KeysLive, OldUnlinked, NewLinked, Live, SdkKeys
<1> QED
  BY <1>1, <1>2, <1>3 DEF IInv

LEMMA NextIInv == IInv /\ [Next]_rvars => IInv'
<1> SUFFICES ASSUME IInv, [Next]_rvars PROVE IInv'
  OBVIOUS
<1>1. CASE \E p \in Profiles : RefreshConfig(p)
  BY <1>1, RefreshType, RefreshBooks, RefreshOpen DEF IInv, Bookkeeping
<1>2. CASE \E id \in Ids : DeleteSdk(id) \/ DeleteKeys \/ DeleteClose
  BY <1>2, DeleteType, DeleteBooks, DeleteOpen DEF IInv, Bookkeeping
<1>3. CASE \E id \in Ids : CheckSdk(id) \/ RotateKey
  BY <1>3, CheckType, CheckBooks, CheckOpen DEF IInv, Bookkeeping
<1>4. CASE \E id \in Ids : ResetSdk(id) \/ ResetKeys \/ ResetClose \/ ResetStore
  BY <1>4, ResetType, ResetBooks, ResetOpen DEF IInv, Bookkeeping
<1>5. CASE \E id \in Ids : AddSdk(id) \/ AddStore
  BY <1>5, AddType, AddBooks, AddOpen DEF IInv, Bookkeeping
<1>6. CASE LoopDone \/ Publish \/ CloseStep \/ TakeNotice
  BY <1>6, OtherType, OtherBooks, OtherOpen DEF IInv, Bookkeeping
<1>7. CASE \/ DeleteKeys \/ DeleteClose \/ RotateKey
           \/ ResetKeys \/ ResetClose \/ ResetStore \/ AddStore
  <2>1. step.id \in Ids
    BY <1>7 DEF DeleteKeys, DeleteClose, RotateKey, ResetKeys, ResetClose, ResetStore, AddStore,
                Ready, IInv, StepInv, OldAtHand, NewAtHand
  <2> QED
    BY <1>2, <1>3, <1>4, <1>5, <1>7, <2>1
<1> QED
  BY <1>1, <1>2, <1>3, <1>4, <1>5, <1>6, <1>7, Stuttering
     DEF Next, RegistrarStep, RefreshStep

(* The invariant is inductive, for every set of SDKs, keys and profiles. *)
THEOREM Inductive == Spec => []IInv
BY InitIInv, NextIInv, PTL DEF Spec

(* The registrar's maps, its work and its place in the code keep their     *)
(* types.                                                                  *)
THEOREM TypeCorrect == Spec => []TypeOK
<1>1. IInv => TypeOK
  BY DEF IInv
<1> QED
  BY <1>1, Inductive, PTL

(* No lookup returns a closed client, and a key leads only to a client     *)
(* that holds it, at every point of every refresh (sdk_auto_registrar.go:   *)
(* 348-356, 400-417).                                                      *)
THEOREM LookupsLive == Spec => []LookupsAreLive
<1>1. IInv => LookupsAreLive
  BY DEF IInv, OpenInv, ClientsLive, KeysLive, LookupsAreLive
<1> QED
  BY <1>1, Inductive, PTL

(* UpdateSdk finds an entry whenever resetSdkClients calls it (status.go:   *)
(* 138), also when Close empties the map of clients in between.            *)
THEOREM UpdatesRegistered == Spec => []UpdateOnlyRegistered
<1>1. IInv => UpdateOnlyRegistered
  BY DEF IInv, RegisteredInv
<1> QED
  BY <1>1, Inductive, PTL

-----------------------------------------------------------------------------
(* Between two refreshes the maps show the profile.                        *)

(* The keys of a client were issued for its SDK and differ. *)
Owned(c, id) ==
  /\ client[c].key1 \in Keys /\ Owner[client[c].key1] = id
  /\ client[c].key2 \in Keys => Owner[client[c].key2] = id /\ client[c].key2 # client[c].key1
OwnersInv ==
  /\ \A id \in Ids : sdkClients[id] # NoClient => Owned(sdkClients[id], id)
  /\ step.at \in {"deleteKeys", "resetKeys"} => Owned(step.old, step.id)
  /\ step.at = "rotate" /\ step.key \in Keys =>
       Owner[step.key] = step.id /\ step.key # client[step.new].key1

(* The client that the keys of an SDK lead to, and which keys do, at every *)
(* point of a refresh                                                      *)
IndexClient(id) ==
  IF step.id = id /\ step.at \in {"deleteKeys", "resetKeys"} THEN step.old
  ELSE IF step.id = id /\ step.at \in {"resetClose", "resetStore", "addStore"} THEN NoClient
  ELSE sdkClients[id]
IndexKeys(id) ==
  IF IndexClient(id) = NoClient THEN {}
  ELSE IF step.id = id /\ step.at = "rotate" THEN {client[step.new].key1, step.key} \cap Keys
  ELSE SdkKeys(IndexClient(id))
IndexInv ==
  \A k \in Keys : byKey[k] = IF k \in IndexKeys(Owner[k]) THEN IndexClient(Owner[k]) ELSE NoClient

(* Each loop empties its set; an SDK that is in none is as in the profile. *)
Done(id) ==
  /\ sdkClients[id] = NoClient <=> profile.sdks[id] = NoSdk
  /\ sdkClients[id] # NoClient => SdkKeys(sdkClients[id]) = ProfileKeys(id)
Left == work.delete \cup work.check \cup work.reset \cup work.add
LoopsInv ==
  /\ step.at \notin {"delete", "deleteKeys", "deleteClose"} => work.delete = {}
  /\ step.at \notin {"delete", "deleteKeys", "deleteClose", "check", "rotate"} => work.check = {}
  /\ step.at \in {"add", "addStore", "idle"} => work.reset = {}
  /\ step.at = "idle" => work.add = {}
ProgressInv ==
  /\ \A id \in Ids : id \in Left \/ Done(id)
  /\ \A id \in work.check \cup work.reset : sdkClients[id] # NoClient
  /\ \A id \in work.add : sdkClients[id] = NoClient

(* The reporter knows the SDKs that have a client, and those at hand.      *)
KnownInv ==
  \A id \in Ids : id \in registered <=>
    \/ sdkClients[id] # NoClient /\ ~(step.at = "addStore" /\ step.id = id)
    \/ step.at \in {"deleteKeys", "deleteClose"} /\ step.id = id

Shows == OwnersInv /\ IndexInv /\ LoopsInv /\ ProgressInv /\ KnownInv
SettleInv == Open => Shows
Neutral == {"idle", "delete", "deleteClose", "check", "reset", "add"}

(* What NewClient makes of an SDK of a profile *)
LEMMA BuiltKeys ==
  ASSUME NEW p \in Profiles, NEW id \in Present(p)
  PROVE  LET b == Built(p.sdks[id])
         IN  /\ b.key1 \in Keys /\ Owner[b.key1] = id
             /\ b.key2 \in Keys => Owner[b.key2] = id /\ b.key2 # b.key1
             /\ {b.key1, b.key2} \cap Keys = {p.sdks[id].key1, p.sdks[id].key2} \cap Keys
<1>1. /\ id \in Ids
      /\ p.sdks[id].key1 \in Keys /\ Owner[p.sdks[id].key1] = id
      /\ p.sdks[id].key2 \in Keys \cup {NoKey}
      /\ p.sdks[id].key2 # NoKey => Owner[p.sdks[id].key2] = id /\ p.sdks[id].key2 # p.sdks[id].key1
  BY ProfileAssumption DEF Present
<1> QED
  BY <1>1, RegistrarAssumption DEF Built

(* A step that leaves the maps alone, and no SDK at hand, keeps the index. *)
LEMMA NeutralStep ==
  ASSUME OwnersInv, IndexInv, step.at \in Neutral, step'.at \in Neutral,
         UNCHANGED <<sdkClients, byKey, client>>
  PROVE  OwnersInv' /\ IndexInv'
<1>1. OwnersInv'
  BY DEF OwnersInv, Owned, Neutral
<1>2. \A j \in Ids : IndexClient(j) = sdkClients[j] /\ IndexClient(j)' = sdkClients[j]
  BY DEF IndexClient, Neutral
<1>3. \A j \in Ids : IndexKeys(j)' = IndexKeys(j)
  BY <1>2 DEF IndexKeys, SdkKeys, Neutral
<1> QED
  BY <1>1, <1>2, <1>3, RegistrarAssumption DEF IndexInv

(* Close leaves a client its keys. *)
LEMMA CloseKeepsKeys ==
  ASSUME TypeOK, NEW c \in ClientIds, client' = CloseOf(c)
  PROVE  \A j \in Ids : sdkClients[j] # NoClient =>
           /\ client'[sdkClients[j]].key1 = client[sdkClients[j]].key1
           /\ client'[sdkClients[j]].key2 = client[sdkClients[j]].key2
<1>1. \A d \in ClientIds : CloseOf(c)[d].key1 = client[d].key1 /\ CloseOf(c)[d].key2 = client[d].key2
  BY CloseOfType
<1>2. \A j \in Ids : sdkClients[j] # NoClient => sdkClients[j] \in ClientIds
  BY DEF TypeOK
<1> QED
  BY <1>1, <1>2

LEMMA RefreshSettles ==
  ASSUME IInv, Open, Shows, NEW p \in Profiles, RefreshConfig(p)
  PROVE  Shows'
<1>1. /\ step.at = "idle" /\ step'.at = "delete" /\ profile' = p
      /\ UNCHANGED <<sdkClients, byKey, client, registered>>
  BY DEF RefreshConfig, Ready, At, Place
<1>2. OwnersInv' /\ IndexInv'
  BY <1>1, NeutralStep DEF Shows, Neutral
<1>3. LoopsInv'
  BY <1>1 DEF LoopsInv
<1>4. ProgressInv'
  <2> DEFINE here == {id \in Ids : sdkClients[id] # NoClient}
  <2>1. /\ work'.delete = here \ Present(p) /\ work'.add = Present(p) \ here
        /\ work'.check \cup work'.reset = Present(p) \cap here
    BY DEF RefreshConfig
  <2>2. \A id \in Ids : id \in Left' \/ Done(id)'
    BY <1>1, <2>1 DEF Left, Done, Present
  <2> QED
    BY <1>1, <2>1, <2>2 DEF ProgressInv, Present
<1>5. KnownInv'
  BY <1>1 DEF Shows, KnownInv
<1> QED
  BY <1>2, <1>3, <1>4, <1>5 DEF Shows

LEMMA DeleteSettles ==
  ASSUME IInv, Open, Shows, NEW id \in Ids, DeleteSdk(id) \/ DeleteKeys \/ DeleteClose
  PROVE  Shows'
<1> USE RegistrarAssumption
<1>0. /\ sdkClients \in [Ids -> ClientIds \cup {NoClient}]
      /\ work \in [delete : SUBSET Ids, check : SUBSET Ids, reset : SUBSET Ids, add : SUBSET Ids]
      /\ step \in StepType
  BY DEF IInv, TypeOK, StepType
<1>1. CASE DeleteSdk(id)
  <2>1. /\ step.at = "delete" /\ id \in work.delete /\ UNCHANGED <<byKey, client, profile, registered>>
        /\ sdkClients' = [sdkClients EXCEPT ![id] = NoClient]
        /\ work' = [work EXCEPT !.delete = @ \ {id}]
    BY <1>1 DEF DeleteSdk, Ready
  <2>2. /\ work'.delete = work.delete \ {id} /\ work'.check = work.check
        /\ work'.reset = work.reset /\ work'.add = work.add
        /\ \A j \in Ids : sdkClients'[j] = IF j = id THEN NoClient ELSE sdkClients[j]
        /\ id \notin Present(profile)
        /\ work.check \cup work.reset \cup work.add \subseteq Present(profile)
    BY <1>0, <2>1 DEF IInv, WorkInv
  <2>3. ProgressInv'
    <3>1. Done(id)'
      BY <2>1, <2>2 DEF Done, Present
    <3>2. \A j \in Ids \ {id} : Done(j) => Done(j)'
      BY <2>1, <2>2 DEF Done, SdkKeys, ProfileKeys
    <3>3. \A j \in Ids : j \in Left' \/ Done(j)'
      BY <2>2, <3>1, <3>2 DEF Shows, ProgressInv, Left
    <3> QED
      BY <1>0, <2>2, <3>3 DEF Shows, ProgressInv
  <2>4. CASE sdkClients[id] = NoClient
    <3>1. sdkClients' = sdkClients /\ step' = step
      BY <1>0, <1>1, <2>1, <2>4 DEF DeleteSdk
    <3>2. OwnersInv' /\ IndexInv'
      BY <2>1, <3>1, NeutralStep DEF Shows, Neutral
    <3> QED
      BY <2>1, <2>3, <3>1, <3>2 DEF Shows, LoopsInv, KnownInv
  <2>5. CASE sdkClients[id] # NoClient
    <3>1. /\ step'.at = "deleteKeys" /\ step'.id = id /\ step'.old = sdkClients[id]
      BY <1>1, <2>5 DEF DeleteSdk, Place
    <3>2. OwnersInv'
      BY <2>1, <2>2, <2>5, <3>1 DEF Shows, OwnersInv, Owned
    <3>3. \A j \in Ids : IndexClient(j) = sdkClients[j] /\ IndexClient(j)' = sdkClients[j]
      BY <2>1, <2>2, <3>1 DEF IndexClient
    <3>4. \A j \in Ids : IndexKeys(j)' = IndexKeys(j)
      BY <2>1, <3>1, <3>3 DEF IndexKeys, SdkKeys
    <3>5. IndexInv'
      BY <2>1, <3>3, <3>4 DEF Shows, IndexInv
    <3>6. LoopsInv'
      BY <2>1, <2>2, <3>1 DEF Shows, LoopsInv
    <3>7. KnownInv'
      BY <2>1, <2>2, <2>5, <3>1 DEF Shows, KnownInv
    <3> QED
      BY <2>3, <3>2, <3>5, <3>6, <3>7 DEF Shows
  <2> QED
    BY <2>4, <2>5
<1>2. CASE DeleteKeys
  <2>1. /\ step.at = "deleteKeys" /\ step' = [step EXCEPT !.at = "deleteClose"]
        /\ byKey' = Without(SdkKeys(step.old))
        /\ UNCHANGED <<sdkClients, client, profile, registered, work>>
    BY <1>2 DEF DeleteKeys, Ready
  <2>2. step'.at = "deleteClose" /\ step'.id = step.id /\ step.id \in Ids /\ step.old # NoClient
    BY <1>0, <2>1 DEF StepType, IInv, StepInv, OldAtHand, NoClient
  <2>3. OwnersInv'
    BY <2>1, <2>2 DEF Shows, OwnersInv, Owned
  <2>4. sdkClients[step.id] = NoClient /\ Owned(step.old, step.id)
    BY <2>1 DEF IInv, RegisteredInv, Shows, OwnersInv
  <2>5. IndexInv'
    <3> SUFFICES ASSUME NEW k \in Keys
                 PROVE  byKey'[k] = IF k \in IndexKeys(Owner[k])' THEN IndexClient(Owner[k])' ELSE NoClient
      BY DEF IndexInv
    <3>1. /\ byKey'[k] = IF k \in SdkKeys(step.old) THEN NoClient ELSE byKey[k]
          /\ byKey[k] = IF k \in IndexKeys(Owner[k]) THEN IndexClient(Owner[k]) ELSE NoClient
          /\ Owner[k] \in Ids
      BY <2>1 DEF Without, AllKeys, Shows, IndexInv
    <3>2. CASE Owner[k] = step.id
      <4>1. IndexClient(Owner[k])' = NoClient
        BY <2>1, <2>2, <2>4, <3>2 DEF IndexClient
      <4>2. IndexClient(Owner[k]) = step.old /\ IndexKeys(Owner[k]) = SdkKeys(step.old)
        BY <2>1, <2>2, <3>2 DEF IndexClient, IndexKeys
      <4> QED
        BY <3>1, <4>1, <4>2
    <3>3. CASE Owner[k] # step.id
      <4>1. k \notin SdkKeys(step.old)
        BY <2>4, <3>3 DEF Owned, SdkKeys
      <4>2. IndexClient(Owner[k])' = IndexClient(Owner[k])
        BY <2>1, <2>2, <3>3 DEF IndexClient
      <4>3. IndexKeys(Owner[k])' = IndexKeys(Owner[k])
        BY <2>1, <2>2, <3>3, <4>2 DEF IndexKeys, SdkKeys
      <4> QED
        BY <3>1, <4>1, <4>2, <4>3
    <3> QED
      BY <3>2, <3>3
  <2>6. LoopsInv' /\ ProgressInv' /\ KnownInv'
    BY <2>1, <2>2 DEF Shows, LoopsInv, ProgressInv, KnownInv, Left, Done, SdkKeys, ProfileKeys
  <2> QED
    BY <2>3, <2>5, <2>6 DEF Shows
<1>3. CASE DeleteClose
  <2>1. /\ step.at = "deleteClose" /\ step'.at = "delete" /\ client' = CloseOf(step.old)
        /\ registered' = registered \ {step.id}
        /\ UNCHANGED <<sdkClients, byKey, profile, work>>
    BY <1>3 DEF DeleteClose, Ready, At, Place
  <2>2. step.id \in Ids /\ step.old \in ClientIds /\ sdkClients[step.id] = NoClient
    BY <2>1 DEF IInv, StepInv, RegisteredInv, OldAtHand
  <2>3a. \A j \in Ids : sdkClients[j] # NoClient =>
           /\ client'[sdkClients[j]].key1 = client[sdkClients[j]].key1
           /\ client'[sdkClients[j]].key2 = client[sdkClients[j]].key2
    BY <2>1, <2>2, CloseKeepsKeys DEF IInv
  <2>4. OwnersInv'
    <3>1. \A j \in Ids : sdkClients[j] # NoClient => Owned(sdkClients[j], j)
      BY DEF Shows, OwnersInv
    <3>2. \A j \in Ids : sdkClients'[j] # NoClient => Owned(sdkClients[j], j)'
      BY <2>1, <2>3a, <3>1 DEF Owned
    <3> QED
      BY <2>1, <3>2 DEF OwnersInv
  <2>5. \A j \in Ids : IndexClient(j) = sdkClients[j] /\ IndexClient(j)' = sdkClients[j]
    BY <2>1 DEF IndexClient
  <2>6. \A j \in Ids : IndexKeys(j)' = IndexKeys(j)
    <3> SUFFICES ASSUME NEW j \in Ids PROVE IndexKeys(j)' = IndexKeys(j)
      OBVIOUS
    <3>1. sdkClients[j] # NoClient => SdkKeys(sdkClients[j])' = SdkKeys(sdkClients[j])
      BY <2>1, <2>3a DEF SdkKeys
    <3> QED
      BY <2>1, <2>5, <3>1 DEF IndexKeys
  <2>7. IndexInv'
    BY <2>1, <2>5, <2>6 DEF Shows, IndexInv
  <2>8. \A j \in Ids : Done(j) => Done(j)'
    BY <2>1, <2>3a DEF Done, SdkKeys, ProfileKeys
  <2>9. LoopsInv' /\ ProgressInv'
    BY <2>1, <2>8 DEF Shows, LoopsInv, ProgressInv, Left
  <2>10. KnownInv'
    BY <2>1, <2>2 DEF Shows, KnownInv
  <2> QED
    BY <2>4, <2>7, <2>9, <2>10 DEF Shows
<1> QED
  BY <1>1, <1>2, <1>3

LEMMA CheckSettles ==
  ASSUME IInv, Open, Shows, NEW id \in Ids, CheckSdk(id)
  PROVE  Shows'
<1> USE RegistrarAssumption
<1> DEFINE c == sdkClients[id]
           new == profile.sdks[id]
<1>1. /\ step.at = "check" /\ id \in work.check
      /\ UNCHANGED <<sdkClients, byKey, profile, registered>>
  BY DEF CheckSdk, Ready
<1>2. /\ c # NoClient /\ c \in ClientIds /\ id \in Present(profile) /\ client[c] \in ClientType
      /\ new.key1 \in Keys /\ Owner[new.key1] = id /\ new.key2 \in AllKeys
      /\ new.key2 \in Keys => Owner[new.key2] = id /\ new.key2 # new.key1
  <2>1. c # NoClient /\ c \in ClientIds /\ id \in Present(profile) /\ client[c] \in ClientType
    BY <1>1 DEF Shows, ProgressInv, IInv, WorkInv, TypeOK
  <2> QED
    BY <2>1, ProfileAssumption DEF IInv, TypeOK, Present, AllKeys
<1>3. work \in [delete : SUBSET Ids, check : SUBSET Ids, reset : SUBSET Ids, add : SUBSET Ids]
  BY DEF IInv, TypeOK
<1>4. ProfileKeys(id) = {new.key1, new.key2} \cap Keys /\ new # NoSdk
  BY <1>2 DEF ProfileKeys, Present
<1>5. CASE client[c].key1 # new.key1
  <2>1. work' = [work EXCEPT !.check = @ \ {id}, !.reset = @ \cup {id}] /\ UNCHANGED <<client, step>>
    BY <1>2, <1>5 DEF CheckSdk
  <2>2. /\ work'.delete = work.delete /\ work'.check = work.check \ {id}
        /\ work'.reset = work.reset \cup {id} /\ work'.add = work.add
    BY <1>3, <2>1
  <2>3. OwnersInv' /\ IndexInv'
    BY <1>1, <2>1, NeutralStep DEF Shows, Neutral
  <2>4. \A j \in Ids : Done(j) => Done(j)'
    BY <1>1, <2>1 DEF Done, SdkKeys, ProfileKeys
  <2>5. ProgressInv'
    BY <1>1, <1>2, <2>2, <2>4 DEF Shows, ProgressInv, Left
  <2>6. LoopsInv' /\ KnownInv'
    BY <1>1, <2>1, <2>2 DEF Shows, LoopsInv, KnownInv
  <2> QED
    BY <2>3, <2>5, <2>6 DEF Shows
<1>6. CASE client[c].key1 = new.key1 /\ UNCHANGED <<client, step>>
  <2>1. /\ work' = [work EXCEPT !.check = @ \ {id}]
        /\ IF client[c].key2 = NilKey THEN new.key2 = NoKey ELSE client[c].key2 = new.key2
    <3>1. ~(client' = [client EXCEPT ![c].key2 = new.key2] /\ step' = Place("rotate", id, NoClient, c, client[c].key2))
      BY <1>1, <1>6 DEF Place
    <3> QED
      BY <1>2, <1>6, <3>1 DEF CheckSdk
  <2>2. /\ work'.delete = work.delete /\ work'.check = work.check \ {id}
        /\ work'.reset = work.reset /\ work'.add = work.add
    BY <1>3, <2>1
  <2>3. OwnersInv' /\ IndexInv'
    BY <1>1, <1>6, NeutralStep DEF Shows, Neutral
  <2>4. \A j \in Ids : Done(j) => Done(j)'
    BY <1>1, <1>6 DEF Done, SdkKeys, ProfileKeys
  <2>5. Done(id)
    BY <1>2, <1>4, <1>6, <2>1 DEF Done, SdkKeys
  <2>6. ProgressInv'
    BY <1>1, <2>2, <2>4, <2>5 DEF Shows, ProgressInv, Left
  <2>7. LoopsInv' /\ KnownInv'
    BY <1>1, <1>6, <2>2 DEF Shows, LoopsInv, KnownInv
  <2> QED
    BY <2>3, <2>6, <2>7 DEF Shows
<1>7. CASE client[c].key1 = new.key1 /\ ~UNCHANGED <<client, step>>
  <2>1. /\ work' = [work EXCEPT !.check = @ \ {id}]
        /\ client' = [client EXCEPT ![c].key2 = new.key2]
        /\ step' = Place("rotate", id, NoClient, c, client[c].key2)
    BY <1>2, <1>7 DEF CheckSdk
  <2>2. /\ work'.delete = work.delete /\ work'.check = work.check \ {id}
        /\ work'.reset = work.reset /\ work'.add = work.add
    BY <1>3, <2>1
  <2>3. /\ step'.at = "rotate" /\ step'.id = id /\ step'.new = c /\ step'.key = client[c].key2
    BY <2>1 DEF Place
  <2>4. /\ client'[c].key1 = client[c].key1 /\ client'[c].key2 = new.key2
        /\ \A j \in Ids \ {id} : sdkClients[j] # NoClient =>
             sdkClients[j] # c /\ client'[sdkClients[j]] = client[sdkClients[j]]
    <3>1. client \in [ClientIds -> ClientType]
      BY DEF IInv, TypeOK
    <3>2. client'[c].key1 = client[c].key1 /\ client'[c].key2 = new.key2
      BY <1>2, <2>1, <3>1 DEF ClientType
    <3>3. \A j \in Ids \ {id} : sdkClients[j] # NoClient => sdkClients[j] # c /\ sdkClients[j] \in ClientIds
      BY <1>2 DEF IInv, TypeOK, Open, OpenInv, ClientsLive
    <3> QED
      BY <2>1, <3>1, <3>2, <3>3
  <2>5. Owned(c, id)
    BY <1>2 DEF Shows, OwnersInv
  <2>6. OwnersInv'
    <3>1. \A j \in Ids : sdkClients'[j] # NoClient => Owned(sdkClients[j], j)'
      BY <1>1, <1>2, <1>7, <2>4 DEF Shows, OwnersInv, Owned
    <3> QED
      BY <1>1, <1>7, <2>3, <2>4, <2>5, <3>1 DEF OwnersInv, Owned
  <2>7. \A j \in Ids : IndexClient(j) = sdkClients[j] /\ IndexClient(j)' = sdkClients[j]
    BY <1>1, <2>3 DEF IndexClient
  <2>8. \A j \in Ids : IndexKeys(j)' = IndexKeys(j)
    <3>1. IndexKeys(id)' = IndexKeys(id)
      BY <1>1, <1>2, <2>3, <2>4, <2>7 DEF IndexKeys, SdkKeys
    <3>2. ASSUME NEW j \in Ids \ {id} PROVE IndexKeys(j)' = IndexKeys(j)
      <4>1. sdkClients[j] # NoClient => SdkKeys(sdkClients[j])' = SdkKeys(sdkClients[j])
        BY <1>1, <2>4 DEF SdkKeys
      <4> QED
        BY <1>1, <2>3, <2>7, <4>1 DEF IndexKeys
    <3> QED
      BY <3>1, <3>2
  <2>9. IndexInv'
    BY <1>1, <2>7, <2>8 DEF Shows, IndexInv
  <2>10. Done(id)'
    BY <1>1, <1>2, <1>4, <1>7, <2>4 DEF Done, SdkKeys, ProfileKeys
  <2>11. \A j \in Ids \ {id} : Done(j) => Done(j)'
    BY <1>1, <2>4 DEF Done, SdkKeys, ProfileKeys
  <2>12. ProgressInv'
    BY <1>1, <2>2, <2>10, <2>11 DEF Shows, ProgressInv, Left
  <2>13. LoopsInv' /\ KnownInv'
    BY <1>1, <2>2, <2>3 DEF Shows, LoopsInv, KnownInv
  <2> QED
    BY <2>6, <2>9, <2>12, <2>13 DEF Shows
<1> QED
  BY <1>5, <1>6, <1>7

LEMMA RotateSettles == ASSUME IInv, Open, Shows, RotateKey PROVE Shows'
<1> USE RegistrarAssumption
<1> DEFINE c == step.new
           new2 == profile.sdks[step.id].key2
<1>1. /\ step.at = "rotate" /\ step'.at = "check"
      /\ UNCHANGED <<sdkClients, client, profile, registered, work>>
      /\ byKey' = [k \in AllKeys |-> IF k = new2 THEN c ELSE IF k = step.key THEN NoClient ELSE byKey[k]]
  BY DEF RotateKey, Ready, At, Place
<1>2. /\ step.id \in Ids /\ c \in ClientIds /\ c # NoClient /\ sdkClients[step.id] = c
      /\ client[c].key2 = new2
  BY <1>1 DEF IInv, StepInv, Open, OpenInv, NewLinked, NewAtHand, NoClient
<1>3. /\ Owned(c, step.id)
      /\ step.key \in Keys => Owner[step.key] = step.id /\ step.key # client[c].key1
  BY <1>1, <1>2 DEF Shows, OwnersInv
<1>4. OwnersInv'
  BY <1>1 DEF Shows, OwnersInv, Owned
<1>5. IndexInv'
  <2> SUFFICES ASSUME NEW k \in Keys
               PROVE  byKey'[k] = IF k \in IndexKeys(Owner[k])' THEN IndexClient(Owner[k])' ELSE NoClient
    BY DEF IndexInv
  <2>1. /\ byKey'[k] = IF k = new2 THEN c ELSE IF k = step.key THEN NoClient ELSE byKey[k]
        /\ byKey[k] = IF k \in IndexKeys(Owner[k]) THEN IndexClient(Owner[k]) ELSE NoClient
        /\ Owner[k] \in Ids
    BY <1>1 DEF AllKeys, Shows, IndexInv
  <2>2. IndexClient(Owner[k])' = sdkClients[Owner[k]] /\ IndexClient(Owner[k]) = sdkClients[Owner[k]]
    BY <1>1 DEF IndexClient
  <2>3. CASE Owner[k] = step.id
    <3>1. IndexKeys(Owner[k])' = {client[c].key1, client[c].key2} \cap Keys
      BY <1>1, <1>2, <2>2, <2>3 DEF IndexKeys, SdkKeys
    <3>2. IndexKeys(Owner[k]) = {client[c].key1, step.key} \cap Keys
      BY <1>1, <1>2, <2>2, <2>3 DEF IndexKeys
    <3> QED
      BY <1>2, <1>3, <2>1, <2>2, <2>3, <3>1, <3>2 DEF Owned
  <2>4. CASE Owner[k] # step.id
    <3>1. k # new2 /\ k # step.key
      BY <1>2, <1>3, <2>4 DEF Owned
    <3>2. IndexKeys(Owner[k])' = IndexKeys(Owner[k])
      BY <1>1, <2>2, <2>4 DEF IndexKeys, SdkKeys
    <3> QED
      BY <2>1, <2>2, <3>1, <3>2
  <2> QED
    BY <2>3, <2>4
<1>6. LoopsInv' /\ ProgressInv' /\ KnownInv'
  BY <1>1 DEF Shows, LoopsInv, ProgressInv, KnownInv, Left, Done, SdkKeys, ProfileKeys
<1> QED
  BY <1>4, <1>5, <1>6 DEF Shows

(* A new client for an SDK of the profile, in resetSdkClients or in        *)
(* addSdkClients: its keys lead to the old one, or nowhere, until the old  *)
(* keys are deleted and the new ones stored.                               *)
LEMMA BuildSettles ==
  ASSUME IInv, Open, Shows, NEW id \in Ids, ResetSdk(id) \/ (AddSdk(id) /\ sdkClients[id] = NoClient)
  PROVE  Shows'
<1> USE RegistrarAssumption
<1>1. PICK c \in ClientIds :
        /\ Fresh(c)
        /\ client' = [client EXCEPT ![c] = Built(profile.sdks[id])]
        /\ sdkClients' = [sdkClients EXCEPT ![id] = c]
        /\ step' = Place(IF step.at = "add" THEN "addStore"
                         ELSE IF sdkClients[id] = NoClient THEN "resetStore" ELSE "resetKeys",
                         id, sdkClients[id], c, NilKey)
  BY DEF ResetSdk, AddSdk, Ready
<1>2. /\ step.at \in {"reset", "add"} /\ UNCHANGED <<byKey, profile, registered>>
      /\ id \in Present(profile) /\ profile \in Profiles
      /\ step.at = "add" => id \in work.add
      /\ step.at = "reset" => id \in work.reset
      /\ step.at = "add" <=> sdkClients[id] = NoClient
  BY DEF ResetSdk, AddSdk, Ready, IInv, WorkInv, TypeOK, Shows, ProgressInv
<1>3. /\ step'.at = IF step.at = "add" THEN "addStore" ELSE "resetKeys"
      /\ step'.id = id /\ step'.old = sdkClients[id] /\ step'.new = c
  BY <1>1, <1>2 DEF Place
<1>4. /\ sdkClients'[id] = c /\ client'[c] = Built(profile.sdks[id]) /\ c # NoClient
      /\ \A j \in Ids \ {id} : sdkClients'[j] = sdkClients[j]
      /\ \A j \in Ids : sdkClients[j] # NoClient => client'[sdkClients[j]] = client[sdkClients[j]]
  <2>1. \A j \in Ids : sdkClients[j] # c /\ (sdkClients[j] # NoClient => sdkClients[j] \in ClientIds)
    BY <1>1, FreshUnlinked DEF IInv, TypeOK
  <2> QED
    BY <1>1, <2>1 DEF IInv, TypeOK, NoClient
<1>5. work \in [delete : SUBSET Ids, check : SUBSET Ids, reset : SUBSET Ids, add : SUBSET Ids]
  BY DEF IInv, TypeOK
<1>6. /\ work'.delete = work.delete /\ work'.check = work.check
      /\ work'.reset = IF step.at = "add" THEN work.reset ELSE work.reset \ {id}
      /\ work'.add = IF step.at = "add" THEN work.add \ {id} ELSE work.add
  BY <1>2, <1>5 DEF ResetSdk, AddSdk, Ready
<1>7. Owned(c, id)' /\ {client'[c].key1, client'[c].key2} \cap Keys = ProfileKeys(id)'
  <2>1. LET b == Built(profile.sdks[id])
        IN  /\ b.key1 \in Keys /\ Owner[b.key1] = id
            /\ b.key2 \in Keys => Owner[b.key2] = id /\ b.key2 # b.key1
            /\ {b.key1, b.key2} \cap Keys = {profile.sdks[id].key1, profile.sdks[id].key2} \cap Keys
    BY <1>2, BuiltKeys
  <2>2. client'[c].key1 \in Keys /\ Owner[client'[c].key1] = id
    BY <1>4, <2>1
  <2>3. client'[c].key2 \in Keys => Owner[client'[c].key2] = id /\ client'[c].key2 # client'[c].key1
    BY <1>4, <2>1
  <2>4. ProfileKeys(id)' = {profile.sdks[id].key1, profile.sdks[id].key2} \cap Keys
    BY <1>2 DEF ProfileKeys, Present
  <2> QED
    BY <1>4, <2>1, <2>2, <2>3, <2>4 DEF Owned
<1>8. OwnersInv'
  <2>0. \A j \in Ids : sdkClients[j] # NoClient => Owned(sdkClients[j], j)
    BY DEF Shows, OwnersInv
  <2>1. \A j \in Ids \ {id} : sdkClients'[j] # NoClient => Owned(sdkClients[j], j)'
    BY <1>4, <2>0 DEF Owned
  <2>2. step'.at = "resetKeys" => Owned(step.old, step.id)'
    BY <1>2, <1>3, <1>4 DEF Shows, OwnersInv, Owned
  <2>3. \A j \in Ids : sdkClients'[j] # NoClient => Owned(sdkClients[j], j)'
    <3>1. Owned(sdkClients[id], id)'
      BY <1>4, <1>7 DEF Owned
    <3> QED
      BY <2>1, <3>1
  <2> QED
    BY <1>3, <2>2, <2>3 DEF OwnersInv
<1>9. IndexInv'
  <2>1. \A j \in Ids : IndexClient(j) = sdkClients[j] /\ IndexClient(j)' = sdkClients[j]
    BY <1>2, <1>3, <1>4 DEF IndexClient
  <2>2. \A j \in Ids : IndexKeys(j)' = IndexKeys(j)
    <3> SUFFICES ASSUME NEW j \in Ids PROVE IndexKeys(j)' = IndexKeys(j)
      OBVIOUS
    <3>1. CASE sdkClients[j] = NoClient
      BY <2>1, <3>1 DEF IndexKeys
    <3>2. CASE sdkClients[j] # NoClient
      <4>1. IndexKeys(j) = {client[sdkClients[j]].key1, client[sdkClients[j]].key2} \cap Keys
        BY <1>2, <2>1, <3>2 DEF IndexKeys, SdkKeys
      <4>2. IndexKeys(j)' = {client'[sdkClients[j]].key1, client'[sdkClients[j]].key2} \cap Keys
        BY <1>3, <2>1, <3>2 DEF IndexKeys, SdkKeys
      <4> QED
        BY <1>4, <3>2, <4>1, <4>2
    <3> QED
      BY <3>1, <3>2
  <2> QED
    BY <1>2, <2>1, <2>2 DEF Shows, IndexInv
<1>10. LoopsInv'
  BY <1>2, <1>3, <1>6 DEF Shows, LoopsInv
<1>11. ProgressInv'
  <2>1. Done(id)'
    BY <1>2, <1>4, <1>7 DEF Done, SdkKeys, Present
  <2>2. \A j \in Ids \ {id} : Done(j) => Done(j)'
    BY <1>2, <1>4 DEF Done, SdkKeys, ProfileKeys
  <2>3. \A j \in Ids : j \in Left' \/ Done(j)'
    BY <1>6, <2>1, <2>2 DEF Shows, ProgressInv, Left
  <2>4. \A j \in work'.check \cup work'.reset : sdkClients'[j] # NoClient
    BY <1>4, <1>5, <1>6 DEF Shows, ProgressInv
  <2>5. \A j \in work'.add : sdkClients'[j] = NoClient
    BY <1>2, <1>4, <1>5, <1>6 DEF Shows, ProgressInv
  <2> QED
    BY <2>3, <2>4, <2>5 DEF ProgressInv
<1>12. KnownInv'
  BY <1>2, <1>3, <1>4 DEF Shows, KnownInv
<1> QED
  BY <1>8, <1>9, <1>10, <1>11, <1>12 DEF Shows

LEMMA ResetSettles == ASSUME IInv, Open, Shows, ResetKeys \/ ResetClose PROVE Shows'
<1> USE RegistrarAssumption
<1>0. sdkClients \in [Ids -> ClientIds \cup {NoClient}] /\ step \in StepType
  BY DEF IInv, TypeOK, StepType
<1>1. CASE ResetKeys
  <2>1. /\ step.at = "resetKeys" /\ step' = [step EXCEPT !.at = "resetClose"]
        /\ byKey' = Without(SdkKeys(step.old))
        /\ UNCHANGED <<sdkClients, client, profile, registered, work>>
    BY <1>1 DEF ResetKeys, Ready
  <2>2. step'.at = "resetClose" /\ step'.id = step.id /\ step.id \in Ids /\ step.old # NoClient
    BY <1>0, <2>1 DEF StepType, IInv, StepInv, OldAtHand, NoClient
  <2>3. OwnersInv' /\ Owned(step.old, step.id)
    BY <2>1, <2>2 DEF Shows, OwnersInv, Owned
  <2>4. IndexInv'
    <3> SUFFICES ASSUME NEW k \in Keys
                 PROVE  byKey'[k] = IF k \in IndexKeys(Owner[k])' THEN IndexClient(Owner[k])' ELSE NoClient
      BY DEF IndexInv
    <3>1. /\ byKey'[k] = IF k \in SdkKeys(step.old) THEN NoClient ELSE byKey[k]
          /\ byKey[k] = IF k \in IndexKeys(Owner[k]) THEN IndexClient(Owner[k]) ELSE NoClient
          /\ Owner[k] \in Ids
      BY <2>1 DEF Without, AllKeys, Shows, IndexInv
    <3>2. CASE Owner[k] = step.id
      <4>1. IndexClient(Owner[k])' = NoClient
        BY <2>2, <3>2 DEF IndexClient
      <4>2. IndexClient(Owner[k]) = step.old /\ IndexKeys(Owner[k]) = SdkKeys(step.old)
        BY <2>1, <2>2, <3>2 DEF IndexClient, IndexKeys
      <4> QED
        BY <3>1, <4>1, <4>2
    <3>3. CASE Owner[k] # step.id
      <4>1. k \notin SdkKeys(step.old)
        BY <2>3, <3>3 DEF Owned, SdkKeys
      <4>2. IndexClient(Owner[k])' = IndexClient(Owner[k])
        BY <2>1, <2>2, <3>3 DEF IndexClient
      <4>3. IndexKeys(Owner[k])' = IndexKeys(Owner[k])
        BY <2>1, <2>2, <3>3, <4>2 DEF IndexKeys, SdkKeys
      <4> QED
        BY <3>1, <4>1, <4>2, <4>3
    <3> QED
      BY <3>2, <3>3
  <2>5. LoopsInv' /\ ProgressInv' /\ KnownInv'
    BY <2>1, <2>2 DEF Shows, LoopsInv, ProgressInv, KnownInv, Left, Done, SdkKeys, ProfileKeys
  <2> QED
    BY <2>3, <2>4, <2>5 DEF Shows
<1>2. CASE ResetClose
  <2>1. /\ step.at = "resetClose" /\ step' = [step EXCEPT !.at = "resetStore"]
        /\ client' = CloseOf(step.old)
        /\ UNCHANGED <<sdkClients, byKey, profile, registered, work>>
    BY <1>2 DEF ResetClose, Ready
  <2>2. step'.at = "resetStore" /\ step'.id = step.id /\ step.id \in Ids /\ step.old \in ClientIds
    BY <1>0, <2>1 DEF StepType, IInv, StepInv, OldAtHand
  <2>3. \A j \in Ids : sdkClients[j] # NoClient =>
          /\ client'[sdkClients[j]].key1 = client[sdkClients[j]].key1
          /\ client'[sdkClients[j]].key2 = client[sdkClients[j]].key2
    BY <2>1, <2>2, CloseKeepsKeys DEF IInv
  <2>4. OwnersInv'
    <3>1. \A j \in Ids : sdkClients[j] # NoClient => Owned(sdkClients[j], j)
      BY DEF Shows, OwnersInv
    <3>2. \A j \in Ids : sdkClients'[j] # NoClient => Owned(sdkClients[j], j)'
      BY <2>1, <2>3, <3>1 DEF Owned
    <3> QED
      BY <2>2, <3>2 DEF OwnersInv
  <2>5. \A j \in Ids : IndexClient(j)' = IndexClient(j) /\ IndexClient(j) \in {NoClient, sdkClients[j]}
    BY <2>1, <2>2 DEF IndexClient
  <2>6. \A j \in Ids : IndexKeys(j)' = IndexKeys(j)
    <3> SUFFICES ASSUME NEW j \in Ids PROVE IndexKeys(j)' = IndexKeys(j)
      OBVIOUS
    <3>1. CASE IndexClient(j) = NoClient
      BY <2>5, <3>1 DEF IndexKeys
    <3>2. CASE IndexClient(j) # NoClient
      <4>1. IndexKeys(j) = {client[sdkClients[j]].key1, client[sdkClients[j]].key2} \cap Keys
        BY <2>1, <2>5, <3>2 DEF IndexKeys, SdkKeys
      <4>2. IndexKeys(j)' = {client'[sdkClients[j]].key1, client'[sdkClients[j]].key2} \cap Keys
        BY <2>2, <2>5, <3>2 DEF IndexKeys, SdkKeys
      <4> QED
        BY <2>3, <2>5, <3>2, <4>1, <4>2
    <3> QED
      BY <3>1, <3>2
  <2>7. IndexInv'
    BY <2>1, <2>5, <2>6 DEF Shows, IndexInv
  <2>8. \A j \in Ids : Done(j) => Done(j)'
    BY <2>1, <2>3 DEF Done, SdkKeys, ProfileKeys
  <2>9. LoopsInv' /\ ProgressInv'
    BY <2>1, <2>2, <2>8 DEF Shows, LoopsInv, ProgressInv, Left
  <2>10. KnownInv'
    BY <2>1, <2>2 DEF Shows, KnownInv
  <2> QED
    BY <2>4, <2>7, <2>9, <2>10 DEF Shows
<1> QED
  BY <1>1, <1>2

(* The keys of the new client are stored. *)
LEMMA StoreSettles == ASSUME IInv, Open, Shows, ResetStore \/ AddStore PROVE Shows'
<1> USE RegistrarAssumption
<1>1. /\ step.at \in {"resetStore", "addStore"}
      /\ step'.at = IF step.at = "addStore" THEN "add" ELSE "reset"
      /\ registered' = IF step.at = "addStore" THEN registered \cup {step.id} ELSE registered
      /\ byKey' = With(SdkKeys(step.new), step.new)
      /\ UNCHANGED <<sdkClients, client, profile, work>>
  BY DEF ResetStore, AddStore, Ready, At, Place
<1>2. /\ step.id \in Ids /\ step.new # NoClient /\ sdkClients[step.id] = step.new
  BY <1>1 DEF IInv, StepInv, Open, OpenInv, NewLinked, NewAtHand, NoClient
<1>3. OwnersInv' /\ Owned(step.new, step.id)
  BY <1>1, <1>2 DEF Shows, OwnersInv, Owned
<1>4. IndexInv'
  <2> SUFFICES ASSUME NEW k \in Keys
               PROVE  byKey'[k] = IF k \in IndexKeys(Owner[k])' THEN IndexClient(Owner[k])' ELSE NoClient
    BY DEF IndexInv
  <2>1. /\ byKey'[k] = IF k \in SdkKeys(step.new) THEN step.new ELSE byKey[k]
        /\ byKey[k] = IF k \in IndexKeys(Owner[k]) THEN IndexClient(Owner[k]) ELSE NoClient
        /\ Owner[k] \in Ids
    BY <1>1 DEF With, AllKeys, Shows, IndexInv
  <2>2. IndexClient(Owner[k])' = sdkClients[Owner[k]]
    BY <1>1 DEF IndexClient
  <2>3. CASE Owner[k] = step.id
    <3>1. IndexKeys(Owner[k])' = SdkKeys(step.new)
      BY <1>1, <1>2, <2>2, <2>3 DEF IndexKeys, SdkKeys
    <3>2. IndexClient(Owner[k]) = NoClient
      BY <1>1, <2>3 DEF IndexClient
    <3> QED
      BY <1>2, <2>1, <2>2, <2>3, <3>1, <3>2
  <2>4. CASE Owner[k] # step.id
    <3>1. k \notin SdkKeys(step.new)
      BY <1>3, <2>4 DEF Owned, SdkKeys
    <3>2. IndexClient(Owner[k]) = sdkClients[Owner[k]]
      BY <2>4 DEF IndexClient
    <3>3. IndexKeys(Owner[k])' = IndexKeys(Owner[k])
      BY <1>1, <2>2, <2>4, <3>2 DEF IndexKeys, SdkKeys
    <3> QED
      BY <2>1, <2>2, <3>1, <3>2, <3>3
  <2> QED
    BY <2>3, <2>4
<1>5. LoopsInv' /\ ProgressInv'
  BY <1>1 DEF Shows, LoopsInv, ProgressInv, Left, Done, SdkKeys, ProfileKeys
<1>6. KnownInv'
  BY <1>1, <1>2 DEF Shows, KnownInv
<1> QED
  BY <1>3, <1>4, <1>5, <1>6 DEF Shows

(* The ends of the loops, Publish and the stream server touch no map. *)
LEMMA OtherSettles ==
  ASSUME IInv, Open, Shows, LoopDone \/ Publish \/ TakeNotice \/ UNCHANGED rvars
  PROVE  Shows'
<1>1. CASE LoopDone
  <2>1. /\ step.at \in Neutral /\ step'.at \in Neutral
        /\ UNCHANGED <<sdkClients, byKey, client, profile, registered, work>>
        /\ \/ step.at = "delete" /\ step'.at = "check" /\ work.delete = {}
           \/ step.at = "check" /\ step'.at = "reset" /\ work.check = {}
           \/ step.at = "reset" /\ step'.at = "add" /\ work.reset = {}
           \/ step.at = "add" /\ step'.at = "idle" /\ work.add = {}
    BY <1>1 DEF LoopDone, Idle, At, Place, Neutral, IInv, TypeOK
  <2>2. OwnersInv' /\ IndexInv'
    BY <2>1, NeutralStep DEF Shows
  <2>3. LoopsInv'
    BY <2>1 DEF Shows, LoopsInv
  <2>4. ProgressInv'
    BY <2>1 DEF Shows, ProgressInv, Left, Done, SdkKeys, ProfileKeys
  <2>5. KnownInv'
    BY <2>1 DEF Shows, KnownInv
  <2> QED
    BY <2>2, <2>3, <2>4, <2>5 DEF Shows
<1>2. CASE UNCHANGED <<sdkClients, byKey, client, profile, registered, step, work>>
  <2>1. OwnersInv' /\ LoopsInv' /\ ProgressInv' /\ KnownInv'
    BY <1>2 DEF Shows, OwnersInv, Owned, LoopsInv, ProgressInv, Left, Done, SdkKeys,
                ProfileKeys, KnownInv
  <2>2. \A j \in Ids : IndexClient(j)' = IndexClient(j)
    BY <1>2 DEF IndexClient
  <2>3. \A j \in Ids : IndexKeys(j)' = IndexKeys(j)
    BY <1>2, <2>2 DEF IndexKeys, SdkKeys
  <2>4. IndexInv'
    BY <1>2, <2>2, <2>3, RegistrarAssumption DEF Shows, IndexInv
  <2> QED
    BY <2>1, <2>4 DEF Shows
<1> QED
  BY <1>1, <1>2 DEF Publish, TakeNotice, rvars

(* newAutoRegistrar builds what its first profile says. *)
LEMMA InitSettled == Init => SettleInv
<1> USE RegistrarAssumption
<1> SUFFICES ASSUME Init PROVE Shows
  BY DEF SettleInv
<1>1. /\ profile \in Profiles /\ step.at = "idle" /\ registered = Present(profile)
      /\ work.delete = {} /\ work.check = {} /\ work.reset = {} /\ work.add = {}
  BY DEF Init, Idle, At, Place, NoWork
<1>2. PICK f \in [Ids -> ClientIds \cup {NoClient}] :
        /\ \A id \in Ids : f[id] = NoClient <=> profile.sdks[id] = NoSdk
        /\ \A i, j \in Ids : f[i] = f[j] /\ f[i] # NoClient => i = j
        /\ sdkClients = f
        /\ client = [c \in ClientIds |->
                       IF \E id \in Ids : f[id] = c
                         THEN Built(profile.sdks[CHOOSE id \in Ids : f[id] = c])
                         ELSE Unborn]
  BY DEF Init
<1>3. \A id \in Ids : sdkClients[id] # NoClient =>
        /\ id \in Present(profile) /\ client[sdkClients[id]] = Built(profile.sdks[id])
  <2> SUFFICES ASSUME NEW id \in Ids, sdkClients[id] # NoClient
               PROVE  id \in Present(profile) /\ client[sdkClients[id]] = Built(profile.sdks[id])
    OBVIOUS
  <2>1. sdkClients[id] \in ClientIds /\ id \in Present(profile)
    BY <1>2 DEF Present
  <2>2. (CHOOSE j \in Ids : f[j] = sdkClients[id]) = id
    BY <1>2
  <2> QED
    BY <1>2, <2>1, <2>2
<1>4. \A id \in Ids : sdkClients[id] # NoClient =>
        Owned(sdkClients[id], id) /\ SdkKeys(sdkClients[id]) = ProfileKeys(id)
  <2> SUFFICES ASSUME NEW id \in Ids, sdkClients[id] # NoClient
               PROVE  Owned(sdkClients[id], id) /\ SdkKeys(sdkClients[id]) = ProfileKeys(id)
    OBVIOUS
  <2>1. LET b == Built(profile.sdks[id])
        IN  /\ b.key1 \in Keys /\ Owner[b.key1] = id
            /\ b.key2 \in Keys => Owner[b.key2] = id /\ b.key2 # b.key1
            /\ {b.key1, b.key2} \cap Keys = {profile.sdks[id].key1, profile.sdks[id].key2} \cap Keys
    BY <1>1, <1>3, BuiltKeys
  <2>2. Owned(sdkClients[id], id)
    BY <1>3, <2>1 DEF Owned
  <2>3. ProfileKeys(id) = {profile.sdks[id].key1, profile.sdks[id].key2} \cap Keys
    BY <1>3 DEF ProfileKeys, Present
  <2> QED
    BY <1>3, <2>1, <2>2, <2>3 DEF SdkKeys
<1>5. OwnersInv
  BY <1>1, <1>4 DEF OwnersInv
<1>6. IndexInv
  <2> SUFFICES ASSUME NEW k \in Keys
               PROVE  byKey[k] = IF k \in IndexKeys(Owner[k]) THEN IndexClient(Owner[k]) ELSE NoClient
    BY DEF IndexInv
  <2>1. Owner[k] \in Ids /\ IndexClient(Owner[k]) = sdkClients[Owner[k]]
    BY <1>1 DEF IndexClient
  <2>2. IndexKeys(Owner[k]) = ProfileKeys(Owner[k])
    BY <1>1, <1>2, <1>4, <2>1 DEF IndexKeys, ProfileKeys
  <2>3. byKey[k] = IF \E id \in Present(profile) :
                        k \in {profile.sdks[id].key1, profile.sdks[id].key2} \cap Keys
                     THEN sdkClients[Owner[k]] ELSE NoClient
    BY DEF Init, AllKeys
  <2>4. (\E id \in Present(profile) : k \in {profile.sdks[id].key1, profile.sdks[id].key2} \cap Keys)
          <=> k \in ProfileKeys(Owner[k])
    BY <1>1, <2>1, ProfileAssumption DEF Present, ProfileKeys
  <2> QED
    BY <2>1, <2>2, <2>3, <2>4
<1>7. LoopsInv
  BY <1>1 DEF LoopsInv
<1>8. ProgressInv
  BY <1>1, <1>2, <1>4 DEF ProgressInv, Done
<1>9. KnownInv
  BY <1>1, <1>2 DEF KnownInv, Present
<1> QED
  BY <1>5, <1>6, <1>7, <1>8, <1>9 DEF Shows

LEMMA NextSettle == IInv /\ SettleInv /\ [Next]_rvars => SettleInv'
<1> SUFFICES ASSUME IInv, SettleInv, [Next]_rvars, Open' PROVE Shows'
  BY DEF SettleInv
<1>1. Open /\ ~CloseStep
  <2>1. ~CloseStep
    BY DEF CloseStep, CloseBegin, CloseOne, CloseDelete, CloseEnd, Open, IInv, OpenInv
  <2> QED
    BY <2>1 DEF Next, RegistrarStep, RefreshStep, TakeNotice, rvars, Open, RefreshConfig, DeleteSdk,
                CheckSdk, ResetSdk, AddSdk, DeleteKeys, DeleteClose, LoopDone, RotateKey, ResetKeys,
                ResetClose, ResetStore, AddStore, Publish
<1>2. Shows
  BY <1>1 DEF SettleInv
<1>3. CASE \E p \in Profiles : RefreshConfig(p)
  BY <1>1, <1>2, <1>3, RefreshSettles
<1>4. CASE \E id \in Ids : DeleteSdk(id)
  BY <1>1, <1>2, <1>4, DeleteSettles
<1>5. CASE \E id \in Ids : CheckSdk(id)
  BY <1>1, <1>2, <1>5, CheckSettles
<1>6. CASE \E id \in Ids : ResetSdk(id)
  BY <1>1, <1>2, <1>6, BuildSettles
<1>7. CASE \E id \in Ids : AddSdk(id)
  <2>1. PICK id \in Ids : AddSdk(id)
    BY <1>7
  <2>2. sdkClients[id] = NoClient
    BY <1>2, <2>1 DEF Shows, ProgressInv, AddSdk
  <2> QED
    BY <1>1, <1>2, <2>1, <2>2, BuildSettles
<1>8. CASE DeleteKeys \/ DeleteClose
  <2>1. step.id \in Ids
    BY <1>8 DEF DeleteKeys, DeleteClose, Ready, IInv, StepInv, OldAtHand
  <2> QED
    BY <1>1, <1>2, <1>8, <2>1, DeleteSettles
<1>9. CASE RotateKey
  BY <1>1, <1>2, <1>9, RotateSettles
<1>10. CASE ResetKeys \/ ResetClose
  BY <1>1, <1>2, <1>10, ResetSettles
<1>11. CASE ResetStore \/ AddStore
  BY <1>1, <1>2, <1>11, StoreSettles
<1>12. CASE LoopDone \/ Publish \/ TakeNotice \/ UNCHANGED rvars
  BY <1>1, <1>2, <1>12, OtherSettles
<1> QED
  BY <1>1, <1>3, <1>4, <1>5, <1>6, <1>7, <1>8, <1>9, <1>10, <1>11, <1>12
     DEF Next, RegistrarStep, RefreshStep

(* Between two refreshes both maps and the status reporter show the last   *)
(* profile, its SDKs with their keys and no other: whatever was deleted,   *)
(* rotated, reset and added on the way (sdk_auto_registrar.go:169-228,     *)
(* 348-417), however many SDKs and refreshes there are.                    *)
THEOREM SettledShows == Spec => []SettledShowsProfile
<1>1. IInv /\ SettleInv => SettledShowsProfile
  <2> SUFFICES ASSUME SettleInv, Ready("idle"), Open
               PROVE  /\ \A id \in Ids : Done(id)
                      /\ \A k \in Keys : byKey[k] = IF k \in ProfileKeys(Owner[k])
                                                       THEN sdkClients[Owner[k]] ELSE NoClient
                      /\ IInv => registered = Present(profile)
    BY DEF SettledShowsProfile, Done, Open
  <2>1. Shows /\ step.at = "idle"
    BY DEF SettleInv, Ready
  <2>2. \A id \in Ids : Done(id)
    BY <2>1 DEF Shows, ProgressInv, LoopsInv, Left
  <2>3. \A id \in Ids : IndexClient(id) = sdkClients[id] /\ IndexKeys(id) = ProfileKeys(id)
    BY <2>1, <2>2 DEF IndexClient, IndexKeys, Done, ProfileKeys
  <2>4. \A k \in Keys : byKey[k] = IF k \in ProfileKeys(Owner[k])
                                     THEN sdkClients[Owner[k]] ELSE NoClient
    BY <2>1, <2>3, RegistrarAssumption DEF Shows, IndexInv
  <2>5. IInv => registered = Present(profile)
    BY <2>1, <2>2 DEF Shows, KnownInv, Done, Present, IInv, TypeOK
  <2> QED
    BY <2>2, <2>4, <2>5
<1> QED
  BY <1>1, Inductive, InitSettled, NextSettle, PTL DEF Spec

-----------------------------------------------------------------------------
(* No client is lost or closed twice before Close.                         *)

(* Until Close, no client was closed twice, and one that is not closed is  *)
(* in the map or is the one run is about to close: a client that was built *)
(* does not go on polling with nobody left to close it.                    *)
EveryClientIsClosedOnce ==
  Open =>
    /\ ~doubleClose
    /\ \A c \in ClientIds : client[c].state = "live" =>
         (\E id \in Ids : sdkClients[id] = c) \/ (step.at \in OldAtHand /\ step.old = c)

LEMMA InitClosedOnce == Init => EveryClientIsClosedOnce
<1> SUFFICES ASSUME Init PROVE EveryClientIsClosedOnce
  OBVIOUS
<1>1. PICK f \in [Ids -> ClientIds \cup {NoClient}] :
        /\ sdkClients = f
        /\ client = [c \in ClientIds |->
                       IF \E id \in Ids : f[id] = c
                         THEN Built(profile.sdks[CHOOSE id \in Ids : f[id] = c])
                         ELSE Unborn]
  BY DEF Init
<1>2. \A c \in ClientIds : client[c].state = "live" => \E id \in Ids : sdkClients[id] = c
  BY <1>1 DEF Unborn
<1> QED
  BY <1>2 DEF Init, EveryClientIsClosedOnce

(* A client is built straight into the map, in place of the one at hand. *)
LEMMA BuildClosedOnce ==
  ASSUME IInv, EveryClientIsClosedOnce, Open', NEW id \in Ids, ResetSdk(id) \/ AddSdk(id)
  PROVE  EveryClientIsClosedOnce'
<1> USE DEF EveryClientIsClosedOnce
<1>1. Open /\ ~doubleClose' /\ step.at \notin OldAtHand
  BY DEF ResetSdk, AddSdk, Open, Ready, OldAtHand
<1>2. CASE UNCHANGED <<client, sdkClients, step>>
  BY <1>1, <1>2
<1>3. ASSUME NEW c \in ClientIds, client' = [client EXCEPT ![c] = Built(profile.sdks[id])],
             sdkClients' = [sdkClients EXCEPT ![id] = c],
             sdkClients[id] # NoClient => step'.at \in OldAtHand /\ step'.old = sdkClients[id]
      PROVE  EveryClientIsClosedOnce'
  <2> SUFFICES ASSUME NEW d \in ClientIds, client'[d].state = "live"
               PROVE  (\E i \in Ids : sdkClients'[i] = d) \/ (step'.at \in OldAtHand /\ step'.old = d)
    BY <1>1
  <2>1. sdkClients \in [Ids -> ClientIds \cup {NoClient}] /\ client \in [ClientIds -> ClientType]
    BY DEF IInv, TypeOK
  <2>2. CASE d = c
    BY <1>3, <2>1, <2>2
  <2>3. CASE d # c
    <3>1. client[d].state = "live"
      BY <1>3, <2>1, <2>3
    <3>2. PICK i \in Ids : sdkClients[i] = d
      BY <1>1, <3>1
    <3>3. d # NoClient
      BY RegistrarAssumption
    <3> QED
      BY <1>3, <2>1, <3>2, <3>3
  <2> QED
    BY <2>2, <2>3
<1>4. CASE ResetSdk(id)
  <2>1. PICK c \in ClientIds :
          /\ client' = [client EXCEPT ![c] = Built(profile.sdks[id])]
          /\ sdkClients' = [sdkClients EXCEPT ![id] = c]
          /\ step' = Place(IF sdkClients[id] = NoClient THEN "resetStore" ELSE "resetKeys",
                            id, sdkClients[id], c, NilKey)
    BY <1>4 DEF ResetSdk
  <2>2. sdkClients[id] # NoClient => step'.at \in OldAtHand /\ step'.old = sdkClients[id]
    BY <2>1 DEF Place, OldAtHand
  <2> QED
    BY <1>3, <2>1, <2>2
<1>5. CASE AddSdk(id)
  BY <1>2, <1>3, <1>5 DEF AddSdk
<1> QED
  BY <1>4, <1>5

LEMMA NextClosedOnce == IInv /\ EveryClientIsClosedOnce /\ [Next]_rvars => EveryClientIsClosedOnce'
<1> SUFFICES ASSUME IInv, EveryClientIsClosedOnce, [Next]_rvars, Open'
             PROVE  EveryClientIsClosedOnce'
  BY DEF EveryClientIsClosedOnce
<1> USE DEF EveryClientIsClosedOnce
<1>1. sdkClients \in [Ids -> ClientIds \cup {NoClient}] /\ client \in [ClientIds -> ClientType]
  BY DEF IInv, TypeOK
<1>2. Open => /\ unvisited = {} /\ ranging = NoSdk
              /\ step.at \in OldAtHand => Live(step.old) /\ step.old \in ClientIds
  BY DEF IInv, OpenInv, OldUnlinked, StepInv, Open
<1>3. ASSUME NEW p \in Profiles, RefreshConfig(p) PROVE EveryClientIsClosedOnce'
  BY <1>3 DEF RefreshConfig, Ready, Open, OldAtHand
<1>4. ASSUME NEW id \in Ids, DeleteSdk(id) PROVE EveryClientIsClosedOnce'
  <2>1. /\ Open /\ ~doubleClose' /\ client' = client
        /\ sdkClients' = [sdkClients EXCEPT ![id] = NoClient] /\ step.at \notin OldAtHand
    BY <1>4 DEF DeleteSdk, Open, Ready, OldAtHand
  <2>2. sdkClients[id] # NoClient => step'.at \in OldAtHand /\ step'.old = sdkClients[id]
    BY <1>4 DEF DeleteSdk, Place, OldAtHand
  <2> QED
    BY <1>1, <2>1, <2>2, RegistrarAssumption
<1>5. CASE DeleteKeys \/ ResetKeys
  BY <1>5 DEF DeleteKeys, ResetKeys, Ready, Open, OldAtHand, IInv, TypeOK
<1>6. CASE DeleteClose \/ ResetClose
  <2>1. /\ Open /\ client' = CloseOf(step.old) /\ sdkClients' = sdkClients
        /\ doubleClose' = (doubleClose \/ ~Live(step.old)) /\ step.at \in OldAtHand
    BY <1>6 DEF DeleteClose, ResetClose, Open, Ready, OldAtHand
  <2>2. ~doubleClose'
    BY <1>2, <2>1
  <2>3. \A c \in ClientIds : client'[c].state = "live" => client[c].state = "live" /\ c # step.old
    BY <1>1, <1>2, <2>1 DEF CloseOf, ClientType
  <2> QED
    BY <2>1, <2>2, <2>3
<1>7. CASE LoopDone
  BY <1>7 DEF LoopDone, Open, OldAtHand
<1>8. ASSUME NEW id \in Ids, CheckSdk(id) PROVE EveryClientIsClosedOnce'
  <2>1. Open /\ ~doubleClose' /\ sdkClients' = sdkClients /\ step.at \notin OldAtHand
    BY <1>8 DEF CheckSdk, Open, Ready, OldAtHand
  <2>2. \A c \in ClientIds : client'[c].state = client[c].state
    BY <1>1, <1>8 DEF CheckSdk, ClientType
  <2> QED
    BY <2>1, <2>2
<1>9. CASE RotateKey \/ ResetStore \/ AddStore
  BY <1>9 DEF RotateKey, ResetStore, AddStore, Ready, Open, OldAtHand
<1>10. ASSUME NEW id \in Ids, ResetSdk(id) \/ AddSdk(id) PROVE EveryClientIsClosedOnce'
  BY <1>10, BuildClosedOnce
<1>11. CASE Publish \/ TakeNotice \/ UNCHANGED rvars
  BY <1>11 DEF Publish, TakeNotice, rvars, Open
<1>12. CASE CloseStep
  BY <1>2, <1>12 DEF CloseStep, CloseBegin, CloseOne, CloseDelete, CloseEnd, Open
<1> HIDE DEF EveryClientIsClosedOnce
<1> QED
  BY <1>3, <1>4, <1>5, <1>6, <1>7, <1>8, <1>9, <1>10, <1>11, <1>12 DEF Next, RegistrarStep, RefreshStep

(* Until Close every client is closed once, by the refresh that takes it   *)
(* out of the map, and none is forgotten (sdk_auto_registrar.go:347-361,   *)
(* 394-411): the double close of the run registrar_panic needs Close.      *)
THEOREM ClientsClosedOnce == Spec => []EveryClientIsClosedOnce
<1> QED
  BY InitClosedOnce, NextClosedOnce, Inductive, PTL DEF Spec
=============================================================================
