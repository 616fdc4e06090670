------------------------------ MODULE Registrar ------------------------------
(***************************************************************************)
(* sdk/sdk_auto_registrar.go: the registrar follows a remote profile.  Its *)
(* run goroutine turns every new profile into a sequence of deletes,       *)
(* secondary-key updates, resets and adds on two concurrent maps, the SDK  *)
(* clients by id and by SDK key, while API handlers and the stream server  *)
(* read those maps, and Close may run at any moment.                       *)
(*                                                                         *)
(* One action is one map operation or group of operations between which    *)
(* nothing else that the model tells apart can happen.  Publish is a step  *)
(* of its own since it waits while the publisher's buffer is full.  Every  *)
(* refresh may find any profile: where getConfig takes it from, the remote *)
(* service or the cache, is left out.                                      *)
(***************************************************************************)
EXTENDS Integers, Sequences

CONSTANTS
  Ids,          \* SDK ids
  Keys,         \* SDK keys other than the empty one
  Owner,        \* the SDK id a key was issued for
  NoKey,        \* the empty key
  NilKey,       \* a client's secondary key before one is set
  Profiles,     \* [opts, sdks]: sdks[id] is [key1, key2], or NoSdk
  NoSdk,        \* the profile does not contain the id
  ClientIds,    \* names for the SDK clients that get built: a set of numbers
  NoticeCap,    \* capacity of the registrar's publisher and of sdkChanged
  MaxRefreshes, \* bound: how many new profiles arrive
  WithClose     \* whether the behaviours include Close

NoClient == 0

ASSUME RegistrarAssumption ==
  /\ NoKey \notin Keys /\ NilKey \notin Keys \cup {NoKey} /\ NoSdk \notin Ids
  /\ Owner \in [Keys -> Ids]
  /\ ClientIds \subseteq Nat \ {NoClient}
  /\ NoticeCap \in Nat \ {0} /\ MaxRefreshes \in Nat /\ WithClose \in BOOLEAN

(* A profile gives each of its SDKs a primary and maybe a secondary key,   *)
(* another one, both issued for that SDK.  Were they the same, the change  *)
(* of the secondary key would delete the primary one (sdk_auto_registrar.  *)
(* go:203-206).                                                            *)
ASSUME ProfileAssumption ==
  \A p \in Profiles : \A id \in Ids :
    p.sdks[id] # NoSdk =>
      /\ p.sdks[id].key1 \in Keys /\ Owner[p.sdks[id].key1] = id
      /\ p.sdks[id].key2 \in Keys \cup {NoKey}
      /\ p.sdks[id].key2 # NoKey => Owner[p.sdks[id].key2] = id /\ p.sdks[id].key2 # p.sdks[id].key1

VARIABLES
  sdkClients,  \* per id: the client, or NoClient
  byKey,       \* sdkClientsBySdkKey, over Keys and NoKey
  client,      \* per client: [state, key1, key2]; key2 is NilKey if never set
  profile,     \* the profile of the last refresh; its opts are r.options
  registered,  \* the ids the status reporter knows
  notices,     \* published ids that wait for the stream server
  step,        \* where run is, with the id and the clients at hand
  work,        \* ids left for: delete, check, reset, add
  publishing,  \* the id run waits to publish, or NoSdk
  closing,     \* "open", "closing" (inside Close), "closed"
  unvisited,   \* the ids Close has not visited yet
  ranging,     \* the id whose client Close is closing, or NoSdk
  doubleClose, \* history: some client was closed twice
  refreshes

rvars == <<sdkClients, byKey, client, profile, registered, notices, step, work,
           publishing, closing, unvisited, ranging, doubleClose, refreshes>>

AllKeys == Keys \cup {NoKey}
Unborn == [state |-> "unborn", key1 |-> NoKey, key2 |-> NilKey]

(* Client.SdkKeys without the nil and empty keys *)
SdkKeys(c) == {client[c].key1, client[c].key2} \cap Keys

Live(c) == c # NoClient /\ client[c].state = "live"

(* The next unused client name *)
Fresh(c) == c \in ClientIds /\ client[c] = Unborn
              /\ \A d \in ClientIds : client[d] = Unborn => c <= d

(* NewClient for an SDK of the profile *)
Built(sdk) == [state |-> "live", key1 |-> sdk.key1,
               key2 |-> IF sdk.key2 = NoKey THEN NilKey ELSE sdk.key2]

(* Publisher and client.ctx panic when they are closed a second time. *)
CloseOf(c) == [client EXCEPT ![c].state = "closed"]

Without(ks) == [k \in AllKeys |-> IF k \in ks THEN NoClient ELSE byKey[k]]
With(ks, c) == [k \in AllKeys |-> IF k \in ks THEN c ELSE byKey[k]]

Present(p) == {id \in Ids : p.sdks[id] # NoSdk}
(* A place in run's code with the id, clients and revoked key at hand *)
Place(at, id, old, new, key) ==
  [at |-> at, id |-> id, old |-> old, new |-> new, key |-> key]
At(a) == Place(a, NoSdk, NoClient, NoClient, NilKey)
Idle == At("idle")
NoWork == [delete |-> {}, check |-> {}, reset |-> {}, add |-> {}]
(* run may take its next step *)
Ready(at) == step.at = at /\ publishing = NoSdk

-----------------------------------------------------------------------------
(* newAutoRegistrar: the first profile, one client per SDK. *)
Init ==
  /\ profile \in Profiles
  /\ \E f \in [Ids -> ClientIds \cup {NoClient}] :
       /\ \A id \in Ids : f[id] = NoClient <=> profile.sdks[id] = NoSdk
       /\ \A i, j \in Ids : f[i] = f[j] /\ f[i] # NoClient => i = j
       /\ \A id \in Ids, c \in ClientIds : c < f[id] => \E j \in Ids : f[j] = c
       /\ sdkClients = f
       /\ client = [c \in ClientIds |->
                      IF \E id \in Ids : f[id] = c
                        THEN Built(profile.sdks[CHOOSE id \in Ids : f[id] = c])
                        ELSE Unborn]
  /\ byKey = [k \in AllKeys |->
                IF \E id \in Present(profile) :
                     k \in {profile.sdks[id].key1, profile.sdks[id].key2} \cap Keys
                  THEN sdkClients[Owner[k]] ELSE NoClient]
  /\ registered = Present(profile)
  /\ notices = <<>>
  /\ step = Idle
  /\ work = NoWork
  /\ publishing = NoSdk
  /\ closing = "open" /\ unvisited = {} /\ ranging = NoSdk
  /\ doubleClose = FALSE
  /\ refreshes = 0

-----------------------------------------------------------------------------
(* Plausible bugs, substituted for the definition they imitate. *)

\* resetSdkClients leaves the keys of the old client in the map
MutResetKeys ==
  /\ Ready("resetKeys")
  /\ step' = [step EXCEPT !.at = "resetClose"]
  /\ UNCHANGED <<sdkClients, byKey, client, profile, registered, notices, work, publishing,
                 closing, unvisited, ranging, doubleClose, refreshes>>

\* resetSdkClients forgets to store the keys of the new client
MutResetStore ==
  /\ Ready("resetStore")
  /\ step' = At("reset")
  /\ UNCHANGED <<sdkClients, byKey, client, profile, registered, notices, work, publishing,
                 closing, unvisited, ranging, doubleClose, refreshes>>

\* addSdkClients forgets RegisterSdk
MutAddStore ==
  /\ Ready("addStore")
  /\ byKey' = With(SdkKeys(step.new), step.new)
  /\ publishing' = step.id
  /\ step' = At("add")
  /\ UNCHANGED <<sdkClients, client, profile, registered, notices, work, closing, unvisited,
                 ranging, doubleClose, refreshes>>

\* Publish does not wait for room
MutPublish ==
  /\ publishing # NoSdk
  /\ notices' = Append(notices, publishing)
  /\ publishing' = NoSdk
  /\ UNCHANGED <<sdkClients, byKey, client, profile, registered, step, work, closing,
                 unvisited, ranging, doubleClose, refreshes>>

-----------------------------------------------------------------------------
(* refreshConfig *)

(* getConfig returned a profile; the sets of ids are computed up front.  A *)
(* profile that getConfig returned just before Close is still applied, but *)
(* it is the last one: run then finds its context cancelled.               *)
RefreshConfig(p) ==
  LET here == {id \in Ids : sdkClients[id] # NoClient}
  IN  /\ Ready("idle") /\ refreshes < MaxRefreshes
      /\ profile' = p
      /\ work' = [delete |-> here \ Present(p),
                  add |-> Present(p) \ here,
                  check |-> IF p.opts = profile.opts THEN Present(p) \cap here ELSE {},
                  reset |-> IF p.opts = profile.opts THEN {} ELSE Present(p) \cap here]
      /\ step' = At("delete")
      /\ refreshes' = IF closing = "open" THEN refreshes + 1 ELSE MaxRefreshes
      /\ UNCHANGED <<sdkClients, byKey, client, registered, notices, publishing, closing,
                     unvisited, ranging, doubleClose>>

(* deleteSdkClients: LoadAndDelete ... *)
DeleteSdk(id) ==
  /\ Ready("delete") /\ id \in work.delete
  /\ sdkClients' = [sdkClients EXCEPT ![id] = NoClient]
  /\ step' = IF sdkClients[id] = NoClient THEN step
             ELSE Place("deleteKeys", id, sdkClients[id], NoClient, NilKey)
  /\ work' = [work EXCEPT !.delete = @ \ {id}]
  /\ UNCHANGED <<byKey, client, profile, registered, notices, publishing, closing, unvisited,
                 ranging, doubleClose, refreshes>>

(* ... the keys of the client ... *)
DeleteKeys ==
  /\ Ready("deleteKeys")
  /\ byKey' = Without(SdkKeys(step.old))
  /\ step' = [step EXCEPT !.at = "deleteClose"]
  /\ UNCHANGED <<sdkClients, client, profile, registered, notices, work, publishing, closing,
                 unvisited, ranging, doubleClose, refreshes>>

(* ... Close, RemoveSdk, and then Publish. *)
DeleteClose ==
  /\ Ready("deleteClose")
  /\ client' = CloseOf(step.old)
  /\ doubleClose' = (doubleClose \/ ~Live(step.old))
  /\ registered' = registered \ {step.id}
  /\ publishing' = step.id
  /\ step' = At("delete")
  /\ UNCHANGED <<sdkClients, byKey, profile, notices, work, closing, unvisited, ranging, refreshes>>

(* The loops end one after the other. *)
LoopDone ==
  /\ publishing = NoSdk
  /\ \/ step.at = "delete" /\ work.delete = {} /\ step' = [step EXCEPT !.at = "check"]
     \/ step.at = "check" /\ work.check = {} /\ step' = [step EXCEPT !.at = "reset"]
     \/ step.at = "reset" /\ work.reset = {} /\ step' = [step EXCEPT !.at = "add"]
     \/ step.at = "add" /\ work.add = {} /\ step' = Idle
  /\ UNCHANGED <<sdkClients, byKey, client, profile, registered, notices, work, publishing,
                 closing, unvisited, ranging, doubleClose, refreshes>>

(* A remaining SDK: a new primary key asks for a reset; a secondary key    *)
(* that is new or different is set in the client ...                       *)
CheckSdk(id) ==
  LET c == sdkClients[id]
      new == profile.sdks[id]
      old2 == client[c].key2
      rotated == IF old2 = NilKey THEN new.key2 # NoKey ELSE old2 # new.key2
  IN  /\ Ready("check") /\ id \in work.check
      /\ IF c # NoClient /\ client[c].key1 # new.key1
           THEN /\ work' = [work EXCEPT !.check = @ \ {id}, !.reset = @ \cup {id}]
                /\ UNCHANGED <<client, step>>
           ELSE /\ work' = [work EXCEPT !.check = @ \ {id}]
                /\ IF c # NoClient /\ rotated
                     THEN /\ client' = [client EXCEPT ![c].key2 = new.key2]
                          /\ step' = Place("rotate", id, NoClient, c, old2)
                     ELSE UNCHANGED <<client, step>>
      /\ UNCHANGED <<sdkClients, byKey, profile, registered, notices, publishing, closing,
                     unvisited, ranging, doubleClose, refreshes>>

(* ... the one it had is deleted, and the new one stored, be it empty. *)
RotateKey ==
  /\ Ready("rotate")
  /\ byKey' = [k \in AllKeys |-> IF k = profile.sdks[step.id].key2 THEN step.new
                                 ELSE IF k = step.key THEN NoClient ELSE byKey[k]]
  /\ publishing' = step.id
  /\ step' = At("check")
  /\ UNCHANGED <<sdkClients, client, profile, registered, notices, work, closing, unvisited,
                 ranging, doubleClose, refreshes>>

(* resetSdkClients: build the new client and LoadAndStore it ... *)
ResetSdk(id) ==
  /\ Ready("reset") /\ id \in work.reset
  /\ \E c \in ClientIds :
       /\ Fresh(c)
       /\ client' = [client EXCEPT ![c] = Built(profile.sdks[id])]
       /\ sdkClients' = [sdkClients EXCEPT ![id] = c]
       /\ step' = Place(IF sdkClients[id] = NoClient THEN "resetStore" ELSE "resetKeys",
                          id, sdkClients[id], c, NilKey)
  /\ work' = [work EXCEPT !.reset = @ \ {id}]
  /\ UNCHANGED <<byKey, profile, registered, notices, publishing, closing, unvisited, ranging,
                 doubleClose, refreshes>>

(* ... delete the old client's keys ... *)
ResetKeys ==
  /\ Ready("resetKeys")
  /\ byKey' = Without(SdkKeys(step.old))
  /\ step' = [step EXCEPT !.at = "resetClose"]
  /\ UNCHANGED <<sdkClients, client, profile, registered, notices, work, publishing, closing,
                 unvisited, ranging, doubleClose, refreshes>>

(* ... Close it, UpdateSdk, Publish ... *)
ResetClose ==
  /\ Ready("resetClose")
  /\ client' = CloseOf(step.old)
  /\ doubleClose' = (doubleClose \/ ~Live(step.old))
  /\ publishing' = step.id
  /\ step' = [step EXCEPT !.at = "resetStore"]
  /\ UNCHANGED <<sdkClients, byKey, profile, registered, notices, work, closing, unvisited, ranging,
                 refreshes>>

(* ... and store the keys of the new one. *)
ResetStore ==
  /\ Ready("resetStore")
  /\ byKey' = With(SdkKeys(step.new), step.new)
  /\ step' = At("reset")
  /\ UNCHANGED <<sdkClients, client, profile, registered, notices, work, publishing, closing,
                 unvisited, ranging, doubleClose, refreshes>>

(* addSdkClients: LoadOrCompute, its keys, RegisterSdk, Publish *)
AddSdk(id) ==
  /\ Ready("add") /\ id \in work.add
  /\ work' = [work EXCEPT !.add = @ \ {id}]
  /\ IF sdkClients[id] # NoClient
       THEN UNCHANGED <<client, sdkClients, step>>
       ELSE \E c \in ClientIds :
              /\ Fresh(c)
              /\ client' = [client EXCEPT ![c] = Built(profile.sdks[id])]
              /\ sdkClients' = [sdkClients EXCEPT ![id] = c]
              /\ step' = Place("addStore", id, NoClient, c, NilKey)
  /\ UNCHANGED <<byKey, profile, registered, notices, publishing, closing, unvisited, ranging,
                 doubleClose, refreshes>>

AddStore ==
  /\ Ready("addStore")
  /\ byKey' = With(SdkKeys(step.new), step.new)
  /\ registered' = registered \cup {step.id}
  /\ publishing' = step.id
  /\ step' = At("add")
  /\ UNCHANGED <<sdkClients, client, profile, notices, work, closing, unvisited, ranging,
                 doubleClose, refreshes>>

(* Publish: dropped once the publisher is closed, waits while it is full *)
Publish ==
  /\ publishing # NoSdk
  /\ \/ closing # "open" /\ UNCHANGED notices
     \/ closing = "open" /\ Len(notices) < NoticeCap /\ notices' = Append(notices, publishing)
  /\ publishing' = NoSdk
  /\ UNCHANGED <<sdkClients, byKey, client, profile, registered, step, work, closing,
                 unvisited, ranging, doubleClose, refreshes>>

-----------------------------------------------------------------------------
(* Close does not wait for run: it cancels the context, closes the         *)
(* publisher and ranges over the clients, closing and deleting each.       *)

CloseBegin ==
  /\ WithClose /\ closing = "open"
  /\ closing' = "closing"
  /\ unvisited' = Ids
  /\ UNCHANGED <<sdkClients, byKey, client, profile, registered, notices, step, work,
                 publishing, ranging, doubleClose, refreshes>>

CloseOne(id) ==
  /\ ranging = NoSdk /\ id \in unvisited /\ sdkClients[id] # NoClient
  /\ client' = CloseOf(sdkClients[id])
  /\ doubleClose' = (doubleClose \/ ~Live(sdkClients[id]))
  /\ unvisited' = unvisited \ {id}
  /\ ranging' = id
  /\ UNCHANGED <<sdkClients, byKey, profile, registered, notices, step, work, publishing,
                 closing, refreshes>>

CloseDelete ==
  /\ ranging # NoSdk
  /\ sdkClients' = [sdkClients EXCEPT ![ranging] = NoClient]
  /\ ranging' = NoSdk
  /\ UNCHANGED <<byKey, client, profile, registered, notices, step, work, publishing, closing,
                 unvisited, doubleClose, refreshes>>

(* Range meets no further client; what run stores behind it is not seen. *)
CloseEnd ==
  /\ closing = "closing" /\ ranging = NoSdk
  /\ \A id \in unvisited : sdkClients[id] = NoClient
  /\ byKey' = [k \in AllKeys |-> NoClient]
  /\ closing' = "closed"
  /\ unvisited' = {}
  /\ UNCHANGED <<sdkClients, client, profile, registered, notices, step, work, publishing,
                 ranging, doubleClose, refreshes>>

-----------------------------------------------------------------------------
RefreshStep ==
  \/ \E p \in Profiles : RefreshConfig(p)
  \/ \E id \in Ids : DeleteSdk(id) \/ CheckSdk(id) \/ ResetSdk(id) \/ AddSdk(id)
  \/ DeleteKeys \/ DeleteClose \/ LoopDone \/ RotateKey
  \/ ResetKeys \/ ResetClose \/ ResetStore \/ AddStore
  \/ Publish
CloseStep ==
  \/ CloseBegin \/ CloseDelete \/ CloseEnd
  \/ \E id \in Ids : CloseOne(id)
RegistrarStep == RefreshStep \/ CloseStep

(* The stream server takes a notice; what it does is module StreamServer. *)
TakeNotice ==
  /\ notices # <<>>
  /\ notices' = Tail(notices)
  /\ UNCHANGED <<sdkClients, byKey, client, profile, registered, step, work, publishing,
                 closing, unvisited, ranging, doubleClose, refreshes>>

Next == RegistrarStep \/ TakeNotice

Spec == Init /\ [][Next]_rvars

-----------------------------------------------------------------------------
(* Properties *)

ClientType == [state : {"unborn", "live", "closed"}, key1 : AllKeys, key2 : AllKeys \cup {NilKey}]
Places == {"idle", "delete", "deleteKeys", "deleteClose", "check", "rotate", "reset", "resetKeys",
           "resetClose", "resetStore", "add", "addStore"}

TypeOK ==
  /\ sdkClients \in [Ids -> ClientIds \cup {NoClient}]
  /\ byKey \in [AllKeys -> ClientIds \cup {NoClient}]
  /\ client \in [ClientIds -> ClientType]
  /\ profile \in Profiles
  /\ registered \subseteq Ids
  /\ notices \in Seq(Ids) /\ Len(notices) <= NoticeCap
  /\ step \in [at : Places, id : Ids \cup {NoSdk}, old : ClientIds \cup {NoClient},
               new : ClientIds \cup {NoClient}, key : AllKeys \cup {NilKey}]
  /\ work \in [delete : SUBSET Ids, check : SUBSET Ids, reset : SUBSET Ids, add : SUBSET Ids]
  /\ publishing \in Ids \cup {NoSdk}
  /\ closing \in {"open", "closing", "closed"}
  /\ unvisited \subseteq Ids
  /\ ranging \in Ids \cup {NoSdk}
  /\ doubleClose \in BOOLEAN
  /\ refreshes \in Nat

(* GetSdkOrNil and GetSdkByKeyOrNil never hand out a closed client, in the *)
(* middle of a refresh either (sdk_auto_registrar.go:348-356, 400-417:     *)
(* unlink, then Close), and a key leads only to a client that holds it, or *)
(* held it until this step of a rotation (203-206).                        *)
LookupsAreLive ==
  closing = "open" =>
    /\ \A id \in Ids : sdkClients[id] # NoClient => Live(sdkClients[id])
    /\ \A k \in Keys : byKey[k] # NoClient =>
         Live(byKey[k]) /\ (k \in SdkKeys(byKey[k]) \/ (step.at = "rotate" /\ k = step.key))

(* Between two refreshes both maps and the status reporter show exactly    *)
(* the last profile: its SDKs with their keys, each key once, no other.    *)
ProfileKeys(id) == IF profile.sdks[id] = NoSdk THEN {}
                   ELSE {profile.sdks[id].key1, profile.sdks[id].key2} \cap Keys
SettledShowsProfile ==
  Ready("idle") /\ closing = "open" =>
    /\ \A id \in Ids : /\ sdkClients[id] = NoClient <=> profile.sdks[id] = NoSdk
                       /\ sdkClients[id] # NoClient => SdkKeys(sdkClients[id]) = ProfileKeys(id)
    /\ \A k \in Keys : byKey[k] = IF k \in ProfileKeys(Owner[k]) THEN sdkClients[Owner[k]]
                                   ELSE NoClient
    /\ registered = Present(profile)

(* UpdateSdk dereferences the reporter's entry (status.go:138): it exists. *)
UpdateOnlyRegistered ==
  step.at \in {"resetKeys", "resetClose"} => step.id \in registered

(* Closing a publisher twice panics (publisher.go:79): every client is     *)
(* closed at most once.  On SIGTERM, "assert.Equal(t, 0, exitCode)"        *)
(* (main_test.go:36).                                                      *)
ClosedOnce == ~doubleClose
=============================================================================
