--------------------------- MODULE RequestsProofs ---------------------------
(***************************************************************************)
(* Proofs about Client, and about Requests, which extends it: for every    *)
(* set of users, every default attributes, every set of kinds and every    *)
(* number of changes.                                                      *)
(***************************************************************************)
EXTENDS Requests, TLAPS

-----------------------------------------------------------------------------
(* Client *)

CTypeOK ==
  /\ kind \in AllKinds
  /\ source \in Contents /\ backup \in Configs \cup {"none"}
  /\ changes \in Nat /\ dirty \in Nat
  /\ watcher \in {"idle", "sending", "exited"} /\ wchan \in {0, 1}
  /\ store \in {"idle", "loading", "sending", "exited"} /\ schan \in {0, 1}
  /\ entry \in Configs \cup {Empty} /\ sdk \in Configs \cup {Empty}
  /\ first \in {"refreshing", "waiting", "done"}
  /\ listener \in {"idle", "refreshing", "waiting", "publishing", "exited"}
  /\ fetch \in [at : {"none", "fetched", "installed"}, got : Configs \cup {Empty}, changed : BOOLEAN]
  /\ hooks \in Nat /\ initialized \in BOOLEAN
  /\ seen \in Configs \cup {Empty, Nobody}
  /\ closing \in {"open", "store", "watcher", "client", "closed"}

(* A message of the store is on its way to the listener, or the listener   *)
(* has it and has not read the entry yet.                                  *)
Coming == store = "sending" \/ schan = 1 \/ listener = "refreshing"

(* An open offline client: the SDK is behind its store only while a        *)
(* message is coming or the first refresh is due, and a connection is      *)
(* behind the SDK only while the listener has something to publish.        *)
OfflineInv ==
  /\ store # "idle" => Offline \/ store = "exited"
  /\ Offline => fetch = NoFetch /\ hooks = 0
  /\ Offline /\ closing = "open" =>
       /\ first \in {"refreshing", "done"} /\ listener # "waiting"
       /\ sdk # entry => Coming \/ first = "refreshing"
       /\ seen \notin {Nobody, sdk} => Coming \/ listener = "publishing"
       /\ first # "done" => seen = Nobody

(* An online client: what the SDK holds and the store does not is the      *)
(* request that is being handed over; fetch.changed tells the truth.       *)
OnlineInv ==
  ~Offline =>
    /\ fetch.at # "installed" => sdk = entry
    /\ fetch.at = "installed" => sdk = fetch.got
    /\ fetch.at # "none" => fetch.got # Empty
    /\ fetch.at = "fetched" => (fetch.changed <=> fetch.got # sdk)
    /\ fetch.at = "installed" /\ ~fetch.changed => sdk = entry

(* The signal that hides the first change: there is one hook for every     *)
(* change, the one that is hidden is still to come while initialized is    *)
(* not set, so that a connection that is behind has a later one to wait    *)
(* for.                                                                    *)
SignalInv ==
  ~Offline =>
    /\ ~Streaming => seen = Nobody
    /\ entry = Empty => seen = Nobody
    /\ Streaming /\ ~initialized /\ entry # Empty => hooks >= 1
    /\ \/ seen \in {Nobody, sdk}
       \/ fetch.at = "installed" /\ fetch.changed
       \/ hooks >= IF initialized THEN 1 ELSE 2

CInv == CTypeOK /\ OfflineInv /\ OnlineInv /\ SignalInv

-----------------------------------------------------------------------------
LEMMA CInit == Init => CInv
<1> SUFFICES ASSUME Init PROVE CInv
  OBVIOUS
<1>1. CTypeOK
  BY ClientAssumption DEF Init, CTypeOK, NoFetch, Contents, Configs, Valid, Parsed, Empty, Nobody, Offline
<1>2. OfflineInv /\ OnlineInv /\ SignalInv
  BY DEF Init, OfflineInv, OnlineInv, SignalInv, NoFetch, Empty, Nobody, Offline, Coming
<1> QED
  BY <1>1, <1>2 DEF CInv

(* The source, the watcher and a store that only wakes or exits move       *)
(* nothing the invariant is about.                                         *)
LEMMA SourceStep ==
  ASSUME CInv,
         \/ \E c \in Contents, how \in {"write", "replace", "relink"} : Change(c, how)
         \/ Toggle \/ BackupChanges \/ WatcherWakes \/ WatcherSends \/ WatcherExits
         \/ StoreWakes \/ StoreExits
  PROVE  CInv'
<1> USE DEF CInv, srcVars, watchVars, storeVars, sdkVars
<1>1. CTypeOK'
  <2>1. ASSUME NEW c \in Contents, NEW how \in {"write", "replace", "relink"}, Change(c, how)
        PROVE  CTypeOK'
    <3>1. dirty' = dirty \/ dirty' = 1 \/ dirty' = dirty + 1
      BY <2>1 DEF Change
    <3>2. /\ source' = c /\ changes' = changes + 1
          /\ UNCHANGED <<kind, backup, watcher, wchan, storeVars, entry, sdk, sdkVars, seen, closing>>
      BY <2>1, Zenon DEF Change
    <3> QED
      BY <3>1, <3>2 DEF CTypeOK
  <2>2. ASSUME Toggle \/ BackupChanges PROVE CTypeOK'
    BY <2>2 DEF CTypeOK, Toggle, BackupChanges
  <2>3. ASSUME WatcherWakes \/ WatcherSends \/ WatcherExits \/ StoreWakes \/ StoreExits PROVE CTypeOK'
    BY <2>3 DEF CTypeOK, WatcherWakes, WatcherSends, WatcherExits, StoreWakes, StoreExits
  <2> QED
    BY <2>1, <2>2, <2>3
<1>2. /\ UNCHANGED <<kind, schan, entry, sdk, sdkVars, seen, closing>>
      /\ store' = "sending" <=> store = "sending"
      /\ store' # store => Offline \/ store' = "exited"
  BY DEF Change, Toggle, BackupChanges, WatcherWakes, WatcherSends, WatcherExits, StoreWakes, StoreExits
<1>3. OfflineInv' /\ OnlineInv' /\ SignalInv'
  BY <1>2 DEF OfflineInv, OnlineInv, SignalInv, Offline, Coming
<1> QED
  BY <1>1, <1>3

(* Reload, the hand-over and the listener *)
LEMMA StoreStep ==
  ASSUME CInv, Reload \/ StoreSends \/ ListenerWakes \/ ListenerPublishes \/ ListenerExits
  PROVE  CInv'
<1> USE DEF CInv, srcVars, watchVars, storeVars, sdkVars
<1>1. CTypeOK'
  BY DEF CTypeOK, Reload, StoreSends, ListenerWakes, ListenerPublishes, ListenerExits, Told,
         Valid, Parsed, Contents, Configs, Empty, Nobody
<1>2. ASSUME Reload PROVE OfflineInv' /\ OnlineInv' /\ SignalInv'
  <2>1. /\ UNCHANGED <<kind, schan, sdk, sdkVars, seen, closing>>
        /\ store = "loading"
        /\ entry' # entry => store' = "sending" \/ closing # "open"
    BY <1>2 DEF Reload, StoreClosed
  <2>2. Offline
    BY <2>1 DEF OfflineInv
  <2> QED
    BY <2>1, <2>2 DEF OfflineInv, OnlineInv, SignalInv, Offline, Coming
<1>3. ASSUME StoreSends PROVE OfflineInv' /\ OnlineInv' /\ SignalInv'
  BY <1>3 DEF StoreSends, OfflineInv, OnlineInv, SignalInv, Offline, Coming
<1>4. ASSUME ListenerWakes PROVE OfflineInv' /\ OnlineInv' /\ SignalInv'
  BY <1>4 DEF ListenerWakes, OfflineInv, OnlineInv, SignalInv, Offline, Coming
<1>5. ASSUME ListenerPublishes PROVE OfflineInv' /\ OnlineInv' /\ SignalInv'
  BY <1>5 DEF ListenerPublishes, Told, OfflineInv, OnlineInv, SignalInv, Offline, Coming
<1>6. ASSUME ListenerExits PROVE OfflineInv' /\ OnlineInv' /\ SignalInv'
  BY <1>6 DEF ListenerExits, ClientClosed, OfflineInv, OnlineInv, SignalInv, Offline, Coming
<1> QED
  BY <1>1, <1>2, <1>3, <1>4, <1>5, <1>6

(* Refresh, which the first goroutine, the listener and (module Requests)  *)
(* the handlers call: what it does to the config and the request.          *)
LEMMA RefreshKeeps ==
  ASSUME CInv, NEW place, NEW next, NEW back, NEW done,
         Refresh(place, next, back, done), UNCHANGED <<kind, entry>>
  PROVE  /\ sdk' \in Configs \cup {Empty}
         /\ fetch' \in [at : {"none", "fetched", "installed"}, got : Configs \cup {Empty}, changed : BOOLEAN]
         /\ Offline => fetch' = fetch /\ sdk' \in {sdk, entry}
         /\ Offline /\ next # back => FALSE
         /\ Offline => (place = "refreshing" /\ sdk' = entry) \/ (done /\ sdk' = sdk)
         /\ ~Offline => sdk' = sdk /\ OnlineInv'
         /\ fetch'.at = "installed" <=> fetch.at = "installed"
         /\ fetch.at = "installed" => fetch' = fetch
<1>1. CASE Offline /\ place = "refreshing" /\ sdk' = entry /\ next = back /\ UNCHANGED fetch
  BY <1>1 DEF CInv, CTypeOK
<1>2. CASE /\ ~Offline /\ place = "refreshing" /\ Fetched # "none" /\ ~done
           /\ next = "waiting"
           /\ fetch' = IF fetch.at # "none" THEN fetch
                       ELSE [at |-> "fetched", got |-> Fetched, changed |-> Fetched # sdk]
           /\ UNCHANGED sdk
  <2>1. Fetched \in Configs
    BY <1>2 DEF CInv, CTypeOK, Fetched, Valid, Parsed, Contents, Configs
  <2>2. CASE fetch.at # "none"
    BY <1>2, <2>2 DEF CInv, CTypeOK, OnlineInv, Offline
  <2>3. CASE fetch.at = "none"
    <3> DEFINE b == Fetched # sdk
    <3>1. fetch' = [at |-> "fetched", got |-> Fetched, changed |-> b] /\ b \in BOOLEAN
      BY <1>2, <2>3
    <3>2. b <=> Fetched # sdk
      OBVIOUS
    <3> HIDE DEF b
    <3> QED
      BY <1>2, <2>1, <2>3, <3>1, <3>2 DEF CInv, CTypeOK, OnlineInv, Offline, Configs, Empty
  <2> QED
    BY <2>2, <2>3
<1>3. CASE UNCHANGED <<sdk, fetch>> /\ next = back /\ (Offline => done)
  BY <1>3 DEF CInv, CTypeOK, OnlineInv, Offline
<1> QED
  BY <1>1, <1>2, <1>3 DEF Refresh

LEMMA RefreshStep ==
  ASSUME CInv, FirstRefresh \/ ListenerRefreshes
  PROVE  CInv'
<1> USE DEF CInv, srcVars, watchVars, storeVars, sdkVars
<1>1. ASSUME FirstRefresh PROVE CInv'
  <2>1. /\ Refresh(first, first', "done", ClientClosed)
        /\ UNCHANGED <<kind, srcVars, watchVars, storeVars, entry, listener, hooks, initialized, seen, closing>>
    BY <1>1 DEF FirstRefresh
  <2>2. first' \in {"waiting", "done"}
    BY <2>1 DEF Refresh
  <2>3. /\ sdk' \in Configs \cup {Empty}
        /\ fetch' \in [at : {"none", "fetched", "installed"}, got : Configs \cup {Empty}, changed : BOOLEAN]
        /\ Offline => /\ fetch' = fetch /\ first' = "done"
                      /\ (first = "refreshing" /\ sdk' = entry) \/ (ClientClosed /\ sdk' = sdk)
        /\ ~Offline => sdk' = sdk /\ OnlineInv'
        /\ fetch'.at = "installed" <=> fetch.at = "installed"
        /\ fetch.at = "installed" => fetch' = fetch
    BY <2>1, RefreshKeeps
  <2>4. CTypeOK'
    BY <2>1, <2>2, <2>3 DEF CTypeOK
  <2>5. OfflineInv' /\ OnlineInv' /\ SignalInv'
    BY <2>1, <2>2, <2>3 DEF CTypeOK, OfflineInv, OnlineInv, SignalInv, Offline, ClientClosed, Coming
  <2> QED
    BY <2>4, <2>5
<1>2. ASSUME ListenerRefreshes PROVE CInv'
  <2> DEFINE back == IF Offline THEN "publishing" ELSE "idle"
  <2>1. /\ Refresh(listener, listener', back, ClientClosed)
        /\ UNCHANGED <<kind, srcVars, watchVars, storeVars, entry, first, hooks, initialized, seen, closing>>
    BY <1>2 DEF ListenerRefreshes
  <2>2. listener' \in {"waiting", back}
    BY <2>1 DEF Refresh
  <2> HIDE DEF back
  <2>3. /\ sdk' \in Configs \cup {Empty}
        /\ fetch' \in [at : {"none", "fetched", "installed"}, got : Configs \cup {Empty}, changed : BOOLEAN]
        /\ Offline => /\ fetch' = fetch /\ listener' = back
                      /\ (listener = "refreshing" /\ sdk' = entry) \/ (ClientClosed /\ sdk' = sdk)
        /\ ~Offline => sdk' = sdk /\ OnlineInv'
        /\ fetch'.at = "installed" <=> fetch.at = "installed"
        /\ fetch.at = "installed" => fetch' = fetch
    BY <2>1, RefreshKeeps
  <2>4. CTypeOK'
    BY <2>1, <2>2, <2>3 DEF CTypeOK, back
  <2>5. OfflineInv' /\ OnlineInv' /\ SignalInv'
    BY <2>1, <2>2, <2>3 DEF CTypeOK, OfflineInv, OnlineInv, SignalInv, Offline, ClientClosed, Coming, back
  <2> QED
    BY <2>4, <2>5
<1> QED
  BY <1>1, <1>2

(* The request of an online client, its hook, and a new connection *)
LEMMA FetchStep ==
  ASSUME CInv, Install \/ Set \/ Signal \/ Connect \/ CloseStep
  PROVE  CInv'
<1> USE DEF CInv, srcVars, watchVars, storeVars, sdkVars
<1>0. Offline => fetch.at = "none" /\ hooks = 0
  BY DEF OfflineInv, NoFetch
<1>1. ASSUME Install PROVE CInv'
  <2>1. CTypeOK'
    BY <1>1 DEF CTypeOK, Install
  <2>2. OfflineInv' /\ OnlineInv' /\ SignalInv'
    BY <1>0, <1>1 DEF CTypeOK, Install, OfflineInv, OnlineInv, SignalInv, Offline, Coming
  <2> QED
    BY <2>1, <2>2
<1>2. ASSUME Set PROVE CInv'
  <2>1. CTypeOK'
    BY <1>2 DEF CTypeOK, Set, NoFetch, Empty, Configs, OnlineInv, Offline
  <2>2. OfflineInv' /\ OnlineInv' /\ SignalInv'
    BY <1>0, <1>2 DEF CTypeOK, Set, NoFetch, OfflineInv, OnlineInv, SignalInv, Offline, Coming
  <2> QED
    BY <2>1, <2>2
<1>3. ASSUME Signal PROVE CInv'
  <2>1. CTypeOK'
    BY <1>3 DEF CTypeOK, Signal, Told
  <2>2. OfflineInv' /\ OnlineInv' /\ SignalInv'
    BY <1>0, <1>3 DEF CTypeOK, Signal, Told, OfflineInv, OnlineInv, SignalInv, Offline, Coming
  <2> QED
    BY <2>1, <2>2
<1>4. ASSUME Connect PROVE CInv'
  <2>1. CTypeOK'
    BY <1>4 DEF CTypeOK, Connect
  <2>2. OfflineInv' /\ OnlineInv' /\ SignalInv'
    BY <1>4 DEF CTypeOK, Connect, Ready, ClientClosed, OfflineInv, OnlineInv, SignalInv, Offline, Coming
  <2> QED
    BY <2>1, <2>2
<1>5. ASSUME CloseStep PROVE CInv'
  <2>1. CTypeOK'
    BY <1>5 DEF CTypeOK, CloseStep
  <2>2. OfflineInv' /\ OnlineInv' /\ SignalInv'
    BY <1>5 DEF CTypeOK, CloseStep, OfflineInv, OnlineInv, SignalInv, Offline, Coming
  <2> QED
    BY <2>1, <2>2
<1> QED
  BY <1>1, <1>2, <1>3, <1>4, <1>5

LEMMA CStep == CInv /\ [Next]_vars => CInv'
<1> SUFFICES ASSUME CInv, [Next]_vars PROVE CInv'
  OBVIOUS
<1>1. CASE UNCHANGED vars
  BY <1>1 DEF vars, srcVars, watchVars, storeVars, sdkVars, CInv, CTypeOK, OfflineInv, OnlineInv,
              SignalInv, Offline, Coming
<1>2. CASE Next
  BY <1>2, SourceStep, StoreStep, RefreshStep, FetchStep DEF Next, Goroutines
<1> QED
  BY <1>1, <1>2

(* The inductive invariant of a client with its store, its watchers and    *)
(* its publisher.                                                          *)
THEOREM ClientInvariant == Spec => []CInv
<1> QED
  BY CInit, CStep, PTL DEF Spec

(* When nothing is under way, the SDK evaluates the stored entry and every *)
(* connection was sent it (sdk.go listen, signal; store.go): for every     *)
(* kind of client and any number of changes.                               *)
THEOREM QuietAgreement == Spec => []QuietAgrees
<1>1. CInv => QuietAgrees
  BY DEF CInv, OfflineInv, OnlineInv, SignalInv, Quiet, QuietAgrees, Coming, CTypeOK
<1> QED
  BY <1>1, ClientInvariant, PTL

-----------------------------------------------------------------------------
(* Requests *)

Bulk == <<"ofrep", "all">>

Tags == (Configs \cup {Empty}) \X ({Discriminator(u) : u \in Users} \cup {{}})
EvalUsers == {EvalUser(u) : u \in Users} \cup {NoUser}
Peers == {op[1] : op \in Ops}

Codes == {"none", "200", "204", "304", "400", "401", "404", "405", "500",
          "NotFound", "Internal", "Unknown", "InvalidArgument", "accepted"}

ReqRecords ==
  [at : {"idle", "check", "refreshing", "waiting", "serve", "evaluate"},
   op : Ops \cup {<<"none", "none">>}, user : Users \cup {NoUser}, flag : {"f", "g"},
   tag : Tags, code : Codes]

RTypeOK ==
  /\ peer \in Peers
  /\ req \in ReqRecords
  /\ held \in [body : Configs \cup {Empty}, tag : Tags, user : EvalUsers, config : Configs \cup {Empty}]

(* Where a handler can be with which operation *)
PlaceInv ==
  /\ req.at = "idle" => req.op = <<"none", "none">>
  /\ req.at # "idle" => req.op \in Ops /\ req.code = "none"
  /\ req.at \in {"refreshing", "waiting"} => req.op[2] = "refresh"
  /\ req.at = "evaluate" => req.op = Bulk
  /\ req.op = Bulk => req.user \in Users /\ Unmarshals(req.user)

(* A handler that was let through found an entry, and there is still one.  *)
EntryInv == req.at \in {"serve", "evaluate"} => entry # Empty

(* The ETag a request comes with is the one the peer keeps; the one it is  *)
(* to be answered with was made for its user.                              *)
TagInv ==
  /\ req.at \in {"check", "serve"} /\ req.op = Bulk => req.tag \in {NoTag, held.tag}
  /\ req.at \in {"check", "serve"} /\ req.op[2] = "config" => req.tag \in {NoTag, <<held.body, {}>>}
  /\ req.at = "evaluate" => req.tag[2] = Discriminator(req.user)

(* What the peer keeps was evaluated for a user with its ETag's hash. *)
HeldInv ==
  held.tag # NoTag =>
    \E u \in Users : Unmarshals(u) /\ held.user = EvalUser(u) /\ held.tag[2] = Discriminator(u)

RInv == CInv /\ RTypeOK /\ PlaceInv /\ EntryInv /\ TagInv /\ HeldInv

-----------------------------------------------------------------------------
(* Users *)

(* The hash tells apart what it can: the same hash, the same attributes,   *)
(* each with the same text.                                                *)
LEMMA SameHash ==
  ASSUME NEW u, NEW v, Discriminator(u) = Discriminator(v)
  PROVE  /\ DOMAIN u = DOMAIN v
         /\ \A k \in DOMAIN u : (IF u[k][1] \in {"string", "number"} THEN u[k][2] ELSE "")
                              = (IF v[k][1] \in {"string", "number"} THEN v[k][2] ELSE "")
<1> DEFINE t(w, k) == IF w[k][1] \in {"string", "number"} THEN w[k][2] ELSE ""
<1>1. /\ Discriminator(u) = {<<k, t(u, k)>> : k \in DOMAIN u}
      /\ Discriminator(v) = {<<k, t(v, k)>> : k \in DOMAIN v}
  BY DEF Discriminator
<1> HIDE DEF t
<1>2. ASSUME NEW k \in DOMAIN u PROVE k \in DOMAIN v /\ t(u, k) = t(v, k)
  <2>1. <<k, t(u, k)>> \in {<<l, t(v, l)>> : l \in DOMAIN v}
    BY <1>1
  <2>2. PICK l \in DOMAIN v : <<k, t(u, k)>> = <<l, t(v, l)>>
    BY <2>1
  <2> QED
    BY <2>2
<1>3. ASSUME NEW k \in DOMAIN v PROVE k \in DOMAIN u
  <2>1. <<k, t(v, k)>> \in {<<l, t(u, l)>> : l \in DOMAIN u}
    BY <1>1
  <2>2. PICK l \in DOMAIN u : <<k, t(v, k)>> = <<l, t(u, l)>>
    BY <2>1
  <2> QED
    BY <2>2
<1>4. DOMAIN u = DOMAIN v
  BY <1>2, <1>3
<1>5. \A k \in DOMAIN u : t(u, k) = t(v, k)
  BY <1>2
<1> QED
  BY <1>4, <1>5 DEF t

(* Two users with the same hash are evaluated alike. *)
LEMMA SameHashSameUser ==
  ASSUME NEW u, NEW v, Unmarshals(u), Unmarshals(v), Discriminator(u) = Discriminator(v)
  PROVE  SameUser(EvalUser(u), EvalUser(v))
<1>1. DOMAIN u = DOMAIN v
  BY SameHash
<1>2. ASSUME NEW k \in DOMAIN u PROVE Alike(u[k], v[k])
  <2>1. /\ u[k][1] \in {"string", "number", "list"} /\ v[k][1] \in {"string", "number", "list"}
        /\ (IF u[k][1] \in {"string", "number"} THEN u[k][2] ELSE "")
            = (IF v[k][1] \in {"string", "number"} THEN v[k][2] ELSE "")
    BY <1>1, <1>2, SameHash DEF Unmarshals
  <2> QED
    BY <2>1 DEF Alike
<1> DEFINE mu == mapTargetingKeyToIdentifier(u)
           mv == mapTargetingKeyToIdentifier(v)
<1>3. DOMAIN mu = DOMAIN mv /\ \A k \in DOMAIN mu : Alike(mu[k], mv[k])
  <2>1. CASE "targetingKey" \in DOMAIN u
    <3> DEFINE D == DOMAIN u \cup {"Identifier"}
               iu == [a \in {"Identifier"} |-> u["targetingKey"]]
               iv == [a \in {"Identifier"} |-> v["targetingKey"]]
    <3>1. /\ mu = [k \in D |-> IF k \in {"Identifier"} THEN iu[k] ELSE u[k]]
          /\ mv = [k \in D |-> IF k \in {"Identifier"} THEN iv[k] ELSE v[k]]
      BY <1>1, <2>1 DEF mapTargetingKeyToIdentifier, MergeUserAttrs
    <3>2. DOMAIN mu = D /\ DOMAIN mv = D
      BY <3>1
    <3>3. ASSUME NEW k \in D PROVE Alike(mu[k], mv[k])
      <4>1. CASE k = "Identifier"
        BY <1>2, <2>1, <3>1, <4>1
      <4>2. CASE k # "Identifier"
        BY <1>2, <3>1, <3>3, <4>2
      <4> QED
        BY <4>1, <4>2
    <3> QED
      BY <3>2, <3>3
  <2>2. CASE "targetingKey" \notin DOMAIN u
    BY <1>1, <1>2, <2>2 DEF mapTargetingKeyToIdentifier
  <2> QED
    BY <2>1, <2>2
<1> HIDE DEF mu, mv
<1>4. /\ EvalUser(u) = [k \in DOMAIN DefaultAttrs \cup DOMAIN mu |-> IF k \in DOMAIN mu THEN mu[k] ELSE DefaultAttrs[k]]
      /\ EvalUser(v) = [k \in DOMAIN DefaultAttrs \cup DOMAIN mv |-> IF k \in DOMAIN mv THEN mv[k] ELSE DefaultAttrs[k]]
  BY DEF EvalUser, MergeUserAttrs, mu, mv
<1>5. ASSUME NEW k \in DOMAIN DefaultAttrs \cup DOMAIN mu PROVE Alike(EvalUser(u)[k], EvalUser(v)[k])
  <2>1. CASE k \in DOMAIN mu
    BY <1>3, <1>4, <2>1
  <2>2. CASE k \notin DOMAIN mu
    BY <1>3, <1>4, <1>5, <2>2 DEF Alike
  <2> QED
    BY <2>1, <2>2
<1>6. DOMAIN EvalUser(u) = DOMAIN DefaultAttrs \cup DOMAIN mu /\ DOMAIN EvalUser(v) = DOMAIN EvalUser(u)
  BY <1>3, <1>4
<1> QED
  BY <1>5, <1>6 DEF SameUser

-----------------------------------------------------------------------------
(* The invariant *)

LEMMA NoRequestTyped == \A code \in Codes : NoRequest(code) \in ReqRecords
<1>1. NoTag \in Tags
  BY DEF NoTag, Tags
<1> QED
  BY <1>1 DEF NoRequest, ReqRecords

LEMMA RInitInv == RInit => RInv
<1> SUFFICES ASSUME RInit PROVE RInv
  OBVIOUS
<1>1. CInv
  BY CInit DEF RInit
<1>2. NoTag \in Tags
  BY DEF NoTag, Tags
<1>3. RTypeOK
  <2>1. /\ peer \in Peers /\ req = NoRequest("none")
        /\ held = [body |-> Empty, tag |-> NoTag, user |-> NoUser, config |-> Empty]
    BY Zenon DEF RInit, Peers
  <2>2. NoUser \in EvalUsers
    BY DEF EvalUsers
  <2>3. req \in ReqRecords
    BY <2>1, NoRequestTyped DEF Codes
  <2>4. held \in [body : Configs \cup {Empty}, tag : Tags, user : EvalUsers, config : Configs \cup {Empty}]
    BY <1>2, <2>1, <2>2
  <2> QED
    BY <2>1, <2>3, <2>4 DEF RTypeOK
<1>4. PlaceInv /\ EntryInv /\ TagInv /\ HeldInv
  BY DEF RInit, PlaceInv, EntryInv, TagInv, HeldInv, NoRequest, Bulk
<1> QED
  BY <1>1, <1>3, <1>4 DEF RInv

(* A request that is over leaves nothing to say about it. *)
LEMMA Over ==
  ASSUME RInv, NEW code \in Codes, req' = NoRequest(code), UNCHANGED <<peer, held>>
  PROVE  RTypeOK' /\ PlaceInv' /\ EntryInv' /\ TagInv' /\ HeldInv'
<1>2. RTypeOK'
  BY NoRequestTyped DEF RInv, RTypeOK
<1>3. PlaceInv' /\ EntryInv' /\ TagInv' /\ HeldInv'
  BY DEF RInv, PlaceInv, EntryInv, TagInv, HeldInv, NoRequest, Bulk
<1> QED
  BY <1>2, <1>3

(* The entry is never taken away. *)
LEMMA EntryStays ==
  ASSUME CInv, Next, entry # Empty
  PROVE  entry' # Empty
<1>1. ASSUME Reload PROVE entry' # Empty
  BY <1>1 DEF Reload, Valid, Parsed, Empty
<1>2. ASSUME Set PROVE entry' # Empty
  <2>1. CASE ~Offline
    BY <1>2, <2>1 DEF Set, CInv, OnlineInv
  <2>2. CASE Offline
    BY <1>2, <2>2 DEF Set, CInv, OfflineInv, NoFetch
  <2> QED
    BY <2>1, <2>2
<1>3. ASSUME ~Reload, ~Set PROVE entry' = entry
  BY <1>3 DEF Next, Goroutines, Change, Toggle, BackupChanges, Connect, CloseStep, WatcherWakes, WatcherSends,
     WatcherExits, StoreWakes, StoreSends, StoreExits, Install, Signal, FirstRefresh, ListenerWakes,
     ListenerRefreshes, ListenerPublishes, ListenerExits
<1> QED
  BY <1>1, <1>2, <1>3

(* A request is turned away, or comes in with one of the ETags the peer    *)
(* may send.                                                               *)
LEMMA ArrivalStep ==
  ASSUME RInv, NEW op \in Ops, Receive(op) \/ \E fault \in Faults : Reject(op, fault)
  PROVE  RInv'
<1>1. ASSUME NEW fault \in Faults, Reject(op, fault) PROVE RInv'
  <2>1. Rejection(op, fault) \in Codes
    BY <1>1 DEF Faults, Rejection, Options, HeaderAuth, parseRequest, getSDKClient, validateSignature, Codes
  <2>2. req' = NoRequest(Rejection(op, fault)) /\ UNCHANGED <<vars, peer, held>>
    BY <1>1 DEF Reject
  <2>3. CInv'
    BY <2>2, CStep DEF RInv
  <2> QED
    BY <2>1, <2>2, <2>3, Over DEF RInv
<1>2. ASSUME Receive(op) PROVE RInv'
  <2>1. PICK user \in UsersOf(op), flag \in FlagsOf(op), tag \in TagsOf(op) :
          /\ Unmarshals(user)
          /\ req' = [at |-> IF op[2] = "refresh" /\ op[1] # "api" THEN "refreshing" ELSE "check",
                     op |-> op, user |-> user, flag |-> flag, tag |-> tag, code |-> "none"]
    BY <1>2 DEF Receive
  <2>2. UNCHANGED <<vars, peer, held>>
    BY <1>2 DEF Receive
  <2>3. CInv'
    BY <2>2, CStep DEF RInv
  <2>4. user \in Users \cup {NoUser} /\ flag \in {"f", "g"} /\ (op = Bulk => user \in Users)
    BY <2>1 DEF UsersOf, FlagsOf, Bulk
  <2>5. /\ tag \in Tags
        /\ op = Bulk => tag \in {NoTag, held.tag}
        /\ op[2] = "config" => tag \in {NoTag, <<held.body, {}>>}
    BY <2>1 DEF RInv, RTypeOK, TagsOf, Tags, NoTag, Ops, Bulk
  <2>6. RTypeOK'
    BY <2>1, <2>2, <2>4, <2>5 DEF RInv, RTypeOK, ReqRecords, Codes
  <2>7. PlaceInv' /\ EntryInv'
    BY <2>1, <2>4 DEF PlaceInv, EntryInv, Bulk
  <2>8. TagInv' /\ HeldInv'
    BY <2>1, <2>2, <2>5 DEF RInv, TagInv, HeldInv, Bulk
  <2> QED
    BY <2>3, <2>6, <2>7, <2>8 DEF RInv
<1> QED
  BY <1>1, <1>2

LEMMA HandlerStep ==
  ASSUME RInv, Check \/ ServeConfig \/ ServeBulk \/ EvaluateBulk \/ Evaluate
  PROVE  RInv'
<1>0. UNCHANGED <<vars, peer>> /\ CInv'
  <2>1. UNCHANGED <<vars, peer>>
    BY DEF Check, ServeConfig, ServeBulk, EvaluateBulk, Evaluate
  <2> QED
    BY <2>1, CStep DEF RInv
<1>00. /\ entry \in Configs \cup {Empty} /\ sdk \in Configs \cup {Empty}
       /\ req \in ReqRecords
       /\ UNCHANGED <<entry, peer>>
  BY <1>0 DEF RInv, RTypeOK, CInv, CTypeOK, vars
<1>1. ASSUME NEW code \in Codes, req' = NoRequest(code), UNCHANGED held PROVE RInv'
  BY <1>0, <1>1, Over DEF RInv
<1>2. ASSUME Check PROVE RInv'
  <2>1. CASE Invalid
    BY <1>1, <1>2, <2>1 DEF Check, InvalidState, Codes
  <2>2. CASE ~Invalid
    <3>1. /\ req.at = "check" /\ UNCHANGED held /\ entry # Empty
          /\ req' = [req EXCEPT !.at = IF req.op[2] = "refresh" THEN "refreshing" ELSE "serve"]
      BY <1>2, <2>2 DEF Check, Invalid
    <3>2. RTypeOK'
      BY <1>00, <3>1 DEF RInv, RTypeOK, ReqRecords
    <3>3. PlaceInv' /\ EntryInv' /\ TagInv' /\ HeldInv'
      BY <1>00, <3>1 DEF RInv, ReqRecords, PlaceInv, EntryInv, TagInv, HeldInv, Bulk
    <3> QED
      BY <1>0, <3>2, <3>3 DEF RInv
  <2> QED
    BY <2>1, <2>2
<1>3. ASSUME ServeConfig PROVE RInv'
  <2>1. CASE req' = NoRequest("304") /\ UNCHANGED held
    BY <1>1, <2>1 DEF Codes
  <2>2. CASE req' = NoRequest("200") /\ held' = [held EXCEPT !.body = entry]
    <3>1. RTypeOK'
      BY <1>00, <2>2, NoRequestTyped DEF RInv, RTypeOK, Codes
    <3>2. held'.tag = held.tag /\ held'.user = held.user
      BY <2>2 DEF RInv, RTypeOK
    <3>3. PlaceInv' /\ EntryInv' /\ TagInv' /\ HeldInv'
      BY <2>2, <3>2 DEF RInv, NoRequest, PlaceInv, EntryInv, TagInv, HeldInv, Bulk
    <3> QED
      BY <1>0, <3>1, <3>3 DEF RInv
  <2> QED
    BY <1>3, <2>1, <2>2 DEF ServeConfig
<1>4. ASSUME ServeBulk PROVE RInv'
  <2> DEFINE tag == calcEtag(req.user, entry)
  <2>1. req.at = "serve" /\ req.op = Bulk /\ UNCHANGED held
    BY <1>4 DEF ServeBulk, Bulk
  <2>2. req.user \in Users /\ tag = <<entry, Discriminator(req.user)>>
    BY <2>1 DEF RInv, PlaceInv, calcEtag
  <2>3. tag \in Tags
    BY <1>00, <2>2 DEF Tags
  <2>4. CASE req.tag = tag
    BY <1>1, <1>4, <2>4 DEF ServeBulk, Codes
  <2>5. CASE req.tag # tag
    <3>1. req' = [req EXCEPT !.at = "evaluate", !.tag = tag]
      BY <1>4, <2>5 DEF ServeBulk
    <3> HIDE DEF tag
    <3>2. RTypeOK'
      BY <1>00, <2>1, <2>3, <3>1 DEF RInv, RTypeOK, ReqRecords
    <3>3. PlaceInv' /\ EntryInv' /\ TagInv' /\ HeldInv'
      BY <1>00, <2>1, <2>2, <3>1 DEF RInv, ReqRecords, PlaceInv, EntryInv, TagInv, HeldInv, Bulk
    <3> QED
      BY <1>0, <3>2, <3>3 DEF RInv
  <2> QED
    BY <2>4, <2>5
<1>5. ASSUME EvaluateBulk PROVE RInv'
  <2>1. /\ req.at = "evaluate" /\ req' = NoRequest("200")
        /\ held' = [held EXCEPT !.tag = req.tag, !.config = sdk, !.user = EvalUser(req.user)]
    BY <1>5 DEF EvaluateBulk
  <2>2. req.user \in Users /\ Unmarshals(req.user) /\ req.tag \in Tags /\ req.tag[2] = Discriminator(req.user)
    BY <1>00, <2>1 DEF RInv, PlaceInv, TagInv, ReqRecords
  <2>3. EvalUser(req.user) \in EvalUsers
    BY <2>2 DEF EvalUsers
  <2>4. RTypeOK'
    BY <1>00, <2>1, <2>2, <2>3, NoRequestTyped DEF RInv, RTypeOK, Codes
  <2>5. held'.tag = req.tag /\ held'.user = EvalUser(req.user)
    BY <2>1 DEF RInv, RTypeOK
  <2>6. PlaceInv' /\ EntryInv' /\ TagInv' /\ HeldInv'
    BY <2>1, <2>2, <2>5 DEF NoRequest, PlaceInv, EntryInv, TagInv, HeldInv, Bulk
  <2> QED
    BY <1>0, <2>4, <2>6 DEF RInv
<1>6. ASSUME Evaluate PROVE RInv'
  BY <1>1, <1>6 DEF Evaluate, KeyNotFound, EvalFailed, Codes
<1> QED
  BY <1>2, <1>3, <1>4, <1>5, <1>6

(* A refresh a request asks for; of an offline client it may run ahead of  *)
(* the listener, which still publishes.                                    *)
LEMMA RefreshRequestStep ==
  ASSUME RInv, RefreshRequest
  PROVE  RInv'
<1>1. PICK place \in {"idle", "waiting"} :
        /\ Refresh(req.at, place, "idle", FALSE)
        /\ req' = IF place = "waiting" THEN [req EXCEPT !.at = place]
                  ELSE NoRequest(IF req.op[1] = "hook" \/ Offline THEN "200"
                                 ELSE IF req.op[1] = "grpc" THEN "Unknown" ELSE "500")
  BY DEF RefreshRequest
<1>2. UNCHANGED <<kind, srcVars, watchVars, storeVars, entry, first, listener, hooks, initialized,
                 seen, closing, peer, held>>
  BY DEF RefreshRequest
<1>3. /\ sdk' \in Configs \cup {Empty}
      /\ fetch' \in [at : {"none", "fetched", "installed"}, got : Configs \cup {Empty}, changed : BOOLEAN]
      /\ Offline => fetch' = fetch /\ sdk' = entry
      /\ ~Offline => sdk' = sdk /\ OnlineInv'
      /\ fetch'.at = "installed" <=> fetch.at = "installed"
      /\ fetch.at = "installed" => fetch' = fetch
  BY <1>1, <1>2, RefreshKeeps DEF RInv
<1>4. CInv'
  <2>1. CTypeOK'
    BY <1>2, <1>3 DEF RInv, CInv, CTypeOK, srcVars, watchVars, storeVars
  <2>2. OfflineInv' /\ OnlineInv' /\ SignalInv'
    BY <1>2, <1>3 DEF RInv, CInv, CTypeOK, OfflineInv, OnlineInv, SignalInv, Offline, Coming,
                      srcVars, watchVars, storeVars
  <2> QED
    BY <2>1, <2>2 DEF CInv
<1>5. CASE place = "waiting"
  <2>1. req.at = "refreshing" /\ req' = [req EXCEPT !.at = "waiting"]
    BY <1>1, <1>5 DEF Refresh
  <2>2. RTypeOK'
    BY <1>2, <2>1 DEF RInv, RTypeOK, ReqRecords
  <2>3. PlaceInv' /\ EntryInv' /\ TagInv' /\ HeldInv'
    BY <1>2, <2>1 DEF RInv, RTypeOK, ReqRecords, PlaceInv, EntryInv, TagInv, HeldInv, Bulk
  <2> QED
    BY <1>4, <2>2, <2>3 DEF RInv
<1>6. CASE place = "idle"
  <2>1. \E code \in Codes : req' = NoRequest(code)
    BY <1>1, <1>6 DEF Codes
  <2> QED
    BY <1>2, <1>4, <2>1, Over DEF RInv
<1> QED
  BY <1>5, <1>6

LEMMA ClientStep ==
  ASSUME RInv, Next, Woken, UNCHANGED <<peer, held>>
  PROVE  RInv'
<1>1. CInv'
  BY CStep DEF RInv
<1>2. CASE req' = NoRequest("200")
  BY <1>1, <1>2, Over DEF RInv, Codes
<1>3. CASE req' = req
  <2>1. EntryInv'
    BY <1>3, EntryStays DEF RInv, EntryInv
  <2>2. RTypeOK' /\ PlaceInv' /\ TagInv' /\ HeldInv'
    BY <1>3 DEF RInv, RTypeOK, PlaceInv, TagInv, HeldInv
  <2> QED
    BY <1>1, <2>1, <2>2 DEF RInv
<1> QED
  BY <1>2, <1>3 DEF Woken

LEMMA RStep == RInv /\ [RNext]_<<vars, reqVars>> => RInv'
<1> SUFFICES ASSUME RInv, [RNext]_<<vars, reqVars>> PROVE RInv'
  OBVIOUS
<1>1. CASE UNCHANGED <<vars, reqVars>>
  <2>1. CInv'
    BY <1>1, CStep DEF RInv
  <2>2. UNCHANGED <<entry, peer, req, held>>
    BY <1>1 DEF vars, reqVars
  <2> QED
    BY <2>1, <2>2 DEF RInv, RTypeOK, PlaceInv, EntryInv, TagInv, HeldInv
<1>2. CASE RNext
  BY <1>2, ClientStep, ArrivalStep, HandlerStep, RefreshRequestStep DEF RNext, Handler
<1> QED
  BY <1>1, <1>2

(* The inductive invariant of the handlers at work on one client: the      *)
(* client's own, and what a handler holds between its reads of the client. *)
THEOREM RequestsInvariant == RSpec => []RInv
<1> QED
  BY RInitInv, RStep, PTL DEF RSpec

-----------------------------------------------------------------------------
(* The results *)

(* A handler that was let through (IsInValidState, sdk.go:274) serves a    *)
(* config, with the one exception ServesAConfig names.                     *)
THEOREM ServesConfigs == RSpec => []ServesAConfig
<1>1. RInv => ServesAConfig
  <2> SUFFICES ASSUME RInv, req.at \in {"serve", "evaluate"}, sdk = Empty
               PROVE  entry # Empty /\ Offline /\ ~Quiet
    BY DEF ServesAConfig, RInv, EntryInv
  <2>1. entry # Empty
    BY DEF RInv, EntryInv
  <2>2. Offline
    BY <2>1 DEF RInv, CInv, CTypeOK, OnlineInv
  <2>3. ~Quiet
    BY <2>1, <2>2 DEF RInv, CInv, CTypeOK, OfflineInv, Quiet, Coming
  <2> QED
    BY <2>1, <2>2, <2>3
<1> QED
  BY <1>1, RequestsInvariant, PTL

(* The refreshes that requests ask for do not make the client lose a       *)
(* change: QuietAgrees holds with the handlers at work too.                *)
THEOREM QuietAgreementWithRequests == RSpec => []QuietAgrees
<1>1. RInv => QuietAgrees
  BY DEF RInv, CInv, OfflineInv, OnlineInv, SignalInv, Quiet, QuietAgrees, Coming, CTypeOK
<1> QED
  BY <1>1, RequestsInvariant, PTL

(* Only a step of the handler itself answers a bulk request.               *)
LEMMA Answers ==
  ASSUME RInv, RNext, req.op = Bulk, req'.code \in {"200", "304"}
  PROVE  ServeBulk \/ EvaluateBulk
<1>1. req.at # "idle" /\ req.at \notin {"refreshing", "waiting"} /\ req.code = "none"
  BY DEF RInv, PlaceInv, Bulk
<1>2. ~(Next /\ Woken)
  BY <1>1 DEF Woken
<1>3. \A op \in Ops : ~Receive(op) /\ \A fault \in Faults : ~Reject(op, fault)
  BY <1>1 DEF Receive, Reject
<1>4. ~RefreshRequest
  BY <1>1 DEF RefreshRequest, Refresh
<1>5. ~Check
  BY <1>1 DEF Check, NoRequest, InvalidState, RInv, RTypeOK, ReqRecords
<1>6. ~Evaluate /\ ~ServeConfig
  BY DEF Evaluate, ServeConfig, Bulk
<1> QED
  BY <1>2, <1>3, <1>4, <1>5, <1>6 DEF RNext, Handler

(* A 304 of OFREP's bulk evaluation is true (ofrep.go:133) for every set   *)
(* of users, as far as Discriminator tells them apart.                     *)
THEOREM NotModifiedTruth == RSpec => NotModifiedIsTrue
<1> DEFINE A == req.op = <<"ofrep", "all">> /\ req'.code = "304" =>
                  /\ SameUser(held.user, EvalUser(req.user))
                  /\ held.config = entry \/ held.config # held.tag[1]
<1>1. ASSUME RInv, [RNext]_<<vars, reqVars>>
      PROVE  [A]_<<vars, reqVars>>
  <2> SUFFICES ASSUME RNext, req.op = Bulk, req'.code = "304"
               PROVE  /\ SameUser(held.user, EvalUser(req.user))
                      /\ held.config = entry \/ held.config # held.tag[1]
    BY <1>1 DEF Bulk
  <2>1. ServeBulk
    BY <1>1, Answers DEF EvaluateBulk, NoRequest, Bulk
  <2>2. /\ req.at = "serve" /\ entry # Empty /\ req.tag \in {NoTag, held.tag}
        /\ Unmarshals(req.user)
    BY <1>1, <2>1 DEF ServeBulk, RInv, EntryInv, TagInv, PlaceInv
  <2>3. req.tag = <<entry, Discriminator(req.user)>>
    <3>1. CASE req.tag = calcEtag(req.user, entry)
      BY <3>1 DEF calcEtag
    <3>2. CASE req.tag # calcEtag(req.user, entry)
      <4>1. req' = [req EXCEPT !.at = "evaluate", !.tag = calcEtag(req.user, entry)]
        BY <2>1, <3>2 DEF ServeBulk
      <4>2. req'.code = "none"
        BY <1>1, <2>2, <4>1 DEF RInv, RTypeOK, ReqRecords, PlaceInv
      <4> QED
        BY <4>2
    <3> QED
      BY <3>1, <3>2
  <2>4. held.tag = <<entry, Discriminator(req.user)>> /\ held.tag # NoTag
    BY <2>2, <2>3 DEF NoTag
  <2>5. PICK u \in Users : Unmarshals(u) /\ held.user = EvalUser(u) /\ held.tag[2] = Discriminator(u)
    BY <1>1, <2>4 DEF RInv, HeldInv
  <2>6. SameUser(held.user, EvalUser(req.user))
    BY <2>2, <2>4, <2>5, SameHashSameUser
  <2> QED
    BY <2>4, <2>6
<1> QED
  BY <1>1, RequestsInvariant, PTL DEF RSpec, NotModifiedIsTrue
=============================================================================
