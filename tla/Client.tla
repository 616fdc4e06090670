------------------------------- MODULE Client -------------------------------
(***************************************************************************)
(* sdk/sdk.go with sdk/store: one SDK client and the source its config     *)
(* comes from.  An offline client has a store that watches a file (through *)
(* fsnotify, through polling, or not at all) or polls the external cache;  *)
(* each goroutine of the pipeline watcher -> store -> listen hands over    *)
(* through a `modified` channel of capacity one.  An online client polls   *)
(* the service; the SDK stores what it fetched and calls signal.  A        *)
(* "backed" one has the external cache behind its store: the SDK reads it  *)
(* when it cannot fetch, after a restart above all, and other proxies may  *)
(* write to it.                                                            *)
(*                                                                         *)
(* A config is named by its content.  "a " is "a" with other white space:  *)
(* the file store writes both back to the same JSON.  "none" is a missing  *)
(* file; "bad" is anything else that cannot be read or parsed, a missing   *)
(* cache entry too.                                                        *)
(***************************************************************************)
EXTENDS Integers

CONSTANTS
  Kinds,       \* the clients to check: a subset of AllKinds
  MaxChanges,  \* bound: changes of the source
  Streaming    \* whether streams subscribe: if not, an online signal tells nobody

AllKinds == {"fsnotify", "polled", "unwatched", "cache", "online", "backed"}
Contents == {"a", "a ", "b", "bad", "none"}
Parsed == [c \in {"a", "a ", "b"} |-> IF c = "a " THEN "a" ELSE c]
Valid(c) == c \in DOMAIN Parsed
Configs == {"a", "b"}
Empty == "empty"      \* the entry of NewEntryStore, the SDK without a config
Nobody == "nobody"    \* no stream connection yet

ASSUME ClientAssumption == Kinds \subseteq AllKinds /\ MaxChanges \in Nat /\ Streaming \in BOOLEAN

VARIABLES
  kind,         \* the storage NewClient picked
  source,       \* what the file, the cache or the service holds
  changes,      \* how often it changed
  up,           \* the cache or the service answers
  watched,      \* the watcher still looks at the path reload reads
  missed,       \* the last change could not be seen by the watcher
  backup,       \* what the external cache holds for a backed client, or "none"
  dirty,        \* pending fsnotify writes; polled: the stat differs (0 or 1)
  watcher, wchan,              \* the watcher's goroutine and modified channel
  store, schan,                \* the store's
  stored,       \* f.stored, the ETag of the cache store's entry
  entry,        \* entryStore.entry
  sdk,          \* the config the SDK evaluates
  first,        \* the goroutine of NewClient: "refreshing", "done"
  listener,     \* listen, or poll of an online client
  fetch,        \* the SDK's request in flight
  hooks,        \* OnConfigChanged calls under way
  initialized,
  seen,         \* the config a stream connection was last sent
  closing       \* Close: "open", "store", "watcher", "client", "closed"

srcVars == <<source, changes, up, watched, missed, backup>>
watchVars == <<dirty, watcher, wchan>>
storeVars == <<store, schan, stored>>
sdkVars == <<first, listener, fetch, hooks, initialized>>
vars == <<kind, srcVars, watchVars, storeVars, entry, sdk, sdkVars, seen, closing>>

File == kind \in {"fsnotify", "polled", "unwatched"}
Offline == kind \notin {"online", "backed"}
StoreClosed == closing # "open"
WatcherClosed == closing \notin {"open", "store"}
ClientClosed == closing \in {"client", "closed"}

NoFetch == [at |-> "none", got |-> Empty, changed |-> FALSE]

(* newFileWatcher or newPollWatcher fails without a file: nullWatcher.     *)
(* The constructors reload once before run starts.                         *)
Init ==
  /\ kind \in Kinds
  /\ source \in {"a", "bad", "none"}
  /\ source = "none" <=> kind = "unwatched"
  /\ changes = 0 /\ up = TRUE /\ watched = TRUE /\ missed = FALSE
  /\ backup = "none" \/ (kind = "backed" /\ backup = "b")
  /\ dirty = 0 /\ watcher = "idle" /\ wchan = 0
  /\ store = "idle" /\ schan = 0
  /\ stored = IF Offline /\ Valid(source) THEN source ELSE "none"
  /\ entry = IF Offline /\ Valid(source) THEN Parsed[source] ELSE Empty
  /\ sdk = Empty
  /\ first = "refreshing" /\ listener = "idle"
  /\ fetch = NoFetch /\ hooks = 0 /\ initialized = FALSE
  /\ seen = Nobody
  /\ closing = "open"

-----------------------------------------------------------------------------
(* The source: a file is written in place, replaced by a rename, or        *)
(* reached through a link that now points elsewhere.                       *)

Noticed(c, how) ==
  /\ watched /\ how # "relink"
  /\ \/ kind = "polled"
     \/ kind = "fsnotify" /\ how = "write" /\ c # "none"

Change(c, how) ==
  /\ changes < MaxChanges /\ c # source
  /\ File \/ (how = "write" /\ c \notin {"a ", "none"})
  /\ source' = c /\ changes' = changes + 1
  /\ watched' = (watched /\ how # "relink")
  /\ missed' = (File /\ ~Noticed(c, how))
  /\ dirty' = IF ~Noticed(c, how) THEN dirty ELSE IF kind = "polled" THEN 1 ELSE dirty + 1
  /\ UNCHANGED <<kind, up, backup, watcher, wchan, storeVars, entry, sdk, sdkVars, seen, closing>>

Toggle ==
  /\ ~File /\ changes < MaxChanges
  /\ up' = ~up /\ changes' = changes + 1
  /\ UNCHANGED <<kind, source, watched, missed, backup, watchVars, storeVars, entry, sdk, sdkVars, seen, closing>>

(* Another proxy writes what it fetched, or the entry is lost. *)
BackupChanges ==
  /\ kind = "backed" /\ changes < MaxChanges
  /\ backup' \in (Configs \cup {"none"}) \ {backup} /\ changes' = changes + 1
  /\ UNCHANGED <<kind, source, up, watched, missed, watchVars, storeVars, entry, sdk, sdkVars, seen, closing>>

-----------------------------------------------------------------------------
(* Plausible bugs *)

\* a reload replaces the entry and does not notify the client
MutReload ==
  /\ store = "loading"
  /\ LET got == IF kind = "cache" /\ ~up THEN "none" ELSE source
         new == Valid(got) /\ got # stored
     IN  /\ stored' = IF new THEN got ELSE stored
         /\ entry' = IF new THEN Parsed[got] ELSE entry
         /\ store' = "idle"
  /\ UNCHANGED <<kind, srcVars, watchVars, schan, sdk, sdkVars, seen, closing>>

\* signal publishes before the SDK has reloaded
MutListenerRefreshes ==
  /\ listener = "refreshing" /\ listener' = "idle"
  /\ sdk' = entry
  /\ seen' = IF seen = Nobody THEN Nobody ELSE sdk
  /\ UNCHANGED <<kind, srcVars, watchVars, storeVars, entry, first, fetch, hooks, initialized, closing>>


-----------------------------------------------------------------------------
(* fileWatcher.run and pollWatcher.run.  Notify looks at the context and   *)
(* then blocks in the send while `modified` is full.                       *)

WatcherWakes ==
  /\ watcher = "idle" /\ dirty > 0
  /\ kind = "polled" => source # "none"
  /\ dirty' = dirty - 1
  /\ watcher' = IF WatcherClosed THEN "idle" ELSE "sending"
  /\ UNCHANGED <<kind, srcVars, wchan, storeVars, entry, sdk, sdkVars, seen, closing>>

WatcherSends ==
  /\ watcher = "sending" /\ wchan = 0
  /\ watcher' = "idle" /\ wchan' = 1
  /\ UNCHANGED <<kind, srcVars, dirty, storeVars, entry, sdk, sdkVars, seen, closing>>

WatcherExits ==
  /\ WatcherClosed /\ watcher = "idle"
  /\ watcher' = "exited"
  /\ UNCHANGED <<kind, srcVars, dirty, wchan, storeVars, entry, sdk, sdkVars, seen, closing>>

(* fileStore.run waits for its watcher (nullWatcher closes its channel on  *)
(* Close), notifyingCacheStore.run for its ticker.                         *)
StoreWakes ==
  /\ Offline /\ store = "idle"
  /\ \/ wchan = 1
     \/ kind = "cache"
     \/ kind = "unwatched" /\ WatcherClosed
  /\ store' = "loading" /\ wchan' = 0
  /\ UNCHANGED <<kind, srcVars, dirty, watcher, schan, stored, entry, sdk, sdkVars, seen, closing>>

(* reload: read, compare, parse, StoreEntry; then Notify. *)
Reload ==
  /\ store = "loading"
  /\ LET got == IF kind = "cache" /\ ~up THEN "none" ELSE source
         new == Valid(got) /\ got # stored
     IN  /\ stored' = IF new THEN got ELSE stored
         /\ entry' = IF new THEN Parsed[got] ELSE entry
         /\ store' = IF new /\ ~StoreClosed THEN "sending" ELSE "idle"
  /\ UNCHANGED <<kind, srcVars, watchVars, schan, sdk, sdkVars, seen, closing>>

StoreSends ==
  /\ store = "sending" /\ schan = 0
  /\ store' = "idle" /\ schan' = 1
  /\ UNCHANGED <<kind, srcVars, watchVars, stored, entry, sdk, sdkVars, seen, closing>>

StoreExits ==
  /\ StoreClosed /\ store = "idle"
  /\ store' = "exited"
  /\ UNCHANGED <<kind, srcVars, watchVars, schan, stored, entry, sdk, sdkVars, seen, closing>>

-----------------------------------------------------------------------------
(* The SDK *)

(* What a request of the SDK yields: the service's config; if that fails,  *)
(* cacheStore.Get's.                                                       *)
Fetched == IF up /\ Valid(source) THEN Parsed[source] ELSE backup

(* Refresh by a goroutine at `place`, which goes on at `back`.  Offline    *)
(* the SDK reads the store; online it fetches, or joins the request under  *)
(* way, and gives up when the context is done.  An SDK that has a config   *)
(* need not take one from the cache.                                       *)
Refresh(place, next, back, done) ==
  \/ /\ Offline /\ place = "refreshing"
     /\ sdk' = entry /\ next = back
     /\ UNCHANGED fetch
  \/ /\ ~Offline /\ place = "refreshing" /\ Fetched # "none" /\ ~done
     /\ next = "waiting"
     /\ fetch' = IF fetch.at # "none" THEN fetch
                 ELSE [at |-> "fetched", got |-> Fetched, changed |-> Fetched # sdk]
     /\ UNCHANGED sdk
  \/ /\ \/ place \in {"refreshing", "waiting"} /\ done
        \/ ~Offline /\ place = "refreshing" /\ ~(up /\ Valid(source)) /\ (sdk = Empty => Fetched = "none")
     /\ next = back
     /\ UNCHANGED <<sdk, fetch>>

(* The SDK evaluates the new config before it hands it to its cache. *)
Install ==
  /\ fetch.at = "fetched"
  /\ sdk' = fetch.got /\ fetch' = [fetch EXCEPT !.at = "installed"]
  /\ UNCHANGED <<kind, srcVars, watchVars, storeVars, entry, first, listener, hooks, initialized, seen, closing>>

(* cacheStore.Set, which ignores that the cache refuses the entry, or      *)
(* inMemoryStore.Set; then the hook if the config is new, and those who    *)
(* waited for the request go on.                                           *)
Set ==
  /\ fetch.at = "installed"
  /\ entry' = fetch.got /\ fetch' = NoFetch
  /\ backup' \in {backup} \cup (IF kind = "backed" THEN {fetch.got} ELSE {})
  /\ hooks' = IF fetch.changed /\ Streaming THEN hooks + 1 ELSE hooks
  /\ first' = IF first = "waiting" THEN "done" ELSE first
  /\ listener' = IF listener = "waiting" THEN "idle" ELSE listener
  /\ UNCHANGED <<kind, source, changes, up, watched, missed, watchVars, storeVars, sdk, initialized, seen, closing>>

-----------------------------------------------------------------------------
(* The client *)

FirstRefresh ==
  /\ Refresh(first, first', "done", ClientClosed)
  /\ UNCHANGED <<kind, srcVars, watchVars, storeVars, entry, listener, hooks, initialized, seen, closing>>

(* listen has a message; poll has a tick. *)
ListenerWakes ==
  /\ listener = "idle"
  /\ Offline => schan = 1
  /\ listener' = "refreshing" /\ schan' = 0
  /\ UNCHANGED <<kind, srcVars, watchVars, store, stored, entry, sdk, first, fetch, hooks, initialized, seen, closing>>

ListenerRefreshes ==
  /\ Refresh(listener, listener', IF Offline THEN "publishing" ELSE "idle", ClientClosed)
  /\ UNCHANGED <<kind, srcVars, watchVars, storeVars, entry, first, hooks, initialized, seen, closing>>

(* Publish wakes the stream, which evaluates for its connections. *)
Told == seen' = IF seen = Nobody THEN Nobody ELSE sdk

(* signal of an offline client *)
ListenerPublishes ==
  /\ listener = "publishing" /\ listener' = "idle"
  /\ Told
  /\ UNCHANGED <<kind, srcVars, watchVars, storeVars, entry, sdk, first, fetch, hooks, initialized, closing>>

ListenerExits ==
  /\ ClientClosed /\ listener = "idle"
  /\ listener' = "exited"
  /\ UNCHANGED <<kind, srcVars, watchVars, storeVars, entry, sdk, first, fetch, hooks, initialized, seen, closing>>

(* signal of an online client: the first change is nobody's news. *)
Signal ==
  /\ hooks > 0 /\ hooks' = hooks - 1
  /\ initialized' = TRUE
  /\ IF initialized THEN Told ELSE UNCHANGED seen
  /\ UNCHANGED <<kind, srcVars, watchVars, storeVars, entry, sdk, first, listener, fetch, closing>>

(* ensureReady: the first refresh has returned, or Close has begun. *)
Ready == first = "done" \/ ClientClosed

(* A stream connection is made: IsInValidState, then an evaluation. *)
Connect ==
  /\ Streaming /\ Ready /\ entry # Empty /\ seen = Nobody
  /\ seen' = sdk
  /\ UNCHANGED <<kind, srcVars, watchVars, storeVars, entry, sdk, sdkVars, closing>>

(* Close: the store's context, its watcher's, the client's; then it waits  *)
(* for the first refresh, which holds c.mu.                                *)
CloseStep ==
  /\ closing' = CASE closing = "open" -> IF File THEN "store" ELSE "watcher"
                  [] closing = "store" -> "watcher"
                  [] closing = "watcher" -> "client"
                  [] closing = "client" /\ first = "done" -> "closed"
                  [] OTHER -> closing
  /\ closing' # closing
  /\ UNCHANGED <<kind, srcVars, watchVars, storeVars, entry, sdk, sdkVars, seen>>

Goroutines ==
  \/ WatcherWakes \/ WatcherSends \/ WatcherExits
  \/ StoreWakes \/ Reload \/ StoreSends \/ StoreExits
  \/ Install \/ Set \/ Signal \/ FirstRefresh
  \/ ListenerWakes \/ ListenerRefreshes \/ ListenerPublishes \/ ListenerExits

Next ==
  \/ \E c \in Contents, how \in {"write", "replace", "relink"} : Change(c, how)
  \/ Toggle \/ BackupChanges \/ Connect \/ CloseStep \/ Goroutines

(* Every goroutine runs, the tickers tick, a request ends (the SDK's HTTP  *)
(* client has a timeout), Close goes on once called, and a select that     *)
(* finds the context done again and again takes that case in the end.      *)
Fairness ==
  /\ WF_vars(WatcherWakes) /\ WF_vars(WatcherSends) /\ WF_vars(WatcherExits)
  /\ WF_vars(StoreWakes) /\ WF_vars(Reload) /\ WF_vars(StoreSends) /\ SF_vars(StoreExits)
  /\ WF_vars(Install) /\ WF_vars(Set) /\ WF_vars(Signal) /\ WF_vars(FirstRefresh)
  /\ WF_vars(ListenerWakes) /\ WF_vars(ListenerRefreshes) /\ WF_vars(ListenerPublishes)
  /\ SF_vars(ListenerExits)
  /\ WF_vars(closing # "open" /\ CloseStep)

Spec == Init /\ [][Next]_vars /\ Fairness

-----------------------------------------------------------------------------
(* Properties *)

Quiet ==
  /\ closing = "open" /\ first = "done"
  /\ watcher = "idle" /\ wchan = 0 /\ store = "idle" /\ schan = 0
  /\ listener = "idle" /\ fetch.at = "none" /\ hooks = 0

(* No change is lost between the store, the SDK and the streams            *)
(* (store.go:53, cache_notify.go:63, sdk.go:186): when nothing is under   *)
(* way the SDK evaluates the stored entry and every stream connection was  *)
(* sent that config, the change signal() hides included.                   *)
QuietAgrees == Quiet => sdk = entry /\ seen \in {Nobody, sdk}

(* A change that the watcher can see reaches the SDK and the connections   *)
(* (README: "watch a file for new config JSON versions"), whatever was in  *)
(* the file in between and however many changes one message stands for.    *)
(* It does not see a file replaced by a rename (fsnotify), a link that now *)
(* points elsewhere, or a file that was not there at the start.  While the *)
(* service is out of reach the config in the external cache lets a client  *)
(* start (sdk_test.go, TestSdk_BadConfig_WithCache).                       *)
Follows ==
  /\ <>[](closing = "open" /\ up) =>
       <>[](Valid(source) /\ ~missed => sdk = Parsed[source] /\ seen \in {Nobody, sdk})
  /\ <>[](closing = "open") => <>[](backup # "none" => entry # Empty)

=============================================================================
