------------------------------- MODULE Profile -------------------------------
(***************************************************************************)
(* sdk/sdk_auto_registrar.go, getConfig: where the profile of the auto     *)
(* registrar comes from.  Every poll reads the external cache, asks the    *)
(* service with the ETag of the cached profile, writes what it fetched     *)
(* back to the cache and parses it, unless its ETag is the one applied     *)
(* last.  The cache is shared: other proxies write profiles they fetched   *)
(* earlier, and it may lose or refuse an entry.  The proxy may crash and   *)
(* restart.  What run does with a new profile is module Registrar.         *)
(*                                                                         *)
(* A profile is its version, its ETag too: the service sends an ETag with  *)
(* every 200 and never goes back to an earlier version.                    *)
(***************************************************************************)
EXTENDS Integers

CONSTANTS
  MaxVersion,  \* bound: versions the service publishes
  Malformed,   \* the versions whose body is not the JSON of a profile
  Callers      \* goroutines that call Refresh

Versions == 1 .. MaxVersion
Initial == 0     \* the ETag "initial", which no profile has
Nothing == -1    \* no body, no cache entry, no answer, no ETag

ASSUME ProfileAssumption == MaxVersion \in Nat \ {0} /\ Malformed \subseteq Versions

VARIABLES
  offline,    \* conf.GlobalOfflineConfig.Enabled
  service,    \* the version the service has
  up,         \* the service answers
  cache,      \* the version in the external cache, or Nothing
  proxy,      \* "starting" (newAutoRegistrar), "running", "closed", "failed"
  etag,       \* r.etag
  poll,       \* getConfig: its place, what readCache returned, the answer
  caller      \* Refresh: "idle", "sending" (to refreshChan), "done"

vars == <<offline, service, up, cache, proxy, etag, poll, caller>>

Unread == [at |-> "idle", etag |-> Initial, body |-> Nothing, answer |-> Nothing]

Init ==
  /\ offline \in BOOLEAN
  /\ service = 1 /\ up \in BOOLEAN
  /\ cache \in {Nothing, 1}
  /\ proxy = "starting"
  /\ etag = Initial
  /\ poll = [Unread EXCEPT !.at = "read"]
  /\ caller = [c \in Callers |-> "idle"]

-----------------------------------------------------------------------------
(* The service, the cache and the process *)

Publish ==
  /\ service < MaxVersion
  /\ service' = service + 1
  /\ UNCHANGED <<offline, up, cache, proxy, etag, poll, caller>>

Toggle == up' = ~up /\ UNCHANGED <<offline, service, cache, proxy, etag, poll, caller>>

(* Another proxy writes what it fetched a while ago, or the entry is lost. *)
CacheChanges ==
  /\ \E v \in 1 .. service \cup {Nothing} : cache' = v
  /\ UNCHANGED <<offline, service, up, proxy, etag, poll, caller>>

(* The process starts again with nothing but the cache. *)
Restart ==
  /\ proxy' = "starting" /\ etag' = Initial
  /\ poll' = [Unread EXCEPT !.at = "read"]
  /\ caller' = [c \in Callers |-> "idle"]
  /\ UNCHANGED <<offline, service, up, cache>>

-----------------------------------------------------------------------------
(* Plausible bugs *)

\* the cached profile is parsed under the applied ETag
MutReadCache ==
  /\ poll.at = "read"
  /\ \E got \in {cache, Nothing} :
       poll' = [at |-> IF offline THEN "parse" ELSE "fetch", body |-> got,
                etag |-> etag, answer |-> Nothing]
  /\ UNCHANGED <<offline, service, up, cache, proxy, etag, caller>>

\* If-None-Match carries the applied ETag instead of the cached one
MutFetchConfig ==
  /\ poll.at = "fetch"
  /\ \/ up /\ etag = service /\ poll' = [poll EXCEPT !.at = "parse", !.answer = service]
     \/ up /\ etag # service /\ poll' = [poll EXCEPT !.at = "write", !.answer = service]
     \/ (~up \/ proxy = "closed") /\ poll' = [poll EXCEPT !.at = "parse"]
  /\ UNCHANGED <<offline, service, up, cache, proxy, etag, caller>>

\* a failed fetch is an error whatever the cache holds
MutUsable == poll.answer # Nothing

\* run looks at refreshChan only while it has the latest profile
MutTakeRefresh(c) ==
  /\ proxy \in {"running", "closed"} /\ poll.at = "idle" /\ caller[c] = "sending"
  /\ etag = service
  /\ caller' = [caller EXCEPT ![c] = "done"]
  /\ poll' = [poll EXCEPT !.at = "read"]
  /\ UNCHANGED <<offline, service, up, cache, proxy, etag>>

-----------------------------------------------------------------------------
(* run *)

Tick ==
  /\ proxy = "running" /\ poll.at = "idle"
  /\ poll' = [poll EXCEPT !.at = "read"]
  /\ UNCHANGED <<offline, service, up, cache, proxy, etag, caller>>

(* Refresh polls the context, then sends to refreshChan ... *)
Refresh(c) ==
  /\ proxy \in {"running", "closed"} /\ caller[c] = "idle"
  /\ caller' = [caller EXCEPT ![c] = IF proxy = "running" THEN "sending" ELSE "done"]
  /\ UNCHANGED <<offline, service, up, cache, proxy, etag, poll>>

(* ... where run meets it; its select may prefer it to a done context. *)
TakeRefresh(c) ==
  /\ proxy \in {"running", "closed"} /\ poll.at = "idle" /\ caller[c] = "sending"
  /\ caller' = [caller EXCEPT ![c] = "done"]
  /\ poll' = [poll EXCEPT !.at = "read"]
  /\ UNCHANGED <<offline, service, up, cache, proxy, etag>>

(* readCache: the entry; or no body, with the applied ETag when there is   *)
(* no cache or no answer from it, with none when the entry is empty or     *)
(* does not split into an ETag and a body.                                 *)
ReadCache ==
  /\ poll.at = "read"
  /\ \E got \in {cache, Nothing}, tag \in {etag, Nothing} :
       poll' = [at |-> IF offline THEN "parse" ELSE "fetch", body |-> got,
                etag |-> IF got = Nothing THEN tag ELSE got, answer |-> Nothing]
  /\ UNCHANGED <<offline, service, up, cache, proxy, etag, caller>>

(* fetchConfig: 304 if the ETag is the service's, 200 otherwise; no answer,*)
(* a timeout, a cancelled context or another status is an error.           *)
FetchConfig ==
  /\ poll.at = "fetch"
  /\ \/ up /\ poll.etag = service /\ poll' = [poll EXCEPT !.at = "parse", !.answer = service]
     \/ up /\ poll.etag # service /\ poll' = [poll EXCEPT !.at = "write", !.answer = service]
     \/ (~up \/ proxy = "closed") /\ poll' = [poll EXCEPT !.at = "parse"]
  /\ UNCHANGED <<offline, service, up, cache, proxy, etag, caller>>

(* writeCache, before the body is parsed; an error is only logged. *)
WriteCache ==
  /\ poll.at = "write"
  /\ cache' \in {cache, poll.answer}
  /\ poll' = [poll EXCEPT !.at = "parse", !.body = poll.answer, !.etag = poll.answer]
  /\ UNCHANGED <<offline, service, up, proxy, etag, caller>>

(* There is a profile to parse, or a 304 for the applied one: neither the  *)
(* fetch nor the cache alone makes a poll fail.                            *)
Usable == poll.answer # Nothing \/ poll.body # Nothing

(* parseConfig: nothing new if the ETag is the applied one; the ETag is    *)
(* remembered only once the body is parsed.  An error of getConfig ends    *)
(* newAutoRegistrar; run only logs it.                                     *)
ParseConfig ==
  LET new == poll.etag # etag
      parsed == Usable /\ new /\ poll.body \notin Malformed
  IN  /\ poll.at = "parse"
      /\ etag' = IF parsed THEN poll.etag ELSE etag
      /\ proxy' = IF proxy # "starting" THEN proxy
                  ELSE IF Usable /\ (new => parsed) THEN "running" ELSE "failed"
      /\ poll' = Unread
      /\ UNCHANGED <<offline, service, up, cache, caller>>

Close ==
  /\ proxy = "running"
  /\ proxy' = "closed"
  /\ UNCHANGED <<offline, service, up, cache, etag, poll, caller>>

(* run finds its context done. *)
Exit ==
  /\ proxy = "closed" /\ poll.at = "idle"
  /\ poll' = [poll EXCEPT !.at = "exited"]
  /\ UNCHANGED <<offline, service, up, cache, proxy, etag, caller>>

Getting == ReadCache \/ FetchConfig \/ WriteCache \/ ParseConfig

Next ==
  \/ Publish \/ Toggle \/ CacheChanges \/ Restart
  \/ Tick \/ Getting \/ Close \/ Exit
  \/ \E c \in Callers : Refresh(c) \/ TakeRefresh(c)

Spec == Init /\ [][Next]_vars

(* The ticker ticks, the fetch ends within its 30 seconds, and run's       *)
(* select, which picks at random, serves a waiting Refresh in the end.     *)
FairSpec ==
  /\ Spec
  /\ WF_vars(Tick) /\ WF_vars(Getting) /\ WF_vars(Exit)
  /\ \A c \in Callers : SF_vars(TakeRefresh(c))

-----------------------------------------------------------------------------
(* Properties *)

TypeOK ==
  /\ offline \in BOOLEAN /\ up \in BOOLEAN
  /\ service \in Versions
  /\ cache \in Versions \cup {Nothing}
  /\ proxy \in {"starting", "running", "closed", "failed"}
  /\ etag \in Versions \cup {Initial}
  /\ poll \in [at : {"idle", "read", "fetch", "write", "parse", "exited"},
                etag : Versions \cup {Initial, Nothing}, body : Versions \cup {Nothing},
                answer : Versions \cup {Nothing}]
  /\ caller \in [Callers -> {"idle", "sending", "done"}]

(* A poll the service answered, with 200 or 304, leaves the registrar with *)
(* the version the service had, whatever was in the cache                  *)
(* (sdk_auto_registrar.go:238-249): the ETag of another proxy's profile    *)
(* neither hides a new version nor brings an old one back.                 *)
FetchedIsApplied ==
  [][poll.at = "parse" /\ poll'.at = "idle" /\ poll.answer \in Versions \ Malformed
       => etag' = poll.answer]_vars

(* newAutoRegistrar dereferences the first profile without a nil check     *)
(* (line 80): a registrar that starts has parsed one.                      *)
StartsWithProfile == proxy \in {"running", "closed"} => etag \in Versions

(* A start fails, after a crash too, only if what the service answered     *)
(* does not parse, or if the service gave no answer, or was not asked, and *)
(* readCache nothing that parses (lines 224-241).  In the first case it    *)
(* fails although the cache held a profile that parses: writeCache has     *)
(* replaced it and only the fetched body is parsed (lines 242-248).        *)
StartFailsOnlyWithoutProfile ==
  [][proxy = "starting" /\ proxy' = "failed" =>
       \/ poll.answer \in Malformed
       \/ poll.answer = Nothing /\ poll.body \in Malformed \cup {Nothing}]_vars

(* While the service answers, the registrar ends up with its last version  *)
(* and stays with it, although other proxies go on writing older profiles  *)
(* to the shared cache.                                                    *)
Converges ==
  <>[](up /\ ~offline /\ proxy = "running") => <>[](service \notin Malformed => etag = service)

(* Refresh returns (line 138) unless the registrar was closed between its  *)
(* look at the context and its send.                                       *)
RefreshReturns ==
  \A c \in Callers : caller[c] = "sending" ~> caller[c] # "sending" \/ proxy = "closed"
=============================================================================
