---------------------------- MODULE ProfileProofs ----------------------------
(***************************************************************************)
(* What getConfig guarantees for every number of versions, any set of      *)
(* malformed ones and any callers of Refresh: polls, cache writes of other *)
(* proxies, crashes and restarts in every order.                           *)
(***************************************************************************)
EXTENDS Profile, TLAPS

(* A poll never mixes two profiles: the ETag at hand is the one of the     *)
(* cached body, and of the answer once the poll is about to parse.         *)
PollInv ==
  /\ poll.at \in {"fetch", "write", "parse"} /\ poll.body # Nothing => poll.etag = poll.body
  /\ poll.at = "parse" /\ poll.answer # Nothing => poll.etag = poll.answer
  /\ poll.at = "fetch" => poll.answer = Nothing
  /\ poll.at = "write" => poll.answer \in Versions

(* A registrar that starts has applied nothing. *)
FreshInv == proxy = "starting" => etag = Initial

IInv == TypeOK /\ PollInv /\ FreshInv /\ StartsWithProfile

LEMMA Sentinels == Nothing \notin Versions /\ Initial \notin Versions /\ Nothing \notin Malformed
  BY ProfileAssumption DEF Versions, Nothing, Initial

LEMMA InitIInv == Init => IInv
<1> SUFFICES ASSUME Init PROVE IInv
  OBVIOUS
<1>1. 1 \in Versions
  BY ProfileAssumption DEF Versions
<1>2. poll = [at |-> "read", etag |-> Initial, body |-> Nothing, answer |-> Nothing]
  BY DEF Init, Unread
<1>3. poll \in [at : {"idle", "read", "fetch", "write", "parse", "exited"},
                etag : Versions \cup {Initial, Nothing}, body : Versions \cup {Nothing},
                answer : Versions \cup {Nothing}]
  BY <1>2
<1>4. caller \in [Callers -> {"idle", "sending", "done"}]
  BY DEF Init
<1>5. TypeOK
  BY <1>1, <1>3, <1>4 DEF Init, TypeOK
<1>6. PollInv /\ FreshInv /\ StartsWithProfile
  BY <1>2 DEF Init, PollInv, FreshInv, StartsWithProfile
<1> QED
  BY <1>5, <1>6 DEF IInv

(* What parseConfig finds when there is something to parse. *)
LEMMA UsableEtag == TypeOK /\ PollInv /\ poll.at = "parse" /\ Usable => poll.etag \in Versions
  BY Sentinels DEF TypeOK, PollInv, Usable

LEMMA TypeStep == IInv /\ [Next]_vars => TypeOK'
<1> SUFFICES ASSUME IInv, [Next]_vars PROVE TypeOK'
  OBVIOUS
<1> USE DEF IInv, TypeOK
<1>1. CASE Publish
  BY <1>1, ProfileAssumption DEF Publish, Versions
<1>2. CASE Toggle
  BY <1>2 DEF Toggle
<1>3. CASE CacheChanges
  BY <1>3, ProfileAssumption DEF CacheChanges, Versions
<1>4. CASE Restart
  BY <1>4 DEF Restart, Unread
<1>5. CASE Tick
  BY <1>5 DEF Tick
<1>6. CASE ReadCache
  BY <1>6 DEF ReadCache
<1>7. CASE FetchConfig
  BY <1>7 DEF FetchConfig
<1>8. CASE WriteCache
  BY <1>8 DEF WriteCache, PollInv
<1>9. CASE ParseConfig
  <2>1. etag' \in Versions \cup {Initial}
    BY <1>9, UsableEtag DEF ParseConfig
  <2> QED
    BY <1>9, <2>1 DEF ParseConfig, Unread
<1>10. CASE Close \/ Exit
  BY <1>10 DEF Close, Exit
<1>11. ASSUME NEW c \in Callers, Refresh(c) \/ TakeRefresh(c) PROVE TypeOK'
  BY <1>11 DEF Refresh, TakeRefresh
<1>12. CASE UNCHANGED vars
  BY <1>12 DEF vars
<1> QED
  BY <1>1, <1>2, <1>3, <1>4, <1>5, <1>6, <1>7, <1>8, <1>9, <1>10, <1>11, <1>12
     DEF Next, Getting

LEMMA PollStep == IInv /\ [Next]_vars => PollInv'
<1> SUFFICES ASSUME IInv, [Next]_vars PROVE PollInv'
  OBVIOUS
<1> USE DEF IInv, TypeOK, PollInv
<1>1. CASE poll' = poll
  BY <1>1
<1>2. CASE Restart
  BY <1>2 DEF Restart, Unread
<1>3. CASE Tick
  BY <1>3 DEF Tick
<1>4. CASE ReadCache
  BY <1>4 DEF ReadCache
<1>5. CASE FetchConfig
  <2>1. poll.at = "fetch" /\ poll.answer = Nothing /\ service \in Versions
    BY <1>5 DEF FetchConfig
  <2>2. CASE poll.etag = service /\ poll' = [poll EXCEPT !.at = "parse", !.answer = service]
    BY <2>1, <2>2
  <2>3. CASE poll' = [poll EXCEPT !.at = "write", !.answer = service]
    BY <2>1, <2>3
  <2>4. CASE poll' = [poll EXCEPT !.at = "parse"]
    BY <2>1, <2>4
  <2> QED
    BY <1>5, <2>2, <2>3, <2>4 DEF FetchConfig
<1>6. CASE WriteCache
  BY <1>6 DEF WriteCache
<1>7. CASE ParseConfig
  BY <1>7 DEF ParseConfig, Unread
<1>8. CASE Exit
  BY <1>8 DEF Exit
<1>9. ASSUME NEW c \in Callers, TakeRefresh(c) PROVE PollInv'
  BY <1>9 DEF TakeRefresh
<1> QED
  BY <1>1, <1>2, <1>3, <1>4, <1>5, <1>6, <1>7, <1>8, <1>9
     DEF Next, Getting, vars, Publish, Toggle, CacheChanges, Close, Refresh

LEMMA StartStep == IInv /\ [Next]_vars => (FreshInv /\ StartsWithProfile)'
<1> SUFFICES ASSUME IInv, [Next]_vars PROVE (FreshInv /\ StartsWithProfile)'
  OBVIOUS
<1> USE DEF FreshInv, StartsWithProfile
<1>1. CASE proxy' = proxy /\ etag' = etag
  BY <1>1 DEF IInv
<1>2. CASE Restart
  BY <1>2 DEF Restart
<1>3. CASE Close
  BY <1>3 DEF Close, IInv
<1>4. CASE ParseConfig
  <2>1. Usable => poll.etag \in Versions
    BY <1>4, UsableEtag DEF IInv, ParseConfig
  <2>2. proxy' \in {"running", "closed"} => etag' \in Versions
    BY <1>4, <2>1, Sentinels DEF ParseConfig, IInv
  <2>3. proxy' # "starting"
    BY <1>4 DEF ParseConfig
  <2> QED
    BY <2>2, <2>3
<1> QED
  BY <1>1, <1>2, <1>3, <1>4
     DEF Next, Getting, vars, Publish, Toggle, CacheChanges, Tick, ReadCache, FetchConfig,
         WriteCache, Exit, Refresh, TakeRefresh

(* The inductive invariant: types, one profile per poll, and the two facts *)
(* about a registrar that starts (sdk_auto_registrar.go:49-101, 220-264).  *)
THEOREM Inductive == Spec => []IInv
<1>1. IInv /\ [Next]_vars => IInv'
  BY TypeStep, PollStep, StartStep DEF IInv
<1> QED
  BY InitIInv, <1>1, PTL DEF Spec

(* newAutoRegistrar never dereferences a missing profile: what runs has    *)
(* parsed one (sdk_auto_registrar.go:80).                                  *)
THEOREM StartsParsed == Spec => []StartsWithProfile
<1>1. IInv => StartsWithProfile
  BY DEF IInv
<1> QED
  BY <1>1, Inductive, PTL

(* A poll the service answered leaves the registrar with the version the   *)
(* service had, whatever the shared cache held (lines 238-249).            *)
THEOREM AnswerApplied == Spec => FetchedIsApplied
<1> DEFINE Applied == poll.at = "parse" /\ poll'.at = "idle" /\ poll.answer \in Versions \ Malformed
                        => etag' = poll.answer
<1>1. IInv /\ [Next]_vars => [Applied]_vars
  <2> SUFFICES ASSUME IInv, Next, poll.at = "parse", poll'.at = "idle",
                      poll.answer \in Versions \ Malformed
               PROVE etag' = poll.answer
    OBVIOUS
  <2>1. ParseConfig
    BY DEF Next, Getting, Publish, Toggle, CacheChanges, Restart, Unread, Tick, ReadCache,
           FetchConfig, WriteCache, Close, Exit, Refresh, TakeRefresh, IInv, TypeOK
  <2>2. poll.answer # Nothing /\ poll.etag = poll.answer
    BY Sentinels DEF IInv, PollInv
  <2>3. Usable /\ poll.body \notin Malformed
    BY <2>2, Sentinels DEF Usable, IInv, PollInv
  <2> QED
    BY <2>1, <2>2, <2>3 DEF ParseConfig
<1> QED
  BY <1>1, Inductive, PTL DEF Spec, FetchedIsApplied

(* A start fails only over an answer that does not parse, or without an    *)
(* answer and without a cached profile that parses (lines 224-248): a 304  *)
(* never makes it fail over anything but the profile it confirms.          *)
THEOREM StartFailure == Spec => StartFailsOnlyWithoutProfile
<1> DEFINE Unparseable == \/ poll.answer \in Malformed
                          \/ poll.answer = Nothing /\ poll.body \in Malformed \cup {Nothing}
           NoProfile == proxy = "starting" /\ proxy' = "failed" => Unparseable
<1>1. IInv /\ [Next]_vars => [NoProfile]_vars
  <2> SUFFICES ASSUME IInv, Next, proxy = "starting", proxy' = "failed"
               PROVE Unparseable
    OBVIOUS
  <2>1. ParseConfig
    BY DEF Next, Getting, Publish, Toggle, CacheChanges, Restart, Tick, ReadCache,
           FetchConfig, WriteCache, Close, Exit, Refresh, TakeRefresh
  <2>2. CASE ~Usable
    BY <2>2 DEF Usable
  <2>3. CASE Usable
    <3>1. poll.at = "parse" /\ etag = Initial /\ poll.etag \in Versions
      BY <2>1, <2>3, UsableEtag DEF ParseConfig, IInv, FreshInv
    <3>2. poll.body \in Malformed
      BY <2>1, <2>3, <3>1, Sentinels DEF ParseConfig
    <3>3. poll.answer # Nothing => poll.answer = poll.body
      BY <3>1, <3>2, Sentinels DEF IInv, PollInv
    <3> QED
      BY <3>2, <3>3
  <2> QED
    BY <2>2, <2>3
<1> QED
  BY <1>1, Inductive, PTL DEF Spec, StartFailsOnlyWithoutProfile
=============================================================================
