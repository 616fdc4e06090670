------------------------------- MODULE Status -------------------------------
(***************************************************************************)
(* diag/status/status.go: the reporter behind the status endpoint and the  *)
(* gRPC health check.  Every method holds the reporter's mutex, so each is *)
(* one action.  SDK clients report the outcome of their fetches, reads and *)
(* reloads from goroutines of their own, and the registrar builds a client *)
(* before it registers the SDK and removes the SDK while a fetch may still *)
(* be under way (sdk_auto_registrar.go:356-357, 373-382): a report may     *)
(* arrive before RegisterSdk and after RemoveSdk.                          *)
(*                                                                         *)
(* A record is TRUE for an error and FALSE for a success; its time and its *)
(* message are left out, and so is the obfuscated SDK key that UpdateSdk   *)
(* replaces.                                                               *)
(***************************************************************************)
EXTENDS Integers, Sequences, FiniteSets

CONSTANTS
  Ids,             \* SDK ids
  Cache,           \* the cache component
  MaxRecordCount,  \* records kept per component (5 in the code)
  MaxLastErrors    \* maxLastErrorsMeaningDegraded (2 in the code)

ASSUME StatusAssumption ==
  /\ Cache \notin Ids
  /\ MaxLastErrors \in Nat \ {0} /\ MaxRecordCount \in Nat /\ MaxLastErrors <= MaxRecordCount

VARIABLES
  cacheSet,     \* an external cache is configured
  records,      \* per component: its last outcomes, oldest first
  sdks,         \* per id: the status of its source, or "none" if unknown
  cacheStatus,
  overall,      \* status.Status
  \* history
  everOk,       \* an SDK reported a success since it was registered
  pending       \* SDKs registered since the last reCalcStatus

vars == <<cacheSet, records, sdks, cacheStatus, overall, everOk, pending>>

Components == Ids \cup {Cache}
Known == {id \in Ids : sdks[id] # "none"}

(* NewReporter *)
Init ==
  /\ cacheSet \in BOOLEAN
  /\ records = [c \in Components |-> <<>>]
  /\ sdks = [id \in Ids |-> "none"]
  /\ cacheStatus = "initializing"
  /\ overall = "initializing"
  /\ everOk = {} /\ pending = {}

-----------------------------------------------------------------------------
(* Plausible bugs *)

\* the window of the last outcomes is one too short
MutWindow(recs) == {i \in DOMAIN recs : i > Len(recs) - MaxLastErrors + 1}

\* an SDK that was healthy may go down
MutSourceStatus(id, stat) == IF stat = "degraded" THEN "down" ELSE stat

\* no SDK at all counts as healthy
MutReCalc(s) ==
  IF \A id \in Ids : s[id] \in {"none", "healthy"} THEN "healthy"
  ELSE IF \A id \in Ids : s[id] \in {"none", "down"} THEN "down" ELSE "degraded"

\* the oldest record is dropped one too late
MutAppended(recs, isError) ==
  LET all == Append(recs, isError)
  IN  IF Len(all) > MaxRecordCount + 1 THEN Tail(all) ELSE all

-----------------------------------------------------------------------------
(* checkStatus *)
Window(recs) == {i \in DOMAIN recs : i > Len(recs) - MaxLastErrors}
ErrorCount(recs) ==
  Cardinality({i \in Window(recs) : recs[i]}) - Cardinality({i \in Window(recs) : ~recs[i]})
CheckStatus(recs) ==
  LET needed == IF Len(recs) < MaxLastErrors THEN Len(recs) ELSE MaxLastErrors
  IN  IF ErrorCount(recs) > 0 /\ ErrorCount(recs) >= needed THEN "degraded" ELSE "healthy"

(* An SDK that has not worked yet, or is down, is down rather than degraded. *)
SourceStatus(id, stat) ==
  IF stat = "degraded" /\ sdks[id] \in {"initializing", "down"} THEN "down" ELSE stat

(* reCalcStatus, from the statuses of the known SDKs *)
ReCalc(s) ==
  LET known == {id \in Ids : s[id] # "none"}
      allSdksDown == \A id \in known : s[id] = "down"
      hasDegradedSdk == \E id \in known : s[id] # "healthy"
  IN  IF allSdksDown THEN "down"
      ELSE IF hasDegradedSdk THEN "degraded" ELSE "healthy"

(* The records after one more outcome *)
Appended(recs, isError) ==
  LET all == Append(recs, isError)
  IN  IF Len(all) > MaxRecordCount THEN Tail(all) ELSE all

-----------------------------------------------------------------------------
(* ReportOk and ReportError: appendRecord *)
Report(c, isError) ==
  /\ c = Cache => cacheSet
  /\ LET recs == Appended(records[c], isError)
         stat == CheckStatus(recs)
     IN  /\ records' = [records EXCEPT ![c] = recs]
         /\ \/ /\ c = Cache
               /\ cacheStatus' = stat
               /\ UNCHANGED <<sdks, overall, everOk, pending>>
            \/ /\ c \in Known
               /\ sdks' = [sdks EXCEPT ![c] = SourceStatus(c, stat)]
               /\ overall' = ReCalc(sdks')
               /\ everOk' = IF isError THEN everOk ELSE everOk \cup {c}
               /\ pending' = {}
               /\ UNCHANGED cacheStatus
            \/ /\ c \in Ids \ Known
               /\ UNCHANGED <<sdks, overall, cacheStatus, everOk, pending>>
  /\ UNCHANGED cacheSet

(* RegisterSdk.  A cache source without a cache is an error from the start. *)
RegisterSdk(id, source) ==
  /\ id \notin Known
  /\ everOk' = everOk \ {id}
  /\ cacheStatus' = IF source = "file" \/ ~cacheSet THEN "n/a" ELSE cacheStatus
  /\ IF source = "cache" /\ ~cacheSet
       THEN LET recs == Appended(records[id], TRUE)
                stat == CheckStatus(recs)
            IN  /\ records' = [records EXCEPT ![id] = recs]
                /\ sdks' = [sdks EXCEPT ![id] = IF stat = "degraded" THEN "down" ELSE stat]
                /\ overall' = ReCalc(sdks')
                /\ pending' = {}
       ELSE /\ sdks' = [sdks EXCEPT ![id] = "initializing"]
            /\ pending' = pending \cup {id}
            /\ UNCHANGED <<records, overall>>
  /\ UNCHANGED cacheSet

RemoveSdk(id) ==
  /\ id \in Known
  /\ sdks' = [sdks EXCEPT ![id] = "none"]
  /\ records' = [records EXCEPT ![id] = <<>>]
  /\ overall' = ReCalc(sdks')
  /\ everOk' = everOk \ {id}
  /\ pending' = {}
  /\ UNCHANGED <<cacheSet, cacheStatus>>

Next ==
  \/ \E c \in Components, isError \in BOOLEAN : Report(c, isError)
  \/ \E id \in Ids : RemoveSdk(id)
  \/ \E id \in Ids, source \in {"remote", "file", "cache"} : RegisterSdk(id, source)

Spec == Init /\ [][Next]_vars

-----------------------------------------------------------------------------
(* Properties *)

TypeOK ==
  /\ cacheSet \in BOOLEAN
  /\ records \in [Components -> Seq(BOOLEAN)]
  /\ \A c \in Components : Len(records[c]) <= MaxRecordCount
  /\ sdks \in [Ids -> {"none", "initializing", "healthy", "degraded", "down"}]
  /\ cacheStatus \in {"initializing", "healthy", "degraded", "n/a"}
  /\ overall \in {"initializing", "healthy", "degraded", "down"}
  /\ everOk \subseteq Ids /\ pending \subseteq Ids

(* An SDK is down only while it has never worked since it was registered;  *)
(* one that worked is at worst degraded (status.go:204-206), whatever was   *)
(* recorded for the id before it was registered.                           *)
DownHasNeverWorked == \A id \in Ids : sdks[id] = "down" => id \notin everOk

(* checkStatus counts successes against errors: a status that came from a  *)
(* report is healthy exactly if one of the last two outcomes, or the only  *)
(* one, was a success (status.go:212-230), also when the oldest of the     *)
(* records was just dropped.                                               *)
LastOutcomes(recs) == {recs[i] : i \in Window(recs)}
StatusMatchesRecords ==
  \A id \in Known : sdks[id] # "initializing" =>
    /\ records[id] # <<>>
    /\ sdks[id] = "healthy" <=> FALSE \in LastOutcomes(records[id])

(* The overall status sums up the SDKs: down if all of them are down (or   *)
(* there is none), degraded if some are not healthy, healthy otherwise.    *)
(* RegisterSdk does not recompute it: an SDK counts from the next report   *)
(* or removal of any SDK on (status.go:147,208).                           *)
OverallSumsUp ==
  LET counted == {sdks[id] : id \in Known \ pending}
  IN  overall # "initializing" =>
        /\ overall = "healthy" <=> counted = {"healthy"}
        /\ overall = "down" <=> counted \subseteq {"down"}
=============================================================================
