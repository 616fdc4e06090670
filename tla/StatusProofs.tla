---------------------------- MODULE StatusProofs ----------------------------
(***************************************************************************)
(* Proofs about Status for every set of SDKs, every number of records kept *)
(* and every length of the window of last outcomes.                        *)
(***************************************************************************)
EXTENDS Status, FiniteSetTheorems, TLAPS

(* An SDK that is initializing has not reported a success since it was     *)
(* registered, and an unknown one is not counted as working: what           *)
(* DownHasNeverWorked needs to be inductive.                                *)
StartsUnproven == \A id \in Ids : sdks[id] \in {"none", "initializing"} => id \notin everOk

IInv == TypeOK /\ StartsUnproven /\ DownHasNeverWorked /\ StatusMatchesRecords /\ OverallSumsUp

-----------------------------------------------------------------------------
(* checkStatus *)

(* The window holds as many outcomes as checkStatus asks errors for. *)
LEMMA WindowSize ==
  ASSUME NEW recs \in Seq(BOOLEAN)
  PROVE  /\ IsFiniteSet(Window(recs))
         /\ Cardinality(Window(recs)) =
              IF Len(recs) < MaxLastErrors THEN Len(recs) ELSE MaxLastErrors
<1>1. Len(recs) \in Nat /\ MaxLastErrors \in Nat \ {0} /\ DOMAIN recs = 1 .. Len(recs)
  BY StatusAssumption
<1>2. CASE Len(recs) < MaxLastErrors
  <2>1. Window(recs) = 1 .. Len(recs)
    BY <1>1, <1>2 DEF Window
  <2>2. /\ IsFiniteSet(1 .. Len(recs))
        /\ Cardinality(1 .. Len(recs)) = IF 1 > Len(recs) THEN 0 ELSE Len(recs) - 1 + 1
    BY SMTT(20), <1>1, FS_Interval
  <2> QED
    BY <1>1, <1>2, <2>1, <2>2
<1>3. CASE ~(Len(recs) < MaxLastErrors)
  <2> DEFINE a == Len(recs) - MaxLastErrors + 1
  <2>1. Window(recs) = a .. Len(recs) /\ a \in Int /\ a <= Len(recs)
    BY <1>1, <1>3 DEF Window
  <2>2. Len(recs) - a + 1 = MaxLastErrors
    BY <1>1
  <2> HIDE DEF a
  <2>3. /\ IsFiniteSet(a .. Len(recs))
        /\ Cardinality(a .. Len(recs)) = IF a > Len(recs) THEN 0 ELSE Len(recs) - a + 1
    BY <1>1, <2>1, FS_Interval
  <2> QED
    BY <1>1, <1>3, <2>1, <2>2, <2>3
<1> QED
  BY <1>2, <1>3

(* The count of checkStatus reaches its threshold exactly if there is no   *)
(* success in the window.                                                  *)
LEMMA DegradedMeansAllErrors ==
  ASSUME NEW recs \in Seq(BOOLEAN), recs # <<>>
  PROVE  CheckStatus(recs) = "degraded" <=> FALSE \notin LastOutcomes(recs)
<1> DEFINE W == Window(recs)
           E == {i \in W : recs[i]}
           O == {i \in W : ~recs[i]}
<1>1. IsFiniteSet(W) /\ W \subseteq DOMAIN recs
  BY WindowSize DEF Window
<1>2. IsFiniteSet(E) /\ IsFiniteSet(O)
  BY <1>1, FS_Subset
<1>3. W = E \cup O /\ E \cap O = {}
  BY <1>1
<1>4. Cardinality(W) = Cardinality(E) + Cardinality(O)
  <2>1. Cardinality(E \cup O) = Cardinality(E) + Cardinality(O) - Cardinality(E \cap O)
    BY <1>2, FS_Union
  <2>2. Cardinality(E) \in Nat /\ Cardinality(O) \in Nat /\ Cardinality({}) = 0
    BY <1>2, FS_CardinalityType, FS_EmptySet
  <2> HIDE DEF W, E, O
  <2>3. Cardinality(W) = Cardinality(E \cup O) /\ Cardinality(E \cap O) = 0
    BY <1>3, <2>2, Zenon
  <2> QED
    BY <2>1, <2>2, <2>3
<1>5. Cardinality(E) \in Nat /\ Cardinality(O) \in Nat
  BY <1>2, FS_CardinalityType
<1>6. Cardinality(O) = 0 <=> O = {}
  BY <1>2, FS_EmptySet
<1>7. O = {} <=> FALSE \notin LastOutcomes(recs)
  <2>1. \A i \in W : recs[i] \in BOOLEAN
    BY <1>1
  <2> QED
    BY <2>1 DEF LastOutcomes
<1>8. Len(recs) \in Nat \ {0}
  OBVIOUS
<1>9. Cardinality(W) = (IF Len(recs) < MaxLastErrors THEN Len(recs) ELSE MaxLastErrors)
  BY WindowSize
<1>10. Cardinality(W) > 0
  BY <1>8, <1>9, StatusAssumption
<1>11. CheckStatus(recs) = IF /\ Cardinality(E) - Cardinality(O) > 0
                             /\ Cardinality(E) - Cardinality(O) >= Cardinality(W)
                           THEN "degraded" ELSE "healthy"
  BY <1>9 DEF CheckStatus, ErrorCount
<1>12. ASSUME NEW e \in Nat, NEW o \in Nat, e + o > 0
       PROVE  (e - o > 0 /\ e - o >= e + o) <=> o = 0
  BY <1>12
<1> HIDE DEF W, E, O
<1>13. CheckStatus(recs) = "degraded" <=> Cardinality(O) = 0
  BY <1>4, <1>5, <1>10, <1>11, <1>12
<1> QED
  BY <1>6, <1>7, <1>13
-----------------------------------------------------------------------------
(* appendRecord *)

(* What one more outcome does to the records of a component. *)
LEMMA AppendedRecords ==
  ASSUME NEW recs \in Seq(BOOLEAN), Len(recs) <= MaxRecordCount, NEW isError \in BOOLEAN
  PROVE  /\ Appended(recs, isError) \in Seq(BOOLEAN)
         /\ Appended(recs, isError) # <<>>
         /\ Len(Appended(recs, isError)) <= MaxRecordCount
         /\ isError \in LastOutcomes(Appended(recs, isError))
<1> DEFINE all == Append(recs, isError)
           new == Appended(recs, isError)
<1>1. MaxRecordCount \in Nat \ {0} /\ MaxLastErrors \in Nat \ {0}
  BY StatusAssumption
<1>2. /\ all \in Seq(BOOLEAN) /\ Len(all) = Len(recs) + 1 /\ all[Len(all)] = isError
  OBVIOUS
<1>3. /\ new \in Seq(BOOLEAN) /\ Len(new) \in 1 .. MaxRecordCount
      /\ new[Len(new)] = isError
  <2>1. CASE Len(all) > MaxRecordCount
    <3>1. new = Tail(all)
      BY <2>1 DEF Appended
    <3> QED
      BY <1>1, <1>2, <2>1, <3>1
  <2>2. CASE ~(Len(all) > MaxRecordCount)
    <3>1. new = all
      BY <2>2 DEF Appended
    <3> QED
      BY <1>1, <1>2, <2>2, <3>1
  <2> QED
    BY <2>1, <2>2
<1> HIDE DEF new
<1>4. Len(new) \in Window(new)
  BY <1>1, <1>3 DEF Window
<1>5. isError \in LastOutcomes(new)
  BY <1>3, <1>4 DEF LastOutcomes
<1>6. new # <<>>
  BY <1>3
<1> QED
  BY <1>1, <1>3, <1>5, <1>6 DEF new

(* checkStatus has two outcomes. *)
LEMMA CheckStatusType == ASSUME NEW recs PROVE CheckStatus(recs) \in {"healthy", "degraded"}
  BY DEF CheckStatus

(* reCalcStatus sums up the SDKs it is given. *)
LEMMA ReCalcSumsUp ==
  ASSUME NEW s
  PROVE  LET counted == {s[id] : id \in {i \in Ids : s[i] # "none"}}
         IN  /\ ReCalc(s) \in {"healthy", "degraded", "down"}
             /\ ReCalc(s) = "healthy" <=> counted = {"healthy"}
             /\ ReCalc(s) = "down" <=> counted \subseteq {"down"}
  BY DEF ReCalc
-----------------------------------------------------------------------------
(* The invariant *)

LEMMA InitIInv == Init => IInv
<1> SUFFICES ASSUME Init PROVE IInv
  OBVIOUS
<1>1. records \in [Components -> Seq(BOOLEAN)] /\ \A c \in Components : Len(records[c]) = 0
  BY DEF Init
<1>2. TypeOK
  BY <1>1, StatusAssumption DEF Init, TypeOK
<1>3. StartsUnproven /\ DownHasNeverWorked /\ StatusMatchesRecords /\ OverallSumsUp
  BY DEF Init, StartsUnproven, DownHasNeverWorked, StatusMatchesRecords, OverallSumsUp, Known
<1> QED
  BY <1>2, <1>3 DEF IInv

(* A step that recomputes the overall status from the SDKs restores        *)
(* OverallSumsUp.                                                          *)
LEMMA Recomputed ==
  ASSUME pending' = {}, overall' = ReCalc(sdks')
  PROVE  OverallSumsUp'
<1>1. {sdks'[id] : id \in (Known \ pending)'} = {sdks'[id] : id \in {i \in Ids : sdks'[i] # "none"}}
  BY DEF Known
<1> QED
  BY <1>1, ReCalcSumsUp DEF OverallSumsUp

LEMMA ReportStep ==
  ASSUME IInv, NEW c \in Components, NEW isError \in BOOLEAN, Report(c, isError)
  PROVE  IInv'
<1> DEFINE recs == Appended(records[c], isError)
           stat == CheckStatus(recs)
<1>1. records[c] \in Seq(BOOLEAN) /\ Len(records[c]) <= MaxRecordCount
  BY DEF IInv, TypeOK
<1>2. /\ recs \in Seq(BOOLEAN) /\ recs # <<>> /\ Len(recs) <= MaxRecordCount
      /\ isError \in LastOutcomes(recs)
  BY <1>1, AppendedRecords
<1>3. stat \in {"healthy", "degraded"} /\ (stat = "degraded" <=> FALSE \notin LastOutcomes(recs))
  BY <1>2, CheckStatusType, DegradedMeansAllErrors
<1>4. /\ records' = [records EXCEPT ![c] = recs] /\ cacheSet' = cacheSet
      /\ \/ c = Cache /\ cacheStatus' = stat /\ UNCHANGED <<sdks, overall, everOk, pending>>
         \/ /\ c \in Known
            /\ sdks' = [sdks EXCEPT ![c] = SourceStatus(c, stat)]
            /\ overall' = ReCalc(sdks')
            /\ everOk' = IF isError THEN everOk ELSE everOk \cup {c}
            /\ pending' = {}
            /\ UNCHANGED cacheStatus
         \/ c \in Ids \ Known /\ UNCHANGED <<sdks, overall, cacheStatus, everOk, pending>>
  BY DEF Report
<1> HIDE DEF recs, stat
<1>5. records' \in [Components -> Seq(BOOLEAN)]
        /\ \A d \in Components : Len(records'[d]) <= MaxRecordCount
  BY <1>2, <1>4 DEF IInv, TypeOK
<1>6. CASE c = Cache \/ c \in Ids \ Known
  <2>1. UNCHANGED <<sdks, overall, everOk, pending>> /\ cacheStatus' \in {cacheStatus, stat}
    BY <1>4, <1>6, StatusAssumption DEF Known
  <2>2. TypeOK'
    BY <1>3, <1>4, <1>5, <2>1 DEF IInv, TypeOK
  <2>3. \A id \in Known : records'[id] = records[id]
    BY <1>4, <1>6, StatusAssumption DEF Known, IInv, TypeOK, Components
  <2>4. StatusMatchesRecords'
    BY <2>1, <2>3 DEF IInv, StatusMatchesRecords, Known
  <2>5. StartsUnproven' /\ DownHasNeverWorked' /\ OverallSumsUp'
    BY <2>1 DEF IInv, StartsUnproven, DownHasNeverWorked, OverallSumsUp, Known
  <2> QED
    BY <2>2, <2>4, <2>5 DEF IInv
<1>7. CASE c \in Known
  <2>1. /\ sdks' = [sdks EXCEPT ![c] = SourceStatus(c, stat)]
        /\ overall' = ReCalc(sdks') /\ pending' = {} /\ UNCHANGED cacheStatus
        /\ everOk' = IF isError THEN everOk ELSE everOk \cup {c}
        /\ c \in Ids
    BY <1>4, <1>7, StatusAssumption DEF Known
  <2>2. SourceStatus(c, stat) \in {"healthy", "degraded", "down"}
          /\ (SourceStatus(c, stat) = "healthy" <=> stat = "healthy")
    BY <1>3 DEF SourceStatus
  <2>3. TypeOK'
    BY <1>4, <1>5, <2>1, <2>2, ReCalcSumsUp DEF IInv, TypeOK
  <2>4. \A id \in Ids : sdks'[id] = IF id = c THEN SourceStatus(c, stat) ELSE sdks[id]
    BY <2>1 DEF IInv, TypeOK
  <2>5. \A id \in Ids : records'[id] = IF id = c THEN recs ELSE records[id]
    BY <1>4 DEF IInv, TypeOK, Components
  <2>6. StatusMatchesRecords'
    <3> SUFFICES ASSUME NEW id \in Ids, sdks'[id] # "none", sdks'[id] # "initializing"
                 PROVE  /\ records'[id] # <<>>
                        /\ sdks'[id] = "healthy" <=> FALSE \in LastOutcomes(records'[id])
      BY DEF StatusMatchesRecords, Known, LastOutcomes, Window
    <3>1. CASE id = c
      BY <1>2, <1>3, <2>2, <2>4, <2>5, <3>1
    <3>2. CASE id # c
      BY <2>4, <2>5, <3>2 DEF IInv, StatusMatchesRecords, Known
    <3> QED
      BY <3>1, <3>2
  <2>7. DownHasNeverWorked'
    <3> SUFFICES ASSUME NEW id \in Ids, sdks'[id] = "down" PROVE id \notin everOk'
      BY DEF DownHasNeverWorked
    <3>1. CASE id = c
      \* an outcome that leaves the SDK down is an error, and it was not working before
      <4>1. stat = "degraded" /\ sdks[c] \in {"initializing", "down"}
        BY <1>3, <2>4, <3>1 DEF SourceStatus
      <4>2. isError
        BY <1>2, <1>3, <4>1
      <4>3. c \notin everOk
        BY <4>1, <2>1 DEF IInv, DownHasNeverWorked, StartsUnproven
      <4> QED
        BY <2>1, <3>1, <4>2, <4>3
    <3>2. CASE id # c
      BY <2>1, <2>4, <3>2 DEF IInv, DownHasNeverWorked
    <3> QED
      BY <3>1, <3>2
  <2>8. OverallSumsUp'
    BY <2>1, Recomputed
  <2>9. StartsUnproven'
    BY <2>1, <2>2, <2>4 DEF IInv, StartsUnproven
  <2> QED
    BY <2>3, <2>6, <2>7, <2>8, <2>9 DEF IInv
<1> QED
  BY <1>6, <1>7 DEF Components
LEMMA RegisterStep ==
  ASSUME IInv, NEW id \in Ids, NEW source \in {"remote", "file", "cache"}, RegisterSdk(id, source)
  PROVE  IInv'
<1>1. /\ id \notin Known /\ sdks[id] = "none" /\ id \in Components
      /\ everOk' = everOk \ {id} /\ cacheSet' = cacheSet
      /\ cacheStatus' \in {cacheStatus, "n/a"}
  BY DEF RegisterSdk, Known, Components
<1>2. CASE source = "cache" /\ ~cacheSet
  <2> DEFINE recs == Appended(records[id], TRUE)
             stat == CheckStatus(recs)
             first == IF stat = "degraded" THEN "down" ELSE stat
  <2>1. /\ records' = [records EXCEPT ![id] = recs] /\ sdks' = [sdks EXCEPT ![id] = first]
        /\ overall' = ReCalc(sdks') /\ pending' = {}
    BY <1>2 DEF RegisterSdk
  <2>2. recs \in Seq(BOOLEAN) /\ recs # <<>> /\ Len(recs) <= MaxRecordCount
    BY <1>1, AppendedRecords DEF IInv, TypeOK
  <2>3. stat \in {"healthy", "degraded"} /\ (stat = "degraded" <=> FALSE \notin LastOutcomes(recs))
    BY <2>2, CheckStatusType, DegradedMeansAllErrors
  <2>4. first \in {"healthy", "down"} /\ (first = "healthy" <=> FALSE \in LastOutcomes(recs))
    BY <2>3
  <2> HIDE DEF recs, stat, first
  <2>5. \A i \in Ids : /\ sdks'[i] = IF i = id THEN first ELSE sdks[i]
                       /\ records'[i] = IF i = id THEN recs ELSE records[i]
    BY <2>1 DEF IInv, TypeOK, Components
  <2>6. TypeOK'
    <3>1. records' \in [Components -> Seq(BOOLEAN)]
            /\ \A d \in Components : Len(records'[d]) <= MaxRecordCount
      BY <2>1, <2>2 DEF IInv, TypeOK
    <3> QED
      BY <1>1, <2>1, <2>4, <3>1, ReCalcSumsUp DEF IInv, TypeOK
  <2>7. StatusMatchesRecords'
    <3> SUFFICES ASSUME NEW i \in Ids, sdks'[i] # "none", sdks'[i] # "initializing"
                 PROVE  /\ records'[i] # <<>>
                        /\ sdks'[i] = "healthy" <=> FALSE \in LastOutcomes(records'[i])
      BY DEF StatusMatchesRecords, Known, LastOutcomes, Window
    <3>1. CASE i = id
      BY <2>2, <2>4, <2>5, <3>1
    <3>2. CASE i # id
      BY <2>5, <3>2 DEF IInv, StatusMatchesRecords, Known
    <3> QED
      BY <3>1, <3>2
  <2>8. DownHasNeverWorked' /\ StartsUnproven'
    BY <1>1, <2>4, <2>5 DEF IInv, DownHasNeverWorked, StartsUnproven
  <2>9. OverallSumsUp'
    BY <2>1, Recomputed
  <2> QED
    BY <2>6, <2>7, <2>8, <2>9 DEF IInv
<1>3. CASE ~(source = "cache" /\ ~cacheSet)
  <2>1. /\ sdks' = [sdks EXCEPT ![id] = "initializing"] /\ pending' = pending \cup {id}
        /\ UNCHANGED <<records, overall>>
    BY <1>3 DEF RegisterSdk
  <2>2. \A i \in Ids : sdks'[i] = IF i = id THEN "initializing" ELSE sdks[i]
    BY <2>1 DEF IInv, TypeOK
  <2>3. TypeOK'
    BY <1>1, <2>1 DEF IInv, TypeOK
  <2>4. StatusMatchesRecords' /\ DownHasNeverWorked' /\ StartsUnproven'
    BY <1>1, <2>1, <2>2 DEF IInv, StatusMatchesRecords, DownHasNeverWorked, StartsUnproven, Known
  <2>5. OverallSumsUp'
    \* the new SDK is pending: the same SDKs count
    <3>1. (Known \ pending)' = Known \ pending /\ id \notin Known
      BY <1>1, <2>1, <2>2 DEF Known
    <3>2. {sdks'[i] : i \in (Known \ pending)'} = {sdks[i] : i \in Known \ pending}
      BY <2>2, <3>1 DEF Known
    <3> QED
      BY <2>1, <3>2 DEF IInv, OverallSumsUp
  <2> QED
    BY <2>3, <2>4, <2>5 DEF IInv
<1> QED
  BY <1>2, <1>3

LEMMA RemoveStep ==
  ASSUME IInv, NEW id \in Ids, RemoveSdk(id)
  PROVE  IInv'
<1>1. /\ sdks' = [sdks EXCEPT ![id] = "none"] /\ records' = [records EXCEPT ![id] = <<>>]
      /\ overall' = ReCalc(sdks') /\ everOk' = everOk \ {id} /\ pending' = {}
      /\ UNCHANGED <<cacheSet, cacheStatus>>
  BY DEF RemoveSdk
<1>2. \A i \in Ids : /\ sdks'[i] = IF i = id THEN "none" ELSE sdks[i]
                     /\ records'[i] = IF i = id THEN <<>> ELSE records[i]
  BY <1>1 DEF IInv, TypeOK, Components
<1>3. TypeOK'
  <2>1. records' \in [Components -> Seq(BOOLEAN)]
          /\ \A d \in Components : Len(records'[d]) <= MaxRecordCount
    <3> DEFINE none == <<>>
    <3>1. none \in Seq(BOOLEAN) /\ Len(none) <= MaxRecordCount
      BY StatusAssumption
    <3>2. records' = [records EXCEPT ![id] = none]
      BY <1>1
    <3> HIDE DEF none
    <3> QED
      BY <3>1, <3>2 DEF IInv, TypeOK
  <2> QED
    BY <1>1, <2>1, ReCalcSumsUp DEF IInv, TypeOK
<1>4. StatusMatchesRecords' /\ DownHasNeverWorked' /\ StartsUnproven'
  BY <1>1, <1>2 DEF IInv, StatusMatchesRecords, DownHasNeverWorked, StartsUnproven, Known
<1>5. OverallSumsUp'
  BY <1>1, Recomputed
<1> QED
  BY <1>3, <1>4, <1>5 DEF IInv

(* The strengthened invariant of the status reporter is inductive. *)
THEOREM Inductive == Spec => []IInv
<1>1. IInv /\ [Next]_vars => IInv'
  <2> SUFFICES ASSUME IInv, [Next]_vars PROVE IInv'
    OBVIOUS
  <2>1. CASE UNCHANGED vars
    BY <2>1 DEF vars, IInv, TypeOK, StartsUnproven, DownHasNeverWorked, StatusMatchesRecords,
                OverallSumsUp, Known
  <2> QED
    BY <2>1, ReportStep, RegisterStep, RemoveStep DEF Next
<1> QED
  BY <1>1, InitIInv, PTL DEF Spec

(* Types are kept, and no component has more than MaxRecordCount records   *)
(* (status.go:193-196).                                                    *)
THEOREM TypeCorrect == Spec => []TypeOK
  BY Inductive, PTL DEF IInv

(* An SDK that has worked since it was registered is never reported down.  *)
THEOREM DownOnlyUntilItWorks == Spec => []DownHasNeverWorked
  BY Inductive, PTL DEF IInv

(* The error counting of checkStatus amounts to "no success among the last *)
(* outcomes", for every window length, at every point of every history.    *)
THEOREM StatusIsExplained == Spec => []StatusMatchesRecords
  BY Inductive, PTL DEF IInv

(* The overall status is the summary of the SDKs that count.               *)
THEOREM OverallIsSummary == Spec => []OverallSumsUp
  BY Inductive, PTL DEF IInv
=============================================================================
