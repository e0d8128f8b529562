---------------------------- MODULE RecordProofs ----------------------------
(***************************************************************************)
(* What the Record controller promises about the values of an RRset, for   *)
(* any number of Records, RRsets and values, and any bounds.               *)
(*                                                                         *)
(* A Record whose data was never edited has one value to remember, which   *)
(* its spec names; there the argument is that the cache shows a Record in  *)
(* its present life or not at all (Copies), so it holds through failed     *)
(* passes, outages, drift and a lagging cache.  A Record whose data moved  *)
(* is remembered by status.appliedData, and by the pass while it is under  *)
(* way (Smooth), as long as no pass is cut short.                          *)
(***************************************************************************)
EXTENDS Record, ResourceProofs

DataTypes ==
  /\ server \in [RRSets -> [Data -> TTLs \cup {Absent}]] /\ reads \in [Data -> TTLs \cup {Absent}]
  /\ drifts \in 0 .. MaxDrifts /\ wrote \in [Objects -> SUBSET (RRSets \X Data)] /\ moved \subseteq Objects

Steps == {"idle", "finalizer", "reconcile", "apply", "add", "stale", "ready", "finalize", "drop"}
Typed == RInv /\ Counted /\ pc \in Steps /\ DataTypes

\* Datum d of the RRset spec s names.
Value(s, d) == <<s.rrset, d>>

-----------------------------------------------------------------------------
(* The server. *)

\* The specs are Record specs.
LEMMA SpecTypes ==
  ASSUME RInv PROVE loc.spec \in RecordSpec /\ \A r \in Objects : obj[r].spec \in RecordSpec
  BY RecordConstants DEF RInv, PassTypes, StoredTypes, ObjectType

\* The server with the TTL of a value set, or the value removed.
Put(k, d, t) == [server EXCEPT ![k][d] = t]

\* Nothing else changes on the server.
LEMMA PutFacts ==
  ASSUME DataTypes, NEW k \in RRSets, NEW d \in Data, NEW t \in TTLs \cup {Absent}
  PROVE  /\ Put(k, d, t) \in [RRSets -> [Data -> TTLs \cup {Absent}]]
         /\ Put(k, d, t)[k][d] = t
         /\ \A j \in RRSets, e \in Data : (j # k \/ e # d) => Put(k, d, t)[j][e] = server[j][e]
  <1>1. server[k] \in [Data -> TTLs \cup {Absent}]
    BY DEF DataTypes
  <1> DEFINE row == [server[k] EXCEPT ![d] = t]
             new == Put(k, d, t)
  <1>2. row \in [Data -> TTLs \cup {Absent}] /\ row[d] = t /\ \A e \in Data : e # d => row[e] = server[k][e]
    BY <1>1
  <1>3. new = [server EXCEPT ![k] = row]
    BY DEF Put
  <1> HIDE DEF row, new
  <1>4. new[k] = row /\ (\A j \in RRSets : j # k => new[j] = server[j])
    BY <1>3 DEF DataTypes
  <1>5. new \in [RRSets -> [Data -> TTLs \cup {Absent}]]
    BY <1>2, <1>3 DEF DataTypes
  <1>6. new[k][d] = t /\ \A j \in RRSets, e \in Data : (j # k \/ e # d) => new[j][e] = server[j][e]
    BY <1>2, <1>4
  <1> QED BY <1>5, <1>6 DEF new

\* The same, as a step.
LEMMA SetFacts ==
  ASSUME DataTypes, NEW k \in RRSets, NEW d \in Data, NEW t \in TTLs \cup {Absent}, server' = Put(k, d, t)
  PROVE  /\ server' \in [RRSets -> [Data -> TTLs \cup {Absent}]]
         /\ server'[k][d] = t
         /\ \A j \in RRSets, e \in Data : (j # k \/ e # d) => server'[j][e] = server[j][e]
  BY PutFacts

\* AddRecord leaves what is there, and adds a second value to no RRset of one.
LEMMA AddFacts ==
  ASSUME DataTypes, cur \in Objects, NEW s \in RecordSpec, AddRecord(s)
  PROVE  /\ server' \in [RRSets -> [Data -> TTLs \cup {Absent}]]
         /\ wrote' \in [Objects -> SUBSET (RRSets \X Data)]
         /\ server'[s.rrset][s.data] # Absent
         /\ \A j \in RRSets, e \in Data : server[j][e] # Absent => server'[j][e] # Absent
         /\ \A j \in RRSets, e \in Data : server'[j][e] # Absent =>
               \/ server[j][e] # Absent
               \/ j = s.rrset /\ e = s.data /\ (j \in Single => Present(server[j]) = {})
         /\ \A r \in Objects \ {cur} : wrote'[r] = wrote[r]
         /\ wrote'[cur] \subseteq wrote[cur] \cup {Value(s, s.data)}
  <1>0. s.rrset \in RRSets /\ s.data \in Data /\ s.ttl \in TTLs /\ s.ttl # Absent
    BY RecordConstants DEF RecordSpec, Absent
  <1>1. CASE server[s.rrset][s.data] # Absent
    BY <1>0, <1>1 DEF AddRecord, DataTypes
  <1>2. CASE server[s.rrset][s.data] = Absent
    <2>1. /\ s.rrset \in Single => Present(server[s.rrset]) = {}
          /\ server' = Put(s.rrset, s.data, s.ttl)
          /\ wrote' = [wrote EXCEPT ![cur] = wrote[cur] \cup {<<s.rrset, s.data>>}]
      BY <1>2 DEF AddRecord, Put
    <2>2. /\ server' \in [RRSets -> [Data -> TTLs \cup {Absent}]]
          /\ server'[s.rrset][s.data] = s.ttl
          /\ \A j \in RRSets, e \in Data : (j # s.rrset \/ e # s.data) => server'[j][e] = server[j][e]
      <3>1. server' = Put(s.rrset, s.data, s.ttl)
        BY <2>1
      <3>2. s.rrset \in RRSets /\ s.data \in Data /\ s.ttl \in TTLs \cup {Absent}
        BY <1>0
      <3> QED BY <3>1, <3>2, SetFacts
    <2>3. wrote' \in [Objects -> SUBSET (RRSets \X Data)]
      BY <1>0, <2>1 DEF DataTypes
    <2>4. wrote'[cur] = wrote[cur] \cup {<<s.rrset, s.data>>} /\ \A r \in Objects \ {cur} : wrote'[r] = wrote[r]
      BY <2>1 DEF DataTypes
    <2>5. server'[s.rrset][s.data] # Absent
      BY <1>0, <2>2
    <2>6. \A j \in RRSets, e \in Data : server[j][e] # Absent => server'[j][e] # Absent
      BY <1>2, <2>2
    <2>7. \A j \in RRSets, e \in Data : server'[j][e] # Absent =>
             \/ server[j][e] # Absent
             \/ j = s.rrset /\ e = s.data /\ (j \in Single => Present(server[j]) = {})
      BY <2>1, <2>2
    <2>8. wrote'[cur] \subseteq wrote[cur] \cup {Value(s, s.data)}
      BY <2>4 DEF Value
    <2> QED BY <2>2, <2>3, <2>4, <2>5, <2>6, <2>7, <2>8
  <1> QED BY <1>1, <1>2

\* DeleteRecord removes one value, and nobody has it on the server any more.
LEMMA DeleteFacts ==
  ASSUME DataTypes, NEW k \in RRSets, NEW d \in Data, DeleteRecord(k, d)
  PROVE  /\ server' \in [RRSets -> [Data -> TTLs \cup {Absent}]]
         /\ wrote' \in [Objects -> SUBSET (RRSets \X Data)]
         /\ server'[k][d] = Absent
         /\ \A j \in RRSets, e \in Data : (j # k \/ e # d) => server'[j][e] = server[j][e]
         /\ \A r \in Objects : wrote'[r] = wrote[r] \ {<<k, d>>}
  <1>1. wrote' = [r \in Objects |-> wrote[r] \ {<<k, d>>}] /\ server' = Put(k, d, Absent)
    BY DEF DeleteRecord, Put
  <1>2. wrote' \in [Objects -> SUBSET (RRSets \X Data)]
    BY <1>1 DEF DataTypes
  <1> QED BY <1>1, <1>2, SetFacts

\* Of what the Records wrote, it takes the deleted value, and adds nothing.
LEMMA DeleteTakes ==
  ASSUME DataTypes, NEW k \in RRSets, NEW d \in Data, DeleteRecord(k, d)
  PROVE  \A r \in Objects : wrote'[r] = wrote[r] \ {<<k, d>>} /\ wrote'[r] \subseteq wrote[r]
  <1>1. \A r \in Objects : wrote'[r] = wrote[r] \ {<<k, d>>}
    BY DeleteFacts, Zenon
  <1> QED BY <1>1, Zenon

\* No counter of outages or drifts is negative.
LEMMA CounterTypes == Typed => outages \in Nat /\ faults \in Nat /\ drifts \in Nat
  <1>1. Typed => outages \in 0 .. MaxOutages /\ faults \in 0 .. MaxFaults /\ drifts \in 0 .. MaxDrifts
    BY Zenon DEF Typed, Counted, DataTypes
  <1>2. \A n : \A i \in 0 .. n : i \in Nat
    OBVIOUS
  <1> QED BY <1>1, <1>2, Zenon

-----------------------------------------------------------------------------
(* Type correctness. *)

\* What a pass found is something the server can hold.
LEMMA FoundTypes ==
  ASSUME NEW records, NEW s \in RecordSpec PROVE findRecord(records, s) \subseteq Data
  BY DEF findRecord, Present, RecordSpec

\* The data that is deleted with a Record is a datum.
LEMMA AppliedTypes ==
  ASSUME RInv
  PROVE  /\ appliedSpec(loc).data \in Data
         /\ loc.applied = NotApplied => appliedSpec(loc).data = loc.spec.data
         /\ loc.applied # NotApplied => appliedSpec(loc).data = loc.applied
  <1>1. loc.spec \in RecordSpec /\ loc.applied \in Data \cup {NotApplied}
    BY SpecTypes, RecordConstants DEF RInv, PassTypes, ObjectType
  <1> QED BY <1>1 DEF appliedSpec, RecordSpec

\* The steps of the pass between "reconcile" and "ready", and of the finalizer,
\* leave the resources and the worker's copy alone.
OwnStep == GetRecords \/ apply \/ readd \/ deleteStaleRecord \/ finalizeRecord

\* They go on within the pass.
LEMMA OwnAdvance ==
  ASSUME OwnStep PROVE Advance /\ pc' \in Steps /\ UNCHANGED <<stored, cur, loc, current, cluster, limits, drifts, moved>>
  BY DEF OwnStep, GetRecords, apply, readd, deleteStaleRecord, finalizeRecord, Advance, Working, Finalizing, Steps

\* The types of the server, of what was read and of the history.
LEMMA DataStep == ASSUME Typed, Next PROVE DataTypes'
  <1>0. RInv /\ cur \in Objects /\ loc.spec \in RecordSpec /\ DataTypes /\ loc.spec.rrset \in RRSets
        /\ loc.spec.data \in Data /\ loc.spec.ttl \in TTLs
    BY SpecTypes DEF Typed, RInv, PassTypes, RecordSpec
  <1>1. NoRecords \in [Data -> TTLs \cup {Absent}] /\ NoServer \in [RRSets -> [Data -> TTLs \cup {Absent}]]
    BY DEF NoRecords, NoServer
  <1>2. CASE Shared
    BY <1>0, <1>1, <1>2 DEF Shared, DataTypes
  <1>3. CASE GetRecords
    BY <1>0, <1>3 DEF GetRecords, DataTypes
  <1>4. CASE apply
    <2>1. UNCHANGED <<reads, drifts, moved>>
      BY <1>4 DEF apply
    <2>2. CASE AddRecord(loc.spec)
      BY <1>0, <2>1, <2>2, AddFacts DEF DataTypes
    <2>3. CASE \E d \in findRecord(reads, loc.spec) \ {loc.spec.data} : DeleteRecord(loc.spec.rrset, d)
      BY <1>0, <2>1, <2>3, DeleteFacts, FoundTypes DEF DataTypes
    <2>4. CASE server' = Put(loc.spec.rrset, loc.spec.data, loc.spec.ttl) /\ UNCHANGED wrote
      BY <1>0, <2>1, <2>4, SetFacts DEF DataTypes
    <2>5. CASE UNCHANGED <<server, wrote>>
      BY <1>0, <2>1, <2>5 DEF DataTypes
    <2> QED BY <1>4, <2>2, <2>3, <2>4, <2>5 DEF apply, Put
  <1>5. CASE readd
    BY <1>0, <1>5, AddFacts DEF readd, DataTypes
  <1>6. CASE deleteStaleRecord
    <2>1. Stale => loc.applied \in Data
      BY FoundTypes, <1>0, AppliedTypes DEF Stale, findRecord, Present
    <2>2. UNCHANGED <<reads, drifts, moved>>
      BY <1>6 DEF deleteStaleRecord
    <2>3. CASE Stale
      BY <1>0, <1>6, <2>1, <2>2, <2>3, DeleteFacts DEF deleteStaleRecord, DataTypes
    <2>4. CASE ~Stale
      BY <1>0, <1>6, <2>2, <2>4 DEF deleteStaleRecord, DataTypes
    <2> QED BY <2>3, <2>4
  <1>7. CASE finalizeRecord
    <2>1. UNCHANGED <<reads, drifts, moved>>
      BY <1>7 DEF finalizeRecord
    <2>2. CASE wrote' = [wrote EXCEPT ![cur] = {}] /\ UNCHANGED server
      BY <1>0, <2>1, <2>2 DEF DataTypes
    <2>3. CASE DeleteRecord(loc.spec.rrset, appliedSpec(loc).data)
      BY <1>0, <2>1, <2>3, DeleteFacts, AppliedTypes DEF DataTypes
    <2> QED BY <1>7, <2>2, <2>3 DEF finalizeRecord
  <1>8. CASE Refused \/ markRecordReady
    BY <1>0, <1>1, <1>8 DEF Refused, markRecordReady, DataTypes
  <1>9. ASSUME NEW r \in Objects, NEW s \in Specs, EditRecord(r, s) PROVE DataTypes'
    BY <1>0, <1>9 DEF EditRecord, DataTypes
  <1>10. CASE ClusterGone
    <2>1. wrote' \in [Objects -> SUBSET (RRSets \X Data)]
      BY <1>10 DEF ClusterGone
    <2> QED BY <1>0, <1>1, <1>10, <2>1 DEF ClusterGone, DataTypes
  <1>11. CASE Drift
    <2>1. UNCHANGED <<reads, moved>> /\ drifts' \in 0 .. MaxDrifts
      BY <1>0, <1>11, RecordConstants DEF Drift, DataTypes
    <2>2. PICK k \in RRSets, d \in Data :
             \/ DeleteRecord(k, d)
             \/ \E t \in TTLs : server' = Put(k, d, t) /\ UNCHANGED wrote
      BY <1>11 DEF Drift, Put
    <2>3. CASE DeleteRecord(k, d)
      BY <1>0, <2>1, <2>3, DeleteFacts DEF DataTypes
    <2>4. CASE \E t \in TTLs : server' = Put(k, d, t) /\ UNCHANGED wrote
      BY <1>0, <2>1, <2>4, SetFacts DEF DataTypes
    <2> QED BY <2>2, <2>3, <2>4
  <1> QED BY <1>2, <1>3, <1>4, <1>5, <1>6, <1>7, <1>8, <1>9, <1>10, <1>11 DEF Next, Operator, World

\* Every step keeps the types, and the counters within their bounds.
LEMMA TypeStep == ASSUME Typed, Next PROVE Typed'
  <1>0. RInv /\ Counted /\ pc \in Steps /\ SharedPc \subseteq Steps /\ DataTypes'
    BY DataStep DEF Typed, SharedPc, Steps
  <1>1. ASSUME WorkerStep(Calls) \/ UserStep \/ ClusterStep PROVE Typed'
    BY <1>0, <1>1, LifeTypes DEF Typed
  <1>2. CASE OwnStep
    BY <1>0, <1>2, OwnAdvance, AdvanceStep, CountedAdvance DEF Typed
  <1>3. CASE Refused
    <2>1. Fails /\ UNCHANGED <<cluster, edits, outages, faults>> /\ pc' \in Steps
      BY <1>3 DEF Refused, Fails, limits, EndPass, Steps
    <2> QED BY <1>0, <2>1, FailsStep, CountedFails DEF Typed, Counted
  <1>4. CASE markRecordReady
    <2>1. markReady(loc.spec.data) /\ pc' \in Steps
      BY <1>4 DEF markRecordReady, markReady, EndPass, Steps
    <2>2. loc.spec.data \in Applied
      BY <1>0, SpecTypes, RecordConstants DEF RecordSpec
    <2> QED BY <1>0, <2>1, <2>2, MarkReadyStep, CountedReady DEF Typed
  <1>5. ASSUME NEW r \in Objects, NEW s \in Specs, (Create(r, s) /\ Shared) \/ EditRecord(r, s) PROVE Typed'
    BY <1>1, <1>5 DEF UserStep, EditRecord
  <1>6. CASE ClusterGone
    <2>1. UNCHANGED <<stored, worker, edits, faults>> /\ cluster' = "gone" /\ outages' \in 0 .. MaxOutages
      BY <1>0, <1>6, ResourceConstants DEF ClusterGone, Outage, Counted
    <2>2. UNCHANGED <<pc, loc>>
      BY <2>1 DEF worker
    <2> QED BY <1>0, <2>1, <2>2, IdleStep, CountedSame DEF Typed, Counted, Young
  <1>7. CASE Drift
    <2>1. UNCHANGED <<stored, worker, loc, pc, cluster, limits>>
      BY <1>7 DEF Drift, resource, worker
    <2> QED BY <1>0, <2>1, IdleStep, CountedAdvance DEF Typed
  <1> QED BY <1>1, <1>2, <1>3, <1>4, <1>5, <1>6, <1>7 DEF Next, Operator, World, OwnStep

\* Stuttering.
LEMMA TypeStutter == ASSUME Typed, UNCHANGED vars PROVE Typed'
  <1>1. UNCHANGED <<stored, worker, loc, pc, cluster, limits, server, reads, drifts, wrote, moved>>
    BY DEF vars, resource, worker
  <1>2. RInv' /\ Counted'
    BY <1>1, IdleStep, CountedAdvance DEF Typed
  <1> QED BY <1>1, <1>2 DEF Typed, DataTypes

\* Initially the server is empty.
LEMMA TypeInit == Init => Typed
  <1>1. Init => DataTypes
    BY RecordConstants DEF Init, DataTypes, NoServer, NoRecords
  <1> QED BY <1>1, RInvInit, CountedInit DEF Init, Typed, ResourceInit, Steps

\* Type correctness of the Record controller: whatever reconcileRecord,
\* finalizeRecord, users, drift and outages do, every RRset maps its values to
\* TTLs, and every counter stays within its bound.
THEOREM RecordTypes == Spec => []TypeOK
  <1>1. Typed /\ [Next]_vars => Typed'
    BY TypeStep, TypeStutter
  <1>2. Typed => TypeOK
    BY CountedTypes DEF Typed, DataTypes, TypeOK, Steps
  <1> QED BY TypeInit, <1>1, <1>2, PTL DEF Spec

-----------------------------------------------------------------------------
(* The action properties. *)

\* What the steps of a pass remove from an RRset of several values, and that the
\* others take nothing away while the server is there and nobody else deletes.
LEMMA Removals ==
  ASSUME Typed, Next, pc # "idle", drifts' = drifts, cluster' = cluster,
         NEW k \in RRSets \ Single, NEW d \in Data, server[k][d] # Absent, server'[k][d] = Absent
  PROVE  \/ pc = "stale" /\ Stale /\ ServerUp /\ k = loc.spec.rrset /\ d = loc.applied
         \/ pc = "finalize" /\ d \in {loc.spec.data, loc.applied}
  <1>0. /\ RInv /\ cur \in Objects /\ loc.spec \in RecordSpec /\ DataTypes
        /\ loc.spec.rrset \in RRSets /\ loc.spec.data \in Data /\ loc.spec.ttl \in TTLs
    BY SpecTypes DEF Typed, RInv, PassTypes, RecordSpec
  <1>1. server' # server
    OBVIOUS
  <1>2. CASE GetRecords \/ Refused \/ markRecordReady \/ Shared
    BY <1>1, <1>2 DEF GetRecords, Refused, markRecordReady, Shared
  <1>3. ASSUME AddRecord(loc.spec) PROVE FALSE
    BY <1>0, <1>3, AddFacts
  <1>4. CASE apply
    <2>1. CASE \E e \in findRecord(reads, loc.spec) \ {loc.spec.data} : DeleteRecord(loc.spec.rrset, e)
      <3>1. PICK e \in findRecord(reads, loc.spec) \ {loc.spec.data} : DeleteRecord(loc.spec.rrset, e)
        BY <2>1
      <3>2. loc.spec.rrset \in Single /\ e \in Data
        BY <1>0, <3>1, FoundTypes DEF findRecord
      <3> QED BY <1>0, <3>1, <3>2, DeleteFacts
    <2>2. CASE server' = Put(loc.spec.rrset, loc.spec.data, loc.spec.ttl)
      <3>1. loc.spec.ttl # Absent
        BY <1>0, RecordConstants DEF Absent
      <3> QED BY <1>0, <2>2, <3>1, SetFacts
    <2> QED BY <1>1, <1>3, <1>4, <2>1, <2>2 DEF apply, Put
  <1>5. CASE readd
    BY <1>3, <1>5 DEF readd
  <1>6. CASE deleteStaleRecord
    <2>1. Stale /\ pc = "stale" /\ ServerUp /\ DeleteRecord(loc.spec.rrset, loc.applied)
      BY <1>1, <1>6 DEF deleteStaleRecord, Calls
    <2>2. loc.applied \in Data
      BY <1>0, <2>1 DEF Stale, findRecord, Present
    <2>3. \A j \in RRSets, e \in Data : (j # loc.spec.rrset \/ e # loc.applied) => server'[j][e] = server[j][e]
      BY <1>0, <2>1, <2>2, DeleteFacts
    <2> QED BY <2>1, <2>3
  <1>7. CASE finalizeRecord
    <2>1. pc = "finalize" /\ DeleteRecord(loc.spec.rrset, appliedSpec(loc).data)
      BY <1>1, <1>7 DEF finalizeRecord
    <2>2. appliedSpec(loc).data \in Data /\ appliedSpec(loc).data \in {loc.spec.data, loc.applied}
      BY <1>0, AppliedTypes
    <2>3. \A j \in RRSets, e \in Data : (j # loc.spec.rrset \/ e # appliedSpec(loc).data) => server'[j][e] = server[j][e]
      BY <1>0, <2>1, <2>2, DeleteFacts
    <2> QED BY <2>1, <2>2, <2>3
  <1>8. ASSUME NEW r \in Objects, NEW s \in Specs, EditRecord(r, s) PROVE FALSE
    BY <1>1, <1>8 DEF EditRecord
  <1>9. CASE ClusterGone
    BY <1>9 DEF ClusterGone, Outage
  <1>10. CASE Drift
    BY <1>0, <1>10 DEF Drift, DataTypes
  <1> QED BY <1>2, <1>4, <1>5, <1>6, <1>7, <1>8, <1>9, <1>10 DEF Next, Operator, World

\* A pass on one Record leaves the values of the others alone: it removes from an
\* RRset of several values only what its own spec or status names (findRecord
\* matches on the data, deleteStaleRecord and finalizeRecord on appliedData).
THEOREM OnlyItsOwn == Spec => RemovesOnlyItsOwn
  <1>1. Typed /\ [Next]_vars => Typed'
    BY TypeStep, TypeStutter
  <1>2. ASSUME Typed, [Next]_vars
        PROVE  [(pc \notin {"idle"} /\ drifts' = drifts /\ cluster' = cluster) =>
                  \A k \in RRSets \ Single :
                     Present(server[k]) \ Present(server'[k]) \subseteq {loc.spec.data, loc.applied}]_vars
    <2>1. CASE UNCHANGED vars
      BY <2>1
    <2>2. CASE Next
      BY <1>2, <2>2, Removals DEF Present
    <2> QED BY <1>2, <2>1, <2>2
  <1> QED BY TypeInit, <1>1, <1>2, PTL DEF Spec, RemovesOnlyItsOwn

-----------------------------------------------------------------------------
(* What a pass has read, while nobody else writes to the server. *)

Reads ==
  (drifts = 0 /\ cluster # "gone") =>
     /\ pc = "apply" => reads = server[loc.spec.rrset]
     /\ pc = "stale" => server[loc.spec.rrset][loc.spec.data] # Absent

\* Once it has been applied, the desired value is there.
LEMMA ReadsStep == ASSUME Typed, Reads, Next PROVE Reads'
  <1>0. /\ RInv /\ cur \in Objects /\ loc.spec \in RecordSpec /\ DataTypes
        /\ loc.spec.rrset \in RRSets /\ loc.spec.data \in Data /\ loc.spec.ttl \in TTLs
    BY SpecTypes DEF Typed, RInv, PassTypes, RecordSpec
  <1>1. ASSUME pc' \notin {"apply", "stale"} PROVE Reads'
    BY <1>1 DEF Reads
  <1>2. CASE WorkerStep(Calls)
    BY <1>1, <1>2, WorkerMoves DEF SharedPc
  <1>3. CASE GetRecords
    BY <1>3 DEF GetRecords, Reads
  <1>4. CASE apply
    <2>1. UNCHANGED <<loc, cluster, drifts, reads>>
      BY <1>4 DEF apply
    <2>2. SUFFICES ASSUME drifts = 0, cluster # "gone", pc' = "stale"
                   PROVE  server'[loc.spec.rrset][loc.spec.data] # Absent
      BY <1>4, <2>1 DEF Reads, apply
    <2>3. CASE AddRecord(loc.spec)
      BY <1>0, <2>3, AddFacts
    <2>4. CASE server' = Put(loc.spec.rrset, loc.spec.data, loc.spec.ttl)
      <3>1. loc.spec.ttl # Absent
        BY <1>0, RecordConstants DEF Absent
      <3> QED BY <1>0, <2>4, <3>1, SetFacts
    <2>5. CASE InSync /\ UNCHANGED server
      <3>1. reads = server[loc.spec.rrset] /\ loc.spec.ttl # Absent
        BY <1>0, <1>4, <2>2, RecordConstants DEF Reads, apply, Absent
      <3> QED BY <2>5, <3>1 DEF InSync
    <2> QED BY <1>4, <2>2, <2>3, <2>4, <2>5 DEF apply, Put
  <1>5. CASE readd \/ deleteStaleRecord \/ finalizeRecord
    BY <1>1, <1>5 DEF readd, deleteStaleRecord, finalizeRecord
  <1>6. CASE Refused \/ markRecordReady
    BY <1>1, <1>6 DEF Refused, markRecordReady, markReady, EndPass
  <1>7. ASSUME UserStep \/ ClusterStep, UNCHANGED <<server, drifts>>, pc' = "idle" \/ UNCHANGED reads,
               cluster' = "gone" <=> cluster = "gone"
        PROVE  Reads'
    BY <1>7, WorldStays DEF Reads
  <1>8. CASE \E r \in Objects, s \in Specs : (Create(r, s) /\ Shared) \/ EditRecord(r, s)
    <2>1. UserStep /\ UNCHANGED <<server, drifts, cluster>> /\ (pc' = "idle" \/ UNCHANGED reads)
      BY <1>8 DEF UserStep, EditRecord, Shared, Create, Edit, Edited
    <2> QED BY <1>7, <2>1
  <1>9. CASE ClusterStep /\ Shared
    <2>1. UNCHANGED <<server, drifts>> /\ (pc' = "idle" \/ UNCHANGED reads)
      BY <1>9 DEF Shared
    <2>2. cluster' = "gone" <=> cluster = "gone"
      BY <1>9 DEF ClusterStep, Delete, CacheSync, Edited, Outage, Recover
    <2> QED BY <1>7, <1>9, <2>1, <2>2
  <1>10. CASE ClusterGone
    BY <1>10 DEF ClusterGone, Outage, Reads
  <1>11. CASE Drift
    <2>1. drifts' # 0
      BY <1>0, <1>11 DEF Drift, DataTypes
    <2> QED BY <2>1 DEF Reads
  <1> QED BY <1>2, <1>3, <1>4, <1>5, <1>6, <1>8, <1>9, <1>10, <1>11 DEF Next, Operator, World

\* Typed and Reads together are an invariant.
LEMMA ReadsInvariant ==
  /\ Init => Typed /\ Reads
  /\ Typed /\ Reads /\ [Next]_vars => Typed' /\ Reads'
  <1>1. Init => Typed /\ Reads
    BY TypeInit DEF Init, ResourceInit, Reads
  <1>2. ASSUME Typed, Reads, UNCHANGED vars PROVE Typed' /\ Reads'
    <2>1. UNCHANGED <<pc, loc, cluster, drifts, reads, server>>
      BY <1>2 DEF vars, resource, worker
    <2> QED BY <1>2, <2>1, TypeStutter DEF Reads
  <1> QED BY <1>1, <1>2, TypeStep, ReadsStep

\* Nobody takes a drift back.
LEMMA DriftsCount == ASSUME Typed, Next, drifts' = 0 PROVE drifts = 0 /\ drifts' = drifts
  <1>1. CASE Drift
    BY <1>1 DEF Drift, Typed, DataTypes
  <1>2. CASE Shared \/ OwnStep
    BY <1>2, OwnAdvance DEF Shared
  <1>3. CASE Refused \/ markRecordReady \/ ClusterGone \/ \E r \in Objects, s \in Specs : EditRecord(r, s)
    BY <1>3 DEF Refused, markRecordReady, ClusterGone, EditRecord
  <1> QED BY <1>1, <1>2, <1>3 DEF Next, Operator, World, OwnStep

\* While a pass moves a Record to new data, the name resolves throughout: the old
\* value of an RRset of several goes only when the new one is there, in any
\* interleaving with edits, outages and failed passes (reconcileRecord applies the
\* desired value, then calls deleteStaleRecord).
THEOREM KeepsResolving == Spec => NameKeepsResolving
  <1>1. ASSUME Typed, Reads, [Next]_vars
        PROVE  [(pc \notin {"idle", "finalize"} /\ drifts' = 0 /\ cluster' = cluster) =>
                  \A k \in RRSets \ Single : Present(server[k]) # {} => Present(server'[k]) # {}]_vars
    <2>1. CASE UNCHANGED vars
      BY <2>1
    <2>2. CASE Next
      <3> SUFFICES ASSUME pc \notin {"idle", "finalize"}, drifts' = 0, cluster' = cluster,
                          NEW k \in RRSets \ Single, NEW d \in Present(server[k])
                   PROVE  Present(server'[k]) # {}
        OBVIOUS
      <3>1. d \in Data /\ server[k][d] # Absent
        BY DEF Present
      <3>2. drifts = 0 /\ drifts' = drifts
        BY <1>1, <2>2, DriftsCount
      <3>3. CASE server'[k][d] # Absent
        BY <3>1, <3>3 DEF Present
      <3>4. CASE server'[k][d] = Absent
        <4>1. pc = "stale" /\ Stale /\ ServerUp /\ k = loc.spec.rrset /\ d = loc.applied
          BY <1>1, <2>2, <3>1, <3>2, <3>4, Removals
        <4>2. loc.spec.data \in Data /\ loc.spec.data # d
          BY <1>1, <4>1, SpecTypes DEF Typed, RecordSpec, Stale
        <4>3. server[k][loc.spec.data] # Absent
          BY <1>1, <3>2, <4>1 DEF Reads, ServerUp
        <4>4. CASE server'[k][loc.spec.data] # Absent
          BY <4>2, <4>4 DEF Present
        <4>5. CASE server'[k][loc.spec.data] = Absent
          <5>1. loc.spec.data = loc.applied
            BY <1>1, <2>2, <3>2, <4>1, <4>2, <4>3, <4>5, Removals
          <5> QED BY <4>1, <4>2, <5>1
        <4> QED BY <4>4, <4>5
      <3> QED BY <3>3, <3>4
    <2> QED BY <1>1, <2>1, <2>2
  <1> QED BY ReadsInvariant, <1>1, PTL DEF Spec, NameKeepsResolving

-----------------------------------------------------------------------------
(* What a Record put on the server is there, and alone in an RRset of one. *)

ServerInv ==
  /\ \A r \in Objects : \A v \in wrote[r] : server[v[1]][v[2]] # Absent
  /\ \A k \in Single : \A d, e \in Data : server[k][d] # Absent /\ server[k][e] # Absent => d = e

\* The server's answer to AddRecord.
LEMMA KeptAdd ==
  ASSUME DataTypes, ServerInv, cur \in Objects, NEW s \in RecordSpec, AddRecord(s) PROVE ServerInv'
  <1>1. /\ server'[s.rrset][s.data] # Absent
        /\ \A j \in RRSets, e \in Data : server[j][e] # Absent => server'[j][e] # Absent
        /\ \A j \in RRSets, e \in Data : server'[j][e] # Absent =>
              \/ server[j][e] # Absent
              \/ j = s.rrset /\ e = s.data /\ (j \in Single => Present(server[j]) = {})
        /\ \A r \in Objects \ {cur} : wrote'[r] = wrote[r]
        /\ wrote'[cur] \subseteq wrote[cur] \cup {Value(s, s.data)}
    BY AddFacts
  <1>2. ASSUME NEW r \in Objects, NEW v \in wrote'[r] PROVE server'[v[1]][v[2]] # Absent
    <2>1. CASE v \in wrote[r]
      <3>1. v[1] \in RRSets /\ v[2] \in Data /\ server[v[1]][v[2]] # Absent
        BY <2>1 DEF DataTypes, ServerInv
      <3> QED BY <1>1, <3>1
    <2>2. CASE v \notin wrote[r]
      <3>1. v = <<s.rrset, s.data>>
        BY <1>1, <1>2, <2>2 DEF Value
      <3> QED BY <1>1, <3>1
    <2> QED BY <2>1, <2>2
  <1>3. ASSUME NEW k \in Single, NEW d \in Data, NEW e \in Data, server'[k][d] # Absent, server'[k][e] # Absent
        PROVE  d = e
    BY <1>1, <1>3, RecordConstants DEF ServerInv, Present
  <1> QED BY <1>2, <1>3 DEF ServerInv

\* DeleteRecord takes the value from whoever wrote it.
LEMMA KeptDelete ==
  ASSUME DataTypes, ServerInv, NEW k \in RRSets, NEW d \in Data, DeleteRecord(k, d) PROVE ServerInv'
  <1>1. /\ server'[k][d] = Absent
        /\ \A j \in RRSets, e \in Data : (j # k \/ e # d) => server'[j][e] = server[j][e]
        /\ \A r \in Objects : wrote'[r] = wrote[r] \ {<<k, d>>}
    BY DeleteFacts
  <1>2. ASSUME NEW r \in Objects, NEW v \in wrote'[r] PROVE server'[v[1]][v[2]] # Absent
    <2>1. v \in RRSets \X Data /\ v # <<k, d>> /\ server[v[1]][v[2]] # Absent
      BY <1>1, <1>2 DEF DataTypes, ServerInv
    <2>2. v[1] \in RRSets /\ v[2] \in Data /\ (v[1] # k \/ v[2] # d)
      BY <2>1
    <2> QED BY <1>1, <2>1, <2>2
  <1>3. ASSUME NEW j \in Single, NEW e \in Data, NEW f \in Data, server'[j][e] # Absent, server'[j][f] # Absent
        PROVE  e = f
    <2>1. j \in RRSets
      BY RecordConstants
    <2>2. e = f \/ (server[j][e] # Absent /\ server[j][f] # Absent)
      BY <1>1, <1>3, <2>1, Zenon
    <2> QED BY <1>3, <2>2, Zenon DEF ServerInv
  <1> QED BY <1>2, <1>3 DEF ServerInv

\* A TTL that is set, on a value that is there or may be.
LEMMA KeptPut ==
  ASSUME DataTypes, ServerInv, NEW k \in RRSets, NEW d \in Data, NEW t \in TTLs, server' = Put(k, d, t),
         wrote' = wrote, server[k][d] # Absent \/ (k \in Single => Present(server[k]) = {})
  PROVE  ServerInv'
  <1>1. /\ server'[k][d] = t /\ t # Absent
        /\ \A j \in RRSets, e \in Data : (j # k \/ e # d) => server'[j][e] = server[j][e]
    BY SetFacts, RecordConstants DEF Absent
  <1>2. ASSUME NEW r \in Objects, NEW v \in wrote'[r] PROVE server'[v[1]][v[2]] # Absent
    <2>1. v[1] \in RRSets /\ v[2] \in Data /\ server[v[1]][v[2]] # Absent
      BY <1>2 DEF DataTypes, ServerInv
    <2> QED BY <1>1, <2>1
  <1>3. ASSUME NEW j \in Single, NEW e \in Data, NEW f \in Data, server'[j][e] # Absent, server'[j][f] # Absent
        PROVE  e = f
    BY <1>1, <1>3, RecordConstants DEF ServerInv, Present
  <1> QED BY <1>2, <1>3 DEF ServerInv

\* Every step.
LEMMA ServerStep == ASSUME Typed, ServerInv, Next PROVE ServerInv'
  <1>0. /\ RInv /\ cur \in Objects /\ loc.spec \in RecordSpec /\ DataTypes
        /\ loc.spec.rrset \in RRSets /\ loc.spec.data \in Data /\ loc.spec.ttl \in TTLs
    BY SpecTypes DEF Typed, RInv, PassTypes, RecordSpec
  <1>1. ASSUME UNCHANGED <<server, wrote>> PROVE ServerInv'
    BY <1>1 DEF ServerInv
  <1>2. CASE Shared \/ GetRecords \/ Refused \/ markRecordReady
    BY <1>1, <1>2 DEF Shared, GetRecords, Refused, markRecordReady
  <1>3. CASE apply
    <2>1. CASE AddRecord(loc.spec)
      BY <1>0, <2>1, KeptAdd
    <2>2. CASE \E d \in findRecord(reads, loc.spec) \ {loc.spec.data} : DeleteRecord(loc.spec.rrset, d)
      BY <1>0, <2>2, FoundTypes, KeptDelete
    <2>3. CASE /\ server[loc.spec.rrset][loc.spec.data] # Absent /\ UNCHANGED wrote
               /\ server' = Put(loc.spec.rrset, loc.spec.data, loc.spec.ttl)
      BY <1>0, <2>3, KeptPut
    <2> QED BY <1>1, <1>3, <2>1, <2>2, <2>3 DEF apply, Put
  <1>4. CASE readd
    BY <1>0, <1>4, KeptAdd DEF readd
  <1>5. CASE deleteStaleRecord
    <2>1. Stale => loc.applied \in Data
      BY <1>0 DEF Stale, findRecord, Present
    <2> QED BY <1>0, <1>1, <1>5, <2>1, KeptDelete DEF deleteStaleRecord
  <1>6. CASE finalizeRecord
    <2>1. CASE wrote' = [wrote EXCEPT ![cur] = {}] /\ UNCHANGED server
      <3>1. \A r \in Objects : wrote'[r] \subseteq wrote[r]
        BY <1>0, <2>1 DEF DataTypes
      <3> QED BY <2>1, <3>1 DEF ServerInv
    <2>2. CASE DeleteRecord(loc.spec.rrset, appliedSpec(loc).data)
      BY <1>0, <2>2, AppliedTypes, KeptDelete
    <2> QED BY <1>6, <2>1, <2>2 DEF finalizeRecord
  <1>7. CASE \E r \in Objects, s \in Specs : EditRecord(r, s)
    BY <1>1, <1>7 DEF EditRecord
  <1>8. CASE ClusterGone
    <2>1. \A r \in Objects : wrote'[r] = {}
      BY <1>8 DEF ClusterGone
    <2>2. \A k \in RRSets, d \in Data : server'[k][d] = Absent
      BY <1>8 DEF ClusterGone, NoServer, NoRecords
    <2> QED BY <2>1, <2>2, RecordConstants DEF ServerInv
  <1>9. CASE Drift
    <2>1. PICK k \in RRSets, d \in Data :
             \/ DeleteRecord(k, d)
             \/ /\ k \in Single => Present(server[k]) = {}
                /\ \E t \in TTLs : server' = Put(k, d, t) /\ wrote' = wrote
      BY <1>9 DEF Drift, Put
    <2>2. CASE DeleteRecord(k, d)
      BY <1>0, <2>2, KeptDelete
    <2>3. CASE /\ k \in Single => Present(server[k]) = {}
               /\ \E t \in TTLs : server' = Put(k, d, t) /\ wrote' = wrote
      BY <1>0, <2>3, KeptPut
    <2> QED BY <2>1, <2>2, <2>3
  <1> QED BY <1>2, <1>3, <1>4, <1>5, <1>6, <1>7, <1>8, <1>9 DEF Next, Operator, World

-----------------------------------------------------------------------------
(* The copies of a Record's spec. *)

\* The cache shows a Record in its present life, if it shows it with its finalizer;
\* status names no data but the spec's before the data is ever edited.
StoredCopies ==
  \A r \in Objects :
     /\ Steady(cached[r]) =>
          /\ cached[r].spec.rrset = obj[r].spec.rrset
          /\ r \notin moved => cached[r].spec.data = obj[r].spec.data
     /\ r \notin moved => obj[r].applied \in {NotApplied, obj[r].spec.data}

\* And so does the pass that is at work on it, or finalizes it.
PassCopy ==
  /\ Working(pc) => /\ loc.spec.rrset = obj[cur].spec.rrset
                    /\ cur \notin moved => loc.spec.data = obj[cur].spec.data
  /\ (~Lag /\ pc \in Finalizing) => loc.spec.rrset = obj[cur].spec.rrset

\* The cache has the old copy or the new one.
LEMMA StoredCalm == ASSUME StoredCopies, Calm, moved' = moved PROVE StoredCopies'
  <1>1. SUFFICES ASSUME NEW r \in Objects
        PROVE  /\ Steady(cached'[r]) =>
                    /\ cached'[r].spec.rrset = obj'[r].spec.rrset
                    /\ r \notin moved => cached'[r].spec.data = obj'[r].spec.data
               /\ r \notin moved => obj'[r].applied \in {NotApplied, obj'[r].spec.data}
    BY DEF StoredCopies, Steady
  <1>2. /\ obj'[r].spec = obj[r].spec /\ obj'[r].applied = obj[r].applied
        /\ cached'[r] \in {cached[r], obj'[r]}
    BY DEF Calm
  <1> QED BY <1>2 DEF StoredCopies

\* A Record that is gone or new is not shown with its finalizer.
LEMMA StoredRenewed ==
  ASSUME StoredCopies, NEW r \in Objects, Renewed(r), RInv', moved' = moved PROVE StoredCopies'
  <1>1. SUFFICES ASSUME NEW q \in Objects
        PROVE  /\ Steady(cached'[q]) =>
                    /\ cached'[q].spec.rrset = obj'[q].spec.rrset
                    /\ q \notin moved => cached'[q].spec.data = obj'[q].spec.data
               /\ q \notin moved => obj'[q].applied \in {NotApplied, obj'[q].spec.data}
    BY DEF StoredCopies, Steady
  <1>2. CASE q = r
    <2>1. obj'[r].applied = NotApplied /\ ~obj'[r].finalizer
      BY DEF Renewed
    <2>2. Steady(cached'[r]) => obj'[r].finalizer
      BY DEF RInv, CacheInv, Held, Steady
    <2> QED BY <1>2, <2>1, <2>2
  <1>3. CASE q # r
    BY <1>3 DEF Renewed, StoredCopies
  <1> QED BY <1>2, <1>3

\* Every step of a specification whose Records keep their zone and type.
LEMMA CopiesStep ==
  ASSUME ~EditRRSet, Typed, Typed', Prompt, StoredCopies, PassCopy, Next PROVE StoredCopies' /\ PassCopy'
  <1>0. /\ RInv /\ RInv' /\ cur \in Objects /\ (Working(pc) => cur \in Held)
        /\ ~Lag /\ pc \in Finalizing => obj[cur].exists /\ obj[cur].deleting
    BY DEF Typed, RInv, PassTypes, PassInv, Prompt
  <1>1. ASSUME EndPass PROVE PassCopy'
    BY <1>1 DEF EndPass, PassCopy, Working, Finalizing
  <1>2. ASSUME Calm, UNCHANGED <<cur, loc, moved>>, Working(pc') => Working(pc), pc' \in Finalizing => pc \in Finalizing
        PROVE  PassCopy'
    BY <1>0, <1>2 DEF PassCopy, Calm, Working
  <1>3. ASSUME NEW r \in Objects, Renewed(r), UNCHANGED <<pc, cur, loc, moved>>, r \notin Held,
               ~(obj[r].exists /\ obj[r].deleting)
        PROVE  PassCopy'
    <2>1. Working(pc) \/ (~Lag /\ pc \in Finalizing) => r # cur
      BY <1>0, <1>3
    <2> QED BY <1>0, <1>3, <2>1 DEF PassCopy, Renewed, Working
  <1>4. CASE WorkerStep(Calls) /\ Shared
    <2>1. moved' = moved
      BY <1>4 DEF Shared
    <2>2. StoredCopies'
      BY <1>0, <1>4, <2>1, WorkerEffect, StoredCalm, StoredRenewed
    <2>3. ASSUME NEW r \in Objects, Reconcile(r) PROVE PassCopy'
      <3>1. /\ cur' = r /\ loc' = cached[r] /\ obj' = obj /\ cached[r].exists
            /\ \/ pc' \in {"finalize", "finalizer"}
               \/ pc' = "reconcile" /\ ~cached[r].deleting /\ cached[r].finalizer
        BY <2>3 DEF Reconcile, stored
      <3>2. ~Lag => cached[r] = obj[r]
        BY <1>0 DEF Prompt, RInv, CacheInv
      <3> QED BY <2>1, <3>1, <3>2 DEF PassCopy, StoredCopies, Working, Finalizing, Steady
    <2>4. CASE AddFinalizer
      <3>1. CASE pc' = "reconcile" /\ cur' = cur /\ Write(cur, loc')
        <4>1. obj'[cur] = loc'
          BY <1>0, <3>1 DEF Write, RInv, PassTypes, StoredTypes
        <4> QED BY <2>2, <3>1, <4>1 DEF PassCopy, Finalizing
      <3> QED BY <1>1, <2>2, <2>4, <3>1 DEF AddFinalizer
    <2>5. CASE Unresolved(Calls) \/ PassFails \/ DropFinalizer
      BY <1>1, <2>2, <2>5 DEF Unresolved, PassFails, DropFinalizer
    <2>6. CASE FinalizeUnresolved
      <3>1. CASE EndPass
        BY <1>1, <2>2, <3>1
      <3>2. CASE pc = "finalize" /\ pc' = "drop" /\ UNCHANGED <<stored, cur, loc>>
        BY <2>2, <3>2 DEF PassCopy, Working, Finalizing, stored
      <3> QED BY <2>6, <3>1, <3>2 DEF FinalizeUnresolved
    <2> QED BY <1>4, <2>2, <2>3, <2>4, <2>5, <2>6 DEF WorkerStep
  <1>5. CASE OwnStep
    <2>1. Advance /\ UNCHANGED <<stored, cur, loc, moved>>
      BY <1>5, OwnAdvance
    <2>2. Calm /\ (Working(pc') => Working(pc)) /\ (pc' \in Finalizing => pc \in Finalizing)
      BY <2>1 DEF Calm, stored, Advance, Working
    <2> QED BY <1>2, <2>1, <2>2, StoredCalm
  <1>6. CASE Refused
    <2>1. Fails /\ moved' = moved
      BY <1>6 DEF Refused, Fails
    <2> QED BY <1>0, <1>1, <2>1, FailsEffect, StoredCalm DEF Fails
  <1>7. CASE markRecordReady
    <2>1. markReady(loc.spec.data) /\ moved' = moved /\ pc = "ready" /\ EndPass
      BY <1>7 DEF markRecordReady, markReady
    <2>2. loc.spec.data \in Applied
      BY <1>0, SpecTypes, RecordConstants DEF RecordSpec
    <2>3. /\ \A r \in Objects : obj'[r].spec = obj[r].spec /\ cached'[r] \in {cached[r], obj'[r]}
          /\ \A r \in Objects \ {cur} : obj'[r].applied = obj[r].applied
          /\ obj'[cur].applied \in {obj[cur].applied, loc.spec.data}
      BY <1>0, <2>1, <2>2, ReadyEffect
    <2>4. cur \notin moved => loc.spec.data = obj[cur].spec.data
      BY <2>1 DEF PassCopy, Working, Finalizing
    <2>5. ASSUME NEW r \in Objects, r \notin moved
          PROVE  obj'[r].applied \in {NotApplied, obj'[r].spec.data}
      <3>1. CASE r = cur
        BY <2>3, <2>4, <2>5, <3>1 DEF StoredCopies
      <3>2. CASE r # cur
        BY <2>3, <2>5, <3>2 DEF StoredCopies
      <3> QED BY <3>1, <3>2
    <2>6. ASSUME NEW r \in Objects, Steady(cached'[r])
          PROVE  /\ cached'[r].spec.rrset = obj'[r].spec.rrset
                 /\ r \notin moved => cached'[r].spec.data = obj'[r].spec.data
      BY <2>3, <2>6 DEF StoredCopies
    <2> QED BY <1>1, <2>1, <2>5, <2>6 DEF StoredCopies, Steady
  <1>8. ASSUME NEW r \in Objects, NEW s \in Specs, Create(r, s), Shared PROVE StoredCopies' /\ PassCopy'
    <2>1. UNCHANGED <<pc, cur, loc, moved>> /\ Renewed(r) /\ r \notin Held /\ ~obj[r].exists
      BY <1>0, <1>8, CreateEffect, Zenon DEF Create, Touched, Shared
    <2> QED BY <1>0, <1>3, <2>1, StoredRenewed, Zenon
  <1>9. ASSUME NEW r \in Objects, NEW s \in Specs, EditRecord(r, s) PROVE StoredCopies' /\ PassCopy'
    <2>1. /\ UNCHANGED <<pc, cur, loc>> /\ Respecified(r, s) /\ s.rrset = obj[r].spec.rrset
          /\ (moved' = moved /\ s.data = obj[r].spec.data) \/ moved' = moved \cup {r}
      BY <1>0, <1>9, EditEffect, Zenon DEF EditRecord, Edit, Touched
    <2>2. ASSUME NEW q \in Objects
          PROVE  /\ Steady(cached'[q]) =>
                      /\ cached'[q].spec.rrset = obj'[q].spec.rrset
                      /\ q \notin moved' => cached'[q].spec.data = obj'[q].spec.data
                 /\ q \notin moved' => obj'[q].applied \in {NotApplied, obj'[q].spec.data}
      <3>1. CASE q = r
        BY <2>1, <3>1 DEF Respecified, StoredCopies
      <3>2. CASE q # r
        BY <2>1, <3>2 DEF Respecified, StoredCopies
      <3> QED BY <3>1, <3>2
    <2>3. PassCopy'
      <3>1. CASE cur = r
        BY <2>1, <3>1 DEF Respecified, PassCopy, Working
      <3>2. CASE cur # r
        BY <1>0, <2>1, <3>2 DEF Respecified, PassCopy, Working
      <3> QED BY <3>1, <3>2
    <2> QED BY <2>2, <2>3, Zenon DEF StoredCopies, Steady
  <1>10. CASE ClusterStep /\ Shared
    <2>1. UNCHANGED <<pc, cur, loc, moved>>
      BY <1>10, WorldStays DEF Shared
    <2>2. ASSUME Calm PROVE StoredCopies' /\ PassCopy'
      BY <1>2, <2>1, <2>2, StoredCalm
    <2>3. ASSUME NEW r \in Objects, Delete(r) PROVE StoredCopies' /\ PassCopy'
      <3>1. ~obj[r].deleting /\ (Calm \/ (Renewed(r) /\ r \notin Held))
        BY <1>0, <2>3, DeleteEffect DEF Delete
      <3> QED BY <1>0, <1>3, <2>1, <2>2, <3>1, StoredRenewed
    <2>4. ASSUME NEW r \in Objects, CacheSync(r) PROVE StoredCopies' /\ PassCopy'
      BY <1>0, <2>2, <2>4, SyncEffect
    <2>5. CASE Outage("unready") \/ Outage("noSecret") \/ Recover
      BY <2>2, <2>5 DEF Outage, Recover, Calm, stored
    <2> QED BY <1>10, <2>3, <2>4, <2>5 DEF ClusterStep
  <1>11. CASE ClusterGone \/ Drift
    <2>1. UNCHANGED <<stored, pc, cur, loc, moved>>
      BY <1>11 DEF ClusterGone, Drift, Outage, resource, worker
    <2>2. Calm
      BY <2>1 DEF Calm, stored
    <2> QED BY <1>2, <2>1, <2>2, StoredCalm
  <1> QED BY <1>4, <1>5, <1>6, <1>7, <1>8, <1>9, <1>10, <1>11 DEF Next, Operator, World, OwnStep

-----------------------------------------------------------------------------
(* The cluster and what was written to it. *)

\* Nothing is left on a server that is gone, and the Secret is always there.
Up ==
  /\ cluster # "noSecret" /\ (outages = 0 => cluster = "up")
  /\ cluster = "gone" => \A r \in Objects : wrote[r] = {}

\* What a step may add: the desired value of the Record the pass works on.
LEMMA Additions ==
  ASSUME Typed, Next
  PROVE  \/ \A r \in Objects : wrote'[r] \subseteq wrote[r]
         \/ /\ Working(pc) /\ ServerUp /\ cluster' = cluster
            /\ \A r \in Objects \ {cur} : wrote'[r] = wrote[r]
            /\ wrote'[cur] \subseteq wrote[cur] \cup {Value(loc.spec, loc.spec.data)}
  <1>0. /\ RInv /\ cur \in Objects /\ loc.spec \in RecordSpec /\ DataTypes
        /\ loc.spec.rrset \in RRSets /\ loc.spec.data \in Data
    BY SpecTypes DEF Typed, RInv, PassTypes, RecordSpec
  <1>1. ASSUME wrote' = wrote PROVE \A r \in Objects : wrote'[r] \subseteq wrote[r]
    BY <1>1
  <1>2. CASE Shared \/ GetRecords \/ Refused \/ markRecordReady
    BY <1>1, <1>2 DEF Shared, GetRecords, Refused, markRecordReady
  <1>3. ASSUME AddRecord(loc.spec)
        PROVE  /\ \A r \in Objects \ {cur} : wrote'[r] = wrote[r]
               /\ wrote'[cur] \subseteq wrote[cur] \cup {Value(loc.spec, loc.spec.data)}
    BY <1>0, <1>3, AddFacts
  <1>4. CASE apply
    <2>1. CASE findRecord(reads, loc.spec) = {} /\ AddRecord(loc.spec)
      <3>1. Calls /\ Working(pc)
        BY <1>4, <2>1 DEF apply, Calls, InSync, Working, Finalizing
      <3>2. ServerUp /\ cluster' = cluster
        BY <1>4, <3>1 DEF apply
      <3> QED BY <1>3, <2>1, <3>1, <3>2
    <2>2. CASE \E d \in findRecord(reads, loc.spec) \ {loc.spec.data} : DeleteRecord(loc.spec.rrset, d)
      <3>1. findRecord(reads, loc.spec) \subseteq Data
        BY <1>0, FoundTypes
      <3>2. PICK d \in Data : DeleteRecord(loc.spec.rrset, d)
        BY <2>2, <3>1, Zenon
      <3> QED BY <1>0, <3>2, DeleteTakes, Zenon
    <2> QED BY <1>1, <1>4, <2>1, <2>2 DEF apply
  <1>5. CASE readd
    BY <1>3, <1>5 DEF readd, Working, Finalizing
  <1>6. CASE deleteStaleRecord
    <2>1. Stale => loc.applied \in Data
      BY <1>0 DEF Stale, findRecord, Present
    <2> QED BY <1>0, <1>1, <1>6, <2>1, DeleteTakes DEF deleteStaleRecord
  <1>7. CASE finalizeRecord
    <2>1. CASE wrote' = [wrote EXCEPT ![cur] = {}]
      BY <1>0, <2>1 DEF DataTypes
    <2>2. CASE DeleteRecord(loc.spec.rrset, appliedSpec(loc).data)
      <3>1. appliedSpec(loc).data \in Data
        BY <1>0, AppliedTypes, Zenon
      <3> QED BY <1>0, <2>2, <3>1, DeleteTakes, Zenon
    <2> QED BY <1>7, <2>1, <2>2 DEF finalizeRecord
  <1>8. CASE \E r \in Objects, s \in Specs : EditRecord(r, s)
    BY <1>1, <1>8 DEF EditRecord
  <1>9. CASE ClusterGone
    BY <1>9 DEF ClusterGone
  <1>10. CASE Drift
    <2>1. wrote' = wrote \/ \E k \in RRSets, d \in Data : DeleteRecord(k, d)
      BY <1>10 DEF Drift
    <2> QED BY <1>0, <1>1, <2>1, DeleteTakes, Zenon
  <1> QED BY <1>2, <1>4, <1>5, <1>6, <1>7, <1>8, <1>9, <1>10 DEF Next, Operator, World

\* The cluster goes for good, and comes back otherwise.
LEMMA UpStep == ASSUME ~SecretLoss, Typed, Up, Next PROVE Up'
  <1>1. /\ cluster' # "noSecret" /\ (outages' = 0 => cluster' = "up")
        /\ cluster' = "gone" => cluster = "gone" \/ ClusterGone
    <2>0. outages \in Nat
      BY CounterTypes, Zenon
    <2>1. CASE UNCHANGED <<cluster, outages>>
      BY <2>1 DEF Up
    <2>2. CASE \E kind \in {"unready", "noSecret", "gone"} : Outage(kind) /\ (kind = "gone" => ClusterGone)
      BY <2>0, <2>2 DEF Outage
    <2>3. CASE Recover
      BY <2>3 DEF Recover
    <2>4. CASE WorkerStep(Calls)
      BY <2>1, <2>4 DEF WorkerStep, Reconcile, AddFinalizer, Unresolved, FinalizeUnresolved, DropFinalizer, PassFails, limits
    <2>5. CASE OwnStep \/ Refused \/ markRecordReady
      BY <2>1, <2>5, OwnAdvance DEF Refused, markRecordReady, markReady, limits
    <2>6. CASE \E r \in Objects, s \in Specs : Create(r, s) \/ EditRecord(r, s)
      BY <2>1, <2>6 DEF EditRecord, Create, Edit, Edited
    <2>7. CASE ClusterStep
      BY <2>1, <2>2, <2>3, <2>7 DEF ClusterStep, Delete, CacheSync, Edited, limits
    <2>8. CASE ClusterGone
      BY <2>2, <2>8 DEF ClusterGone
    <2>9. CASE Drift
      BY <2>1, <2>9 DEF Drift, resource, limits
    <2> QED BY <2>4, <2>5, <2>6, <2>7, <2>8, <2>9 DEF Next, Operator, World, OwnStep
  <1>2. ASSUME cluster' = "gone" PROVE \A r \in Objects : wrote'[r] = {}
    <2>1. CASE ClusterGone
      BY <2>1 DEF ClusterGone
    <2>2. CASE cluster = "gone"
      BY <2>2, Additions DEF Up, ServerUp
    <2> QED BY <1>1, <1>2, <2>1, <2>2
  <1> QED BY <1>1, <1>2 DEF Up

-----------------------------------------------------------------------------
(* Records whose data was never edited. *)

\* Their one value is the one the spec names; it stays while the finalizer does,
\* and a finalization that gets as far as dropping the finalizer has removed it.
Unmoved ==
  \A r \in Objects \ moved :
     /\ wrote[r] \subseteq {Value(obj[r].spec, obj[r].spec.data)}
     /\ wrote[r] # {} => r \in Held
     /\ cur = r /\ pc = "drop" /\ current => wrote[r] = {}

\* A step that adds nothing, and keeps the specs and who is held.
LEMMA UnmovedQuiet ==
  ASSUME Unmoved, Up, moved' = moved,
         \A r \in Objects : wrote'[r] \subseteq wrote[r] /\ obj'[r].spec = obj[r].spec,
         Held \subseteq Held',
         pc' = "drop" => (pc = "drop" /\ cur' = cur /\ (current' => current)) \/ cluster = "gone"
  PROVE  Unmoved'
  <1>1. SUFFICES ASSUME NEW r \in Objects \ moved
        PROVE  /\ wrote'[r] \subseteq {Value(obj'[r].spec, obj'[r].spec.data)}
               /\ wrote'[r] # {} => r \in Held'
               /\ cur' = r /\ pc' = "drop" /\ current' => wrote'[r] = {}
    BY DEF Unmoved, Value
  <1>2. /\ wrote[r] \subseteq {Value(obj[r].spec, obj[r].spec.data)}
        /\ wrote[r] # {} => r \in Held
        /\ cur = r /\ pc = "drop" /\ current => wrote[r] = {}
    BY DEF Unmoved
  <1>3. cluster = "gone" => wrote[r] = {}
    BY DEF Up
  <1>4. wrote'[r] \subseteq {Value(obj'[r].spec, obj'[r].spec.data)} /\ (wrote'[r] # {} => r \in Held')
    BY <1>2
  <1>5. cur' = r /\ pc' = "drop" /\ current' => wrote[r] = {}
    BY <1>2, <1>3
  <1> QED BY <1>4, <1>5

\* A Record goes or comes, and has nothing on the server then.
LEMMA UnmovedRenewed ==
  ASSUME Unmoved, NEW r \in Objects, Renewed(r), UNCHANGED <<moved, wrote>>, r \notin moved => wrote[r] = {},
         pc' = "drop" => pc = "drop" /\ cur' = cur /\ (current' => current)
  PROVE  Unmoved'
  <1>1. SUFFICES ASSUME NEW q \in Objects \ moved
        PROVE  /\ wrote[q] \subseteq {Value(obj'[q].spec, obj'[q].spec.data)}
               /\ wrote[q] # {} => q \in Held'
               /\ cur' = q /\ pc' = "drop" /\ current' => wrote[q] = {}
    BY DEF Unmoved, Value
  <1>2. CASE q = r
    BY <1>2
  <1>3. CASE q # r
    <2>1. obj'[q] = obj[q] /\ (q \in Held => q \in Held')
      BY <1>3 DEF Renewed, Held
    <2> QED BY <2>1 DEF Unmoved
  <1> QED BY <1>2, <1>3

\* Every step.
LEMMA UnmovedStep ==
  ASSUME ~SecretLoss, ~EditRRSet, Typed, Up, StoredCopies, PassCopy, Unmoved, Next PROVE Unmoved'
  <1>0. /\ RInv /\ cur \in Objects /\ (Working(pc) => cur \in Held) /\ DataTypes /\ loc.spec \in RecordSpec
        /\ (current => obj[cur] = loc)
    BY SpecTypes DEF Typed, RInv, PassTypes, PassInv
  <1>1. CASE WorkerStep(Calls) /\ Shared
    <2>1. UNCHANGED <<moved, wrote>>
      BY <1>1 DEF Shared
    <2>2. /\ Held' \in {Held, Held \cup {cur}} \/ (pc = "drop" /\ Held' = Held \ {cur})
          /\ pc' = "drop" => cur' = cur /\ (pc = "drop" \/ cluster = "gone")
      BY <1>0, <1>1, SharedStep DEF Up
    <2>3. pc = "drop" => pc' = "idle"
      BY <1>0, <1>1, WorkerEffect
    <2>4. CASE pc = "drop" /\ current /\ Renewed(cur)
      <3>1. cur \notin moved => wrote[cur] = {}
        BY <1>0, <2>4 DEF Unmoved
      <3> QED BY <1>0, <2>1, <2>3, <2>4, <3>1, UnmovedRenewed
    <2>5. CASE Calm /\ Held \subseteq Held'
      BY <2>1, <2>2, <2>3, <2>5, UnmovedQuiet DEF Calm
    <2> QED BY <1>0, <1>1, <2>4, <2>5, WorkerEffect
  <1>2. CASE GetRecords \/ apply \/ readd \/ deleteStaleRecord
    <2>1. /\ UNCHANGED <<stored, cur, loc, current, cluster, moved>> /\ Working(pc)
          /\ pc' # "drop" /\ OwnStep
      BY <1>2 DEF OwnStep, GetRecords, apply, readd, deleteStaleRecord, Working, Finalizing
    <2>2. obj' = obj /\ Held' = Held
      BY <2>1 DEF stored, Held
    <2>3. CASE \A r \in Objects : wrote'[r] \subseteq wrote[r]
      BY <2>1, <2>2, <2>3, UnmovedQuiet
    <2>4. CASE /\ \A r \in Objects \ {cur} : wrote'[r] = wrote[r]
               /\ wrote'[cur] \subseteq wrote[cur] \cup {Value(loc.spec, loc.spec.data)}
      <3>1. ASSUME NEW r \in Objects \ moved
            PROVE  /\ wrote'[r] \subseteq {Value(obj[r].spec, obj[r].spec.data)}
                   /\ wrote'[r] # {} => r \in Held
        <4>1. CASE r # cur
          BY <2>4, <4>1 DEF Unmoved
        <4>2. CASE r = cur
          <5>1. Value(loc.spec, loc.spec.data) = Value(obj[r].spec, obj[r].spec.data)
            BY <2>1, <3>1, <4>2 DEF PassCopy, Value
          <5> QED BY <1>0, <2>1, <2>4, <4>2, <5>1 DEF Unmoved
        <4> QED BY <4>1, <4>2
      <3> QED BY <2>1, <2>2, <3>1 DEF Unmoved, Value
    <2> QED BY <1>2, <2>3, <2>4, Additions DEF Next, Operator
  <1>3. CASE finalizeRecord
    <2>1. /\ UNCHANGED <<stored, cur, loc, current, cluster, moved>>
      BY <1>3 DEF finalizeRecord
    <2>2. obj' = obj /\ Held' = Held
      BY <2>1 DEF stored, Held
    <2>0. loc.spec.rrset \in RRSets /\ appliedSpec(loc).data \in Data
      BY <1>0, AppliedTypes DEF RecordSpec
    <2>3. \A r \in Objects : wrote'[r] \subseteq wrote[r]
      <3>1. CASE wrote' = [wrote EXCEPT ![cur] = {}]
        BY <1>0, <3>1 DEF DataTypes
      <3>2. CASE DeleteRecord(loc.spec.rrset, appliedSpec(loc).data)
        BY <1>0, <2>0, <3>2, DeleteTakes, Zenon
      <3> QED BY <1>3, <3>1, <3>2, Zenon DEF finalizeRecord
    <2>4. current /\ cur \notin moved => wrote'[cur] = {}
      <3>1. CASE wrote' = [wrote EXCEPT ![cur] = {}]
        BY <1>0, <3>1 DEF DataTypes
      <3>2. CASE DeleteRecord(loc.spec.rrset, appliedSpec(loc).data)
        <4> SUFFICES ASSUME current, cur \notin moved PROVE wrote'[cur] = {}
          OBVIOUS
        <4>1. appliedSpec(loc).data = loc.spec.data
          BY <1>0, AppliedTypes DEF StoredCopies
        <4>2. wrote'[cur] = wrote[cur] \ {<<loc.spec.rrset, loc.spec.data>>}
          BY <1>0, <2>0, <3>2, <4>1, DeleteTakes, Zenon
        <4>3. wrote[cur] \subseteq {<<loc.spec.rrset, loc.spec.data>>}
          BY <1>0 DEF Unmoved, Value
        <4> QED BY <4>2, <4>3
      <3> QED BY <1>3, <3>1, <3>2 DEF finalizeRecord
    <2>5. ASSUME NEW r \in Objects \ moved
          PROVE  /\ wrote'[r] \subseteq {Value(obj[r].spec, obj[r].spec.data)}
                 /\ wrote'[r] # {} => r \in Held
                 /\ cur = r /\ current => wrote'[r] = {}
      BY <2>3, <2>4 DEF Unmoved
    <2> QED BY <2>1, <2>2, <2>5 DEF Unmoved, Value
  <1>4. CASE Refused
    <2>1. Fails /\ UNCHANGED <<moved, wrote>> /\ pc' = "idle"
      BY <1>4 DEF Refused, Fails, EndPass
    <2> QED BY <1>0, <2>1, FailsEffect, FailsStep, UnmovedQuiet DEF Calm
  <1>5. CASE markRecordReady
    <2>1. markReady(loc.spec.data) /\ UNCHANGED <<moved, wrote>> /\ pc' = "idle" /\ loc.spec.data \in Applied
      BY <1>0, <1>5, RecordConstants DEF markRecordReady, markReady, EndPass, RecordSpec
    <2>2. Held' = Held /\ \A r \in Objects : obj'[r].spec = obj[r].spec
      BY <1>0, <2>1, MarkReadyStep, ReadyEffect
    <2> QED BY <2>1, <2>2, UnmovedQuiet
  <1>6. ASSUME UserStep \/ ClusterStep, Calm, UNCHANGED <<moved, wrote>> PROVE Unmoved'
    <2>1. UNCHANGED <<pc, cur>> /\ (current' => current)
      BY <1>6, WorldStays
    <2>2. Held \subseteq Held'
      BY <1>0, <1>6, UserStepKeeps, IdleStep DEF ClusterStep, UserStep, Outage, Recover
    <2> QED BY <1>6, <2>1, <2>2, UnmovedQuiet DEF Calm
  <1>7. ASSUME NEW r \in Objects, UserStep, Renewed(r), r \notin Held, UNCHANGED <<moved, wrote>> PROVE Unmoved'
    <2>1. UNCHANGED <<pc, cur>> /\ (current' => current)
      BY <1>7, WorldStays
    <2>2. r \notin moved => wrote[r] = {}
      BY <1>7 DEF Unmoved
    <2> QED BY <1>7, <2>1, <2>2, UnmovedRenewed
  <1>8. ASSUME NEW r \in Objects, NEW s \in Specs, Create(r, s), Shared PROVE Unmoved'
    <2>1. UserStep /\ UNCHANGED <<moved, wrote>>
      BY <1>8 DEF UserStep, Shared
    <2> QED BY <1>0, <1>7, <1>8, <2>1, CreateEffect
  <1>9. ASSUME NEW r \in Objects, NEW s \in Specs, EditRecord(r, s) PROVE Unmoved'
    <2>1. /\ UserStep /\ Respecified(r, s) /\ s.rrset = obj[r].spec.rrset /\ wrote' = wrote
          /\ (moved' = moved /\ s.data = obj[r].spec.data) \/ moved' = moved \cup {r}
      BY <1>0, <1>9, EditEffect DEF EditRecord, UserStep
    <2>2. UNCHANGED <<pc, cur>> /\ (current' => current) /\ Held' = Held
      BY <1>0, <2>1, WorldStays, UserStepKeeps
    <2>3. ASSUME NEW q \in Objects, q \notin moved'
          PROVE  /\ wrote[q] \subseteq {Value(obj'[q].spec, obj'[q].spec.data)}
                 /\ wrote[q] # {} => q \in Held
                 /\ cur = q /\ pc = "drop" /\ current => wrote[q] = {}
      <3>1. Value(obj'[q].spec, obj'[q].spec.data) = Value(obj[q].spec, obj[q].spec.data) /\ q \notin moved
        BY <2>1, <2>3 DEF Respecified, Value
      <3> QED BY <3>1 DEF Unmoved
    <2> QED BY <2>1, <2>2, <2>3 DEF Unmoved, Value
  <1>10. CASE ClusterStep /\ Shared
    <2>1. UNCHANGED <<moved, wrote>>
      BY <1>10 DEF Shared
    <2>2. ASSUME NEW r \in Objects, Delete(r) PROVE Unmoved'
      BY <1>0, <1>6, <1>7, <1>10, <2>1, <2>2, DeleteEffect DEF UserStep
    <2>3. ASSUME NEW r \in Objects, CacheSync(r) PROVE Unmoved'
      BY <1>0, <1>6, <1>10, <2>1, <2>3, SyncEffect
    <2>4. CASE Outage("unready") \/ Outage("noSecret") \/ Recover
      <3>1. Calm
        BY <2>4 DEF Outage, Recover, Calm, stored
      <3> QED BY <1>6, <1>10, <2>1, <3>1
    <2> QED BY <1>10, <2>2, <2>3, <2>4 DEF ClusterStep
  <1>11. CASE ClusterGone \/ Drift
    <2>1. UNCHANGED <<stored, worker, moved>> /\ pc' = pc /\ cur' = cur /\ current' = current
      BY <1>11 DEF ClusterGone, Drift, Outage, resource, worker
    <2>2. \A r \in Objects : wrote'[r] \subseteq wrote[r]
      <3>1. CASE ClusterGone
        BY <3>1 DEF ClusterGone
      <3>2. CASE Drift
        <4>1. wrote' = wrote \/ \E k \in RRSets, d \in Data : DeleteRecord(k, d)
          BY <3>2 DEF Drift
        <4> QED BY <1>0, <4>1, DeleteFacts
      <3> QED BY <1>11, <3>1, <3>2
    <2>3. obj' = obj /\ Held' = Held
      BY <2>1 DEF stored, Held
    <2> QED BY <2>1, <2>2, <2>3, UnmovedQuiet
  <1> QED BY <1>1, <1>2, <1>3, <1>4, <1>5, <1>8, <1>9, <1>10, <1>11 DEF Next, Operator, World

-----------------------------------------------------------------------------
(* Records whose data is edited, while every pass runs to its end. *)

\* The steps of a pass before it changes what the Record has on the server.
Early == {"idle", "finalizer", "reconcile", "apply", "finalize"}

\* Between the passes a Record has on the server at most what its status says was
\* applied; a pass goes from there to the desired value, or to none.
SmoothInv ==
  /\ \A r \in Objects : wrote[r] # {} => r \in Held
  /\ \A r \in Objects : (r = cur => pc \in Early) => wrote[r] \subseteq {Value(obj[r].spec, obj[r].applied)}
  /\ pc \in {"add", "drop"} => wrote[cur] = {}
  /\ pc = "stale" => wrote[cur] \subseteq {Value(loc.spec, loc.spec.data), Value(loc.spec, loc.applied)}
  /\ pc = "ready" \/ (pc = "stale" /\ ~Stale) => wrote[cur] \subseteq {Value(loc.spec, loc.spec.data)}
Smooth == (Undisturbed /\ drifts = 0) => SmoothInv

\* Nobody takes a fault, an outage or a drift back.
LEMMA Calmer ==
  ASSUME Typed, Next, Undisturbed', drifts' = 0
  PROVE  Undisturbed /\ drifts = 0 /\ UNCHANGED <<faults, outages, drifts>>
  <1>1. ~Lag /\ faults' = 0 /\ outages' = 0 /\ faults \in Nat /\ outages \in Nat
    BY ResourceConstants DEF Undisturbed, Typed, Counted
  <1>2. drifts = 0 /\ drifts' = drifts
    BY DriftsCount
  <1>3. ASSUME UNCHANGED <<faults, outages>> PROVE Undisturbed
    BY <1>1, <1>3 DEF Undisturbed
  <1>4. ~PassFails
    BY <1>1 DEF PassFails
  <1>5. \A kind : ~Outage(kind)
    BY <1>1 DEF Outage
  <1>6. CASE WorkerStep(Calls)
    BY <1>2, <1>3, <1>4, <1>6 DEF WorkerStep, Reconcile, AddFinalizer, Unresolved, FinalizeUnresolved, DropFinalizer, limits
  <1>7. CASE OwnStep \/ Refused \/ markRecordReady
    BY <1>2, <1>3, <1>7, OwnAdvance DEF Refused, markRecordReady, markReady, limits
  <1>8. CASE \E r \in Objects, s \in Specs : Create(r, s) \/ EditRecord(r, s)
    BY <1>2, <1>3, <1>8 DEF EditRecord, Create, Edit, Edited
  <1>9. CASE ClusterStep \/ ClusterGone
    BY <1>2, <1>3, <1>5, <1>9 DEF ClusterStep, ClusterGone, Delete, CacheSync, Edited, Recover, limits
  <1>10. CASE Drift
    BY <1>2, <1>3, <1>10 DEF Drift, resource, limits
  <1> QED BY <1>6, <1>7, <1>8, <1>9, <1>10 DEF Next, Operator, World, OwnStep

\* Whether there is a stale value depends on what the pass read.
LEMMA StaleSame == ASSUME UNCHANGED <<loc, reads>> PROVE Stale' = Stale
  BY DEF Stale, findRecord, appliedSpec, Present

\* A step before the pass changes anything.
LEMMA SmoothEarly ==
  ASSUME SmoothInv, pc \in Early, pc' \in Early, Calm, Held \subseteq Held', wrote' = wrote PROVE SmoothInv'
  <1>1. \A r \in Objects : Value(obj'[r].spec, obj'[r].applied) = Value(obj[r].spec, obj[r].applied)
    BY DEF Calm, Value
  <1>2. \A r \in Objects : wrote[r] \subseteq {Value(obj[r].spec, obj[r].applied)}
    BY DEF SmoothInv
  <1>3. \A r \in Objects : wrote'[r] \subseteq {Value(obj'[r].spec, obj'[r].applied)}
    BY <1>1, <1>2
  <1> QED BY <1>3 DEF SmoothInv, Early, Value

\* A step of somebody else.
LEMMA SmoothStay ==
  ASSUME SmoothInv, UNCHANGED <<pc, cur, loc, wrote>>, pc = "stale" => reads' = reads,
         \A r \in Objects : wrote[r] # {} =>
            /\ obj'[r].spec.rrset = obj[r].spec.rrset /\ obj'[r].applied = obj[r].applied
            /\ r \in Held => r \in Held'
  PROVE  SmoothInv'
  <1>1. \A r \in Objects : (r = cur => pc \in Early) => wrote'[r] \subseteq {Value(obj'[r].spec, obj'[r].applied)}
    BY DEF SmoothInv, Value
  <1>2. pc = "stale" => Stale' = Stale
    BY StaleSame
  <1>3. /\ pc' \in {"add", "drop"} => wrote'[cur'] = {}
        /\ pc' = "stale" => wrote'[cur'] \subseteq {Value(loc'.spec, loc'.spec.data), Value(loc'.spec, loc'.applied)}
        /\ pc' = "ready" \/ (pc' = "stale" /\ ~Stale') => wrote'[cur'] \subseteq {Value(loc'.spec, loc'.spec.data)}
    BY <1>2 DEF SmoothInv
  <1>4. \A r \in Objects : wrote'[r] # {} => r \in Held'
    BY DEF SmoothInv
  <1> QED BY <1>1, <1>3, <1>4 DEF SmoothInv, Value

\* The step in which the desired value is applied: what else the Record has on the
\* server is the stale value, or is gone.
LEMMA SmoothApply ==
  ASSUME Typed, Prompt, ServerInv, PassCopy, Reads, SmoothInv, apply, ~Lag, drifts = 0, cluster = "up"
  PROVE  SmoothInv'
  <1>0. /\ RInv /\ cur \in Objects /\ DataTypes /\ loc.spec \in RecordSpec
        /\ loc.spec.rrset \in RRSets /\ loc.spec.data \in Data
    BY SpecTypes DEF Typed, RInv, PassTypes, RecordSpec
  <1>1. pc = "apply" /\ Working(pc) /\ UNCHANGED <<stored, cur, loc, reads>>
    BY DEF apply, Working, Finalizing
  <1>2. obj' = obj /\ Held' = Held /\ Stale' = Stale /\ cur \in Held
    BY <1>0, <1>1, StaleSame DEF stored, Held, RInv, PassInv
  <1>3. reads = server[loc.spec.rrset]
    BY <1>1 DEF Reads
  <1>4. wrote[cur] \subseteq {Value(loc.spec, loc.applied)}
    <2>1. Value(loc.spec, loc.applied) = Value(obj[cur].spec, obj[cur].applied)
      BY <1>1 DEF PassCopy, Prompt, Value
    <2> QED BY <1>0, <1>1, <2>1 DEF SmoothInv, Early
  <1>5. ASSUME NEW v \in wrote[cur]
        PROVE  /\ v = <<loc.spec.rrset, loc.applied>> /\ loc.applied \in Data
               /\ loc.applied \in Present(reads)
    <2>1. v = <<loc.spec.rrset, loc.applied>>
      BY <1>4 DEF Value
    <2>2. v \in RRSets \X Data /\ server[v[1]][v[2]] # Absent
      BY <1>0 DEF DataTypes, ServerInv
    <2> QED BY <1>3, <2>1, <2>2 DEF Present
  <1>6. \A r \in Objects \ {cur} : wrote'[r] \subseteq wrote[r]
    BY Additions DEF Next, Operator
  <1>7. ASSUME findRecord(reads, loc.spec) = {} \/ loc.spec.data \in findRecord(reads, loc.spec), ~Stale
        PROVE  wrote[cur] \subseteq {Value(loc.spec, loc.spec.data)}
    <2> SUFFICES ASSUME NEW v \in wrote[cur] PROVE loc.applied = loc.spec.data
      BY <1>5 DEF Value
    <2>1. loc.applied \in Data /\ loc.applied \in Present(reads) /\ loc.applied # NotApplied
      BY <1>5, RecordConstants
    <2>2. CASE loc.spec.rrset \in Single
      <3>1. loc.spec.data \in Present(reads)
        BY <1>7, <2>1, <2>2 DEF findRecord
      <3> QED BY <1>0, <1>3, <2>1, <2>2, <3>1 DEF ServerInv, Present
    <2>3. CASE loc.spec.rrset \notin Single
      <3>1. appliedSpec(loc).rrset = loc.spec.rrset /\ appliedSpec(loc).data = loc.applied
        BY <1>0, <2>1 DEF appliedSpec, RecordSpec
      <3>2. loc.applied \in findRecord(reads, appliedSpec(loc))
        BY <2>1, <2>3, <3>1 DEF findRecord
      <3> QED BY <1>7, <2>1, <2>3, <3>2 DEF Stale
    <2> QED BY <2>2, <2>3
  <1>8. CASE \E d \in findRecord(reads, loc.spec) \ {loc.spec.data} : DeleteRecord(loc.spec.rrset, d) /\ pc' = "add"
    <2>1. PICK d \in findRecord(reads, loc.spec) \ {loc.spec.data} : DeleteRecord(loc.spec.rrset, d) /\ pc' = "add"
      BY <1>8
    <2>2. loc.spec.rrset \in Single /\ d \in Present(reads) /\ d \in Data
      BY <1>0, <2>1 DEF findRecord, Present
    <2>3. wrote'[cur] = wrote[cur] \ {<<loc.spec.rrset, d>>}
      BY <1>0, <2>1, <2>2, DeleteTakes, Zenon
    <2>4. \A v \in wrote[cur] : v = <<loc.spec.rrset, d>>
      BY <1>0, <1>3, <1>5, <2>2 DEF ServerInv, Present
    <2>5. wrote'[cur] = {}
      BY <2>3, <2>4
    <2> QED BY <1>1, <1>2, <1>6, <2>1, <2>5 DEF SmoothInv, Early, Value
  <1>9. ASSUME pc' = "stale", wrote'[cur] \subseteq wrote[cur] \cup {Value(loc.spec, loc.spec.data)},
               findRecord(reads, loc.spec) = {} \/ loc.spec.data \in findRecord(reads, loc.spec)
        PROVE  SmoothInv'
    <2>1. wrote'[cur] \subseteq {Value(loc.spec, loc.spec.data), Value(loc.spec, loc.applied)}
      BY <1>4, <1>9
    <2>2. ~Stale => wrote'[cur] \subseteq {Value(loc.spec, loc.spec.data)}
      BY <1>7, <1>9
    <2> QED BY <1>1, <1>2, <1>6, <1>9, <2>1, <2>2 DEF SmoothInv, Early, Value
  <1>10. ASSUME AddRecord(loc.spec) PROVE wrote'[cur] \subseteq wrote[cur] \cup {Value(loc.spec, loc.spec.data)}
    BY <1>0, <1>10, AddFacts
  <1> QED BY <1>8, <1>9, <1>10 DEF apply, InSync

\* Every step.
LEMMA SmoothStep ==
  ASSUME ~SecretLoss, ~EditRRSet, Typed, Up, Prompt, ServerInv, PassCopy, Reads, Smooth, Next PROVE Smooth'
  <1>0. SUFFICES ASSUME Undisturbed', drifts' = 0 PROVE SmoothInv'
    BY DEF Smooth
  <1>1. /\ SmoothInv /\ ~Lag /\ drifts = 0 /\ cluster = "up"
        /\ UNCHANGED <<faults, outages, drifts>>
    BY <1>0, Calmer DEF Smooth, Undisturbed, Up
  <1>2. /\ RInv /\ cur \in Objects /\ DataTypes /\ loc.spec \in RecordSpec
        /\ loc.spec.rrset \in RRSets /\ loc.spec.data \in Data
    BY SpecTypes DEF Typed, RInv, PassTypes, RecordSpec
  <1>3. CASE WorkerStep(Calls) /\ Shared
    <2>1. wrote' = wrote
      BY <1>3 DEF Shared
    <2>2. ~Unresolved(Calls) /\ ~FinalizeUnresolved
      BY <1>1 DEF Unresolved, FinalizeUnresolved, resolve, ServerUp
    <2>3. ~PassFails
      <3>1. faults \in Nat /\ faults' = faults
        BY <1>1, CounterTypes, Zenon
      <3> QED BY <3>1 DEF PassFails
    <2>4. CASE DropFinalizer
      <3>1. pc = "drop" /\ pc' = "idle" /\ wrote[cur] = {}
        BY <1>1, <2>4 DEF DropFinalizer, EndPass, SmoothInv
      <3>2. \A r \in Objects \ {cur} :
               /\ obj'[r].spec = obj[r].spec /\ obj'[r].applied = obj[r].applied
               /\ r \in Held => r \in Held'
        BY <1>2, <1>3, WorkerEffect DEF Calm, Renewed, Held
      <3>3. \A r \in Objects : wrote'[r] \subseteq {Value(obj'[r].spec, obj'[r].applied)}
        BY <1>1, <2>1, <3>1, <3>2 DEF SmoothInv, Value
      <3>4. \A r \in Objects : wrote'[r] # {} => r \in Held'
        BY <1>1, <2>1, <3>1, <3>2 DEF SmoothInv
      <3> QED BY <3>1, <3>3, <3>4 DEF SmoothInv, Value
    <2>5. CASE AddFinalizer \/ \E r \in Objects : Reconcile(r)
      <3>1. pc \in Early /\ pc' \in Early /\ pc # "drop"
        BY <2>5 DEF AddFinalizer, Reconcile, EndPass, Early
      <3> QED BY <1>1, <1>2, <1>3, <2>1, <3>1, WorkerEffect, SmoothEarly
    <2> QED BY <1>3, <2>2, <2>3, <2>4, <2>5 DEF WorkerStep
  <1>4. CASE GetRecords
    <2>1. pc \in Early /\ pc' \in Early /\ wrote' = wrote /\ Calm /\ Held' = Held
      BY <1>4 DEF GetRecords, Early, Calm, stored, Held
    <2> QED BY <1>1, <2>1, SmoothEarly
  <1>5. CASE apply
    BY <1>1, <1>5, SmoothApply
  <1>6. CASE readd
    <2>1. pc = "add" /\ pc' = "ready" /\ UNCHANGED <<stored, cur, loc>> /\ AddRecord(loc.spec) /\ Working(pc)
      BY <1>6 DEF readd, Working, Finalizing
    <2>2. obj' = obj /\ Held' = Held /\ cur \in Held
      BY <1>2, <2>1 DEF stored, Held, RInv, PassInv
    <2>3. (\A r \in Objects \ {cur} : wrote'[r] = wrote[r]) /\ wrote'[cur] \subseteq {Value(loc.spec, loc.spec.data)}
      BY <1>1, <1>2, <2>1, AddFacts DEF SmoothInv
    <2> QED BY <1>1, <2>1, <2>2, <2>3 DEF SmoothInv, Early, Value
  <1>7. CASE deleteStaleRecord
    <2>1. pc = "stale" /\ pc' = "ready" /\ UNCHANGED <<stored, cur, loc>>
      BY <1>7 DEF deleteStaleRecord
    <2>2. obj' = obj /\ Held' = Held
      BY <2>1 DEF stored, Held
    <2>3. (\A r \in Objects : wrote'[r] \subseteq wrote[r]) /\ wrote'[cur] \subseteq {Value(loc.spec, loc.spec.data)}
      <3>1. CASE Stale
        <4>1. loc.applied \in Data
          BY <1>2, <3>1 DEF Stale, findRecord, Present
        <4>2. \A r \in Objects : wrote'[r] = wrote[r] \ {<<loc.spec.rrset, loc.applied>>}
          BY <1>2, <1>7, <3>1, <4>1, DeleteFacts DEF deleteStaleRecord
        <4> QED BY <1>1, <1>2, <2>1, <4>2 DEF SmoothInv, Value
      <3>2. CASE ~Stale
        BY <1>1, <1>7, <2>1, <3>2 DEF SmoothInv, deleteStaleRecord
      <3> QED BY <3>1, <3>2
    <2> QED BY <1>1, <2>1, <2>2, <2>3 DEF SmoothInv, Early, Value
  <1>8. CASE Refused
    <2>1. Fails /\ pc \in {"apply", "add"} /\ pc' = "idle" /\ wrote' = wrote
      BY <1>8 DEF Refused, Fails, EndPass
    <2>2. Calm /\ Held' = Held
      BY <1>2, <2>1, FailsEffect, FailsStep
    <2>3. CASE pc = "apply"
      BY <1>1, <2>1, <2>2, <2>3, SmoothEarly DEF Early
    <2>4. CASE pc = "add"
      <3>1. \A r \in Objects : wrote'[r] \subseteq {Value(obj'[r].spec, obj'[r].applied)}
        BY <1>1, <2>1, <2>2, <2>4 DEF SmoothInv, Calm, Value
      <3> QED BY <1>1, <2>1, <2>2, <3>1 DEF SmoothInv, Value
    <2> QED BY <2>1, <2>3, <2>4
  <1>9. CASE markRecordReady
    <2>1. markReady(loc.spec.data) /\ wrote' = wrote /\ pc = "ready" /\ pc' = "idle" /\ loc.spec.data \in Applied
      BY <1>2, <1>9, RecordConstants DEF markRecordReady, markReady, EndPass
    <2>2. Working(pc) /\ cur \in Held /\ fresh[cur] /\ loc.spec.rrset = obj[cur].spec.rrset
      BY <1>1, <1>2, <2>1 DEF Working, Finalizing, RInv, PassInv, Prompt, PassCopy
    <2>3. /\ Held' = Held /\ (\A r \in Objects : obj'[r].spec = obj[r].spec)
          /\ (\A r \in Objects \ {cur} : obj'[r].applied = obj[r].applied) /\ obj'[cur].applied = loc.spec.data
      BY <1>2, <2>1, <2>2, MarkReadyStep, ReadyEffect DEF Held
    <2>4. ASSUME NEW r \in Objects PROVE wrote[r] \subseteq {Value(obj'[r].spec, obj'[r].applied)}
      <3>1. CASE r = cur
        BY <1>1, <2>1, <2>2, <2>3, <3>1 DEF SmoothInv, Value
      <3>2. CASE r # cur
        BY <1>1, <2>3, <3>2 DEF SmoothInv, Value
      <3> QED BY <3>1, <3>2
    <2> QED BY <1>1, <2>1, <2>3, <2>4 DEF SmoothInv, Value
  <1>10. CASE finalizeRecord
    <2>1. pc = "finalize" /\ pc' = "drop" /\ UNCHANGED <<stored, cur, loc>>
      BY <1>10 DEF finalizeRecord
    <2>2. obj' = obj /\ Held' = Held
      BY <2>1 DEF stored, Held
    <2>3. \A r \in Objects : wrote'[r] \subseteq wrote[r]
      BY <1>10, <2>1, Additions DEF Next, Operator, Working, Finalizing
    <2>4. wrote'[cur] = {}
      <3>1. CASE wrote' = [wrote EXCEPT ![cur] = {}]
        BY <1>2, <3>1 DEF DataTypes
      <3>2. CASE DeleteRecord(loc.spec.rrset, appliedSpec(loc).data)
        <4>1. loc.applied = obj[cur].applied /\ loc.spec.rrset = obj[cur].spec.rrset
          BY <1>1, <1>2, <2>1 DEF Prompt, PassCopy, Finalizing
        <4>2. wrote[cur] \subseteq {<<loc.spec.rrset, loc.applied>>} /\ wrote[cur] \subseteq RRSets \X Data
          BY <1>1, <1>2, <2>1, <4>1 DEF SmoothInv, Early, Value, DataTypes
        <4>3. wrote'[cur] = wrote[cur] \ {<<loc.spec.rrset, appliedSpec(loc).data>>}
          <5>1. appliedSpec(loc).data \in Data
            BY <1>2, AppliedTypes, Zenon
          <5> QED BY <1>2, <3>2, <5>1, DeleteTakes, Zenon
        <4>4. CASE loc.applied = NotApplied
          <5>1. wrote[cur] = {}
            BY <4>2, <4>4, RecordConstants
          <5> QED BY <4>3, <5>1
        <4>5. CASE loc.applied # NotApplied
          BY <1>2, <4>2, <4>3, <4>5, AppliedTypes
        <4> QED BY <4>4, <4>5
      <3> QED BY <1>10, <3>1, <3>2 DEF finalizeRecord
    <2> QED BY <1>1, <2>1, <2>2, <2>3, <2>4 DEF SmoothInv, Early, Value
  <1>11. ASSUME UserStep \/ ClusterStep, wrote' = wrote, pc' = "idle" \/ reads' = reads,
                \A r \in Objects : wrote[r] # {} =>
                   /\ obj'[r].spec.rrset = obj[r].spec.rrset /\ obj'[r].applied = obj[r].applied
                   /\ r \in Held => r \in Held'
         PROVE  SmoothInv'
    <2>1. UNCHANGED <<pc, cur, loc>>
      BY <1>11, WorldStays
    <2> QED BY <1>1, <1>11, <2>1, SmoothStay
  <1>12. \A r \in Objects : r \notin Held => wrote[r] = {}
    BY <1>1 DEF SmoothInv
  <1>13. ASSUME NEW r \in Objects, NEW s \in Specs, Create(r, s), Shared PROVE SmoothInv'
    <2>1. UserStep /\ wrote' = wrote /\ (pc' = "idle" \/ reads' = reads)
      BY <1>13 DEF UserStep, Shared
    <2>2. wrote[r] = {} /\ \A q \in Objects \ {r} : obj'[q] = obj[q]
      BY <1>2, <1>12, <1>13, CreateEffect DEF Renewed
    <2> QED BY <1>11, <2>1, <2>2 DEF Held
  <1>14. ASSUME NEW r \in Objects, NEW s \in Specs, EditRecord(r, s) PROVE SmoothInv'
    <2>1. UserStep /\ wrote' = wrote /\ reads' = reads /\ Respecified(r, s) /\ s.rrset = obj[r].spec.rrset
      BY <1>2, <1>14, EditEffect DEF EditRecord, UserStep
    <2>2. Held' = Held
      BY <1>2, <2>1, UserStepKeeps
    <2> QED BY <1>11, <2>1, <2>2 DEF Respecified
  <1>15. CASE ClusterStep /\ Shared
    <2>1. wrote' = wrote /\ (pc' = "idle" \/ reads' = reads)
      BY <1>15 DEF Shared
    <2>2. ASSUME NEW r \in Objects, Delete(r) PROVE SmoothInv'
      <3>1. Held' = Held
        BY <1>2, <2>2, UserStepKeeps DEF UserStep
      <3>2. Calm \/ (Renewed(r) /\ wrote[r] = {})
        BY <1>2, <1>12, <2>2, DeleteEffect
      <3> QED BY <1>11, <1>15, <2>1, <3>1, <3>2 DEF Calm, Renewed
    <2>3. ASSUME NEW r \in Objects, CacheSync(r) PROVE SmoothInv'
      <3>1. obj' = obj
        BY <2>3 DEF CacheSync
      <3> QED BY <1>11, <1>15, <2>1, <3>1 DEF Held
    <2>4. CASE Outage("unready") \/ Outage("noSecret") \/ Recover
      <3>1. obj' = obj
        BY <2>4 DEF Outage, Recover, stored
      <3> QED BY <1>11, <1>15, <2>1, <3>1 DEF Held
    <2> QED BY <1>15, <2>2, <2>3, <2>4 DEF ClusterStep
  <1>16. ~ClusterGone /\ ~Drift
    <2>1. outages \in Nat /\ drifts \in Nat /\ UNCHANGED <<outages, drifts>>
      BY <1>1, CounterTypes, Zenon
    <2> QED BY <2>1 DEF ClusterGone, Outage, Drift
  <1> QED BY <1>3, <1>4, <1>5, <1>6, <1>7, <1>8, <1>9, <1>10, <1>13, <1>14, <1>15, <1>16 DEF Next, Operator, World

-----------------------------------------------------------------------------
(* The inductive invariant. *)

IInv ==
  Typed /\ Reads /\ ServerInv /\ Up /\ Prompt /\ StoredCopies /\ PassCopy /\ Unmoved /\ Smooth

\* Initially nothing was written.
LEMMA InvInit == Init => IInv
  <1> SUFFICES ASSUME Init PROVE IInv
    OBVIOUS
  <1>1. Typed /\ Reads /\ Prompt
    BY ReadsInvariant, PromptInit DEF Init
  <1>2. pc = "idle" /\ cluster = "up" /\ wrote = [r \in Objects |-> {}] /\ server = NoServer
        /\ obj = [r \in Objects |-> NoObj] /\ cached = obj
    BY DEF Init, ResourceInit
  <1>3. \A k \in RRSets, d \in Data : server[k][d] = Absent
    BY <1>2 DEF NoServer, NoRecords
  <1>4. ServerInv
    BY <1>2, <1>3, RecordConstants DEF ServerInv
  <1>5. Up /\ Unmoved /\ Smooth
    BY <1>2 DEF Up, Unmoved, Smooth, SmoothInv
  <1>6. StoredCopies /\ PassCopy
    <2>1. ~NoObj.exists /\ NoObj.applied = NotApplied
      BY DEF NoObj
    <2> QED BY <1>2, <2>1 DEF StoredCopies, PassCopy, Steady, Working, Finalizing
  <1> QED BY <1>1, <1>4, <1>5, <1>6 DEF IInv

\* Every step keeps it.
LEMMA InvStep == ASSUME ~SecretLoss, ~EditRRSet, IInv, Next PROVE IInv'
  <1>1. Typed' /\ Reads' /\ ServerInv' /\ Up'
    BY ReadsInvariant, ServerStep, UpStep DEF IInv
  <1>2. StoredCopies' /\ PassCopy'
    BY <1>1, CopiesStep DEF IInv
  <1>3. Unmoved' /\ Smooth'
    BY UnmovedStep, SmoothStep DEF IInv
  <1>4. Prompt'
    <2>0. RInv /\ Prompt
      BY DEF IInv, Typed
    <2>1. ASSUME WorkerStep(Calls) \/ UserStep \/ ClusterStep PROVE Prompt'
      BY <2>0, <2>1, PromptShared
    <2>2. CASE OwnStep
      BY <2>0, <2>2, OwnAdvance, PromptAdvance
    <2>3. CASE Refused \/ markRecordReady
      BY <2>0, <2>3, PromptFails DEF Refused, markRecordReady, Fails
    <2>4. CASE \E r \in Objects, s \in Specs : Create(r, s) \/ EditRecord(r, s)
      BY <2>1, <2>4 DEF EditRecord, UserStep
    <2>5. CASE ClusterGone \/ Drift
      BY <2>0, <2>5, PromptIdle DEF ClusterGone, Outage, Drift, resource
    <2> QED BY <2>1, <2>2, <2>3, <2>4, <2>5 DEF Next, Operator, World, OwnStep
  <1> QED BY <1>1, <1>2, <1>3, <1>4 DEF IInv

\* Stuttering.
LEMMA InvStutter == ASSUME IInv, UNCHANGED vars PROVE IInv'
  <1>1. /\ UNCHANGED <<stored, worker, limits, obj, cached, pc, cur, loc, current, cluster, faults, outages>>
        /\ UNCHANGED <<server, reads, drifts, wrote, moved>>
    BY DEF vars, resource, stored, worker, limits
  <1>2. Typed' /\ Reads'
    BY ReadsInvariant DEF IInv
  <1>3. Prompt' /\ Stale' = Stale /\ Held' = Held
    BY <1>1, PromptIdle, StaleSame DEF IInv, Held
  <1>4. ServerInv' /\ Up' /\ StoredCopies' /\ PassCopy'
    BY <1>1 DEF IInv, ServerInv, Up, StoredCopies, PassCopy, Steady, Working
  <1>5. Unmoved' /\ Smooth'
    BY <1>1, <1>3 DEF IInv, Unmoved, Smooth, SmoothInv, Undisturbed, Value
  <1> QED BY <1>2, <1>3, <1>4, <1>5 DEF IInv

\* The invariant says where every value is named.
LEMMA InvNames == IInv => NoValueForgotten
  <1> SUFFICES ASSUME IInv, NEW r \in Objects, r \in moved => Undisturbed /\ drifts = 0, NEW v \in wrote[r]
               PROVE  /\ obj[r].exists
                      /\ \/ v[1] = obj[r].spec.rrset /\ v[2] \in {obj[r].spec.data, obj[r].applied}
                         \/ cur = r /\ pc # "idle" /\ v = <<loc.spec.rrset, loc.spec.data>>
    BY DEF NoValueForgotten
  <1>1. CASE r \notin moved
    <2>1. r \in Held /\ v = <<obj[r].spec.rrset, obj[r].spec.data>>
      BY <1>1 DEF IInv, Unmoved, Value
    <2> QED BY <2>1 DEF Held
  <1>2. CASE r \in moved
    <2>1. SmoothInv /\ ~Lag /\ pc \in Steps
      BY <1>2 DEF IInv, Smooth, Undisturbed, Typed
    <2>2. obj[r].exists
      BY <2>1 DEF SmoothInv, Held
    <2>3. CASE r = cur => pc \in Early
      <3>1. v = <<obj[r].spec.rrset, obj[r].applied>>
        BY <2>1, <2>3 DEF SmoothInv, Value
      <3> QED BY <2>2, <3>1
    <2>4. CASE r = cur /\ pc \notin Early
      <3>1. pc \in {"stale", "ready"}
        BY <2>1, <2>4 DEF SmoothInv, Early, Steps
      <3>2. v \in {Value(loc.spec, loc.spec.data), Value(loc.spec, loc.applied)}
        BY <2>1, <2>4, <3>1 DEF SmoothInv
      <3>3. loc.spec.rrset = obj[r].spec.rrset /\ loc.applied = obj[r].applied
        BY <2>1, <2>4, <3>1 DEF IInv, PassCopy, Prompt, Working, Finalizing
      <3>4. cur = r /\ pc # "idle"
        BY <2>4, <3>1
      <3>5. CASE v = Value(loc.spec, loc.spec.data)
        BY <2>2, <3>4, <3>5, Zenon DEF Value
      <3>6. CASE v = Value(loc.spec, loc.applied)
        <4>1. v[1] = obj[r].spec.rrset /\ v[2] = obj[r].applied
          BY <3>3, <3>6 DEF Value
        <4> QED BY <2>2, <4>1, Zenon
      <3> QED BY <3>2, <3>5, <3>6, Zenon
    <2> QED BY <2>3, <2>4
  <1> QED BY <1>1, <1>2

\* No value a Record put on the server is ever forgotten (status.appliedData,
\* deleteStaleRecord, finalizeRecord): for any number of Records, any cache lag and
\* any failures as long as its data is not edited, and through edits of its data as
\* long as no pass is cut short.  A Record's zone and type are not edited, and the
\* cluster keeps its Secret.
THEOREM NothingForgotten == ASSUME ~SecretLoss, ~EditRRSet PROVE Spec => []NoValueForgotten
  <1>1. IInv /\ [Next]_vars => IInv'
    BY InvStep, InvStutter
  <1> QED BY InvInit, InvNames, <1>1, PTL DEF Spec
-----------------------------------------------------------------------------
(* What status names, while passes are cut short and data is edited. *)

\* Before it changes anything, a pass has seen what else its Record has on the
\* server; the value status names is off the server before status is written, and
\* before the finalizer goes.  Nothing is applied for a Record without one.
OldGone == loc.applied # NotApplied => Value(loc.spec, loc.applied) \notin wrote[cur]
Seen == \A d \in Data : Value(loc.spec, d) \in wrote[cur] => d = loc.spec.data \/ reads[d] # Absent
PassTracks ==
  /\ pc \in {"apply", "stale"} => Seen
  /\ pc \in {"apply", "stale"} /\ loc.spec.rrset \in Single =>
       \A d, e \in Data : reads[d] # Absent /\ reads[e] # Absent => d = e
  /\ pc = "stale" /\ loc.spec.rrset \in Single => \A d \in Data : reads[d] # Absent => d = loc.spec.data
  /\ pc \in {"add", "ready"} => loc.applied = loc.spec.data \/ OldGone
  /\ pc = "drop" => OldGone
AppliedHeld == \A r \in Objects : obj[r].applied # NotApplied => r \in Held
Tracked == ~Lag => PassTracks /\ AppliedHeld

\* A step that leaves the pass where it is, and adds nothing.
LEMMA TracksStay ==
  ASSUME PassTracks, UNCHANGED <<pc, cur, loc>>, pc \in {"apply", "stale"} => reads' = reads,
         \A r \in Objects : wrote'[r] \subseteq wrote[r], cur \in Objects
  PROVE  PassTracks'
  <1>1. wrote'[cur'] \subseteq wrote[cur] /\ (OldGone => OldGone')
    BY DEF OldGone, Value
  <1>2. pc \in {"apply", "stale"} => Seen /\ Seen'
    BY <1>1 DEF PassTracks, Seen, Value
  <1> QED BY <1>1, <1>2 DEF PassTracks

\* The step in which the desired value is applied.
LEMMA TracksApply == ASSUME Typed, PassTracks, apply PROVE PassTracks'
  <1>0. /\ RInv /\ cur \in Objects /\ DataTypes /\ loc.spec \in RecordSpec
        /\ loc.spec.rrset \in RRSets /\ loc.spec.data \in Data
    BY SpecTypes DEF Typed, RInv, PassTypes, RecordSpec
  <1>1. pc = "apply" /\ UNCHANGED <<cur, loc, reads>> /\ Seen
    BY DEF apply, PassTracks
  <1>2. CASE \E d \in findRecord(reads, loc.spec) \ {loc.spec.data} : DeleteRecord(loc.spec.rrset, d) /\ pc' = "add"
    <2>1. PICK d \in findRecord(reads, loc.spec) \ {loc.spec.data} : DeleteRecord(loc.spec.rrset, d) /\ pc' = "add"
      BY <1>2
    <2>2. loc.spec.rrset \in Single /\ d \in Data /\ reads[d] # Absent
      BY <1>0, <2>1 DEF findRecord, Present
    <2>3. wrote'[cur] = wrote[cur] \ {<<loc.spec.rrset, d>>}
      BY <1>0, <2>1, <2>2, DeleteTakes, Zenon
    <2>4. ASSUME NEW e \in Data, e # loc.spec.data PROVE Value(loc.spec, e) \notin wrote'[cur]
      <3>1. Value(loc.spec, e) \in wrote[cur] => e = d
        BY <1>1, <2>2, <2>4 DEF PassTracks, Seen
      <3> QED BY <2>3, <3>1 DEF Value
    <2>5. loc.applied \in Data \cup {NotApplied}
      BY <1>0, RecordConstants DEF RInv, PassTypes, ObjectType
    <2>6. loc.applied = loc.spec.data \/ OldGone'
      BY <1>1, <2>4, <2>5 DEF OldGone, Value
    <2> QED BY <1>1, <2>1, <2>6 DEF PassTracks
  <1>3. ASSUME pc' = "stale", wrote'[cur] \subseteq wrote[cur] \cup {Value(loc.spec, loc.spec.data)},
               findRecord(reads, loc.spec) = {} \/ loc.spec.data \in findRecord(reads, loc.spec)
        PROVE  PassTracks'
    <2>1. Seen'
      BY <1>1, <1>3 DEF Seen, Value
    <2>2. ASSUME loc.spec.rrset \in Single, NEW d \in Data, reads[d] # Absent PROVE d = loc.spec.data
      <3>1. d \in findRecord(reads, loc.spec)
        BY <2>2 DEF findRecord, Present
      <3>2. reads[loc.spec.data] # Absent
        BY <1>3, <3>1 DEF findRecord, Present
      <3> QED BY <1>0, <1>1, <2>2, <3>2 DEF PassTracks
    <2> QED BY <1>1, <1>3, <2>1, <2>2 DEF PassTracks
  <1>4. ASSUME AddRecord(loc.spec) PROVE wrote'[cur] \subseteq wrote[cur] \cup {Value(loc.spec, loc.spec.data)}
    BY <1>0, <1>4, AddFacts
  <1> QED BY <1>2, <1>3, <1>4 DEF apply, InSync

\* The steps after it: of the old value nothing is left.
LEMMA TracksFinish == ASSUME Typed, PassTracks, readd \/ deleteStaleRecord \/ finalizeRecord PROVE PassTracks'
  <1>0. /\ RInv /\ cur \in Objects /\ DataTypes /\ loc.spec \in RecordSpec
        /\ loc.spec.rrset \in RRSets /\ loc.spec.data \in Data /\ loc.applied \in Data \cup {NotApplied}
    BY SpecTypes, RecordConstants DEF Typed, RInv, PassTypes, RecordSpec, ObjectType
  <1>1. CASE readd
    <2>1. pc = "add" /\ pc' = "ready" /\ UNCHANGED <<cur, loc>> /\ AddRecord(loc.spec)
      BY <1>1 DEF readd
    <2>2. wrote'[cur] \subseteq wrote[cur] \cup {Value(loc.spec, loc.spec.data)}
      BY <1>0, <2>1, AddFacts
    <2>3. loc.applied = loc.spec.data \/ OldGone'
      BY <2>1, <2>2 DEF PassTracks, OldGone, Value
    <2> QED BY <2>1, <2>3 DEF PassTracks
  <1>2. CASE deleteStaleRecord
    <2>1. pc = "stale" /\ pc' = "ready" /\ UNCHANGED <<cur, loc>>
      BY <1>2 DEF deleteStaleRecord
    <2>2. CASE Stale
      <3>1. loc.applied \in Data /\ DeleteRecord(loc.spec.rrset, loc.applied)
        BY <1>0, <1>2, <2>2 DEF deleteStaleRecord, Stale
      <3>2. wrote'[cur] = wrote[cur] \ {<<loc.spec.rrset, loc.applied>>}
        BY <1>0, <3>1, DeleteTakes, Zenon
      <3>3. OldGone'
        BY <2>1, <3>2 DEF OldGone, Value
      <3> QED BY <2>1, <3>3 DEF PassTracks
    <2>3. CASE ~Stale
      <3>1. wrote' = wrote
        BY <1>2, <2>3 DEF deleteStaleRecord
      <3>2. loc.applied = loc.spec.data \/ OldGone
        <4> SUFFICES ASSUME loc.applied # loc.spec.data, loc.applied # NotApplied, Value(loc.spec, loc.applied) \in wrote[cur]
                     PROVE  FALSE
          BY DEF OldGone
        <4>1. loc.applied \in Data /\ reads[loc.applied] # Absent
          BY <1>0, <2>1 DEF PassTracks, Seen
        <4>2. loc.spec.rrset \notin Single
          BY <2>1, <4>1 DEF PassTracks
        <4>3. appliedSpec(loc).rrset = loc.spec.rrset /\ appliedSpec(loc).data = loc.applied
          BY <1>0 DEF appliedSpec, RecordSpec
        <4>4. loc.applied \in findRecord(reads, appliedSpec(loc))
          BY <4>1, <4>2, <4>3 DEF findRecord, Present
        <4> QED BY <2>3, <4>2, <4>4 DEF Stale
      <3>3. loc.applied = loc.spec.data \/ OldGone'
        BY <2>1, <3>1, <3>2 DEF OldGone, Value
      <3> QED BY <2>1, <3>3 DEF PassTracks
    <2> QED BY <2>2, <2>3
  <1>3. CASE finalizeRecord
    <2>1. pc' = "drop" /\ UNCHANGED <<cur, loc>>
      BY <1>3 DEF finalizeRecord
    <2>2. CASE wrote' = [wrote EXCEPT ![cur] = {}]
      <3>1. wrote'[cur] = {}
        BY <1>0, <2>2 DEF DataTypes
      <3> QED BY <2>1, <3>1 DEF PassTracks, OldGone
    <2>3. CASE DeleteRecord(loc.spec.rrset, appliedSpec(loc).data)
      <3>1. appliedSpec(loc).data \in Data /\ (loc.applied # NotApplied => appliedSpec(loc).data = loc.applied)
        BY <1>0, AppliedTypes, Zenon
      <3>2. wrote'[cur] = wrote[cur] \ {<<loc.spec.rrset, appliedSpec(loc).data>>}
        BY <1>0, <2>3, <3>1, DeleteTakes, Zenon
      <3>3. OldGone'
        BY <2>1, <3>1, <3>2 DEF OldGone, Value
      <3> QED BY <2>1, <3>3 DEF PassTracks
    <2> QED BY <1>3, <2>2, <2>3 DEF finalizeRecord
  <1> QED BY <1>1, <1>2, <1>3

\* Every step keeps track of the pass.
LEMMA TracksStep == ASSUME Typed, Up, ServerInv, PassTracks, Next PROVE PassTracks'
  <1>0. RInv /\ cur \in Objects /\ DataTypes /\ loc.spec.rrset \in RRSets
    BY SpecTypes DEF Typed, RInv, PassTypes, RecordSpec
  <1>1. ASSUME pc' \in {"idle", "finalizer", "reconcile", "finalize"} PROVE PassTracks'
    BY <1>1 DEF PassTracks
  <1>2. CASE WorkerStep(Calls) /\ Shared
    <2>1. CASE pc = "finalize" /\ resolve = "notFound" /\ UNCHANGED <<cur, loc>> /\ pc' = "drop"
      <3>1. wrote'[cur] = {}
        BY <1>0, <1>2, <2>1 DEF Up, resolve, Shared
      <3> QED BY <2>1, <3>1 DEF PassTracks, OldGone
    <2>2. CASE pc' \in {"idle", "finalizer", "reconcile", "finalize"}
      BY <1>1, <2>2
    <2> QED BY <1>2, <2>1, <2>2 DEF WorkerStep, Reconcile, AddFinalizer, Unresolved, FinalizeUnresolved, DropFinalizer,
               PassFails, EndPass
  <1>3. CASE GetRecords
    <2>1. pc' = "apply" /\ UNCHANGED <<cur, loc, wrote>> /\ reads' = server[loc.spec.rrset]
      BY <1>3 DEF GetRecords
    <2>2. \A d \in Data : Value(loc.spec, d) \in wrote[cur] => server[loc.spec.rrset][d] # Absent
      BY <1>0 DEF ServerInv, Value
    <2>3. Seen'
      BY <2>1, <2>2 DEF Seen, Value
    <2> QED BY <2>1, <2>3 DEF PassTracks, ServerInv
  <1>4. CASE apply \/ readd \/ deleteStaleRecord \/ finalizeRecord
    BY <1>4, TracksApply, TracksFinish
  <1>5. CASE Refused \/ markRecordReady
    BY <1>1, <1>5 DEF Refused, markRecordReady, markReady, EndPass
  <1>6. ASSUME UserStep \/ ClusterStep, wrote' = wrote, pc' = "idle" \/ reads' = reads PROVE PassTracks'
    <2>1. UNCHANGED <<pc, cur, loc>>
      BY <1>6, WorldStays
    <2> QED BY <1>0, <1>6, <2>1, TracksStay
  <1>7. CASE \E r \in Objects, s \in Specs : (Create(r, s) /\ Shared) \/ EditRecord(r, s)
    <2>1. UserStep /\ wrote' = wrote /\ (pc' = "idle" \/ reads' = reads)
      BY <1>7, Zenon DEF UserStep, EditRecord, Shared
    <2> QED BY <1>6, <2>1
  <1>8. CASE ClusterStep /\ Shared
    BY <1>6, <1>8 DEF Shared
  <1>9. CASE ClusterGone \/ Drift
    <2>1. UNCHANGED <<pc, cur, loc, reads>>
      BY <1>9 DEF ClusterGone, Drift, Outage, resource, worker
    <2>2. \A r \in Objects : wrote'[r] \subseteq wrote[r]
      <3>1. CASE ClusterGone
        BY <3>1 DEF ClusterGone
      <3>2. CASE Drift
        <4>1. wrote' = wrote \/ \E k \in RRSets, d \in Data : DeleteRecord(k, d)
          BY <3>2 DEF Drift
        <4> QED BY <1>0, <4>1, DeleteTakes, Zenon
      <3> QED BY <1>9, <3>1, <3>2
    <2> QED BY <1>0, <2>1, <2>2, TracksStay
  <1> QED BY <1>2, <1>3, <1>4, <1>5, <1>7, <1>8, <1>9 DEF Next, Operator, World

\* What status named before a step and does not name after it is off the server,
\* and what it names is named for a Record that has its finalizer.
LEMMA KnownStep ==
  ASSUME ~Lag, IInv, PassTracks, AppliedHeld, Next
  PROVE  /\ AppliedHeld'
         /\ \A r \in Objects :
              obj[r].applied \notin {NotApplied, obj'[r].applied} => Value(obj[r].spec, obj[r].applied) \notin wrote'[r]
  <1> DEFINE Known == \A r \in Objects :
               obj[r].applied \notin {NotApplied, obj'[r].applied} => Value(obj[r].spec, obj[r].applied) \notin wrote'[r]
  <1>0. RInv /\ cur \in Objects /\ loc.spec \in RecordSpec /\ loc.spec.data \in Data
    BY SpecTypes DEF IInv, Typed, RInv, PassTypes, RecordSpec
  <1>1. ASSUME \A r \in Objects : obj'[r].applied = obj[r].applied, Held \subseteq Held' PROVE AppliedHeld' /\ Known
    BY <1>1 DEF AppliedHeld
  <1>2. ASSUME NEW r \in Objects, Renewed(r), r \notin Held, Held \subseteq Held' PROVE AppliedHeld' /\ Known
    <2>1. obj[r].applied = NotApplied /\ obj'[r].applied = NotApplied
      BY <1>2 DEF AppliedHeld, Renewed
    <2>2. \A q \in Objects \ {r} : obj'[q].applied = obj[q].applied
      BY <1>2 DEF Renewed
    <2> QED BY <1>1, <1>2, <2>1, <2>2
  <1>3. CASE WorkerStep(Calls) /\ Shared
    <2>1. CASE Calm /\ Held \subseteq Held'
      BY <1>1, <2>1 DEF Calm
    <2>2. CASE pc = "drop" /\ current /\ Renewed(cur)
      <3>1. OldGone /\ wrote' = wrote
        BY <1>3, <2>2 DEF PassTracks, Shared
      <3>2. loc = obj[cur]
        BY <1>0, <2>2 DEF RInv, PassInv
      <3>3. \A q \in Objects \ {cur} : obj'[q] = obj[q]
        BY <2>2 DEF Renewed
      <3>4. AppliedHeld'
        BY <2>2, <3>3 DEF AppliedHeld, Renewed, Held
      <3>5. Known
        BY <3>1, <3>2, <3>3 DEF OldGone, Value
      <3> QED BY <3>4, <3>5
    <2> QED BY <1>0, <1>3, <2>1, <2>2, WorkerEffect
  <1>4. CASE OwnStep
    <2>1. obj' = obj /\ Held' = Held
      BY <1>4, OwnAdvance DEF stored, Held
    <2> QED BY <1>1, <2>1
  <1>5. CASE Refused
    <2>1. Fails
      BY <1>5 DEF Refused, Fails
    <2>2. Calm /\ Held' = Held
      BY <1>0, <2>1, FailsEffect, FailsStep
    <2> QED BY <1>1, <2>2 DEF Calm
  <1>6. CASE markRecordReady
    <2>1. markReady(loc.spec.data) /\ wrote' = wrote /\ pc = "ready" /\ loc.spec.data \in Applied
      BY <1>0, <1>6, RecordConstants DEF markRecordReady, markReady
    <2>2. Working(pc) /\ cur \in Held /\ fresh[cur] /\ loc.spec.rrset = obj[cur].spec.rrset /\ loc.applied = obj[cur].applied
      BY <1>0, <2>1 DEF IInv, Working, Finalizing, RInv, PassInv, Prompt, PassCopy
    <2>3. /\ Held' = Held /\ (\A r \in Objects : obj'[r].spec = obj[r].spec)
          /\ (\A r \in Objects \ {cur} : obj'[r].applied = obj[r].applied) /\ obj'[cur].applied = loc.spec.data
      BY <1>0, <2>1, <2>2, MarkReadyStep, ReadyEffect DEF Held
    <2>4. loc.applied = loc.spec.data \/ OldGone
      BY <2>1 DEF PassTracks
    <2>5. AppliedHeld'
      BY <2>2, <2>3 DEF AppliedHeld
    <2>6. Known
      BY <2>1, <2>2, <2>3, <2>4 DEF OldGone, Value
    <2> QED BY <2>5, <2>6
  <1>7. ASSUME UserStep PROVE Held' = Held
    BY <1>0, <1>7, UserStepKeeps
  <1>8. ASSUME NEW r \in Objects, NEW s \in Specs, Create(r, s) PROVE AppliedHeld' /\ Known
    <2>1. Renewed(r) /\ r \notin Held
      BY <1>0, <1>8, CreateEffect
    <2>2. UserStep
      BY <1>8 DEF UserStep
    <2> QED BY <1>2, <1>7, <2>1, <2>2
  <1>9. ASSUME NEW r \in Objects, NEW s \in Specs, EditRecord(r, s) PROVE AppliedHeld' /\ Known
    <2>1. UserStep /\ Respecified(r, s)
      BY <1>0, <1>9, EditEffect DEF EditRecord, UserStep
    <2>2. \A q \in Objects : obj'[q].applied = obj[q].applied
      BY <2>1 DEF Respecified
    <2> QED BY <1>1, <1>7, <2>1, <2>2
  <1>10. CASE ClusterStep
    <2>1. ASSUME NEW r \in Objects, Delete(r) PROVE AppliedHeld' /\ Known
      <3>1. UserStep /\ (Calm \/ (Renewed(r) /\ r \notin Held))
        BY <1>0, <2>1, DeleteEffect DEF UserStep
      <3> QED BY <1>1, <1>2, <1>7, <3>1 DEF Calm
    <2>2. ASSUME NEW r \in Objects, CacheSync(r) PROVE AppliedHeld' /\ Known
      BY <1>1, <2>2 DEF CacheSync, Held
    <2>3. CASE Outage("unready") \/ Outage("noSecret") \/ Recover
      BY <1>1, <2>3 DEF Outage, Recover, stored, Held
    <2> QED BY <1>10, <2>1, <2>2, <2>3 DEF ClusterStep
  <1>11. CASE ClusterGone \/ Drift
    BY <1>1, <1>11 DEF ClusterGone, Outage, Drift, resource, stored, Held
  <1> QED BY <1>3, <1>4, <1>5, <1>6, <1>8, <1>9, <1>10, <1>11 DEF Next, Operator, World, OwnStep

\* Status stops naming a value only once it is off the server, or is to stay
\* (deleteStaleRecord, markReady, finalizeRecord), with any number of Records,
\* through edits of their data, failed passes, outages and foreign writes, if the
\* cache does not lag; a Record's zone and type are not edited, and the cluster
\* keeps its Secret.
THEOREM StatusKnows == ASSUME ~SecretLoss, ~EditRRSet PROVE Spec => KnownUntilRemoved
  <1>1. Init => IInv /\ Tracked
    <2> SUFFICES ASSUME Init PROVE IInv /\ Tracked
      OBVIOUS
    <2>1. pc = "idle" /\ obj = [r \in Objects |-> NoObj]
      BY DEF Init, ResourceInit
    <2>2. NoObj.applied = NotApplied
      BY DEF NoObj
    <2>3. \A r \in Objects : obj[r].applied = NotApplied
      BY <2>1, <2>2
    <2>4. PassTracks
      BY <2>1 DEF PassTracks
    <2>5. AppliedHeld
      BY <2>3 DEF AppliedHeld
    <2> QED BY <2>4, <2>5, InvInit DEF Tracked
  <1>2. ASSUME IInv, Tracked, [Next]_vars PROVE IInv' /\ Tracked'
    <2>1. CASE Next
      <3>1. IInv'
        BY <1>2, <2>1, InvStep
      <3>2. ~Lag => PassTracks' /\ AppliedHeld'
        BY <1>2, <2>1, TracksStep, KnownStep DEF Tracked, IInv
      <3> QED BY <3>1, <3>2 DEF Tracked
    <2>2. CASE UNCHANGED vars
      <3>1. UNCHANGED <<pc, cur, loc, reads, wrote, obj>> /\ cur \in Objects
        BY <1>2, <2>2 DEF vars, resource, stored, worker, IInv, Typed, RInv, PassTypes
      <3>2. ~Lag => PassTracks'
        BY <1>2, <3>1, TracksStay DEF Tracked
      <3>3. ~Lag => AppliedHeld'
        BY <1>2, <3>1 DEF Tracked, AppliedHeld, Held
      <3> QED BY <1>2, <2>2, <3>2, <3>3, InvStutter DEF Tracked
    <2> QED BY <1>2, <2>1, <2>2
  <1>3. ASSUME IInv, Tracked, [Next]_vars
        PROVE  [~Lag => \A r \in Objects :
                  obj[r].applied \notin {NotApplied, obj'[r].applied} => <<obj[r].spec.rrset, obj[r].applied>> \notin wrote'[r]]_vars
    <2>1. CASE Next
      BY <1>3, <2>1, KnownStep DEF Tracked, Value
    <2> QED BY <1>3, <2>1
  <1> QED BY <1>1, <1>2, <1>3, PTL DEF Spec, KnownUntilRemoved
=============================================================================
