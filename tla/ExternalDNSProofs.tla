-------------------------- MODULE ExternalDNSProofs --------------------------
(***************************************************************************)
(* NeverFewer holds of ExternalDNS for every set of endpoints, targets and *)
(* Records and any number of failures.  The argument: as long as there is  *)
(* something to create no Record was deleted by the Plan, so the old ones  *)
(* are still there; from then on the new ones are, and what the Plan       *)
(* deletes is none of them.                                                *)
(***************************************************************************)
EXTENDS ExternalDNS, WellFoundedInduction, TLAPS

\* The Record of a target an update asks for.
New(n) == n[1] \in plan.update /\ n[2] \in wanted[n[1]].targets

\* The inductive invariant: what an update asks for is there or still to be
\* created, the Plan deletes none of it, and until the last create nothing is
\* missing of what there was.
Progress ==
  pc = "apply" =>
    /\ \A n \in RecordName : New(n) /\ n \notin doomed \cup plan.create => n \in Live
    /\ \A n \in plan.delete : ~New(n)
    /\ plan.create # {} => before \ doomed \subseteq Live

IInv == TypeOK /\ Progress

-----------------------------------------------------------------------------

\* A Record's name and the endpoint it belongs to.
LEMMA Names == ASSUME NEW n \in RecordName PROVE n[1] \in Keys /\ n[2] \in Targets
  BY DEF RecordName

\* What apply stores is in range: Stored clamps the TTL to an int32.
LEMMA StoredType == ASSUME NEW ttl \in Nat PROVE Stored(ttl) \in 0 .. MaxTTL
  BY ExternalDNSConstants DEF Stored

\* A set of numbers that is not empty has a least one.
LEMMA Least == ASSUME NEW S \in SUBSET Nat, S # {} PROVE \E m \in S : \A n \in S : m <= n
  <1> DEFINE R == {ss \in Nat \X Nat : ss[1] < ss[2]}
  <1>1. IsWellFoundedOn(R, Nat)
    BY NatLessThanWellFounded DEF OpToRel
  <1> HIDE DEF R
  <1>2. PICK m \in S : \A n \in S : <<n, m>> \notin R
    BY <1>1, WFMin
  <1>3. \A n \in S : ~(n < m)
    BY <1>2 DEF R
  <1> QED BY <1>3

\* GET /records returns endpoints: what recordsToEndpoints takes for the first
\* Record of a key is one of its Records, and a formatted target is a target.
LEMMA EndpointsType == ASSUME TypeOK PROVE Endpoints \in [Keys -> Endpoint]
  <1> DEFINE Found(k) == {t \in Targets : Exists(<<k, t>>)}
             First(k) == CHOOSE t \in Found(k) : \A u \in Found(k) : t <= u
  <1>1. ASSUME NEW k \in Keys, Found(k) # {}
        PROVE  [targets |-> {Data(k, t) : t \in Found(k)}, ttl |-> rec[<<k, First(k)>>].ttl] \in Endpoint
    <2>1. Found(k) \in SUBSET Nat
      BY ExternalDNSConstants
    <2>2. \E t \in Found(k) : \A u \in Found(k) : t <= u
      BY <1>1, <2>1, Least
    <2>3. First(k) \in Targets
      BY <2>2
    <2>4. rec[<<k, First(k)>>].ttl \in Nat
      <3>1. <<k, First(k)>> \in RecordName
        <4> HIDE DEF First
        <4> QED BY <2>3 DEF RecordName
      <3>2. rec[<<k, First(k)>>].ttl \in 0 .. MaxTTL
        BY <3>1 DEF TypeOK
      <3> QED BY <3>2, ExternalDNSConstants
    <2>5. {Data(k, t) : t \in Found(k)} \subseteq Targets
      BY ExternalDNSConstants DEF Data
    <2> QED BY <2>4, <2>5 DEF Endpoint
  <1>2. NoEndpoint \in Endpoint
    BY DEF NoEndpoint, Endpoint
  <1> QED BY <1>1, <1>2 DEF Endpoints

\* Every request, failure and edit keeps the state well-typed.
LEMMA TypeStep == TypeOK /\ [Next]_vars => TypeOK'
  <1> SUFFICES ASSUME TypeOK, [Next]_vars PROVE TypeOK'
    OBVIOUS
  <1> USE DEF TypeOK
  <1>l. Live \subseteq RecordName
    BY DEF Live
  <1>c. /\ edits < MaxEdits => edits + 1 \in 0 .. MaxEdits
        /\ faults < MaxFaults => faults + 1 \in 0 .. MaxFaults
    BY ExternalDNSConstants
  <1>0. NoPlan \in [update : SUBSET Keys, create : SUBSET RecordName, patch : SUBSET RecordName, delete : SUBSET RecordName]
    BY DEF NoPlan
  <1>e. NoEndpoints \in [Keys -> Endpoint] /\ NoEndpoint \in Endpoint
    BY DEF NoEndpoints, NoEndpoint, Endpoint
  <1>r. NoRecord \in [state : {"absent", "live", "deleting"}, ttl : 0 .. MaxTTL]
    BY ExternalDNSConstants DEF NoRecord
  <1>p. ASSUME NEW n \in RecordName, NEW s \in {"absent", "live", "deleting"}, Put(n, s)
        PROVE rec' \in [RecordName -> [state : {"absent", "live", "deleting"}, ttl : 0 .. MaxTTL]]
    <2>1. wanted[n[1]].ttl \in Nat
      BY Names DEF Endpoint
    <2>2. Stored(wanted[n[1]].ttl) \in 0 .. MaxTTL
      BY <2>1, StoredType
    <2> QED BY <1>p, <2>2 DEF Put
  <1>1. CASE records
    BY <1>1, EndpointsType DEF records, limits, history
  <1>2. CASE adjust
    BY <1>2, <1>e DEF adjust, Adjust, limits, history
  <1>3. CASE applyChanges
    <2>1. BuildPlan \in [update : SUBSET Keys, create : SUBSET RecordName, patch : SUBSET RecordName, delete : SUBSET RecordName]
      BY DEF BuildPlan, ToUpdate
    <2> QED BY <1>3, <2>1, <1>0, <1>e, <1>l DEF applyChanges, EndCycle, limits
  <1>4. CASE Applied
    BY <1>4, <1>0, <1>e DEF Applied, EndCycle, limits, history
  <1>5. ASSUME NEW n \in RecordName, CreateRecord(n) PROVE TypeOK'
    <2>1. rec' \in [RecordName -> [state : {"absent", "live", "deleting"}, ttl : 0 .. MaxTTL]]
      <3>1. CASE Put(n, IF Exists(n) THEN rec[n].state ELSE "live")
        BY <3>1, <1>p DEF Exists
      <3>2. CASE rec' = [rec EXCEPT ![n] = NoRecord]
        BY <3>2, <1>r
      <3> QED BY <1>5, <3>1, <3>2 DEF CreateRecord
    <2>2. doomed' \in SUBSET RecordName
      BY <1>5 DEF CreateRecord
    <2>3. /\ plan' \in [update : SUBSET Keys, create : SUBSET RecordName, patch : SUBSET RecordName, delete : SUBSET RecordName]
          /\ pc' \in {"idle", "apply"} /\ torn' \in BOOLEAN
          /\ current' \in [Keys -> Endpoint] /\ wanted' \in [Keys -> Endpoint]
      BY <1>5, <1>0, <1>e, ZenonT(40) DEF CreateRecord, Abort, EndCycle
    <2> QED BY <1>5, <2>1, <2>2, <2>3 DEF CreateRecord, limits
  <1>6. ASSUME NEW n \in RecordName, PatchRecord(n) PROVE TypeOK'
    <2>1. rec' \in [RecordName -> [state : {"absent", "live", "deleting"}, ttl : 0 .. MaxTTL]]
      BY <1>6, <1>p DEF PatchRecord
    <2> QED BY <1>6, <2>1, <1>0, <1>e, ZenonT(40) DEF PatchRecord, Abort, EndCycle, limits
  <1>7. ASSUME NEW n \in RecordName, DeleteRecord(n) PROVE TypeOK'
    BY <1>7, <1>r DEF DeleteRecord, limits, history
  <1>8. CASE Fails
    BY <1>8, <1>0, <1>e, <1>c DEF Fails, Abort, EndCycle
  <1>9. ASSUME NEW k \in Keys, Desire(k) PROVE TypeOK'
    <2>1. PICK e \in Sources[k] : desired' = [desired EXCEPT ![k] = e]
      BY <1>9 DEF Desire
    <2>2. e \in Endpoint
      BY ExternalDNSConstants DEF Endpoint
    <2> QED BY <1>9, <2>1, <2>2, <1>c DEF Desire, Edited, cycle
  <1>10. ASSUME NEW n \in RecordName, DeleteByHand(n) PROVE TypeOK'
    BY <1>10, <1>c DEF DeleteByHand, Edited, cycle
  <1>11. ASSUME NEW n \in RecordName, finalizeRecord(n) PROVE TypeOK'
    BY <1>11, <1>r DEF finalizeRecord, cycle, limits, history
  <1>12. CASE UNCHANGED vars
    BY <1>12 DEF vars, cycle, limits, history
  <1> QED
    BY <1>1, <1>2, <1>3, <1>4, <1>5, <1>6, <1>7, <1>8, <1>9, <1>10, <1>11, <1>12 DEF Next, Sync

\* apply's order of calls keeps what Progress says, whatever happens in between.
LEMMA ProgressStep == IInv /\ [Next]_vars => Progress'
  <1> SUFFICES ASSUME IInv, [Next]_vars, pc' = "apply" PROVE Progress'
    BY DEF Progress
  <1> USE DEF IInv, TypeOK
  <1>1. CASE records
    BY <1>1 DEF records
  <1>2. CASE adjust
    BY <1>2 DEF adjust
  <1>3. CASE applyChanges
    <2>1. /\ plan' = BuildPlan /\ before' = Live /\ doomed' = RecordName \ (Live \cup plan'.create)
          /\ wanted' = wanted /\ rec' = rec
      BY <1>3 DEF applyChanges, EndCycle
    <2>2. Live' = Live
      BY <2>1 DEF Live
    <2>3. \A n \in RecordName : New(n)' /\ n \notin doomed' \cup plan'.create => n \in Live'
      BY <2>1, <2>2
    <2>4. \A n \in plan'.delete : ~New(n)'
      BY <2>1 DEF BuildPlan, New, ToUpdate, ToDelete
    <2> QED BY <2>1, <2>2, <2>3, <2>4 DEF Progress
  <1>4. CASE Applied
    BY <1>4 DEF Applied, EndCycle
  <1>5. ASSUME NEW n \in RecordName, CreateRecord(n) PROVE Progress'
    <2>1. /\ pc = "apply" /\ n \in plan.create /\ Put(n, IF Exists(n) THEN rec[n].state ELSE "live")
          /\ plan' = [plan EXCEPT !.create = @ \ {n}] /\ wanted' = wanted /\ before' = before
          /\ doomed' = IF rec[n].state = "deleting" THEN doomed \cup {n} ELSE doomed
      BY <1>5 DEF CreateRecord, Abort, EndCycle
    <2>2. \A m \in RecordName : m # n => (m \in Live' <=> m \in Live)
      BY <2>1 DEF Live, Put
    <2>3. n \in Live' \/ n \in doomed'
      BY <2>1 DEF Live, Put, Exists
    <2>4. n \in Live => n \in Live'
      BY <2>1 DEF Live, Put, Exists
    <2>5. Live \subseteq Live' /\ doomed \subseteq doomed'
      BY <2>1, <2>2, <2>4 DEF Live
    <2>6. /\ plan'.update = plan.update /\ plan'.delete = plan.delete /\ plan'.create = plan.create \ {n}
      BY <2>1
    <2>7. \A m \in RecordName : New(m)' <=> New(m)
      BY <2>1, <2>6 DEF New
    <2> QED
      BY <2>1, <2>2, <2>3, <2>5, <2>6, <2>7 DEF Progress
  <1>6. ASSUME NEW n \in RecordName, PatchRecord(n) PROVE Progress'
    <2>1. /\ pc = "apply" /\ Put(n, rec[n].state) /\ plan' = [plan EXCEPT !.patch = @ \ {n}]
          /\ wanted' = wanted /\ before' = before /\ doomed' = doomed
      BY <1>6 DEF PatchRecord, Abort, EndCycle
    <2>2. Live' = Live
      BY <2>1 DEF Live, Put
    <2>3. plan'.update = plan.update /\ plan'.delete = plan.delete /\ plan'.create = plan.create
      BY <2>1
    <2>4. \A m \in RecordName : New(m)' <=> New(m)
      BY <2>1, <2>3 DEF New
    <2> QED
      BY <2>1, <2>2, <2>3, <2>4 DEF Progress
  <1>7. ASSUME NEW n \in RecordName, DeleteRecord(n) PROVE Progress'
    <2>1. /\ pc = "apply" /\ plan.create = {} /\ n \in plan.delete
          /\ plan' = [plan EXCEPT !.delete = @ \ {n}] /\ wanted' = wanted /\ before' = before /\ doomed' = doomed
      BY <1>7 DEF DeleteRecord, history
    <2>2. \A m \in RecordName : m # n /\ m \in Live => m \in Live'
      BY <1>7 DEF DeleteRecord, Live
    <2>3. plan'.update = plan.update /\ plan'.delete \subseteq plan.delete /\ plan'.create = {}
      BY <2>1
    <2>4. \A m \in RecordName : New(m)' <=> New(m)
      BY <2>1, <2>3 DEF New
    <2>5. ~New(n)
      BY <2>1 DEF Progress
    <2> QED
      BY <2>1, <2>2, <2>3, <2>4, <2>5 DEF Progress
  <1>8. CASE Fails
    BY <1>8 DEF Fails, Abort, EndCycle
  <1>9. ASSUME NEW k \in Keys, Desire(k) PROVE Progress'
    BY <1>9 DEF Desire, Edited, cycle, Progress, New, Live
  <1>10. ASSUME NEW n \in RecordName, DeleteByHand(n) PROVE Progress'
    <2>1. /\ doomed' = doomed \cup {n} /\ UNCHANGED <<pc, wanted, plan, before>>
      BY <1>10 DEF DeleteByHand, Edited, cycle
    <2>2. \A m \in RecordName : m # n /\ m \in Live => m \in Live'
      BY <1>10 DEF DeleteByHand, Live
    <2>3. Live \subseteq RecordName
      BY DEF Live
    <2> QED
      BY <2>1, <2>2, <2>3 DEF Progress, New
  <1>11. ASSUME NEW n \in RecordName, finalizeRecord(n) PROVE Progress'
    <2>1. UNCHANGED <<pc, wanted, plan, before, doomed>>
      BY <1>11 DEF finalizeRecord, cycle, history
    <2>2. Live \subseteq Live'
      BY <1>11 DEF finalizeRecord, Live
    <2> QED
      BY <2>1, <2>2 DEF Progress, New
  <1>12. CASE UNCHANGED vars
    BY <1>12 DEF vars, cycle, history, Progress, New, Live
  <1> QED
    BY <1>1, <1>2, <1>3, <1>4, <1>5, <1>6, <1>7, <1>8, <1>9, <1>10, <1>11, <1>12 DEF Next, Sync

\* The invariant holds before anything happens.
LEMMA InvInit == Init => IInv
  <1> SUFFICES ASSUME Init PROVE IInv
    OBVIOUS
  <1>1. NoRecord \in [state : {"absent", "live", "deleting"}, ttl : 0 .. MaxTTL]
    BY ExternalDNSConstants DEF NoRecord
  <1>2. NoEndpoints \in [Keys -> Endpoint]
    BY DEF NoEndpoints, NoEndpoint, Endpoint
  <1>3. 0 \in 0 .. MaxEdits /\ 0 \in 0 .. MaxFaults
    BY ExternalDNSConstants
  <1> QED BY <1>1, <1>2, <1>3 DEF Init, IInv, TypeOK, Progress, NoPlan

\* Every variable stays in its range: in particular every stored TTL fits an
\* int32, whatever a source asks for (RecordFromEndpoint's clamp), and what the
\* Records are listed as are endpoints of known targets.
THEOREM WebhookTypes == Spec => []TypeOK
  <1>1. Init => TypeOK
    BY InvInit DEF IInv
  <1> QED BY <1>1, TypeStep, PTL DEF Spec

\* The promise of apply ("an updated RRset never has a window with fewer records
\* than before"), for every instance and any number of failures and retries.
THEOREM UpdatesNeverShrink == Spec => []NeverFewer
  <1>2. IInv /\ [Next]_vars => IInv'
    BY TypeStep, ProgressStep DEF IInv
  <1>3. IInv => NeverFewer
    <2> SUFFICES ASSUME IInv, pc = "apply", NEW k \in plan.update
                 PROVE  \/ {n \in before : n[1] = k} \ doomed \subseteq Live
                        \/ {<<k, t>> : t \in wanted[k].targets} \ doomed \subseteq Live
      BY DEF NeverFewer
    <2>1. CASE plan.create # {}
      BY <2>1 DEF IInv, Progress
    <2>2. CASE plan.create = {}
      <3> SUFFICES ASSUME NEW t \in wanted[k].targets, <<k, t>> \notin doomed PROVE <<k, t>> \in Live
        BY <2>2
      <3>1. <<k, t>> \in RecordName
        BY DEF IInv, TypeOK, Endpoint, RecordName
      <3> QED BY <2>2, <3>1 DEF IInv, Progress, New
    <2> QED BY <2>1, <2>2
  <1> QED BY InvInit, <1>2, <1>3, PTL DEF Spec
=============================================================================
