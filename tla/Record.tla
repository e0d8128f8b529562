------------------------------- MODULE Record -------------------------------
(***************************************************************************)
(* The Record controller: Records that share one domain name, reconciled   *)
(* onto the RRsets the server holds at that name.  An RRset stands for a   *)
(* (zone, type) pair, a datum for an rdata value (an MX exchange with its  *)
(* preference).  wrote and moved are history variables: the values on the  *)
(* server that each Record added, and the Records whose data was edited.   *)
(***************************************************************************)
EXTENDS Resource

CONSTANTS
  RRSets, Single,   \* the RRsets, and those that hold one value (CNAME)
  Data, TTLs,
  EditRRSet,        \* zone or type are ever edited
  MaxDrifts         \* bound of changes made behind the operator's back

RecordSpec == [rrset : RRSets, data : Data, ttl : TTLs, policy : {"Delete", "Orphan"}]

ASSUME RecordConstants ==
  /\ Single \subseteq RRSets /\ RRSets # {} /\ -1 \notin TTLs
  /\ Specs \subseteq RecordSpec
  /\ Applied = Data \cup {NotApplied} /\ NotApplied \notin Data
  /\ EditRRSet \in BOOLEAN /\ MaxDrifts \in Nat

VARIABLES
  server,   \* the TTL of each value of each RRset, Absent when it is not there
  reads,    \* the records the pass got for its RRset
  drifts,
  wrote, moved

vars == <<resource, server, reads, drifts, wrote, moved>>

Absent == -1
NoRecords == [d \in Data |-> Absent]
NoServer == [k \in RRSets |-> NoRecords]

Init ==
  /\ ResourceInit
  /\ server = NoServer /\ reads = NoRecords /\ drifts = 0
  /\ wrote = [r \in Objects |-> {}] /\ moved = {}

Present(records) == {d \in Data : records[d] # Absent}

-----------------------------------------------------------------------------
(* reconcileRecord. *)

\* The server's part: adding an existing value changes nothing, and an RRset
\* that holds one value refuses a second.
AddRecord(s) ==
  IF server[s.rrset][s.data] # Absent THEN UNCHANGED <<server, wrote>>
  ELSE /\ s.rrset \in Single => Present(server[s.rrset]) = {}
       /\ server' = [server EXCEPT ![s.rrset][s.data] = s.ttl]
       /\ wrote' = [wrote EXCEPT ![cur] = @ \cup {<<s.rrset, s.data>>}]

DeleteRecord(k, d) ==
  /\ server' = [server EXCEPT ![k][d] = Absent]
  /\ wrote' = [r \in Objects |-> wrote[r] \ {<<k, d>>}]

\* Mutant: a record is matched on its type alone, whatever its data.
findRecordByType(records, s) == Present(records)

\* The value a Record with spec s manages, if the server has it.
findRecord(records, s) ==
  IF s.rrset \in Single THEN Present(records) ELSE Present(records) \cap {s.data}

\* The spec with the data last written to the server in place of the desired one.
appliedSpec(o) == IF o.applied = NotApplied THEN o.spec ELSE [o.spec EXCEPT !.data = o.applied]

GetRecords ==
  /\ pc = "reconcile" /\ resolve = "client"
  /\ pc' = "apply" /\ reads' = server[loc.spec.rrset]
  /\ UNCHANGED <<stored, cur, loc, current, cluster, limits, server, drifts, wrote, moved>>

\* The value to remove once the desired one is there still carries appliedData.
Stale ==
  /\ loc.spec.rrset \notin Single /\ loc.applied # NotApplied /\ loc.applied # loc.spec.data
  /\ loc.applied \in findRecord(reads, appliedSpec(loc))

InSync == loc.spec.data \in findRecord(reads, loc.spec) /\ reads[loc.spec.data] = loc.spec.ttl

\* The next step calls the server.
Calls == pc = "add" \/ (pc = "apply" /\ ~InSync) \/ (pc = "stale" /\ Stale)

\* Mutant: the stale value goes first, the desired one is added afterwards.
applyStaleFirst ==
  /\ pc = "apply" /\ ServerUp
  /\ IF loc.applied \in findRecord(reads, appliedSpec(loc)) \ {loc.spec.data}
     THEN DeleteRecord(loc.spec.rrset, loc.applied) ELSE UNCHANGED <<server, wrote>>
  /\ pc' = "add"
  /\ UNCHANGED <<stored, cur, loc, current, cluster, limits, reads, drifts, moved>>

\* Mutant: the TTL is left out of UpdateRecord, and the server takes its default.
applyDefaultTTL ==
  /\ pc = "apply" /\ ServerUp
  /\ LET s == loc.spec
         found == findRecord(reads, s)
     IN  \/ found = {} /\ AddRecord(s)
         \/ s.data \in found /\ reads[s.data] = s.ttl /\ UNCHANGED <<server, wrote>>
         \/ /\ s.data \in found /\ reads[s.data] # s.ttl
            /\ server' = [server EXCEPT ![s.rrset][s.data] = 3600] /\ UNCHANGED wrote
  /\ pc' = "stale"
  /\ UNCHANGED <<stored, cur, loc, current, cluster, limits, reads, drifts, moved>>

\* Mutant: a value that is there is taken as it is, whatever its TTL.
applyIgnoresTTL ==
  /\ pc = "apply" /\ ServerUp
  /\ IF findRecord(reads, loc.spec) = {} THEN AddRecord(loc.spec) ELSE UNCHANGED <<server, wrote>>
  /\ pc' = "stale"
  /\ UNCHANGED <<stored, cur, loc, current, cluster, limits, reads, drifts, moved>>

\* Absent: added.  Another value in an RRset of one: deleted, to be added next.
\* Another TTL: updated in place.  Otherwise nothing to do.
apply ==
  /\ pc = "apply" /\ (Calls => ServerUp)
  /\ LET s == loc.spec
         found == findRecord(reads, s)
     IN  \/ found = {} /\ AddRecord(s) /\ pc' = "stale"
         \/ \E d \in found \ {s.data} : DeleteRecord(s.rrset, d) /\ pc' = "add"
         \/ /\ s.data \in found /\ reads[s.data] # s.ttl /\ server[s.rrset][s.data] # Absent
            /\ server' = [server EXCEPT ![s.rrset][s.data] = s.ttl]
            /\ pc' = "stale" /\ UNCHANGED wrote
         \/ InSync /\ pc' = "stale" /\ UNCHANGED <<server, wrote>>
  /\ UNCHANGED <<stored, cur, loc, current, cluster, limits, reads, drifts, moved>>

\* The second half of recreating the value of an RRset of one.
readd ==
  /\ pc = "add" /\ ServerUp
  /\ AddRecord(loc.spec) /\ pc' = "ready"
  /\ UNCHANGED <<stored, cur, loc, current, cluster, limits, reads, drifts, moved>>

\* Mutant: the error of a delete that fails is swallowed.
deleteStaleRecordBestEffort ==
  /\ pc = "stale" /\ (Calls => ServerUp)
  /\ IF Stale THEN DeleteRecord(loc.spec.rrset, loc.applied) \/ UNCHANGED <<server, wrote>> ELSE UNCHANGED <<server, wrote>>
  /\ pc' = "ready"
  /\ UNCHANGED <<stored, cur, loc, current, cluster, limits, reads, drifts, moved>>

deleteStaleRecord ==
  /\ pc = "stale" /\ (Calls => ServerUp)
  /\ IF Stale THEN DeleteRecord(loc.spec.rrset, loc.applied) ELSE UNCHANGED <<server, wrote>>
  /\ pc' = "ready"
  /\ UNCHANGED <<stored, cur, loc, current, cluster, limits, reads, drifts, moved>>

\* UpdateRecord of a value that is no longer there, or AddRecord next to another
\* value of an RRset of one: the server refuses.
Refused ==
  /\ ServerUp
  /\ LET s == loc.spec
         others == Present(server[s.rrset]) \ {s.data}
     IN  \/ /\ pc = "apply" /\ s.data \in findRecord(reads, s) /\ reads[s.data] # s.ttl
            /\ server[s.rrset][s.data] = Absent
         \/ /\ pc \in {"apply", "add"} /\ (pc = "apply" => findRecord(reads, s) = {})
            /\ server[s.rrset][s.data] = Absent /\ s.rrset \in Single /\ others # {}
  /\ markDegraded /\ EndPass /\ reads' = NoRecords
  /\ UNCHANGED <<cluster, limits, server, drifts, wrote, moved>>

\* Mutant: records the data of the re-fetched spec as applied.
markRecordReadyRefetched == markReady(cached[cur].spec.data) /\ reads' = NoRecords /\ UNCHANGED <<server, drifts, wrote, moved>>

\* The data of the spec that was reconciled is recorded, not the re-fetched one.
markRecordReady == markReady(loc.spec.data) /\ reads' = NoRecords /\ UNCHANGED <<server, drifts, wrote, moved>>

\* An orphaned record stays; any other is deleted under the data last applied.
finalizeRecord ==
  /\ pc = "finalize"
  /\ \/ /\ loc.spec.policy = "Orphan"
        /\ wrote' = [wrote EXCEPT ![cur] = {}] /\ UNCHANGED server
     \/ /\ loc.spec.policy = "Delete" /\ resolve = "client"
        /\ DeleteRecord(loc.spec.rrset, appliedSpec(loc).data)
  /\ pc' = "drop"
  /\ UNCHANGED <<stored, cur, loc, current, cluster, limits, reads, drifts, moved>>

\* A step of Resource: what was read is forgotten when the pass ends.
Shared ==
  /\ reads' = IF pc' = "idle" THEN NoRecords ELSE reads
  /\ UNCHANGED <<server, drifts, wrote, moved>>

Operator ==
  \/ WorkerStep(Calls) /\ Shared
  \/ GetRecords \/ apply \/ readd \/ deleteStaleRecord \/ Refused \/ markRecordReady \/ finalizeRecord

-----------------------------------------------------------------------------
(* Users, and whoever else writes to the server (external). *)

EditRecord(r, s) ==
  /\ EditRRSet \/ s.rrset = obj[r].spec.rrset
  /\ Edit(r, s)
  /\ moved' = IF s.data = obj[r].spec.data THEN moved ELSE moved \cup {r}
  /\ UNCHANGED <<server, reads, drifts, wrote>>

Drift ==
  /\ drifts < MaxDrifts /\ drifts' = drifts + 1 /\ ServerUp
  /\ \E k \in RRSets, d \in Data :
        \/ server[k][d] # Absent /\ DeleteRecord(k, d)
        \/ /\ server[k][d] = Absent /\ (k \in Single => Present(server[k]) = {})
           /\ \E t \in TTLs : server' = [server EXCEPT ![k][d] = t]
           /\ UNCHANGED wrote
  /\ UNCHANGED <<resource, reads, moved>>

\* The server's data goes with its cluster.
ClusterGone ==
  /\ Outage("gone")
  /\ server' = NoServer /\ wrote' = [r \in Objects |-> {}] /\ UNCHANGED <<reads, drifts, moved>>

World ==
  \/ \E r \in Objects, s \in Specs : (Create(r, s) /\ Shared) \/ EditRecord(r, s)
  \/ ClusterStep /\ Shared
  \/ ClusterGone \/ Drift

Next == Operator \/ World

\* The workqueue hands out every resource again and again (RequeueAfter, watch
\* events, backoff); a pass goes on; watches deliver; a stopped server returns.
Fairness ==
  /\ \A r \in Objects : SF_vars(Reconcile(r) /\ Shared) /\ WF_vars(CacheSync(r) /\ Shared)
  /\ WF_vars(Operator /\ pc # "idle" /\ faults' = faults) /\ WF_vars(Recover /\ Shared)

Spec == Init /\ [][Next]_vars /\ Fairness

-----------------------------------------------------------------------------
(* Properties. *)

\* Type correctness of the whole state.
TypeOK ==
  /\ ResourceTypeOK
  /\ pc \in {"idle", "finalizer", "reconcile", "apply", "add", "stale", "ready", "finalize", "drop"}
  /\ server \in [RRSets -> [Data -> TTLs \cup {Absent}]] /\ reads \in [Data -> TTLs \cup {Absent}]
  /\ drifts \in 0 .. MaxDrifts /\ wrote \in [Objects -> SUBSET (RRSets \X Data)] /\ moved \subseteq Objects

\* What a Record put on the server is still named by its spec, its status or the
\* running pass, so that a later pass or the finalizer removes it, and a Record
\* that is gone has left nothing behind (status.appliedData, deleteStaleRecord
\* and finalizeRecord).  For a Record whose data is edited, as long as no pass
\* has been cut short and none worked on an outdated copy.
NoValueForgotten ==
  \A r \in Objects : (r \in moved => Undisturbed /\ drifts = 0) => \A v \in wrote[r] :
     /\ obj[r].exists
     /\ \/ v[1] = obj[r].spec.rrset /\ v[2] \in {obj[r].spec.data, obj[r].applied}
        \/ cur = r /\ pc # "idle" /\ v = <<loc.spec.rrset, loc.spec.data>>

\* Status stops naming a value the Record put on the server only once that value
\* is off the server or is to stay: whichever pass fails, whatever is edited and
\* whoever else writes, a later pass or the finalizer still knows what to remove
\* (deleteStaleRecord before markReady, and appliedData kept when a pass fails).
KnownUntilRemoved ==
  [][~Lag => \A r \in Objects :
       obj[r].applied \notin {NotApplied, obj'[r].applied} => <<obj[r].spec.rrset, obj[r].applied>> \notin wrote'[r]]_vars

\* A reconcile pass never empties an RRset of several values that had one: the
\* name keeps resolving while spec.data changes, through failed passes and edits,
\* if nobody else deletes its values (reconcileRecord's order).
NameKeepsResolving ==
  [][(pc \notin {"idle", "finalize"} /\ drifts' = 0 /\ cluster' = cluster) =>
       \A k \in RRSets \ Single : Present(server[k]) # {} => Present(server'[k]) # {}]_vars

\* A pass removes no value but those its Record's spec or status names, so that
\* Records sharing a name and type leave each other alone (findRecord).
RemovesOnlyItsOwn ==
  [][(pc \notin {"idle"} /\ drifts' = drifts /\ cluster' = cluster) =>
       \A k \in RRSets \ Single : Present(server[k]) \ Present(server'[k]) \subseteq {loc.spec.data, loc.applied}]_vars

\* Once edits, faults and drift are over, deleted Records are gone and the others
\* are on the server as their spec says and report so (the requeue of every pass).
Converges ==
  <>[](\A r \in Objects : LET o == obj[r] IN
         /\ ~o.deleting
         /\ (o.exists /\ cluster = "up") =>
              /\ server[o.spec.rrset][o.spec.data] = o.spec.ttl
              /\ o.ready = "True" /\ o.observed = o.gen /\ o.applied = o.spec.data)
=============================================================================
