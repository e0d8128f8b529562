----------------------------- MODULE ExternalDNS -----------------------------
(***************************************************************************)
(* The ExternalDNS webhook provider: endpoints become Record resources,    *)
(* one per target.  ExternalDNS itself runs one synchronisation after the  *)
(* other: GET /records, its sources, POST /adjustendpoints, POST /records  *)
(* with the difference.  The Record controller's finalizer ends deletions. *)
(*                                                                         *)
(* An endpoint's key is its name, type and setIdentifier; a Record's name, *)
(* a hash, is the pair of key and target.  Targets are numbered in the     *)
(* order of these hashes, the order of a List.  before, doomed and torn    *)
(* are history variables.                                                  *)
(***************************************************************************)
EXTENDS Integers, FiniteSets

CONSTANTS
  Keys, Served,       \* endpoint keys; those of a supported type and in a zone
  MXKeys,             \* those of type MX, whose targets are parsed
  Targets,
  Malformed,          \* what ParseMX rejects
  Canonical,          \* what a target becomes by being parsed and formatted
  MaxTTL,             \* math.MaxInt32
  DefaultTTL,         \* what the API server puts for a spec.ttl that is nil
  Sources,            \* the endpoints sources may ask for, by key
  MaxEdits, MaxFaults \* bounds of users' actions and of failures

ASSUME ExternalDNSConstants ==
  /\ Served \subseteq Keys /\ MXKeys \subseteq Keys
  /\ Targets \subseteq Nat /\ Malformed \subseteq Targets /\ Canonical \in [Targets -> Targets]
  /\ \A t \in Targets : Canonical[Canonical[t]] = Canonical[t]
  /\ MaxTTL \in Nat \ {0} /\ DefaultTTL \in 1 .. MaxTTL
  /\ Sources \in [Keys -> SUBSET [targets : SUBSET Targets, ttl : Nat]]
  /\ MaxEdits \in Nat /\ MaxFaults \in Nat

VARIABLES
  desired,   \* the endpoints of ExternalDNS's sources
  rec,       \* the Records of this owner, by name
  pc,        \* next request of the synchronisation
  current,   \* the endpoints GET /records returned
  wanted,    \* the endpoints POST /adjustendpoints returned
  plan,      \* what is left of the Plan being applied
  edits, faults,
  before,    \* the Records there were when the Plan was made
  doomed,    \* Records deleted meanwhile by others, or already then
  torn       \* some Plan was not carried out to its end

cycle == <<pc, current, wanted, plan>>
limits == <<edits, faults>>
history == <<before, doomed, torn>>
vars == <<desired, rec, cycle, limits, history>>

RecordName == Keys \X Targets
Endpoint == [targets : SUBSET Targets, ttl : Nat]
NoEndpoint == [targets |-> {}, ttl |-> 0]
NoEndpoints == [k \in Keys |-> NoEndpoint]
NoRecord == [state |-> "absent", ttl |-> 0]
NoPlan == [update |-> {}, create |-> {}, patch |-> {}, delete |-> {}]

Live == {n \in RecordName : rec[n].state = "live"}
Exists(n) == rec[n].state # "absent"

Init ==
  /\ desired = NoEndpoints /\ rec = [n \in RecordName |-> NoRecord]
  /\ pc = "idle" /\ current = NoEndpoints /\ wanted = NoEndpoints /\ plan = NoPlan
  /\ edits = 0 /\ faults = 0 /\ before = {} /\ doomed = {} /\ torn = FALSE

-----------------------------------------------------------------------------
(* Translation. *)

\* An MX target is split and put together again, any other is kept as it is.
Data(k, t) == IF k \in MXKeys THEN Canonical[t] ELSE t

\* ParseMX refuses the target.
Invalid(k, t) == k \in MXKeys /\ t \in Malformed

\* Mutant: the TTL is not clamped.
StoredAsIs(ttl) == IF ttl = 0 THEN DefaultTTL ELSE ttl

\* spec.ttl is an int32.  An endpoint's 0 is nil in the Record, and the API server
\* replaces that by the default, after a patch too.
Stored(ttl) == IF ttl = 0 THEN DefaultTTL ELSE IF ttl > MaxTTL THEN MaxTTL ELSE ttl

\* The Records of a key make one endpoint, also those being deleted, with the TTL
\* of the first.
Endpoints ==
  [k \in Keys |->
     LET found == {t \in Targets : Exists(<<k, t>>)}
         first == CHOOSE t \in found : \A u \in found : t <= u
     IN  IF found = {} THEN NoEndpoint
         ELSE [targets |-> {Data(k, t) : t \in found}, ttl |-> rec[<<k, first>>].ttl]]

Adjust(endpoints) == [k \in Keys |-> IF k \in Served THEN endpoints[k] ELSE NoEndpoint]

\* What ExternalDNS asks for (external): an endpoint is created, updated when its
\* targets or a TTL its source sets differ, or deleted.
ToCreate == {k \in Keys : wanted[k].targets # {} /\ current[k].targets = {}}
ToUpdate == {k \in Keys : /\ wanted[k].targets # {} /\ current[k].targets # {}
                          /\ \/ wanted[k].targets # current[k].targets
                             \/ wanted[k].ttl \notin {0, current[k].ttl}}
ToDelete == {k \in Keys : wanted[k].targets = {} /\ current[k].targets # {}}

\* BuildPlan's error: a target cannot be translated.
Rejected == \E k \in ToCreate \cup ToUpdate : \E t \in wanted[k].targets : Invalid(k, t)

\* Mutant: targets an update keeps are left alone, whatever their TTL.
PatchedNone(k) == {}

\* The targets an update keeps, when it changes the TTL.
Patched(k) ==
  {t \in wanted[k].targets \cap current[k].targets : wanted[k].ttl # current[k].ttl}

BuildPlan ==
  LET Added(k) == wanted[k].targets \ current[k].targets
      Removed(k) == current[k].targets \ wanted[k].targets
  IN  [update |-> ToUpdate,
       create |-> {n \in RecordName : \/ n[1] \in ToCreate /\ n[2] \in wanted[n[1]].targets
                                      \/ n[1] \in ToUpdate /\ n[2] \in Added(n[1])},
       patch |-> {n \in RecordName : n[1] \in ToUpdate /\ n[2] \in Patched(n[1])},
       delete |-> {n \in RecordName : \/ n[1] \in ToUpdate /\ n[2] \in Removed(n[1])
                                      \/ n[1] \in ToDelete /\ n[2] \in current[n[1]].targets}]

-----------------------------------------------------------------------------
(* The requests of one synchronisation. *)

records ==
  /\ pc = "idle" /\ pc' = "adjust" /\ current' = Endpoints
  /\ UNCHANGED <<desired, rec, wanted, plan, limits, history>>

adjust ==
  /\ pc = "adjust" /\ pc' = "changes" /\ wanted' = Adjust(desired)
  /\ UNCHANGED <<desired, rec, current, plan, limits, history>>

EndCycle == pc' = "idle" /\ current' = NoEndpoints /\ wanted' = NoEndpoints /\ plan' = NoPlan

\* One invalid endpoint, and the request is refused before any Record is touched.
applyChanges ==
  /\ pc = "changes"
  /\ \/ Rejected /\ EndCycle /\ UNCHANGED <<before, doomed>>
     \/ /\ ~Rejected /\ pc' = "apply" /\ plan' = BuildPlan
        /\ before' = Live /\ doomed' = RecordName \ (Live \cup plan'.create)
        /\ UNCHANGED <<current, wanted>>
  /\ UNCHANGED <<desired, rec, limits, torn>>

Put(n, state) == rec' = [rec EXCEPT ![n] = [state |-> state, ttl |-> Stored(wanted[n[1]].ttl)]]

\* apply returns the first error.
Abort == EndCycle /\ torn' = TRUE

\* Create; a Record that exists is patched, whether or not it is being deleted,
\* and one that goes between Create's answer and the patch is an error.
CreateRecord(n) ==
  /\ pc = "apply" /\ n \in plan.create
  /\ \/ /\ Put(n, IF Exists(n) THEN rec[n].state ELSE "live")
        /\ plan' = [plan EXCEPT !.create = @ \ {n}] /\ UNCHANGED <<pc, current, wanted, torn>>
     \/ rec[n].state = "deleting" /\ rec' = [rec EXCEPT ![n] = NoRecord] /\ Abort
  /\ doomed' = IF rec[n].state = "deleting" THEN doomed \cup {n} ELSE doomed
  /\ UNCHANGED <<desired, limits, before>>

PatchRecord(n) ==
  /\ pc = "apply" /\ plan.create = {} /\ n \in plan.patch
  /\ \/ /\ Exists(n) /\ Put(n, rec[n].state)
        /\ plan' = [plan EXCEPT !.patch = @ \ {n}] /\ UNCHANGED <<pc, current, wanted, torn>>
     \/ ~Exists(n) /\ Abort /\ UNCHANGED rec
  /\ UNCHANGED <<desired, limits, before, doomed>>

\* Mutant: deletes do not wait for the creates.
DeleteRecordFirst(n) ==
  /\ pc = "apply" /\ n \in plan.delete
  /\ rec[n].state = "live" /\ rec' = [rec EXCEPT ![n].state = "deleting"]
  /\ plan' = [plan EXCEPT !.delete = @ \ {n}]
  /\ UNCHANGED <<desired, pc, current, wanted, limits, history>>

\* A Record without its finalizer yet is gone at once.
DeleteRecord(n) ==
  /\ pc = "apply" /\ plan.create = {} /\ plan.patch = {} /\ n \in plan.delete
  /\ \/ rec[n].state = "live" /\ rec' = [rec EXCEPT ![n].state = "deleting"]
     \/ rec[n].state = "live" /\ rec' = [rec EXCEPT ![n] = NoRecord]
     \/ rec[n].state # "live" /\ UNCHANGED rec
  /\ plan' = [plan EXCEPT !.delete = @ \ {n}]
  /\ UNCHANGED <<desired, pc, current, wanted, limits, history>>

Applied ==
  /\ pc = "apply" /\ plan.create = {} /\ plan.patch = {} /\ plan.delete = {}
  /\ EndCycle /\ UNCHANGED <<desired, rec, limits, history>>

\* A call fails, the request is cancelled, or the webhook dies.
Fails ==
  /\ pc # "idle" /\ faults < MaxFaults /\ faults' = faults + 1
  /\ Abort /\ UNCHANGED <<desired, rec, edits, before, doomed>>

Sync ==
  \/ records \/ adjust \/ applyChanges \/ Applied
  \/ \E n \in RecordName : CreateRecord(n) \/ PatchRecord(n) \/ DeleteRecord(n)

-----------------------------------------------------------------------------
(* Users, and the Record controller (external). *)

Edited == edits < MaxEdits /\ edits' = edits + 1 /\ UNCHANGED <<cycle, faults, before, torn>>

Desire(k) ==
  /\ Edited /\ \E e \in Sources[k] \ {desired[k]} : desired' = [desired EXCEPT ![k] = e]
  /\ UNCHANGED <<rec, doomed>>

DeleteByHand(n) ==
  /\ Edited /\ rec[n].state = "live" /\ rec' = [rec EXCEPT ![n].state = "deleting"]
  /\ doomed' = doomed \cup {n} /\ UNCHANGED desired

finalizeRecord(n) ==
  /\ rec[n].state = "deleting" /\ rec' = [rec EXCEPT ![n] = NoRecord]
  /\ UNCHANGED <<desired, cycle, limits, history>>

Next ==
  \/ Sync \/ Fails
  \/ \E k \in Keys : Desire(k)
  \/ \E n \in RecordName : DeleteByHand(n) \/ finalizeRecord(n)

\* ExternalDNS synchronises at an interval, and the Record controller retries.
Fairness == WF_vars(Sync) /\ \A n \in RecordName : WF_vars(finalizeRecord(n))

Spec == Init /\ [][Next]_vars /\ Fairness

-----------------------------------------------------------------------------
(* Properties. *)

\* Type correctness of the whole state.
TypeOK ==
  /\ desired \in [Keys -> Endpoint] /\ current \in [Keys -> Endpoint] /\ wanted \in [Keys -> Endpoint]
  /\ rec \in [RecordName -> [state : {"absent", "live", "deleting"}, ttl : 0 .. MaxTTL]]
  /\ pc \in {"idle", "adjust", "changes", "apply"}
  /\ plan \in [update : SUBSET Keys, create : SUBSET RecordName, patch : SUBSET RecordName, delete : SUBSET RecordName]
  /\ edits \in 0 .. MaxEdits /\ faults \in 0 .. MaxFaults
  /\ before \in SUBSET RecordName /\ doomed \in SUBSET RecordName /\ torn \in BOOLEAN

\* While an endpoint is updated it has all the Records it had or all those it is
\* to have ("so an updated RRset never has a window with fewer records than
\* before"), but for the ones somebody else deletes and those the Plan counts on
\* although their deletion is under way.
NeverFewer ==
  pc = "apply" => \A k \in plan.update :
    LET old == {n \in before : n[1] = k}
        new == {<<k, t>> : t \in wanted[k].targets}
    IN  old \ doomed \subseteq Live \/ new \ doomed \subseteq Live

\* The target is accepted, and GET /records gives it back as it was.
WellFormed(n) == ~Invalid(n[1], n[2]) /\ Data(n[1], n[2]) = n[2]

\* Once edits and failures are over, every endpoint that can be served has its
\* targets, no others, and the TTL its source sets.  A single target that is
\* refused, or that comes back in another form and is taken for another Record,
\* can block them all for good; a Plan cut short may leave an old TTL behind that
\* the grouping of GET /records hides.
Converges ==
  <>[]((\A n \in RecordName : (Exists(n) \/ n[2] \in Adjust(desired)[n[1]].targets) => WellFormed(n)) =>
         \A k \in Served :
           /\ {t \in Targets : <<k, t>> \in Live} = desired[k].targets
           /\ (~torn /\ desired[k].ttl # 0) =>
                \A t \in desired[k].targets : rec[<<k, t>>].ttl = Stored(desired[k].ttl))
=============================================================================
