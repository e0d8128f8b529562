------------------------------ MODULE Resource ------------------------------
(***************************************************************************)
(* What the controllers of the server-side resources (Record, Zone,        *)
(* DHCPScope, Blocklist, DNSApp, ...) have in common: custom resources     *)
(* with a finalizer and a status, read through the informer cache by one   *)
(* worker that runs a Reconcile pass at a time, and the TechnitiumCluster  *)
(* their serverRef resolves to.  A controller's module adds its server     *)
(* state and the steps of its pass between "reconcile" and "ready".        *)
(***************************************************************************)
EXTENDS Integers, FiniteSets

CONSTANTS
  Objects,      \* the custom resources
  Specs,        \* their possible specs
  Applied,      \* what status may say was applied,
  NotApplied,   \* and what it says before any pass succeeded
  Lag,          \* the informer cache may lag behind the API server
  SecretLoss,   \* the cluster's admin Secret may disappear for a while
  MaxEdits, MaxFaults, MaxOutages   \* bounds of edits, faults and outages

ASSUME ResourceConstants ==
  /\ Objects # {} /\ Specs # {} /\ NotApplied \in Applied
  /\ Lag \in BOOLEAN /\ SecretLoss \in BOOLEAN
  /\ MaxEdits \in Nat /\ MaxFaults \in Nat /\ MaxOutages \in Nat

VARIABLES
  obj,       \* the resources, as the API server holds them
  cached,    \* as the informer cache holds them
  fresh,     \* the cached copy is the latest version
  pc, cur,   \* the worker: next step of the pass, and the resource it is about
  loc,       \* the pass's copy of the resource
  current,   \* nobody has written the resource since that copy
  cluster,   \* the TechnitiumCluster serverRef names
  edits, faults, outages

stored == <<obj, cached, fresh>>
worker == <<pc, cur, loc, current>>
limits == <<edits, faults, outages>>
resource == <<stored, worker, cluster, limits>>

AnySpec == CHOOSE s \in Specs : TRUE
AnyObject == CHOOSE r \in Objects : TRUE
NoObj == [exists |-> FALSE, deleting |-> FALSE, finalizer |-> FALSE, gen |-> 0, spec |-> AnySpec,
          ready |-> "Unknown", observed |-> 0, applied |-> NotApplied]

ResourceInit ==
  /\ obj = [r \in Objects |-> NoObj] /\ cached = obj /\ fresh = [r \in Objects |-> TRUE]
  /\ pc = "idle" /\ cur = AnyObject /\ loc = NoObj /\ current = FALSE
  /\ cluster = "up" /\ edits = 0 /\ faults = 0 /\ outages = 0

\* The resources that cannot go away before their finalizer is removed.
Held == {r \in Objects : obj[r].exists /\ obj[r].finalizer}

\* A write to resource r, which the cache of a lagging informer misses at first.
Write(r, new) ==
  /\ obj' = [obj EXCEPT ![r] = new]
  /\ IF Lag THEN cached' = cached /\ fresh' = [fresh EXCEPT ![r] = FALSE]
            ELSE cached' = obj' /\ UNCHANGED fresh

EndPass == pc' = "idle" /\ cur' = AnyObject /\ loc' = NoObj /\ current' = FALSE

-----------------------------------------------------------------------------
(* The pass. *)

\* Reconcile gets the resource and looks at its deletion timestamp and finalizer.
Reconcile(r) ==
  /\ pc = "idle" /\ cached[r].exists
  /\ cur' = r /\ loc' = cached[r] /\ current' = fresh[r]
  /\ pc' = CASE cached[r].deleting -> "finalize"
             [] ~cached[r].deleting /\ ~cached[r].finalizer -> "finalizer"
             [] OTHER -> "reconcile"
  /\ UNCHANGED <<stored, cluster, limits>>

\* The finalizer is registered before the server is touched; a write on an
\* outdated copy is a conflict, returned as it is.
AddFinalizer ==
  /\ pc = "finalizer"
  /\ \/ /\ current
        /\ loc' = [loc EXCEPT !.finalizer = TRUE] /\ Write(cur, loc')
        /\ pc' = "reconcile" /\ UNCHANGED <<cur, current>>
     \/ ~current /\ EndPass /\ UNCHANGED stored
  /\ UNCHANGED <<cluster, limits>>

\* markReady re-fetches the resource, stamps its generation and records what the
\* pass applied; it writes only a change, and only onto the latest version.
markReady(applied) ==
  /\ pc = "ready"
  /\ LET c == cached[cur]
         new == [c EXCEPT !.ready = "True", !.observed = c.gen, !.applied = applied]
     IN  IF c.exists /\ new # c /\ fresh[cur] THEN Write(cur, new) ELSE UNCHANGED stored
  /\ EndPass
  /\ UNCHANGED <<cluster, limits>>

\* markDegraded re-fetches it too; a conflict there is only logged.
markDegraded ==
  IF cached[cur].exists /\ fresh[cur] THEN Write(cur, [cached[cur] EXCEPT !.ready = "False"])
                                      ELSE UNCHANGED stored

\* serverClientCache.resolve: the server can be called, or the error says that
\* something does not exist (the cluster or its Secret), or it says neither.
resolve == CASE cluster = "up" -> "client"
             [] cluster \in {"gone", "noSecret"} -> "notFound"
             [] OTHER -> "error"

\* A call of the pass reaches a server.
ServerUp == cluster \in {"up", "noSecret"}

\* The steps of finalize*: without an orphaning policy they need the server.
Finalizing == {"finalize", "unload", "clear", "remove", "drop"}

\* reconcile* returns the error of resolve, or of a call that no server answers;
\* calls says whether its next step makes one.
Unresolved(calls) ==
  /\ pc \notin {"idle", "finalizer", "ready"} \cup Finalizing
  /\ IF pc = "reconcile" THEN resolve # "client" ELSE calls /\ ~ServerUp
  /\ markDegraded /\ EndPass
  /\ UNCHANGED <<cluster, limits>>

\* finalize* asks for the client: without the cluster there is nothing left to
\* delete, any other failure, then or in a later call, is returned and retried.
FinalizeUnresolved ==
  /\ \/ /\ pc = "finalize" /\ loc.spec.policy = "Delete" /\ resolve = "notFound"
        /\ pc' = "drop" /\ UNCHANGED <<cur, loc, current>>
     \/ pc = "finalize" /\ loc.spec.policy = "Delete" /\ resolve = "error" /\ EndPass
     \/ pc \in Finalizing \ {"finalize", "drop"} /\ ~ServerUp /\ EndPass
  /\ UNCHANGED <<stored, cluster, limits>>

\* RemoveFinalizer and Update: the resource is gone, or the write conflicts.
DropFinalizer ==
  /\ pc = "drop"
  /\ IF current THEN Write(cur, NoObj) ELSE UNCHANGED stored
  /\ EndPass
  /\ UNCHANGED <<cluster, limits>>

\* A call fails or its reply is lost and the pass returns the error, or the
\* operator process dies.
PassFails ==
  /\ pc # "idle" /\ faults < MaxFaults /\ faults' = faults + 1
  /\ \/ pc \notin {"finalizer"} \cup Finalizing /\ markDegraded
     \/ UNCHANGED stored
  /\ EndPass
  /\ UNCHANGED <<cluster, edits, outages>>

\* The steps every controller has.
WorkerStep(calls) ==
  \/ \E r \in Objects : Reconcile(r)
  \/ AddFinalizer \/ Unresolved(calls) \/ FinalizeUnresolved \/ DropFinalizer \/ PassFails

\* No pass has been cut short so far, and none worked on an outdated copy.
Undisturbed == ~Lag /\ faults = 0 /\ outages = 0

-----------------------------------------------------------------------------
(* The API server, its users and the cluster (external). *)

Touched(r) == current' = (current /\ cur # r) /\ UNCHANGED <<pc, cur, loc>>

Edited == edits < MaxEdits /\ edits' = edits + 1 /\ UNCHANGED <<cluster, faults, outages>>

Create(r, s) ==
  /\ Edited /\ ~obj[r].exists
  /\ Write(r, [NoObj EXCEPT !.exists = TRUE, !.gen = 1, !.spec = s])
  /\ Touched(r)

Edit(r, s) ==
  /\ Edited /\ obj[r].exists /\ s # obj[r].spec
  /\ Write(r, [obj[r] EXCEPT !.spec = s, !.gen = @ + 1])
  /\ Touched(r)

Delete(r) ==
  /\ Edited /\ obj[r].exists /\ ~obj[r].deleting
  /\ Write(r, IF obj[r].finalizer THEN [obj[r] EXCEPT !.deleting = TRUE] ELSE NoObj)
  /\ Touched(r)

CacheSync(r) ==
  /\ ~fresh[r]
  /\ cached' = [cached EXCEPT ![r] = obj[r]] /\ fresh' = [fresh EXCEPT ![r] = TRUE]
  /\ UNCHANGED <<obj, worker, cluster, limits>>

\* The cluster stops answering, loses its Secret, or is deleted for good.
Outage(kind) ==
  /\ cluster = "up" /\ outages < MaxOutages /\ outages' = outages + 1
  /\ cluster' = kind /\ (kind = "noSecret" => SecretLoss)
  /\ UNCHANGED <<stored, worker, edits, faults>>

Recover ==
  /\ cluster \in {"unready", "noSecret"} /\ cluster' = "up"
  /\ UNCHANGED <<stored, worker, limits>>

\* What else may happen to any of the resources and to the cluster.
ClusterStep ==
  \/ \E r \in Objects : Delete(r) \/ CacheSync(r)
  \/ Outage("unready") \/ Outage("noSecret") \/ Recover

Object == [exists : BOOLEAN, deleting : BOOLEAN, finalizer : BOOLEAN, gen : 0 .. MaxEdits, spec : Specs,
           ready : {"Unknown", "True", "False"}, observed : 0 .. MaxEdits, applied : Applied]
ResourceTypeOK ==
  /\ obj \in [Objects -> Object] /\ cached \in [Objects -> Object] /\ fresh \in [Objects -> BOOLEAN]
  /\ cur \in Objects /\ loc \in Object /\ current \in BOOLEAN
  /\ cluster \in {"up", "unready", "noSecret", "gone"}
  /\ edits \in 0 .. MaxEdits /\ faults \in 0 .. MaxFaults /\ outages \in 0 .. MaxOutages
=============================================================================
