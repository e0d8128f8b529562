---------------------------- MODULE ResourceProofs ----------------------------
(***************************************************************************)
(* What every controller relies on, proved once: while a pass works on a   *)
(* resource, that resource carries its finalizer at the API server, however*)
(* old the cached copy the pass was started with.  The argument follows the*)
(* cache: it never shows an undisturbed resource (Steady) once the API     *)
(* server has let that resource go, because only a pass that saw its       *)
(* deletion in the cache lets it go, and the cache never goes back.        *)
(*                                                                         *)
(* SharedStep is what a controller's proof of the refinement of Claim uses *)
(* of the steps it has in common with the others.  LifeTypes is what its   *)
(* proof of type correctness uses.  The lemmas after it say what each of   *)
(* those steps does to the two copies of a resource (Calm, Renewed,        *)
(* Respecified), and what a pass knows when the cache does not lag         *)
(* (Prompt): the proofs about what a controller leaves on the server rest  *)
(* on them.                                                                *)
(***************************************************************************)
EXTENDS Resource, TLAPS

ObjectType ==
  [exists : BOOLEAN, deleting : BOOLEAN, finalizer : BOOLEAN, gen : Nat, spec : Specs,
   ready : {"Unknown", "True", "False"}, observed : Nat, applied : Applied]

\* A pass that may call the server on behalf of a resource that is to stay.
Working(p) == p \notin {"idle", "finalizer"} \cup Finalizing

\* A resource that has its finalizer and is not being deleted.
Steady(o) == o.exists /\ o.finalizer /\ ~o.deleting

StoredTypes ==
  obj \in [Objects -> ObjectType] /\ cached \in [Objects -> ObjectType] /\ fresh \in [Objects -> BOOLEAN]
PassTypes == StoredTypes /\ cur \in Objects /\ loc \in ObjectType /\ current \in BOOLEAN

\* The cache may be old, but never older than the pass that lets a resource go.
CacheInv ==
  /\ \A r \in Objects : fresh[r] => cached[r] = obj[r]
  /\ \A r \in Objects : Steady(cached[r]) => r \in Held
  /\ \A r \in Objects : cached[r].deleting => ~Steady(obj[r])

\* What the pass knows of its resource.
PassInv ==
  /\ current => obj[cur] = loc
  /\ pc = "finalizer" => loc.exists /\ ~loc.deleting /\ (current => cached[cur] = loc)
  /\ pc \in Finalizing => ~Steady(cached[cur]) /\ ~Steady(obj[cur])
  /\ Working(pc) => cur \in Held

RInv == PassTypes /\ CacheInv /\ PassInv

\* The steps of Resource and of the controllers, as far as its variables go.
Fails == (markDegraded \/ UNCHANGED stored) /\ EndPass
Advance ==
  /\ UNCHANGED <<stored, cur, loc, current>>
  /\ \/ Working(pc) /\ Working(pc')
     \/ pc \in Finalizing /\ pc' \in Finalizing
UserStep ==
  \/ \E r \in Objects, s \in Specs : Create(r, s) \/ Edit(r, s)
  \/ \E r \in Objects : Delete(r) \/ CacheSync(r)

-----------------------------------------------------------------------------

\* AnySpec and AnyObject are what their names say.
LEMMA Any == AnySpec \in Specs /\ AnyObject \in Objects
  BY ResourceConstants DEF AnySpec, AnyObject

\* The value of a resource that is not there is well-typed.
LEMMA NoObjType == NoObj \in ObjectType /\ ~NoObj.exists /\ ~NoObj.deleting
  BY ResourceConstants, Any DEF NoObj, ObjectType

\* A write keeps the types and, of every other resource, both copies; the cache
\* has the old copy of a resource or the new one.
LEMMA WriteFacts ==
  ASSUME StoredTypes, CacheInv, NEW r \in Objects, NEW new \in ObjectType, Write(r, new)
  PROVE  /\ StoredTypes'
         /\ obj'[r] = new /\ \A s \in Objects \ {r} : obj'[s] = obj[s]
         /\ \A s \in Objects : cached'[s] = cached[s] \/ cached'[s] = obj'[s]
         /\ \A s \in Objects : fresh'[s] => cached'[s] = obj'[s]
  BY DEF StoredTypes, CacheInv, Write

\* A write the cache's old copy can live with.
LEMMA CacheWrite ==
  ASSUME StoredTypes, CacheInv, NEW r \in Objects, NEW new \in ObjectType, Write(r, new),
         Steady(cached[r]) => new.exists /\ new.finalizer,
         cached[r].deleting => ~Steady(new)
  PROVE  CacheInv'
  <1>1. /\ obj'[r] = new /\ \A s \in Objects \ {r} : obj'[s] = obj[s]
        /\ \A s \in Objects : cached'[s] = cached[s] \/ cached'[s] = obj'[s]
        /\ \A s \in Objects : fresh'[s] => cached'[s] = obj'[s]
    BY WriteFacts
  <1>2. ASSUME NEW s \in Objects, Steady(cached'[s]) PROVE obj'[s].exists /\ obj'[s].finalizer
    BY <1>1, <1>2 DEF CacheInv, Held, Steady
  <1>3. ASSUME NEW s \in Objects, cached'[s].deleting PROVE ~Steady(obj'[s])
    BY <1>1, <1>3 DEF CacheInv, Steady
  <1> QED BY <1>1, <1>2, <1>3 DEF CacheInv, Steady, Held

\* The end of a pass: nothing is left to know of a resource.
LEMMA PassEnds == EndPass => PassInv' /\ cur' \in Objects /\ loc' \in ObjectType /\ current' \in BOOLEAN
  BY Any, NoObjType DEF EndPass, PassInv, Working, Finalizing

\* markReady and markDegraded write the latest version of the resource, and change
\* neither its finalizer nor its deletion.
LEMMA StatusWrite ==
  ASSUME RInv, NEW new \in ObjectType, fresh[cur], Write(cur, new),
         new.exists = cached[cur].exists, new.finalizer = cached[cur].finalizer,
         new.deleting = cached[cur].deleting
  PROVE  CacheInv' /\ StoredTypes' /\ Held' = Held
  <1>1. cur \in Objects /\ StoredTypes /\ CacheInv
    BY DEF RInv, PassTypes
  <1>2. CacheInv' /\ StoredTypes'
    BY <1>1, CacheWrite, WriteFacts DEF Steady
  <1>3. obj'[cur] = new /\ (\A s \in Objects \ {cur} : obj'[s] = obj[s]) /\ cached[cur] = obj[cur]
    BY <1>1, WriteFacts DEF CacheInv
  <1> QED BY <1>1, <1>2, <1>3 DEF Held

\* markDegraded changes neither the finalizer nor the deletion of any resource.
LEMMA DegradedStep ==
  ASSUME RInv, markDegraded PROVE CacheInv' /\ StoredTypes' /\ Held' = Held
  <1>1. CASE UNCHANGED stored
    BY <1>1 DEF RInv, PassTypes, StoredTypes, CacheInv, Held, stored, Steady
  <1>2. CASE fresh[cur] /\ Write(cur, [cached[cur] EXCEPT !.ready = "False"])
    <2>1. cached[cur] \in ObjectType
      BY DEF RInv, PassTypes, StoredTypes
    <2> DEFINE new == [cached[cur] EXCEPT !.ready = "False"]
    <2>2. /\ new \in ObjectType /\ new.exists = cached[cur].exists
          /\ new.finalizer = cached[cur].finalizer /\ new.deleting = cached[cur].deleting
      BY <2>1 DEF ObjectType
    <2> QED BY <1>2, <2>2, StatusWrite
  <1> QED BY <1>1, <1>2 DEF markDegraded

\* Nor does markReady.
LEMMA ReadyStep ==
  ASSUME RInv, NEW a \in Applied, markReady(a) PROVE CacheInv' /\ StoredTypes' /\ Held' = Held
  <1>1. CASE UNCHANGED stored
    BY <1>1 DEF RInv, PassTypes, StoredTypes, CacheInv, Held, stored, Steady
  <1> DEFINE c == cached[cur]
             new == [c EXCEPT !.ready = "True", !.observed = c.gen, !.applied = a]
  <1>2. CASE fresh[cur] /\ Write(cur, new)
    <2>1. c \in ObjectType
      BY DEF RInv, PassTypes, StoredTypes
    <2>2. /\ new \in ObjectType /\ new.exists = c.exists
          /\ new.finalizer = c.finalizer /\ new.deleting = c.deleting
      BY <2>1 DEF ObjectType
    <2> QED BY <1>2, <2>2, StatusWrite
  <1> QED BY <1>1, <1>2 DEF markReady

-----------------------------------------------------------------------------
(* One lemma per kind of step: RInv is kept, and what becomes of Held. *)

\* The pass starts from the cached copy, whatever its age (Reconcile).
LEMMA ReconcileStep ==
  ASSUME RInv, NEW r \in Objects, Reconcile(r) PROVE RInv' /\ Held' = Held
  <1>1. UNCHANGED <<obj, cached, fresh>> /\ cur' = r /\ loc' = cached[r] /\ current' = fresh[r]
    BY DEF Reconcile, stored
  <1>2. PassTypes' /\ CacheInv' /\ Held' = Held
    BY <1>1 DEF RInv, PassTypes, StoredTypes, CacheInv, Held, Steady
  <1>3. PassInv'
    <2>1. cached[r] \in ObjectType /\ cached[r].exists
      BY DEF RInv, PassTypes, StoredTypes, Reconcile
    <2>2. current' => obj'[cur'] = loc' /\ cached'[cur'] = loc'
      BY <1>1 DEF RInv, CacheInv
    <2>3. CASE cached[r].deleting
      <3>1. pc' = "finalize"
        BY <2>3 DEF Reconcile
      <3>2. ~Steady(cached[r]) /\ ~Steady(obj[r])
        BY <2>3 DEF RInv, CacheInv, Steady
      <3> QED BY <1>1, <2>2, <3>1, <3>2 DEF PassInv, Working, Finalizing, Steady
    <2>4. CASE ~cached[r].deleting /\ ~cached[r].finalizer
      <3>1. pc' = "finalizer"
        BY <2>4 DEF Reconcile
      <3> QED BY <1>1, <2>1, <2>2, <2>4, <3>1 DEF PassInv, Working, Finalizing
    <2>5. CASE ~cached[r].deleting /\ cached[r].finalizer
      <3>1. pc' = "reconcile"
        BY <2>5 DEF Reconcile
      <3>2. r \in Held
        BY <2>1, <2>5 DEF RInv, CacheInv, Steady
      <3> QED BY <1>1, <1>2, <2>2, <3>1, <3>2 DEF PassInv, Working, Finalizing
    <2> QED BY <2>3, <2>4, <2>5
  <1> QED BY <1>2, <1>3 DEF RInv

\* The finalizer is added to the version the pass read, or not at all.
LEMMA AddFinalizerStep ==
  ASSUME RInv, AddFinalizer
  PROVE  RInv' /\ (Held' = Held \/ Held' = Held \cup {cur})
  <1>1. CASE ~current /\ EndPass /\ UNCHANGED stored
    <2>1. StoredTypes' /\ CacheInv' /\ Held' = Held
      BY <1>1 DEF RInv, PassTypes, StoredTypes, CacheInv, Held, stored, Steady
    <2> QED BY <1>1, <2>1, PassEnds DEF RInv, PassTypes
  <1>2. CASE current
    <2>0. cur \in Objects /\ StoredTypes /\ CacheInv /\ loc \in ObjectType
      BY DEF RInv, PassTypes
    <2>1. /\ loc' = [loc EXCEPT !.finalizer = TRUE] /\ Write(cur, loc') /\ pc = "finalizer"
          /\ pc' = "reconcile" /\ cur' = cur /\ current' = current
      BY <1>2 DEF AddFinalizer
    <2>2. cached[cur] = loc /\ obj[cur] = loc /\ loc.exists /\ ~loc.deleting
      BY <1>2, <2>1 DEF RInv, PassInv
    <2>3. loc' \in ObjectType /\ loc'.exists /\ loc'.finalizer /\ ~loc'.deleting
      BY <2>0, <2>1, <2>2 DEF ObjectType
    <2>4. CacheInv' /\ StoredTypes'
      BY <2>0, <2>1, <2>2, <2>3, CacheWrite, WriteFacts
    <2>5. obj'[cur] = loc' /\ \A s \in Objects \ {cur} : obj'[s] = obj[s]
      BY <2>0, <2>1, <2>3, WriteFacts
    <2>6. Held' = Held \cup {cur}
      BY <2>0, <2>3, <2>5 DEF Held
    <2>7. PassInv'
      BY <2>0, <2>1, <2>5, <2>6 DEF PassInv, Working, Finalizing
    <2>8. PassTypes'
      BY <2>0, <2>1, <2>3, <2>4 DEF RInv, PassTypes
    <2> QED BY <2>4, <2>6, <2>7, <2>8 DEF RInv
  <1> QED BY <1>1, <1>2 DEF AddFinalizer

\* The finalizer is removed from the version the pass read, or not at all.
LEMMA DropFinalizerStep ==
  ASSUME RInv, DropFinalizer
  PROVE  RInv' /\ (Held' = Held \/ Held' = Held \ {cur})
  <1>0. cur \in Objects /\ StoredTypes /\ CacheInv
    BY DEF RInv, PassTypes
  <1>1. CASE UNCHANGED stored
    <2>1. StoredTypes' /\ CacheInv' /\ Held' = Held
      BY <1>0, <1>1 DEF StoredTypes, CacheInv, Held, stored, Steady
    <2> QED BY <2>1, PassEnds DEF RInv, PassTypes, DropFinalizer
  <1>2. CASE Write(cur, NoObj)
    <2>1. ~Steady(cached[cur])
      BY DEF RInv, PassInv, DropFinalizer, Finalizing
    <2>2. ~Steady(NoObj)
      BY NoObjType DEF Steady
    <2>3. CacheInv' /\ StoredTypes'
      BY <1>0, <1>2, <2>1, <2>2, NoObjType, CacheWrite, WriteFacts
    <2>4. obj'[cur] = NoObj /\ \A s \in Objects \ {cur} : obj'[s] = obj[s]
      BY <1>0, <1>2, NoObjType, WriteFacts
    <2>5. Held' = Held \ {cur}
      BY <1>0, <2>4, NoObjType DEF Held
    <2> QED BY <2>3, <2>5, PassEnds DEF RInv, PassTypes, DropFinalizer
  <1> QED BY <1>1, <1>2 DEF DropFinalizer

\* A pass that ends with an error, reported or not.
LEMMA FailsStep == ASSUME RInv, Fails PROVE RInv' /\ Held' = Held
  <1>1. StoredTypes' /\ CacheInv' /\ Held' = Held
    <2>1. CASE markDegraded
      BY <2>1, DegradedStep
    <2>2. CASE UNCHANGED stored
      BY <2>2 DEF RInv, PassTypes, StoredTypes, CacheInv, Held, stored, Steady
    <2> QED BY <2>1, <2>2 DEF Fails
  <1> QED BY <1>1, PassEnds DEF RInv, PassTypes, Fails

\* A pass that ends well.
LEMMA MarkReadyStep == ASSUME RInv, NEW a \in Applied, markReady(a) PROVE RInv' /\ Held' = Held
  BY ReadyStep, PassEnds DEF RInv, PassTypes, markReady

\* A pass that goes on, having called the server.
LEMMA AdvanceStep == ASSUME RInv, Advance PROVE RInv' /\ Held' = Held
  <1>1. PassTypes' /\ CacheInv' /\ Held' = Held
    BY DEF RInv, PassTypes, StoredTypes, CacheInv, Held, stored, Steady, Advance
  <1>2. PassInv'
    BY <1>1 DEF RInv, PassInv, Working, Finalizing, Steady, Held, stored, Advance
  <1> QED BY <1>1, <1>2 DEF RInv

\* Somebody else writes resource r: the pass, if it is about r, is outdated.
LEMMA ForeignWrite ==
  ASSUME RInv, NEW r \in Objects, NEW new \in ObjectType, Write(r, new), Touched(r),
         Steady(cached[r]) => new.exists /\ new.finalizer,
         r \in Held => new.exists /\ new.finalizer,
         Steady(new) => Steady(obj[r])
  PROVE  RInv'
  <1>0. StoredTypes /\ CacheInv /\ cur \in Objects
    BY DEF RInv, PassTypes
  <1>1. cached[r].deleting => ~Steady(new)
    BY <1>0 DEF CacheInv
  <1>2. CacheInv' /\ StoredTypes'
    BY <1>0, <1>1, CacheWrite, WriteFacts
  <1>3. /\ obj'[r] = new /\ \A s \in Objects \ {r} : obj'[s] = obj[s]
        /\ \A s \in Objects : cached'[s] = cached[s] \/ cached'[s] = obj'[s]
    BY <1>0, WriteFacts
  <1>4. PassTypes'
    BY <1>2 DEF RInv, PassTypes, Touched
  <1>5. PassInv'
    <2>1. UNCHANGED <<pc, cur, loc>> /\ (current' => current /\ cur # r)
      BY DEF Touched
    <2>2. current' => obj'[cur'] = loc'
      BY <1>0, <1>3, <2>1 DEF RInv, PassInv
    <2>3. pc' = "finalizer" => loc'.exists /\ ~loc'.deleting /\ (current' => cached'[cur'] = loc')
      BY <1>0, <1>3, <2>1, <2>2 DEF RInv, PassInv
    <2>4. pc \in Finalizing => ~Steady(obj'[cur])
      BY <1>0, <1>3 DEF RInv, PassInv
    <2>5. pc \in Finalizing => ~Steady(cached'[cur])
      BY <1>0, <1>3, <2>4 DEF RInv, PassInv
    <2>6. Working(pc) => cur \in Held'
      BY <1>0, <1>3 DEF RInv, PassInv, Held
    <2> QED BY <2>1, <2>2, <2>3, <2>4, <2>5, <2>6 DEF PassInv, Working, Steady
  <1> QED BY <1>2, <1>4, <1>5 DEF RInv

\* Users create, edit and delete resources, and the cache catches up; only the
\* operator changes who is held.
LEMMA UserStepKeeps == ASSUME RInv, UserStep PROVE RInv' /\ Held' = Held
  <1>0. StoredTypes /\ CacheInv /\ cur \in Objects
    BY DEF RInv, PassTypes
  <1>1. ASSUME NEW r \in Objects, NEW s \in Specs, Create(r, s) PROVE RInv' /\ Held' = Held
    <2> DEFINE new == [NoObj EXCEPT !.exists = TRUE, !.gen = 1, !.spec = s]
    <2>1. ~obj[r].exists /\ Write(r, new) /\ Touched(r)
      BY <1>1 DEF Create
    <2>2. new \in ObjectType /\ ~new.finalizer
      BY ResourceConstants DEF NoObj, ObjectType
    <2>3. ~Steady(cached[r]) /\ r \notin Held
      BY <1>0, <2>1 DEF CacheInv, Held
    <2>4. RInv'
      BY <2>1, <2>2, <2>3, ForeignWrite DEF Steady
    <2>5. obj'[r] = new /\ \A q \in Objects \ {r} : obj'[q] = obj[q]
      BY <1>0, <2>1, <2>2, WriteFacts
    <2> QED BY <2>2, <2>3, <2>4, <2>5 DEF Held
  <1>2. ASSUME NEW r \in Objects, NEW s \in Specs, Edit(r, s) PROVE RInv' /\ Held' = Held
    <2> DEFINE new == [obj[r] EXCEPT !.spec = s, !.gen = @ + 1]
    <2>1. Write(r, new) /\ Touched(r)
      BY <1>2 DEF Edit
    <2>2. obj[r] \in ObjectType
      BY <1>0 DEF StoredTypes
    <2>3. /\ new \in ObjectType /\ new.exists = obj[r].exists
          /\ new.finalizer = obj[r].finalizer /\ new.deleting = obj[r].deleting
      <3> DEFINE o == obj[r]
      <3>1. o \in ObjectType /\ o.gen + 1 \in Nat
        BY <2>2 DEF ObjectType
      <3> HIDE DEF o
      <3>2. \A g \in Nat : LET n == [o EXCEPT !.spec = s, !.gen = g]
            IN  /\ n \in ObjectType /\ n.exists = o.exists
                /\ n.finalizer = o.finalizer /\ n.deleting = o.deleting
        BY <3>1 DEF ObjectType
      <3>3. new = [o EXCEPT !.spec = s, !.gen = o.gen + 1]
        BY DEF o
      <3> QED BY <3>1, <3>2, <3>3 DEF o
    <2>4. RInv'
      BY <1>0, <2>1, <2>3, ForeignWrite DEF Steady, CacheInv, Held
    <2>5. obj'[r] = new /\ \A q \in Objects \ {r} : obj'[q] = obj[q]
      BY <1>0, <2>1, <2>3, WriteFacts
    <2> QED BY <2>3, <2>4, <2>5 DEF Held
  <1>3. ASSUME NEW r \in Objects, Delete(r) PROVE RInv' /\ Held' = Held
    <2> DEFINE new == IF obj[r].finalizer THEN [obj[r] EXCEPT !.deleting = TRUE] ELSE NoObj
    <2>1. Write(r, new) /\ Touched(r) /\ obj[r].exists
      BY <1>3 DEF Delete
    <2>2. obj[r] \in ObjectType
      BY <1>0 DEF StoredTypes
    <2>3. /\ new \in ObjectType /\ ~Steady(new)
          /\ (new.exists /\ new.finalizer) <=> (obj[r].exists /\ obj[r].finalizer)
      BY <2>1, <2>2, NoObjType DEF ObjectType, Steady
    <2>4. RInv'
      BY <1>0, <2>1, <2>3, ForeignWrite DEF CacheInv, Held
    <2>5. obj'[r] = new /\ \A q \in Objects \ {r} : obj'[q] = obj[q]
      BY <1>0, <2>1, <2>3, WriteFacts
    <2> QED BY <2>3, <2>4, <2>5 DEF Held
  <1>4. ASSUME NEW r \in Objects, CacheSync(r) PROVE RInv' /\ Held' = Held
    <2>1. /\ UNCHANGED <<obj, pc, cur, loc, current>>
          /\ cached' = [cached EXCEPT ![r] = obj[r]] /\ fresh' = [fresh EXCEPT ![r] = TRUE]
      BY <1>4 DEF CacheSync, worker
    <2>2. StoredTypes' /\ Held' = Held
      BY <1>0, <2>1 DEF StoredTypes, Held
    <2>3. CacheInv'
      BY <1>0, <2>1, <2>2 DEF CacheInv, StoredTypes, Steady, Held
    <2>4. PassInv'
      BY <1>0, <2>1, <2>2 DEF RInv, PassInv, StoredTypes, Steady, Working
    <2> QED BY <2>1, <2>2, <2>3, <2>4 DEF RInv, PassTypes
  <1> QED BY <1>1, <1>2, <1>3, <1>4 DEF UserStep

\* Initially nobody holds anything.
LEMMA RInvInit == ResourceInit => RInv /\ Held = {}
  BY Any, NoObjType DEF ResourceInit, RInv, PassTypes, StoredTypes, CacheInv, PassInv, Held, Steady, Working, Finalizing

\* A step that leaves the resources and the worker alone.
LEMMA IdleStep == ASSUME RInv, UNCHANGED <<stored, worker>> PROVE RInv' /\ Held' = Held
  BY DEF stored, worker, RInv, PassTypes, StoredTypes, CacheInv, PassInv, Held, Steady, Working

\* A step of the life cycle takes or leaves at most one finalizer, its own, and
\* leaves it only in the last step of a finalization; without a missing Secret a
\* pass skips to that step only when the cluster is gone.
LEMMA SharedStep ==
  ASSUME RInv, ~SecretLoss, cluster # "noSecret", NEW calls,
         WorkerStep(calls) \/ UserStep \/ ClusterStep
  PROVE  /\ RInv' /\ cluster' # "noSecret" /\ (cluster' = "gone" <=> cluster = "gone")
         /\ Held' \in {Held, Held \cup {cur}} \/ (pc = "drop" /\ Held' = Held \ {cur})
         /\ pc' = "drop" => cur' = cur /\ (pc = "drop" \/ cluster = "gone")
  <1> USE DEF limits
  <1>1. ASSUME NEW r \in Objects, Reconcile(r) PROVE RInv' /\ Held' = Held /\ pc' # "drop" /\ UNCHANGED cluster
    <2>1. pc' # "drop" /\ UNCHANGED cluster
      BY <1>1 DEF Reconcile
    <2> QED BY <1>1, <2>1, ReconcileStep
  <1>2. CASE AddFinalizer
    <2>1. pc' # "drop" /\ UNCHANGED cluster
      BY <1>2 DEF AddFinalizer, EndPass
    <2> QED BY <1>2, <2>1, AddFinalizerStep
  <1>3. CASE DropFinalizer
    <2>1. pc = "drop" /\ pc' # "drop" /\ UNCHANGED cluster
      BY <1>3 DEF DropFinalizer, EndPass
    <2> QED BY <1>3, <2>1, DropFinalizerStep
  <1>4. CASE Unresolved(calls) \/ PassFails
    <2>1. Fails /\ pc' # "drop" /\ UNCHANGED cluster
      BY <1>4 DEF Unresolved, PassFails, Fails, EndPass
    <2> QED BY <2>1, FailsStep
  <1>5. CASE FinalizeUnresolved
    <2>1. CASE EndPass
      <3>1. Fails /\ pc' # "drop" /\ UNCHANGED cluster
        BY <1>5, <2>1 DEF FinalizeUnresolved, Fails, EndPass
      <3> QED BY <3>1, FailsStep
    <2>2. CASE ~EndPass
      <3>1. /\ pc = "finalize" /\ pc' = "drop" /\ resolve = "notFound"
            /\ UNCHANGED <<stored, cur, loc, current, cluster>>
        BY <1>5, <2>2 DEF FinalizeUnresolved
      <3>2. cluster = "gone"
        BY <3>1 DEF resolve
      <3>3. Advance
        BY <3>1 DEF Advance, Finalizing
      <3> QED BY <3>1, <3>2, <3>3, AdvanceStep
    <2> QED BY <2>1, <2>2
  <1>6. CASE UserStep
    <2>1. UNCHANGED <<pc, cur, cluster>>
      BY <1>6 DEF UserStep, Create, Edit, Delete, CacheSync, Edited, Touched, worker
    <2> QED BY <1>6, <2>1, UserStepKeeps
  <1>7. CASE Outage("unready") \/ Outage("noSecret") \/ Recover
    <2>1. /\ UNCHANGED <<stored, worker>> /\ cluster' # "noSecret"
          /\ (cluster' = "gone" <=> cluster = "gone")
      BY <1>7 DEF Outage, Recover
    <2>2. UNCHANGED <<pc, cur>>
      BY <2>1 DEF worker
    <2> QED BY <2>1, <2>2, IdleStep
  <1>8. CASE ClusterStep
    BY <1>6, <1>7, <1>8 DEF ClusterStep, UserStep
  <1> QED BY <1>1, <1>2, <1>3, <1>4, <1>5, <1>6, <1>8 DEF WorkerStep

-----------------------------------------------------------------------------
(* Type correctness, for the bounds the instances give. *)

\* A resource's generation counts its edits, and status can only repeat one.
Young(o) == o.gen <= edits /\ o.observed <= edits

\* With RInv, the type invariant: no counter passes its bound.
Counted ==
  /\ cluster \in {"up", "unready", "noSecret", "gone"}
  /\ edits \in 0 .. MaxEdits /\ faults \in 0 .. MaxFaults /\ outages \in 0 .. MaxOutages
  /\ Young(loc) /\ \A r \in Objects : Young(obj[r]) /\ Young(cached[r])

\* Counters in range make the types of ResourceTypeOK.
LEMMA CountedTypes == ASSUME RInv, Counted PROVE ResourceTypeOK
  <1>1. ASSUME NEW o \in ObjectType, Young(o) PROVE o \in Object
    <2>1. o.gen \in 0 .. MaxEdits /\ o.observed \in 0 .. MaxEdits
      BY <1>1, ResourceConstants DEF Young, ObjectType, Counted
    <2> QED BY <2>1 DEF ObjectType, Object
  <1>2. obj \in [Objects -> Object] /\ cached \in [Objects -> Object] /\ loc \in Object
    BY <1>1 DEF RInv, PassTypes, StoredTypes, Counted
  <1> QED BY <1>2 DEF ResourceTypeOK, RInv, PassTypes, StoredTypes, Counted

\* A write of a resource as young as the edits allow.
LEMMA CountedWrite ==
  ASSUME RInv, Counted, NEW r \in Objects, NEW new \in ObjectType, Write(r, new),
         edits' \in Nat, edits <= edits', new.gen <= edits', new.observed <= edits'
  PROVE  \A s \in Objects : Young(obj[s])' /\ Young(cached[s])'
  <1>0. StoredTypes /\ CacheInv
    BY DEF RInv, PassTypes
  <1>1. /\ obj'[r] = new /\ \A s \in Objects \ {r} : obj'[s] = obj[s]
        /\ \A s \in Objects : cached'[s] = cached[s] \/ cached'[s] = obj'[s]
    BY <1>0, WriteFacts
  <1>2. ASSUME NEW o \in ObjectType, Young(o) PROVE o.gen <= edits' /\ o.observed <= edits'
    BY <1>2, ResourceConstants DEF Young, ObjectType, Counted
  <1>3. \A s \in Objects : obj'[s].gen <= edits' /\ obj'[s].observed <= edits'
    BY <1>0, <1>1, <1>2 DEF StoredTypes, Counted
  <1>4. \A s \in Objects : cached'[s].gen <= edits' /\ cached'[s].observed <= edits'
    BY <1>0, <1>1, <1>2, <1>3 DEF StoredTypes, Counted
  <1> QED BY <1>3, <1>4 DEF Young

\* The same resources are still young after a step that edits nothing.
LEMMA CountedSame ==
  ASSUME Counted, UNCHANGED <<stored, edits>>
  PROVE  \A s \in Objects : Young(obj[s])' /\ Young(cached[s])'
  BY DEF Counted, Young, stored

\* Nothing is younger than a resource that is not there.
LEMMA CountedEnd == ASSUME Counted, EndPass, UNCHANGED edits PROVE Young(loc)'
  BY ResourceConstants DEF Counted, Young, EndPass, NoObj

\* A pass that ends with an error.
LEMMA CountedFails ==
  ASSUME RInv, Counted, Fails, UNCHANGED <<cluster, edits, outages>>, faults' \in 0 .. MaxFaults
  PROVE  Counted'
  <1>1. \A s \in Objects : Young(obj[s])' /\ Young(cached[s])'
    <2>1. CASE UNCHANGED stored
      BY <2>1, CountedSame
    <2>2. CASE Write(cur, [cached[cur] EXCEPT !.ready = "False"])
      <3> DEFINE new == [cached[cur] EXCEPT !.ready = "False"]
      <3>1. cur \in Objects /\ cached[cur] \in ObjectType /\ Young(cached[cur])
        BY DEF RInv, PassTypes, StoredTypes, Counted
      <3>2. new \in ObjectType /\ new.gen = cached[cur].gen /\ new.observed = cached[cur].observed
        BY <3>1 DEF ObjectType
      <3>3. edits \in Nat
        BY ResourceConstants DEF Counted
      <3> HIDE DEF new
      <3>4. Write(cur, new)
        BY <2>2 DEF new
      <3> QED BY <3>1, <3>2, <3>3, <3>4, CountedWrite DEF Young
    <2> QED BY <2>1, <2>2 DEF Fails, markDegraded
  <1>2. Young(loc)'
    BY CountedEnd DEF Fails
  <1> QED BY <1>1, <1>2 DEF Counted

\* A pass that ends well.
LEMMA CountedReady ==
  ASSUME RInv, Counted, NEW a \in Applied, markReady(a) PROVE Counted'
  <1>1. \A s \in Objects : Young(obj[s])' /\ Young(cached[s])'
    <2> DEFINE c == cached[cur]
               new == [c EXCEPT !.ready = "True", !.observed = c.gen, !.applied = a]
    <2>0. UNCHANGED edits
      BY DEF markReady, limits
    <2>1. CASE UNCHANGED stored
      BY <2>0, <2>1, CountedSame
    <2>2. CASE Write(cur, new)
      <3>1. cur \in Objects /\ c \in ObjectType /\ Young(c)
        BY DEF RInv, PassTypes, StoredTypes, Counted
      <3>2. new \in ObjectType /\ new.gen = c.gen /\ new.observed = c.gen
        BY <3>1 DEF ObjectType
      <3>3. edits \in Nat
        BY ResourceConstants DEF Counted
      <3>4. Write(cur, new)
        BY <2>2
      <3> HIDE DEF new
      <3> QED BY <2>0, <3>1, <3>2, <3>3, <3>4, CountedWrite DEF Young
    <2> QED BY <2>1, <2>2 DEF markReady
  <1>2. Young(loc)' /\ UNCHANGED <<cluster, edits, faults, outages>>
    BY CountedEnd DEF markReady, limits
  <1> QED BY <1>1, <1>2 DEF Counted

\* Steps that leave the resources, the pass's copy and the bounds alone.
LEMMA CountedAdvance ==
  ASSUME Counted, UNCHANGED <<stored, loc, cluster, limits>> PROVE Counted'
  <1>1. UNCHANGED edits
    BY DEF limits
  <1> QED BY <1>1, CountedSame DEF Counted, limits, Young

\* Users' edits: the generation grows with the edits made.
LEMMA CountedUser == ASSUME RInv, Counted, UserStep PROVE Counted'
  <1>0. edits \in Nat /\ loc \in ObjectType /\ \A r \in Objects : obj[r] \in ObjectType
    BY ResourceConstants DEF Counted, RInv, PassTypes, StoredTypes
  <1>1. ASSUME NEW r \in Objects, NEW new \in ObjectType, Edited, Write(r, new), Touched(r),
               new.gen <= edits + 1, new.observed <= edits + 1
        PROVE  Counted'
    <2>1. edits' = edits + 1 /\ edits' \in 0 .. MaxEdits /\ edits' \in Nat /\ edits <= edits'
      BY <1>0, <1>1, ResourceConstants DEF Edited, Counted
    <2>2. \A s \in Objects : Young(obj[s])' /\ Young(cached[s])'
      BY <1>1, <2>1, CountedWrite
    <2>3. loc' = loc /\ Young(loc)'
      BY <1>0, <1>1, <2>1 DEF Touched, Counted, Young, ObjectType
    <2> QED BY <1>1, <2>1, <2>2, <2>3 DEF Counted, Edited
  <1>2. ASSUME NEW r \in Objects, NEW s \in Specs, Create(r, s) PROVE Counted'
    <2> DEFINE new == [NoObj EXCEPT !.exists = TRUE, !.gen = 1, !.spec = s]
    <2>1. new \in ObjectType /\ new.gen = 1 /\ new.observed = 0
      BY ResourceConstants DEF NoObj, ObjectType
    <2>2. Edited /\ Write(r, new) /\ Touched(r)
      BY <1>2 DEF Create
    <2> HIDE DEF new
    <2>3. new.gen <= edits + 1 /\ new.observed <= edits + 1
      BY <1>0, <2>1
    <2> QED BY <1>1, <2>1, <2>2, <2>3
  <1>3. ASSUME NEW r \in Objects, NEW s \in Specs, Edit(r, s) PROVE Counted'
    <2> DEFINE o == obj[r]
               new == [o EXCEPT !.spec = s, !.gen = o.gen + 1]
    <2>1. o \in ObjectType /\ o.gen \in Nat /\ o.gen + 1 \in Nat /\ o.observed \in Nat /\ Young(o)
      BY <1>0 DEF ObjectType, Counted
    <2>2. Edited /\ Write(r, new) /\ Touched(r)
      BY <1>3 DEF Edit
    <2> HIDE DEF o
    <2>3. \A g \in Nat : LET n == [o EXCEPT !.spec = s, !.gen = g]
          IN  n \in ObjectType /\ n.gen = g /\ n.observed = o.observed
      BY <2>1 DEF ObjectType
    <2>4. new \in ObjectType /\ new.gen = o.gen + 1 /\ new.observed = o.observed
      BY <2>1, <2>3
    <2> HIDE DEF new
    <2>5. new.gen <= edits + 1 /\ new.observed <= edits + 1
      BY <1>0, <2>1, <2>4 DEF Young
    <2> QED BY <1>1, <2>2, <2>4, <2>5
  <1>4. ASSUME NEW r \in Objects, Delete(r) PROVE Counted'
    <2> DEFINE new == IF obj[r].finalizer THEN [obj[r] EXCEPT !.deleting = TRUE] ELSE NoObj
    <2>1. obj[r] \in ObjectType /\ Young(obj[r])
      BY <1>0 DEF Counted
    <2>2. Edited /\ Write(r, new) /\ Touched(r)
      BY <1>4 DEF Delete
    <2>3. /\ new \in ObjectType
          /\ (new.gen = obj[r].gen /\ new.observed = obj[r].observed) \/ (new.gen = 0 /\ new.observed = 0)
      <3>1. CASE obj[r].finalizer
        BY <2>1, <3>1 DEF ObjectType
      <3>2. CASE ~obj[r].finalizer
        BY <3>2, NoObjType DEF NoObj
      <3> QED BY <3>1, <3>2
    <2> HIDE DEF new
    <2>4. new.gen <= edits + 1 /\ new.observed <= edits + 1
      BY <1>0, <2>1, <2>3 DEF Young, ObjectType
    <2> QED BY <1>1, <2>2, <2>3, <2>4
  <1>5. ASSUME NEW r \in Objects, CacheSync(r) PROVE Counted'
    <2>1. UNCHANGED <<obj, loc, cluster, edits, faults, outages>> /\ cached' = [cached EXCEPT ![r] = obj[r]]
      BY <1>5 DEF CacheSync, worker, limits
    <2>2. \A s \in Objects : cached'[s] = cached[s] \/ cached'[s] = obj[s]
      BY <2>1 DEF RInv, PassTypes, StoredTypes
    <2> QED BY <2>1, <2>2 DEF Counted, Young
  <1> QED BY <1>2, <1>3, <1>4, <1>5 DEF UserStep

\* A pass goes to a step every controller has, or stays where it is.
SharedPc == {"idle", "finalizer", "reconcile", "finalize", "drop"}

\* Every step the controllers share keeps the types.
LEMMA LifeTypes ==
  ASSUME RInv, Counted, NEW calls, WorkerStep(calls) \/ UserStep \/ ClusterStep
  PROVE  RInv' /\ Counted' /\ pc' \in SharedPc \cup {pc}
  <1> USE DEF limits
  <1>c. faults < MaxFaults => faults + 1 \in 0 .. MaxFaults
    BY ResourceConstants DEF Counted
  <1>o. outages < MaxOutages => outages + 1 \in 0 .. MaxOutages
    BY ResourceConstants DEF Counted
  <1>1. ASSUME NEW r \in Objects, Reconcile(r) PROVE RInv' /\ Counted' /\ pc' \in SharedPc
    <2>1. pc' \in SharedPc
      BY <1>1 DEF Reconcile, SharedPc
    <2>2. UNCHANGED <<stored, cluster, edits, faults, outages>> /\ loc' = cached[r]
      BY <1>1 DEF Reconcile
    <2>3. Counted'
      BY <2>2 DEF Counted, Young, stored
    <2> QED BY <1>1, <2>1, <2>3, ReconcileStep
  <1>2. CASE AddFinalizer
    <2>0. RInv' /\ pc' \in SharedPc /\ UNCHANGED <<cluster, edits, faults, outages>>
      BY <1>2, AddFinalizerStep DEF AddFinalizer, EndPass, SharedPc
    <2>1. CASE EndPass /\ UNCHANGED stored
      BY <2>0, <2>1, CountedSame, CountedEnd DEF Counted
    <2>2. CASE loc' = [loc EXCEPT !.finalizer = TRUE] /\ Write(cur, loc')
      <3>1. cur \in Objects /\ loc \in ObjectType /\ loc' \in ObjectType /\ Young(loc) /\ edits \in Nat
        BY <2>0, ResourceConstants DEF RInv, PassTypes, Counted
      <3>2. loc'.gen = loc.gen /\ loc'.observed = loc.observed
        BY <2>2, <3>1 DEF ObjectType
      <3>3. loc'.gen <= edits' /\ loc'.observed <= edits' /\ edits <= edits'
        BY <2>0, <3>1, <3>2 DEF Young
      <3>4. \A s \in Objects : Young(obj[s])' /\ Young(cached[s])'
        BY <2>0, <2>2, <3>1, <3>3, CountedWrite
      <3> QED BY <2>0, <3>3, <3>4 DEF Counted, Young
    <2> QED BY <1>2, <2>0, <2>1, <2>2 DEF AddFinalizer
  <1>3. CASE DropFinalizer
    <2>0. RInv' /\ pc' = "idle" /\ EndPass /\ UNCHANGED <<cluster, edits, faults, outages>>
      BY <1>3, DropFinalizerStep DEF DropFinalizer, EndPass
    <2>1. \A s \in Objects : Young(obj[s])' /\ Young(cached[s])'
      <3>1. CASE UNCHANGED stored
        BY <2>0, <3>1, CountedSame
      <3>2. CASE Write(cur, NoObj)
        <4>1. NoObj.gen <= edits' /\ NoObj.observed <= edits' /\ edits' \in Nat /\ edits <= edits'
          BY <2>0, ResourceConstants DEF NoObj, Counted
        <4> QED BY <3>2, <4>1, NoObjType, CountedWrite DEF RInv, PassTypes
      <3> QED BY <1>3, <3>1, <3>2 DEF DropFinalizer
    <2> QED BY <2>0, <2>1, CountedEnd DEF Counted, SharedPc
  <1>4. CASE Unresolved(calls) \/ PassFails
    <2>1. Fails /\ pc' = "idle" /\ UNCHANGED <<cluster, edits, outages>> /\ faults' \in 0 .. MaxFaults
      BY <1>4, <1>c DEF Unresolved, PassFails, Fails, EndPass, Counted
    <2> QED BY <2>1, FailsStep, CountedFails DEF SharedPc
  <1>5. CASE FinalizeUnresolved
    <2>1. CASE EndPass
      <3>1. Fails /\ pc' = "idle" /\ UNCHANGED <<cluster, edits, outages, faults>>
        BY <1>5, <2>1 DEF FinalizeUnresolved, Fails, EndPass
      <3> QED BY <3>1, FailsStep, CountedFails DEF SharedPc, Counted
    <2>2. CASE ~EndPass
      <3>1. /\ pc = "finalize" /\ pc' = "drop" /\ UNCHANGED <<stored, cur, loc, current, cluster, limits>>
        BY <1>5, <2>2 DEF FinalizeUnresolved
      <3>2. Advance
        BY <3>1 DEF Advance, Finalizing
      <3> QED BY <3>1, <3>2, AdvanceStep, CountedAdvance DEF SharedPc
    <2> QED BY <2>1, <2>2
  <1>6. CASE UserStep
    <2>1. pc' = pc
      BY <1>6 DEF UserStep, Create, Edit, Delete, CacheSync, Touched, worker
    <2> QED BY <1>6, <2>1, UserStepKeeps, CountedUser
  <1>7. CASE Outage("unready") \/ Outage("noSecret") \/ Recover
    <2>1. UNCHANGED <<stored, worker, edits, faults>> /\ outages' \in 0 .. MaxOutages
          /\ cluster' \in {"up", "unready", "noSecret", "gone"}
      BY <1>7, <1>o DEF Outage, Recover, Counted
    <2>2. UNCHANGED <<pc, loc>>
      BY <2>1 DEF worker
    <2> QED BY <2>1, <2>2, IdleStep, CountedSame DEF Counted, Young
  <1>8. CASE ClusterStep
    BY <1>6, <1>7, <1>8 DEF ClusterStep, UserStep
  <1> QED BY <1>1, <1>2, <1>3, <1>4, <1>5, <1>6, <1>8 DEF WorkerStep

\* Initially every counter is 0.
LEMMA CountedInit == ResourceInit => Counted
  BY ResourceConstants DEF ResourceInit, Counted, Young, NoObj

-----------------------------------------------------------------------------
(* What the steps do to the pass and to the two copies of a resource. *)

\* A shared step of the worker leaves the controller's own part of the pass.
LEMMA WorkerMoves == ASSUME NEW calls, WorkerStep(calls) PROVE pc' \in SharedPc
  <1>1. ASSUME NEW r \in Objects, Reconcile(r) PROVE pc' \in SharedPc
    BY <1>1 DEF Reconcile, SharedPc
  <1>2. CASE AddFinalizer \/ DropFinalizer \/ FinalizeUnresolved
    BY <1>2 DEF AddFinalizer, DropFinalizer, FinalizeUnresolved, EndPass, SharedPc
  <1>3. CASE Unresolved(calls) \/ PassFails
    BY <1>3 DEF Unresolved, PassFails, EndPass, SharedPc
  <1> QED BY <1>1, <1>2, <1>3 DEF WorkerStep

\* Nobody but the worker moves the pass, or makes its copy the latest again.
LEMMA WorldStays ==
  ASSUME UserStep \/ ClusterStep PROVE UNCHANGED <<pc, cur, loc>> /\ (current' => current)
  <1>1. ASSUME NEW r, Touched(r) PROVE UNCHANGED <<pc, cur, loc>> /\ (current' => current)
    BY <1>1, Zenon DEF Touched
  <1>2. ASSUME UNCHANGED worker PROVE UNCHANGED <<pc, cur, loc>> /\ (current' => current)
    BY <1>2 DEF worker
  <1>3. CASE UserStep
    BY <1>1, <1>2, <1>3 DEF UserStep, Create, Edit, Delete, CacheSync
  <1>4. CASE ClusterStep
    BY <1>1, <1>2, <1>4 DEF ClusterStep, Delete, CacheSync, Outage, Recover
  <1> QED BY <1>3, <1>4

\* The spec and what was applied stay as they are; the cache may have caught up.
Calm ==
  \A r \in Objects :
     /\ obj'[r].spec = obj[r].spec /\ obj'[r].applied = obj[r].applied
     /\ cached'[r] \in {cached[r], obj'[r]}

\* Resource r is gone or new, and has no finalizer; the others stay as they are.
Renewed(r) ==
  /\ \A q \in Objects \ {r} : obj'[q] = obj[q]
  /\ \A q \in Objects : cached'[q] \in {cached[q], obj'[q]}
  /\ obj'[r].applied = NotApplied /\ ~obj'[r].finalizer

\* Only the spec of resource r changes.
Respecified(r, s) ==
  /\ \A q \in Objects \ {r} : obj'[q] = obj[q]
  /\ \A q \in Objects : cached'[q] \in {cached[q], obj'[q]}
  /\ obj'[r].spec = s /\ obj'[r].applied = obj[r].applied
  /\ obj'[r].exists = obj[r].exists /\ obj'[r].deleting = obj[r].deleting

\* A write that keeps the spec and what was applied.
LEMMA CalmWrite ==
  ASSUME RInv, NEW r \in Objects, NEW new \in ObjectType, Write(r, new),
         new.spec = obj[r].spec, new.applied = obj[r].applied
  PROVE  Calm
  BY WriteFacts DEF RInv, PassTypes, Calm

\* The resource is not there any more.
LEMMA GoneWrite ==
  ASSUME RInv, NEW r \in Objects, NEW new \in ObjectType, Write(r, new),
         new.applied = NotApplied, ~new.finalizer
  PROVE  Renewed(r)
  BY WriteFacts DEF RInv, PassTypes, Renewed

\* A pass that fails says so in the resource's status, and changes nothing else.
LEMMA FailsEffect == ASSUME RInv, Fails PROVE Calm
  <1>1. CASE UNCHANGED stored
    BY <1>1 DEF Calm, stored
  <1>2. CASE fresh[cur] /\ Write(cur, [cached[cur] EXCEPT !.ready = "False"])
    <2> DEFINE new == [cached[cur] EXCEPT !.ready = "False"]
    <2>1. cur \in Objects /\ cached[cur] \in ObjectType /\ cached[cur] = obj[cur]
      BY <1>2 DEF RInv, PassTypes, StoredTypes, CacheInv
    <2>2. new \in ObjectType /\ new.spec = obj[cur].spec /\ new.applied = obj[cur].applied
      BY <2>1 DEF ObjectType
    <2>3. Write(cur, new)
      BY <1>2
    <2> HIDE DEF new
    <2> QED BY <2>1, <2>2, <2>3, CalmWrite
  <1> QED BY <1>1, <1>2 DEF Fails, markDegraded

\* The steps of the worker change no spec and take no finalizer away; the last one
\* lets its resource go, or ends the pass.
LEMMA WorkerEffect ==
  ASSUME RInv, NEW calls, WorkerStep(calls)
  PROVE  /\ pc = "drop" => pc' = "idle"
         /\ \/ Calm /\ Held \subseteq Held'
            \/ pc = "drop" /\ current /\ Renewed(cur)
  <1>1. ASSUME NEW r \in Objects, Reconcile(r) PROVE pc # "drop" /\ Calm /\ Held' = Held
    BY <1>1, ReconcileStep DEF Reconcile, Calm, stored
  <1>2. CASE AddFinalizer
    <2>0. pc # "drop" /\ Held \subseteq Held'
      BY <1>2, AddFinalizerStep DEF AddFinalizer
    <2>1. CASE UNCHANGED stored
      BY <2>0, <2>1 DEF Calm, stored
    <2>2. CASE current /\ loc' = [loc EXCEPT !.finalizer = TRUE] /\ Write(cur, loc')
      <3>1. cur \in Objects /\ loc \in ObjectType /\ loc = obj[cur]
        BY <2>2 DEF RInv, PassTypes, PassInv
      <3>2. loc' \in ObjectType /\ loc'.spec = obj[cur].spec /\ loc'.applied = obj[cur].applied
        BY <2>2, <3>1 DEF ObjectType
      <3> QED BY <2>0, <2>2, <3>1, <3>2, CalmWrite
    <2> QED BY <1>2, <2>1, <2>2 DEF AddFinalizer
  <1>3. CASE DropFinalizer
    <2>0. pc = "drop" /\ pc' = "idle"
      BY <1>3 DEF DropFinalizer, EndPass
    <2>1. CASE UNCHANGED stored
      BY <2>0, <2>1 DEF Calm, Held, stored
    <2>2. CASE current /\ Write(cur, NoObj)
      <3>1. NoObj \in ObjectType /\ NoObj.applied = NotApplied /\ ~NoObj.finalizer /\ cur \in Objects
        BY NoObjType DEF NoObj, RInv, PassTypes
      <3> QED BY <2>0, <2>2, <3>1, GoneWrite
    <2> QED BY <1>3, <2>1, <2>2 DEF DropFinalizer
  <1>4. CASE Unresolved(calls) \/ PassFails
    <2>1. Fails /\ pc' = "idle"
      BY <1>4 DEF Unresolved, PassFails, Fails, EndPass
    <2> QED BY <2>1, FailsEffect, FailsStep
  <1>5. CASE FinalizeUnresolved
    BY <1>5 DEF FinalizeUnresolved, Calm, Held, stored
  <1> QED BY <1>1, <1>2, <1>3, <1>4, <1>5 DEF WorkerStep

\* A resource with its finalizer stays when it is deleted.
LEMMA DeleteEffect ==
  ASSUME RInv, NEW r \in Objects, Delete(r) PROVE Calm \/ (Renewed(r) /\ r \notin Held)
  <1>1. obj[r] \in ObjectType
    BY DEF RInv, PassTypes, StoredTypes
  <1>2. CASE obj[r].finalizer
    <2> DEFINE new == [obj[r] EXCEPT !.deleting = TRUE]
    <2>1. new \in ObjectType /\ new.spec = obj[r].spec /\ new.applied = obj[r].applied
      BY <1>1 DEF ObjectType
    <2>2. Write(r, new)
      BY <1>2 DEF Delete
    <2> HIDE DEF new
    <2> QED BY <2>1, <2>2, CalmWrite
  <1>3. CASE ~obj[r].finalizer
    <2>1. NoObj \in ObjectType /\ NoObj.applied = NotApplied /\ ~NoObj.finalizer
      BY NoObjType DEF NoObj
    <2>2. Write(r, NoObj)
      BY <1>3 DEF Delete
    <2> QED BY <1>3, <2>1, <2>2, GoneWrite DEF Held
  <1> QED BY <1>2, <1>3

\* A resource that is created has no finalizer, and nothing was applied for it.
LEMMA CreateEffect ==
  ASSUME RInv, NEW r \in Objects, NEW s \in Specs, Create(r, s)
  PROVE  Renewed(r) /\ obj'[r].spec = s /\ r \notin Held
  <1> DEFINE new == [NoObj EXCEPT !.exists = TRUE, !.gen = 1, !.spec = s]
  <1>1. new \in ObjectType /\ new.applied = NotApplied /\ ~new.finalizer /\ new.spec = s
    BY ResourceConstants DEF NoObj, ObjectType
  <1>2. Write(r, new) /\ r \notin Held
    BY DEF Create, Held
  <1> HIDE DEF new
  <1>3. obj'[r] = new
    BY <1>1, <1>2, WriteFacts DEF RInv, PassTypes
  <1> QED BY <1>1, <1>2, <1>3, GoneWrite

\* An edit changes the spec only.
LEMMA EditEffect ==
  ASSUME RInv, NEW r \in Objects, NEW s \in Specs, Edit(r, s) PROVE Respecified(r, s)
  <1> DEFINE o == obj[r]
             new == [o EXCEPT !.spec = s, !.gen = o.gen + 1]
  <1>1. o \in ObjectType /\ o.gen + 1 \in Nat
    BY DEF RInv, PassTypes, StoredTypes, ObjectType
  <1>2. Write(r, new)
    BY DEF Edit
  <1> HIDE DEF o
  <1>3. \A g \in Nat : LET n == [o EXCEPT !.spec = s, !.gen = g]
        IN  /\ n \in ObjectType /\ n.spec = s /\ n.applied = o.applied
            /\ n.exists = o.exists /\ n.deleting = o.deleting
    BY <1>1 DEF ObjectType
  <1>4. /\ new \in ObjectType /\ new.spec = s /\ new.applied = o.applied
        /\ new.exists = o.exists /\ new.deleting = o.deleting
    BY <1>1, <1>3
  <1> HIDE DEF new
  <1> QED BY <1>2, <1>4, WriteFacts DEF RInv, PassTypes, Respecified, o

\* The cache catches up.
LEMMA SyncEffect == ASSUME RInv, NEW r \in Objects, CacheSync(r) PROVE Calm
  BY DEF CacheSync, Calm, RInv, PassTypes, StoredTypes

\* The end of a pass that succeeded: what it applied is recorded, if the resource
\* is still the latest one; it is when the cache does not lag.
LEMMA ReadyEffect ==
  ASSUME RInv, NEW a \in Applied, markReady(a)
  PROVE  /\ \A r \in Objects : obj'[r].spec = obj[r].spec /\ cached'[r] \in {cached[r], obj'[r]}
         /\ \A r \in Objects \ {cur} : obj'[r].applied = obj[r].applied
         /\ obj'[cur].applied \in {obj[cur].applied, a}
         /\ fresh[cur] /\ obj[cur].exists => obj'[cur].applied = a
  <1> DEFINE c == cached[cur]
             new == [c EXCEPT !.ready = "True", !.observed = c.gen, !.applied = a]
  <1>1. cur \in Objects /\ c \in ObjectType /\ (fresh[cur] => c = obj[cur]) /\ StoredTypes /\ CacheInv
    BY DEF RInv, PassTypes, StoredTypes, CacheInv
  <1>2. new \in ObjectType /\ new.spec = c.spec /\ new.applied = a
    BY <1>1 DEF ObjectType
  <1>3. IF c.exists /\ new # c /\ fresh[cur] THEN Write(cur, new) ELSE UNCHANGED stored
    BY DEF markReady
  <1> HIDE DEF c, new
  <1>4. CASE UNCHANGED stored /\ ~(c.exists /\ new # c /\ fresh[cur])
    <2>1. fresh[cur] /\ obj[cur].exists => obj[cur].applied = a
      BY <1>1, <1>2, <1>4
    <2> QED BY <1>4, <2>1 DEF stored
  <1>5. CASE Write(cur, new) /\ fresh[cur]
    BY <1>1, <1>2, <1>5, WriteFacts
  <1> QED BY <1>3, <1>4, <1>5

-----------------------------------------------------------------------------
(* What a pass knows of its resource when the cache does not lag. *)

\* The pass works on the latest version of what was applied, and finalizes a
\* resource that is still terminating.
Prompt ==
  ~Lag => /\ \A r \in Objects : fresh[r]
          /\ pc \in Finalizing => obj[cur].exists /\ obj[cur].deleting
          /\ Working(pc) \/ pc \in Finalizing => loc.applied = obj[cur].applied

\* The cache keeps up with every write.
LEMMA FreshWrite ==
  ASSUME NEW r, NEW new, (\A q \in Objects : fresh[q]), ~Lag, Write(r, new)
  PROVE  \A q \in Objects : fresh'[q]
  BY DEF Write

\* A pass that ends.
LEMMA PromptEnd ==
  ASSUME Prompt, EndPass, UNCHANGED stored \/ \E new : Write(cur, new) PROVE Prompt'
  <1>1. ~Lag => \A q \in Objects : fresh'[q]
    BY FreshWrite DEF Prompt, stored
  <1> QED BY <1>1 DEF Prompt, EndPass, Working, Finalizing

\* A pass that fails, or that ends well.
LEMMA PromptFails == ASSUME Prompt, Fails \/ \E a : markReady(a) PROVE Prompt'
  <1>1. EndPass /\ (UNCHANGED stored \/ \E new : Write(cur, new))
    BY Zenon DEF Fails, markDegraded, markReady
  <1> QED BY <1>1, PromptEnd, Zenon

\* A pass that goes on.
LEMMA PromptAdvance == ASSUME Prompt, Advance PROVE Prompt'
  BY DEF Prompt, Advance, Working, Finalizing, stored

\* A step that leaves the resources and the worker alone.
LEMMA PromptIdle == ASSUME Prompt, UNCHANGED <<stored, worker>> PROVE Prompt'
  BY DEF Prompt, Working, stored, worker

\* Users cannot replace a resource that is being finalized, and never write what
\* was applied.
LEMMA PromptUser == ASSUME RInv, Prompt, UserStep PROVE Prompt'
  <1>0. SUFFICES ASSUME ~Lag PROVE Prompt'
    BY DEF Prompt
  <1>1. /\ \A q \in Objects : fresh[q]
        /\ pc \in Finalizing => obj[cur].exists /\ obj[cur].deleting
        /\ Working(pc) \/ pc \in Finalizing => loc.applied = obj[cur].applied
        /\ Working(pc) => cur \in Held
        /\ cur \in Objects
    BY <1>0 DEF Prompt, RInv, PassTypes, PassInv
  <1>2. ASSUME NEW r \in Objects, NEW new, Write(r, new), Touched(r),
               Working(pc) \/ pc \in Finalizing => obj'[cur].applied = obj[cur].applied,
               pc \in Finalizing => obj'[cur].exists /\ obj'[cur].deleting
        PROVE  Prompt'
    <2>1. \A q \in Objects : fresh'[q]
      BY <1>0, <1>1, <1>2, FreshWrite
    <2>2. UNCHANGED <<pc, cur, loc>>
      BY <1>2 DEF Touched
    <2> QED BY <1>1, <1>2, <2>1, <2>2 DEF Prompt, Working
  <1>3. ASSUME NEW r \in Objects, NEW s \in Specs, Create(r, s) PROVE Prompt'
    <2>1. Renewed(r) /\ r \notin Held /\ ~obj[r].exists
      BY <1>3, CreateEffect, Zenon DEF Create
    <2>2. Working(pc) \/ pc \in Finalizing => obj'[cur] = obj[cur]
      BY <1>1, <2>1 DEF Renewed
    <2>3. \E new : Write(r, new) /\ Touched(r)
      BY <1>3, Zenon DEF Create
    <2> QED BY <1>1, <1>2, <2>2, <2>3, Zenon
  <1>4. ASSUME NEW r \in Objects, NEW s \in Specs, Edit(r, s) PROVE Prompt'
    <2>1. Respecified(r, s)
      BY <1>4, EditEffect
    <2>2. /\ obj'[cur].applied = obj[cur].applied
          /\ obj'[cur].exists = obj[cur].exists /\ obj'[cur].deleting = obj[cur].deleting
      BY <1>1, <2>1 DEF Respecified
    <2>3. \E new : Write(r, new) /\ Touched(r)
      BY <1>4, Zenon DEF Edit
    <2> QED BY <1>1, <1>2, <2>2, <2>3
  <1>5. ASSUME NEW r \in Objects, Delete(r) PROVE Prompt'
    <2>1. Calm \/ (Renewed(r) /\ r \notin Held)
      BY <1>5, DeleteEffect
    <2>2. Working(pc) => obj'[cur].applied = obj[cur].applied
      BY <1>1, <2>1 DEF Renewed, Calm
    <2>3. pc \in Finalizing => obj'[cur] = obj[cur]
      BY <1>1, <1>5 DEF Delete, Write, RInv, PassTypes, StoredTypes
    <2>4. \E new : Write(r, new) /\ Touched(r)
      BY <1>5, Zenon DEF Delete
    <2> QED BY <1>1, <1>2, <2>2, <2>3, <2>4
  <1>6. ASSUME NEW r \in Objects, CacheSync(r) PROVE Prompt'
    BY <1>1, <1>6 DEF CacheSync
  <1> QED BY <1>3, <1>4, <1>5, <1>6 DEF UserStep

\* Every step the controllers share.
LEMMA PromptShared ==
  ASSUME RInv, Prompt, NEW calls, WorkerStep(calls) \/ UserStep \/ ClusterStep PROVE Prompt'
  <1>1. ASSUME NEW r \in Objects, Reconcile(r) PROVE Prompt'
    <2>1. /\ UNCHANGED <<obj, fresh>> /\ cur' = r /\ loc' = cached[r] /\ current' = fresh[r]
          /\ cached[r].exists
          /\ (cached[r].deleting /\ pc' = "finalize") \/ pc' \in {"finalizer", "reconcile"}
      BY <1>1 DEF Reconcile, stored
    <2>2. fresh[r] => cached[r] = obj[r]
      BY DEF RInv, CacheInv
    <2> QED BY <2>1, <2>2 DEF Prompt, Working, Finalizing
  <1>2. CASE AddFinalizer
    <2>1. CASE EndPass /\ UNCHANGED stored
      BY <2>1, PromptEnd
    <2>2. CASE pc' = "reconcile" /\ cur' = cur /\ Write(cur, loc')
      <3>1. ~Lag => \A q \in Objects : fresh'[q]
        BY <2>2, FreshWrite DEF Prompt
      <3>2. obj'[cur] = loc'
        BY <2>2 DEF Write, RInv, PassTypes, StoredTypes
      <3> QED BY <2>2, <3>1, <3>2 DEF Prompt, Working, Finalizing
    <2> QED BY <1>2, <2>1, <2>2 DEF AddFinalizer
  <1>3. CASE DropFinalizer
    BY <1>3, PromptEnd DEF DropFinalizer
  <1>4. CASE Unresolved(calls) \/ PassFails
    <2>1. Fails
      BY <1>4 DEF Unresolved, PassFails, Fails
    <2> QED BY <2>1, PromptFails
  <1>5. CASE FinalizeUnresolved
    <2>1. CASE EndPass
      BY <1>5, <2>1, PromptEnd DEF FinalizeUnresolved
    <2>2. CASE ~EndPass
      <3>1. Advance
        BY <1>5, <2>2 DEF FinalizeUnresolved, Advance, Finalizing
      <3> QED BY <3>1, PromptAdvance
    <2> QED BY <2>1, <2>2
  <1>6. CASE UserStep
    BY <1>6, PromptUser
  <1>7. CASE Outage("unready") \/ Outage("noSecret") \/ Recover
    BY <1>7, PromptIdle DEF Outage, Recover
  <1>8. CASE ClusterStep
    BY <1>6, <1>7, <1>8 DEF ClusterStep, UserStep
  <1> QED BY <1>1, <1>2, <1>3, <1>4, <1>5, <1>6, <1>8 DEF WorkerStep

\* Initially there is no pass.
LEMMA PromptInit == ResourceInit => Prompt
  BY DEF ResourceInit, Prompt, Working, Finalizing
=============================================================================
