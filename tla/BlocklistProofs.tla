--------------------------- MODULE BlocklistProofs ---------------------------
(***************************************************************************)
(* What the Blocklist controller promises about overrides and refreshes.   *)
(*                                                                         *)
(* Overrides: while every pass runs to its end, a Blocklist has on the     *)
(* server what its status says, and during a pass what the spec or the rest*)
(* of the pass's work names (Smooth).  This is for any number of           *)
(* Blocklists.                                                             *)
(*                                                                         *)
(* Refreshes: a URL list that is on the server and not downloaded is not   *)
(* the one in status.  If passes fail or work on outdated copies, this is  *)
(* because versions are totally ordered: what was applied, what the pass   *)
(* and the cache know, and the spec only go forward (Order, Forward).  If  *)
(* no pass fails, the spec may go anywhere (Direct).  This is for a server *)
(* whose blocking configuration one Blocklist owns.                        *)
(***************************************************************************)
EXTENDS Blocklist, ResourceProofs

Lists == URLs \cup {0}
ServerType == [urls : Lists, blocking : Settings, loaded : Lists, overrides : SUBSET Overrides]

DataTypes ==
  /\ server \in ServerType /\ reads \in [urls : Lists, blocking : Settings \cup {Unset}]
  /\ todo \subseteq Overrides /\ wrote \in [Objects -> SUBSET Overrides] /\ reverted \in BOOLEAN

Steps == {"idle", "finalizer", "reconcile", "settings", "refresh", "domains", "ready",
          "finalize", "unload", "clear", "drop"}
Typed == RInv /\ Counted /\ pc \in Steps /\ DataTypes

-----------------------------------------------------------------------------
(* Type correctness. *)

\* A URL list is a number; what is to be applied can be recorded.
LEMMA SpecTypes ==
  /\ Lists \subseteq Nat
  /\ \A o \in ObjectType :
        /\ o.spec \in BlocklistSpec /\ o.spec.urls \in Lists /\ o.spec.overrides \subseteq Overrides
        /\ o.applied.urls \in Lists /\ o.applied.overrides \subseteq Overrides
        /\ [urls |-> o.spec.urls, overrides |-> o.spec.overrides] \in Applied
  BY BlocklistConstants DEF Lists, ObjectType, BlocklistSpec

\* The fields of the resources, as every proof here uses them.
LEMMA FieldTypes ==
  ASSUME RInv
  PROVE  /\ loc.spec \in BlocklistSpec /\ loc.spec.urls \in Nat /\ loc.applied.urls \in Nat
         /\ loc.spec.urls \in Lists /\ loc.spec.overrides \subseteq Overrides /\ loc.applied.overrides \subseteq Overrides
         /\ \A r \in Objects : /\ obj[r].spec.urls \in Nat /\ obj[r].applied.urls \in Nat
                               /\ cached[r].spec.urls \in Nat /\ cached[r].applied.urls \in Nat
         /\ [urls |-> loc.spec.urls, overrides |-> loc.spec.overrides] \in Applied
  BY SpecTypes DEF RInv, PassTypes, StoredTypes

\* The steps of the pass between "reconcile" and "ready", and of the finalizer,
\* leave the resources and the worker's copy alone.
OwnStep ==
  \/ GetDNSSettings \/ SetDNSSettings \/ ForceUpdateBlockLists \/ reconcileDomainSet
  \/ finalizeBlocklist \/ finalizeRefresh \/ finalizeDomains

\* They go on within the pass.
LEMMA OwnAdvance ==
  ASSUME OwnStep PROVE Advance /\ pc' \in Steps /\ UNCHANGED <<stored, cur, loc, current, cluster, limits, reverted>>
  <1>1. CASE GetDNSSettings \/ SetDNSSettings \/ ForceUpdateBlockLists \/ reconcileDomainSet
    BY <1>1 DEF GetDNSSettings, SetDNSSettings, ForceUpdateBlockLists, reconcileDomainSet, Advance, Working, Finalizing, Steps
  <1>2. CASE finalizeBlocklist \/ finalizeRefresh \/ finalizeDomains
    BY <1>2 DEF finalizeBlocklist, finalizeRefresh, finalizeDomains, Advance, Finalizing, Steps
  <1> QED BY <1>1, <1>2 DEF OwnStep

\* Remove takes the override from whoever wrote it.
LEMMA RemoveFacts ==
  ASSUME DataTypes, NEW o, Remove(o)
  PROVE  /\ server' \in ServerType /\ wrote' \in [Objects -> SUBSET Overrides]
         /\ server'.urls = server.urls /\ server'.loaded = server.loaded
         /\ \A r \in Objects : wrote'[r] = wrote[r] \ {o}
  <1>1. server' = [server EXCEPT !.overrides = server.overrides \ {o}]
    BY DEF Remove
  <1>2. server' \in ServerType /\ server'.urls = server.urls /\ server'.loaded = server.loaded
    BY <1>1 DEF DataTypes, ServerType
  <1>3. wrote' = [r \in Objects |-> wrote[r] \ {o}]
    BY DEF Remove
  <1> QED BY <1>2, <1>3 DEF DataTypes

\* What one call for an override does, to add it or to remove it.
LEMMA DomainFacts ==
  ASSUME Typed, reconcileDomainSet
  PROVE  /\ server' \in ServerType /\ wrote' \in [Objects -> SUBSET Overrides]
         /\ server'.urls = server.urls /\ server'.loaded = server.loaded
         /\ \E o \in todo :
               /\ todo' = todo \ {o}
               /\ \A r \in Objects \ {cur} : wrote'[r] \subseteq wrote[r]
               /\ wrote'[cur] \subseteq (wrote[cur] \ {o}) \cup (loc.spec.overrides \cap {o})
  <1>0. cur \in Objects /\ DataTypes
    BY DEF Typed, RInv, PassTypes
  <1>1. PICK o \in NextUp(todo) :
           /\ \/ /\ o \in loc.spec.overrides
                 /\ server' = [server EXCEPT !.overrides = server.overrides \cup {o}]
                 /\ wrote' = [wrote EXCEPT ![cur] = wrote[cur] \cup {o}]
              \/ o \notin loc.spec.overrides /\ Remove(o)
           /\ todo' = todo \ {o}
    BY DEF reconcileDomainSet
  <1>2. o \in todo /\ o \in Overrides
    BY <1>0, <1>1 DEF NextUp, DataTypes
  <1>3. CASE o \in loc.spec.overrides
    <2>1. server' = [server EXCEPT !.overrides = server.overrides \cup {o}] /\ wrote' = [wrote EXCEPT ![cur] = wrote[cur] \cup {o}]
      BY <1>1, <1>3
    <2>2. server' \in ServerType /\ server'.urls = server.urls /\ server'.loaded = server.loaded
      BY <1>0, <1>2, <2>1 DEF DataTypes, ServerType
    <2>3. /\ wrote' \in [Objects -> SUBSET Overrides] /\ wrote'[cur] = wrote[cur] \cup {o}
          /\ \A r \in Objects \ {cur} : wrote'[r] = wrote[r]
      BY <1>0, <1>2, <2>1 DEF DataTypes
    <2> QED BY <1>1, <1>2, <1>3, <2>2, <2>3
  <1>4. CASE o \notin loc.spec.overrides
    <2>1. Remove(o)
      BY <1>1, <1>4
    <2> QED BY <1>0, <1>1, <1>2, <2>1, RemoveFacts
  <1> QED BY <1>3, <1>4

\* What one call of the finalizer for an override does.
LEMMA ClearFacts ==
  ASSUME Typed, finalizeDomains
  PROVE  /\ server' \in ServerType /\ wrote' \in [Objects -> SUBSET Overrides]
         /\ server'.urls = server.urls /\ server'.loaded = server.loaded
         /\ \E o \in todo : todo' = todo \ {o} /\ \A r \in Objects : wrote'[r] = wrote[r] \ {o}
  BY RemoveFacts DEF finalizeDomains, Typed

\* The types of the server, of what was read and of the history.
LEMMA DataStep == ASSUME Typed, Next PROVE DataTypes'
  <1>0. RInv /\ cur \in Objects /\ DataTypes /\ loc.spec \in BlocklistSpec /\ loc.spec.urls \in Lists
        /\ loc.spec.overrides \subseteq Overrides /\ loc.applied.overrides \subseteq Overrides
    BY FieldTypes DEF Typed, RInv, PassTypes
  <1>1. NoReads \in [urls : Lists, blocking : Settings \cup {Unset}] /\ NoServer \in ServerType
    BY BlocklistConstants DEF NoReads, NoServer, Lists, ServerType
  <1>2. CASE Shared \/ markBlocklistReady
    BY <1>0, <1>1, <1>2 DEF Shared, markBlocklistReady, DataTypes
  <1>3. CASE GetDNSSettings
    <2>1. reads' = [urls |-> server.urls, blocking |-> server.blocking] /\ UNCHANGED <<server, todo, wrote, reverted>>
      BY <1>3 DEF GetDNSSettings
    <2>2. server.urls \in Lists /\ server.blocking \in Settings
      BY <1>0 DEF DataTypes, ServerType
    <2> QED BY <1>0, <2>1, <2>2 DEF DataTypes
  <1>4. CASE SetDNSSettings
    <2>1. UNCHANGED <<reads, todo, wrote, reverted>>
      BY <1>4 DEF SetDNSSettings
    <2>2. \/ server' = server
          \/ \E b \in Settings : server' = [server EXCEPT !.urls = loc.spec.urls, !.blocking = b]
      BY <1>0, <1>4 DEF SetDNSSettings, BlocklistSpec, DataTypes, ServerType
    <2>3. server' \in ServerType
      BY <1>0, <2>2 DEF DataTypes, ServerType
    <2> QED BY <1>0, <2>1, <2>3 DEF DataTypes
  <1>5. CASE ForceUpdateBlockLists
    <2>1. UNCHANGED <<reads, wrote, reverted>> /\ todo' \subseteq Overrides
      BY <1>0, <1>5 DEF ForceUpdateBlockLists, Changes
    <2>2. server' \in ServerType
      BY <1>0, <1>5 DEF ForceUpdateBlockLists, DataTypes, ServerType
    <2> QED BY <1>0, <2>1, <2>2 DEF DataTypes
  <1>6. CASE reconcileDomainSet
    <2>1. UNCHANGED <<reads, reverted>>
      BY <1>6 DEF reconcileDomainSet
    <2> QED BY <1>0, <1>6, <2>1, DomainFacts DEF DataTypes
  <1>7. CASE finalizeBlocklist
    <2>1. UNCHANGED <<reads, todo, reverted>>
      BY <1>7 DEF finalizeBlocklist
    <2>2. CASE wrote' = [wrote EXCEPT ![cur] = {}] /\ UNCHANGED server
      BY <1>0, <2>1, <2>2 DEF DataTypes
    <2>3. CASE server' = [server EXCEPT !.urls = 0] /\ UNCHANGED wrote
      <3>1. server' \in ServerType
        BY <1>0, <2>3 DEF DataTypes, ServerType, Lists
      <3> QED BY <1>0, <2>1, <2>3, <3>1 DEF DataTypes
    <2> QED BY <1>7, <2>2, <2>3 DEF finalizeBlocklist
  <1>8. CASE finalizeRefresh
    <2>1. UNCHANGED <<reads, wrote, reverted>> /\ todo' \subseteq Overrides
      BY <1>0, <1>8 DEF finalizeRefresh
    <2>2. server' \in ServerType
      BY <1>0, <1>8 DEF finalizeRefresh, DataTypes, ServerType
    <2> QED BY <1>0, <2>1, <2>2 DEF DataTypes
  <1>9. CASE finalizeDomains
    <2>1. UNCHANGED <<reads, reverted>>
      BY <1>9 DEF finalizeDomains
    <2> QED BY <1>0, <1>9, <2>1, ClearFacts DEF DataTypes
  <1>10. ASSUME NEW r \in Objects, NEW s \in Specs, EditBlocklist(r, s) PROVE DataTypes'
    <2>1. reverted' \in BOOLEAN
      BY <1>10, Zenon DEF EditBlocklist
    <2> QED BY <1>0, <1>10, <2>1 DEF EditBlocklist, DataTypes
  <1>11. CASE ClusterGone
    <2>1. wrote' \in [Objects -> SUBSET Overrides]
      BY <1>11 DEF ClusterGone
    <2> QED BY <1>0, <1>1, <1>11, <2>1 DEF ClusterGone, DataTypes
  <1> QED BY <1>2, <1>3, <1>4, <1>5, <1>6, <1>7, <1>8, <1>9, <1>10, <1>11 DEF Next, Operator, World

\* Every step keeps the types, and the counters within their bounds.
LEMMA TypeStep == ASSUME Typed, Next PROVE Typed'
  <1>0. RInv /\ Counted /\ pc \in Steps /\ SharedPc \subseteq Steps /\ DataTypes'
    BY DataStep DEF Typed, SharedPc, Steps, Finalizing
  <1>1. ASSUME WorkerStep(Calls) \/ UserStep \/ ClusterStep PROVE Typed'
    BY <1>0, <1>1, LifeTypes DEF Typed
  <1>2. CASE OwnStep
    BY <1>0, <1>2, OwnAdvance, AdvanceStep, CountedAdvance DEF Typed
  <1>3. CASE markBlocklistReady
    <2>1. markReady([urls |-> loc.spec.urls, overrides |-> loc.spec.overrides]) /\ pc' \in Steps
      BY <1>3 DEF markBlocklistReady, markReady, EndPass, Steps
    <2> QED BY <1>0, <2>1, FieldTypes, MarkReadyStep, CountedReady DEF Typed
  <1>4. ASSUME NEW r \in Objects, NEW s \in Specs, (Create(r, s) /\ Shared) \/ EditBlocklist(r, s) PROVE Typed'
    BY <1>1, <1>4 DEF UserStep, EditBlocklist
  <1>5. CASE ClusterGone
    <2>1. UNCHANGED <<stored, worker, edits, faults>> /\ cluster' = "gone" /\ outages' \in 0 .. MaxOutages
      BY <1>0, <1>5, ResourceConstants DEF ClusterGone, Outage, Counted
    <2>2. UNCHANGED <<pc, loc>>
      BY <2>1 DEF worker
    <2> QED BY <1>0, <2>1, <2>2, IdleStep, CountedSame DEF Typed, Counted, Young
  <1> QED BY <1>1, <1>2, <1>3, <1>4, <1>5 DEF Next, Operator, World, OwnStep

\* Stuttering.
LEMMA TypeStutter == ASSUME Typed, UNCHANGED vars PROVE Typed'
  <1>1. UNCHANGED <<stored, worker, loc, pc, cluster, limits, server, reads, todo, wrote, reverted>>
    BY DEF vars, resource, worker
  <1>2. RInv' /\ Counted'
    BY <1>1, IdleStep, CountedAdvance DEF Typed
  <1> QED BY <1>1, <1>2 DEF Typed, DataTypes

\* Initially the server has no lists and no overrides.
LEMMA TypeInit == Init => Typed
  <1>1. NoReads \in [urls : Lists, blocking : Settings \cup {Unset}] /\ NoServer \in ServerType
    BY BlocklistConstants DEF NoReads, NoServer, Lists, ServerType
  <1>2. Init => DataTypes
    BY <1>1 DEF Init, DataTypes
  <1> QED BY <1>2, RInvInit, CountedInit DEF Init, Typed, ResourceInit, Steps

\* Type correctness of the Blocklist controller: whatever reconcileBlocklist,
\* finalizeBlocklist, users and outages do, the server has URL lists and overrides
\* that specs named, and every counter stays within its bound.
THEOREM BlocklistTypes == Spec => []TypeOK
  <1>1. Typed /\ [Next]_vars => Typed'
    BY TypeStep, TypeStutter
  <1>2. Typed => TypeOK
    BY CountedTypes DEF Typed, DataTypes, TypeOK, Steps, Finalizing, Lists, ServerType
  <1> QED BY TypeInit, <1>1, <1>2, PTL DEF Spec

-----------------------------------------------------------------------------
(* Overrides, while no pass is cut short. *)

\* The cluster is there unless there was an outage.
Up == outages = 0 => cluster = "up"

\* Outages are counted.
LEMMA UpStep == ASSUME Typed, Up, Next PROVE Up'
  <1>1. outages \in Nat
    BY ResourceConstants DEF Typed, Counted
  <1>2. \A kind : Outage(kind) => outages' # 0
    BY <1>1 DEF Outage
  <1>3. CASE WorkerStep(Calls)
    BY <1>3 DEF Up, WorkerStep, Reconcile, AddFinalizer, Unresolved, FinalizeUnresolved, DropFinalizer, PassFails, limits
  <1>4. CASE OwnStep \/ markBlocklistReady
    BY <1>4, OwnAdvance DEF Up, markBlocklistReady, markReady, limits
  <1>5. CASE \E r \in Objects, s \in Specs : Create(r, s) \/ EditBlocklist(r, s)
    BY <1>5 DEF Up, EditBlocklist, Create, Edit, Edited
  <1>6. CASE ClusterStep \/ ClusterGone
    BY <1>2, <1>6 DEF Up, ClusterStep, ClusterGone, Delete, CacheSync, Edited, Recover, limits
  <1> QED BY <1>3, <1>4, <1>5, <1>6 DEF Next, Operator, World, OwnStep

\* Nobody takes a fault or an outage back, and without one no pass fails.
LEMMA Quiet ==
  ASSUME Typed, Up, Next, Undisturbed'
  PROVE  /\ Undisturbed /\ ~Lag /\ cluster = "up"
         /\ ~PassFails /\ ~Unresolved(Calls) /\ ~FinalizeUnresolved /\ \A kind : ~Outage(kind)
  <1>1. ~Lag /\ faults' = 0 /\ outages' = 0 /\ faults \in Nat /\ outages \in Nat
    BY ResourceConstants DEF Undisturbed, Typed, Counted
  <1>2. ~PassFails /\ \A kind : ~Outage(kind)
    BY <1>1 DEF PassFails, Outage
  <1>3. ASSUME UNCHANGED <<faults, outages>>
        PROVE  Undisturbed /\ cluster = "up" /\ ~Unresolved(Calls) /\ ~FinalizeUnresolved
    BY <1>1, <1>3 DEF Undisturbed, Up, Unresolved, FinalizeUnresolved, resolve, ServerUp
  <1>4. CASE WorkerStep(Calls)
    BY <1>1, <1>2, <1>3, <1>4 DEF WorkerStep, Reconcile, AddFinalizer, Unresolved, FinalizeUnresolved, DropFinalizer, limits
  <1>5. CASE OwnStep \/ markBlocklistReady
    BY <1>1, <1>2, <1>3, <1>5, OwnAdvance DEF markBlocklistReady, markReady, limits
  <1>6. CASE \E r \in Objects, s \in Specs : Create(r, s) \/ EditBlocklist(r, s)
    BY <1>1, <1>2, <1>3, <1>6 DEF EditBlocklist, Create, Edit, Edited
  <1>7. CASE ClusterStep \/ ClusterGone
    BY <1>1, <1>2, <1>3, <1>7 DEF ClusterStep, ClusterGone, Delete, CacheSync, Edited, Recover, limits
  <1> QED BY <1>4, <1>5, <1>6, <1>7 DEF Next, Operator, World, OwnStep

\* The steps before a pass changes an override.
Early == {"idle", "finalizer", "reconcile", "settings", "refresh", "finalize", "unload"}

\* What a Blocklist added is what its status says; while its pass works on the
\* overrides, it is what the spec names and what is still to be done.
SmoothInv ==
  /\ \A r \in Objects : wrote[r] # {} => r \in Held
  /\ \A r \in Objects : (r = cur => pc \in Early) => wrote[r] \subseteq obj[r].applied.overrides
  /\ pc = "domains" => /\ wrote[cur] \subseteq loc.spec.overrides \cup todo
                       /\ todo \subseteq loc.spec.overrides \cup loc.applied.overrides
  /\ pc = "ready" => wrote[cur] \subseteq loc.spec.overrides
  /\ pc = "clear" => wrote[cur] \subseteq todo /\ todo \subseteq loc.applied.overrides
  /\ pc = "drop" => wrote[cur] = {}
Smooth == Undisturbed => SmoothInv

\* A step before the pass changes anything.
LEMMA SmoothEarly ==
  ASSUME SmoothInv, pc \in Early, pc' \in Early, Calm, Held \subseteq Held', wrote' = wrote PROVE SmoothInv'
  BY DEF SmoothInv, Early, Calm

\* A step of somebody else.
LEMMA SmoothStay ==
  ASSUME SmoothInv, UNCHANGED <<pc, cur, loc, wrote>>, pc # "idle" => todo' = todo,
         \A r \in Objects : wrote[r] # {} => obj'[r].applied = obj[r].applied /\ (r \in Held => r \in Held')
  PROVE  SmoothInv'
  <1>1. \A r \in Objects : wrote'[r] # {} => r \in Held'
    BY DEF SmoothInv
  <1>2. \A r \in Objects : (r = cur' => pc' \in Early) => wrote'[r] \subseteq obj'[r].applied.overrides
    BY DEF SmoothInv
  <1>3. CASE pc = "idle"
    BY <1>1, <1>2, <1>3 DEF SmoothInv
  <1>4. CASE pc # "idle"
    BY <1>1, <1>2, <1>4 DEF SmoothInv
  <1> QED BY <1>3, <1>4

\* A step of the running pass on its own overrides.
LEMMA SmoothPass ==
  ASSUME SmoothInv, UNCHANGED <<stored, cur>>, cur \in Objects, pc' \notin Early,
         \A r \in Objects \ {cur} : wrote'[r] \subseteq wrote[r],
         wrote'[cur] # {} => cur \in Held,
         pc' = "domains" => /\ wrote'[cur] \subseteq loc'.spec.overrides \cup todo'
                            /\ todo' \subseteq loc'.spec.overrides \cup loc'.applied.overrides,
         pc' = "ready" => wrote'[cur] \subseteq loc'.spec.overrides,
         pc' = "clear" => wrote'[cur] \subseteq todo' /\ todo' \subseteq loc'.applied.overrides,
         pc' = "drop" => wrote'[cur] = {}
  PROVE  SmoothInv'
  <1>1. obj' = obj /\ Held' = Held
    BY DEF stored, Held
  <1>2. \A r \in Objects : wrote'[r] # {} => r \in Held'
    BY <1>1 DEF SmoothInv
  <1>3. \A r \in Objects : (r = cur' => pc' \in Early) => wrote'[r] \subseteq obj'[r].applied.overrides
    BY <1>1 DEF SmoothInv
  <1> QED BY <1>2, <1>3 DEF SmoothInv

\* Every step of the pass keeps it.
LEMMA SmoothOwn ==
  ASSUME Typed, Prompt, SmoothInv, ~Lag, OwnStep PROVE SmoothInv'
  <1>1. RInv /\ cur \in Objects /\ DataTypes /\ UNCHANGED <<stored, cur, loc, current>>
    BY OwnAdvance DEF Typed, RInv, PassTypes
  <1>2. Calm /\ Held' = Held
    BY <1>1 DEF Calm, stored, Held
  <1>3. Working(pc) => loc.applied = obj[cur].applied /\ cur \in Held
    BY <1>1 DEF Prompt, RInv, PassInv
  <1>4. pc \in Finalizing => loc.applied = obj[cur].applied
    BY DEF Prompt
  <1>5. CASE GetDNSSettings \/ SetDNSSettings
    <2>1. pc \in Early /\ pc' \in Early /\ wrote' = wrote
      BY <1>5 DEF GetDNSSettings, SetDNSSettings, Early
    <2> QED BY <1>2, <2>1, SmoothEarly
  <1>6. CASE ForceUpdateBlockLists
    <2>1. pc = "refresh" /\ wrote' = wrote /\ todo' = Changes /\ pc' = IF Changes = {} THEN "ready" ELSE "domains"
      BY <1>6 DEF ForceUpdateBlockLists
    <2>2. wrote[cur] \subseteq loc.applied.overrides /\ cur \in Held
      BY <1>1, <1>3, <2>1 DEF SmoothInv, Early, Working, Finalizing
    <2>3. /\ wrote'[cur] \subseteq loc'.spec.overrides \cup todo' /\ (Changes = {} => wrote'[cur] \subseteq loc'.spec.overrides)
          /\ todo' \subseteq loc'.spec.overrides \cup loc'.applied.overrides
      BY <1>1, <2>1, <2>2 DEF Changes
    <2>4. pc' \in {"ready", "domains"} /\ (pc' = "ready" => Changes = {})
      BY <2>1
    <2> QED BY <1>1, <2>1, <2>2, <2>3, <2>4, SmoothPass DEF Early
  <1>7. CASE reconcileDomainSet
    <2>1. PICK o \in todo :
             /\ todo' = todo \ {o}
             /\ \A r \in Objects \ {cur} : wrote'[r] \subseteq wrote[r]
             /\ wrote'[cur] \subseteq (wrote[cur] \ {o}) \cup (loc.spec.overrides \cap {o})
      BY <1>7, DomainFacts
    <2>2. pc = "domains" /\ cur \in Held /\ pc' \in {"ready", "domains"} /\ (pc' = "ready" => todo' = {})
      BY <1>3, <1>7 DEF reconcileDomainSet, Working, Finalizing
    <2>3. wrote[cur] \subseteq loc.spec.overrides \cup todo /\ todo \subseteq loc.spec.overrides \cup loc.applied.overrides
      BY <2>2 DEF SmoothInv
    <2>4. /\ wrote'[cur] \subseteq loc'.spec.overrides \cup todo' /\ (todo' = {} => wrote'[cur] \subseteq loc'.spec.overrides)
          /\ todo' \subseteq loc'.spec.overrides \cup loc'.applied.overrides
      BY <1>1, <2>1, <2>3
    <2> QED BY <1>1, <2>1, <2>2, <2>4, SmoothPass DEF Early
  <1>8. CASE finalizeBlocklist
    <2>1. pc = "finalize"
      BY <1>8 DEF finalizeBlocklist
    <2>2. CASE pc' = "drop" /\ wrote' = [wrote EXCEPT ![cur] = {}]
      <3>1. wrote'[cur] = {} /\ \A r \in Objects \ {cur} : wrote'[r] = wrote[r]
        BY <1>1, <2>2 DEF DataTypes
      <3> QED BY <1>1, <2>2, <3>1, SmoothPass DEF Early
    <2>3. CASE pc' = "unload" /\ wrote' = wrote
      BY <1>2, <2>1, <2>3, SmoothEarly DEF Early
    <2> QED BY <1>8, <2>2, <2>3 DEF finalizeBlocklist
  <1>9. CASE finalizeRefresh
    <2>1. /\ pc = "unload" /\ wrote' = wrote /\ todo' = loc.applied.overrides
          /\ pc' \in {"drop", "clear"} /\ (pc' = "drop" => todo' = {})
      BY <1>9 DEF finalizeRefresh
    <2>2. wrote[cur] \subseteq loc.applied.overrides
      BY <1>1, <1>4, <2>1 DEF SmoothInv, Early, Finalizing
    <2>3. wrote'[cur] # {} => cur \in Held
      BY <1>1, <2>1 DEF SmoothInv
    <2> QED BY <1>1, <2>1, <2>2, <2>3, SmoothPass DEF Early
  <1>10. CASE finalizeDomains
    <2>1. PICK o \in todo : todo' = todo \ {o} /\ \A r \in Objects : wrote'[r] = wrote[r] \ {o}
      BY <1>10, ClearFacts
    <2>2. pc = "clear" /\ pc' \in {"drop", "clear"} /\ (pc' = "drop" => todo' = {})
      BY <1>10 DEF finalizeDomains
    <2>3. wrote[cur] \subseteq todo /\ todo \subseteq loc.applied.overrides /\ (wrote[cur] # {} => cur \in Held)
      BY <1>1, <2>2 DEF SmoothInv
    <2> QED BY <1>1, <2>1, <2>2, <2>3, SmoothPass DEF Early
  <1> QED BY <1>5, <1>6, <1>7, <1>8, <1>9, <1>10 DEF OwnStep

\* Every step keeps it.
LEMMA SmoothStep ==
  ASSUME Typed, Up, Prompt, Smooth, Next PROVE Smooth'
  <1>0. SUFFICES ASSUME Undisturbed' PROVE SmoothInv'
    BY DEF Smooth
  <1>1. /\ SmoothInv /\ ~Lag /\ RInv /\ cur \in Objects
        /\ ~PassFails /\ ~Unresolved(Calls) /\ ~FinalizeUnresolved /\ \A kind : ~Outage(kind)
    BY <1>0, Quiet DEF Smooth, Typed, RInv, PassTypes
  <1>2. CASE WorkerStep(Calls) /\ Shared
    <2>1. wrote' = wrote
      BY <1>2 DEF Shared
    <2>2. CASE DropFinalizer
      <3>1. pc = "drop" /\ pc' = "idle" /\ wrote[cur] = {}
        BY <1>1, <2>2 DEF DropFinalizer, EndPass, SmoothInv
      <3>2. \A r \in Objects \ {cur} : obj'[r].applied = obj[r].applied /\ (r \in Held => r \in Held')
        BY <1>1, <1>2, WorkerEffect DEF Calm, Renewed, Held
      <3>3. \A r \in Objects : wrote'[r] \subseteq obj'[r].applied.overrides /\ (wrote'[r] # {} => r \in Held')
        BY <1>1, <2>1, <3>1, <3>2 DEF SmoothInv
      <3> QED BY <3>1, <3>3 DEF SmoothInv
    <2>3. CASE AddFinalizer \/ \E r \in Objects : Reconcile(r)
      <3>1. pc \in Early /\ pc' \in Early /\ pc # "drop"
        BY <2>3 DEF AddFinalizer, Reconcile, EndPass, Early
      <3> QED BY <1>1, <1>2, <2>1, <3>1, WorkerEffect, SmoothEarly
    <2> QED BY <1>1, <1>2, <2>2, <2>3 DEF WorkerStep
  <1>3. CASE OwnStep
    BY <1>1, <1>3, SmoothOwn
  <1>4. CASE markBlocklistReady
    <2> DEFINE a == [urls |-> loc.spec.urls, overrides |-> loc.spec.overrides]
    <2>1. markReady(a) /\ a \in Applied /\ a.overrides = loc.spec.overrides
      BY <1>1, <1>4, FieldTypes DEF markBlocklistReady
    <2> HIDE DEF a
    <2>2. wrote' = wrote /\ pc = "ready" /\ pc' = "idle"
      BY <1>4, <2>1 DEF markBlocklistReady, markReady, EndPass
    <2>3. fresh[cur] /\ cur \in Held
      BY <1>1, <2>2 DEF Prompt, RInv, PassInv, Working, Finalizing
    <2>4. /\ Held' = Held /\ (\A r \in Objects \ {cur} : obj'[r].applied = obj[r].applied) /\ obj'[cur].applied = a
      BY <1>1, <2>1, <2>3, MarkReadyStep, ReadyEffect DEF Held
    <2>5. \A r \in Objects : wrote'[r] \subseteq obj'[r].applied.overrides
      BY <1>1, <2>1, <2>2, <2>4 DEF SmoothInv
    <2> QED BY <1>1, <2>2, <2>4, <2>5 DEF SmoothInv
  <1>5. ASSUME UserStep \/ ClusterStep, wrote' = wrote, pc' # "idle" => todo' = todo,
               \A r \in Objects : wrote[r] # {} => obj'[r].applied = obj[r].applied /\ (r \in Held => r \in Held')
        PROVE  SmoothInv'
    BY <1>1, <1>5, WorldStays, SmoothStay
  <1>6. \A r \in Objects : r \notin Held => wrote[r] = {}
    BY <1>1 DEF SmoothInv
  <1>7. ASSUME NEW r \in Objects, NEW s \in Specs, Create(r, s), Shared PROVE SmoothInv'
    <2>1. UserStep /\ wrote' = wrote /\ (pc' # "idle" => todo' = todo)
      BY <1>7 DEF UserStep, Shared
    <2>2. wrote[r] = {} /\ \A q \in Objects \ {r} : obj'[q] = obj[q]
      BY <1>1, <1>6, <1>7, CreateEffect DEF Renewed
    <2> QED BY <1>5, <2>1, <2>2 DEF Held
  <1>8. ASSUME NEW r \in Objects, NEW s \in Specs, EditBlocklist(r, s) PROVE SmoothInv'
    <2>1. UserStep /\ wrote' = wrote /\ todo' = todo /\ Respecified(r, s)
      BY <1>1, <1>8, EditEffect DEF EditBlocklist, UserStep
    <2>2. Held' = Held
      BY <1>1, <2>1, UserStepKeeps
    <2> QED BY <1>5, <2>1, <2>2 DEF Respecified
  <1>9. CASE ClusterStep /\ Shared
    <2>1. wrote' = wrote /\ (pc' # "idle" => todo' = todo)
      BY <1>9 DEF Shared
    <2>2. ASSUME NEW r \in Objects, Delete(r) PROVE SmoothInv'
      <3>1. Held' = Held
        BY <1>1, <2>2, UserStepKeeps DEF UserStep
      <3>2. Calm \/ (Renewed(r) /\ wrote[r] = {})
        BY <1>1, <1>6, <2>2, DeleteEffect
      <3> QED BY <1>5, <1>9, <2>1, <3>1, <3>2 DEF Calm, Renewed
    <2>3. CASE Recover \/ \E r \in Objects : CacheSync(r)
      <3>1. obj' = obj
        BY <2>3 DEF CacheSync, Recover, stored
      <3> QED BY <1>5, <1>9, <2>1, <3>1 DEF Held
    <2> QED BY <1>1, <1>9, <2>2, <2>3 DEF ClusterStep
  <1>10. ~ClusterGone
    BY <1>1 DEF ClusterGone
  <1> QED BY <1>2, <1>3, <1>4, <1>7, <1>8, <1>9, <1>10 DEF Next, Operator, World, OwnStep

-----------------------------------------------------------------------------
(* The invariant about overrides. *)

OInv == Typed /\ Up /\ Prompt /\ Smooth

\* Initially nothing was written.
LEMMA OInvInit == Init => OInv
  <1>1. Init => Up /\ Smooth
    BY DEF Init, ResourceInit, Up, Smooth, SmoothInv
  <1> QED BY <1>1, TypeInit, PromptInit DEF Init, OInv

\* What the pass knows of its resource when the cache does not lag.
LEMMA PromptStep == ASSUME Typed, Prompt, Next PROVE Prompt'
  <1>0. RInv
    BY DEF Typed
  <1>1. ASSUME WorkerStep(Calls) \/ UserStep \/ ClusterStep PROVE Prompt'
    BY <1>0, <1>1, PromptShared
  <1>2. CASE OwnStep
    BY <1>2, OwnAdvance, PromptAdvance
  <1>3. CASE markBlocklistReady
    BY <1>3, PromptFails DEF markBlocklistReady
  <1>4. CASE \E r \in Objects, s \in Specs : Create(r, s) \/ EditBlocklist(r, s)
    BY <1>1, <1>4 DEF EditBlocklist, UserStep
  <1>5. CASE ClusterGone
    BY <1>5, PromptIdle DEF ClusterGone, Outage
  <1> QED BY <1>1, <1>2, <1>3, <1>4, <1>5 DEF Next, Operator, World, OwnStep

\* It is inductive.
LEMMA OInvStep == ASSUME OInv, [Next]_vars PROVE OInv'
  <1>1. CASE Next
    BY <1>1, TypeStep, UpStep, PromptStep, SmoothStep DEF OInv
  <1>2. CASE UNCHANGED vars
    <2>1. /\ UNCHANGED <<stored, worker, obj, pc, cur, loc, cluster, faults, outages, todo, wrote>>
      BY <1>2 DEF vars, resource, stored, worker, limits
    <2>2. Typed' /\ Prompt' /\ Up'
      BY <1>2, <2>1, TypeStutter, PromptIdle DEF OInv, Up
    <2>3. Held' = Held
      BY <2>1 DEF Held
    <2>4. Smooth'
      BY <2>1, <2>3 DEF OInv, Smooth, SmoothInv, Undisturbed
    <2> QED BY <2>2, <2>4 DEF OInv
  <1> QED BY <1>1, <1>2

\* For every number of Blocklists on the server and every sequence of edits: as
\* long as no pass was cut short, an override that a Blocklist added is named by
\* its spec, its status or its running pass, and none stays behind when it is
\* gone (reconcileDomainSet, markReady and finalizeBlocklist).
THEOREM OverridesRemembered == Spec => []NoOverrideForgotten
  <1>1. OInv => NoOverrideForgotten
    <2> SUFFICES ASSUME OInv, Undisturbed, NEW r \in Objects, NEW o \in wrote[r]
                 PROVE  /\ obj[r].exists
                        /\ \/ o \in obj[r].spec.overrides \cup obj[r].applied.overrides
                           \/ cur = r /\ pc # "idle" /\ o \in loc.spec.overrides
      BY DEF NoOverrideForgotten
    <2>1. SmoothInv /\ ~Lag /\ RInv /\ pc \in Steps
      BY DEF OInv, Smooth, Undisturbed, Typed
    <2>2. obj[r].exists
      BY <2>1 DEF SmoothInv, Held
    <2>3. CASE r = cur => pc \in Early
      BY <2>1, <2>2, <2>3 DEF SmoothInv
    <2>4. CASE r = cur /\ pc \in {"domains", "ready"}
      <3>1. loc.applied = obj[r].applied
        BY <2>1, <2>4 DEF OInv, Prompt, Working, Finalizing
      <3> QED BY <2>1, <2>2, <2>4, <3>1 DEF SmoothInv
    <2>5. CASE r = cur /\ pc \in {"clear", "drop"}
      <3>1. loc.applied = obj[r].applied
        BY <2>1, <2>5 DEF OInv, Prompt, Finalizing
      <3> QED BY <2>1, <2>2, <2>5, <3>1 DEF SmoothInv
    <2> QED BY <2>1, <2>3, <2>4, <2>5 DEF Steps, Early
  <1> QED BY OInvInit, OInvStep, <1>1, PTL DEF Spec

-----------------------------------------------------------------------------
(* Refreshes, for a server with one Blocklist: what a step does to it. *)

\* The URL list a copy of the resource asks for, and the one its status has.
Wanted(o) == o.spec.urls
Done(o) == o.applied.urls

\* They are numbers.
LEMMA ListTypes ==
  ASSUME RInv
  PROVE  /\ Wanted(loc) \in Nat /\ Done(loc) \in Nat
         /\ \A r \in Objects : /\ Wanted(obj[r]) \in Nat /\ Done(obj[r]) \in Nat
                               /\ Wanted(cached[r]) \in Nat /\ Done(cached[r]) \in Nat
  BY FieldTypes DEF Wanted, Done

\* A step that changes no spec and no status.
LEMMA CalmLists ==
  ASSUME Calm, NEW r \in Objects
  PROVE  /\ Wanted(obj'[r]) = Wanted(obj[r]) /\ Done(obj'[r]) = Done(obj[r])
         /\ cached'[r] \in {cached[r], obj'[r]}
  BY DEF Calm, Wanted, Done

\* markReady with the list of the pass's copy.
LEMMA ReadyLists ==
  ASSUME RInv, cur \in Objects, markBlocklistReady
  PROVE  /\ Wanted(obj'[cur]) = Wanted(obj[cur]) /\ cached'[cur] \in {cached[cur], obj'[cur]}
         /\ Done(obj'[cur]) \in {Done(obj[cur]), Wanted(loc)}
         /\ fresh[cur] /\ obj[cur].exists => Done(obj'[cur]) = Wanted(loc)
         /\ pc = "ready" /\ pc' = "idle" /\ UNCHANGED <<server, reverted>>
  <1> DEFINE a == [urls |-> loc.spec.urls, overrides |-> loc.spec.overrides]
  <1>1. markReady(a) /\ a \in Applied /\ UNCHANGED <<server, reverted>>
    BY FieldTypes DEF markBlocklistReady
  <1>2. a.urls = Wanted(loc)
    BY DEF Wanted
  <1> HIDE DEF a
  <1>3. pc = "ready" /\ pc' = "idle"
    BY <1>1 DEF markReady, EndPass
  <1>4. /\ obj'[cur].spec = obj[cur].spec /\ cached'[cur] \in {cached[cur], obj'[cur]}
        /\ obj'[cur].applied \in {obj[cur].applied, a}
        /\ fresh[cur] /\ obj[cur].exists => obj'[cur].applied = a
    BY <1>1, ReadyEffect
  <1> QED BY <1>1, <1>2, <1>3, <1>4 DEF Wanted, Done

\* A new life of the resource has applied nothing.
LEMMA NewLists == ASSUME NEW r \in Objects, Renewed(r) PROVE Done(obj'[r]) = 0
  BY BlocklistConstants DEF Renewed, Done

\* The resource owns the blocking configuration of its server.
Sole == \A a, b \in Objects : a = b

\* The finalizer is added.
Registers ==
  /\ pc = "finalizer" /\ pc' = "reconcile" /\ obj[cur] = loc /\ cached[cur] = loc
  /\ loc'.spec = loc.spec /\ loc'.applied = loc.applied /\ ~loc.deleting /\ ~loc'.deleting
  /\ obj'[cur] = loc' /\ cached'[cur] \in {cached[cur], loc'}

\* A pass ends early.
Ends == pc' = "idle" /\ Calm /\ (Working(pc) \/ UNCHANGED stored)

\* A finalization has nothing to do.
GivesUp == pc = "finalize" /\ pc' = "drop" /\ UNCHANGED <<stored, loc>>

\* The Blocklist goes away, or comes back as a new one.
Replaced == Renewed(cur) /\ ~Working(pc) /\ ~Working(pc') /\ pc' \in {"idle", pc}

\* Something else happens, and the worker does not notice.
Unnoticed == Calm /\ UNCHANGED <<pc, loc>> /\ (obj' = obj \/ ~obj[cur].deleting)

Passive == Reconcile(cur) \/ Registers \/ Ends \/ GivesUp \/ Replaced \/ Unnoticed

\* With one resource, the pass is about it; finalizers stay but in a replaced one.
LEMMA SoleFacts ==
  ASSUME Sole, Typed, Typed'
  PROVE  cur \in Objects /\ cur' = cur /\ \A r \in Objects : r = cur
  BY DEF Sole, Typed, RInv, PassTypes

\* AddFinalizer, as Registers and Ends have it.
LEMMA RegisterEffect == ASSUME Typed, Typed', Sole, AddFinalizer PROVE Registers \/ Ends
  <1>1. RInv /\ cur \in Objects /\ loc \in ObjectType /\ StoredTypes /\ CacheInv
    BY DEF Typed, RInv, PassTypes
  <1>2. CASE current
    <2>1. /\ pc = "finalizer" /\ pc' = "reconcile" /\ loc' = [loc EXCEPT !.finalizer = TRUE] /\ Write(cur, loc')
      BY <1>2 DEF AddFinalizer
    <2>2. obj[cur] = loc /\ cached[cur] = loc /\ ~loc.deleting
      BY <1>1, <1>2, <2>1 DEF RInv, PassInv
    <2>3. loc' \in ObjectType /\ loc'.spec = loc.spec /\ loc'.applied = loc.applied
      BY <1>1, <2>1 DEF ObjectType
    <2>4. ~loc'.deleting
      BY <1>1, <2>1, <2>2 DEF ObjectType
    <2>5. obj'[cur] = loc' /\ cached'[cur] \in {cached[cur], loc'}
      BY <1>1, <2>1, <2>3, WriteFacts
    <2> QED BY <2>1, <2>2, <2>3, <2>4, <2>5 DEF Registers
  <1>3. CASE ~current
    BY <1>3 DEF AddFinalizer, EndPass, Ends, Calm, stored
  <1> QED BY <1>2, <1>3

\* A step of Next is one of the pass's own, or one that leaves the server alone.
LEMMA Kinds ==
  ASSUME Sole, Typed, Typed', Next
  PROVE  \/ OwnStep
         \/ markBlocklistReady
         \/ Passive /\ Shared
         \/ \E s \in Specs : EditBlocklist(cur, s)
         \/ ClusterGone
  <1>1. RInv /\ cur \in Objects /\ cur' = cur /\ (\A r \in Objects : r = cur) /\ (Working(pc) => cur \in Held)
    BY SoleFacts DEF Typed, RInv, PassInv
  <1>2. ASSUME WorkerStep(Calls) PROVE Passive
    <2>1. CASE Unresolved(Calls) \/ PassFails
      <3>1. Fails
        BY <2>1 DEF Unresolved, PassFails, Fails
      <3>2. Calm /\ pc' = "idle"
        BY <1>1, <3>1, FailsEffect DEF Fails, EndPass
      <3>3. Working(pc) \/ UNCHANGED stored
        BY <2>1 DEF Unresolved, PassFails, Working
      <3> QED BY <3>2, <3>3 DEF Passive, Ends
    <2>2. CASE FinalizeUnresolved
      BY <2>2 DEF FinalizeUnresolved, Passive, GivesUp, Ends, EndPass, Calm, stored
    <2>3. CASE DropFinalizer
      <3>1. CASE current
        <4>1. pc = "drop" /\ pc' = "idle" /\ Write(cur, NoObj)
          BY <2>3, <3>1 DEF DropFinalizer, EndPass
        <4>2. Renewed(cur)
          BY <1>1, <4>1, NoObjType, GoneWrite DEF NoObj
        <4> QED BY <4>1, <4>2 DEF Passive, Replaced, Working, Finalizing
      <3>2. CASE ~current
        BY <2>3, <3>2 DEF DropFinalizer, EndPass, Passive, Ends, Calm, stored
      <3> QED BY <3>1, <3>2
    <2>4. CASE AddFinalizer
      BY <2>4, RegisterEffect DEF Passive
    <2>5. CASE \E r \in Objects : Reconcile(r)
      BY <1>1, <2>5 DEF Passive
    <2> QED BY <1>2, <2>1, <2>2, <2>3, <2>4, <2>5 DEF WorkerStep
  <1>3. ASSUME NEW r \in Objects, Renewed(r), r \notin Held, UserStep PROVE Passive
    <2>1. r = cur /\ ~Working(pc) /\ pc' = pc
      BY <1>1, <1>3, WorldStays
    <2> QED BY <1>3, <2>1 DEF Passive, Replaced, Working
  <1>4. ASSUME NEW r \in Objects, NEW s \in Specs, Create(r, s) PROVE Passive
    BY <1>1, <1>3, <1>4, CreateEffect DEF UserStep
  <1>5. ASSUME ClusterStep PROVE Passive
    <2>1. UNCHANGED <<pc, loc>>
      BY <1>5, WorldStays
    <2>2. ASSUME NEW r \in Objects, Delete(r) PROVE Passive
      <3>1. ~obj[cur].deleting
        BY <1>1, <2>2 DEF Delete
      <3>2. CASE Calm
        BY <2>1, <3>1, <3>2 DEF Passive, Unnoticed
      <3>3. CASE Renewed(r) /\ r \notin Held
        BY <1>3, <2>2, <3>3 DEF UserStep
      <3> QED BY <1>1, <2>2, <3>2, <3>3, DeleteEffect
    <2>3. ASSUME NEW r \in Objects, CacheSync(r) PROVE Passive
      BY <1>1, <2>1, <2>3, SyncEffect DEF CacheSync, Passive, Unnoticed
    <2>4. CASE Outage("unready") \/ Outage("noSecret") \/ Recover
      BY <2>1, <2>4 DEF Outage, Recover, Passive, Unnoticed, Calm, stored
    <2> QED BY <1>5, <2>2, <2>3, <2>4 DEF ClusterStep
  <1>6. ASSUME NEW r \in Objects, NEW s \in Specs, EditBlocklist(r, s) PROVE \E t \in Specs : EditBlocklist(cur, t)
    BY <1>1, <1>6
  <1> QED BY <1>2, <1>4, <1>5, <1>6 DEF Next, Operator, World, OwnStep

-----------------------------------------------------------------------------
(* Refreshes: what was applied, the copies of the spec, and the server. *)

\* A Blocklist that has applied a list has its finalizer.
Owned == Done(obj[cur]) # 0 => cur \in Held

\* Only finalizeBlocklist's last step takes the finalizer, and the status with it.
LEMMA OwnedStep == ASSUME Sole, Typed, Typed', Owned, Next PROVE Owned'
  <1>1. RInv /\ cur \in Objects /\ cur' = cur /\ \A r \in Objects : r = cur
    BY SoleFacts DEF Typed
  <1>3. ASSUME Held \subseteq Held', obj'[cur].applied = obj[cur].applied PROVE Owned'
    BY <1>1, <1>3 DEF Owned, Done
  <1>4. ASSUME Renewed(cur) PROVE Owned'
    BY <1>1, <1>4, NewLists DEF Owned
  <1>5. CASE WorkerStep(Calls)
    BY <1>1, <1>3, <1>4, <1>5, WorkerEffect DEF Calm
  <1>6. CASE OwnStep
    BY <1>1, <1>3, <1>6, OwnAdvance, AdvanceStep DEF stored
  <1>7. CASE markBlocklistReady
    <2>1. markReady([urls |-> loc.spec.urls, overrides |-> loc.spec.overrides]) /\ Working(pc)
      BY <1>7 DEF markBlocklistReady, markReady, Working, Finalizing
    <2>2. Held' = Held /\ cur \in Held
      BY <1>1, <2>1, FieldTypes, MarkReadyStep DEF RInv, PassInv
    <2> QED BY <1>1, <2>2 DEF Owned
  <1>8. ASSUME UserStep PROVE Held' = Held
    BY <1>1, <1>8, UserStepKeeps
  <1>9. ASSUME NEW r \in Objects, NEW s \in Specs, Create(r, s) PROVE Owned'
    BY <1>1, <1>4, <1>9, CreateEffect
  <1>10. ASSUME NEW r \in Objects, NEW s \in Specs, EditBlocklist(r, s) PROVE Owned'
    <2>1. UserStep /\ Respecified(r, s)
      BY <1>1, <1>10, EditEffect DEF EditBlocklist, UserStep
    <2> QED BY <1>1, <1>3, <1>8, <2>1 DEF Respecified
  <1>11. ASSUME NEW r \in Objects, Delete(r) PROVE Owned'
    BY <1>1, <1>3, <1>4, <1>8, <1>11, DeleteEffect DEF UserStep, Calm
  <1>12. ASSUME obj' = obj PROVE Owned'
    BY <1>3, <1>12 DEF Held
  <1>13. CASE ClusterStep \/ ClusterGone
    BY <1>11, <1>12, <1>13 DEF ClusterStep, ClusterGone, CacheSync, Outage, Recover, stored
  <1> QED BY <1>5, <1>6, <1>7, <1>9, <1>10, <1>13 DEF Next, Operator, World, OwnStep

\* A copy c of the resource that is behind the resource o: it asks for no later
\* list and knows of no later one applied, and what was applied since is not past
\* what the copy asks for.
Behind(c, o) ==
  /\ Wanted(c) <= Wanted(o)
  /\ Done(c) <= Done(o)
  /\ Done(o) <= Wanted(c)

\* While the spec only goes forward, the copies in the cache and in the pass are
\* behind it, the pass's one behind the cache's.
Order ==
  ~reverted =>
     /\ Done(obj[cur]) <= Wanted(obj[cur])
     /\ Steady(cached[cur]) => Behind(cached[cur], obj[cur])
     /\ Working(pc) => /\ Behind(loc, obj[cur])
                       /\ Steady(cached[cur]) => Wanted(loc) <= Wanted(cached[cur])

\* The order of the URL lists, as the proofs below use it.
LEMMA NatOrder ==
  /\ \A a \in Nat : a <= a
  /\ \A a, b \in Nat : a <= b \/ b < a
  /\ \A a, b \in Nat : a <= b /\ b <= a => a = b
  /\ \A a, b, c \in Nat : a <= b /\ b <= c => a <= c
  OBVIOUS

\* A resource that asks for no list before the one applied is behind itself.
LEMMA BehindItself ==
  ASSUME NEW o, Wanted(o) \in Nat, Done(o) \in Nat, Done(o) <= Wanted(o)
  PROVE  Behind(o, o)
  BY DEF Behind

\* A copy stays behind a resource that asks for the same lists.
LEMMA BehindSame ==
  ASSUME NEW c, NEW o, NEW p, Behind(c, o), Wanted(p) = Wanted(o), Done(p) = Done(o)
  PROVE  Behind(c, p)
  BY DEF Behind

\* Every step keeps the order.
LEMMA OrderStep == ASSUME Sole, Typed, Typed', Order, Next PROVE Order'
  <1>1. RInv /\ RInv' /\ cur \in Objects /\ cur' = cur /\ \A r \in Objects : r = cur
    BY SoleFacts DEF Typed
  <1>2. /\ Wanted(obj[cur]) \in Nat /\ Done(obj[cur]) \in Nat
        /\ Wanted(cached[cur]) \in Nat /\ Done(cached[cur]) \in Nat
        /\ Wanted(loc) \in Nat /\ Done(loc) \in Nat
    BY <1>1, ListTypes
  <1>3. Wanted(obj'[cur]) \in Nat /\ Done(obj'[cur]) \in Nat
    <2>1. obj'[cur] \in ObjectType
      BY <1>1 DEF RInv, PassTypes, StoredTypes
    <2> QED BY <2>1, SpecTypes DEF Wanted, Done
  \* A step after which the spec still only went forward had the order before it.
  <1>4. ASSUME ~reverted
        PROVE  /\ Done(obj[cur]) <= Wanted(obj[cur])
               /\ Steady(cached[cur]) => Behind(cached[cur], obj[cur])
               /\ Working(pc) => Behind(loc, obj[cur]) /\ (Steady(cached[cur]) => Wanted(loc) <= Wanted(cached[cur]))
    BY <1>4 DEF Order
  <1>5. ASSUME ~reverted' =>
                  /\ Done(obj'[cur]) <= Wanted(obj'[cur])
                  /\ Steady(cached'[cur]) => Behind(cached'[cur], obj'[cur])
                  /\ Working(pc') => Behind(loc', obj'[cur]) /\ (Steady(cached'[cur]) => Wanted(loc') <= Wanted(cached'[cur]))
        PROVE  Order'
    BY <1>1, <1>5 DEF Order
  \* The spec and what was applied stay, and the cache may follow.
  <1>6. ASSUME Calm, reverted' = reverted, Working(pc') => Working(pc) /\ loc' = loc PROVE Order'
    <2>1. /\ Wanted(obj'[cur]) = Wanted(obj[cur]) /\ Done(obj'[cur]) = Done(obj[cur])
          /\ cached'[cur] \in {cached[cur], obj'[cur]}
      BY <1>1, <1>6, CalmLists
    <2> SUFFICES ASSUME ~reverted
                 PROVE  /\ Done(obj'[cur]) <= Wanted(obj'[cur])
                        /\ Steady(cached'[cur]) => Behind(cached'[cur], obj'[cur])
                        /\ Working(pc') => Behind(loc', obj'[cur]) /\ (Steady(cached'[cur]) => Wanted(loc') <= Wanted(cached'[cur]))
      BY <1>5, <1>6
    <2>2. Done(obj'[cur]) <= Wanted(obj'[cur])
      BY <1>4, <2>1
    <2>3. Steady(cached'[cur]) => Behind(cached'[cur], obj'[cur])
      BY <1>3, <1>4, <2>1, <2>2, BehindItself, BehindSame
    <2>4. Working(pc') => Behind(loc', obj'[cur])
      BY <1>4, <1>6, <2>1, BehindSame
    <2>5. Working(pc') => Wanted(loc) <= Wanted(obj[cur])
      BY <1>4, <1>6 DEF Behind
    <2>6. Working(pc') /\ Steady(cached'[cur]) => Wanted(loc') <= Wanted(cached'[cur])
      BY <1>4, <1>6, <2>1, <2>5
    <2> QED BY <2>2, <2>3, <2>4, <2>6
  <1>7. CASE OwnStep
    <2>1. Advance /\ UNCHANGED <<stored, loc, reverted>>
      BY <1>7, OwnAdvance
    <2>2. Calm /\ (Working(pc') => Working(pc))
      BY <2>1 DEF Calm, stored, Advance, Working
    <2> QED BY <1>6, <2>1, <2>2
  <1>8. CASE markBlocklistReady
    <2>1. /\ Wanted(obj'[cur]) = Wanted(obj[cur]) /\ cached'[cur] \in {cached[cur], obj'[cur]}
          /\ Done(obj'[cur]) \in {Done(obj[cur]), Wanted(loc)} /\ reverted' = reverted
      BY <1>1, <1>8, ReadyLists
    <2>2. Working(pc) /\ ~Working(pc')
      BY <1>1, <1>8, ReadyLists DEF Working, Finalizing
    <2> SUFFICES ASSUME ~reverted
                 PROVE  /\ Done(obj'[cur]) <= Wanted(obj'[cur])
                        /\ Steady(cached'[cur]) => Behind(cached'[cur], obj'[cur])
      BY <1>5, <2>1, <2>2
    <2>3. Behind(loc, obj[cur]) /\ (Steady(cached[cur]) => Wanted(loc) <= Wanted(cached[cur]))
      BY <1>4, <2>2
    <2>4. Wanted(loc) <= Wanted(obj[cur]) /\ Done(obj[cur]) <= Wanted(loc)
      BY <2>3 DEF Behind
    <2>5. Done(obj'[cur]) <= Wanted(obj'[cur])
      BY <1>4, <2>1, <2>4
    <2>6. CASE cached'[cur] = obj'[cur]
      BY <1>3, <2>5, <2>6, BehindItself
    <2>7. CASE cached'[cur] = cached[cur] /\ Steady(cached[cur])
      <3>1. Behind(cached[cur], obj[cur]) /\ Wanted(loc) <= Wanted(cached[cur])
        BY <1>4, <2>3, <2>7
      <3>2. /\ Wanted(cached[cur]) <= Wanted(obj[cur])
            /\ Done(cached[cur]) <= Done(obj[cur]) /\ Done(obj[cur]) <= Wanted(cached[cur])
        BY <3>1, Zenon DEF Behind
      <3>3. Done(cached[cur]) <= Wanted(loc)
        BY <1>2, <2>4, <3>2, NatOrder, Zenon
      <3>4. Done(cached[cur]) <= Done(obj'[cur]) /\ Done(obj'[cur]) <= Wanted(cached[cur])
        BY <2>1, <3>1, <3>2, <3>3, Zenon
      <3>5. Behind(cached[cur], obj'[cur])
        BY <2>1, <3>2, <3>4, Zenon DEF Behind
      <3> QED BY <2>5, <2>7, <3>5
    <2> QED BY <2>1, <2>5, <2>6, <2>7
  <1>9. ASSUME Shared PROVE reverted' = reverted
    BY <1>9 DEF Shared
  <1>10. CASE Reconcile(cur) /\ Shared
    <2>1. UNCHANGED <<obj, cached>> /\ loc' = cached[cur] /\ (Working(pc') => Steady(cached[cur]))
      BY <1>10 DEF Reconcile, stored, Working, Finalizing, Steady
    <2>2. Wanted(cached[cur]) <= Wanted(cached[cur])
      BY <1>2
    <2> QED BY <1>4, <1>5, <1>9, <1>10, <2>1, <2>2
  <1>11. CASE Registers /\ Shared
    <2>1. /\ obj[cur] = loc /\ cached[cur] = loc /\ obj'[cur] = loc' /\ cached'[cur] \in {loc, loc'}
      BY <1>11 DEF Registers
    <2>2. Wanted(loc') = Wanted(loc) /\ Done(loc') = Done(loc)
      BY <1>11 DEF Registers, Wanted, Done
    <2> SUFFICES ASSUME ~reverted
                 PROVE  /\ Done(loc') <= Wanted(loc') /\ Behind(cached'[cur], loc')
                        /\ Behind(loc', loc') /\ Wanted(loc') <= Wanted(cached'[cur])
      BY <1>5, <1>9, <1>11, <2>1
    <2>3. Done(loc') <= Wanted(loc') /\ Done(loc) <= Wanted(loc) /\ Wanted(loc') <= Wanted(loc')
      BY <1>2, <1>4, <2>1, <2>2
    <2>4. Behind(loc, loc) /\ Behind(loc', loc')
      BY <1>2, <2>2, <2>3, BehindItself
    <2>5. Behind(loc, loc')
      BY <2>2, <2>4, BehindSame
    <2> QED BY <2>1, <2>2, <2>3, <2>4, <2>5
  <1>12. CASE (Ends \/ GivesUp \/ Unnoticed) /\ Shared
    <2>1. Calm /\ (Working(pc') => Working(pc) /\ loc' = loc)
      BY <1>12 DEF Ends, GivesUp, Unnoticed, Calm, stored, Working, Finalizing
    <2> QED BY <1>6, <1>9, <1>12, <2>1
  <1>13. CASE Replaced /\ Shared
    <2>1. Done(obj'[cur]) = 0 /\ ~obj'[cur].finalizer /\ ~Working(pc')
      BY <1>1, <1>13, NewLists DEF Replaced, Renewed
    <2>2. ~Steady(cached'[cur])
      BY <1>1, <2>1 DEF RInv, CacheInv, Held, Steady
    <2>3. Done(obj'[cur]) <= Wanted(obj'[cur])
      BY <1>3, <2>1
    <2> QED BY <1>5, <2>1, <2>2, <2>3
  <1>14. ASSUME NEW s \in Specs, EditBlocklist(cur, s) PROVE Order'
    <2>1. Respecified(cur, s) /\ UNCHANGED <<pc, loc>>
      BY <1>1, <1>14, EditEffect DEF EditBlocklist, Edit, Touched
    <2>2. /\ Wanted(obj'[cur]) = s.urls /\ Done(obj'[cur]) = Done(obj[cur])
          /\ cached'[cur] \in {cached[cur], obj'[cur]} /\ (Working(pc') => Working(pc))
      BY <1>1, <2>1 DEF Respecified, Wanted, Done, Working
    <2>3. ~reverted' => ~reverted /\ ~(s.urls < Wanted(obj[cur]))
      BY <1>14 DEF EditBlocklist, Wanted
    <2>4. ~reverted' => ~reverted /\ Wanted(obj[cur]) <= Wanted(obj'[cur])
      BY <1>2, <1>3, <2>2, <2>3
    <2> SUFFICES ASSUME ~reverted, Wanted(obj[cur]) <= Wanted(obj'[cur])
                 PROVE  /\ Done(obj'[cur]) <= Wanted(obj'[cur])
                        /\ Steady(cached'[cur]) => Behind(cached'[cur], obj'[cur])
                        /\ Working(pc') => Behind(loc', obj'[cur]) /\ (Steady(cached'[cur]) => Wanted(loc') <= Wanted(cached'[cur]))
      BY <1>5, <2>4
    <2>5. ASSUME NEW c, Behind(c, obj[cur]), Wanted(c) \in Nat
          PROVE  Behind(c, obj'[cur])
      BY <1>2, <1>3, <2>2, <2>5 DEF Behind
    <2>6. Done(obj'[cur]) <= Wanted(obj'[cur])
      <3>1. Done(obj[cur]) <= Wanted(obj[cur])
        BY <1>4
      <3> QED BY <1>2, <1>3, <2>2, <3>1, NatOrder, Zenon
    <2>7. Behind(obj'[cur], obj'[cur])
      BY <1>3, <2>6, BehindItself
    <2>8. Steady(cached'[cur]) => Behind(cached'[cur], obj'[cur])
      BY <1>2, <1>4, <2>2, <2>5, <2>7
    <2>9. Working(pc) => Behind(loc, obj'[cur])
      BY <1>2, <1>4, <2>5
    <2>10. Working(pc) => Wanted(loc) <= Wanted(obj'[cur])
      BY <2>9 DEF Behind
    <2>11. Working(pc) /\ Steady(cached'[cur]) => Wanted(loc) <= Wanted(cached'[cur])
      BY <1>4, <2>2, <2>10
    <2> QED BY <2>1, <2>2, <2>6, <2>8, <2>9, <2>11
  <1>15. CASE ClusterGone
    <2>1. Calm /\ UNCHANGED <<pc, loc, reverted>>
      BY <1>15 DEF ClusterGone, Outage, Calm, stored, worker
    <2> QED BY <1>6, <2>1 DEF Working
  <1> QED BY <1>7, <1>8, <1>10, <1>11, <1>12, <1>13, <1>14, <1>15, Kinds DEF Passive

\* What each step of the pass does to the URL list on the server.
LEMMA OwnEffect ==
  ASSUME Typed, OwnStep
  PROVE  \/ /\ pc = "reconcile" /\ pc' = "settings" /\ cluster # "gone"
            /\ reads'.urls = server.urls /\ server' = server
         \/ /\ pc = "settings" /\ pc' = "refresh" /\ server'.loaded = server.loaded
            /\ \/ server' = server /\ reads.urls = Wanted(loc)
               \/ server'.urls = Wanted(loc) /\ cluster # "gone"
         \/ /\ pc = "refresh" /\ pc' \in {"domains", "ready"} /\ server'.urls = server.urls
            /\ \/ server'.loaded = server.urls
               \/ server'.loaded = server.loaded /\ Wanted(loc) = Done(loc)
         \/ /\ pc = "domains" /\ pc' \in {"domains", "ready"}
            /\ server'.urls = server.urls /\ server'.loaded = server.loaded
         \/ /\ pc = "finalize" /\ pc' \in {"unload", "drop"} /\ server'.loaded = server.loaded
            /\ server'.urls = 0 \/ (server'.urls = server.urls /\ pc' = "drop")
         \/ /\ pc = "unload" /\ pc' \in {"clear", "drop"}
            /\ server'.urls = server.urls /\ server'.loaded = server.urls
         \/ /\ pc = "clear" /\ pc' \in {"clear", "drop"}
            /\ server'.urls = server.urls /\ server'.loaded = server.loaded
  <1>1. server \in ServerType
    BY DEF Typed, DataTypes
  <1>2. CASE GetDNSSettings
    BY <1>2 DEF GetDNSSettings, resolve
  <1>3. CASE SetDNSSettings
    <2>1. CASE blocklistSettingsInSync
      BY <1>3, <2>1 DEF SetDNSSettings, blocklistSettingsInSync, Wanted
    <2>2. CASE ~blocklistSettingsInSync
      <3>1. PICK b : server' = [server EXCEPT !.urls = loc.spec.urls, !.blocking = b]
        BY <1>3, <2>2 DEF SetDNSSettings
      <3>2. server'.urls = Wanted(loc) /\ server'.loaded = server.loaded
        BY <1>1, <3>1 DEF ServerType, Wanted
      <3>3. pc = "settings" /\ pc' = "refresh" /\ cluster # "gone"
        BY <1>3, <2>2 DEF SetDNSSettings, Calls, ServerUp
      <3> QED BY <3>2, <3>3
    <2> QED BY <2>1, <2>2
  <1>4. CASE ForceUpdateBlockLists
    <2>1. pc = "refresh" /\ pc' \in {"domains", "ready"}
      BY <1>4 DEF ForceUpdateBlockLists
    <2>2. CASE urlsNeedRefresh
      <3>1. server' = [server EXCEPT !.loaded = server.urls]
        BY <1>4, <2>2 DEF ForceUpdateBlockLists
      <3>2. server'.urls = server.urls /\ server'.loaded = server.urls
        BY <1>1, <3>1 DEF ServerType
      <3> QED BY <2>1, <3>2
    <2>3. CASE ~urlsNeedRefresh
      BY <1>4, <2>1, <2>3 DEF ForceUpdateBlockLists, urlsNeedRefresh, Wanted, Done
    <2> QED BY <2>2, <2>3
  <1>5. CASE reconcileDomainSet
    <2>1. pc = "domains" /\ pc' \in {"domains", "ready"}
      BY <1>5 DEF reconcileDomainSet
    <2> QED BY <1>5, <2>1, DomainFacts
  <1>6. CASE finalizeBlocklist
    <2>1. CASE server' = server /\ pc' = "drop"
      BY <1>6, <2>1 DEF finalizeBlocklist
    <2>2. CASE server' = [server EXCEPT !.urls = 0] /\ pc' = "unload"
      <3>1. server'.urls = 0 /\ server'.loaded = server.loaded
        BY <1>1, <2>2 DEF ServerType
      <3> QED BY <1>6, <2>2, <3>1 DEF finalizeBlocklist
    <2> QED BY <1>6, <2>1, <2>2 DEF finalizeBlocklist
  <1>7. CASE finalizeRefresh
    <2>1. server' = [server EXCEPT !.loaded = server.urls] /\ pc = "unload" /\ pc' \in {"clear", "drop"}
      BY <1>7 DEF finalizeRefresh
    <2>2. server'.urls = server.urls /\ server'.loaded = server.urls
      BY <1>1, <2>1 DEF ServerType
    <2> QED BY <2>1, <2>2
  <1>8. CASE finalizeDomains
    <2>1. pc = "clear" /\ pc' \in {"clear", "drop"}
      BY <1>8 DEF finalizeDomains
    <2> QED BY <1>8, <2>1, ClearFacts
  <1> QED BY <1>2, <1>3, <1>4, <1>5, <1>6, <1>7, <1>8 DEF OwnStep

\* The pass has read the server's list, and later written its own.
Sees ==
  /\ cluster = "gone" => server.urls = 0
  /\ pc = "settings" /\ cluster # "gone" => reads.urls = server.urls
  /\ pc \in {"refresh", "domains", "ready"} /\ cluster # "gone" => server.urls = Wanted(loc)

\* A cluster that is gone does not come back.
LEMMA GoneForGood ==
  ASSUME Next PROVE (cluster = "gone" => cluster' = "gone") /\ (cluster' = "gone" => cluster = "gone" \/ ClusterGone)
  <1>1. CASE WorkerStep(Calls)
    BY <1>1 DEF WorkerStep, Reconcile, AddFinalizer, Unresolved, FinalizeUnresolved, DropFinalizer, PassFails
  <1>2. CASE OwnStep \/ markBlocklistReady
    BY <1>2, OwnAdvance DEF markBlocklistReady, markReady
  <1>3. CASE \E r \in Objects, s \in Specs : Create(r, s) \/ EditBlocklist(r, s)
    BY <1>3 DEF EditBlocklist, Create, Edit, Edited
  <1>4. CASE ClusterStep \/ ClusterGone
    BY <1>4 DEF ClusterStep, ClusterGone, Outage, Delete, CacheSync, Edited, Recover
  <1> QED BY <1>1, <1>2, <1>3, <1>4 DEF Next, Operator, World, OwnStep

\* Every step keeps what the pass has seen.
LEMMA SeesStep == ASSUME Sole, Typed, Typed', Sees, Next PROVE Sees'
  <1>1. CASE OwnStep
    <2>1. cluster' = cluster /\ loc' = loc
      BY <1>1, OwnAdvance
    <2> QED BY <1>1, <2>1, OwnEffect DEF Sees
  <1>2. CASE ClusterGone
    <2>1. cluster' = "gone" /\ server'.urls = 0
      BY <1>2 DEF ClusterGone, Outage, NoServer
    <2> QED BY <2>1 DEF Sees
  <1>3. ASSUME ~ClusterGone, server' = server,
               (pc' = pc /\ UNCHANGED <<loc, reads>>) \/ pc' \notin {"settings", "refresh", "domains", "ready"}
        PROVE  Sees'
    BY <1>3, GoneForGood DEF Sees
  <1>4. CASE markBlocklistReady /\ ~ClusterGone
    BY <1>3, <1>4 DEF markBlocklistReady, markReady, EndPass
  <1>5. CASE Passive /\ Shared /\ ~ClusterGone
    <2>1. server' = server /\ (pc' # "idle" => reads' = reads)
      BY <1>5 DEF Shared
    <2>2. (pc' = pc /\ loc' = loc) \/ pc' \notin {"settings", "refresh", "domains", "ready"}
      BY <1>5 DEF Passive, Reconcile, Registers, Ends, GivesUp, Replaced, Unnoticed, Working, Finalizing
    <2> QED BY <1>3, <1>5, <2>1, <2>2
  <1>6. ASSUME NEW s \in Specs, EditBlocklist(cur, s), ~ClusterGone PROVE Sees'
    BY <1>3, <1>6 DEF EditBlocklist, Edit, Touched
  <1> QED BY <1>1, <1>2, <1>4, <1>5, <1>6, Kinds

\* The list on the server, if there is one, is downloaded.
Loaded == server.urls # 0 => server.loaded = server.urls

\* The Blocklist is not being finalized, and no step will begin to.
Alive == Working(pc) \/ Steady(cached[cur]) \/ ~obj[cur].deleting

\* The server's list is between what was applied and every copy of the spec that
\* may still be written; a list that is both applied and on the server is
\* downloaded.
Between ==
  /\ Done(obj[cur]) <= server.urls /\ server.urls <= Wanted(obj[cur])
  /\ Steady(cached[cur]) => server.urls <= Wanted(cached[cur])
  /\ pc \in {"reconcile", "settings"} => server.urls <= Wanted(loc)
  /\ Done(obj[cur]) = server.urls => server.loaded = server.urls

\* With passes that fail, and a cache that lags, while the spec goes forward.
Forward ==
  (~reverted /\ cluster # "gone") =>
     /\ (Alive /\ Done(obj[cur]) # 0) => Between
     /\ pc \in {"domains", "ready"} => Loaded

\* The steps of the pass.
LEMMA ForwardOwn ==
  ASSUME Sole, Typed, Typed', Owned, Order, Sees, Forward, OwnStep, ~reverted, cluster # "gone"
  PROVE  Forward'
  <1>1. /\ RInv /\ cur \in Objects /\ cur' = cur
        /\ Wanted(obj[cur]) \in Nat /\ Done(obj[cur]) \in Nat
        /\ Wanted(cached[cur]) \in Nat /\ Wanted(loc) \in Nat /\ Done(loc) \in Nat
        /\ server.urls \in Nat
    BY SoleFacts, ListTypes, SpecTypes DEF Typed, DataTypes, ServerType
  <1>2. UNCHANGED <<obj, cached, loc, cluster, reverted>> /\ Advance
    BY OwnAdvance DEF stored
  <1>3. CASE pc \in Finalizing
    <2>1. pc' \in Finalizing /\ ~Steady(cached[cur]) /\ ~Steady(obj[cur])
      BY <1>1, <1>2, <1>3 DEF Advance, Working, RInv, PassInv
    <2>2. Done(obj[cur]) # 0 => obj[cur].deleting
      BY <2>1 DEF Owned, Held, Steady
    <2>3. Done(obj[cur]) # 0 => ~Alive'
      BY <1>1, <1>2, <2>1, <2>2 DEF Alive, Working
    <2> QED BY <1>1, <1>2, <2>1, <2>3 DEF Forward, Finalizing
  <1>4. CASE pc \notin Finalizing
    <2>1. Working(pc) /\ Alive
      BY <1>2, <1>4 DEF Advance, Alive
    <2>2. /\ Wanted(loc) <= Wanted(obj[cur]) /\ Done(loc) <= Done(obj[cur])
          /\ Done(obj[cur]) <= Wanted(loc) /\ (Steady(cached[cur]) => Wanted(loc) <= Wanted(cached[cur]))
          /\ (Done(obj[cur]) # 0 => Between)
      BY <2>1 DEF Order, Behind, Forward
    <2>3. CASE pc = "reconcile"
      <3>1. pc' = "settings" /\ server' = server
        BY <2>3, OwnEffect
      <3> QED BY <1>1, <1>2, <2>2, <2>3, <3>1 DEF Forward, Between
    <2>4. CASE pc = "settings"
      <3>1. pc' = "refresh" /\ server'.urls = Wanted(loc) /\ server'.loaded = server.loaded
        BY <2>4, OwnEffect DEF Sees
      <3>2. ASSUME Done(obj[cur]) # 0, Done(obj[cur]) = Wanted(loc)
            PROVE  server.urls = Wanted(loc) /\ server.loaded = server.urls
        <4>1. /\ Done(obj[cur]) <= server.urls /\ server.urls <= Wanted(loc)
              /\ Done(obj[cur]) = server.urls => server.loaded = server.urls
          BY <2>2, <2>4, <3>2 DEF Between
        <4>2. server.urls = Wanted(loc)
          BY <1>1, <3>2, <4>1, NatOrder, Zenon
        <4> QED BY <3>2, <4>1, <4>2
      <3>3. obj' = obj /\ cached' = cached /\ cur' = cur
        BY <1>1, <1>2
      <3>4. Done(obj[cur]) # 0 => Between'
        BY <2>2, <3>1, <3>2, <3>3, Zenon DEF Between
      <3> QED BY <3>1, <3>3, <3>4 DEF Forward
    <2>5. CASE pc = "refresh"
      <3>1. /\ pc' \in {"domains", "ready"} /\ server'.urls = server.urls
            /\ \/ server'.loaded = server.urls
               \/ server'.loaded = server.loaded /\ Wanted(loc) = Done(loc)
        BY <2>5, OwnEffect
      <3>2. server.urls = Wanted(loc)
        BY <2>5 DEF Sees
      <3>3. ASSUME server'.urls # 0, Wanted(loc) = Done(loc) PROVE server.loaded = server.urls
        <4>1. Done(obj[cur]) = server.urls
          BY <1>1, <2>2, <3>2, <3>3
        <4>2. Between
          BY <2>2, <3>1, <3>3, <4>1
        <4> QED BY <4>1, <4>2 DEF Between
      <3>4. server'.urls # 0 => server'.loaded = server'.urls
        BY <3>1, <3>3
      <3> QED BY <1>1, <1>2, <2>2, <3>1, <3>4 DEF Forward, Between, Loaded
    <2>6. CASE pc = "domains"
      <3>1. pc' \in {"domains", "ready"} /\ server'.urls = server.urls /\ server'.loaded = server.loaded
        BY <2>6, OwnEffect
      <3> QED BY <1>1, <1>2, <2>2, <2>6, <3>1 DEF Forward, Between, Loaded
    <2> QED BY <1>4, <2>3, <2>4, <2>5, <2>6, OwnEffect DEF Finalizing
  <1> QED BY <1>3, <1>4

\* Every step.
LEMMA ForwardStep == ASSUME Sole, Typed, Typed', Owned, Order, Sees, Forward, Next PROVE Forward'
  <1>0. SUFFICES ASSUME ~reverted', cluster' # "gone" PROVE Forward'
    BY DEF Forward
  <1>1. /\ RInv /\ RInv' /\ cur \in Objects /\ cur' = cur
        /\ Wanted(obj[cur]) \in Nat /\ Done(obj[cur]) \in Nat
        /\ Wanted(cached[cur]) \in Nat /\ Wanted(loc) \in Nat /\ Done(loc) \in Nat
        /\ server.urls \in Nat
    BY SoleFacts, ListTypes, SpecTypes DEF Typed, DataTypes, ServerType
  <1>2. cluster # "gone" /\ ~ClusterGone
    BY <1>0, GoneForGood DEF ClusterGone, Outage
  <1>3. CASE OwnStep
    BY <1>0, <1>2, <1>3, ForwardOwn, OwnAdvance
  <1>4. CASE markBlocklistReady
    <2>1. UNCHANGED <<server, reverted>>
      BY <1>1, <1>4, ReadyLists
    <2>2. pc = "ready" /\ pc' = "idle" /\ Working(pc) /\ Alive
      BY <1>1, <1>4, ReadyLists DEF Working, Finalizing, Alive
    <2>3. /\ Wanted(obj'[cur]) = Wanted(obj[cur]) /\ cached'[cur] \in {cached[cur], obj'[cur]}
          /\ Done(obj'[cur]) \in {Done(obj[cur]), Wanted(loc)}
      BY <1>1, <1>4, ReadyLists
    <2>4. server.urls = Wanted(loc) /\ Loaded /\ (Done(obj[cur]) # 0 => Between)
      BY <1>0, <1>2, <2>1, <2>2 DEF Sees, Forward
    <2>5. Wanted(loc) <= Wanted(obj[cur]) /\ (Steady(cached[cur]) => Wanted(loc) <= Wanted(cached[cur]))
      BY <1>0, <2>1, <2>2 DEF Order, Behind
    <2>6. Done(obj'[cur]) # 0 => Between'
      <3>1. server' = server /\ cur' = cur /\ pc' \notin {"reconcile", "settings"}
        BY <1>1, <2>1, <2>2
      <3>2. server.urls <= Wanted(obj'[cur]) /\ (Steady(cached'[cur]) => server.urls <= Wanted(cached'[cur]))
        BY <2>3, <2>4, <2>5, Zenon
      <3>3. CASE Done(obj'[cur]) = Wanted(loc)
        <4>1. server.urls <= server.urls
          BY <1>1, NatOrder, Zenon
        <4>2. Done(obj'[cur]) = server.urls
          BY <2>4, <3>3
        <4>3. server.urls # 0 => server.loaded = server.urls
          BY <2>4 DEF Loaded
        <4> QED BY <3>1, <3>2, <4>1, <4>2, <4>3, Zenon DEF Between
      <3>4. CASE Done(obj'[cur]) = Done(obj[cur])
        <4>1. Done(obj[cur]) # 0 => Done(obj[cur]) <= server.urls
                                    /\ (Done(obj[cur]) = server.urls => server.loaded = server.urls)
          BY <2>4 DEF Between
        <4> QED BY <3>1, <3>2, <3>4, <4>1, Zenon DEF Between
      <3> QED BY <2>3, <3>3, <3>4, Zenon
    <2> QED BY <1>1, <2>2, <2>6 DEF Forward
  <1>5. CASE Passive /\ Shared
    <2>1. UNCHANGED <<server, reverted>>
      BY <1>5 DEF Shared
    <2>2. ASSUME Calm, Alive' => Alive, pc' \in {"domains", "ready"} => pc' = pc,
                 pc' \in {"reconcile", "settings"} => pc' = pc /\ loc' = loc
          PROVE  Forward'
      <3>1. Done(obj'[cur]) = Done(obj[cur]) /\ Wanted(obj'[cur]) = Wanted(obj[cur]) /\ cached'[cur] \in {cached[cur], obj'[cur]}
        BY <1>1, <2>2, CalmLists
      <3>2. (Alive' /\ Done(obj'[cur]) # 0) => Between'
        BY <1>0, <1>1, <1>2, <2>1, <2>2, <3>1 DEF Forward, Between
      <3>3. pc' \in {"domains", "ready"} => Loaded'
        BY <1>0, <1>2, <2>1, <2>2 DEF Forward, Loaded
      <3> QED BY <1>1, <3>2, <3>3 DEF Forward
    <2>3. ASSUME obj' = obj, cached'[cur] \in {cached[cur], obj'[cur]}, Working(pc') => Working(pc) PROVE Alive' => Alive
      BY <1>1, <2>3 DEF Alive, Steady
    <2>4. CASE Reconcile(cur)
      <3>1. UNCHANGED <<obj, cached>> /\ loc' = cached[cur] /\ pc' \in {"finalize", "finalizer", "reconcile"}
            /\ (Working(pc') => Steady(cached[cur]))
        BY <2>4 DEF Reconcile, stored, Working, Finalizing, Steady
      <3>2. Alive' => Alive
        BY <1>1, <3>1 DEF Alive
      <3>3. pc' = "reconcile" => Steady(cached[cur])
        BY <3>1 DEF Working, Finalizing
      <3> QED BY <1>0, <1>1, <1>2, <2>1, <3>1, <3>2, <3>3 DEF Forward, Between
    <2>5. CASE Registers
      <3>1. Alive /\ obj[cur] = loc /\ cached[cur] = loc
            /\ obj'[cur] = loc' /\ cached'[cur] \in {loc, loc'} /\ pc' = "reconcile"
        BY <2>5 DEF Registers, Alive
      <3>2. Wanted(loc') = Wanted(loc) /\ Done(loc') = Done(loc)
        BY <2>5 DEF Registers, Wanted, Done
      <3>3. Done(loc') # 0 => Between
        BY <1>0, <1>2, <2>1, <3>1, <3>2 DEF Forward
      <3>4. Done(obj'[cur]) # 0 => Between'
        BY <1>1, <2>1, <3>1, <3>2, <3>3 DEF Between
      <3> QED BY <1>1, <3>1, <3>4 DEF Forward
    <2>6. CASE Ends
      <3>1. Calm /\ pc' = "idle" /\ (Working(pc) \/ UNCHANGED stored)
        BY <2>6 DEF Ends
      <3>2. CASE Working(pc)
        BY <2>2, <3>1, <3>2 DEF Alive
      <3>3. CASE UNCHANGED stored
        BY <2>2, <2>3, <3>1, <3>3 DEF stored, Working
      <3> QED BY <3>1, <3>2, <3>3
    <2>7. CASE GivesUp
      <3>1. UNCHANGED <<obj, cached>> /\ pc' = "drop" /\ Calm /\ ~Working(pc')
        BY <2>7 DEF GivesUp, stored, Calm, Working, Finalizing
      <3> QED BY <2>2, <2>3, <3>1
    <2>8. CASE Replaced
      <3>1. Done(obj'[cur]) = 0 /\ ~Working(pc')
        BY <1>1, <2>8, NewLists DEF Replaced
      <3> QED BY <1>1, <3>1 DEF Forward, Working, Finalizing
    <2>9. CASE Unnoticed
      <3>1. Calm /\ UNCHANGED <<pc, loc>> /\ cached'[cur] \in {cached[cur], obj'[cur]} /\ (obj' = obj \/ ~obj[cur].deleting)
        BY <1>1, <2>9 DEF Unnoticed, Calm
      <3>2. Alive' => Alive
        BY <2>3, <3>1 DEF Alive, Working
      <3> QED BY <2>2, <3>1, <3>2
    <2> QED BY <1>5, <2>4, <2>5, <2>6, <2>7, <2>8, <2>9 DEF Passive
  <1>6. ASSUME NEW s \in Specs, EditBlocklist(cur, s) PROVE Forward'
    <2>1. Respecified(cur, s) /\ UNCHANGED <<pc, loc, server>>
      BY <1>1, <1>6, EditEffect DEF EditBlocklist, Edit, Touched
    <2>0. Alive' => Alive
      BY <1>1, <2>1 DEF Respecified, Alive, Steady, Working
    <2>2. ~reverted /\ ~(s.urls < Wanted(obj[cur]))
      BY <1>0, <1>6 DEF EditBlocklist, Wanted
    <2>3. /\ Wanted(obj'[cur]) = s.urls /\ Done(obj'[cur]) = Done(obj[cur])
          /\ cached'[cur] \in {cached[cur], obj'[cur]}
      BY <1>1, <2>1 DEF Respecified, Wanted, Done
    <2>4. (Alive /\ Done(obj'[cur]) # 0) => Between'
      <3>1. obj'[cur] \in ObjectType
        BY <1>1 DEF RInv, PassTypes, StoredTypes
      <3>2. s.urls \in Nat
        BY <2>3, <3>1, SpecTypes DEF Wanted
      <3>3. Wanted(obj[cur]) <= Wanted(obj'[cur]) /\ Wanted(obj'[cur]) \in Nat
        BY <1>1, <2>2, <2>3, <3>2, NatOrder, Zenon
      <3>4. (Alive /\ Done(obj[cur]) # 0) => Between
        BY <1>2, <2>2 DEF Forward
      <3>5. Between => server.urls <= Wanted(obj'[cur])
        <4>1. Between => server.urls <= Wanted(obj[cur])
          BY DEF Between
        <4> QED BY <1>1, <3>3, <4>1, NatOrder, Zenon
      <3>6. Between => (Steady(cached'[cur]) => server.urls <= Wanted(cached'[cur]))
        BY <2>3, <3>5, Zenon DEF Between
      <3>7. cur' = cur /\ UNCHANGED <<pc, loc, server>>
        BY <1>1, <2>1
      <3> QED BY <2>3, <3>4, <3>5, <3>6, <3>7, Zenon DEF Between
    <2>5. pc' \in {"domains", "ready"} => Loaded'
      BY <1>2, <2>1, <2>2 DEF Forward, Loaded
    <2> QED BY <1>1, <2>0, <2>3, <2>4, <2>5 DEF Forward
  <1> QED BY <1>2, <1>3, <1>4, <1>5, <1>6, Kinds

\* With passes that all succeed, and a spec that goes anywhere: between passes
\* the applied list is on the server and downloaded, up to the finalization.
Settled == (pc \in {"idle", "finalizer"} /\ ~obj[cur].deleting) \/ pc \in {"reconcile", "settings"}
DirectInv ==
  /\ pc # "refresh" => Loaded
  /\ (pc = "refresh" /\ Wanted(loc) = Done(loc)) => Loaded
  /\ (Settled /\ Done(obj[cur]) # 0) => server.urls = Done(obj[cur])
Direct == Undisturbed => DirectInv

\* Every step keeps it.
LEMMA DirectStep ==
  ASSUME Sole, Typed, Typed', Up, Prompt, Sees, Direct, Next PROVE Direct'
  <1>0. SUFFICES ASSUME Undisturbed' PROVE DirectInv'
    BY DEF Direct
  <1>1. /\ RInv /\ cur \in Objects /\ cur' = cur /\ \A r \in Objects : r = cur
        /\ DirectInv /\ ~Lag /\ cluster # "gone"
        /\ ~PassFails /\ ~Unresolved(Calls) /\ ~FinalizeUnresolved /\ ~ClusterGone
    BY <1>0, SoleFacts, Quiet DEF Direct, Typed, ClusterGone
  <1>2. Working(pc) => Done(loc) = Done(obj[cur]) /\ cur \in Held
    BY <1>1 DEF Prompt, RInv, PassInv, Done
  <1>3. CASE OwnStep
    <2>1. UNCHANGED <<obj, loc>>
      BY <1>3, OwnAdvance DEF stored
    <2>2. CASE pc = "settings"
      <3>1. pc' = "refresh" /\ server'.urls = Wanted(loc) /\ server'.loaded = server.loaded
        BY <1>1, <1>3, <2>2, OwnEffect DEF Sees
      <3>2. Done(loc) = Done(obj[cur])
        BY <1>2, <2>2 DEF Working, Finalizing
      <3> QED BY <1>1, <2>1, <2>2, <3>1, <3>2 DEF DirectInv, Loaded, Settled
    <2>3. CASE pc # "settings"
      BY <1>1, <1>3, <2>1, <2>3, OwnEffect DEF DirectInv, Loaded, Settled
    <2> QED BY <2>2, <2>3
  <1>4. CASE markBlocklistReady
    <2>1. server' = server
      BY <1>1, <1>4, ReadyLists
    <2>2. pc = "ready" /\ pc' = "idle" /\ Working(pc)
      BY <1>1, <1>4, ReadyLists DEF Working, Finalizing
    <2>3. fresh[cur] /\ obj[cur].exists
      BY <1>1, <1>2, <2>2 DEF Prompt, Held
    <2>4. Done(obj'[cur]) = Wanted(loc)
      BY <1>1, <1>4, <2>3, ReadyLists
    <2>5. server.urls = Wanted(loc)
      BY <1>1, <2>2 DEF Sees
    <2> QED BY <1>1, <2>1, <2>2, <2>4, <2>5 DEF DirectInv, Loaded
  <1>5. ASSUME server' = server, pc # "refresh", pc' # "refresh",
               \/ Done(obj'[cur]) = 0
               \/ Done(obj'[cur]) = Done(obj[cur]) /\ (Settled' => Settled)
        PROVE  DirectInv'
    BY <1>1, <1>5 DEF DirectInv, Loaded
  <1>6. ASSUME server' = server, UNCHANGED <<pc, loc>>,
               \/ Done(obj'[cur]) = 0
               \/ Done(obj'[cur]) = Done(obj[cur]) /\ (obj[cur].deleting => obj'[cur].deleting)
        PROVE  DirectInv'
    BY <1>1, <1>6 DEF DirectInv, Loaded, Settled
  <1>7. CASE WorkerStep(Calls) /\ Shared
    <2>1. server' = server
      BY <1>7 DEF Shared
    <2>2. CASE AddFinalizer \/ Reconcile(cur)
      <3>1. pc \in {"idle", "finalizer"} /\ pc' # "refresh"
        BY <2>2 DEF AddFinalizer, Reconcile, EndPass
      <3>2. Done(obj'[cur]) = Done(obj[cur])
        BY <1>1, <1>7, <3>1, WorkerEffect, CalmLists
      <3>3. CASE AddFinalizer
        <4>1. Settled' => Settled
          BY <1>1, <3>1, <3>3, RegisterEffect DEF AddFinalizer, Registers, Ends, Settled, Working, stored
        <4> QED BY <1>5, <2>1, <3>1, <3>2, <4>1
      <3>4. CASE Reconcile(cur)
        <4>1. cached[cur] = obj[cur] /\ obj' = obj
          BY <1>1, <3>4 DEF Prompt, RInv, CacheInv, Reconcile, stored
        <4>2. Settled' => Settled
          BY <1>1, <3>4, <4>1 DEF Reconcile, Settled
        <4> QED BY <1>5, <2>1, <3>1, <3>2, <4>2
      <3> QED BY <2>2, <3>3, <3>4
    <2>3. CASE DropFinalizer /\ UNCHANGED stored
      <3>1. pc = "drop" /\ pc' = "idle" /\ obj' = obj /\ obj[cur].deleting
        BY <1>1, <2>3 DEF DropFinalizer, EndPass, Prompt, Finalizing, stored
      <3> QED BY <1>1, <1>5, <2>1, <3>1 DEF Settled
    <2>4. CASE DropFinalizer /\ Write(cur, NoObj)
      <3>1. pc = "drop" /\ pc' = "idle" /\ Write(cur, NoObj)
        BY <2>4 DEF DropFinalizer, EndPass
      <3>2. Done(obj'[cur]) = 0
        <4>1. NoObj.applied = NotApplied /\ ~NoObj.finalizer
          BY DEF NoObj
        <4>2. Renewed(cur)
          BY <1>1, <3>1, <4>1, NoObjType, GoneWrite
        <4> QED BY <1>1, <4>2, NewLists
      <3> QED BY <1>5, <2>1, <3>1, <3>2
    <2>5. DropFinalizer => UNCHANGED stored \/ Write(cur, NoObj)
      BY DEF DropFinalizer
    <2> QED BY <1>1, <1>7, <2>2, <2>3, <2>4, <2>5 DEF WorkerStep
  <1>8. ASSUME NEW r \in Objects, NEW s \in Specs, Create(r, s), Shared PROVE DirectInv'
    <2>1. Renewed(cur) /\ UNCHANGED <<pc, loc, server>>
      BY <1>1, <1>8, CreateEffect, Zenon DEF Create, Touched, Shared
    <2> QED BY <1>1, <1>6, <2>1, NewLists
  <1>9. ASSUME NEW r \in Objects, NEW s \in Specs, EditBlocklist(r, s) PROVE DirectInv'
    <2>1. Respecified(cur, s) /\ UNCHANGED <<pc, loc, server>>
      BY <1>1, <1>9, EditEffect, Zenon DEF EditBlocklist, Edit, Touched
    <2>2. Done(obj'[cur]) = Done(obj[cur]) /\ obj'[cur].deleting = obj[cur].deleting
      BY <2>1 DEF Respecified, Done
    <2> QED BY <1>6, <2>1, <2>2
  <1>10. CASE ClusterStep /\ Shared
    <2>1. UNCHANGED <<pc, loc, server>>
      BY <1>10, WorldStays DEF Shared
    <2>2. ASSUME NEW r \in Objects, Delete(r) PROVE DirectInv'
      <3>1. r = cur /\ (Calm \/ Renewed(r))
        BY <1>1, <2>2, DeleteEffect
      <3>2. Done(obj'[cur]) \in {0, Done(obj[cur])} /\ ~obj[cur].deleting
        BY <1>1, <2>2, <3>1, CalmLists, NewLists DEF Delete
      <3> QED BY <1>6, <2>1, <3>2
    <2>3. CASE obj' = obj
      BY <1>6, <2>1, <2>3
    <2> QED BY <1>10, <2>2, <2>3 DEF ClusterStep, CacheSync, Outage, Recover, stored
  <1> QED BY <1>1, <1>3, <1>4, <1>7, <1>8, <1>9, <1>10 DEF Next, Operator, World, OwnStep

-----------------------------------------------------------------------------
(* The invariant about refreshes. *)

RefreshInv == Typed /\ Up /\ Prompt /\ Owned /\ Order /\ Sees /\ Forward /\ Direct

\* Initially there is no list.
LEMMA RefreshInit == Init => RefreshInv
  <1> SUFFICES ASSUME Init PROVE RefreshInv
    OBVIOUS
  <1>1. Typed /\ Prompt /\ cur \in Objects
    BY TypeInit, PromptInit DEF Init, Typed, RInv, PassTypes
  <1>2. pc = "idle" /\ cluster = "up" /\ server.urls = 0 /\ obj = [r \in Objects |-> NoObj] /\ cached = obj
    BY DEF Init, ResourceInit, NoServer
  <1>3. obj[cur] = NoObj /\ cached[cur] = NoObj /\ Done(NoObj) = 0 /\ ~NoObj.exists
    BY <1>1, <1>2, BlocklistConstants DEF NoObj, Done
  <1>4. Wanted(obj[cur]) \in Nat
    BY <1>1, ListTypes DEF Typed
  <1>5. Owned
    BY <1>3 DEF Owned
  <1>6. Order
    <2>1. ~Steady(cached[cur]) /\ ~Working(pc) /\ Done(obj[cur]) = 0
      BY <1>2, <1>3 DEF Steady, Working, Finalizing
    <2>2. Done(obj[cur]) <= Wanted(obj[cur])
      BY <1>4, <2>1
    <2> QED BY <2>1, <2>2 DEF Order
  <1>7. Up /\ Sees /\ Forward /\ Direct
    BY <1>2, <1>3 DEF Up, Sees, Forward, Direct, DirectInv, Loaded
  <1> QED BY <1>1, <1>5, <1>6, <1>7 DEF RefreshInv

\* It is inductive.
LEMMA RefreshStep == ASSUME Sole, RefreshInv, [Next]_vars PROVE RefreshInv'
  <1>1. CASE Next
    <2>1. Typed' /\ Up' /\ Prompt'
      BY <1>1, TypeStep, UpStep, PromptStep DEF RefreshInv
    <2>2. Owned' /\ Order' /\ Sees'
      BY <1>1, <2>1, OwnedStep, OrderStep, SeesStep DEF RefreshInv
    <2>3. Forward' /\ Direct'
      BY <1>1, <2>1, ForwardStep, DirectStep DEF RefreshInv
    <2> QED BY <2>1, <2>2, <2>3 DEF RefreshInv
  <1>2. CASE UNCHANGED vars
    <2>1. /\ UNCHANGED <<stored, worker, obj, cached, pc, cur, loc, cluster, faults, outages, server, reads, reverted>>
      BY <1>2 DEF vars, resource, stored, worker, limits
    <2>2. Typed' /\ Prompt' /\ Up'
      BY <1>2, <2>1, TypeStutter, PromptIdle DEF RefreshInv, Up
    <2>3. Owned' /\ Order' /\ Sees'
      BY <2>1 DEF RefreshInv, Owned, Order, Sees, Held, Steady, Working
    <2>4. Forward'
      BY <2>1 DEF RefreshInv, Forward, Alive, Between, Loaded, Steady, Working
    <2>5. Direct'
      BY <2>1 DEF RefreshInv, Direct, DirectInv, Settled, Loaded, Undisturbed
    <2> QED BY <2>2, <2>3, <2>4, <2>5 DEF RefreshInv
  <1> QED BY <1>1, <1>2

\* On a server that one Blocklist owns, through failed passes, outages, a deleted
\* cluster and a cache that lags, for any URL lists: a list on the server that was
\* not downloaded is not yet the applied one, so that the next pass refreshes
\* (urlsNeedRefresh), unless the spec went back to an earlier list after a
\* failure.
THEOREM RefreshOwed == ASSUME Sole PROVE Spec => []RefreshStaysOwed
  <1>1. RefreshInv => RefreshStaysOwed
    <2> SUFFICES ASSUME RefreshInv, reverted => Undisturbed, NEW r \in Objects,
                        pc = "idle", obj[r].exists, ~obj[r].deleting, Wanted(obj[r]) = server.urls,
                        server.loaded # server.urls, server.urls # 0, Done(obj[r]) = Wanted(obj[r])
                 PROVE  FALSE
      BY DEF RefreshStaysOwed, Wanted, Done
    <2>1. r = cur /\ server.urls # 0 /\ cluster # "gone"
      BY DEF Sole, RefreshInv, Typed, RInv, PassTypes, Sees
    <2>2. CASE reverted
      BY <2>1, <2>2 DEF RefreshInv, Direct, DirectInv, Loaded
    <2>3. CASE ~reverted
      BY <2>1, <2>3 DEF RefreshInv, Forward, Alive, Between
    <2> QED BY <2>2, <2>3
  <1>2. RefreshInv /\ [Next]_vars => RefreshInv'
    BY RefreshStep
  <1> QED BY RefreshInit, <1>1, <1>2, PTL DEF Spec
=============================================================================
