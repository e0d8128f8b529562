--------------------------- MODULE DHCPScopeProofs ---------------------------
(***************************************************************************)
(* The DHCPScope controller implements Claim, for any number of resources, *)
(* reservations and bounds, as long as the cluster's admin Secret is never *)
(* missing.  The argument is that of ControllerProofs; here a finalization *)
(* makes two calls, and the server may go between them.                    *)
(*                                                                         *)
(* It is type-correct, and switches a scope on last: what the status says  *)
(* is reserved is reserved, so that the reservations the pass skips are    *)
(* there and the others are still to be done (InPlace).                    *)
(***************************************************************************)
EXTENDS DHCPScope, ResourceProofs

\* Who set the scope up is held, has not been cleaned up after, and loses the
\* scope with the cluster.
ClaimInv ==
  /\ RInv /\ made \subseteq Held /\ (pc = "drop" => cur \notin made)
  /\ (cluster = "gone" => made = {}) /\ cluster # "noSecret"

\* The steps that leave who set the scope up as it is.
LEMMA SharedKeeps ==
  ASSUME ClaimInv, ~SecretLoss, made' = made, WorkerStep(Calls) \/ UserStep \/ ClusterStep
  PROVE  ClaimInv' /\ [C!Next]_<<Held, made>>
  <1>1. /\ RInv' /\ cluster' # "noSecret" /\ (cluster' = "gone" <=> cluster = "gone")
        /\ Held' \in {Held, Held \cup {cur}} \/ (pc = "drop" /\ Held' = Held \ {cur})
        /\ pc' = "drop" => cur' = cur /\ (pc = "drop" \/ cluster = "gone")
    BY SharedStep DEF ClaimInv
  <1>2. ClaimInv'
    BY <1>1 DEF ClaimInv
  <1>3. cur \in Objects
    BY DEF ClaimInv, RInv, PassTypes
  <1>4. [C!Next]_<<Held, made>>
    <2>1. CASE Held' = Held
      BY <2>1
    <2>2. CASE Held' = Held \cup {cur}
      BY <1>3, <2>2 DEF C!Next, C!Take
    <2>3. CASE pc = "drop" /\ Held' = Held \ {cur}
      BY <1>3, <2>3 DEF ClaimInv, C!Next, C!Release
    <2> QED BY <1>1, <2>1, <2>2, <2>3
  <1> QED BY <1>2, <1>4

\* A step of the pass that does not touch who is held: the scope is set up
\* while the server is up and the pass is at work, and the pass goes to its last step
\* only when the resource has nothing on the server.
LEMMA OwnStep ==
  ASSUME ClaimInv, RInv', Held' = Held, UNCHANGED cluster,
         made' \in SUBSET made \/ (made' = made \cup {cur} /\ Working(pc) /\ ServerUp),
         pc' = "drop" => cur' = cur /\ cur \notin made'
  PROVE  ClaimInv' /\ [C!Next]_<<Held, made>>
  <1>1. CASE made' \in SUBSET made
    BY <1>1 DEF ClaimInv, C!Next, C!Clean
  <1>2. CASE made' = made \cup {cur} /\ Working(pc) /\ ServerUp
    <2>1. cur \in Held /\ cluster # "gone" /\ cur \in Objects
      BY <1>2 DEF ClaimInv, RInv, PassInv, PassTypes, ServerUp
    <2> QED BY <1>2, <2>1 DEF ClaimInv, C!Next, C!Put
  <1> QED BY <1>1, <1>2

\* Every step of the controller is a step of Claim, or none.
LEMMA NextStep ==
  ASSUME ClaimInv, ~SecretLoss, Next PROVE ClaimInv' /\ [C!Next]_<<Held, made>>
  <1>0. RInv
    BY DEF ClaimInv
  <1>1. CASE WorkerStep(Calls) /\ Shared
    BY <1>1, SharedKeeps DEF Shared
  <1>2. CASE GetDHCPScope \/ SetDHCPScope \/ reconcileReservations \/ Toggle
    <2>1. Advance /\ Working(pc) /\ pc' # "drop" /\ UNCHANGED cluster
      BY <1>2 DEF GetDHCPScope, SetDHCPScope, AfterCore, reconcileReservations, Toggle, Advance, Working, Finalizing
    <2>2. made' \in SUBSET made \/ (made' = made \cup {cur} /\ Working(pc) /\ ServerUp)
      BY <1>2, <2>1 DEF GetDHCPScope, SetDHCPScope, Calls, reconcileReservations, Toggle
    <2> QED BY <1>0, <2>1, <2>2, AdvanceStep, OwnStep
  <1>3. CASE ScopeLost
    <2>1. Fails /\ pc' # "drop" /\ UNCHANGED <<cluster, made>>
      BY <1>3 DEF ScopeLost, Fails, EndPass
    <2> QED BY <1>0, <2>1, FailsStep, OwnStep
  <1>4. CASE markScopeReady
    <2>1. markReady(Reserved(loc.spec.leases)) /\ pc' # "drop" /\ UNCHANGED <<cluster, made>>
      BY <1>4 DEF markScopeReady, markReady, EndPass
    <2>2. Reserved(loc.spec.leases) \in Applied
      BY DHCPConstants DEF Reserved
    <2> QED BY <1>0, <2>1, <2>2, MarkReadyStep, OwnStep
  <1>5. CASE finalizeDHCPScope \/ DeleteDHCPScope
    <2>1. /\ Advance /\ UNCHANGED <<cur, cluster>>
          /\ made' \in SUBSET made /\ (pc' = "drop" => cur \notin made')
      BY <1>5 DEF finalizeDHCPScope, DeleteDHCPScope, Removed, Advance, Finalizing
    <2> QED BY <1>0, <2>1, AdvanceStep, OwnStep
  <1>6. CASE \E r \in Objects, s \in Specs : Ask(r, s)
    BY <1>6, SharedKeeps DEF Ask, UserStep
  <1>7. CASE ClusterStep /\ Shared
    BY <1>7, SharedKeeps DEF Shared
  <1>8. CASE ClusterGone
    <2>1. UNCHANGED <<stored, worker>> /\ cluster' = "gone" /\ made' = {}
      BY <1>8 DEF ClusterGone, Removed, Outage
    <2>2. RInv' /\ Held' = Held
      BY <1>0, <2>1, IdleStep
    <2> QED BY <2>1, <2>2 DEF ClaimInv, C!Next, C!Clean
  <1>9. CASE Drift
    <2>1. UNCHANGED <<stored, worker, cluster>> /\ made' \in SUBSET made
      BY <1>9 DEF Drift, Removed, resource
    <2>2. RInv' /\ Held' = Held /\ UNCHANGED <<pc, cur>>
      BY <1>0, <2>1, IdleStep DEF worker
    <2> QED BY <2>1, <2>2, OwnStep DEF ClaimInv
  <1> QED BY <1>1, <1>2, <1>3, <1>4, <1>5, <1>6, <1>7, <1>8, <1>9 DEF Next, Operator, World

\* The DHCPScope controller keeps the finalizer's promise: no step of
\* reconcileDHCPScope, finalizeDHCPScope, a user, the cluster or anybody else sets
\* the scope up for a resource that may go away, or lets one go whose scope is
\* still there.
THEOREM DHCPScopeClaims == ASSUME ~SecretLoss PROVE Spec => Claimed
  <1>1. Init => ClaimInv /\ C!Init
    BY RInvInit DEF Init, ClaimInv, C!Init, ResourceInit
  <1>2. ClaimInv /\ [Next]_vars => ClaimInv' /\ [C!Next]_<<Held, made>>
    <2> SUFFICES ASSUME ClaimInv, [Next]_vars PROVE ClaimInv' /\ [C!Next]_<<Held, made>>
      OBVIOUS
    <2>1. CASE Next
      BY <2>1, NextStep
    <2>2. CASE UNCHANGED vars
      <3>1. UNCHANGED <<stored, worker, cluster, made, pc, cur>>
        BY <2>2 DEF vars, resource, worker
      <3>2. RInv' /\ Held' = Held
        BY <3>1, IdleStep DEF ClaimInv
      <3> QED BY <3>1, <3>2 DEF ClaimInv
    <2> QED BY <2>1, <2>2
  <1> QED BY <1>1, <1>2, PTL DEF Spec, Claimed, C!Spec

-----------------------------------------------------------------------------
(* Type correctness. *)

DataTypes ==
  /\ server \in Scope /\ reads \in Scope /\ todo \subseteq MACs
  /\ drifts \in 0 .. MaxDrifts /\ made \subseteq Objects /\ asked \in [MACs -> SUBSET IPs]

Steps == {"idle", "finalizer", "reconcile", "core", "leases", "toggle", "ready", "finalize", "remove", "drop"}
Typed == RInv /\ Counted /\ pc \in Steps /\ DataTypes

\* A scope that is not there is a scope without reservations.
LEMMA NoScopeType == NoScope \in Scope /\ ~NoScope.exists /\ NoScope.leases = NoLeases /\ Reserved(NoLeases) = {}
  BY DHCPConstants DEF NoScope, Scope, NoLeases, Reserved

\* The parts of a spec, as the proofs use them.
LEMMA SpecTypes ==
  ASSUME RInv
  PROVE  /\ cur \in Objects /\ loc.spec.core \in Cores
         /\ loc.spec.router \in Routers \cup {Unset} /\ loc.spec.extra \in Extras \cup {Unset}
         /\ loc.spec.leases \in [MACs -> IPs \cup {NoIP}] /\ loc.applied \subseteq MACs
         /\ loc.spec.enabled \in BOOLEAN
  <1>1. loc.spec \in DHCPScopeSpec /\ loc.applied \subseteq MACs /\ cur \in Objects
    BY DHCPConstants DEF RInv, PassTypes, ObjectType
  <1> QED BY <1>1 DEF DHCPScopeSpec

\* What setting the core fields does.
LEMMA SetFacts ==
  ASSUME Typed, SetDHCPScope
  PROVE  /\ server' \in Scope
         /\ \/ server' = server /\ scopeCoreFieldsMatch
            \/ /\ server'.exists /\ server'.core = loc.spec.core /\ server'.leases = server.leases
               /\ loc.spec.router \in {Unset, server'.router}
               /\ server.exists => server'.enabled = server.enabled
  <1>1. /\ server \in Scope /\ loc.spec.core \in Cores
        /\ Sent(loc.spec.router, server.router) \in Routers /\ Sent(loc.spec.extra, server.extra) \in Extras
    BY SpecTypes DEF Typed, DataTypes, Scope, Sent
  <1>2. CASE scopeCoreFieldsMatch
    BY <1>1, <1>2 DEF SetDHCPScope
  <1>3. CASE ~scopeCoreFieldsMatch
    <2>1. PICK b \in BOOLEAN :
             /\ server.exists => b = server.enabled
             /\ server' = [exists |-> TRUE, enabled |-> b, core |-> loc.spec.core,
                           router |-> Sent(loc.spec.router, server.router),
                           extra |-> Sent(loc.spec.extra, server.extra), leases |-> server.leases]
      BY <1>1, <1>3 DEF SetDHCPScope, Scope
    <2>2. /\ server' \in Scope /\ server'.exists /\ server'.core = loc.spec.core /\ server'.leases = server.leases
          /\ server'.router = Sent(loc.spec.router, server.router) /\ server'.enabled = b
      BY <1>1, <2>1 DEF Scope
    <2> QED BY <2>1, <2>2 DEF Sent
  <1> QED BY <1>2, <1>3

\* What one call for a reservation does.
LEMMA LeaseFacts ==
  ASSUME Typed, reconcileReservations
  PROVE  /\ server' \in Scope
         /\ server'.core = server.core /\ server'.router = server.router
         /\ server'.exists = server.exists /\ server'.enabled = server.enabled
         /\ \E m \in todo :
               /\ todo' = todo \ {m} /\ m \in MACs
               /\ server'.leases[m] = NoIP <=> loc.spec.leases[m] = NoIP
               /\ \A k \in MACs \ {m} : server'.leases[k] = server.leases[k]
  <1>1. PICK m \in todo : \E ip \in {loc.spec.leases[m], server.leases[m]} :
           /\ NoIP \in {loc.spec.leases[m], server.leases[m]} => ip = loc.spec.leases[m]
           /\ server' = [server EXCEPT !.leases[m] = ip] /\ todo' = todo \ {m}
    BY DEF reconcileReservations
  <1>2. PICK ip \in {loc.spec.leases[m], server.leases[m]} :
           /\ NoIP \in {loc.spec.leases[m], server.leases[m]} => ip = loc.spec.leases[m]
           /\ server' = [server EXCEPT !.leases[m] = ip] /\ todo' = todo \ {m}
    BY <1>1
  <1>3. m \in MACs /\ server \in Scope /\ ip \in IPs \cup {NoIP}
    BY <1>2, SpecTypes DEF Typed, DataTypes, Scope
  <1>4. /\ server' \in Scope
        /\ server'.core = server.core /\ server'.router = server.router
        /\ server'.exists = server.exists /\ server'.enabled = server.enabled
        /\ server'.leases[m] = ip /\ \A k \in MACs \ {m} : server'.leases[k] = server.leases[k]
    BY <1>2, <1>3 DEF Scope
  <1>5. server'.leases[m] = NoIP <=> loc.spec.leases[m] = NoIP
    BY <1>2, <1>4
  <1> QED BY <1>2, <1>3, <1>4, <1>5

\* What switching the scope does.
LEMMA ToggleFacts ==
  ASSUME Typed, Toggle
  PROVE  /\ server' \in Scope /\ server'.core = server.core /\ server'.router = server.router
         /\ server'.exists = server.exists /\ server'.leases = server.leases
  <1>1. server \in Scope /\ loc.spec.enabled \in BOOLEAN
    BY SpecTypes DEF Typed, DataTypes
  <1>2. CASE Calls
    BY <1>1, <1>2 DEF Scope, Toggle
  <1>3. CASE ~Calls
    BY <1>1, <1>3 DEF Toggle
  <1> QED BY <1>2, <1>3

\* The first step of a finalization.
LEMMA DisableFacts ==
  ASSUME Typed, finalizeDHCPScope
  PROVE  /\ server' \in Scope /\ server'.exists = server.exists /\ server'.leases = server.leases
         /\ made' \subseteq made /\ (server'.enabled => server.enabled)
  <1>1. server \in Scope
    BY DEF Typed, DataTypes
  <1>2. CASE server' = server /\ made' = made \ {cur}
    BY <1>1, <1>2
  <1>3. CASE server' = [server EXCEPT !.enabled = FALSE] /\ made' = made
    BY <1>1, <1>3 DEF Scope
  <1> QED BY <1>2, <1>3 DEF finalizeDHCPScope

\* The types of the scope, of what was read and of the history.
LEMMA DataStep == ASSUME Typed, Next PROVE DataTypes'
  <1>0. /\ RInv /\ cur \in Objects /\ DataTypes /\ loc.spec.leases \in [MACs -> IPs \cup {NoIP}]
        /\ loc.applied \subseteq MACs /\ NoScope \in Scope
    BY SpecTypes, NoScopeType DEF Typed
  <1>1. CASE Shared \/ ScopeLost \/ markScopeReady \/ GetDHCPScope
    BY <1>0, <1>1 DEF Shared, ScopeLost, markScopeReady, GetDHCPScope, DataTypes
  <1>2. CASE SetDHCPScope
    <2>1. UNCHANGED <<reads, drifts, asked>> /\ made' \subseteq made \cup {cur} /\ todo' = Changes
      BY <1>2 DEF SetDHCPScope, AfterCore
    <2>2. todo' \subseteq MACs
      BY <1>0, <2>1 DEF Changes, Reserved
    <2> QED BY <1>0, <1>2, <2>1, <2>2, SetFacts DEF DataTypes
  <1>3. CASE reconcileReservations
    <2>1. UNCHANGED <<reads, drifts, asked, made>>
      BY <1>3 DEF reconcileReservations
    <2> QED BY <1>0, <1>3, <2>1, LeaseFacts DEF DataTypes
  <1>4. CASE Toggle
    <2>1. UNCHANGED <<reads, todo, drifts, asked, made>>
      BY <1>4 DEF Toggle
    <2> QED BY <1>0, <1>4, <2>1, ToggleFacts DEF DataTypes
  <1>5. CASE finalizeDHCPScope
    <2>1. UNCHANGED <<reads, todo, drifts, asked>>
      BY <1>5 DEF finalizeDHCPScope
    <2> QED BY <1>0, <1>5, <2>1, DisableFacts DEF DataTypes
  <1>6. CASE DeleteDHCPScope \/ ClusterGone
    BY <1>0, <1>6 DEF DeleteDHCPScope, ClusterGone, Removed, DataTypes
  <1>7. ASSUME NEW r \in Objects, NEW s \in Specs, Ask(r, s) PROVE DataTypes'
    <2>1. s.leases \in [MACs -> IPs \cup {NoIP}]
      BY DHCPConstants DEF DHCPScopeSpec
    <2>2. asked' \in [MACs -> SUBSET IPs]
      BY <1>0, <1>7, <2>1 DEF Ask, DataTypes
    <2> QED BY <1>0, <1>7, <2>2 DEF Ask, DataTypes
  <1>8. CASE Drift
    <2>1. UNCHANGED <<reads, todo, asked>> /\ drifts' \in 0 .. MaxDrifts
      BY <1>0, <1>8, DHCPConstants DEF Drift, DataTypes
    <2>2. server' \in Scope /\ made' \subseteq Objects
      <3>1. CASE Removed
        BY <1>0, <3>1 DEF Removed
      <3>2. CASE server' = [server EXCEPT !.enabled = ~server.enabled] /\ made' = made
        <4>1. (~server.enabled) \in BOOLEAN /\ server \in Scope /\ made \subseteq Objects
          BY <1>0 DEF DataTypes
        <4> QED BY <3>2, <4>1 DEF Scope
      <3>3. CASE (\E c \in Cores : server' = [server EXCEPT !.core = c]) /\ made' = made
        BY <1>0, <3>3 DEF DataTypes, Scope
      <3>4. CASE (\E r \in Routers : server' = [server EXCEPT !.router = r]) /\ made' = made
        BY <1>0, <3>4 DEF DataTypes, Scope
      <3> QED BY <1>8, <3>1, <3>2, <3>3, <3>4 DEF Drift
    <2> QED BY <1>0, <2>1, <2>2 DEF DataTypes
  <1> QED BY <1>1, <1>2, <1>3, <1>4, <1>5, <1>6, <1>7, <1>8 DEF Next, Operator, World

\* The steps of the pass that leave the resources alone.
PassStep ==
  GetDHCPScope \/ SetDHCPScope \/ reconcileReservations \/ Toggle \/ finalizeDHCPScope \/ DeleteDHCPScope

\* They go on within the pass.
LEMMA PassAdvance ==
  ASSUME PassStep
  PROVE  Advance /\ pc' \in Steps /\ UNCHANGED <<stored, cur, loc, current, cluster, limits, drifts>>
  <1>1. CASE GetDHCPScope \/ SetDHCPScope \/ reconcileReservations \/ Toggle
    BY <1>1 DEF GetDHCPScope, SetDHCPScope, AfterCore, reconcileReservations, Toggle, Advance, Working, Finalizing, Steps
  <1>2. CASE finalizeDHCPScope \/ DeleteDHCPScope
    BY <1>2 DEF finalizeDHCPScope, DeleteDHCPScope, Advance, Finalizing, Steps
  <1> QED BY <1>1, <1>2 DEF PassStep

\* Every step keeps the types, and the counters within their bounds.
LEMMA TypeStep == ASSUME Typed, Next PROVE Typed'
  <1>0. RInv /\ Counted /\ pc \in Steps /\ SharedPc \subseteq Steps /\ DataTypes'
    BY DataStep DEF Typed, SharedPc, Steps
  <1>1. ASSUME WorkerStep(Calls) \/ UserStep \/ ClusterStep PROVE Typed'
    BY <1>0, <1>1, LifeTypes DEF Typed
  <1>2. CASE PassStep
    BY <1>0, <1>2, PassAdvance, AdvanceStep, CountedAdvance DEF Typed
  <1>3. CASE markScopeReady
    <2>1. markReady(Reserved(loc.spec.leases)) /\ pc' \in Steps /\ Reserved(loc.spec.leases) \in Applied
      BY <1>3, DHCPConstants DEF markScopeReady, markReady, EndPass, Steps, Reserved
    <2> QED BY <1>0, <2>1, MarkReadyStep, CountedReady DEF Typed
  <1>4. CASE ScopeLost
    <2>1. Fails /\ UNCHANGED <<cluster, edits, faults, outages>> /\ pc' \in Steps
      BY <1>4 DEF ScopeLost, Fails, EndPass, limits, Steps
    <2>2. faults' \in 0 .. MaxFaults
      BY <1>0, <2>1 DEF Counted
    <2> QED BY <1>0, <2>1, <2>2, FailsStep, CountedFails DEF Typed
  <1>5. ASSUME NEW r \in Objects, NEW s \in Specs, Ask(r, s) PROVE Typed'
    BY <1>1, <1>5 DEF UserStep, Ask
  <1>6. CASE ClusterGone
    <2>1. UNCHANGED <<stored, worker, edits, faults>> /\ cluster' = "gone" /\ outages' \in 0 .. MaxOutages
      BY <1>0, <1>6, ResourceConstants DEF ClusterGone, Outage, Counted
    <2>2. UNCHANGED <<pc, loc>>
      BY <2>1 DEF worker
    <2> QED BY <1>0, <2>1, <2>2, IdleStep, CountedSame DEF Typed, Counted, Young
  <1>7. CASE Drift
    <2>1. UNCHANGED <<stored, worker, loc, pc, cluster, limits>>
      BY <1>7 DEF Drift, resource, worker
    <2> QED BY <1>0, <2>1, IdleStep, CountedAdvance DEF Typed
  <1> QED BY <1>1, <1>2, <1>3, <1>4, <1>5, <1>6, <1>7 DEF Next, Operator, World, PassStep

\* Stuttering.
LEMMA TypeStutter == ASSUME Typed, UNCHANGED vars PROVE Typed'
  <1>1. UNCHANGED <<stored, worker, loc, pc, cluster, limits, server, reads, todo, drifts, made, asked>>
    BY DEF vars, resource, worker
  <1>2. RInv' /\ Counted'
    BY <1>1, IdleStep, CountedAdvance DEF Typed
  <1> QED BY <1>1, <1>2 DEF Typed, DataTypes

\* Initially there is no scope.
LEMMA TypeInit == Init => Typed
  <1>1. Init => DataTypes
    BY NoScopeType, DHCPConstants DEF Init, DataTypes
  <1> QED BY <1>1, RInvInit, CountedInit DEF Init, Typed, ResourceInit, Steps

\* Type correctness of the DHCPScope controller: the scope on the server has
\* fields and reservations that some spec named, or that somebody else wrote, and
\* every counter stays within its bound.
THEOREM DHCPScopeTypes == Spec => []TypeOK
  <1>1. Typed /\ [Next]_vars => Typed'
    BY TypeStep, TypeStutter
  <1>2. Typed => TypeOK
    BY CountedTypes DEF Typed, DataTypes, TypeOK, Steps, Finalizing
  <1> QED BY TypeInit, <1>1, <1>2, PTL DEF Spec

-----------------------------------------------------------------------------
(* The switch, for a scope that one resource names. *)

\* scopeName is the name of one resource's scope.
Sole == \A a, b \in Objects : a = b

\* The cluster is there unless there was an outage.
Up == outages = 0 => cluster = "up"

\* Outages are counted.
LEMMA UpStep == ASSUME Typed, Up, Next PROVE Up'
  <1>1. outages \in Nat
    BY ResourceConstants DEF Typed, Counted
  <1>2. \A kind : Outage(kind) => outages' # 0
    BY <1>1 DEF Outage
  <1>3. CASE WorkerStep(Calls)
    BY <1>3 DEF Up, WorkerStep, Reconcile, AddFinalizer, Unresolved, FinalizeUnresolved, DropFinalizer, PassFails, limits
  <1>4. CASE PassStep \/ markScopeReady \/ ScopeLost
    BY <1>4, PassAdvance DEF Up, markScopeReady, markReady, ScopeLost, limits
  <1>5. CASE \E r \in Objects, s \in Specs : Ask(r, s)
    BY <1>5 DEF Up, Ask, Create, Edit, Edited
  <1>6. CASE ClusterStep \/ ClusterGone
    BY <1>2, <1>6 DEF Up, ClusterStep, ClusterGone, Delete, CacheSync, Edited, Recover, limits
  <1>7. CASE Drift
    BY <1>7 DEF Up, Drift, resource, limits
  <1> QED BY <1>3, <1>4, <1>5, <1>6, <1>7 DEF Next, Operator, World, PassStep

\* Nobody takes a fault, an outage or a drift back, and without one no pass fails.
LEMMA Quiet ==
  ASSUME Typed, Up, Next, Undisturbed', drifts' = 0
  PROVE  /\ Undisturbed /\ ~Lag /\ cluster = "up" /\ drifts = 0
         /\ ~PassFails /\ ~Unresolved(Calls) /\ ~FinalizeUnresolved /\ (\A kind : ~Outage(kind)) /\ ~Drift
  <1>1. /\ ~Lag /\ faults' = 0 /\ outages' = 0 /\ drifts' = 0 /\ faults \in Nat /\ outages \in Nat /\ drifts \in Nat
    BY ResourceConstants, DHCPConstants DEF Undisturbed, Typed, Counted, DataTypes
  <1>2. ~PassFails /\ (\A kind : ~Outage(kind)) /\ ~Drift
    BY <1>1 DEF PassFails, Outage, Drift
  <1>3. ASSUME UNCHANGED <<faults, outages, drifts>>
        PROVE  Undisturbed /\ cluster = "up" /\ drifts = 0 /\ ~Unresolved(Calls) /\ ~FinalizeUnresolved
    BY <1>1, <1>3 DEF Undisturbed, Up, Unresolved, FinalizeUnresolved, resolve, ServerUp
  <1>4. CASE WorkerStep(Calls) /\ Shared
    BY <1>1, <1>2, <1>3, <1>4 DEF WorkerStep, Reconcile, AddFinalizer, Unresolved, FinalizeUnresolved, DropFinalizer, limits, Shared
  <1>5. CASE PassStep \/ markScopeReady \/ ScopeLost
    BY <1>1, <1>2, <1>3, <1>5, PassAdvance DEF markScopeReady, markReady, ScopeLost, limits
  <1>6. CASE \E r \in Objects, s \in Specs : Ask(r, s)
    BY <1>1, <1>2, <1>3, <1>6 DEF Ask, Create, Edit, Edited
  <1>7. CASE (ClusterStep /\ Shared) \/ ClusterGone
    BY <1>1, <1>2, <1>3, <1>7 DEF ClusterStep, ClusterGone, Delete, CacheSync, Edited, Recover, limits, Shared
  <1> QED BY <1>2, <1>4, <1>5, <1>6, <1>7 DEF Next, Operator, World, PassStep

\* What the status says is reserved is reserved, up to the finalization; the pass
\* knows the scope, and has reserved what the spec names when it comes to the
\* switch.
Settled == (pc \in {"idle", "finalizer"} /\ ~obj[cur].deleting) \/ pc \in {"reconcile", "core"}
CoreSet == server.core = loc.spec.core /\ loc.spec.router \in {Unset, server.router}
InPlaceInv ==
  /\ ~server.exists => server.leases = NoLeases
  /\ Settled => obj[cur].applied \subseteq Reserved(server.leases)
  /\ pc = "core" => reads = server
  /\ pc \in {"leases", "toggle", "ready"} => server.exists /\ CoreSet
  /\ pc = "leases" => Reserved(loc.spec.leases) \subseteq Reserved(server.leases) \cup todo
  /\ pc \in {"toggle", "ready"} => Reserved(loc.spec.leases) \subseteq Reserved(server.leases)
InPlace == (Undisturbed /\ drifts = 0) => InPlaceInv

\* The steps of the pass.
LEMMA InPlacePass ==
  ASSUME Typed, Prompt, ~Lag, InPlaceInv, PassStep PROVE InPlaceInv'
  <1>1. RInv /\ cur' = cur /\ UNCHANGED <<obj, loc>> /\ loc.spec.leases \in [MACs -> IPs \cup {NoIP}] /\ server \in Scope
    BY PassAdvance, SpecTypes DEF Typed, DataTypes, stored
  <1>2. Working(pc) => loc.applied = obj[cur].applied
    BY DEF Prompt
  <1>3. CASE GetDHCPScope
    BY <1>1, <1>3 DEF GetDHCPScope, InPlaceInv, Settled
  <1>4. CASE SetDHCPScope
    <2>1. /\ pc = "core" /\ todo' = Changes /\ pc' \in {"toggle", "leases"} /\ (pc' = "toggle" => Changes = {})
          /\ reads = server /\ loc.applied \subseteq Reserved(server.leases)
      BY <1>2, <1>4 DEF SetDHCPScope, AfterCore, InPlaceInv, Settled, Working, Finalizing
    <2>2. server'.exists /\ CoreSet' /\ server'.leases = server.leases
      BY <1>1, <1>4, <2>1, SetFacts DEF scopeCoreFieldsMatch, CoreSet
    <2>3. Reserved(loc.spec.leases) \subseteq loc.applied \cup Changes
      BY DEF Changes
    <2> QED BY <1>1, <2>1, <2>2, <2>3 DEF InPlaceInv, Settled
  <1>5. CASE reconcileReservations
    <2>1. PICK m \in todo :
             /\ todo' = todo \ {m} /\ m \in MACs
             /\ server'.leases[m] = NoIP <=> loc.spec.leases[m] = NoIP
             /\ \A k \in MACs \ {m} : server'.leases[k] = server.leases[k]
      BY <1>5, LeaseFacts
    <2>2. /\ pc = "leases" /\ pc' \in {"toggle", "leases"} /\ (pc' = "toggle" => todo' = {})
          /\ server'.exists /\ CoreSet'
          /\ Reserved(loc.spec.leases) \subseteq Reserved(server.leases) \cup todo
      BY <1>1, <1>5, LeaseFacts DEF reconcileReservations, InPlaceInv, CoreSet
    <2>3. Reserved(loc.spec.leases) \subseteq Reserved(server'.leases) \cup todo'
      BY <2>1, <2>2 DEF Reserved
    <2> QED BY <1>1, <2>2, <2>3 DEF InPlaceInv, Settled
  <1>6. CASE Toggle
    <2>1. pc = "toggle" /\ pc' = "ready"
      BY <1>6 DEF Toggle
    <2>2. CoreSet => CoreSet'
      BY <1>1, <1>6, ToggleFacts DEF CoreSet
    <2> QED BY <1>1, <1>6, <2>1, <2>2, ToggleFacts DEF InPlaceInv, Settled
  <1>7. CASE finalizeDHCPScope
    <2>1. pc = "finalize" /\ pc' \in {"drop", "remove"}
      BY <1>7 DEF finalizeDHCPScope
    <2> QED BY <1>1, <1>7, <2>1, DisableFacts DEF InPlaceInv, Settled
  <1>8. CASE DeleteDHCPScope
    BY <1>8, NoScopeType DEF DeleteDHCPScope, Removed, InPlaceInv, Settled
  <1> QED BY <1>3, <1>4, <1>5, <1>6, <1>7, <1>8 DEF PassStep

\* Every step.
LEMMA InPlaceStep == ASSUME Sole, Typed, Typed', Up, Prompt, InPlace, Next PROVE InPlace'
  <1>0. SUFFICES ASSUME Undisturbed', drifts' = 0 PROVE InPlaceInv'
    BY DEF InPlace
  <1>1. /\ RInv /\ cur \in Objects /\ cur' = cur /\ \A r \in Objects : r = cur
        /\ InPlaceInv /\ ~Lag /\ ~Drift /\ ~ClusterGone
        /\ ~PassFails /\ ~Unresolved(Calls) /\ ~FinalizeUnresolved
    BY <1>0, Quiet DEF Sole, InPlace, Typed, RInv, PassTypes, ClusterGone
  <1>2. Working(pc) => loc.applied = obj[cur].applied /\ cur \in Held
    BY <1>1 DEF Prompt, RInv, PassInv
  <1>3. CASE PassStep
    BY <1>1, <1>3, InPlacePass
  <1>4. CASE markScopeReady
    <2>1. /\ markReady(Reserved(loc.spec.leases)) /\ Reserved(loc.spec.leases) \in Applied /\ server' = server
          /\ pc = "ready" /\ pc' = "idle"
      BY <1>4, DHCPConstants DEF markScopeReady, markReady, EndPass, Reserved
    <2>2. fresh[cur] /\ obj[cur].exists
      BY <1>1, <1>2, <2>1 DEF Prompt, Held, Working, Finalizing
    <2>3. obj'[cur].applied = Reserved(loc.spec.leases)
      BY <1>1, <2>1, <2>2, ReadyEffect
    <2> QED BY <1>1, <2>1, <2>3 DEF InPlaceInv
  <1>5. ~ScopeLost
    BY <1>1 DEF ScopeLost, InPlaceInv
  <1>6. ASSUME server' = server, pc' \in {"idle", "finalizer", "reconcile", "finalize"},
               obj'[cur].applied = {} \/ (obj'[cur].applied = obj[cur].applied /\ (Settled' => Settled))
        PROVE  InPlaceInv'
    BY <1>1, <1>6 DEF InPlaceInv
  <1>7. ASSUME server' = server, UNCHANGED <<pc, loc>>, pc # "idle" => UNCHANGED <<reads, todo>>,
               \/ obj'[cur].applied = {}
               \/ obj'[cur].applied = obj[cur].applied /\ (obj[cur].deleting => obj'[cur].deleting)
        PROVE  InPlaceInv'
    BY <1>1, <1>7 DEF InPlaceInv, Settled, CoreSet
  <1>8. CASE WorkerStep(Calls) /\ Shared
    <2>1. server' = server
      BY <1>8 DEF Shared
    <2>2. CASE AddFinalizer \/ Reconcile(cur)
      <3>1. pc \in {"idle", "finalizer"} /\ pc' \in {"idle", "finalizer", "reconcile", "finalize"}
        BY <2>2 DEF AddFinalizer, Reconcile, EndPass
      <3>2. obj'[cur].applied = obj[cur].applied
        BY <1>1, <1>8, <3>1, WorkerEffect DEF Calm
      <3>3. CASE AddFinalizer
        <4>1. /\ pc = "finalizer" /\ ~loc.deleting /\ (current => obj[cur] = loc)
              /\ current \/ (pc' = "idle" /\ obj' = obj)
          BY <1>1, <3>3 DEF AddFinalizer, EndPass, RInv, PassInv, stored
        <4>2. Settled' => Settled
          BY <1>1, <4>1 DEF Settled
        <4> QED BY <1>6, <2>1, <3>1, <3>2, <4>2
      <3>4. CASE Reconcile(cur)
        <4>1. cached[cur] = obj[cur] /\ obj' = obj
          BY <1>1, <3>4 DEF Prompt, RInv, CacheInv, Reconcile, stored
        <4>2. Settled' => Settled
          BY <1>1, <3>4, <4>1 DEF Reconcile, Settled
        <4> QED BY <1>6, <2>1, <3>1, <3>2, <4>2
      <3> QED BY <2>2, <3>3, <3>4
    <2>3. CASE DropFinalizer /\ UNCHANGED stored
      <3>1. pc = "drop" /\ pc' = "idle" /\ obj' = obj /\ obj[cur].deleting
        BY <1>1, <2>3 DEF DropFinalizer, EndPass, Prompt, Finalizing, stored
      <3> QED BY <1>1, <1>6, <2>1, <3>1 DEF Settled
    <2>4. CASE DropFinalizer /\ Write(cur, NoObj)
      <3>1. pc' = "idle" /\ Write(cur, NoObj)
        BY <2>4 DEF DropFinalizer, EndPass
      <3>2. obj'[cur].applied = {}
        BY <1>1, <3>1, NoObjType, GoneWrite, DHCPConstants DEF NoObj, Renewed
      <3> QED BY <1>6, <2>1, <3>1, <3>2
    <2>5. DropFinalizer => UNCHANGED stored \/ Write(cur, NoObj)
      BY DEF DropFinalizer
    <2> QED BY <1>1, <1>8, <2>2, <2>3, <2>4, <2>5 DEF WorkerStep
  <1>9. ASSUME NEW r \in Objects, NEW s \in Specs, Ask(r, s) PROVE InPlaceInv'
    <2>1. UNCHANGED <<pc, loc, server, reads, todo>> /\ r = cur
      BY <1>1, <1>9 DEF Ask, Create, Edit, Touched
    <2>2. CASE Create(r, s)
      BY <1>1, <1>7, <2>1, <2>2, CreateEffect, DHCPConstants DEF Renewed
    <2>3. CASE Edit(r, s)
      BY <1>1, <1>7, <2>1, <2>3, EditEffect DEF Respecified
    <2> QED BY <1>9, <2>2, <2>3 DEF Ask
  <1>10. CASE ClusterStep /\ Shared
    <2>1. UNCHANGED <<pc, loc, server>> /\ (pc # "idle" => UNCHANGED <<reads, todo>>)
      BY <1>10, WorldStays DEF Shared
    <2>2. ASSUME NEW r \in Objects, Delete(r) PROVE InPlaceInv'
      <3>1. Calm \/ Renewed(cur)
        BY <1>1, <2>2, DeleteEffect
      <3>2. ~obj[cur].deleting
        BY <1>1, <2>2 DEF Delete
      <3> QED BY <1>1, <1>7, <2>1, <3>1, <3>2, DHCPConstants DEF Calm, Renewed
    <2>3. CASE obj' = obj
      BY <1>7, <2>1, <2>3
    <2> QED BY <1>10, <2>2, <2>3 DEF ClusterStep, CacheSync, Outage, Recover, stored
  <1> QED BY <1>1, <1>3, <1>4, <1>5, <1>8, <1>9, <1>10 DEF Next, Operator, World, PassStep

\* What the pass knows of its resource when the cache does not lag.
LEMMA PromptStep == ASSUME Typed, Prompt, Next PROVE Prompt'
  <1>0. RInv
    BY DEF Typed
  <1>1. ASSUME WorkerStep(Calls) \/ UserStep \/ ClusterStep PROVE Prompt'
    BY <1>0, <1>1, PromptShared
  <1>2. CASE PassStep
    BY <1>2, PassAdvance, PromptAdvance
  <1>3. CASE markScopeReady \/ ScopeLost
    BY <1>3, PromptFails DEF markScopeReady, ScopeLost, Fails
  <1>4. CASE \E r \in Objects, s \in Specs : Ask(r, s)
    BY <1>1, <1>4 DEF Ask, UserStep
  <1>5. CASE ClusterGone \/ Drift
    BY <1>5, PromptIdle DEF ClusterGone, Outage, Drift, resource
  <1> QED BY <1>1, <1>2, <1>3, <1>4, <1>5 DEF Next, Operator, World, PassStep

\* The operator switches a scope on in one step of the pass only.
LEMMA SwitchedByToggle ==
  ASSUME Typed, Next, server.exists, ~server.enabled, server'.enabled, drifts' = 0
  PROVE  pc = "toggle" /\ drifts = 0
  <1>1. drifts \in Nat /\ ~NoScope.enabled
    BY DHCPConstants DEF Typed, DataTypes, NoScope
  <1>2. ~Drift
    BY <1>1 DEF Drift
  <1>3. server' # server
    OBVIOUS
  <1>4. CASE SetDHCPScope
    BY <1>3, <1>4, SetFacts
  <1>5. CASE reconcileReservations
    BY <1>5, LeaseFacts
  <1>6. CASE Toggle
    BY <1>6 DEF Toggle
  <1>7. CASE finalizeDHCPScope
    BY <1>7, DisableFacts
  <1>8. CASE DeleteDHCPScope \/ ClusterGone
    BY <1>1, <1>8 DEF DeleteDHCPScope, ClusterGone, Removed
  <1>9. CASE Shared \/ GetDHCPScope \/ markScopeReady \/ ScopeLost \/ \E r \in Objects, s \in Specs : Ask(r, s)
    BY <1>3, <1>9 DEF Shared, GetDHCPScope, markScopeReady, ScopeLost, Ask
  <1> QED BY <1>2, <1>4, <1>5, <1>6, <1>7, <1>8, <1>9 DEF Next, Operator, World

SwitchInv == Typed /\ Up /\ Prompt /\ InPlace

\* It is inductive.
LEMMA SwitchStep == ASSUME Sole, SwitchInv, [Next]_vars PROVE SwitchInv'
  <1>1. CASE Next
    <2>1. Typed'
      BY <1>1, TypeStep DEF SwitchInv
    <2> QED BY <1>1, <2>1, UpStep, PromptStep, InPlaceStep DEF SwitchInv
  <1>2. CASE UNCHANGED vars
    <2>1. UNCHANGED <<stored, worker, obj, pc, cur, loc, cluster, faults, outages, server, reads, todo, drifts>>
      BY <1>2 DEF vars, resource, stored, worker, limits
    <2>2. Typed' /\ Prompt' /\ Up'
      BY <1>2, <2>1, TypeStutter, PromptIdle DEF SwitchInv, Up
    <2>3. InPlace'
      BY <2>1 DEF SwitchInv, InPlace, InPlaceInv, Settled, CoreSet, Undisturbed
    <2> QED BY <2>2, <2>3 DEF SwitchInv
  <1> QED BY <1>1, <1>2

\* For any fields, hardware and IP addresses of a scope that one resource names:
\* while no pass is cut short and nobody else changes the scope, the operator
\* switches it on only with the spec's core fields and a reservation for each of
\* its hardware addresses in place (reconcileDHCPScope's order of calls).
THEOREM SwitchedOnLast == ASSUME Sole PROVE Spec => EnabledLast
  <1>1. Init => SwitchInv
    <2> SUFFICES ASSUME Init PROVE SwitchInv
      OBVIOUS
    <2>1. Typed /\ Prompt /\ cur \in Objects
      BY TypeInit, PromptInit DEF Init, Typed, RInv, PassTypes
    <2>2. pc = "idle" /\ cluster = "up" /\ server = NoScope /\ obj[cur].applied = {}
      BY <2>1, DHCPConstants DEF Init, ResourceInit, NoObj
    <2> QED BY <2>1, <2>2, NoScopeType DEF SwitchInv, Up, InPlace, InPlaceInv
  <1>2. SwitchInv /\ [Next]_vars =>
          [(server.exists /\ ~server.enabled /\ server'.enabled /\ Undisturbed /\ drifts' = 0)
             => /\ server.core = loc.spec.core /\ loc.spec.router \in {Unset, server.router}
                /\ Reserved(loc.spec.leases) \subseteq Reserved(server.leases)]_vars
    <2> SUFFICES ASSUME SwitchInv, Next, server.exists, ~server.enabled, server'.enabled, Undisturbed, drifts' = 0
                 PROVE  CoreSet /\ Reserved(loc.spec.leases) \subseteq Reserved(server.leases)
      BY DEF CoreSet
    <2>1. pc = "toggle" /\ drifts = 0
      BY SwitchedByToggle DEF SwitchInv
    <2> QED BY <2>1 DEF SwitchInv, InPlace, InPlaceInv
  <1>3. SwitchInv /\ [Next]_vars => SwitchInv'
    BY SwitchStep
  <1> QED BY <1>1, <1>2, <1>3, PTL DEF Spec, EnabledLast
=============================================================================
