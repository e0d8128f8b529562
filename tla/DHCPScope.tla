------------------------------ MODULE DHCPScope ------------------------------
(***************************************************************************)
(* The DHCPScope controller: a scope of the server, its core fields, its   *)
(* reservations and whether it is enabled.  core stands for the fields a   *)
(* spec must have (range, mask), router for those it may leave out (router,*)
(* DNS servers), extra for those that it may leave out and the controller  *)
(* cannot compare with get-scope's answer (lease time, domain name).       *)
(* scopeName is immutable, and one name is modelled.  made and asked are   *)
(* history variables: the resources that set the scope up on the server,   *)
(* and the IP addresses specs have asked for, by hardware address.         *)
(***************************************************************************)
EXTENDS Resource

CONSTANTS
  Cores, Routers, Extras, MACs, IPs,
  Unset,               \* a field that a spec leaves out
  NoIP,                \* no reservation for a hardware address
  MaxDrifts            \* bound of changes made behind the operator's back

DHCPScopeSpec == [core : Cores, router : Routers \cup {Unset}, extra : Extras \cup {Unset}, enabled : BOOLEAN,
                  leases : [MACs -> IPs \cup {NoIP}], policy : {"Delete", "Orphan"}]

ASSUME DHCPConstants ==
  /\ Unset \notin Routers \cup Extras /\ Routers # {} /\ Extras # {} /\ NoIP \notin IPs /\ Cores # {}
  /\ Specs \subseteq DHCPScopeSpec /\ Applied = SUBSET MACs /\ NotApplied = {}
  /\ MaxDrifts \in Nat

VARIABLES
  server,   \* the scope on the server
  reads,    \* the scope the pass got
  todo,     \* the hardware addresses the pass still has to add or remove
  drifts,
  made, asked

vars == <<resource, server, reads, todo, drifts, made, asked>>

NoLeases == [m \in MACs |-> NoIP]
NoScope == [exists |-> FALSE, enabled |-> FALSE, core |-> CHOOSE c \in Cores : TRUE,
            router |-> CHOOSE r \in Routers : TRUE, extra |-> CHOOSE e \in Extras : TRUE, leases |-> NoLeases]
Reserved(leases) == {m \in MACs : leases[m] # NoIP}

Init ==
  /\ ResourceInit
  /\ server = NoScope /\ reads = NoScope /\ todo = {} /\ drifts = 0
  /\ made = {} /\ asked = [m \in MACs |-> {}]

-----------------------------------------------------------------------------
(* reconcileDHCPScope. *)

\* The scope is there, as the spec wants it as far as one can tell: a spec with
\* extra fields is never taken to match.
scopeCoreFieldsMatch ==
  /\ reads.exists /\ reads.core = loc.spec.core
  /\ loc.spec.router \in {Unset, reads.router} /\ loc.spec.extra = Unset

\* What is to be added, then removed, by hardware address alone.
Changes == (Reserved(loc.spec.leases) \ loc.applied) \cup (loc.applied \ Reserved(loc.spec.leases))

TurnOn == loc.spec.enabled /\ ~(reads.exists /\ reads.enabled)
TurnOff == ~loc.spec.enabled /\ (~reads.exists \/ reads.enabled)

Calls == \/ pc = "core" /\ ~scopeCoreFieldsMatch
         \/ pc = "leases"
         \/ pc = "toggle" /\ (TurnOn \/ TurnOff)

GetDHCPScope ==
  /\ pc = "reconcile" /\ resolve = "client"
  /\ pc' = "core" /\ reads' = server
  /\ UNCHANGED <<stored, cur, loc, current, cluster, limits, server, todo, drifts, asked, made>>

\* The step after the core fields, and the last one.
AfterCore == todo' = Changes /\ pc' = IF Changes = {} THEN "toggle" ELSE "leases"

\* Mutant: fields the spec does not set are sent as well.
SetDHCPScopeAll ==
  /\ pc = "core" /\ (Calls => ServerUp)
  /\ server' = [server EXCEPT !.exists = TRUE, !.core = loc.spec.core, !.extra = loc.spec.extra]
  /\ made' = made \cup {cur}
  /\ AfterCore
  /\ UNCHANGED <<stored, cur, loc, current, cluster, limits, reads, drifts, asked>>

\* Mutant: a scope that is there is left as it is.
SetDHCPScopeOnce ==
  /\ pc = "core" /\ ServerUp
  /\ IF reads.exists THEN UNCHANGED <<server, made>>
     ELSE /\ server' = [NoScope EXCEPT !.exists = TRUE, !.core = loc.spec.core]
          /\ made' = made \cup {cur}
  /\ AfterCore
  /\ UNCHANGED <<stored, cur, loc, current, cluster, limits, reads, drifts, asked>>

\* A field the spec leaves out is not sent, and stays as it is.
Sent(field, old) == IF field = Unset THEN old ELSE field

\* Set creates an absent scope, enabled or not as the server pleases.
SetDHCPScope ==
  /\ pc = "core" /\ (Calls => ServerUp)
  /\ IF scopeCoreFieldsMatch THEN UNCHANGED <<server, made>>
     ELSE /\ \E e \in IF server.exists THEN {server.enabled} ELSE BOOLEAN :
                server' = [exists |-> TRUE, enabled |-> e, core |-> loc.spec.core,
                           router |-> Sent(loc.spec.router, server.router),
                           extra |-> Sent(loc.spec.extra, server.extra), leases |-> server.leases]
          /\ made' = made \cup {cur}
  /\ AfterCore
  /\ UNCHANGED <<stored, cur, loc, current, cluster, limits, reads, drifts, asked>>

\* Mutant: reservations are removed only.
reconcileReservationsRemoveOnly ==
  /\ pc = "leases" /\ ServerUp /\ server.exists
  /\ \E m \in todo :
        /\ server' = [server EXCEPT !.leases[m] = IF m \in Reserved(loc.spec.leases) THEN @ ELSE NoIP]
        /\ todo' = todo \ {m}
  /\ pc' = IF todo' = {} THEN "toggle" ELSE "leases"
  /\ UNCHANGED <<stored, cur, loc, current, cluster, limits, reads, drifts, asked, made>>

\* One call of reconcileReservations' loops: additions come first.  A hardware
\* address that is reserved already keeps its IP address or takes the new one, as
\* the server pleases.
reconcileReservations ==
  /\ pc = "leases" /\ ServerUp /\ server.exists
  /\ \E m \in todo :
        /\ m \in Reserved(loc.spec.leases) \/ todo \cap Reserved(loc.spec.leases) = {}
        /\ \E ip \in {loc.spec.leases[m], server.leases[m]} :
              /\ NoIP \in {loc.spec.leases[m], server.leases[m]} => ip = loc.spec.leases[m]
              /\ server' = [server EXCEPT !.leases[m] = ip]
        /\ todo' = todo \ {m}
  /\ pc' = IF todo' = {} THEN "toggle" ELSE "leases"
  /\ UNCHANGED <<stored, cur, loc, current, cluster, limits, reads, drifts, asked, made>>

\* The scope is switched by what the pass read before it touched anything.
Toggle ==
  /\ pc = "toggle" /\ (Calls => ServerUp /\ server.exists)
  /\ server' = IF Calls THEN [server EXCEPT !.enabled = loc.spec.enabled] ELSE server
  /\ pc' = "ready"
  /\ UNCHANGED <<stored, cur, loc, current, cluster, limits, reads, todo, drifts, asked, made>>

\* The scope went away in the middle of the pass: the call is refused.
ScopeLost ==
  /\ pc \in {"leases", "toggle"} /\ Calls /\ ServerUp /\ ~server.exists
  /\ markDegraded /\ EndPass /\ reads' = NoScope /\ todo' = {}
  /\ UNCHANGED <<cluster, limits, server, drifts, asked, made>>

markScopeReady ==
  /\ markReady(Reserved(loc.spec.leases))
  /\ reads' = NoScope /\ UNCHANGED <<server, todo, drifts, asked, made>>

\* Mutant: the scope is disabled and left there.
finalizeDHCPScopeDisables ==
  /\ pc = "finalize" /\ resolve = "client"
  /\ pc' = "drop" /\ server' = [server EXCEPT !.enabled = FALSE]
  /\ UNCHANGED <<stored, cur, loc, current, cluster, limits, reads, todo, drifts, asked, made>>

\* An orphaned scope stays; any other is disabled, then deleted; one that is not
\* there is fine.
finalizeDHCPScope ==
  /\ pc = "finalize"
  /\ \/ /\ loc.spec.policy = "Orphan" /\ pc' = "drop"
        /\ made' = made \ {cur} /\ UNCHANGED server
     \/ /\ loc.spec.policy = "Delete" /\ resolve = "client" /\ pc' = "remove"
        /\ server' = [server EXCEPT !.enabled = FALSE] /\ UNCHANGED made
  /\ UNCHANGED <<stored, cur, loc, current, cluster, limits, reads, todo, drifts, asked>>

Removed == server' = NoScope /\ made' = {}

DeleteDHCPScope ==
  /\ pc = "remove" /\ ServerUp
  /\ Removed /\ pc' = "drop"
  /\ UNCHANGED <<stored, cur, loc, current, cluster, limits, reads, todo, drifts, asked>>

\* A step of Resource: the pass's own state is forgotten when it ends.
Shared ==
  /\ IF pc' = "idle" THEN reads' = NoScope /\ todo' = {} ELSE UNCHANGED <<reads, todo>>
  /\ UNCHANGED <<server, drifts, asked, made>>

Operator ==
  \/ WorkerStep(Calls) /\ Shared
  \/ GetDHCPScope \/ SetDHCPScope \/ reconcileReservations \/ Toggle \/ ScopeLost
  \/ markScopeReady \/ finalizeDHCPScope \/ DeleteDHCPScope

-----------------------------------------------------------------------------
(* Users, and whoever else writes to the server (external). *)

Drift ==
  /\ drifts < MaxDrifts /\ drifts' = drifts + 1 /\ ServerUp
  /\ server.exists
  /\ \/ Removed
     \/ server' = [server EXCEPT !.enabled = ~@] /\ UNCHANGED made
     \/ /\ UNCHANGED made
        /\ \/ \E c \in Cores : server' = [server EXCEPT !.core = c]
           \/ \E r \in Routers : server' = [server EXCEPT !.router = r]
  /\ UNCHANGED <<resource, reads, todo, asked>>

ClusterGone ==
  /\ Outage("gone")
  /\ Removed /\ UNCHANGED <<reads, todo, drifts, asked>>

\* A scope is created or edited, with what reservations.
Ask(r, s) ==
  /\ Create(r, s) \/ Edit(r, s)
  /\ asked' = [m \in MACs |-> asked[m] \cup ({s.leases[m]} \ {NoIP})]
  /\ UNCHANGED <<server, reads, todo, drifts, made>>

World ==
  \/ \E r \in Objects, s \in Specs : Ask(r, s)
  \/ ClusterStep /\ Shared
  \/ ClusterGone \/ Drift

Next == Operator \/ World

\* As for every controller: requeues, a pass that goes on, watches, a server
\* that comes back.
Fairness ==
  /\ \A r \in Objects : SF_vars(Reconcile(r) /\ Shared) /\ WF_vars(CacheSync(r) /\ Shared)
  /\ WF_vars(Operator /\ pc # "idle" /\ faults' = faults) /\ WF_vars(Recover /\ Shared)

Spec == Init /\ [][Next]_vars /\ Fairness

-----------------------------------------------------------------------------
(* Properties. *)

Scope == [exists : BOOLEAN, enabled : BOOLEAN, core : Cores, router : Routers, extra : Extras,
          leases : [MACs -> IPs \cup {NoIP}]]

\* Type correctness of the whole state.
TypeOK ==
  /\ ResourceTypeOK
  /\ pc \in {"idle", "finalizer", "reconcile", "core", "leases", "toggle", "ready"} \cup Finalizing
  /\ server \in Scope /\ reads \in Scope /\ todo \subseteq MACs
  /\ drifts \in 0 .. MaxDrifts /\ made \subseteq Objects
  /\ asked \in [MACs -> SUBSET IPs]

C == INSTANCE Claim WITH held <- Held, owns <- made

\* The controller keeps the finalizer's promise: a scope is set up only by a
\* resource that is held at that moment, and a resource is let go only when its
\* scope is gone or is to stay, whatever fails in between (reconcileDHCPScope
\* adds the finalizer before it sets the scope, finalizeDHCPScope removes it last).
Claimed == C!Spec

\* The operator switches a scope on only with every reservation of the spec in
\* place, so that no reserved address is leased in between ("enabling and
\* disabling are separate calls issued after the scope's core fields and
\* reservations are in place"), as long as no pass was cut short and nobody else
\* changed the scope.
EnabledLast ==
  [][(server.exists /\ ~server.enabled /\ server'.enabled /\ Undisturbed /\ drifts' = 0)
       => /\ server.core = loc.spec.core /\ loc.spec.router \in {Unset, server.router}
          /\ Reserved(loc.spec.leases) \subseteq Reserved(server.leases)]_vars

\* Once edits, faults and drift are over, a scope is on the server, as far as its
\* fields and its switch go, and reported Ready (the requeues).
Converges ==
  <>[](\A r \in Objects : LET o == obj[r] IN
         /\ ~o.deleting
         /\ (o.exists /\ cluster = "up") =>
              /\ server.exists /\ server.core = o.spec.core /\ server.enabled = o.spec.enabled
              /\ o.spec.router \in {Unset, server.router} /\ o.spec.extra \in {Unset, server.extra}
              /\ o.ready = "True" /\ o.observed = o.gen)

\* As long as no pass was cut short and nobody else changed the scope, the server
\* ends up with reservations for the hardware addresses of the spec, and with the
\* spec's IP address for one that was never asked for with two.  The code compares
\* by hardware address alone (reconcileReservations), so an edited IP address is
\* not sent and is not claimed to be.
LeasesConverge ==
  <>[]((Undisturbed /\ drifts = 0) => \A r \in Objects : (obj[r].exists /\ cluster = "up") =>
         LET wanted == obj[r].spec.leases IN
         /\ Reserved(server.leases) = Reserved(wanted)
         /\ \A m \in MACs : Cardinality(asked[m]) <= 1 => server.leases[m] = wanted[m])
=============================================================================
