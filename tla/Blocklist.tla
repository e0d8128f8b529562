------------------------------ MODULE Blocklist ------------------------------
(***************************************************************************)
(* The Blocklist controller: block list URLs, blocking settings and manual *)
(* overrides of one server.  A URL list is a number, 0 for the empty one;  *)
(* blocking stands for the optional settings (enabled, blockingType,       *)
(* updateIntervalHours); an override is a <<kind, domain>> pair.  wrote and *)
(* reverted are history variables: the overrides on the server that each   *)
(* Blocklist added, and whether a spec ever went back to an earlier URL    *)
(* list or dropped an override.                                            *)
(***************************************************************************)
EXTENDS Resource

CONSTANTS
  URLs,        \* the non-empty URL lists
  Settings,    \* values of the optional settings,
  Unset,       \* and a spec that leaves them alone
  Overrides

BlocklistSpec == [urls : URLs \cup {0}, blocking : Settings \cup {Unset},
                  overrides : SUBSET Overrides, policy : {"Delete", "Orphan"}]

ASSUME BlocklistConstants ==
  /\ URLs \subseteq Nat \ {0} /\ Unset \notin Settings /\ Settings # {}
  /\ \A o \in Overrides : o[1] \in {"allowed", "blocked"}
  /\ Specs \subseteq BlocklistSpec
  /\ Applied = [urls : URLs \cup {0}, overrides : SUBSET Overrides]
  /\ NotApplied = [urls |-> 0, overrides |-> {}]

VARIABLES
  server,   \* the settings, the list that is downloaded, the overrides
  reads,    \* the settings the pass got
  todo,     \* the overrides the pass still has to add or to remove
  wrote, reverted

vars == <<resource, server, reads, todo, wrote, reverted>>

NoReads == [urls |-> 0, blocking |-> Unset]
NoServer == [urls |-> 0, blocking |-> CHOOSE b \in Settings : TRUE, loaded |-> 0, overrides |-> {}]

Init ==
  /\ ResourceInit
  /\ server = NoServer /\ reads = NoReads /\ todo = {} /\ wrote = [r \in Objects |-> {}] /\ reverted = FALSE

-----------------------------------------------------------------------------
(* reconcileBlocklist. *)

\* Only what the spec sets is compared; the URL list always is.
blocklistSettingsInSync ==
  reads.urls = loc.spec.urls /\ loc.spec.blocking \in {Unset, reads.blocking}

\* Mutant: a refresh is owed when the server's list is not the desired one.
urlsNeedRefreshByServer == loc.spec.urls # reads.urls

\* A refresh is owed against what was last applied, not what the server has.
urlsNeedRefresh == loc.spec.urls # loc.applied.urls

\* The overrides to add and those to remove.
Changes == (loc.spec.overrides \ loc.applied.overrides) \cup (loc.applied.overrides \ loc.spec.overrides)

Calls ==
  \/ pc = "settings" /\ ~blocklistSettingsInSync
  \/ pc = "refresh" /\ urlsNeedRefresh
  \/ pc = "domains"

GetDNSSettings ==
  /\ pc = "reconcile" /\ resolve = "client"
  /\ pc' = "settings" /\ reads' = [urls |-> server.urls, blocking |-> server.blocking]
  /\ UNCHANGED <<stored, cur, loc, current, cluster, limits, server, todo, wrote, reverted>>

\* Mutant: a setting the spec leaves alone is sent as well.
SetDNSSettingsAll ==
  /\ pc = "settings" /\ (Calls => ServerUp)
  /\ server' = [server EXCEPT !.urls = loc.spec.urls, !.blocking = loc.spec.blocking]
  /\ pc' = "refresh"
  /\ UNCHANGED <<stored, cur, loc, current, cluster, limits, reads, todo, wrote, reverted>>

SetDNSSettings ==
  /\ pc = "settings" /\ (Calls => ServerUp)
  /\ server' = IF blocklistSettingsInSync THEN server
               ELSE [server EXCEPT !.urls = loc.spec.urls,
                                   !.blocking = IF loc.spec.blocking = Unset THEN @ ELSE loc.spec.blocking]
  /\ pc' = "refresh"
  /\ UNCHANGED <<stored, cur, loc, current, cluster, limits, reads, todo, wrote, reverted>>

ForceUpdateBlockLists ==
  /\ pc = "refresh" /\ (Calls => ServerUp)
  /\ server' = IF urlsNeedRefresh THEN [server EXCEPT !.loaded = server.urls] ELSE server
  /\ todo' = Changes /\ pc' = IF Changes = {} THEN "ready" ELSE "domains"
  /\ UNCHANGED <<stored, cur, loc, current, cluster, limits, reads, wrote, reverted>>

\* Allowed domains before blocked ones, and additions before removals.
NextUp(outstanding) ==
  LET kind == IF \E o \in outstanding : o[1] = "allowed" THEN "allowed" ELSE "blocked"
      mine == {o \in outstanding : o[1] = kind}
      adds == mine \cap loc.spec.overrides
  IN  IF adds # {} THEN adds ELSE mine

Remove(o) ==
  /\ server' = [server EXCEPT !.overrides = @ \ {o}]
  /\ wrote' = [r \in Objects |-> wrote[r] \ {o}]

\* Mutant: what was dropped from the spec is not removed.
reconcileDomainSetAddOnly ==
  /\ pc = "domains" /\ ServerUp
  /\ \E o \in NextUp(todo) :
        /\ server' = [server EXCEPT !.overrides = @ \cup (loc.spec.overrides \cap {o})]
        /\ wrote' = [wrote EXCEPT ![cur] = @ \cup (loc.spec.overrides \cap {o})]
        /\ todo' = todo \ {o}
  /\ pc' = IF todo' = {} THEN "ready" ELSE "domains"
  /\ UNCHANGED <<stored, cur, loc, current, cluster, limits, reads, reverted>>

\* Mutant: the loop ends after its first call.
reconcileDomainSetStops ==
  /\ pc = "domains" /\ ServerUp
  /\ \E o \in NextUp(todo) :
        \/ /\ o \in loc.spec.overrides
           /\ server' = [server EXCEPT !.overrides = @ \cup {o}]
           /\ wrote' = [wrote EXCEPT ![cur] = @ \cup {o}]
        \/ o \notin loc.spec.overrides /\ Remove(o)
  /\ todo' = {} /\ pc' = "ready"
  /\ UNCHANGED <<stored, cur, loc, current, cluster, limits, reads, reverted>>

\* One call of reconcileDomainSet's loops.
reconcileDomainSet ==
  /\ pc = "domains" /\ ServerUp
  /\ \E o \in NextUp(todo) :
        /\ \/ /\ o \in loc.spec.overrides
              /\ server' = [server EXCEPT !.overrides = @ \cup {o}]
              /\ wrote' = [wrote EXCEPT ![cur] = @ \cup {o}]
           \/ o \notin loc.spec.overrides /\ Remove(o)
        /\ todo' = todo \ {o}
  /\ pc' = IF todo' = {} THEN "ready" ELSE "domains"
  /\ UNCHANGED <<stored, cur, loc, current, cluster, limits, reads, reverted>>

markBlocklistReady ==
  /\ markReady([urls |-> loc.spec.urls, overrides |-> loc.spec.overrides])
  /\ reads' = NoReads /\ UNCHANGED <<server, todo, wrote, reverted>>

\* An orphaned configuration stays; otherwise the URL list is emptied first.
finalizeBlocklist ==
  /\ pc = "finalize"
  /\ \/ /\ loc.spec.policy = "Orphan" /\ pc' = "drop"
        /\ wrote' = [wrote EXCEPT ![cur] = {}] /\ UNCHANGED server
     \/ /\ loc.spec.policy = "Delete" /\ resolve = "client" /\ pc' = "unload"
        /\ server' = [server EXCEPT !.urls = 0] /\ UNCHANGED wrote
  /\ UNCHANGED <<stored, cur, loc, current, cluster, limits, reads, todo, reverted>>

finalizeRefresh ==
  /\ pc = "unload" /\ ServerUp
  /\ server' = [server EXCEPT !.loaded = server.urls]
  /\ todo' = loc.applied.overrides /\ pc' = IF todo' = {} THEN "drop" ELSE "clear"
  /\ UNCHANGED <<stored, cur, loc, current, cluster, limits, reads, wrote, reverted>>

finalizeDomains ==
  /\ pc = "clear" /\ ServerUp
  /\ \E o \in todo :
        /\ o[1] = "blocked" => \A p \in todo : p[1] = "blocked"
        /\ Remove(o) /\ todo' = todo \ {o}
  /\ pc' = IF todo' = {} THEN "drop" ELSE "clear"
  /\ UNCHANGED <<stored, cur, loc, current, cluster, limits, reads, reverted>>

\* A step of Resource: the pass's own state is forgotten when it ends.
Shared ==
  /\ IF pc' = "idle" THEN reads' = NoReads /\ todo' = {} ELSE UNCHANGED <<reads, todo>>
  /\ UNCHANGED <<server, wrote, reverted>>

Operator ==
  \/ WorkerStep(Calls) /\ Shared
  \/ GetDNSSettings \/ SetDNSSettings \/ ForceUpdateBlockLists \/ reconcileDomainSet
  \/ markBlocklistReady \/ finalizeBlocklist \/ finalizeRefresh \/ finalizeDomains

-----------------------------------------------------------------------------
(* Users and the cluster (external). *)

EditBlocklist(r, s) ==
  /\ Edit(r, s)
  /\ reverted' = (reverted \/ s.urls < obj[r].spec.urls \/ ~(obj[r].spec.overrides \subseteq s.overrides))
  /\ UNCHANGED <<server, reads, todo, wrote>>

ClusterGone ==
  /\ Outage("gone")
  /\ server' = NoServer /\ wrote' = [r \in Objects |-> {}] /\ UNCHANGED <<reads, todo, reverted>>

World ==
  \/ \E r \in Objects, s \in Specs : (Create(r, s) /\ Shared) \/ EditBlocklist(r, s)
  \/ ClusterStep /\ Shared
  \/ ClusterGone

Next == Operator \/ World

\* As for every controller: requeues, a pass that goes on, watches, a server
\* that comes back.
Fairness ==
  /\ \A r \in Objects : SF_vars(Reconcile(r) /\ Shared) /\ WF_vars(CacheSync(r) /\ Shared)
  /\ WF_vars(Operator /\ pc # "idle" /\ faults' = faults) /\ WF_vars(Recover /\ Shared)

Spec == Init /\ [][Next]_vars /\ Fairness

-----------------------------------------------------------------------------
(* Properties. *)

\* Type correctness of the whole state.
TypeOK ==
  /\ ResourceTypeOK
  /\ pc \in {"idle", "finalizer", "reconcile", "settings", "refresh", "domains", "ready"} \cup Finalizing
  /\ server \in [urls : URLs \cup {0}, blocking : Settings, loaded : URLs \cup {0}, overrides : SUBSET Overrides]
  /\ reads \in [urls : URLs \cup {0}, blocking : Settings \cup {Unset}]
  /\ todo \subseteq Overrides /\ wrote \in [Objects -> SUBSET Overrides] /\ reverted \in BOOLEAN

\* An override a Blocklist added is still named by its spec or its status (or by
\* the running pass), so that it is removed when it is dropped or the resource
\* deleted, and a Blocklist that is gone left none (reconcileDomainSet, markReady
\* and finalizeBlocklist on status.applied*Domains), as long as no pass has been
\* cut short before it wrote its status.
NoOverrideForgotten ==
  Undisturbed => \A r \in Objects : \A o \in wrote[r] :
     /\ obj[r].exists
     /\ \/ o \in obj[r].spec.overrides \cup obj[r].applied.overrides
        \/ cur = r /\ pc # "idle" /\ o \in loc.spec.overrides

\* A refresh that did not follow a written URL list is never lost: while a list on
\* the server is the Blocklist's and not the downloaded one, status.applied
\* still differs and the next pass refreshes, through failed passes too unless
\* the spec went back to an earlier list (urlsNeedRefresh).
RefreshStaysOwed ==
  (reverted => Undisturbed) => \A r \in Objects :
     (/\ pc = "idle" /\ obj[r].exists /\ ~obj[r].deleting
      /\ obj[r].spec.urls = server.urls /\ server.loaded # server.urls /\ server.urls # 0)
        => obj[r].applied.urls # obj[r].spec.urls

\* Once edits and faults are over, a Blocklist's configuration is on the server,
\* downloaded and reported Ready, and a deleted one is gone (the requeues), unless
\* a pass failed and the spec then went back on what it had applied.
Converges ==
  <>[]((reverted => Undisturbed) => \A r \in Objects : LET o == obj[r] IN
         /\ ~o.deleting
         /\ (o.exists /\ cluster = "up") =>
              /\ server.urls = o.spec.urls /\ (server.urls # 0 => server.loaded = server.urls)
              /\ o.spec.blocking \in {Unset, server.blocking}
              /\ o.spec.overrides \subseteq server.overrides
              /\ o.ready = "True" /\ o.observed = o.gen)
=============================================================================
