-------------------------------- MODULE Zone --------------------------------
(***************************************************************************)
(* The Zone controller: one zone name of the server, created when absent   *)
(* and corrected where the server reports its options.  What is set at     *)
(* creation only (forwarder, proxy, primary addresses) is left out.  A     *)
(* zone joins the cluster's catalog when the cluster has several replicas; *)
(* the server knows that catalog once the cluster is initialized.  made is *)
(* a history variable: the resources that created the zone on the server.  *)
(***************************************************************************)
EXTENDS Resource, Errors

CONSTANTS
  Types, Joinable,     \* zone types, and those that can join a catalog
  Catalogs,            \* catalogs besides the cluster's; NoCatalog is ""
  Validations,
  Unset, NoCatalog, ClusterCatalog,
  Names,               \* zone names, each the set of Kinds that occur in it
  MaxDrifts            \* bound of changes made behind the operator's back

Joined == Catalogs \cup {NoCatalog, ClusterCatalog}

ZoneSpec == [type : Types, catalog : Catalogs \cup {NoCatalog, Unset},
             validation : Validations \cup {Unset}, policy : {"Delete", "Orphan"}]

ASSUME ZoneConstants ==
  /\ Joinable \subseteq Types /\ Types # {} /\ Validations # {}
  /\ Unset \notin Joined \cup Validations /\ Names \subseteq SUBSET Kinds
  /\ Specs \subseteq ZoneSpec /\ Applied = {NotApplied}
  /\ MaxDrifts \in Nat

VARIABLES
  server,            \* the zone on the server
  reads, catalog,    \* the options the pass got, and the catalog it wants
  replicas, inited,  \* the cluster's spec.replicas, and its initialization
  zone,              \* the zone's name
  drifts,
  made

local == <<reads, catalog>>
scale == <<replicas, inited, zone>>
vars == <<resource, server, local, scale, drifts, made>>

NoZone == [exists |-> FALSE, type |-> CHOOSE t \in Types : TRUE, catalog |-> NoCatalog,
           validation |-> CHOOSE v \in Validations : TRUE]

Init ==
  /\ ResourceInit
  /\ server = NoZone /\ reads = NoZone /\ catalog = Unset
  /\ replicas = 1 /\ inited = FALSE /\ zone \in Names /\ drifts = 0 /\ made = {}

-----------------------------------------------------------------------------
(* reconcileZone. *)

\* Mutant: a zone joins the catalog whatever its spec says.
desiredCatalogAlways(s) == IF replicas > 1 THEN ClusterCatalog ELSE s.catalog

\* An explicit catalog wins; otherwise membership is managed for zones that can
\* join, in a cluster of several replicas.
desiredCatalog(s) ==
  IF s.catalog # Unset THEN s.catalog
  ELSE IF s.type \in Joinable /\ replicas > 1 THEN ClusterCatalog ELSE Unset

\* The server joins a zone to a catalog it has.
Refuses(c) == c = ClusterCatalog /\ ~inited

NotFound == classifyStatus("error", {"no such zone"} \cup zone)
AlreadyExists == classifyStatus("error", {"already exists"} \cup zone)

\* The options to set: those the spec gives and the pass saw to differ.
CatalogDiffers == catalog \notin {Unset, reads.catalog}
ValidationDiffers == loc.spec.validation \notin {Unset, reads.validation}

Calls == pc = "create" \/ (pc = "options" /\ (CatalogDiffers \/ ValidationDiffers))

\* resolve, desiredCatalog and GetZoneOptions.
GetZoneOptions ==
  /\ pc = "reconcile" /\ resolve = "client"
  /\ server.exists \/ NotFound = "ErrZoneNotFound"
  /\ pc' = IF server.exists THEN "options" ELSE "create"
  /\ reads' = server /\ catalog' = desiredCatalog(loc.spec)
  /\ UNCHANGED <<stored, cur, loc, current, cluster, limits, server, scale, drifts, made>>

\* A zone that somebody else created in the meantime is taken as it is.
CreateZone ==
  /\ pc = "create" /\ ServerUp
  /\ \/ /\ ~server.exists /\ ~Refuses(catalog)
        /\ server' = [exists |-> TRUE, type |-> loc.spec.type,
                      catalog |-> IF catalog = Unset THEN NoCatalog ELSE catalog,
                      validation |-> IF loc.spec.validation = Unset THEN NoZone.validation ELSE loc.spec.validation]
        /\ made' = made \cup {cur}
     \/ server.exists /\ AlreadyExists = "ErrZoneAlreadyExists" /\ UNCHANGED <<server, made>>
  /\ pc' = "ready"
  /\ UNCHANGED <<stored, cur, loc, current, cluster, limits, local, scale, drifts>>

\* Only what differs is set; a differing type is only logged.
reconcileOptions ==
  /\ pc = "options" /\ (Calls => ServerUp /\ server.exists) /\ ~(CatalogDiffers /\ Refuses(catalog))
  /\ server' = [server EXCEPT !.catalog = IF CatalogDiffers THEN catalog ELSE @,
                              !.validation = IF ValidationDiffers THEN loc.spec.validation ELSE @]
  /\ pc' = "ready"
  /\ UNCHANGED <<stored, cur, loc, current, cluster, limits, local, scale, drifts, made>>

\* The server's refusals, and an error the client does not know for what it is.
Refused ==
  /\ \/ pc = "reconcile" /\ resolve = "client" /\ ~server.exists /\ NotFound # "ErrZoneNotFound"
     \/ /\ pc = "create" /\ ServerUp
        /\ IF server.exists THEN AlreadyExists # "ErrZoneAlreadyExists" ELSE Refuses(catalog)
     \/ pc = "options" /\ Calls /\ ServerUp /\ (~server.exists \/ (CatalogDiffers /\ Refuses(catalog)))
  /\ markDegraded /\ EndPass /\ reads' = NoZone /\ catalog' = Unset
  /\ UNCHANGED <<cluster, limits, server, scale, drifts, made>>

markZoneReady ==
  /\ markReady(NotApplied)
  /\ reads' = NoZone /\ catalog' = Unset /\ UNCHANGED <<server, scale, drifts, made>>

\* Mutant: the finalizer goes first, the zone afterwards.
finalizeZoneLate ==
  /\ pc = "finalize" /\ pc' = "drop"
  /\ UNCHANGED <<stored, cur, loc, current, cluster, limits, server, made, local, scale, drifts>>

\* An orphaned zone stays; any other is deleted, and one that is gone is fine.
finalizeZone ==
  /\ pc = "finalize"
  /\ \/ /\ loc.spec.policy = "Orphan"
        /\ made' = made \ {cur} /\ UNCHANGED server
     \/ /\ loc.spec.policy = "Delete" /\ resolve = "client"
        /\ server.exists \/ NotFound = "ErrZoneNotFound"
        /\ server' = NoZone /\ made' = {}
  /\ pc' = "drop"
  /\ UNCHANGED <<stored, cur, loc, current, cluster, limits, local, scale, drifts>>

\* DeleteZone's error is returned when it is not known to mean "gone".
FinalizeRefused ==
  /\ pc = "finalize" /\ loc.spec.policy = "Delete" /\ resolve = "client"
  /\ ~server.exists /\ NotFound # "ErrZoneNotFound"
  /\ EndPass /\ UNCHANGED <<stored, cluster, limits, server, local, scale, drifts, made>>

\* A step of Resource: the pass's own state is forgotten when it ends.
Shared ==
  /\ IF pc' = "idle" THEN reads' = NoZone /\ catalog' = Unset ELSE UNCHANGED local
  /\ UNCHANGED <<server, scale, drifts, made>>

Operator ==
  \/ WorkerStep(Calls) /\ Shared
  \/ GetZoneOptions \/ CreateZone \/ reconcileOptions \/ Refused \/ markZoneReady
  \/ finalizeZone \/ FinalizeRefused

-----------------------------------------------------------------------------
(* Users, the cluster, and whoever else writes to the server (external). *)

\* spec.replicas is edited; reconcileClustering initializes the cluster.
Scale ==
  /\ \/ Edited /\ replicas' = 3 - replicas /\ UNCHANGED <<inited, stored, worker>>
     \/ /\ replicas > 1 /\ ~inited /\ cluster = "up" /\ inited' = TRUE
        /\ UNCHANGED <<replicas, resource>>
  /\ UNCHANGED <<zone, server, local, drifts, made>>

Drift ==
  /\ drifts < MaxDrifts /\ drifts' = drifts + 1 /\ ServerUp
  /\ \/ server.exists /\ server' = NoZone /\ made' = {}
     \/ /\ server.exists /\ UNCHANGED made
        /\ \E c \in Catalogs \cup {NoCatalog}, v \in Validations :
              server' = [server EXCEPT !.catalog = c, !.validation = v]
     \/ ~server.exists /\ server' = [NoZone EXCEPT !.exists = TRUE] /\ UNCHANGED made
  /\ UNCHANGED <<resource, local, scale>>

ClusterGone ==
  /\ Outage("gone")
  /\ server' = NoZone /\ made' = {} /\ UNCHANGED <<local, scale, drifts>>

World ==
  \/ \E r \in Objects, s \in Specs : (Create(r, s) \/ Edit(r, s)) /\ Shared
  \/ ClusterStep /\ Shared
  \/ ClusterGone \/ Drift \/ Scale

Next == Operator \/ World

\* As for every controller: requeues (zonesForCluster adds to them), a pass that
\* goes on, watches, a server that comes back; and the cluster is initialized.
Fairness ==
  /\ \A r \in Objects : SF_vars(Reconcile(r) /\ Shared) /\ WF_vars(CacheSync(r) /\ Shared)
  /\ WF_vars(Operator /\ pc # "idle" /\ faults' = faults) /\ WF_vars(Recover /\ Shared)
  /\ WF_vars(Scale /\ UNCHANGED edits)

Spec == Init /\ [][Next]_vars /\ Fairness

-----------------------------------------------------------------------------
(* Properties. *)

C == INSTANCE Claim WITH held <- Held, owns <- made

\* The controller keeps the finalizer's promise: a zone is created only by a
\* resource that is held at that moment, and a resource is let go only when the
\* zone it created is gone or is to stay, whatever fails in between ("a failed
\* delete requeues with the resource still intact rather than leaking the zone").
Claimed == C!Spec

\* Once edits, faults and drift are over, deleted resources are gone and a zone
\* is on the server with the validation and the catalog its spec and the size of
\* the cluster ask for, and reported Ready (reconcileZone, zonesForCluster), if
\* the zone's name does not lead classifyStatus astray.
Converges ==
  <>[](NotFound = "ErrZoneNotFound" => \A r \in Objects : LET o == obj[r] IN
         /\ ~o.deleting
         /\ (o.exists /\ cluster = "up") =>
              /\ server.exists /\ o.spec.catalog \in {Unset, server.catalog}
              /\ (o.spec.catalog = Unset /\ o.spec.type \in Joinable /\ replicas > 1) => server.catalog = ClusterCatalog
              /\ o.spec.validation \in {Unset, server.validation}
              /\ o.ready = "True" /\ o.observed = o.gen)
=============================================================================
