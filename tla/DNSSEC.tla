------------------------------- MODULE DNSSEC -------------------------------
(***************************************************************************)
(* The DNSSEC controller: one zone of the server (spec.zone is immutable), *)
(* signed when it is not.  The zone itself comes and goes by the hand of   *)
(* others.  keys stands for the algorithm and key parameters of a signing. *)
(* made is a history variable: the resources that signed the zone as it    *)
(* is on the server.                                                       *)
(***************************************************************************)
EXTENDS Resource, Errors

CONSTANTS
  Keys,
  Names,      \* zone names, each the set of Kinds that occur in it
  MaxDrifts   \* bound of changes made behind the operator's back

NSECTypes == {"NSEC", "NSEC3"}
DNSSECSpec == [nsecType : NSECTypes, keys : Keys, policy : {"Delete", "Orphan"}]

ASSUME DNSSECConstants ==
  /\ Keys # {} /\ Names \subseteq SUBSET Kinds /\ Specs \subseteq DNSSECSpec /\ MaxDrifts \in Nat
  /\ Applied = BOOLEAN /\ NotApplied = FALSE

VARIABLES
  server,   \* the zone on the server
  zone,     \* its name
  drifts,
  made

vars == <<resource, server, zone, drifts, made>>

NoZone == [exists |-> FALSE, dnssecStatus |-> "Unsigned", keys |-> CHOOSE k \in Keys : TRUE]
Unsigned == [NoZone EXCEPT !.exists = TRUE]

Init ==
  /\ ResourceInit
  /\ server \in {NoZone, Unsigned} /\ zone \in Names /\ drifts = 0 /\ made = {}

-----------------------------------------------------------------------------
(* reconcileDNSSEC. *)

Calls == pc = "sign"

\* A zone that carries a signature, of whatever kind, is left alone.
GetDNSSECProperties ==
  /\ pc = "reconcile" /\ resolve = "client" /\ server.exists
  /\ pc' = IF server.dnssecStatus = "Unsigned" THEN "sign" ELSE "ready"
  /\ UNCHANGED <<stored, cur, loc, current, cluster, limits, server, zone, drifts, made>>

SignZone ==
  /\ pc = "sign" /\ ServerUp /\ server.exists /\ server.dnssecStatus = "Unsigned"
  /\ server' = [server EXCEPT !.dnssecStatus = loc.spec.nsecType, !.keys = loc.spec.keys]
  /\ made' = made \cup {cur} /\ pc' = "ready"
  /\ UNCHANGED <<stored, cur, loc, current, cluster, limits, zone, drifts>>

\* There is no such zone, or somebody else signed it in the meantime.
Refused ==
  /\ \/ pc = "reconcile" /\ resolve = "client" /\ ~server.exists
     \/ pc = "sign" /\ ServerUp /\ ~(server.exists /\ server.dnssecStatus = "Unsigned")
  /\ markDegraded /\ EndPass
  /\ UNCHANGED <<cluster, limits, server, zone, drifts, made>>

markSigned == markReady(TRUE) /\ UNCHANGED <<server, zone, drifts, made>>

\* The error of UnsignZone, when there was nothing left to unsign.
Error == zone \cup IF server.exists THEN {"not signed"} ELSE {"no such zone"}

\* Mutant: only a zone that is gone counts.
isDNSSECZoneGoneOnly(message) == classifyStatus("error", message) = "ErrZoneNotFound"

isDNSSECZoneGone(message) ==
  \/ classifyStatus("error", message) = "ErrZoneNotFound"
  \/ classifyStatus("error", message) = "APIError" /\ message \cap {"not signed", "unsigned"} # {}

\* Mutant: a signature of the other kind than the spec's is left alone.
finalizeDNSSECOwnKind ==
  /\ pc = "finalize" /\ resolve = "client"
  /\ IF server.dnssecStatus = loc.spec.nsecType
     THEN server' = [server EXCEPT !.dnssecStatus = "Unsigned"] /\ made' = {} ELSE UNCHANGED <<server, made>>
  /\ pc' = "drop"
  /\ UNCHANGED <<stored, cur, loc, current, cluster, limits, zone, drifts>>

\* An orphaned zone stays signed; any other is unsigned, and one that is not
\* signed, or not there, is fine.
finalizeDNSSEC ==
  /\ pc = "finalize"
  /\ \/ /\ loc.spec.policy = "Orphan"
        /\ made' = made \ {cur} /\ UNCHANGED server
     \/ /\ loc.spec.policy = "Delete" /\ resolve = "client"
        /\ server.dnssecStatus = "Unsigned" => isDNSSECZoneGone(Error)
        /\ server' = [server EXCEPT !.dnssecStatus = "Unsigned"] /\ made' = {}
  /\ pc' = "drop"
  /\ UNCHANGED <<stored, cur, loc, current, cluster, limits, zone, drifts>>

\* UnsignZone's error is returned when it is not known to mean "nothing to do".
FinalizeRefused ==
  /\ pc = "finalize" /\ loc.spec.policy = "Delete" /\ resolve = "client"
  /\ server.dnssecStatus = "Unsigned" /\ ~isDNSSECZoneGone(Error)
  /\ EndPass /\ UNCHANGED <<stored, cluster, limits, server, zone, drifts, made>>

\* A step of Resource.
Shared == UNCHANGED <<server, zone, drifts, made>>

Operator ==
  \/ WorkerStep(Calls) /\ Shared
  \/ GetDNSSECProperties \/ SignZone \/ Refused \/ markSigned
  \/ finalizeDNSSEC \/ FinalizeRefused

-----------------------------------------------------------------------------
(* Users, the Zone controller, and whoever else signs zones (external). *)

\* The zone is created or deleted, signed or unsigned.
Drift ==
  /\ drifts < MaxDrifts /\ drifts' = drifts + 1 /\ ServerUp
  /\ \/ server' = IF server.exists THEN NoZone ELSE Unsigned
     \/ server.exists /\ server.dnssecStatus # "Unsigned" /\ server' = Unsigned
     \/ /\ server.exists /\ server.dnssecStatus = "Unsigned"
        /\ \E n \in NSECTypes : server' = [server EXCEPT !.dnssecStatus = n]
  /\ made' = {} /\ UNCHANGED <<resource, zone>>

ClusterGone ==
  /\ Outage("gone")
  /\ server' = NoZone /\ made' = {} /\ UNCHANGED <<zone, drifts>>

World ==
  \/ \E r \in Objects, s \in Specs : (Create(r, s) \/ Edit(r, s)) /\ Shared
  \/ ClusterStep /\ Shared
  \/ ClusterGone \/ Drift

Next == Operator \/ World

\* As for every controller: requeues, a pass that goes on, watches, a server
\* that comes back.
Fairness ==
  /\ \A r \in Objects : SF_vars(Reconcile(r) /\ Shared) /\ WF_vars(CacheSync(r) /\ Shared)
  /\ WF_vars(Operator /\ pc # "idle" /\ faults' = faults) /\ WF_vars(Recover /\ Shared)

Spec == Init /\ [][Next]_vars /\ Fairness

-----------------------------------------------------------------------------
(* Properties. *)

C == INSTANCE Claim WITH held <- Held, owns <- made

\* The controller keeps the finalizer's promise: a zone is signed only by a
\* resource that is held at that moment, and a resource is let go only when its
\* signature is gone or is to stay, whatever fails, is edited or lags in between
\* (finalizeDNSSEC).
Claimed == C!Spec

\* Once edits, faults and drift are over, deleted resources are gone (unless the
\* zone is missing and its name leads classifyStatus astray), a zone that is
\* there is signed, with the parameters of a resource that signed it and was
\* never edited, and reported so, and a missing zone is reported
\* (reconcileDNSSEC's requeues, finalizeDNSSEC).
Converges ==
  <>[](\A r \in Objects : LET o == obj[r] IN
         /\ o.deleting => /\ cluster = "up" /\ ~server.exists /\ o.spec.policy = "Delete"
                          /\ classifyStatus("error", {"no such zone"} \cup zone) # "ErrZoneNotFound"
         /\ (o.exists /\ ~o.deleting /\ cluster = "up") =>
              IF server.exists
              THEN /\ server.dnssecStatus # "Unsigned" /\ o.ready = "True" /\ o.observed = o.gen /\ o.applied
                   /\ (r \in made /\ o.gen = 1) => server.dnssecStatus = o.spec.nsecType /\ server.keys = o.spec.keys
              ELSE o.ready = "False")
=============================================================================
