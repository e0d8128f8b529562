---------------------------- MODULE ServerSettings ----------------------------
(***************************************************************************)
(* The ServerSettings controller: resources that each own the groups of    *)
(* DNS settings their spec sets, on one server, next to other writers of   *)
(* the same settings.  Values stand for what a setting can be; Empty is    *)
(* the empty list.  Cache and logging each stand for their fields, which   *)
(* are all treated alike.  Deleting a resource leaves the server as it is. *)
(***************************************************************************)
EXTENDS Resource

CONSTANTS
  Values, Empty,
  Unset,          \* a group, or a field of one, that is not in the spec
  MaxDrifts       \* bound of changes made behind the operator's back

Lists == {"forwarders", "recursionNetworkACL"}
Fields == Lists \cup {"forwarderProtocol", "recursion", "cache", "logging"}
Optional == Values \cup {Unset}
Addresses == Values \cup {Empty}

\* A group is Unset or sets its fields; an omitted list is an empty one.
ServerSettingsSpec ==
  [forwarders : [addresses : Addresses, protocol : Optional] \cup {Unset},
   recursion : [policy : Values, networkACL : Addresses] \cup {Unset},
   cache : Optional, logging : Optional, policy : {"Retain"}]
DNSSettings == {s \in [Fields -> Addresses] : \A f \in Fields \ Lists : s[f] # Empty}

ASSUME SettingsConstants ==
  /\ Unset \notin Addresses /\ Empty \notin Values /\ Values # {} /\ MaxDrifts \in Nat
  /\ Specs \subseteq ServerSettingsSpec /\ Applied = DNSSettings \cup {NotApplied} /\ NotApplied \notin DNSSettings

VARIABLES
  server,   \* the settings of the server
  reads,    \* the settings as the pass last got them
  drifts

vars == <<resource, server, reads, drifts>>

Fresh == [f \in Fields |-> IF f \in Lists THEN Empty ELSE CHOOSE v \in Values : TRUE]

Init == ResourceInit /\ server = Fresh /\ reads = Fresh /\ drifts = 0

-----------------------------------------------------------------------------
(* reconcileServerSettings. *)

\* Mutant: an ACL without entries is not sent, like an optional field.
setDNSSettingsOptionsFromSpecNoACL(s) ==
  [f \in Fields |->
     CASE f = "forwarders" -> IF s.forwarders = Unset THEN Unset ELSE s.forwarders.addresses
       [] f = "forwarderProtocol" -> IF s.forwarders = Unset THEN Unset ELSE s.forwarders.protocol
       [] f = "recursion" -> IF s.recursion = Unset THEN Unset ELSE s.recursion.policy
       [] f = "recursionNetworkACL" ->
            IF s.recursion = Unset \/ s.recursion.networkACL = Empty THEN Unset ELSE s.recursion.networkACL
       [] OTHER -> s[f]]

\* Mutant: a protocol the spec leaves out is sent as an empty one.
setDNSSettingsOptionsFromSpecBlank(s) ==
  [f \in Fields |->
     CASE f = "forwarders" -> IF s.forwarders = Unset THEN Unset ELSE s.forwarders.addresses
       [] f = "forwarderProtocol" ->
            IF s.forwarders = Unset THEN Unset ELSE IF s.forwarders.protocol = Unset THEN Empty ELSE s.forwarders.protocol
       [] f = "recursion" -> IF s.recursion = Unset THEN Unset ELSE s.recursion.policy
       [] f = "recursionNetworkACL" -> IF s.recursion = Unset THEN Unset ELSE s.recursion.networkACL
       [] OTHER -> s[f]]

\* The settings to send, Unset where the server's are to be left alone; the ACL
\* always goes with the policy.
setDNSSettingsOptionsFromSpec(s) ==
  [f \in Fields |->
     CASE f = "forwarders" -> IF s.forwarders = Unset THEN Unset ELSE s.forwarders.addresses
       [] f = "forwarderProtocol" -> IF s.forwarders = Unset THEN Unset ELSE s.forwarders.protocol
       [] f = "recursion" -> IF s.recursion = Unset THEN Unset ELSE s.recursion.policy
       [] f = "recursionNetworkACL" -> IF s.recursion = Unset THEN Unset ELSE s.recursion.networkACL
       [] OTHER -> s[f]]

serverSettingsInSync(desired, settings) == \A f \in Fields : desired[f] \in {Unset, settings[f]}

Calls == pc \in {"set", "get"}

\* The first GetDNSSettings, and the one after a change.
GetDNSSettings ==
  /\ \/ /\ pc = "reconcile" /\ resolve = "client"
        /\ pc' = IF serverSettingsInSync(setDNSSettingsOptionsFromSpec(loc.spec), server) THEN "ready" ELSE "set"
     \/ pc = "get" /\ ServerUp /\ pc' = "ready"
  /\ reads' = server
  /\ UNCHANGED <<stored, cur, loc, current, cluster, limits, server, drifts>>

\* Mutant: sends back the settings it read, changed where the spec differs.
SetDNSSettingsReadModifyWrite ==
  /\ pc = "set" /\ ServerUp
  /\ LET desired == setDNSSettingsOptionsFromSpec(loc.spec) IN
     server' = [f \in Fields |-> IF desired[f] = Unset THEN reads[f] ELSE desired[f]]
  /\ pc' = "get"
  /\ UNCHANGED <<stored, cur, loc, current, cluster, limits, reads, drifts>>

\* Only what the spec sets is sent; an empty list is sent as "false", which
\* clears the server's.
SetDNSSettings ==
  /\ pc = "set" /\ ServerUp
  /\ LET desired == setDNSSettingsOptionsFromSpec(loc.spec) IN
     server' = [f \in Fields |-> IF desired[f] = Unset THEN server[f] ELSE desired[f]]
  /\ pc' = "get"
  /\ UNCHANGED <<stored, cur, loc, current, cluster, limits, reads, drifts>>

\* The settings last got become status.observed.
markSettingsReady == markReady(reads) /\ reads' = Fresh /\ UNCHANGED <<server, drifts>>

\* The settings are retained, and the server is not asked.
finalizeServerSettings ==
  /\ pc = "finalize"
  /\ pc' = "drop"
  /\ UNCHANGED <<stored, cur, loc, current, cluster, limits, server, reads, drifts>>

\* A step of Resource: what was got is forgotten when the pass ends.
Shared == reads' = (IF pc' = "idle" THEN Fresh ELSE reads) /\ UNCHANGED <<server, drifts>>

Operator ==
  \/ WorkerStep(Calls) /\ Shared
  \/ GetDNSSettings \/ SetDNSSettings \/ markSettingsReady \/ finalizeServerSettings

-----------------------------------------------------------------------------
(* Users, and whoever else changes settings (external). *)

\* Nothing is claimed for resources that set the same field.
Sets(s) == {f \in Fields : setDNSSettingsOptionsFromSpec(s)[f] # Unset}
Disjoint(r, s) == \A q \in Objects \ {r} : obj[q].exists => Sets(obj[q].spec) \cap Sets(s) = {}

Drift ==
  /\ drifts < MaxDrifts /\ drifts' = drifts + 1 /\ ServerUp
  /\ \E f \in Fields, v \in Addresses : v # server[f] /\ server' = [server EXCEPT ![f] = v] /\ server' \in DNSSettings
  /\ UNCHANGED <<resource, reads>>

ClusterGone ==
  /\ Outage("gone")
  /\ server' = Fresh /\ UNCHANGED <<reads, drifts>>

World ==
  \/ \E r \in Objects, s \in Specs : Disjoint(r, s) /\ (Create(r, s) \/ Edit(r, s)) /\ Shared
  \/ ClusterStep /\ Shared
  \/ ClusterGone \/ Drift

Next == Operator \/ World

\* As for every controller: requeues, a pass that goes on, watches.  That a
\* server comes back is not assumed.
Fairness ==
  /\ \A r \in Objects : SF_vars(Reconcile(r) /\ Shared) /\ WF_vars(CacheSync(r) /\ Shared)
  /\ WF_vars(Operator /\ pc # "idle" /\ faults' = faults)

Spec == Init /\ [][Next]_vars /\ Fairness

-----------------------------------------------------------------------------
(* Properties. *)

\* Type correctness of the whole state.
TypeOK ==
  /\ ResourceTypeOK
  /\ pc \in {"idle", "finalizer", "reconcile", "set", "get", "ready", "finalize", "drop"}
  /\ server \in DNSSettings /\ reads \in DNSSettings /\ drifts \in 0 .. MaxDrifts

\* A pass changes no setting but those its resource sets, whoever changed them
\* since it looked: the resource "only ever owns the fields it actually sets".
ChangesOnlyItsOwn ==
  [][(drifts' = drifts /\ cluster' = cluster) => \A f \in Fields : server'[f] # server[f] => f \in Sets(loc.spec)]_vars

\* Once edits, faults and drift are over, deleted resources are gone, server or
\* no server, and with a server each resource's settings, cleared lists included,
\* are in place and reported (reconcileServerSettings, finalizeServerSettings).
Converges ==
  <>[](\A r \in Objects : LET o == obj[r] IN
         /\ ~o.deleting
         /\ (o.exists /\ cluster = "up") =>
              /\ o.spec.forwarders # Unset => /\ server["forwarders"] = o.spec.forwarders.addresses
                                              /\ o.spec.forwarders.protocol \in {Unset, server["forwarderProtocol"]}
              /\ o.spec.recursion # Unset => /\ server["recursion"] = o.spec.recursion.policy
                                             /\ server["recursionNetworkACL"] = o.spec.recursion.networkACL
              /\ o.spec.cache \in {Unset, server["cache"]} /\ o.spec.logging \in {Unset, server["logging"]}
              /\ o.ready = "True" /\ o.observed = o.gen)
=============================================================================
