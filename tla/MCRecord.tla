------------------------------ MODULE MCRecord ------------------------------
(* Small instances of Record for TLC. *)
EXTENDS Record

CONSTANTS Policies

\* The TTL varies for the RRsets of several values that are not orphaned.
RecordSpecs ==
  {s \in [rrset : RRSets, data : Data, ttl : TTLs, policy : Policies] :
     \/ s.rrset \notin Single /\ s.policy = "Delete"
     \/ (s.rrset \in Single => s.policy = "Delete") /\ \A t \in TTLs : s.ttl <= t}
RecordApplied == Data \cup {NotApplied}
=============================================================================
