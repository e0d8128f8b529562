------------------------------ MODULE MCDNSSEC ------------------------------
(* Small instances of DNSSEC for TLC. *)
EXTENDS DNSSEC

\* Both kinds of signature, each with keys of its own; one spec is orphaned.
SigningSpecs ==
  {s \in DNSSECSpec :
     \/ (s.nsecType = "NSEC" <=> s.keys = NoZone.keys) /\ s.policy = "Delete"
     \/ s.nsecType = "NSEC" /\ s.keys = NoZone.keys /\ s.policy = "Orphan"}
=============================================================================
