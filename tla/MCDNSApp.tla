------------------------------ MODULE MCDNSApp ------------------------------
(* Small instances of DNSApp for TLC: u2 serves the newer of two versions. *)
EXTENDS DNSApp

TwoPackages == [u \in URLs |-> u]
\* The version of a spec is the one its URL serves, the configuration varies; one
\* spec is orphaned.
AppSpecs ==
  {s \in DNSAppSpec :
     \/ s.version \in {Unset, Contents[s.url]} /\ s.policy = "Delete" /\ (s.config \in Rejected => s.version # Unset)
     \/ s.version = Contents[s.url] /\ s.url = 1 /\ s.config = Unset /\ s.policy = "Orphan"}
AppApplied == Versions \cup {NotApplied}

ASSUME AppTypes == DNSAppTypes
=============================================================================
