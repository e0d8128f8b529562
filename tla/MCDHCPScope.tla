----------------------------- MODULE MCDHCPScope -----------------------------
(* Small instances of DHCPScope for TLC. *)
EXTENDS DHCPScope

\* A scope that is on, without and with a reservation, one that is off with the
\* reservation, one with another IP address, core and router, and an orphaned one
\* with extra fields.
First == CHOOSE i \in IPs : TRUE
ScopeSpecs ==
  {s \in DHCPScopeSpec :
     \/ /\ s.core = NoScope.core /\ s.router = Unset /\ s.extra = Unset /\ s.policy = "Delete"
        /\ \A m \in MACs : s.leases[m] = First \/ (s.enabled /\ s.leases[m] = NoIP)
     \/ /\ s.core # NoScope.core /\ s.router \notin {Unset, NoScope.router} /\ s.extra = Unset
        /\ s.enabled /\ s.policy = "Delete" /\ \A m \in MACs : s.leases[m] \in IPs \ {First}
     \/ /\ s.core = NoScope.core /\ s.router = Unset /\ s.extra \notin {Unset, NoScope.extra}
        /\ s.enabled /\ s.policy = "Orphan" /\ s.leases = NoLeases}
ScopeApplied == SUBSET MACs
ScopeNotApplied == {}
=============================================================================
