----------------------------- MODULE MCBlocklist -----------------------------
(* Small instances of Blocklist for TLC. *)
EXTENDS Blocklist

CONSTANTS Domains

BlocklistOverrides == {"allowed", "blocked"} \X Domains
\* Specs with none, the allowed or all overrides; one of them sets the blocking
\* settings, another is orphaned.
BlocklistSpecs ==
  {s \in BlocklistSpec :
     \/ /\ s.blocking = Unset /\ s.policy = "Delete"
        /\ s.overrides \in {{}, {o \in Overrides : o[1] = "allowed"}, Overrides}
     \/ s.blocking \notin {Unset, NoServer.blocking} /\ s.policy = "Delete" /\ s.urls = 1 /\ s.overrides = {}
     \/ s.blocking = Unset /\ s.policy = "Orphan" /\ s.urls = 1 /\ s.overrides = Overrides}
BlocklistApplied == [urls : URLs \cup {0}, overrides : SUBSET Overrides]
BlocklistNotApplied == [urls |-> 0, overrides |-> {}]
=============================================================================
