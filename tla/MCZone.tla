------------------------------- MODULE MCZone -------------------------------
(* Small instances of Zone for TLC. *)
EXTENDS Zone

\* The catalog of a zone that can join one varies freely, as the type does where
\* it decides on the catalog; a spec that sets the validation and an orphaned one
\* are added.
ZoneSpecs ==
  {s \in ZoneSpec :
     \/ s.validation = Unset /\ s.policy = "Delete" /\ (s.type \in Joinable \/ s.catalog = Unset)
     \/ /\ s.type \in Joinable /\ s.catalog = Unset /\ s.validation # NoZone.validation
        /\ (s.validation = Unset <=> s.policy = "Orphan")}
ZoneApplied == {NotApplied}
=============================================================================
