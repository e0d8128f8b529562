--------------------------- MODULE MCServerSettings ---------------------------
(* Small instances of ServerSettings for TLC. *)
EXTENDS ServerSettings

CONSTANT New    \* the value the specs ask for

\* A spec sets forwarders, recursion without an ACL, recursion with one next to
\* cleared forwarders, or cache and logging.
SettingsSpecs ==
  {s \in ServerSettingsSpec :
     /\ s.cache = s.logging
     /\ <<s.forwarders, s.recursion, s.cache>> \in
          {<<[addresses |-> New, protocol |-> New], Unset, Unset>>,
           <<Unset, [policy |-> New, networkACL |-> Empty], Unset>>,
           <<[addresses |-> Empty, protocol |-> Unset], [policy |-> New, networkACL |-> New], Unset>>,
           <<Unset, Unset, New>>}}
SettingsApplied == DNSSettings \cup {NotApplied}
=============================================================================
