---------------------------- MODULE MCExternalDNS ----------------------------
(* Small instances of ExternalDNS for TLC. *)
EXTENDS ExternalDNS

\* The second MX target is another spelling of the first.
Spelling == [t \in Targets |-> IF t = 2 THEN 1 ELSE t]

\* Two targets and TTLs below and above the largest; MX targets one at a time; and
\* an endpoint the webhook does not serve.
Wishes ==
  [k \in Keys |->
     {NoEndpoint} \cup
     IF k \in MXKeys THEN [targets : {{t} : t \in Targets}, ttl : {0, 4}]
     ELSE IF k \in Served THEN [targets : (SUBSET {1, 2}) \ {{}}, ttl : {0, 1, 4}]
     ELSE [targets : {{1}}, ttl : {0}]]
=============================================================================
