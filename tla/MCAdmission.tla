----------------------------- MODULE MCAdmission -----------------------------
(* Two identities, so that one can be replaced; two seconds, of which one   *)
(* is within the skew; a bucket that one request empties and a restart      *)
(* fills; a client as SecureLLMClient configures it, one that insists on an *)
(* attested server and one that takes any report.  MCRate has no clients of *)
(* its own but fractions of tokens: two and a half in the bucket, one and a *)
(* half a second, two restarts.                                             *)
EXTENDS Admission

CONSTANTS home, other

MCHosts == {home, other}
MCSizes == {1, 2}
MCBackends == {"none", "m"}
MCPolicies == {[verifier |-> "missing", pinned |-> "none", required |-> FALSE],
               [verifier |-> "mock", pinned |-> "m", required |-> TRUE],
               [verifier |-> "none", pinned |-> "none", required |-> FALSE]}
=============================================================================
