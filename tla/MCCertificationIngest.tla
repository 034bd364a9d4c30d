------------------------ MODULE MCCertificationIngest ------------------------
(* Small instances of CertificationIngest for TLC.                            *)
EXTENDS CertificationIngest, TLC

CONSTANTS run1, old, new, salt, pepper

(* The old deployment redacts what was ever redacted; the new one has another *)
(* pepper and today's list.                                                   *)
Paths   == old :> piiPaths \cup Demoted @@ new :> piiPaths
Peppers == old :> salt @@ new :> pepper

(* A device that reports its address as a number and no marginal metric.      *)
Reports == run1 :> [f \in Fields |-> CASE f = "publicIp"       -> "other"
                                       [] f = "marginalMetric" -> "empty"
                                       [] OTHER                -> "text"]

(* Behind, ahead within the tolerance, and ahead beyond it. *)
AnyDrift == {-2, 0, 1, 2}
Accurate == {0}

(* Deployments, payloads that PostgreSQL refuses and clients without          *)
(* submittedAt are tried with accurate clocks only.                           *)
MCInit == /\ Init
          /\ drift = 0 <=> rollout = {old, new}
          /\ drift # 0 => storable = Runs /\ stamping # "absent"
MCSpec     == MCInit /\ [][Next]_vars
MCLiveSpec == MCSpec /\ Fairness
=============================================================================
