-------------------------- MODULE MCCertConfigStore --------------------------
(* Small instances of CertConfigStore for TLC.                                *)
EXTENDS CertConfigStore, TLC

CONSTANTS v1, v2, v3, r1, r2, r3, sei

(* The default, written with empty selectors (absent ones are stored alike),  *)
(* and one manufacturer, written with an empty and with an absent selector.   *)
Default == [s \in Selectors |-> Empty]
Sei     == [Default EXCEPT !["manufacturer"] = sei, !["model"] = Null]

TwoGroups == {Default, Sei}

Symmetry == Permutations(Versions) \cup Permutations(Requests)
=============================================================================
