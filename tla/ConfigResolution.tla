-------------------------- MODULE ConfigResolution --------------------------
(* Which active cert_config row a device gets: the query of                   *)
(* CertConfigStore.GetActiveForDevice in internal/store/certconfig.go.        *)
EXTENDS Naturals

CONSTANTS Values,       \* non-empty selector strings
          Null, Empty   \* a null column; an absent request header

Selectors     == {"manufacturer", "model", "fingerprint"}
Targets       == [Selectors -> Values \cup {Null}]
DeviceTargets == [Selectors -> Values \cup {Empty}]

ASSUME ResolutionAssumption ==
    Null # Empty /\ Null \notin Values /\ Empty \notin Values

(* The where clause.  A column that is null constrains nothing. *)
Matches(t, dev) == \A s \in Selectors : t[s] = Null \/ t[s] = dev[s]

(* The first three keys of the order by: a fingerprint outranks a model,      *)
(* which outranks a manufacturer.                                             *)
Rank(t) == (IF t["fingerprint"] # Null THEN 4 ELSE 0)
         + (IF t["model"] # Null THEN 2 ELSE 0)
         + (IF t["manufacturer"] # Null THEN 1 ELSE 0)

Candidates(row, active, dev) == {v \in active : Matches(row[v], dev)}

(* Mutant: the order by looks at created_at alone.                            *)
BestUnranked(row, active, dev) == Candidates(row, active, dev)

Best(row, active, dev) ==
    {v \in Candidates(row, active, dev) :
        \A w \in Candidates(row, active, dev) : Rank(row[w]) <= Rank(row[v])}

(* limit 1, the latest created_at first.  createdAt maps versions to times.   *)
Resolve(row, active, createdAt, dev) ==
    CHOOSE v \in Best(row, active, dev) :
        \A w \in Best(row, active, dev) : createdAt[w] <= createdAt[v]
=============================================================================
