------------------------- MODULE CertConfigRegistry -------------------------
(* What the operator API promises about the cert_config table, with every     *)
(* transaction, lock and index left out: a row never changes once created,    *)
(* an activation is one atomic swap inside one target group, and an answer    *)
(* says whether the effect took place, except for 500, which says nothing.    *)
(* CertConfigStore is shown to implement this module.                         *)
EXTENDS Naturals

CONSTANTS Versions,   \* config_version values
          Targets,    \* target selector triples a row may carry
          Requests,   \* admin requests being served
          NoRow       \* "no row has this config_version"

VARIABLES row,        \* config_version -> its target, or NoRow
          active,     \* versions whose is_active is true
          stage,      \* request -> "idle", "pending" or "applied"
          asks,       \* request -> the operation asked for
          resp        \* request -> HTTP status answered, 0 before the answer

vars == <<row, active, stage, asks, resp>>

Operations == [op : {"create"}, version : Versions, target : Targets]
              \cup [op : {"activate"}, version : Versions]

Nothing == [op |-> "none"]     \* what an idle request asks for

Init == /\ row = [v \in Versions |-> NoRow]
        /\ active = {}
        /\ stage = [r \in Requests |-> "idle"]
        /\ asks = [r \in Requests |-> Nothing]
        /\ resp = [r \in Requests |-> 0]

Submit(r) == /\ stage[r] = "idle"
             /\ \E o \in Operations : asks' = [asks EXCEPT ![r] = o]
             /\ stage' = [stage EXCEPT ![r] = "pending"]
             /\ resp' = [resp EXCEPT ![r] = 0]
             /\ UNCHANGED <<row, active>>

(* The effect of a request.  It may still arrive after a 500, and nobody is   *)
(* told then.                                                                 *)
Apply(r) == /\ stage[r] = "pending"
            /\ stage' = [stage EXCEPT ![r] = IF resp[r] = 0 THEN "applied" ELSE "idle"]
            /\ asks' = [asks EXCEPT ![r] = IF resp[r] = 0 THEN @ ELSE Nothing]
            /\ UNCHANGED resp

Create(r) == /\ Apply(r)
             /\ asks[r].op = "create"
             /\ row[asks[r].version] = NoRow
             /\ row' = [row EXCEPT ![asks[r].version] = asks[r].target]
             /\ UNCHANGED active

Activate(r) == LET v == asks[r].version
               IN /\ Apply(r)
                  /\ asks[r].op = "activate"
                  /\ row[v] # NoRow
                  /\ active' = {w \in active : row[w] # row[v]} \cup {v}
                  /\ UNCHANGED row

(* The answers.  Success is only ever told of an effect that took place, a    *)
(* refusal only of one that did not and, at that moment, could not.           *)
Told(r, code) == /\ stage' = [stage EXCEPT ![r] = "idle"]
                 /\ asks' = [asks EXCEPT ![r] = Nothing]
                 /\ resp' = [resp EXCEPT ![r] = code]
                 /\ UNCHANGED <<row, active>>

Confirm(r) == /\ stage[r] = "applied"
              /\ Told(r, IF asks[r].op = "create" THEN 201 ELSE 200)

Refuse(r) == /\ stage[r] = "pending" /\ resp[r] = 0
             /\ \/ /\ asks[r].op = "create" /\ row[asks[r].version] # NoRow
                   /\ Told(r, 409)
                \/ /\ asks[r].op = "activate" /\ row[asks[r].version] = NoRow
                   /\ Told(r, 404)

Fail(r) == /\ stage[r] # "idle" /\ Told(r, 500)

(* 500 while the effect is still possible. *)
GiveUp(r) == /\ stage[r] = "pending" /\ resp[r] = 0
             /\ resp' = [resp EXCEPT ![r] = 500]
             /\ UNCHANGED <<row, active, stage, asks>>

Next == \E r \in Requests : \/ Submit(r) \/ Create(r) \/ Activate(r)
                            \/ Confirm(r) \/ Refuse(r) \/ Fail(r) \/ GiveUp(r)

Spec == Init /\ [][Next]_vars
=============================================================================
