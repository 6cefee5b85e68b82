---------------------------- MODULE MCGovernance ----------------------------
(***************************************************************************)
(* Governance with one playbook of two procedures, two executions, two     *)
(* claims and one case, and a user whose sessions are revoked once.        *)
(***************************************************************************)
EXTENDS Governance, TLC

TargetOf == [e1 |-> "account", e2 |-> "host"]
UsesOf == [old |-> {}, new |-> {"host"}]
MinimumOf == [old |-> 0, new |-> 1]
HoldsOf == [ana |-> {"incident.update", "incident.resolve"},
            sol |-> {"incident.update", "incident.assign",
                     "incident.resolve", "incident.close"}]

Symmetry == Permutations(Request)
=============================================================================
