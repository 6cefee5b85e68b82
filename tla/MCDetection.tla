----------------------------- MODULE MCDetection -----------------------------
(***************************************************************************)
(* Detection with three documents and two payloads, three findings at the  *)
(* two ends of a window, two versions of a rule, an incident with two      *)
(* matches under two releases of the catalogue, and one lesson in two      *)
(* versions.                                                               *)
(***************************************************************************)
EXTENDS Detection, TLC

StampOf == [d1 |-> 1, d2 |-> 2, d3 |-> 3]

AtOf == [f1 |-> 0, f2 |-> 10, f3 |-> 10]
SourceOf == [f \in Alert |-> "wazuh"]
GravityOf == [f \in Alert |-> 50]
EntityOf == [f \in Alert |-> "ip"]

ByPattern == [signal |-> [f1 |-> "scan", f2 |-> "login", f3 |-> "scan"],
              admits |-> Alert, window |-> 10, threshold |-> 85,
              minSeverity |-> 101, candidates |-> 2, members |-> 2]
DefinitionOf == [v1 |-> ByPattern, v2 |-> [ByPattern EXCEPT !.minSeverity = 50]]

Members(selectors) == [count |-> 2, sources |-> 1, valid |-> TRUE,
                       selectors |-> selectors]
EvidenceOf == [m1 |-> Members({"auth_failure"}), m2 |-> Members({"auth_success"})]

ShowsOf == [note |-> {"f1"}]
=============================================================================
