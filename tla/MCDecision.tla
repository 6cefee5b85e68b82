----------------------------- MODULE MCDecision ------------------------------
(* The instances of Decision that TLC checks.                              *)
EXTENDS Decision, TLC

CONSTANTS p1, u1, u2, u3, s1, s2, k1, k2

\* What the released playbooks ask for: one approval, or two.
OnlyNotify  == {[impact |-> "LOW", mode |-> "HUMAN_APPROVAL"]}
OnlyIsolate == {[impact |-> "HIGH", mode |-> "HUMAN_APPROVAL"]}
=============================================================================
