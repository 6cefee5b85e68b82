----------------------------- MODULE MCPlaybooks -----------------------------
(* The instances of HybridDispatcher that TLC checks.                      *)
EXTENDS HybridDispatcher

CONSTANTS check, contain, notify, verify

\* A condition guards a containment that may be repeated; a notification,
\* which may not, follows if it succeeds; a last condition follows either way.
ContainOrder == <<check, contain, notify, verify>>
ContainEdge == {[from |-> check, to |-> contain, outcome |-> "TRUE"],
                [from |-> contain, to |-> notify, outcome |-> "SUCCESS"],
                [from |-> notify, to |-> verify, outcome |-> "ALWAYS"]}
=============================================================================
