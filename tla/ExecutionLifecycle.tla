------------------------- MODULE ExecutionLifecycle --------------------------
(***************************************************************************)
(* What an authorized execution promises the people who asked for it,      *)
(* whichever engine runs it: one runner at most is let near the action,    *)
(* nobody is let in once a verdict is recorded, success is only reported   *)
(* of something that ran, a verdict is final, and there is one in the end. *)
(***************************************************************************)
EXTENDS Naturals

CONSTANT Verdict  \* the terminal statuses

VARIABLES runner,  \* who was let in, 0 for nobody yet
          verdict  \* "OPEN" or a member of Verdict

vars == <<runner, verdict>>

Init == runner = 0 /\ verdict = "OPEN"

Admit == /\ runner = 0 /\ verdict = "OPEN"
         /\ runner' \in Nat \ {0}
         /\ UNCHANGED verdict

Conclude(v) == /\ verdict = "OPEN"
               /\ v = "SUCCEEDED" => runner # 0
               /\ verdict' = v
               /\ UNCHANGED runner

Next == Admit \/ \E v \in Verdict : Conclude(v)

SafetySpec == Init /\ [][Next]_vars

Spec == SafetySpec /\ WF_vars(\E v \in Verdict : Conclude(v))
=============================================================================
