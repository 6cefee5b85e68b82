------------------------- MODULE ContainmentProofs --------------------------
(***************************************************************************)
(* What holds of containment and rollback for every set of accounts,       *)
(* hosts, executions, correlations and requests.  A pending revert knows   *)
(* more than the invariants say: Evidence writes it down.                  *)
(***************************************************************************)
EXTENDS Containment, TLAPS

Pending == [at : {"call", "send", "answered", "done", "failed"},
            of : Execution, under : Correlation]

(* A request is at rest or reverts an execution that has succeeded, and    *)
(* stays so: SUCCEEDED is final.                                           *)
Shape ==
    /\ request \in [Request -> Pending \cup {Idle}]
    /\ \A r \in Request : request[r] # Idle => stage[request[r].of] = "SUCCEEDED"

(* Traced and Already, of any trail.                                       *)
TracedIn(t, e) == \E v \in t : v.action = "contained" /\ v.target = Target[e]
AlreadyIn(t, action, e, c) ==
    \E v \in t : /\ v.action = action /\ v.under = c
                 /\ OnAccount(e) => v.target = Target[e]

(* What a request found on the trail, or put there, stays there.           *)
Evidence == \A r \in Request :
    /\ request[r].at \in {"send", "answered"} => TracedIn(trail, request[r].of)
    /\ request[r].at = "done" =>
          AlreadyIn(trail, "restored", request[r].of, request[r].under)

Marks == \A e \in Execution : reverted[e] # None =>
    AlreadyIn(trail, "restored", e, reverted[e])

RestIInv == TypeOK /\ Shape
IInv == RestIInv /\ Evidence /\ Marks /\ RestoredWasContained

(* The reader of a longer trail sees what was there before, and more.      *)
LEMMA TrailGrows ==
    ASSUME NEW s, NEW t, s \subseteq t, NEW e, NEW c, NEW action
    PROVE  /\ TracedIn(s, e) => TracedIn(t, e)
           /\ AlreadyIn(s, action, e, c) => AlreadyIn(t, action, e, c)
    BY DEF TracedIn, AlreadyIn

LEMMA MarksAreTrue == Marks <=> RollbackIsTrue
    BY DEF Marks, RollbackIsTrue, AlreadyIn, Already

(* Only requests that are not at rest take a step of the rollback.         *)
LEMMA NotAtRest == ASSUME Shape, NEW r \in Request, request[r].at # "none"
                   PROVE  request[r] \in Pending
    BY DEF Shape, Idle

LEMMA IdleAt == Idle.at = "none"
    BY DEF Idle

(* What a step does to the request it moves.                               *)
LEMMA GoPending ==
    ASSUME Shape, NEW r \in Request, NEW from, from # "none",
           NEW to \in {"call", "send", "answered", "done", "failed"},
           Go(r, from, to)
    PROVE  /\ request[r] \in Pending
           /\ request'[r] \in Pending
           /\ request'[r].at = to
           /\ request'[r].of = request[r].of
           /\ request'[r].under = request[r].under
           /\ request' \in [Request -> Pending \cup {Idle}]
           /\ \A s \in Request : s # r => request'[s] = request[s]
    <1>1. request[r] \in Pending
        BY NotAtRest DEF Go, Step
    <1>2. request' = [request EXCEPT ![r] = [request[r] EXCEPT !.at = to]]
        BY DEF Go, Step
    <1>3. [request[r] EXCEPT !.at = to] \in Pending
        BY <1>1 DEF Pending
    <1> QED
        BY <1>1, <1>2, <1>3 DEF Shape, Pending

----------------------------------------------------------------------------
(* The executions' side: it never undoes a success and never records a     *)
(* restoration, so what requests know stays true.                          *)

LEMMA ExecutionStep ==
    ASSUME IInv, TypeOK',
           UNCHANGED <<reverted, request>>,
           trail' = trail \/ \E e \in Execution : Record("contained", e, under[e]),
           \A e \in Execution : stage[e] = "SUCCEEDED" => stage'[e] = "SUCCEEDED"
    PROVE  IInv'
    <1>1. trail \subseteq trail'
        BY DEF Record
    <1>2. \A v \in trail' \ trail : v.action = "contained"
        BY DEF Record
    <1>3. Shape'
        BY DEF IInv, RestIInv, Shape, Pending
    <1>4. Evidence'
        BY <1>1, TrailGrows DEF IInv, Evidence
    <1>5. Marks'
        BY <1>1, TrailGrows DEF IInv, Marks
    <1>6. RestoredWasContained'
        BY <1>1, <1>2 DEF IInv, RestoredWasContained
    <1> QED
        BY <1>3, <1>4, <1>5, <1>6 DEF IInv, RestIInv

(* A success has nowhere to go. *)
LEMMA SuccessIsFinal ==
    ASSUME TypeOK, NEW e \in Execution, NEW from, NEW to, Reach(e, from, to),
           from # "SUCCEEDED"
    PROVE  \A x \in Execution : stage[x] = "SUCCEEDED" => stage'[x] = "SUCCEEDED"
    BY DEF TypeOK, Reach

LEMMA ReachTypes ==
    ASSUME TypeOK, NEW e \in Execution, NEW from, NEW to, Reach(e, from, to),
           from \notin {"none", "SUCCEEDED"},
           to \in {"running", "sent", "recorded", "SUCCEEDED", "FAILED"},
           UNCHANGED <<under, reverted>>
    PROVE  /\ stage' \in [Execution -> {"none", "running", "sent", "recorded"} \cup Verdict]
           /\ \A x \in Execution : stage'[x] = "none" <=> under'[x] = None
           /\ \A x \in Execution : reverted'[x] # None => stage'[x] = "SUCCEEDED"
    BY DEF TypeOK, Reach, Verdict

LEMMA RecordTypes ==
    ASSUME ContainmentAssumption, TypeOK, NEW e \in Execution,
           NEW action \in {"contained", "restored"}, NEW c \in Correlation,
           Record(action, e, c)
    PROVE  /\ trail' \subseteq Event
           /\ \A v \in trail' : v.target = Target[v.by]
    <1>1. Target[e] \in Account \cup Host
        BY DEF ContainmentAssumption
    <1> QED
        BY <1>1 DEF TypeOK, Record, Event

LEMMA UnderKnown ==
    ASSUME TypeOK, NEW e \in Execution, stage[e] # "none"
    PROVE  under[e] \in Correlation
    BY DEF TypeOK

LEMMA ExecutionSteps ==
    ASSUME ContainmentAssumption, IInv, NEW e \in Execution,
           \/ \E c \in Correlation : Start(e, c)
           \/ Finish(e) \/ Disable(e) \/ Recover(e) \/ Isolate(e) \/ IsolateRecord(e)
    PROVE  IInv'
    <1> USE DEF IInv, RestIInv
    <1>1. ASSUME NEW c \in Correlation, Start(e, c) PROVE IInv'
        <2>1. TypeOK'
            BY <1>1 DEF ContainmentAssumption, TypeOK, Start, Reach, Verdict
        <2> QED
            BY <1>1, <2>1, SuccessIsFinal, ExecutionStep DEF Start
    <1>2. CASE Finish(e)
        <2>1. PICK from \in {"running", "recorded"}, to \in Verdict : Reach(e, from, to)
            BY <1>2 DEF Finish
        <2>2. TypeOK'
            BY <1>2, <2>1, ReachTypes DEF TypeOK, Finish, Verdict
        <2> QED
            BY <1>2, <2>1, <2>2, SuccessIsFinal, ExecutionStep DEF Finish
    <1>3. CASE Disable(e)
        <2>1. stage[e] # "none" /\ Reach(e, "running", "recorded")
            BY <1>3 DEF Disable, Reach
        <2>2. under[e] \in Correlation /\ Target[e] \in Account \cup Host
            BY <2>1, UnderKnown DEF ContainmentAssumption
        <2>3. /\ trail' \subseteq Event
              /\ \A v \in trail' : v.target = Target[v.by]
            BY <1>3, <2>2, RecordTypes DEF Disable, TypeOK
        <2>4. TypeOK'
            BY <1>3, <2>1, <2>2, <2>3, ReachTypes DEF TypeOK, Disable
        <2> QED
            BY <1>3, <2>1, <2>4, SuccessIsFinal, ExecutionStep DEF Disable
    <1>4. CASE Recover(e)
        <2>1. TypeOK'
            BY <1>4, ReachTypes DEF TypeOK, Recover
        <2> QED
            BY <1>4, <2>1, SuccessIsFinal, ExecutionStep DEF Recover
    <1>5. CASE Isolate(e)
        <2>1. PICK to \in {"recorded", "sent", "FAILED"} : Reach(e, "running", to)
            BY <1>5 DEF Isolate
        <2>2. contained' \subseteq Account \cup Host
            BY <1>5 DEF Isolate, ContainmentAssumption, TypeOK
        <2>3. TypeOK'
            BY <1>5, <2>1, <2>2, ReachTypes DEF TypeOK, Isolate
        <2> QED
            BY <1>5, <2>1, <2>3, SuccessIsFinal, ExecutionStep DEF Isolate
    <1>6. CASE IsolateRecord(e)
        <2>1. PICK to \in {"recorded", "FAILED"} : Reach(e, "sent", to)
            BY <1>6 DEF IsolateRecord
        <2>2. under[e] \in Correlation
            BY <2>1, UnderKnown DEF Reach
        <2>3. /\ trail' \subseteq Event
              /\ \A v \in trail' : v.target = Target[v.by]
            BY <1>6, <2>2, RecordTypes DEF IsolateRecord, TypeOK
        <2>4. TypeOK'
            BY <1>6, <2>1, <2>3, ReachTypes DEF TypeOK, IsolateRecord
        <2> QED
            BY <1>6, <2>1, <2>4, SuccessIsFinal, ExecutionStep DEF IsolateRecord
    <1> QED
        BY <1>1, <1>2, <1>3, <1>4, <1>5, <1>6

LEMMA ByHand ==
    ASSUME ContainmentAssumption, IInv, NEW a \in Account, SwitchByHand(a)
    PROVE  IInv'
    <1>1. TypeOK'
        BY DEF IInv, RestIInv, TypeOK, SwitchByHand, executionVars
    <1> QED
        BY <1>1, ExecutionStep DEF IInv, RestIInv, SwitchByHand, executionVars

----------------------------------------------------------------------------
(* The requests' side.                                                     *)

(* A request that moves on carries its evidence; the others keep theirs.   *)
LEMMA RequestMoves ==
    ASSUME IInv, NEW r \in Request, NEW from, from # "none",
           NEW to \in {"call", "send", "answered", "done", "failed"},
           Go(r, from, to),
           UNCHANGED <<stage, under, reverted, rollbacks>>,
           contained' \subseteq Account \cup Host,
           trail \subseteq trail', trail' \subseteq Event,
           \A v \in trail' : v.target = Target[v.by],
           RestoredWasContained',
           to \in {"send", "answered"} => TracedIn(trail, request[r].of),
           to = "done" => AlreadyIn(trail', "restored", request[r].of, request[r].under)
    PROVE  IInv'
    <1>0. /\ request'[r] \in Pending
          /\ request'[r].at = to
          /\ request'[r].of = request[r].of
          /\ request'[r].under = request[r].under
          /\ request[r] \in Pending
          /\ request' \in [Request -> Pending \cup {Idle}]
          /\ \A s \in Request : s # r => request'[s] = request[s]
        BY GoPending DEF IInv, RestIInv
    <1>1. TypeOK'
        <2>1. \A s \in Request : request'[s].at \in
                 {"none", "call", "send", "answered", "done", "failed"}
            BY <1>0 DEF IInv, RestIInv, TypeOK
        <2> QED
            BY <2>1 DEF IInv, RestIInv, TypeOK
    <1>2. Shape'
        <2>1. stage[request[r].of] = "SUCCEEDED"
            BY <1>0 DEF IInv, RestIInv, Shape, Idle, Go, Step
        <2>2. \A s \in Request : request'[s] # Idle => stage'[request'[s].of] = "SUCCEEDED"
            BY <1>0, <2>1 DEF IInv, RestIInv, Shape
        <2> QED
            BY <1>0, <2>2 DEF Shape
    <1>3. Evidence'
        <2>1. CASE to \in {"send", "answered"}
            <3>1. TracedIn(trail', request'[r].of)
                BY <1>0, <2>1, TrailGrows
            <3> QED
                BY <1>0, <2>1, <3>1, TrailGrows DEF IInv, Evidence
        <2>2. CASE to = "done"
            <3>1. AlreadyIn(trail', "restored", request'[r].of, request'[r].under)
                BY <1>0, <2>2
            <3> QED
                BY <1>0, <2>2, <3>1, TrailGrows DEF IInv, Evidence
        <2>3. CASE to \in {"call", "failed"}
            BY <1>0, <2>3, TrailGrows DEF IInv, Evidence
        <2> QED
            BY <2>1, <2>2, <2>3
    <1>4. Marks'
        BY TrailGrows DEF IInv, Marks
    <1> QED
        BY <1>1, <1>2, <1>3, <1>4 DEF IInv, RestIInv

(* What is recorded is on the trail, under the correlation that recorded.  *)
LEMMA Recorded ==
    ASSUME ContainmentAssumption, NEW action \in {"contained", "restored"},
           NEW e \in Execution, NEW c \in Correlation, Record(action, e, c)
    PROVE  AlreadyIn(trail', action, e, c)
    <1> DEFINE new == [action |-> action, target |-> Target[e],
                       by |-> e, under |-> c]
    <1>1. new \in trail'
        BY DEF Record
    <1>2. new.action = action /\ new.under = c /\ new.target = Target[e]
        OBVIOUS
    <1> HIDE DEF new
    <1> QED
        BY <1>1, <1>2 DEF AlreadyIn

LEMMA TracedRestores ==
    ASSUME IInv, NEW e \in Execution, NEW c \in Correlation, TracedIn(trail, e),
           Record("restored", e, c)
    PROVE  RestoredWasContained'
    BY DEF IInv, RestoredWasContained, TracedIn, Record

LEMMA RollbackSteps ==
    ASSUME ContainmentAssumption, IInv, NEW r \in Request,
           \/ \E e \in Execution, c \in Correlation : Rollback(r, e, c)
           \/ Enable(r) \/ RestoreCheck(r) \/ RestoreSend(r)
           \/ RestoreRecord(r) \/ Conclude(r) \/ Abandon(r)
    PROVE  IInv'
    <1>0. /\ TypeOK /\ Shape /\ Evidence /\ Marks /\ RestoredWasContained
          /\ contained \subseteq Account \cup Host
          /\ trail \subseteq Event /\ \A v \in trail : v.target = Target[v.by]
        BY DEF IInv, RestIInv, TypeOK
    <1>1. ASSUME NEW e \in Execution, NEW c \in Correlation, Rollback(r, e, c)
          PROVE  IInv'
        <2> DEFINE new == [at |-> "call", of |-> e, under |-> c]
        <2>1. /\ request' = [request EXCEPT ![r] = new]
              /\ stage[e] = "SUCCEEDED"
              /\ UNCHANGED <<contained, stage, under, reverted, trail>>
              /\ rollbacks' = rollbacks + 1 /\ rollbacks < MaxRollbacks
            BY <1>1 DEF Rollback, MayRollback, Step, executionVars
        <2>2. new \in Pending /\ new.at = "call" /\ new.of = e
            BY DEF Pending
        <2> HIDE DEF new
        <2>3. \A s \in Request : request'[s] = IF s = r THEN new ELSE request[s]
            BY <1>0, <2>1 DEF Shape
        <2>4. TypeOK'
            BY <1>0, <2>1, <2>2, <2>3 DEF TypeOK, ContainmentAssumption
        <2>5. Shape'
            BY <1>0, <2>1, <2>2, <2>3 DEF Shape
        <2>6. Evidence'
            BY <1>0, <2>1, <2>2, <2>3 DEF Evidence
        <2>7. Marks' /\ RestoredWasContained'
            BY <1>0, <2>1 DEF Marks, RestoredWasContained
        <2> QED
            BY <2>4, <2>5, <2>6, <2>7 DEF IInv, RestIInv
    <1>2. CASE Enable(r)
        <2>1. UNCHANGED <<stage, under, reverted, rollbacks>>
            BY <1>2 DEF Enable, executionVars
        <2>2. request[r].of \in Execution /\ request[r].under \in Correlation
            BY <1>0, <1>2 DEF Enable, Shape, Pending
        <2>3. CASE ~Traced(request[r].of)
            <3>1. Go(r, "call", "failed") /\ UNCHANGED <<contained, trail>>
                BY <1>2, <2>3 DEF Enable
            <3>2. RestoredWasContained'
                BY <1>0, <3>1 DEF RestoredWasContained
            <3> QED
                BY <1>0, <2>1, <3>1, <3>2, RequestMoves
        <2>4. CASE Traced(request[r].of) /\ Already("restored", request[r].of, request[r].under)
            <3>1. AlreadyIn(trail, "restored", request[r].of, request[r].under)
                BY <2>4 DEF Already, AlreadyIn
            <3>2. Go(r, "call", "done") /\ UNCHANGED <<contained, trail>>
                BY <1>2, <2>4 DEF Enable
            <3>3. RestoredWasContained'
                BY <1>0, <3>2 DEF RestoredWasContained
            <3> QED
                BY <1>0, <2>1, <3>1, <3>2, <3>3, RequestMoves
        <2>5. CASE Traced(request[r].of) /\ ~Already("restored", request[r].of, request[r].under)
            <3>1. /\ Go(r, "call", "done")
                  /\ contained' \subseteq contained
                  /\ Record("restored", request[r].of, request[r].under)
                BY <1>2, <2>5 DEF Enable
            <3>2. trail \subseteq trail'
                BY <3>1 DEF Record
            <3>3. AlreadyIn(trail', "restored", request[r].of, request[r].under)
                  /\ trail' \subseteq Event /\ \A v \in trail' : v.target = Target[v.by]
                BY <1>0, <2>2, <3>1, Recorded, RecordTypes
            <3>4. RestoredWasContained'
                BY <2>2, <2>5, <3>1, TracedRestores DEF Traced, TracedIn
            <3> QED
                BY <1>0, <2>1, <3>1, <3>2, <3>3, <3>4, RequestMoves
        <2> QED
            BY <2>3, <2>4, <2>5
    <1>3. CASE RestoreCheck(r)
        <2> DEFINE to == CASE ~Traced(request[r].of) -> "failed"
                           [] Traced(request[r].of)
                              /\ Already("restored", request[r].of, request[r].under) -> "done"
                           [] OTHER -> "send"
        <2>1. /\ to \in {"failed", "done", "send"}
              /\ to = "send" => TracedIn(trail, request[r].of)
              /\ to = "done" => AlreadyIn(trail, "restored", request[r].of, request[r].under)
            BY DEF Traced, Already, TracedIn, AlreadyIn
        <2>2. /\ Go(r, "call", to)
              /\ UNCHANGED <<contained, stage, under, reverted, trail, rollbacks>>
            BY <1>3 DEF RestoreCheck, executionVars
        <2> HIDE DEF to
        <2>3. to = "done" => AlreadyIn(trail', "restored", request[r].of, request[r].under)
            BY <2>1, <2>2, TrailGrows
        <2>4. RestoredWasContained'
            BY <1>0, <2>2 DEF RestoredWasContained
        <2> QED
            BY <1>0, <2>1, <2>2, <2>3, <2>4, RequestMoves
    <1>4. CASE RestoreSend(r)
        <2>1. PICK to \in {"answered", "failed"} : Go(r, "send", to)
            BY <1>4 DEF RestoreSend
        <2>2. UNCHANGED <<stage, under, reverted, trail, rollbacks>>
              /\ contained' \subseteq contained
            BY <1>4 DEF RestoreSend, executionVars
        <2>3. TracedIn(trail, request[r].of)
            BY <1>0, <2>1 DEF Go, Step, Evidence
        <2>4. RestoredWasContained'
            BY <1>0, <2>2 DEF RestoredWasContained
        <2> QED
            BY <1>0, <2>1, <2>2, <2>3, <2>4, RequestMoves
    <1>5. CASE RestoreRecord(r)
        <2>1. /\ Go(r, "answered", "done")
              /\ Record("restored", request[r].of, request[r].under)
              /\ UNCHANGED <<contained, stage, under, reverted, rollbacks>>
            BY <1>5 DEF RestoreRecord, executionVars
        <2>2. request[r] \in Pending
            BY <1>0, <2>1, NotAtRest DEF Go, Step
        <2>3. request[r].of \in Execution /\ request[r].under \in Correlation
            BY <2>2 DEF Pending
        <2>4. TracedIn(trail, request[r].of)
            BY <1>0, <2>1 DEF Go, Step, Evidence
        <2>5. trail \subseteq trail'
            BY <2>1 DEF Record
        <2>6. AlreadyIn(trail', "restored", request[r].of, request[r].under)
              /\ trail' \subseteq Event /\ \A v \in trail' : v.target = Target[v.by]
            BY <1>0, <2>1, <2>3, Recorded, RecordTypes
        <2>7. RestoredWasContained'
            BY <2>1, <2>3, <2>4, TracedRestores
        <2> QED
            BY <1>0, <2>1, <2>5, <2>6, <2>7, RequestMoves
    <1>6. CASE Conclude(r) \/ Abandon(r)
        <2>1. /\ request' = [request EXCEPT ![r] = Idle]
              /\ UNCHANGED <<contained, stage, under, trail, rollbacks>>
            BY <1>6 DEF Conclude, Abandon, Step, executionVars
        <2>2. \A s \in Request : request'[s] = IF s = r THEN Idle ELSE request[s]
            BY <1>0, <2>1 DEF Shape
        <2>3. Shape' /\ Evidence'
            <3>1. Shape'
                BY <1>0, <2>1, <2>2 DEF Shape
            <3>2. Evidence'
                BY <1>0, <2>1, <2>2, IdleAt, TrailGrows DEF Evidence
            <3> QED
                BY <3>1, <3>2
        <2>4. \A s \in Request : request'[s].at \in
                 {"none", "call", "send", "answered", "done", "failed"}
            BY <1>0, <2>2, IdleAt DEF TypeOK
        <2>5. RestoredWasContained'
            BY <1>0, <2>1 DEF RestoredWasContained
        <2>6. TypeOK' /\ Marks'
            <3>1. CASE Abandon(r)
                BY <1>0, <2>1, <2>4, <3>1, TrailGrows DEF Abandon, TypeOK, Marks
            <3>2. CASE Conclude(r)
                <4>1. /\ request[r] \in Pending
                      /\ stage[request[r].of] = "SUCCEEDED"
                      /\ AlreadyIn(trail, "restored", request[r].of, request[r].under)
                    BY <1>0, <3>2, NotAtRest DEF Conclude, Step, Evidence, Shape, Idle
                <4>2. request[r].of \in Execution /\ request[r].under \in Correlation
                    BY <4>1 DEF Pending
                <4>3. /\ reverted' \in [Execution -> Correlation \cup {None}]
                      /\ \A e \in Execution : reverted'[e] =
                            IF e = request[r].of THEN request[r].under ELSE reverted[e]
                    BY <1>0, <3>2, <4>2 DEF Conclude, TypeOK
                <4>4. TypeOK'
                    BY <1>0, <2>1, <2>4, <4>1, <4>3 DEF TypeOK
                <4>5. Marks'
                    BY <1>0, <2>1, <4>1, <4>3, TrailGrows DEF Marks
                <4> QED
                    BY <4>4, <4>5
            <3> QED
                BY <1>6, <3>1, <3>2
        <2> QED
            BY <2>3, <2>5, <2>6 DEF IInv, RestIInv
    <1> QED
        BY <1>1, <1>2, <1>3, <1>4, <1>5, <1>6

----------------------------------------------------------------------------
LEMMA InitInv == ASSUME ContainmentAssumption, Init PROVE IInv
    BY DEF ContainmentAssumption, Init, IInv, RestIInv, TypeOK, Shape, Evidence,
           Marks, RestoredWasContained, Idle, Verdict

LEMMA NextInv == ASSUME ContainmentAssumption, IInv, [Next]_containmentVars
                 PROVE  IInv'
    <1>1. CASE Next
        BY <1>1, ExecutionSteps, ByHand, RollbackSteps DEF Next
    <1>2. CASE UNCHANGED containmentVars
        <2>1. TypeOK' /\ Shape'
            BY <1>2 DEF IInv, RestIInv, TypeOK, Shape, containmentVars
        <2>2. Evidence' /\ Marks' /\ RestoredWasContained'
            BY <1>2 DEF IInv, Evidence, Marks, RestoredWasContained, containmentVars
        <2> QED
            BY <2>1, <2>2 DEF IInv, RestIInv
    <1> QED
        BY <1>1, <1>2

LEMMA AlwaysInv == ContainmentAssumption /\ Spec => []IInv
    <1> SUFFICES ASSUME ContainmentAssumption PROVE Spec => []IInv
        OBVIOUS
    <1>1. Init => IInv
        BY InitInv
    <1>2. IInv /\ [Next]_containmentVars => IInv'
        BY NextInv
    <1> QED
        BY <1>1, <1>2, PTL DEF Spec

(* Only executions that succeeded are reverted, executions are known by a  *)
(* correlation from their start on, and the trail names their own targets. *)
THEOREM TypeCorrect == ContainmentAssumption /\ Spec => []TypeOK
    <1>1. IInv => TypeOK
        BY DEF IInv, RestIInv
    <1> QED
        BY <1>1, AlwaysInv, PTL

(* rollback marks an execution only for a reverse action on the trail,     *)
(* whatever is lost, dies or is repeated, for any number of operators.     *)
THEOREM RollbackIsTrueHolds == ContainmentAssumption /\ Spec => []RollbackIsTrue
    <1>1. IInv => RollbackIsTrue
        BY MarksAreTrue DEF IInv
    <1> QED
        BY <1>1, AlwaysInv, PTL

(* What a rollback gives back had been contained by an execution.          *)
THEOREM RestoredWasContainedHolds ==
    ContainmentAssumption /\ Spec => []RestoredWasContained
    <1>1. IInv => RestoredWasContained
        BY DEF IInv
    <1> QED
        BY <1>1, AlwaysInv, PTL
=============================================================================
