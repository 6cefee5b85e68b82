----------------------------- MODULE Correlation -----------------------------
(***************************************************************************)
(* Findings become incidents.  A finding on file is the trigger of a rule: *)
(* the handler looks back over the rule's window, and when what it sees    *)
(* makes a match it reserves the match, looks for an incident that earlier *)
(* matches of the same rule and entity opened, and joins it, or opens one  *)
(* if there is none by then.  Handlers run side by side; one transaction   *)
(* each, which a crash undoes and a redelivery repeats.  Beside them a     *)
(* sweep opens or joins incidents of entities whose findings add up, and   *)
(* analysts close and reopen what they like.                               *)
(*                                                                         *)
(* Source: correlation/, and incident/application/correlation.py.  One     *)
(* rule code with its versions is followed: rules of other codes group     *)
(* apart.  The Wazuh normalizer names at most one entity of each kind and  *)
(* marks nothing as simulated.  Claims, events and audit are left out.     *)
(***************************************************************************)
EXTENDS Integers, FiniteSets

CONSTANTS Finding,
          At,       \* effective_at, in minutes
          Source,   \* source_system
          Severity, \* severity_score
          Entity,   \* the entity a rule of this code groups a finding by
          Rule,     \* versions
          Definition,
          Initial,  \* the versions that are active at first
          Handler,
          Nothing,  \* no entity, no signal, no case, no rule
          MaxCase,    \* bound on the incidents
          MaxActs     \* bound on crashes, sweeps and what people do but closing

\* A definition as _rule reads it: what its selectors make of each finding,
\* whom its allowlist admits, and its numbers; minSeverity 101 is none.
CorrelationAssumption ==
    /\ At \in [Finding -> Nat] /\ Severity \in [Finding -> 0 .. 100]
    /\ Nothing \notin Finding \cup Rule /\ MaxCase \in Nat
    /\ Initial \subseteq Rule /\ \A r, s \in Initial : r = s
    /\ \A r \in Rule :
          /\ DOMAIN Definition[r].signal = Finding
          /\ Definition[r].admits \subseteq Finding
          /\ Definition[r].window \in 1 .. 1440
          /\ Definition[r].threshold \in 0 .. 100
          /\ Definition[r].minSeverity \in 0 .. 101
          /\ {Definition[r].candidates, Definition[r].members} \subseteq Nat \ {0}
    /\ MaxActs \in Nat

VARIABLES rule,       \* correlation_rule_versions.status
          activating, \* the draft an administrator read and is activating
          onFile,     \* findings with a revision
          waiting,    \* findings whose event is not handled
          refused,    \* findings a limit of the rule refused, parked
          run,        \* correlation_runs that are committed
          case,       \* incidents: their state and alerts
          task,       \* what a handler's open transaction has found
          sweep,      \* what the sweep's open transaction has found
          acts

correlationVars == <<rule, activating, onFile, waiting, refused, run, case,
                     task, sweep, acts>>
ruleVars == <<rule, activating>>
findingVars == <<onFile, waiting, refused>>

Case == 1 .. MaxCase
Idle == [trigger |-> Nothing]
NoSweep == [alerts |-> {}, prior |-> Nothing]

TypeOK ==
    /\ rule \in [Rule -> {"NONE", "DRAFT", "ACTIVE", "RETIRED"}]
    /\ \A r, s \in Rule : rule[r] = "ACTIVE" /\ rule[s] = "ACTIVE" => r = s
    /\ activating \in Rule \cup {Nothing}
    /\ waiting \cup refused \subseteq onFile /\ onFile \subseteq Finding
    /\ waiting \cap refused = {}
    /\ \A m, n \in run : m.rule = n.rule /\ m.members = n.members => m = n
    /\ \A m \in run : m.members \subseteq case[m.case].alerts
    /\ case \in [Case -> [state : {"none", "open", "shut"}, alerts : SUBSET Finding]]
    /\ \A h \in Handler : task[h] = Idle \/ task[h].trigger \in waiting
    /\ sweep.alerts \subseteq onFile /\ sweep.prior \in Case \cup {Nothing}
    /\ acts \in 0 .. MaxActs

Init ==
    /\ rule = [r \in Rule |-> IF r \in Initial THEN "ACTIVE" ELSE "NONE"]
    /\ activating = Nothing
    /\ onFile = {} /\ waiting = {} /\ refused = {}
    /\ run = {}
    /\ case = [c \in Case |-> [state |-> "none", alerts |-> {}]]
    /\ task = [h \in Handler |-> Idle]
    /\ sweep = NoSweep
    /\ acts = 0

----------------------------------------------------------------------------
(* What a rule makes of a trigger.                                         *)

\* Mutant: the window's oldest minute is not in it.
InWindow_Open(r, t, f) == At[t] - Definition[r].window < At[f] /\ At[f] <= At[t]

\* The window ends at the trigger itself, both ends included.
InWindow(r, t, f) == At[t] - Definition[r].window <= At[f] /\ At[f] <= At[t]

Candidates(r, t) == {f \in onFile : InWindow(r, t, f)}

Speaks(r, f) == f \in Definition[r].admits /\ Definition[r].signal[f] # Nothing
Triggers(r, t) == Speaks(r, t) /\ Entity[t] # Nothing

Selected(r, t) == {f \in Candidates(r, t) : Speaks(r, f) /\ Entity[f] = Entity[t]}

TooMuch(r, t) ==
    \/ Cardinality(Candidates(r, t)) > Definition[r].candidates
    \/ Triggers(r, t) /\ Cardinality(Selected(r, t)) > Definition[r].members

Several(S) == Cardinality(S) > 1
Signals(r, t) == {Definition[r].signal[f] : f \in Selected(r, t)}
Sources(r, t) == {Source[f] : f \in Selected(r, t)}
Points(holds, weight) == IF holds THEN weight ELSE 0

\* Grouping and diversity count in both modes; a pattern needs two signals in
\* the window, a severe trigger stands on its own.
Grave(r, t) == Severity[t] >= Definition[r].minSeverity
Pattern(r, t) == Several(Signals(r, t)) /\ Several(Selected(r, t))
ByPattern(r) == Definition[r].minSeverity = 101
Score(r, t) == 40 + (IF ByPattern(r) THEN 25 + 20 ELSE 45)
                  + Points(Several(Sources(r, t)), 15)

Matches(r, t) ==
    /\ Triggers(r, t)
    /\ IF ByPattern(r) THEN Pattern(r, t) ELSE Grave(r, t)
    /\ Score(r, t) >= Definition[r].threshold

----------------------------------------------------------------------------
(* Handling a finding.                                                     *)

\* One of the acts the bound counts.
Act == acts < MaxActs /\ acts' = acts + 1

Taken == {task[h].trigger : h \in Handler}
Active == {r \in Rule : rule[r] = "ACTIVE"}

Arrive(f) ==
    /\ f \notin onFile
    /\ onFile' = onFile \cup {f}
    /\ waiting' = waiting \cup {f}
    /\ UNCHANGED <<ruleVars, refused, run, case, task, sweep, acts>>

Found(r, t) == [rule |-> r, entity |-> Entity[t], members |-> Selected(r, t)]
Same(m, found) == m.rule = found.rule /\ m.members = found.members
Group(m, found) == m.rule = found.rule /\ m.entity = found.entity

\* Nothing matches, or the very match is there already.
Pass(t) ==
    /\ t \in waiting \ Taken
    /\ \A r \in Active : /\ ~TooMuch(r, t)
                         /\ Matches(r, t) => \E m \in run : Same(m, Found(r, t))
    /\ waiting' = waiting \ {t}
    /\ UNCHANGED <<ruleVars, onFile, refused, run, case, task, sweep, acts>>

\* CorrelationLimitExceeded fails every delivery of the event.
Refuse(t) ==
    /\ t \in waiting \ Taken
    /\ \E r \in Active : TooMuch(r, t)
    /\ waiting' = waiting \ {t}
    /\ refused' = refused \cup {t}
    /\ UNCHANGED <<ruleVars, onFile, run, case, task, sweep, acts>>

\* prior_incident: an open incident that a match of the group is attached to.
Prior(found) ==
    {c \in Case : case[c].state = "open"
                  /\ \E m \in run : Group(m, found) /\ m.case = c}

\* reserve_match, which waits for a handler that is inserting the same match.
Reserve(h, t, r) ==
    LET found == Found(r, t) IN
    /\ task[h] = Idle
    /\ t \in waiting \ Taken
    /\ r \in Active
    /\ ~TooMuch(r, t) /\ Matches(r, t)
    /\ \A m \in run : ~Same(m, found)
    /\ \A k \in Handler : task[k] # Idle => ~Same(task[k].found, found)
    /\ \E c \in IF Prior(found) = {} THEN {Nothing} ELSE Prior(found) :
          task' = [task EXCEPT ![h] = [trigger |-> t, found |-> found, prior |-> c]]
    /\ UNCHANGED <<ruleVars, findingVars, run, case, sweep, acts>>

New(c) == case[c].state = "none" /\ \A d \in 1 .. c - 1 : case[d].state # "none"

\* Mutant: the incident is as the handler found it.
StillActive_AsFound(c) == c # Nothing

\* apply_match locks the incident and looks at it once more.
StillActive(c) == c # Nothing /\ case[c].state = "open"

Joined(c, alerts) ==
    [case EXCEPT ![c] = [state |-> IF @.state = "none" THEN "open" ELSE @.state,
                         alerts |-> @.alerts \cup alerts]]

Apply(h) ==
    LET q == task[h] IN
    /\ q # Idle
    /\ \E c \in Case :
          /\ IF StillActive(q.prior) THEN c = q.prior ELSE New(c)
          /\ case' = Joined(c, q.found.members)
          /\ run' = run \cup {[rule |-> q.found.rule, entity |-> q.found.entity,
                               members |-> q.found.members, case |-> c]}
    /\ task' = [task EXCEPT ![h] = Idle]
    /\ waiting' = waiting \ {q.trigger}
    /\ UNCHANGED <<ruleVars, onFile, refused, sweep, acts>>

Crash(h) ==
    /\ task[h] # Idle
    /\ Act
    /\ task' = [task EXCEPT ![h] = Idle]
    /\ UNCHANGED <<ruleVars, findingVars, run, case, sweep>>

----------------------------------------------------------------------------
(* The sweep over entities: one entity of one tenant, one transaction.     *)

\* The score is a sum of decaying weights: here it may reach its threshold
\* whenever the entity has findings.
SweepReads(entity) ==
    LET alerts == {f \in onFile : Entity[f] = entity}
        Known == {c \in Case : case[c].state = "open"
                               /\ case[c].alerts \cap alerts # {}} IN
    /\ sweep = NoSweep
    /\ entity # Nothing /\ alerts # {}
    /\ \E c \in IF Known = {} THEN {Nothing} ELSE Known :
          sweep' = [alerts |-> alerts, prior |-> c]
    /\ Act
    /\ UNCHANGED <<ruleVars, findingVars, run, case, task>>

\* The incident it found is not looked at again.
SweepApplies ==
    /\ sweep # NoSweep
    /\ \E c \in Case :
          /\ IF sweep.prior # Nothing THEN c = sweep.prior ELSE New(c)
          /\ case' = Joined(c, sweep.alerts)
    /\ sweep' = NoSweep
    /\ UNCHANGED <<ruleVars, findingVars, run, task, acts>>

SweepFails ==
    /\ sweep # NoSweep
    /\ sweep' = NoSweep
    /\ UNCHANGED <<ruleVars, findingVars, run, case, task, acts>>

----------------------------------------------------------------------------
(* Analysts and administrators.                                            *)

SetState(c, state) ==
    /\ case' = [case EXCEPT ![c].state = state]
    /\ UNCHANGED <<ruleVars, findingVars, run, task, sweep>>

Shut(c) == case[c].state = "open" /\ SetState(c, "shut") /\ UNCHANGED acts

Reopen(c) == case[c].state = "shut" /\ SetState(c, "open") /\ Act

rulesOnly == <<findingVars, run, case, task, sweep>>

CreateDraft(r) ==
    /\ rule[r] = "NONE"
    /\ rule' = [rule EXCEPT ![r] = "DRAFT"]
    /\ Act
    /\ UNCHANGED <<activating, rulesOnly>>

\* activate reads the draft without a lock, then retires what is active.
Activate(r) ==
    /\ rule[r] = "DRAFT" /\ activating = Nothing
    /\ activating' = r
    /\ Act
    /\ UNCHANGED <<rule, rulesOnly>>

ActivateCommit ==
    /\ activating # Nothing
    /\ rule' = [r \in Rule |-> IF r = activating THEN "ACTIVE"
                               ELSE IF rule[r] = "ACTIVE" THEN "RETIRED"
                               ELSE rule[r]]
    /\ activating' = Nothing
    /\ UNCHANGED <<rulesOnly, acts>>

Retire(r) ==
    /\ rule[r] \notin {"NONE", "RETIRED"}
    /\ rule' = [rule EXCEPT ![r] = "RETIRED"]
    /\ Act
    /\ UNCHANGED <<activating, rulesOnly>>

Handle(t) == Pass(t) \/ Refuse(t) \/ \E h \in Handler, r \in Rule : Reserve(h, t, r)

Next ==
    \/ \E f \in Finding : Arrive(f) \/ Pass(f) \/ Refuse(f)
    \/ \E h \in Handler, f \in Finding, r \in Rule : Reserve(h, f, r)
    \/ \E h \in Handler : Apply(h) \/ Crash(h)
    \/ \E f \in Finding : SweepReads(Entity[f])
    \/ SweepApplies \/ SweepFails \/ ActivateCommit
    \/ \E c \in Case : Shut(c) \/ Reopen(c)
    \/ \E r \in Rule : CreateDraft(r) \/ Activate(r) \/ Retire(r)

\* The bus delivers until a finding is handled, and a transaction ends.
Fairness == /\ \A f \in Finding : WF_correlationVars(Handle(f))
            /\ \A h \in Handler : WF_correlationVars(Apply(h))

Spec == Init /\ [][Next]_correlationVars
FairSpec == Spec /\ Fairness

----------------------------------------------------------------------------
(* A match adds evidence to an incident only while it is open: what an     *)
(* analyst closed in the meantime is left as it was closed.                *)
EvidenceOnlyToLiveCases == [][\A h \in Handler, c \in Case :
    Apply(h) /\ case'[c].alerts # case[c].alerts => case'[c].state = "open"
    ]_correlationVars

Pairs == {p \in Rule \X Finding \X Finding :
    LET r == p[1] t == p[2] f == p[3] IN
    /\ t # f /\ At[t] - At[f] \in 0 .. Definition[r].window
    /\ Triggers(r, t) /\ Speaks(r, f) /\ Entity[f] = Entity[t]
    /\ Definition[r].signal[t] # Definition[r].signal[f]
    /\ ByPattern(r) /\ Definition[r].threshold <= 85}

(* Two findings of one entity that a rule tells apart and that lie within  *)
(* its window end up in one match, if the older is on file when the        *)
(* younger comes up, whatever crashes and runs beside: no pattern hides at *)
(* the edge of a window ("what matters is how far apart two findings are", *)
(* window_bounds).  A limit may refuse the younger, and its rule may go.   *)
PatternIsNoticed == \A p \in Pairs :
    (rule[p[1]] = "ACTIVE" /\ p[3] \in onFile /\ p[2] \in waiting \ Taken)
        ~> \/ p[2] \in refused \/ rule[p[1]] # "ACTIVE"
           \/ \E m \in run : m.rule = p[1] /\ {p[2], p[3]} \subseteq m.members

(* Does not hold of the code, see README: a match opens an incident only   *)
(* when its group has none open ("how long that stays one incident is      *)
(* decided by whether the incident is still open", evaluate_rule).         *)
OpensOnlyWhenNoneIsOpen == [][\A h \in Handler, c \in Case :
    Apply(h) /\ case[c].state = "none" /\ case'[c].state # "none" =>
        Prior(task[h].found) = {}]_correlationVars

(* Does not hold of the code, see README: "a retired version cannot be     *)
(* reactivated" (rule_admin.py).                                           *)
RetiredRulesStay == [][\A r \in Rule :
    rule[r] = "RETIRED" => rule'[r] = "RETIRED"]_correlationVars
=============================================================================
