--------------------------- MODULE PlaybookRelease ---------------------------
(***************************************************************************)
(* The versions of one playbook of the catalogue, from draft to retired,   *)
(* and the engine bindings that arm them.  Operators draft, validate and   *)
(* publish versions and switch bindings; every listing of the library      *)
(* first brings the tenant in line with the catalogue the product ships.   *)
(* Listing, switching and binding read without locks and write later, each *)
(* writing only the columns its own copy saw change.                       *)
(*                                                                         *)
(* Source: playbooks/application/administration_service.py, with the       *)
(* CHECKs and unique keys of migrations 0016 and 0020.  A digest cannot    *)
(* change after a draft is stored, so a binding's digests agree exactly    *)
(* when it is synchronized.  An n8n binding is created PENDING and nothing *)
(* ever synchronizes it, so it is never armed: only native ones are here.  *)
(***************************************************************************)
EXTENDS Integers, Sequences, FiniteSets, FiniteSetsExt

CONSTANTS User, Procedure, Action, Instance, Request,
          Uses,        \* the actions of a procedure
          ZeroConfig,  \* actions without a connector
          Wazuh,       \* actions bound to the tenant's Wazuh connector
          HighImpact,  \* procedures of HIGH or CRITICAL impact
          Minimum,     \* PLAYBOOK_GOVERNANCE_TAXONOMY, by procedure shipped
          TopMode,     \* the rank of the strictest approval mode
          First,       \* the procedure shipped at first
          Runner,      \* instance the catalogue binds, "native-runner"
          Local,       \* instance a switch creates, "cyrvanta-native"
          MaxVersion,  \* bound on the versions of the playbook
          MaxRemaps,   \* bound on the releases that change the catalogue
          MaxRequests, \* bound on the requests that read before they write
          NoUser, Gone

ReleaseAssumption ==
    /\ Uses \in [Procedure -> SUBSET Action]
    /\ ZeroConfig \cup Wazuh \subseteq Action
    /\ HighImpact \subseteq Procedure
    /\ TopMode \in Nat
    /\ Minimum \in [Procedure -> 0 .. TopMode]
    /\ {Runner, Local} \subseteq Instance
    /\ First \in Procedure
    /\ NoUser \notin User /\ Gone \notin Procedure
    /\ MaxVersion \in Nat /\ MaxRemaps \in Nat /\ MaxRequests \in Nat

VARIABLES catalogue, \* the procedure the product ships for it, or Gone
          mode,      \* playbook_definitions.approval_mode, as a rank
          version,   \* playbook_versions, by version number
          created,   \* their numbers in the order of created_at
          binding,   \* automation_engine_bindings, by version and instance
          grip,      \* native_action_bindings, by action
          connector, \* whether an action's connector passes its checks
          request,   \* what an open request has read
          opened,    \* requests so far
          remaps

releaseVars == <<catalogue, mode, version, created, binding, grip, connector,
                 request, opened, remaps>>
versionVars == <<mode, version, created>>
actionVars == <<grip, connector>>
shipped == <<catalogue, remaps>>
requestVars == <<request, opened>>

Number == 1 .. MaxVersion
Nobody == [status |-> "NONE", procedure |-> Gone,
           registrar |-> NoUser, validator |-> NoUser]
Idle == [op |-> "none"]
Existing == {created[i] : i \in 1 .. Len(created)}

TypeOK ==
    /\ catalogue \in Procedure \cup {Gone}
    /\ mode \in 0 .. TopMode
    /\ version \in [Number ->
          [status : {"NONE", "DRAFT", "APPROVED", "RETIRED"},
           procedure : Procedure \cup {Gone},
           registrar : User \cup {NoUser}, validator : User \cup {NoUser}]]
    /\ Existing = {n \in Number : version[n].status # "NONE"}
    /\ Cardinality(Existing) = Len(created)
    /\ binding \in [Number \X Instance ->
                      {"NONE", "PENDING", "SYNCHRONIZED", "ARMED"}]
    /\ \A n \in Number, i \in Instance :
          binding[<<n, i>>] # "NONE" => n \in Existing
    /\ grip \in [Action -> {"NONE", "OFF", "VERIFIED"}]
    /\ connector \in [Action -> BOOLEAN]
    /\ \A r \in Request : request[r].op \in {"none", "seed", "bind", "switch"}
    /\ opened \in 0 .. MaxRequests
    /\ remaps \in 0 .. MaxRemaps

Init ==
    /\ catalogue = First
    /\ mode = 0
    /\ version = [n \in Number |-> Nobody]
    /\ created = <<>>
    /\ binding = [b \in Number \X Instance |-> "NONE"]
    /\ grip = [a \in Action |-> "NONE"]
    /\ connector = [a \in Action |-> a \in ZeroConfig]
    /\ request = [r \in Request |-> Idle]
    /\ opened = 0
    /\ remaps = 0

----------------------------------------------------------------------------
(* Versions: the row is locked, so a handler reads and writes in one step. *)

\* _native_action_blockers finds none.
ReadyWith(g, p) == \A a \in Uses[p] : g[a] = "VERIFIED" /\ connector[a]
Ready(p) == ReadyWith(grip, p)

\* _version_errors finds none: retired codes are not implemented any more.
Implemented == catalogue # Gone

High(n) == version[n].procedure \in HighImpact

CreateVersion(u, n, p) ==
    /\ version[n].status = "NONE"
    /\ version' = [version EXCEPT ![n] =
          [status |-> "DRAFT", procedure |-> p,
           registrar |-> u, validator |-> NoUser]]
    /\ created' = Append(created, n)
    /\ UNCHANGED <<mode, binding, actionVars, requestVars, shipped>>

\* Nothing asks what status the version is in.
ValidateVersion(u, n) ==
    /\ n \in Existing
    /\ Implemented
    /\ High(n) => version[n].registrar # u
    /\ version' = [version EXCEPT ![n].validator = u]
    /\ UNCHANGED <<mode, created, binding, actionVars, requestVars, shipped>>

\* Mutant: any version that was validated may be published.
PublishVersion_AnyStatus(u, n) ==
    /\ version[n].validator # NoUser
    /\ High(n) => u \notin {version[n].registrar, version[n].validator}
    /\ version' = [version EXCEPT ![n].status = "APPROVED"]
    /\ UNCHANGED <<mode, created, binding, actionVars, requestVars, shipped>>

PublishVersion(u, n) ==
    /\ version[n].status = "DRAFT"
    /\ version[n].validator # NoUser
    /\ High(n) => u \notin {version[n].registrar, version[n].validator}
    /\ version' = [version EXCEPT ![n].status = "APPROVED"]
    /\ UNCHANGED <<mode, created, binding, actionVars, requestVars, shipped>>

UpdateApprovalGovernance(m) ==
    /\ created # <<>>
    /\ m >= IF Implemented THEN Minimum[catalogue] ELSE 0
    /\ mode' = m
    /\ UNCHANGED <<version, created, binding, actionVars, requestVars, shipped>>

----------------------------------------------------------------------------
(* Actions and their connectors.                                           *)

\* create_action_binding: what was verified must be verified again.
ConfigureAction(a) ==
    /\ connector[a]
    /\ grip' = [grip EXCEPT ![a] = "OFF"]
    /\ UNCHANGED <<versionVars, binding, connector, requestVars, shipped>>

VerifyAction(a) ==
    /\ grip[a] # "NONE"
    /\ connector[a]
    /\ grip' = [grip EXCEPT ![a] = "VERIFIED"]
    /\ UNCHANGED <<versionVars, binding, connector, requestVars, shipped>>

\* A health check or an edit of the integration changes what it is good for.
ConnectorChanges(a) ==
    /\ a \notin ZeroConfig
    /\ connector' = [connector EXCEPT ![a] = ~@]
    /\ UNCHANGED <<versionVars, binding, grip, requestVars, shipped>>

----------------------------------------------------------------------------
(* Bindings.                                                               *)

\* The version's status is not read.  When the actions are not ready the
\* handler writes UNAVAILABLE, which the CHECK on sync_status refuses: the
\* transaction is rolled back and the binding stays as it was.
ProbeBinding(n, i) ==
    /\ binding[<<n, i>>] # "NONE"
    /\ Implemented
    /\ Ready(version[n].procedure)
    /\ binding' = [binding EXCEPT ![<<n, i>>] = "ARMED"]
    /\ UNCHANGED <<versionVars, actionVars, requestVars, shipped>>

Open(r, read) ==
    /\ request[r] = Idle
    /\ opened < MaxRequests
    /\ request' = [request EXCEPT ![r] = read]
    /\ opened' = opened + 1

Close(r) ==
    /\ request' = [request EXCEPT ![r] = Idle]
    /\ UNCHANGED opened

\* A request fails, is refused or loses its client, and writes nothing.
Abandon(r) ==
    /\ request[r] # Idle
    /\ Close(r)
    /\ UNCHANGED <<versionVars, binding, actionVars, shipped>>

CreateBinding(r, n, i) ==
    /\ version[n].status = "APPROVED"
    /\ Implemented
    /\ Open(r, [op |-> "bind", of |-> n, at |-> i,
                ready |-> Ready(version[n].procedure)])
    /\ UNCHANGED <<versionVars, binding, actionVars, shipped>>

CreateBindingCommit(r) ==
    LET q == request[r] IN
    /\ q.op = "bind"
    /\ binding[<<q.of, q.at>>] = "NONE"
    /\ binding' = [binding EXCEPT ![<<q.of, q.at>>] =
                      IF q.ready THEN "ARMED" ELSE "PENDING"]
    /\ Close(r)
    /\ UNCHANGED <<versionVars, actionVars, shipped>>

\* toggle_definition_binding reads the newest approved version, one of its
\* native bindings and, to activate it or to create it, its readiness.
Toggle(r, on) ==
    /\ \E k \in 1 .. Len(created) :
          LET n == created[k]
              Native == {i \in Instance : binding[<<n, i>>] # "NONE"} IN
          /\ version[n].status = "APPROVED"
          /\ \A l \in k + 1 .. Len(created) :
                version[created[l]].status # "APPROVED"
          /\ \E i \in IF Native = {} THEN {Local} ELSE Native :
                /\ on /\ Native # {} => Ready(version[n].procedure)
                /\ Open(r, [op |-> "switch", of |-> n, at |-> i, on |-> on,
                            was |-> binding[<<n, i>>],
                            ready |-> Ready(version[n].procedure)])
    /\ UNCHANGED <<versionVars, binding, actionVars, shipped>>

\* What becomes of the row the switch has in hand, now in state now; Refused
\* is a row the CHECK does not admit, armed but not synchronized, or one that
\* another request inserted first.
Refused == "REFUSED"
Switched(q, now) ==
    CASE q.was = "NONE" -> IF now # "NONE" THEN Refused
                           ELSE IF ~q.ready THEN "PENDING"
                           ELSE IF q.on THEN "ARMED" ELSE "SYNCHRONIZED"
      [] q.was = "ARMED" -> IF ~q.on /\ now = "ARMED" THEN "SYNCHRONIZED"
                            ELSE now
      [] q.was = "PENDING" -> IF q.on THEN "ARMED" ELSE now
      [] q.was = "SYNCHRONIZED" -> IF ~q.on THEN now
                                   ELSE IF now = "PENDING" THEN Refused
                                   ELSE "ARMED"

ToggleCommit(r) ==
    LET q == request[r] IN
    /\ q.op = "switch"
    /\ Switched(q, binding[<<q.of, q.at>>]) # Refused
    /\ binding' = [b \in Number \X Instance |->
          IF b = <<q.of, q.at>> THEN Switched(q, binding[b])
          ELSE IF q.on /\ b[1] = q.of /\ binding[b] = "ARMED"
               THEN "SYNCHRONIZED" ELSE binding[b]]
    /\ Close(r)
    /\ UNCHANGED <<versionVars, actionVars, shipped>>

----------------------------------------------------------------------------
(* Listing the library seeds it: _ensure_essential_definitions_seeded.     *)

Seed(r) ==
    /\ Open(r, [op |-> "seed", order |-> created,
                seen |-> [n \in Existing |-> version[n].status]])
    /\ UNCHANGED <<versionVars, binding, actionVars, shipped>>

\* matches_current_catalog, for a version as the request saw it.
Matches(q, n) ==
    /\ q.seen[n] \in {"DRAFT", "APPROVED"}
    /\ version[n].procedure = catalogue

Matching(q) == {n \in DOMAIN q.seen : Implemented /\ Matches(q, n)}

\* The newest version that runs the catalogue's procedure, else one to add.
Current(q) ==
    LET At(n) == CHOOSE k \in 1 .. Len(q.order) : q.order[k] = n
    IN  IF Matching(q) # {}
        THEN CHOOSE n \in Matching(q) : \A m \in Matching(q) : At(n) >= At(m)
        ELSE Max(DOMAIN q.seen \cup {0}) + 1

Superseded(q) == DOMAIN q.seen \ Matching(q)

\* Mutant: only the bindings the catalogue made are disarmed.
Disarmed_RunnerOnly(q, b) ==
    b[1] \in Superseded(q) /\ b[2] = Runner /\ binding[b] = "ARMED"

\* _disarm_version_bindings finds the bindings that are active by now.
Disarmed(q, b) == b[1] \in Superseded(q) /\ binding[b] = "ARMED"

\* A draft it retires may have been published since it looked; its
\* approved_at is then still set, which ck_playbook_version_approval refuses.
Retirable(q) == \A n \in Superseded(q) :
    q.seen[n] = "DRAFT" => version[n].status # "APPROVED"

SeededVersion(q, u) ==
    [n \in Number |->
        IF n \in Superseded(q) THEN [version[n] EXCEPT !.status = "RETIRED"]
        ELSE IF ~Implemented \/ n # Current(q) THEN version[n]
        ELSE IF n \notin Matching(q)
             THEN [status |-> "APPROVED", procedure |-> catalogue,
                   registrar |-> NoUser, validator |-> u]
        ELSE IF q.seen[n] = "DRAFT"
             THEN [version[n] EXCEPT !.status = "APPROVED", !.validator = u]
        ELSE version[n]]

\* Zero-configuration actions bind themselves; Wazuh's follow its connector.
SeededGrip == [a \in Action |->
    IF a \in ZeroConfig \/ (a \in Wazuh /\ connector[a]) THEN "VERIFIED"
    ELSE IF a \in Wazuh /\ grip[a] = "VERIFIED" THEN "OFF" ELSE grip[a]]

\* u is any user of the tenant: the query that names the validator has no order.
SeedCommit(r, u) ==
    LET q == request[r]
        New == Implemented /\ Matching(q) = {}
        Bound == {i \in Instance : binding[<<Current(q), i>>] # "NONE"}
        Arming == IF ReadyWith(SeededGrip, catalogue) THEN "ARMED"
                  ELSE "PENDING" IN
    /\ q.op = "seed"
    /\ Retirable(q)
    /\ New => Current(q) \in Number \ Existing
    /\ mode' = IF Implemented /\ mode < Minimum[catalogue]
               THEN Minimum[catalogue] ELSE mode
    /\ version' = SeededVersion(q, u)
    /\ created' = IF New THEN Append(created, Current(q)) ELSE created
    /\ grip' = SeededGrip
    /\ \/ /\ Implemented
          /\ \E i \in IF New \/ Bound = {} THEN {Runner} ELSE Bound :
                binding' = [b \in Number \X Instance |->
                   IF b = <<Current(q), i>> THEN Arming
                   ELSE IF Disarmed(q, b) THEN "PENDING" ELSE binding[b]]
       \/ /\ ~Implemented
          /\ binding' = [b \in Number \X Instance |->
                            IF Disarmed(q, b) THEN "PENDING" ELSE binding[b]]
    /\ Close(r)
    /\ UNCHANGED <<connector, shipped>>

\* A release of the product maps the playbook to other actions, or drops it.
Remap(p) ==
    /\ remaps < MaxRemaps
    /\ \A r \in Request : request[r] = Idle
    /\ p # catalogue
    /\ catalogue' = p
    /\ remaps' = remaps + 1
    /\ UNCHANGED <<versionVars, binding, actionVars, requestVars>>

Next ==
    \/ \E u \in User, n \in Number, p \in Procedure :
          CreateVersion(u, n, p)
    \/ \E u \in User, n \in Number :
          ValidateVersion(u, n) \/ PublishVersion(u, n)
    \/ \E m \in 0 .. TopMode : UpdateApprovalGovernance(m)
    \/ \E a \in Action :
          ConfigureAction(a) \/ VerifyAction(a) \/ ConnectorChanges(a)
    \/ \E n \in Number, i \in Instance : ProbeBinding(n, i)
    \/ \E r \in Request :
          \/ Abandon(r) \/ CreateBindingCommit(r) \/ ToggleCommit(r) \/ Seed(r)
          \/ \E n \in Number, i \in Instance : CreateBinding(r, n, i)
          \/ \E on \in BOOLEAN : Toggle(r, on)
          \/ \E u \in User : SeedCommit(r, u)
    \/ \E p \in Procedure \cup {Gone} : Remap(p)

Spec == Init /\ [][Next]_releaseVars

----------------------------------------------------------------------------
(* Retiring is final: no publication, listing or race between them brings  *)
(* back a version that executions already count as history.                *)
RetirementIsFinal == [][\A n \in Number :
    version[n].status = "RETIRED" => version'[n].status = "RETIRED"]_releaseVars

(* A listing leaves no version it saw armed unless that version runs the   *)
(* catalogue's procedure, whoever armed it since the listing read it       *)
(* (_retire_superseded_versions, "it stays dispatchable until it is        *)
(* retired").                                                              *)
ListingDisarmsPredecessors == [][\A r \in Request, u \in User :
    SeedCommit(r, u) =>
        \A n \in DOMAIN request[r].seen, i \in Instance :
            binding'[<<n, i>>] = "ARMED" => version[n].procedure = catalogue
    ]_releaseVars

(* Does not hold of the code, see README: a retired version has no armed   *)
(* binding ("Leave no engine binding able to dispatch this version",       *)
(* _disarm_version_bindings).                                              *)
RetiredStaysDisarmed == \A n \in Number, i \in Instance :
    version[n].status = "RETIRED" => binding[<<n, i>>] # "ARMED"
=============================================================================
