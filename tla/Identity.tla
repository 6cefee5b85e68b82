------------------------------- MODULE Identity -------------------------------
(***************************************************************************)
(* Sessions and the people who hold them.  A login asks Redis for the      *)
(* user's generation and leaves a refresh token under it; a refresh        *)
(* exchanges the token for another in one script; switching a user off or  *)
(* changing the password begins a new generation and clears the old        *)
(* tokens, call by call, before its database transaction commits.          *)
(*                                                                         *)
(* Source: identity/application/service.py and administration_service.py.  *)
(* Which password is right, names, permissions and access tokens are data. *)
(* A token that expires is one that is logged out and stays in the index.  *)
(***************************************************************************)
EXTENDS Naturals, FiniteSets

CONSTANTS User, Admins, \* who starts as a tenant-admin
          Request, Nobody,
          MaxTokens, MaxGeneration \* bounds on tokens and on revocations

IdentityAssumption ==
    /\ Admins \subseteq User /\ Nobody \notin User
    /\ MaxTokens \in Nat /\ MaxGeneration \in Nat

VARIABLES active,     \* users.is_active
          admin,      \* who has the role tenant-admin
          generation, \* user_refresh_generation
          store,      \* refresh:<digest>, the user and generation of a token
          index,      \* user_refresh, the digests of a user
          request,
          login,      \* history: the first token of the login each comes from
          ended       \* history: the logins a revocation has ended

identityVars == <<active, admin, generation, store, index, request, login, ended>>
userVars == <<active, admin>>
redisVars == <<generation, store, index>>
history == <<login, ended>>

Token == 1 .. MaxTokens
Gone == [of |-> Nobody, generation |-> 0]
Session == [of : User, generation : 0 .. MaxGeneration]
Live == {t \in Token : store[t] # Gone}
Issued == {t \in Token : login[t] # 0}
Idle == [op |-> "none"]

TypeOK ==
    /\ active \in [User -> BOOLEAN] /\ admin \in [User -> BOOLEAN]
    /\ generation \in [User -> 0 .. MaxGeneration]
    /\ store \in [Token -> Session \cup {Gone}]
    /\ index \in [User -> SUBSET Token]
    /\ \A u, v \in User : u # v => index[u] \cap index[v] = {}
    /\ \A t \in Live : t \in Issued /\ store[t].generation <= generation[store[t].of]
    /\ \A r \in Request : request[r].op \in
          {"none", "login", "issue", "refresh", "rotate", "logout",
           "bump", "list", "delete", "commit", "roles"}
    /\ login \in [Token -> 0 .. MaxTokens]
    /\ ended \subseteq Token

Init ==
    /\ active = [u \in User |-> TRUE]
    /\ admin = [u \in User |-> u \in Admins]
    /\ generation = [u \in User |-> 0]
    /\ store = [t \in Token |-> Gone]
    /\ index = [u \in User |-> {}]
    /\ request = [r \in Request |-> Idle]
    /\ login = [t \in Token |-> 0]
    /\ ended = {}

Step(r, from, to) ==
    /\ request[r].op = from
    /\ request' = [request EXCEPT ![r] = to]

\* A call fails, the client is refused or the process dies.
Fail(r) ==
    /\ request[r] # Idle
    /\ request' = [request EXCEPT ![r] = Idle]
    /\ UNCHANGED <<userVars, redisVars, history>>

----------------------------------------------------------------------------
(* Sessions.                                                               *)

Login(r, u) ==
    /\ active[u]
    /\ Step(r, "none", [op |-> "login", of |-> u])
    /\ UNCHANGED <<userVars, redisVars, history>>

\* A token number is drawn when the generation is known.
Fresh(t) == t \notin Issued /\ \A s \in 1 .. t - 1 : s \in Issued

ReadGeneration(r, t) ==
    LET u == request[r].of IN
    /\ Step(r, "login", [op |-> "issue", of |-> u, token |-> t,
                         generation |-> generation[u]])
    /\ Fresh(t)
    /\ login' = [login EXCEPT ![t] = t]
    /\ UNCHANGED <<userVars, redisVars, ended>>

\* Mutant: a token is issued whatever the generation has become.
MayIssue_AnyGeneration(q) == TRUE

\* ISSUE_REFRESH_SCRIPT.
MayIssue(q) == generation[q.of] = q.generation

Issue(r) ==
    LET q == request[r] IN
    /\ Step(r, "issue", Idle)
    /\ MayIssue(q)
    /\ store' = [store EXCEPT ![q.token] =
                    [of |-> q.of, generation |-> q.generation]]
    /\ index' = [index EXCEPT ![q.of] = @ \cup {q.token}]
    /\ UNCHANGED <<userVars, generation, history>>

Refresh(r, t) ==
    /\ t \in Live
    /\ Step(r, "none", [op |-> "refresh", old |-> t, of |-> store[t].of,
                        value |-> store[t]])
    /\ UNCHANGED <<userVars, redisVars, history>>

CheckUser(r) ==
    /\ Step(r, "refresh", [request[r] EXCEPT !.op = "rotate"])
    /\ active[request[r].of]
    /\ UNCHANGED <<userVars, redisVars, history>>

\* Mutant: the script does not compare the token with the one that was read.
MayRotate_NotCompared(q) == generation[q.of] = q.value.generation

\* ROTATE_REFRESH_SCRIPT: the token is as it was read, in its generation.
MayRotate(q) ==
    /\ store[q.old] = q.value
    /\ generation[q.of] = q.value.generation

Rotate(r, t) ==
    LET q == request[r] IN
    /\ Step(r, "rotate", Idle)
    /\ MayRotate(q)
    /\ Fresh(t)
    /\ store' = [store EXCEPT ![q.old] = Gone, ![t] = q.value]
    /\ index' = [index EXCEPT ![q.of] = (@ \ {q.old}) \cup {t}]
    /\ login' = [login EXCEPT ![t] = login[q.old]]
    /\ UNCHANGED <<userVars, generation, ended>>

Logout(r, t) ==
    /\ t \in Live
    /\ Step(r, "none", [op |-> "logout", of |-> store[t].of, token |-> t])
    /\ store' = [store EXCEPT ![t] = Gone]
    /\ UNCHANGED <<userVars, generation, index, history>>

DropFromIndex(r) ==
    /\ Step(r, "logout", Idle)
    /\ index' = [index EXCEPT ![request[r].of] = @ \ {request[r].token}]
    /\ UNCHANGED <<userVars, generation, store, history>>

----------------------------------------------------------------------------
(* Revocation.                                                             *)

LastAdmin(u) == admin[u] /\ Cardinality({v \in User : admin[v] /\ active[v]}) = 1

Deactivate(r, u) ==
    /\ active[u] /\ ~LastAdmin(u)
    /\ Step(r, "none", [op |-> "bump", of |-> u, off |-> TRUE])
    /\ UNCHANGED <<userVars, redisVars, history>>

UpdatePassword(r, u) ==
    /\ Step(r, "none", [op |-> "bump", of |-> u, off |-> FALSE])
    /\ UNCHANGED <<userVars, redisVars, history>>

\* _revoke_refresh_tokens.  What has a token, or a generation to ask for one
\* under, is history from here on.
Bump(r) ==
    LET u == request[r].of
        Asking == {request[q].token : q \in {p \in Request :
                      request[p].op = "issue" /\ request[p].of = u}} IN
    /\ Step(r, "bump", [request[r] EXCEPT !.op = "list"])
    /\ generation[u] < MaxGeneration
    /\ generation' = [generation EXCEPT ![u] = @ + 1]
    /\ ended' = ended \cup Asking \cup
                {login[t] : t \in {s \in Live : store[s].of = u}}
    /\ UNCHANGED <<userVars, store, index, login>>

List(r) ==
    LET q == request[r] IN
    /\ Step(r, "list", [op |-> "delete", of |-> q.of, off |-> q.off,
                        digests |-> index[q.of]])
    /\ UNCHANGED <<userVars, redisVars, history>>

\* The tokens it listed, then the index as it is by then.
Delete(r) ==
    LET q == request[r] IN
    /\ Step(r, "delete", [op |-> "commit", of |-> q.of, off |-> q.off])
    /\ store' = [t \in Token |-> IF t \in q.digests THEN Gone ELSE store[t]]
    /\ index' = [index EXCEPT ![q.of] = {}]
    /\ UNCHANGED <<userVars, generation, history>>

Commit(r) ==
    /\ Step(r, "commit", Idle)
    /\ active' = [active EXCEPT ![request[r].of] = @ /\ ~request[r].off]
    /\ UNCHANGED <<admin, redisVars, history>>

Activate(u) ==
    /\ ~active[u]
    /\ active' = [active EXCEPT ![u] = TRUE]
    /\ UNCHANGED <<admin, redisVars, request, history>>

----------------------------------------------------------------------------
(* Roles.                                                                  *)

ReplaceRoles(r, u, to) ==
    /\ LastAdmin(u) => to
    /\ Step(r, "none", [op |-> "roles", of |-> u, to |-> to])
    /\ UNCHANGED <<userVars, redisVars, history>>

ReplaceRolesCommit(r) ==
    /\ Step(r, "roles", Idle)
    /\ admin' = [admin EXCEPT ![request[r].of] = request[r].to]
    /\ UNCHANGED <<active, redisVars, history>>

Next ==
    \/ \E r \in Request :
          \/ Fail(r) \/ Issue(r) \/ CheckUser(r) \/ DropFromIndex(r)
          \/ Bump(r) \/ List(r) \/ Delete(r) \/ Commit(r)
          \/ ReplaceRolesCommit(r)
    \/ \E r \in Request, u \in User :
          \/ Login(r, u) \/ Deactivate(r, u) \/ UpdatePassword(r, u)
          \/ \E to \in BOOLEAN : ReplaceRoles(r, u, to)
    \/ \E r \in Request, t \in Token :
          ReadGeneration(r, t) \/ Refresh(r, t) \/ Rotate(r, t) \/ Logout(r, t)
    \/ \E u \in User : Activate(u)

Spec == Init /\ [][Next]_identityVars

----------------------------------------------------------------------------
(* A login has one live token at a time, however many requests present it  *)
(* at once ("refresh rotation is single use",                              *)
(* test_auth_session_security.py).                                         *)
OneSessionPerLogin == \A s, t \in Live : login[s] = login[t] => s = t

(* A login that a revocation ended never gets another token: neither one   *)
(* that was about to be issued nor one that was being exchanged, however   *)
(* the revocation's calls and those of others are mixed, and whether or    *)
(* not it gets to its commit.                                              *)
RevocationEndsLogins == [][\A t \in Token :
    store[t] = Gone /\ store'[t] # Gone => login'[t] \notin ended]_identityVars

(* Does not hold of the code, see README: a tenant keeps an administrator  *)
(* (_is_last_admin).                                                       *)
AdminRemains == \E u \in User : admin[u] /\ active[u]
=============================================================================
