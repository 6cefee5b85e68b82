---------------------------- MODULE IdentityProofs ----------------------------
(***************************************************************************)
(* One live token for each login, and none for a login that a revocation   *)
(* has ended, proved for any users, requests and number of tokens.  The    *)
(* invariant is about what is under way: a token that was drawn and is not *)
(* stored yet belongs to nobody else, and one a revocation ended has a     *)
(* generation that Redis no longer has.                                    *)
(***************************************************************************)
EXTENDS Identity, TLAPS

\* What an open request has read, by what it is doing.
Pending ==
    {Idle}
    \cup [op : {"login"}, of : User]
    \cup [op : {"issue"}, of : User, token : Token, generation : 0 .. MaxGeneration]
    \cup [op : {"refresh", "rotate"}, old : Token, of : User, value : Session]
    \cup [op : {"logout"}, of : User, token : Token]
    \cup [op : {"bump", "list", "commit"}, of : User, off : BOOLEAN]
    \cup [op : {"delete"}, of : User, off : BOOLEAN, digests : SUBSET Token]
    \cup [op : {"roles"}, of : User, to : BOOLEAN]

Exchanging(r) == request[r].op \in {"refresh", "rotate"}

RequestsOK ==
    /\ request \in [Request -> Pending]
    /\ \A r \in Request : Exchanging(r) => request[r].of = request[r].value.of

\* A token has the login of an issued one, and only issued ones are filed.
IssuedOK ==
    /\ \A t \in Issued : login[t] \in Issued
    /\ \A u \in User : index[u] \subseteq Issued
    /\ ended \subseteq Issued

\* A token that is drawn and not stored yet is nobody else's: no other token
\* comes from its login, and a revocation that ended it began a generation
\* it is not stored under.
Unstored(t) ==
    /\ t \in Token /\ login[t] = t /\ store[t] = Gone
    /\ \A u \in User : t \notin index[u]
    /\ \A s \in Token : login[s] = t => s = t

Issuing(r) == request[r].op = "issue"

IssueOK ==
    /\ \A r \in Request : Issuing(r) =>
          LET q == request[r] IN
          /\ Unstored(q.token)
          /\ q.generation <= generation[q.of]
          /\ q.token \in ended => q.generation # generation[q.of]
    /\ \A r, s \in Request :
          Issuing(r) /\ Issuing(s) /\ request[r].token = request[s].token => r = s

\* Of an ended login there is at most a token of an old generation.
EndedOK == \A t \in Live :
    login[t] \in ended => store[t].generation # generation[store[t].of]

IInv == TypeOK /\ RequestsOK /\ IssuedOK /\ IssueOK /\ EndedOK /\ OneSessionPerLogin

----------------------------------------------------------------------------
(* What a step leaves of the requests.                                     *)

\* Gone is no session, as nobody is a user.
LEMMA GoneIsNoSession == ASSUME IdentityAssumption PROVE Gone \notin Session
    BY DEF IdentityAssumption, Gone, Session

\* What a request has read, by what it is doing.
LEMMA Shapes ==
    ASSUME RequestsOK, NEW r \in Request
    PROVE  LET q == request[r] IN
           /\ q = Idle \/ (q.of \in User /\ q # Idle)
           /\ q.op = "issue" => q \in [op : {"issue"}, of : User, token : Token,
                                       generation : 0 .. MaxGeneration]
           /\ Exchanging(r) => q \in [op : {"refresh", "rotate"}, old : Token,
                                      of : User, value : Session]
           /\ q.op = "logout" => q.token \in Token
           /\ q.op \in {"bump", "list", "commit"} =>
                 q \in [op : {"bump", "list", "commit"}, of : User, off : BOOLEAN]
           /\ q.op = "delete" => q.digests \in SUBSET Token /\ q.off \in BOOLEAN
           /\ q.op = "roles" => q.to \in BOOLEAN
           /\ q.op # "none" => q.of \in User
    BY DEF RequestsOK, Pending, Idle, Exchanging

\* Every step of a request leaves it with one of the shapes.
LEMMA RequestStep ==
    ASSUME RequestsOK, NEW r \in Request, NEW to \in Pending,
           to.op \in {"refresh", "rotate"} => to.of = to.value.of,
           request' = [request EXCEPT ![r] = to]
    PROVE  /\ RequestsOK'
           /\ request'[r] = to
           /\ \A s \in Request \ {r} : request'[s] = request[s]
    BY DEF RequestsOK, Exchanging

\* A step that draws no token and touches neither Redis nor the history.
LEMMA QuietStep ==
    ASSUME IInv, RequestsOK', UNCHANGED <<redisVars, history>>,
           active' \in [User -> BOOLEAN], admin' \in [User -> BOOLEAN],
           \A r \in Request : Issuing(r)' => request'[r] = request[r]
    PROVE  IInv'
<1>1. TypeOK'
  <2>1. \A r \in Request : request'[r].op \in
            {"none", "login", "issue", "refresh", "rotate", "logout",
             "bump", "list", "delete", "commit", "roles"}
    BY DEF RequestsOK, Pending, Idle
  <2> QED
    BY <2>1 DEF IInv, TypeOK, redisVars, history, Live, Issued
<1>2. IssuedOK' /\ EndedOK' /\ OneSessionPerLogin'
  BY DEF IInv, IssuedOK, EndedOK, OneSessionPerLogin, redisVars, history, Live, Issued
<1>3. \A t : Unstored(t) => Unstored(t)'
  BY DEF Unstored, redisVars, history
<1>4. IssueOK'
  BY <1>3 DEF IInv, IssueOK, Issuing, redisVars, history
<1> QED
  BY <1>1, <1>2, <1>4 DEF IInv

----------------------------------------------------------------------------
(* The steps that leave Redis alone.                                       *)

LEMMA QuietSteps ==
    ASSUME IdentityAssumption, IInv, NEW r \in Request,
           \/ Fail(r) \/ CheckUser(r) \/ List(r) \/ Commit(r)
           \/ ReplaceRolesCommit(r)
           \/ \E u \in User :
                 \/ Login(r, u) \/ Deactivate(r, u) \/ UpdatePassword(r, u)
                 \/ \E to \in BOOLEAN : ReplaceRoles(r, u, to)
           \/ \E t \in Token : Refresh(r, t)
    PROVE  IInv'
<1> USE DEF Step
<1>0. RequestsOK /\ TypeOK
  BY DEF IInv
<1>a. ASSUME NEW q \in Pending, q.op # "issue",
             q.op \in {"refresh", "rotate"} => q.of = q.value.of,
             request' = [request EXCEPT ![r] = q],
             UNCHANGED <<redisVars, history>>,
             active' \in [User -> BOOLEAN], admin' \in [User -> BOOLEAN]
      PROVE  IInv'
  <2>1. /\ RequestsOK'
        /\ request'[r] = q
        /\ \A s \in Request \ {r} : request'[s] = request[s]
    BY <1>0, <1>a, RequestStep
  <2>2. \A s \in Request : Issuing(s)' => request'[s] = request[s]
    BY <1>a, <2>1 DEF Issuing
  <2> QED
    BY <1>a, <2>1, <2>2, QuietStep
<1>1. CASE Fail(r)
  BY <1>0, <1>1, <1>a DEF Fail, Pending, Idle, userVars, TypeOK
<1>2. ASSUME NEW u \in User, Login(r, u) PROVE IInv'
  BY <1>0, <1>2, <1>a DEF Login, Pending, userVars, TypeOK
<1>3. ASSUME NEW t \in Token, Refresh(r, t) PROVE IInv'
  <2>1. store[t] \in Session
    BY <1>0, <1>3 DEF Refresh, Live, TypeOK
  <2>2. store[t].of \in User
    BY <2>1 DEF Session
  <2> QED
    BY <1>0, <1>3, <1>a, <2>1, <2>2 DEF Refresh, Pending, userVars, TypeOK
<1>4. CASE CheckUser(r)
  <2> DEFINE q == [request[r] EXCEPT !.op = "rotate"]
  <2>1. /\ q \in [op : {"rotate"}, old : Token, of : User, value : Session]
        /\ q.of = q.value.of
    BY <1>0, <1>4, Shapes DEF CheckUser, Exchanging, RequestsOK
  <2>2. q \in Pending /\ q.op = "rotate"
    BY <2>1 DEF Pending
  <2> QED
    BY <1>0, <1>4, <1>a, <2>1, <2>2 DEF CheckUser, userVars, TypeOK
<1>5. ASSUME NEW u \in User, Deactivate(r, u) PROVE IInv'
  BY <1>0, <1>5, <1>a DEF Deactivate, Pending, userVars, TypeOK
<1>6. ASSUME NEW u \in User, UpdatePassword(r, u) PROVE IInv'
  BY <1>0, <1>6, <1>a DEF UpdatePassword, Pending, userVars, TypeOK
<1>7. CASE List(r)
  <2> DEFINE p == request[r]
             q == [op |-> "delete", of |-> p.of, off |-> p.off,
                   digests |-> index[p.of]]
  <2>1. q \in Pending /\ q.op = "delete"
    BY <1>0, <1>7, Shapes DEF List, TypeOK, Pending
  <2> QED
    BY <1>0, <1>7, <1>a, <2>1 DEF List, userVars, TypeOK
<1>8. CASE Commit(r)
  <2>1. active' \in [User -> BOOLEAN]
    BY <1>0, <1>8, Shapes DEF Commit, TypeOK
  <2> QED
    BY <1>0, <1>8, <1>a, <2>1 DEF Commit, Pending, Idle, TypeOK
<1>9. ASSUME NEW u \in User, NEW to \in BOOLEAN, ReplaceRoles(r, u, to) PROVE IInv'
  BY <1>0, <1>9, <1>a DEF ReplaceRoles, Pending, userVars, TypeOK
<1>10. CASE ReplaceRolesCommit(r)
  <2>1. admin' \in [User -> BOOLEAN]
    BY <1>0, <1>10, Shapes DEF ReplaceRolesCommit, TypeOK
  <2> QED
    BY <1>0, <1>10, <1>a, <2>1 DEF ReplaceRolesCommit, Pending, Idle, TypeOK
<1> QED
  BY <1>1, <1>2, <1>3, <1>4, <1>5, <1>6, <1>7, <1>8, <1>9, <1>10

LEMMA ActivateStep ==
    ASSUME IInv, NEW u \in User, Activate(u)
    PROVE  IInv'
<1>1. RequestsOK' /\ \A s \in Request : request'[s] = request[s]
  BY DEF IInv, Activate, RequestsOK, Exchanging
<1> QED
  BY <1>1, QuietStep DEF IInv, Activate, TypeOK

----------------------------------------------------------------------------
(* The steps that draw, store or drop tokens.                              *)

\* A request ends: nobody draws a token, the shapes stay.
LEMMA Ends ==
    ASSUME RequestsOK, NEW r \in Request, request' = [request EXCEPT ![r] = Idle]
    PROVE  /\ RequestsOK'
           /\ \A s \in Request : Issuing(s)' =>
                 s # r /\ Issuing(s) /\ request'[s] = request[s]
           /\ \A s \in Request : request'[s].op \in
                 {"none", "login", "issue", "refresh", "rotate", "logout",
                  "bump", "list", "delete", "commit", "roles"}
<1>1. Idle \in Pending /\ Idle.op = "none"
  BY DEF Pending, Idle
<1>2. /\ RequestsOK' /\ request'[r] = Idle
      /\ \A s \in Request \ {r} : request'[s] = request[s]
  BY <1>1, RequestStep
<1>3. \A s \in Request : request'[s].op \in
          {"none", "login", "issue", "refresh", "rotate", "logout",
           "bump", "list", "delete", "commit", "roles"}
  BY <1>2 DEF RequestsOK, Pending, Idle
<1> QED
  BY <1>1, <1>2, <1>3 DEF Issuing

LEMMA ReadGenerationStep ==
    ASSUME IdentityAssumption, IInv, NEW r \in Request, NEW t \in Token,
           ReadGeneration(r, t)
    PROVE  IInv'
<1> DEFINE p == request[r]
           q == [op |-> "issue", of |-> p.of, token |-> t,
                 generation |-> generation[p.of]]
<1>0. /\ TypeOK /\ RequestsOK /\ p.op = "login"
      /\ UNCHANGED <<userVars, redisVars, ended>>
      /\ login' = [login EXCEPT ![t] = t]
      /\ request' = [request EXCEPT ![r] = q]
      /\ t \notin Issued
  BY DEF IInv, ReadGeneration, Step, Fresh
<1>1. p.of \in User /\ q \in Pending
  BY <1>0, Shapes DEF Pending, TypeOK
<1>2. /\ RequestsOK' /\ request'[r] = q
      /\ \A s \in Request \ {r} : request'[s] = request[s]
  <2>1. q.op = "issue" /\ RequestsOK /\ request' = [request EXCEPT ![r] = q]
    BY <1>0
  <2> HIDE DEF q
  <2> QED
    BY <1>1, <2>1, RequestStep
<1>3. /\ t # 0 /\ login'[t] = t /\ \A s \in Token \ {t} : login'[s] = login[s]
      /\ Issued' = Issued \cup {t}
      /\ Live' = Live /\ t \notin Live
  BY <1>0 DEF TypeOK, Token, Issued, Live, redisVars
<1>4. TypeOK'
  <2>1. \A s \in Request : request'[s].op \in
            {"none", "login", "issue", "refresh", "rotate", "logout",
             "bump", "list", "delete", "commit", "roles"}
    BY <1>2 DEF RequestsOK, Pending, Idle
  <2>2. login' \in [Token -> 0 .. MaxTokens]
    BY <1>0 DEF TypeOK, Token
  <2> QED
    BY <1>0, <1>3, <2>1, <2>2 DEF TypeOK, userVars, redisVars
<1>5. IssuedOK'
  BY <1>0, <1>3 DEF IInv, IssuedOK, Issued, redisVars
<1>6. Unstored(t)'
  <2>1. store'[t] = Gone /\ \A u \in User : t \notin index'[u]
    BY <1>0, <1>3 DEF IInv, IssuedOK, Live, redisVars
  <2>2. \A s \in Token : login'[s] = t => s = t
    BY <1>0, <1>3 DEF IInv, IssuedOK, Issued
  <2> QED
    BY <1>3, <2>1, <2>2 DEF Unstored
<1>7. ASSUME NEW k \in Token, Unstored(k) PROVE k # t /\ Unstored(k)'
  <2>1. k # t
    BY <1>0, <1>7 DEF Unstored, Issued, Token
  <2> QED
    BY <1>0, <1>3, <1>7, <2>1 DEF Unstored, redisVars
<1>8. \A s \in Request \ {r} : Issuing(s)' =>
          Issuing(s) /\ request'[s] = request[s] /\ request[s].token \in Token
  BY <1>0, <1>2, Shapes DEF Issuing
<1>9. IssueOK'
  <2>1. generation[p.of] \in Nat /\ t \notin ended
    BY <1>0, <1>1 DEF IInv, TypeOK, IssuedOK
  <2> QED
    BY <1>0, <1>2, <1>6, <1>7, <1>8, <2>1 DEF IInv, IssueOK, Issuing, redisVars
<1>10. EndedOK' /\ OneSessionPerLogin'
  BY <1>0, <1>3 DEF IInv, EndedOK, OneSessionPerLogin, redisVars, Live
<1> QED
  BY <1>2, <1>4, <1>5, <1>9, <1>10 DEF IInv

LEMMA IssueStep ==
    ASSUME IdentityAssumption, IInv, NEW r \in Request, Issue(r)
    PROVE  IInv'
<1> DEFINE q == request[r]
           value == [of |-> q.of, generation |-> q.generation]
<1>0. /\ TypeOK /\ RequestsOK /\ Issuing(r)
      /\ UNCHANGED <<userVars, generation, history>>
      /\ store' = [store EXCEPT ![q.token] = value]
      /\ index' = [index EXCEPT ![q.of] = @ \cup {q.token}]
      /\ request' = [request EXCEPT ![r] = Idle]
      /\ generation[q.of] = q.generation
  BY DEF IInv, Issue, MayIssue, Step, Issuing
<1>1. /\ q.of \in User /\ q.token \in Token /\ value \in Session
      /\ value # Gone /\ q.generation \in Nat
  BY <1>0, Shapes, GoneIsNoSession DEF Issuing, Session
<1>2. Unstored(q.token) /\ q.token \notin ended
  BY <1>0 DEF IInv, IssueOK
<1>3. /\ RequestsOK'
      /\ \A s \in Request : Issuing(s)' =>
            s # r /\ Issuing(s) /\ request'[s] = request[s]
      /\ \A s \in Request : request'[s].op \in
            {"none", "login", "issue", "refresh", "rotate", "logout",
             "bump", "list", "delete", "commit", "roles"}
  BY <1>0, Ends
<1>4. /\ store'[q.token] = value
      /\ \A t \in Token \ {q.token} : store'[t] = store[t]
      /\ Live' = Live \cup {q.token}
      /\ Issued' = Issued /\ q.token \in Issued
      /\ \A u \in User : index'[u] = IF u = q.of THEN index[u] \cup {q.token}
                                     ELSE index[u]
  <2> DEFINE k == q.token
  <2> HIDE DEF value, k
  <2>1. /\ store'[k] = value /\ \A t \in Token \ {k} : store'[t] = store[t]
        /\ \A u \in User : index'[u] = IF u = q.of THEN index[u] \cup {k}
                                       ELSE index[u]
    BY <1>0, <1>1 DEF TypeOK, k
  <2>2. Live' = Live \cup {k}
    BY <1>0, <1>1, <2>1 DEF Live, k
  <2>3. Issued' = Issued /\ k \in Issued
    BY <1>0, <1>1, <1>2 DEF Issued, history, Unstored, Token, k
  <2> QED
    BY <2>1, <2>2, <2>3 DEF k
<1>5. TypeOK'
  <2>1. store' \in [Token -> Session \cup {Gone}] /\ index' \in [User -> SUBSET Token]
    BY <1>0, <1>1 DEF TypeOK
  <2>2. \A u, v \in User : u # v => index'[u] \cap index'[v] = {}
    BY <1>0, <1>2, <1>4 DEF TypeOK, Unstored
  <2>3. \A t \in Live' : t \in Issued' /\ store'[t].generation <= generation'[store'[t].of]
    BY <1>0, <1>1, <1>4 DEF TypeOK, Live
  <2> QED
    BY <1>0, <1>3, <2>1, <2>2, <2>3 DEF TypeOK, userVars, history
<1>6. IssuedOK'
  BY <1>0, <1>4 DEF IInv, IssuedOK, history
<1>7. IssueOK'
  <2>1. ASSUME NEW s \in Request, Issuing(s)'
        PROVE  /\ s # r /\ Issuing(s) /\ request'[s] = request[s]
               /\ request[s].token # q.token /\ Unstored(request[s].token)
               /\ request[s].token \in Token
    BY <1>0, <1>3, <2>1, Shapes DEF IInv, IssueOK, Issuing
  <2>2. ASSUME NEW k \in Token, k # q.token, Unstored(k) PROVE Unstored(k)'
    BY <1>0, <1>4, <2>2 DEF Unstored, history
  <2> QED
    BY <1>0, <2>1, <2>2 DEF IInv, IssueOK, history
<1>8. EndedOK'
  BY <1>0, <1>2, <1>4 DEF IInv, EndedOK, Unstored, history, Live
<1>9. OneSessionPerLogin'
  BY <1>0, <1>2, <1>4 DEF IInv, OneSessionPerLogin, Unstored, history, Live
<1> QED
  BY <1>3, <1>5, <1>6, <1>7, <1>8, <1>9 DEF IInv

LEMMA RotateStep ==
    ASSUME IdentityAssumption, IInv, NEW r \in Request, NEW t \in Token, Rotate(r, t)
    PROVE  IInv'
<1> DEFINE q == request[r]
<1>0. /\ TypeOK /\ RequestsOK /\ Exchanging(r)
      /\ UNCHANGED <<userVars, generation, ended>>
      /\ store' = [store EXCEPT ![q.old] = Gone, ![t] = q.value]
      /\ index' = [index EXCEPT ![q.of] = (@ \ {q.old}) \cup {t}]
      /\ login' = [login EXCEPT ![t] = login[q.old]]
      /\ request' = [request EXCEPT ![r] = Idle]
      /\ store[q.old] = q.value /\ generation[q.of] = q.value.generation
      /\ t \notin Issued
  BY DEF IInv, Rotate, MayRotate, Step, Exchanging, Fresh
<1>1. /\ q.of \in User /\ q.old \in Token /\ q.value \in Session
      /\ q.value # Gone /\ q.of = q.value.of
  BY <1>0, Shapes, GoneIsNoSession DEF RequestsOK, Exchanging
<1>2. /\ q.old \in Live /\ q.old \in Issued /\ q.old # t
      /\ login[q.old] \in Issued /\ login[q.old] \in Token /\ login[q.old] \notin ended
  BY <1>0, <1>1 DEF IInv, TypeOK, Live, IssuedOK, EndedOK, Issued
<1>3. /\ RequestsOK'
      /\ \A s \in Request : Issuing(s)' =>
            s # r /\ Issuing(s) /\ request'[s] = request[s]
      /\ \A s \in Request : request'[s].op \in
            {"none", "login", "issue", "refresh", "rotate", "logout",
             "bump", "list", "delete", "commit", "roles"}
  BY <1>0, Ends
<1>4. /\ store'[t] = q.value /\ store'[q.old] = Gone
      /\ \A k \in Token \ {t, q.old} : store'[k] = store[k]
      /\ Live' = (Live \ {q.old}) \cup {t}
      /\ login'[t] = login[q.old] /\ \A k \in Token \ {t} : login'[k] = login[k]
      /\ Issued' = Issued \cup {t}
      /\ \A u \in User : index'[u] = IF u = q.of THEN (index[u] \ {q.old}) \cup {t}
                                     ELSE index[u]
  <2> DEFINE k == q.old  v == q.value
  <2> HIDE DEF k, v
  <2>1. /\ store'[t] = v /\ store'[k] = Gone
        /\ \A n \in Token \ {t, k} : store'[n] = store[n]
        /\ login'[t] = login[k] /\ \A n \in Token \ {t} : login'[n] = login[n]
        /\ \A u \in User : index'[u] = IF u = q.of THEN (index[u] \ {k}) \cup {t}
                                       ELSE index[u]
    BY <1>0, <1>1, <1>2 DEF TypeOK, k, v
  <2>2. Live' = (Live \ {k}) \cup {t}
    BY <1>0, <1>1, <1>2, <2>1 DEF Live, k, v
  <2>3. Issued' = Issued \cup {t}
    BY <1>0, <1>2, <2>1 DEF Issued, k
  <2> QED
    BY <2>1, <2>2, <2>3 DEF k, v
<1>5. t \notin Live /\ \A u \in User : t \notin index[u]
  BY <1>0 DEF IInv, TypeOK, IssuedOK
<1>6. TypeOK'
  <2>1. /\ store' \in [Token -> Session \cup {Gone}] /\ index' \in [User -> SUBSET Token]
        /\ login' \in [Token -> 0 .. MaxTokens]
    BY <1>0, <1>1 DEF TypeOK
  <2>2. \A u, v \in User : u # v => index'[u] \cap index'[v] = {}
    BY <1>0, <1>4, <1>5 DEF TypeOK
  <2>3. \A k \in Live' : k \in Issued' /\ store'[k].generation <= generation'[store'[k].of]
    BY <1>0, <1>1, <1>2, <1>4 DEF TypeOK, Live, Session
  <2> QED
    BY <1>0, <1>3, <2>1, <2>2, <2>3 DEF TypeOK, userVars
<1>7. IssuedOK'
  BY <1>0, <1>2, <1>4 DEF IInv, IssuedOK, Issued
<1>8. IssueOK'
  <2>1. ASSUME NEW s \in Request, Issuing(s)'
        PROVE  /\ Issuing(s) /\ request'[s] = request[s]
               /\ Unstored(request[s].token) /\ request[s].token \in Token
               /\ request[s].token # t
    BY <1>0, <1>3, <2>1, Shapes DEF IInv, IssueOK, Issuing, Unstored, Issued, Token
  <2>2. ASSUME NEW k \in Token, k # t, Unstored(k) PROVE Unstored(k)'
    <3>1. k # q.old /\ login[q.old] # k
      BY <1>1, <1>2, <2>2 DEF Unstored, Live
    <3>2. store'[k] = Gone /\ login'[k] = k
      BY <1>4, <2>2, <3>1 DEF Unstored
    <3>4. ASSUME NEW u \in User PROVE k \notin index'[u]
      <4>1. k \notin index[u]
        BY <2>2 DEF Unstored
      <4>0. \A n \in User : index'[n] = IF n = q.of THEN (index[n] \ {q.old}) \cup {t}
                                        ELSE index[n]
        BY <1>4
      <4>2. CASE u = q.of
        BY <2>2, <4>0, <4>1, <4>2
      <4>3. CASE u # q.of
        BY <4>0, <4>1, <4>3
      <4> QED
        BY <4>2, <4>3
    <3>3. ASSUME NEW n \in Token, login'[n] = k PROVE n = k
      <4>1. n # t
        BY <1>4, <3>1, <3>3
      <4> QED
        BY <1>4, <2>2, <3>3, <4>1 DEF Unstored
    <3> QED
      BY <3>2, <3>3, <3>4 DEF Unstored
  <2> QED
    BY <1>0, <2>1, <2>2 DEF IInv, IssueOK
<1>9. EndedOK'
  <2> SUFFICES ASSUME NEW k \in Live', login'[k] \in ended
               PROVE  store'[k].generation # generation[store'[k].of]
    BY <1>0 DEF EndedOK
  <2>1. k \in Live /\ k # t /\ k # q.old
    BY <1>2, <1>4
  <2> QED
    BY <1>4, <2>1 DEF IInv, EndedOK, Live
<1>10. OneSessionPerLogin'
  BY <1>0, <1>2, <1>4 DEF IInv, OneSessionPerLogin, Live
<1> QED
  BY <1>3, <1>6, <1>7, <1>8, <1>9, <1>10 DEF IInv

\* Tokens go: those of a logout, those a revocation listed, and what is filed.
LEMMA Dropping ==
    ASSUME IdentityAssumption, IInv, RequestsOK', store' \in [Token -> Session \cup {Gone}],
           \A t \in Token : store'[t] = Gone \/ store'[t] = store[t],
           index' \in [User -> SUBSET Token],
           \A u \in User : index'[u] \subseteq index[u],
           UNCHANGED <<userVars, generation, history>>,
           \A s \in Request : Issuing(s)' => request'[s] = request[s]
    PROVE  IInv'
<1>1. /\ TypeOK /\ Issued' = Issued /\ Live' \subseteq Live
      /\ \A t \in Live' : store'[t] = store[t]
  BY DEF IInv, Issued, Live, history
<1>2. TypeOK'
  <2>1. \A s \in Request : request'[s].op \in
            {"none", "login", "issue", "refresh", "rotate", "logout",
             "bump", "list", "delete", "commit", "roles"}
    BY DEF RequestsOK, Pending, Idle
  <2>3. \A u, v \in User : u # v => index'[u] \cap index'[v] = {}
    BY <1>1 DEF TypeOK
  <2>4. \A t \in Live' : t \in Issued' /\ store'[t].generation <= generation'[store'[t].of]
    BY <1>1 DEF TypeOK
  <2> QED
    BY <1>1, <2>1, <2>3, <2>4 DEF TypeOK, userVars, history
<1>3. IssuedOK'
  BY <1>1 DEF IInv, IssuedOK, history
<1>4. IssueOK'
  <2>1. ASSUME NEW k, Unstored(k) PROVE Unstored(k)'
    BY <2>1 DEF Unstored, history
  <2> QED
    BY <2>1 DEF IInv, IssueOK, Issuing, history
<1>5. EndedOK' /\ OneSessionPerLogin'
  BY <1>1 DEF IInv, EndedOK, OneSessionPerLogin, history
<1> QED
  BY <1>2, <1>3, <1>4, <1>5 DEF IInv

LEMMA DroppingSteps ==
    ASSUME IdentityAssumption, IInv, NEW r \in Request,
           (\E t \in Token : Logout(r, t)) \/ DropFromIndex(r) \/ Delete(r)
    PROVE  IInv'
<1> USE DEF Step
<1>0. RequestsOK /\ TypeOK
  BY DEF IInv
<1>a. ASSUME NEW q \in Pending, q.op \notin {"issue", "refresh", "rotate"},
             request' = [request EXCEPT ![r] = q]
      PROVE  RequestsOK' /\ \A s \in Request : Issuing(s)' => request'[s] = request[s]
  BY <1>0, <1>a, RequestStep DEF Issuing
<1>1. ASSUME NEW t \in Token, Logout(r, t) PROVE IInv'
  <2> DEFINE q == [op |-> "logout", of |-> store[t].of, token |-> t]
  <2>1. q \in Pending
    BY <1>0, <1>1 DEF Logout, Live, TypeOK, Session, Pending
  <2>2. RequestsOK' /\ \A s \in Request : Issuing(s)' => request'[s] = request[s]
    BY <1>1, <1>a, <2>1 DEF Logout
  <2>3. /\ store' \in [Token -> Session \cup {Gone}]
        /\ \A k \in Token : store'[k] = Gone \/ store'[k] = store[k]
        /\ index' = index /\ UNCHANGED <<userVars, generation, history>>
    BY <1>0, <1>1 DEF Logout, TypeOK
  <2> QED
    BY <1>0, <2>2, <2>3, Dropping DEF TypeOK
<1>2. CASE DropFromIndex(r)
  <2>1. RequestsOK' /\ \A s \in Request : Issuing(s)' => request'[s] = request[s]
    BY <1>2, <1>a DEF DropFromIndex, Pending, Idle
  <2>2. /\ store' \in [Token -> Session \cup {Gone}]
        /\ \A k \in Token : store'[k] = Gone \/ store'[k] = store[k]
        /\ index' \in [User -> SUBSET Token]
        /\ \A u \in User : index'[u] \subseteq index[u]
        /\ UNCHANGED <<userVars, generation, history>>
    BY <1>0, <1>2, Shapes DEF DropFromIndex, TypeOK
  <2> QED
    BY <2>1, <2>2, Dropping
<1>3. CASE Delete(r)
  <2> DEFINE p == request[r]
             q == [op |-> "commit", of |-> p.of, off |-> p.off]
  <2>1. q \in Pending /\ p.of \in User /\ p.digests \in SUBSET Token
    BY <1>0, <1>3, Shapes DEF Delete, Pending
  <2>2. RequestsOK' /\ \A s \in Request : Issuing(s)' => request'[s] = request[s]
    BY <1>3, <1>a, <2>1 DEF Delete
  <2>3. /\ store' \in [Token -> Session \cup {Gone}]
        /\ \A k \in Token : store'[k] = Gone \/ store'[k] = store[k]
        /\ index' \in [User -> SUBSET Token]
        /\ \A u \in User : index'[u] \subseteq index[u]
        /\ UNCHANGED <<userVars, generation, history>>
    BY <1>0, <1>3, <2>1 DEF Delete, TypeOK
  <2> QED
    BY <2>1, <2>2, <2>3, Dropping
<1> QED
  BY <1>1, <1>2, <1>3

\* A revocation ends the logins of what has a token or asks for one; in the
\* new generation they are all of an old one.
LEMMA BumpStep ==
    ASSUME IdentityAssumption, IInv, NEW r \in Request, Bump(r)
    PROVE  IInv'
<1> DEFINE u == request[r].of
           Asked == {p \in Request : request[p].op = "issue" /\ request[p].of = u}
           Asking == {request[q].token : q \in Asked}
           Held == {login[t] : t \in {s \in Live : store[s].of = u}}
           next == [request[r] EXCEPT !.op = "list"]
<1>0. /\ TypeOK /\ RequestsOK /\ request[r].op = "bump"
      /\ UNCHANGED <<userVars, store, index, login>>
      /\ generation[u] < MaxGeneration
      /\ generation' = [generation EXCEPT ![u] = @ + 1]
      /\ ended' = ended \cup Asking \cup Held
      /\ request' = [request EXCEPT ![r] = next]
  BY DEF IInv, Bump, Step
<1>1. next \in Pending /\ next.op = "list" /\ u \in User
  <2>1. request[r] \in [op : {"bump", "list", "commit"}, of : User, off : BOOLEAN]
    BY <1>0, Shapes
  <2>2. next \in [op : {"list"}, of : User, off : BOOLEAN]
    BY <2>1
  <2> QED
    BY <2>1, <2>2 DEF Pending
<1>2. /\ RequestsOK' /\ request'[r] = next
      /\ \A s \in Request \ {r} : request'[s] = request[s]
  BY <1>0, <1>1, RequestStep
<1>3. \A s \in Request : Issuing(s)' => Issuing(s) /\ request'[s] = request[s]
  BY <1>1, <1>2 DEF Issuing
<1>4. /\ generation' \in [User -> 0 .. MaxGeneration]
      /\ \A v \in User : generation'[v] = IF v = u THEN generation[u] + 1
                                          ELSE generation[v]
      /\ \A v \in User : generation[v] \in Nat
  BY <1>0, <1>1 DEF TypeOK, IdentityAssumption
<1>5. Live' = Live /\ Issued' = Issued /\ \A k : Unstored(k) => Unstored(k)'
  BY <1>0 DEF Live, Issued, Unstored
<1>6. ASSUME NEW s \in Live
      PROVE  store[s].of \in User /\ store[s].generation \in Nat
             /\ store[s].generation <= generation[store[s].of]
  BY <1>0 DEF TypeOK, Live, Session
<1>7. ASSUME NEW k \in Asking
      PROVE  \E p \in Request : Issuing(p) /\ request[p].of = u
                                /\ request[p].token = k /\ Unstored(k)
  BY <1>7 DEF IInv, IssueOK, Issuing
<1>8. ASSUME NEW k \in Held
      PROVE  \E s \in Live : store[s].of = u /\ login[s] = k
  BY <1>8
<1> HIDE DEF u, Asking, Held, next, Asked
<1>9. Asking \subseteq Issued /\ Held \subseteq Issued
  <2>1. Asking \subseteq Issued
    BY <1>7 DEF Unstored, Issued, Token
  <2>2. Held \subseteq Issued
    BY <1>8 DEF IInv, TypeOK, IssuedOK
  <2> QED
    BY <2>1, <2>2
<1>10. TypeOK'
  <2>1. \A s \in Request : request'[s].op \in
            {"none", "login", "issue", "refresh", "rotate", "logout",
             "bump", "list", "delete", "commit", "roles"}
    BY <1>2 DEF RequestsOK, Pending, Idle
  <2>2. \A t \in Live' : t \in Issued' /\ store'[t].generation <= generation'[store'[t].of]
    BY <1>0, <1>1, <1>4, <1>5, <1>6 DEF TypeOK
  <2>3. ended' \subseteq Token
    BY <1>0, <1>9 DEF TypeOK, Issued
  <2> QED
    BY <1>0, <1>4, <2>1, <2>2, <2>3 DEF TypeOK, userVars
<1>11. IssuedOK'
  BY <1>0, <1>5, <1>9 DEF IInv, IssuedOK
<1>12. IssueOK'
  <2>1. ASSUME NEW s \in Request, Issuing(s)'
        PROVE  /\ Unstored(request[s].token)'
               /\ request[s].generation <= generation'[request[s].of]
               /\ request[s].token \in ended' =>
                     request[s].generation # generation'[request[s].of]
    <3> DEFINE q == request[s]
    <3>1. /\ Issuing(s) /\ request'[s] = q
          /\ q.of \in User /\ q.generation \in Nat
          /\ Unstored(q.token) /\ q.generation <= generation[q.of]
          /\ q.token \in ended => q.generation # generation[q.of]
      BY <1>0, <1>3, <2>1, Shapes DEF IInv, IssueOK, Issuing
    <3>2. CASE q.of = u
      BY <1>1, <1>4, <1>5, <3>1, <3>2
    <3>3. CASE q.of # u
      <4>1. q.token \notin Asking
        <5> SUFFICES ASSUME q.token \in Asking PROVE FALSE
          OBVIOUS
        <5>1. PICK p \in Request : Issuing(p) /\ request[p].of = u
                                   /\ request[p].token = q.token
          BY <1>7
        <5> QED
          BY <3>1, <3>3, <5>1 DEF IInv, IssueOK
      <4>2. q.token \notin Held
        BY <1>8, <3>1 DEF Unstored, Live
      <4> QED
        BY <1>0, <1>1, <1>4, <1>5, <3>1, <3>3, <4>1, <4>2
    <3> QED
      BY <3>2, <3>3
  <2> QED
    BY <1>3, <2>1 DEF IInv, IssueOK
<1>13. EndedOK'
  <2> SUFFICES ASSUME NEW t \in Live, login[t] \in ended'
               PROVE  store[t].generation # generation'[store[t].of]
    BY <1>0, <1>5 DEF EndedOK
  <2>1. CASE store[t].of = u
    BY <1>1, <1>4, <1>6, <2>1
  <2>2. CASE store[t].of # u
    <3>1. login[t] \notin Asking
      BY <1>7 DEF Unstored, Live
    <3>2. login[t] \notin Held
      BY <1>8, <2>2 DEF IInv, OneSessionPerLogin
    <3> QED
      BY <1>0, <1>1, <1>4, <1>6, <2>2, <3>1, <3>2 DEF IInv, EndedOK
  <2> QED
    BY <2>1, <2>2
<1>14. OneSessionPerLogin'
  BY <1>0, <1>5 DEF IInv, OneSessionPerLogin
<1> QED
  BY <1>2, <1>10, <1>11, <1>12, <1>13, <1>14 DEF IInv

----------------------------------------------------------------------------
(* The invariant holds.                                                    *)

LEMMA InitInv == ASSUME IdentityAssumption, Init PROVE IInv
<1>1. RequestsOK
  BY DEF Init, RequestsOK, Pending, Idle, Exchanging
<1>2. Live = {} /\ Issued = {}
  BY DEF Init, Live, Issued
<1>3. TypeOK
  BY <1>2 DEF Init, TypeOK, Token, Idle, IdentityAssumption
<1> QED
  BY <1>1, <1>2, <1>3 DEF Init, IInv, IssuedOK, IssueOK, Issuing, EndedOK,
                          OneSessionPerLogin, Idle

LEMMA NextInv == ASSUME IdentityAssumption, IInv, [Next]_identityVars PROVE IInv'
<1>1. CASE \E r \in Request :
          \/ Fail(r) \/ Issue(r) \/ CheckUser(r) \/ DropFromIndex(r)
          \/ Bump(r) \/ List(r) \/ Delete(r) \/ Commit(r)
          \/ ReplaceRolesCommit(r)
  <2> PICK r \in Request :
          \/ Fail(r) \/ Issue(r) \/ CheckUser(r) \/ DropFromIndex(r)
          \/ Bump(r) \/ List(r) \/ Delete(r) \/ Commit(r)
          \/ ReplaceRolesCommit(r)
    BY <1>1
  <2>1. CASE Issue(r) \/ Bump(r)
    BY <2>1, IssueStep, BumpStep
  <2>2. CASE DropFromIndex(r) \/ Delete(r)
    BY <2>2, DroppingSteps
  <2>3. CASE Fail(r) \/ CheckUser(r) \/ List(r) \/ Commit(r) \/ ReplaceRolesCommit(r)
    BY <2>3, QuietSteps
  <2> QED
    BY <2>1, <2>2, <2>3
<1>2. CASE \E r \in Request, u \in User :
          \/ Login(r, u) \/ Deactivate(r, u) \/ UpdatePassword(r, u)
          \/ \E to \in BOOLEAN : ReplaceRoles(r, u, to)
  BY <1>2, QuietSteps
<1>3. CASE \E r \in Request, t \in Token :
          ReadGeneration(r, t) \/ Refresh(r, t) \/ Rotate(r, t) \/ Logout(r, t)
  BY <1>3, ReadGenerationStep, QuietSteps, RotateStep, DroppingSteps
<1>4. CASE \E u \in User : Activate(u)
  BY <1>4, ActivateStep
<1>5. CASE UNCHANGED identityVars
  <2>1. RequestsOK' /\ \A r \in Request : request'[r] = request[r]
    BY <1>5 DEF IInv, RequestsOK, Exchanging, identityVars
  <2> QED
    BY <1>5, <2>1, QuietStep DEF IInv, TypeOK, identityVars, redisVars, history
<1> QED
  BY <1>1, <1>2, <1>3, <1>4, <1>5 DEF Next

LEMMA AlwaysInv == IdentityAssumption /\ Spec => []IInv
<1> SUFFICES ASSUME IdentityAssumption PROVE Spec => []IInv
  OBVIOUS
<1>1. Init => IInv
  BY InitInv
<1>2. IInv /\ [Next]_identityVars => IInv'
  BY NextInv
<1> QED
  BY <1>1, <1>2, PTL DEF Spec

(* Tokens are stored under generations of their users, and no token is in  *)
(* two users' indexes, whatever logins and revocations are under way.      *)
THEOREM TypeCorrect == IdentityAssumption /\ Spec => []TypeOK
<1>1. IInv => TypeOK
  BY DEF IInv
<1> QED
  BY <1>1, AlwaysInv, PTL

(* However many requests present a token at once, its login has one live   *)
(* token (ROTATE_REFRESH_SCRIPT).                                          *)
THEOREM OneSessionPerLoginHolds == IdentityAssumption /\ Spec => []OneSessionPerLogin
<1>1. IInv => OneSessionPerLogin
  BY DEF IInv
<1> QED
  BY <1>1, AlwaysInv, PTL

(* What a revocation ended never gets another token (ISSUE_REFRESH_SCRIPT, *)
(* _revoke_refresh_tokens).                                                *)
THEOREM RevocationEndsLoginsHolds == IdentityAssumption /\ Spec => RevocationEndsLogins
<1> SUFFICES ASSUME IdentityAssumption PROVE Spec => RevocationEndsLogins
  OBVIOUS
<1> DEFINE Ended == \A t \in Token :
                       store[t] = Gone /\ store'[t] # Gone => login'[t] \notin ended
<1>1. IInv /\ [Next]_identityVars => [Ended]_identityVars
  <2> SUFFICES ASSUME IInv, [Next]_identityVars, NEW t \in Token,
                      store[t] = Gone, store'[t] # Gone
               PROVE  login'[t] \notin ended
    OBVIOUS
  <2>1. TypeOK /\ RequestsOK
    BY DEF IInv
  <2>2. ASSUME NEW r \in Request, Issue(r) PROVE login'[t] \notin ended
    <3>1. request[r].token = t /\ UNCHANGED login
      BY <2>1, <2>2 DEF Issue, TypeOK, history
    <3> QED
      BY <2>2, <3>1 DEF IInv, IssueOK, Issue, MayIssue, Step, Issuing, Unstored
  <2>3. ASSUME NEW r \in Request, NEW k \in Token, Rotate(r, k)
        PROVE  login'[t] \notin ended
    <3> DEFINE q == request[r]
    <3>1. /\ Exchanging(r) /\ store[q.old] = q.value
          /\ generation[q.of] = q.value.generation
          /\ store' = [store EXCEPT ![q.old] = Gone, ![k] = q.value]
          /\ login' = [login EXCEPT ![k] = login[q.old]]
      BY <2>3 DEF Rotate, MayRotate, Step, Exchanging
    <3>2. q.of = q.value.of /\ q.old \in Live
      BY <2>1, <3>1, Shapes, GoneIsNoSession DEF RequestsOK, Live
    <3>3. t = k
      BY <2>1, <3>1 DEF TypeOK
    <3>4. login'[t] = login[q.old]
      BY <2>1, <3>1, <3>3 DEF TypeOK
    <3> QED
      BY <3>1, <3>2, <3>4 DEF IInv, EndedOK
  <2>4. ASSUME NEW r \in Request, NEW k \in Token, Logout(r, k) \/ Delete(r)
        PROVE  store'[t] = Gone
    BY <2>1, <2>4 DEF Logout, Delete, TypeOK
  <2>5. CASE UNCHANGED store
    BY <2>5
  <2> QED
    BY <2>2, <2>3, <2>4, <2>5
       DEF Next, Fail, CheckUser, DropFromIndex, Bump, List, Commit,
           ReplaceRolesCommit, Login, Deactivate, UpdatePassword, ReplaceRoles,
           ReadGeneration, Refresh, Activate, redisVars, identityVars
<1> QED
  BY <1>1, AlwaysInv, PTL DEF Spec, RevocationEndsLogins
=============================================================================
