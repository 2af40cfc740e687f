--------------------------- MODULE SessionsProofs ---------------------------
(***************************************************************************)
(* What TLAPS proves about Sessions, for every number of users, requests   *)
(* and tokens, every lifetime that TimeAssumption allows and both readings *)
(* of VerifyTokenType.  SessionInv is inductive; the theorems at the end   *)
(* follow from it.                                                         *)
(***************************************************************************)
EXTENDS Sessions, TLAPS

-----------------------------------------------------------------------------
(* Time.                                                                   *)

\* Truncation to whole seconds goes back by less than a second.
LEMMA FloorBounds ==
    ASSUME NEW t \in Nat
    PROVE  Floor(t) \in Nat /\ Floor(t) <= t /\ t < Floor(t) + Second
  BY TimeAssumption DEF Floor

\* It never goes back when the clock does not.
LEMMA FloorTick ==
    ASSUME NEW t \in Nat
    PROVE  Floor(t) <= Floor(t + 1)
  BY TimeAssumption DEF Floor

\* Both lifetimes are natural numbers.
LEMMA TtlType ==
    ASSUME NEW type \in {"access", "refresh"}
    PROVE  Ttl(type) \in Nat /\ Ttl(type) <= RefreshTtl
  BY TimeAssumption DEF Ttl

-----------------------------------------------------------------------------
(* Shapes.                                                                 *)

LEMMA NoRequestType == NoRequest \in Request
  BY DEF NoRequest, Request, Labels, NoMarks, Never

\* get_token returns two tokens with the claims it was given.
LEMMA GetTokenType ==
    ASSUME NEW i \in Ids, NEW u \in Users, NEW admin \in BOOLEAN,
           NEW roles \in SUBSET RoleIds, NEW at \in Nat, NEW dev \in Ids
    PROVE  /\ GetToken(i, u, admin, roles, at, dev) \subseteq Token
           /\ \A t \in GetToken(i, u, admin, roles, at, dev) :
                /\ t.id = i /\ t.sub = u /\ t.admin = admin
                /\ t.exp = Floor(t.minted) + Ttl(t.type)
  <1>1. Floor(at) + AccessTtl \in Nat /\ Floor(at) + RefreshTtl \in Nat
    BY FloorBounds, TimeAssumption
  <1> QED
    BY <1>1 DEF GetToken, Token, Ttl

\* The record a handler finds in access_cache is a record it may keep.
LEMMA MarksType ==
    ASSUME TypeOK, MarksPast, NEW u \in Users
    PROVE  /\ Marks(u) \in [Keys -> Nat \cup {Never}]
           /\ \A k \in Keys : Marks(u)[k] <= now
  BY DEF TypeOK, MarksPast, Marks, NoMarks, Never

-----------------------------------------------------------------------------
(* Most steps change one request only.                                     *)

LEMMA RequestStep ==
    ASSUME SessionInv,
           UNCHANGED <<now, issued, refresh_cache, access_cache, user_roles>>,
           NEW r \in Requests, NEW q \in Request,
           req' = [req EXCEPT ![r] = q],
           RequestVerified(q),
           q.stamp <= now,
           \A k \in Keys : q.marks[k] <= now
    PROVE  SessionInv'
  <1>1. TypeOK'
    BY DEF SessionInv, TypeOK
  <1>2. ExpTellsIssue' /\ AdminClaimGenuine' /\ RefreshCacheOwned'
    BY DEF SessionInv, ExpTellsIssue, AdminClaimGenuine, RefreshCacheOwned
  <1>3. (\A s \in Requests : RequestVerified(req[s]))'
    BY DEF SessionInv, TypeOK, RequestVerified
  <1>4. MarksPast'
    BY DEF SessionInv, TypeOK, MarksPast
  <1> QED
    BY <1>1, <1>2, <1>3, <1>4 DEF SessionInv

\* What SessionInv says of the request that r serves.
LEMMA RequestFacts ==
    ASSUME SessionInv, NEW r \in Requests
    PROVE  /\ req[r] \in Request
           /\ RequestVerified(req[r])
           /\ req[r].stamp <= now
           /\ \A k \in Keys : req[r].marks[k] <= now
           /\ now \in Nat
  BY DEF SessionInv, TypeOK, MarksPast

LEMMA ReplyStep ==
    ASSUME SessionInv, NEW r \in Requests, Reply(r),
           UNCHANGED <<now, issued, refresh_cache, access_cache, user_roles>>
    PROVE  SessionInv'
  <1>1. RequestVerified(NoRequest)
    BY DEF RequestVerified, NoRequest
  <1>2. NoRequest.stamp <= now /\ \A k \in Keys : NoRequest.marks[k] <= now
    BY RequestFacts DEF NoRequest, NoMarks, Never
  <1> QED
    BY <1>1, <1>2, NoRequestType, RequestStep DEF Reply

LEMMA InitInv == Init => SessionInv
  <1> SUFFICES ASSUME Init PROVE SessionInv
    OBVIOUS
  <1>1. TypeOK
    BY NoRequestType, SetAssumption, TimeAssumption DEF Init, TypeOK, NoMarks, Never
  <1>2. MarksPast
    BY DEF Init, MarksPast, NoRequest, NoMarks, Never
  <1>3. \A r \in Requests : RequestVerified(req[r])
    BY DEF Init, RequestVerified, NoRequest
  <1> QED
    BY <1>1, <1>2, <1>3
    DEF Init, SessionInv, ExpTellsIssue, AdminClaimGenuine, RefreshCacheOwned

-----------------------------------------------------------------------------
(* One lemma per action.                                                   *)

LEMMA TickInv ==
    ASSUME SessionInv, Tick
    PROVE  SessionInv'
  <1>1. TypeOK'
    BY DEF SessionInv, TypeOK, Tick
  <1>2. (\A r \in Requests : RequestVerified(req[r]))'
    BY DEF SessionInv, RequestVerified, Tick
  <1>3. MarksPast'
    <2>1. ASSUME NEW u \in Users, NEW k \in Keys
          PROVE  LET m == access_cache[u].marks[k] IN
                 m <= now' /\ (m # Never => m + RefreshTtl <= access_cache[u].exp)
      <3>1. access_cache[u].marks[k] \in Nat \cup {Never} /\ now \in Nat
        BY DEF SessionInv, TypeOK
      <3> QED
        BY <3>1 DEF SessionInv, MarksPast, Tick, Never
    <2>2. ASSUME NEW r \in Requests, NEW k \in Keys
          PROVE  req[r].stamp <= now' /\ req[r].marks[k] <= now'
      <3>1. req[r].stamp \in Nat /\ req[r].marks[k] \in Nat \cup {Never}
        BY RequestFacts DEF Request
      <3> QED
        BY <3>1, RequestFacts DEF Tick, Never
    <2>3. ASSUME NEW r \in Requests
          PROVE  req[r].stamp <= now'
      BY <2>2 DEF Keys
    <2> QED
      BY <2>1, <2>2, <2>3 DEF MarksPast, Tick
  <1> QED
    BY <1>1, <1>2, <1>3
    DEF SessionInv, ExpTellsIssue, AdminClaimGenuine, RefreshCacheOwned, Tick

LEMMA CrashInv ==
    ASSUME SessionInv, Crash
    PROVE  SessionInv'
  <1>1. TypeOK'
    BY NoRequestType DEF SessionInv, TypeOK, Crash
  <1>2. (\A r \in Requests : RequestVerified(req[r]))'
    BY DEF SessionInv, RequestVerified, NoRequest, Crash
  <1>3. MarksPast'
    BY DEF SessionInv, TypeOK, MarksPast, NoRequest, NoMarks, Never, Crash
  <1> QED
    BY <1>1, <1>2, <1>3
    DEF SessionInv, ExpTellsIssue, AdminClaimGenuine, RefreshCacheOwned, Crash

LEMMA LoginInv ==
    ASSUME SessionInv, NEW r \in Requests, NEW u \in Users, Login(r, u)
    PROVE  SessionInv'
  <1> DEFINE q == [NoRequest EXCEPT !.pc = "get_roles", !.op = "login", !.user = u]
  <1>1. q \in Request
    BY NoRequestType DEF Request, NoRequest, Labels, Endpoints
  <1>2. RequestVerified(q)
    BY DEF RequestVerified, NoRequest
  <1>3. q.stamp <= now /\ \A k \in Keys : q.marks[k] <= now
    BY RequestFacts DEF NoRequest, NoMarks, Never
  <1> QED
    BY <1>1, <1>2, <1>3, RequestStep DEF Login

LEMMA ReceiveInv ==
    ASSUME SessionInv, NEW r \in Requests, NEW op \in Ops, NEW u \in Users,
           NEW t \in issued, NEW roles \in SUBSET RoleIds,
           Receive(r, op, u, t, roles)
    PROVE  SessionInv'
  <1> DEFINE q == [NoRequest EXCEPT !.pc = "check_revoked", !.op = op,
                                    !.user = u, !.token = t, !.roles = roles]
  <1>1. t \in Token /\ op \in Endpoints /\ op # "login"
    BY SetAssumption DEF SessionInv, TypeOK, Receive
  <1>2. q \in Request
    BY <1>1, NoRequestType DEF Request, NoRequest, Labels
  <1>3. RequestVerified(q)
    BY <1>1 DEF RequestVerified, NoRequest, Receive, JwtVerification
  <1>4. q.stamp <= now /\ \A k \in Keys : q.marks[k] <= now
    BY RequestFacts DEF NoRequest, NoMarks, Never
  <1> QED
    BY <1>2, <1>3, <1>4, RequestStep DEF Receive

LEMMA PassRevokedInv ==
    ASSUME SessionInv, NEW r \in Requests, PassRevoked(r)
    PROVE  SessionInv'
  <1> USE RequestFacts
  <1>1. CASE req[r].op = "refresh"
    <2> DEFINE q == [req[r] EXCEPT !.pc = "check_refresh"]
    <2>1. q \in Request
      BY DEF Request, Labels
    <2>2. RequestVerified(q)
      BY <1>1 DEF RequestVerified, Request, PassRevoked
    <2> QED
      BY <1>1, <2>1, <2>2, RequestStep DEF PassRevoked, Goto, Request
  <1>2. CASE req[r].op # "refresh"
    <2> DEFINE q == [req[r] EXCEPT !.pc = "revoke_get", !.stamp = now]
    <2>1. q \in Request
      BY DEF Request, Labels
    <2>2. RequestVerified(q)
      BY DEF RequestVerified, Request, PassRevoked
    <2>3. req' = [req EXCEPT ![r] = q]
      BY <1>2 DEF PassRevoked
    <2>4. q.stamp <= now /\ \A k \in Keys : q.marks[k] <= now
      BY DEF Request
    <2> QED
      BY <2>1, <2>2, <2>3, <2>4, RequestStep DEF PassRevoked
  <1> QED
    BY <1>1, <1>2

\* The owner in refresh_cache is the subject of the token: the user who is
\* given new tokens is the one who presented the old.
LEMMA CheckRefreshInv ==
    ASSUME SessionInv, NEW r \in Requests, CheckRefresh(r)
    PROVE  SessionInv'
  <1> USE RequestFacts
  <1>1. CASE CheckRefreshToken(req[r].token, req[r].user)
    <2> DEFINE q == [req[r] EXCEPT !.pc = "get_roles"]
    <2>1. q \in Request
      BY DEF Request, Labels
    <2>2. req[r].op # "login" /\ req[r].token \in issued /\ req[r].user \in Users
      BY DEF RequestVerified, CheckRefresh
    <2>3. req[r].token.sub = req[r].user
      BY <1>1, <2>2, SetAssumption
      DEF CheckRefreshToken, RefreshOwner, SessionInv, RefreshCacheOwned
    <2>4. RequestVerified(q)
      BY <2>2, <2>3 DEF RequestVerified, Request, CheckRefresh
    <2> QED
      BY <1>1, <2>1, <2>4, RequestStep DEF CheckRefresh, Goto, Request
  <1>2. CASE ~CheckRefreshToken(req[r].token, req[r].user)
    BY <1>2, ReplyStep DEF CheckRefresh
  <1> QED
    BY <1>1, <1>2

LEMMA GetUserRolesInv ==
    ASSUME SessionInv, NEW r \in Requests, GetUserRoles(r)
    PROVE  SessionInv'
  <1> USE RequestFacts
  <1> DEFINE q == [req[r] EXCEPT !.pc = "get_token",
                                 !.roles = user_roles[req[r].user]]
  <1>1. user_roles[req[r].user] \in SUBSET RoleIds
    BY DEF SessionInv, TypeOK, RequestVerified, GetUserRoles
  <1>2. q \in Request
    BY <1>1 DEF Request, Labels
  <1>3. RequestVerified(q)
    BY DEF RequestVerified, Request, GetUserRoles
  <1>4. req' = [req EXCEPT ![r] = q]
    BY DEF GetUserRoles
  <1> QED
    BY <1>2, <1>3, <1>4, RequestStep DEF GetUserRoles, Request

LEMMA MintTokenInv ==
    ASSUME SessionInv, NEW r \in Requests, MintToken(r)
    PROVE  SessionInv'
  <1> USE RequestFacts
  <1> DEFINE q == [req[r] EXCEPT !.pc = "store", !.stamp = now]
  <1>1. q \in Request
    BY DEF Request, Labels
  <1>2. RequestVerified(q)
    BY DEF RequestVerified, Request, MintToken
  <1>3. req' = [req EXCEPT ![r] = q]
    BY DEF MintToken
  <1>4. q.stamp <= now /\ \A k \in Keys : q.marks[k] <= now
    BY DEF Request
  <1> QED
    BY <1>1, <1>2, <1>3, <1>4, RequestStep DEF MintToken

LEMMA RevokeGetInv ==
    ASSUME SessionInv, NEW r \in Requests, RevokeGet(r)
    PROVE  SessionInv'
  <1> USE RequestFacts
  <1> DEFINE q == [req[r] EXCEPT !.pc = "revoke_set",
                                 !.marks = Marks(req[r].user)]
  <1>1. /\ Marks(req[r].user) \in [Keys -> Nat \cup {Never}]
        /\ \A k \in Keys : Marks(req[r].user)[k] <= now
    BY MarksType DEF SessionInv, RequestVerified, RevokeGet
  <1>2. q \in Request
    BY <1>1 DEF Request, Labels
  <1>3. RequestVerified(q)
    BY DEF RequestVerified, Request, RevokeGet
  <1>4. req' = [req EXCEPT ![r] = q]
    BY DEF RevokeGet
  <1> QED
    BY <1>1, <1>2, <1>3, <1>4, RequestStep DEF RevokeGet, Request

LEMMA ReadRolesInv ==
    ASSUME SessionInv, NEW r \in Requests, ReadRoles(r)
    PROVE  SessionInv'
  <1> USE RequestFacts
  <1> DEFINE q == [req[r] EXCEPT !.pc = "commit_roles",
                                 !.held = user_roles[req[r].user]]
  <1>1. CASE req' = [req EXCEPT ![r] = q]
    <2>1. user_roles[req[r].user] \in SUBSET RoleIds
      BY DEF SessionInv, TypeOK, RequestVerified, ReadRoles
    <2>2. q \in Request
      BY <2>1 DEF Request, Labels
    <2>3. RequestVerified(q)
      BY DEF RequestVerified, Request, ReadRoles
    <2> QED
      BY <1>1, <2>2, <2>3, RequestStep DEF ReadRoles, Request
  <1>2. CASE Reply(r)
    BY <1>2, ReplyStep DEF ReadRoles
  <1> QED
    BY <1>1, <1>2 DEF ReadRoles
\* A pair is stored under an identifier no other token has, with the owner,
\* the flag and the time of issue that the invariant asks for.
LEMMA StoreRefreshTokenInv ==
    ASSUME SessionInv, NEW r \in Requests, StoreRefreshToken(r)
    PROVE  SessionInv'
  <1> DEFINE q == req[r]
             dev(i) == IF q.op = "login" THEN i ELSE q.token.device
             pair(i) == GetToken(i, q.user, AdminClaim(q), q.roles, q.stamp, dev(i))
  <1>1. PICK i \in Ids \ UsedIds :
          /\ issued' = issued \cup pair(i)
          /\ refresh_cache' = [refresh_cache EXCEPT
               ![i] = [user |-> q.user, exp |-> now + RefreshTtl]]
    BY DEF StoreRefreshToken
  <1>2. /\ q.user \in Users /\ q.roles \in SUBSET RoleIds /\ q.stamp \in Nat
        /\ q.op # "login" => q.token \in issued /\ q.token.sub = q.user
        /\ q.op # "login" => q.token \in Token
    BY RequestFacts DEF RequestVerified, Request, StoreRefreshToken, SessionInv, TypeOK
  <1>3. dev(i) \in Ids
    BY <1>2 DEF Token
  <1>4. AdminClaim(q) \in BOOLEAN /\ (AdminClaim(q) => q.user \in Superusers)
    <2>1. CASE q.op = "login"
      BY <2>1 DEF AdminClaim
    <2>2. CASE q.op # "login"
      <3>1. AdminClaim(q) = q.token.admin
        BY <2>2 DEF AdminClaim
      <3>2. q.token.admin \in BOOLEAN
        BY <1>2, <2>2 DEF Token
      <3>3. q.token.admin => q.user \in Superusers
        BY <1>2, <2>2 DEF SessionInv, AdminClaimGenuine
      <3> QED
        BY <3>1, <3>2, <3>3, Zenon
    <2> QED
      BY <2>1, <2>2
  <1>5. /\ pair(i) \subseteq Token
        /\ \A t \in pair(i) :
             /\ t.id = i /\ t.sub = q.user /\ t.admin = AdminClaim(q)
             /\ t.exp = Floor(t.minted) + Ttl(t.type)
    BY <1>2, <1>3, <1>4, GetTokenType
  <1> HIDE DEF q, pair
  <1>6. \A t \in issued : t.id # i /\ t.id \in Ids
    BY DEF UsedIds, SessionInv, TypeOK, Token
  <1>7. TypeOK'
    BY <1>1, <1>2, <1>5, NoRequestType, TimeAssumption
    DEF SessionInv, TypeOK, StoreRefreshToken, Reply
  <1>8. ExpTellsIssue' /\ AdminClaimGenuine'
    BY <1>1, <1>4, <1>5 DEF SessionInv, ExpTellsIssue, AdminClaimGenuine
  <1>9. RefreshCacheOwned'
    BY <1>1, <1>5, <1>6 DEF SessionInv, TypeOK, RefreshCacheOwned
  <1>10. (\A s \in Requests : RequestVerified(req[s]))'
    BY <1>1 DEF SessionInv, TypeOK, RequestVerified, StoreRefreshToken, Reply, NoRequest
  <1>11. MarksPast'
    BY RequestFacts DEF SessionInv, TypeOK, MarksPast, StoreRefreshToken, Reply,
                        NoRequest, NoMarks, Never
  <1> QED
    BY <1>7, <1>8, <1>9, <1>10, <1>11 DEF SessionInv

\* The record written holds marks read before and the time of the request,
\* none later than now, and lives for refresh_ttl from now on.
LEMMA RevokeSetInv ==
    ASSUME SessionInv, NEW r \in Requests, RevokeSet(r)
    PROVE  SessionInv'
  <1> DEFINE q == req[r]
             marks == NewMarks(q)
             next == IF q.op \in SuperuserOnly THEN [q EXCEPT !.pc = "read_roles"]
                                               ELSE NoRequest
  <1>1. /\ q \in Request /\ q.stamp <= now /\ \A k \in Keys : q.marks[k] <= now
        /\ now \in Nat
        /\ q.user \in Users
    BY RequestFacts DEF RequestVerified, RevokeSet
  <1>2. /\ marks \in [Keys -> Nat \cup {Never}]
        /\ \A k \in Keys : marks[k] <= now
    BY <1>1 DEF Request, NewMarks
  <1>3. access_cache' = [access_cache EXCEPT
          ![q.user] = [marks |-> marks, exp |-> now + RefreshTtl]]
    BY DEF RevokeSet, RecordExp
  <1>4. req' = [req EXCEPT ![r] = next]
    BY DEF RevokeSet, Goto, Reply
  <1>5. /\ next \in Request /\ next.stamp <= now
        /\ \A k \in Keys : next.marks[k] <= now
    BY <1>1, NoRequestType DEF Request, Labels, NoRequest, NoMarks, Never
  <1>6. RequestVerified(next)
    BY <1>1, RequestFacts DEF RequestVerified, Request, NoRequest, RevokeSet
  <1> HIDE DEF q, marks, next
  <1>7. TypeOK'
    <2>1. now + RefreshTtl \in Nat
      BY <1>1, TimeAssumption
    <2>2. access_cache' \in [Users -> [marks : [Keys -> Nat \cup {Never}], exp : Nat]]
      BY <1>2, <1>3, <2>1 DEF SessionInv, TypeOK
    <2> QED
      BY <1>4, <1>5, <2>2 DEF SessionInv, TypeOK, RevokeSet
  <1>8. ExpTellsIssue' /\ AdminClaimGenuine' /\ RefreshCacheOwned'
    BY DEF SessionInv, ExpTellsIssue, AdminClaimGenuine, RefreshCacheOwned, RevokeSet
  <1>9. (\A s \in Requests : RequestVerified(req[s]))'
    BY <1>4, <1>6 DEF SessionInv, TypeOK, RequestVerified, RevokeSet
  <1>10. MarksPast'
    <2>1. ASSUME NEW u \in Users, NEW k \in Keys
          PROVE  LET m == access_cache'[u].marks[k] IN
                 m <= now /\ (m # Never => m + RefreshTtl <= access_cache'[u].exp)
      <3>1. CASE u = q.user
        <4>1. access_cache'[u] = [marks |-> marks, exp |-> now + RefreshTtl]
          BY <1>3, <3>1 DEF SessionInv, TypeOK
        <4>2. marks[k] \in Nat \cup {Never} /\ marks[k] <= now
          BY <1>2
        <4> QED
          BY <1>1, <4>1, <4>2, TimeAssumption DEF Never
      <3>2. CASE u # q.user
        BY <1>3, <3>2 DEF SessionInv, TypeOK, MarksPast
      <3> QED
        BY <3>1, <3>2
    <2>2. \A s \in Requests :
            req'[s].stamp <= now /\ \A k \in Keys : req'[s].marks[k] <= now
      BY <1>4, <1>5 DEF SessionInv, TypeOK, MarksPast
    <2> QED
      BY <2>1, <2>2 DEF MarksPast, RevokeSet
  <1> QED
    BY <1>7, <1>8, <1>9, <1>10 DEF SessionInv

LEMMA CommitRolesInv ==
    ASSUME SessionInv, NEW r \in Requests, AddUserRoles(r) \/ RemoveUserRoles(r)
    PROVE  SessionInv'
  <1>1. user_roles' \in [Users -> SUBSET RoleIds]
    <2>1. req[r].roles \subseteq RoleIds
      BY RequestFacts DEF Request
    <2> QED
      BY <2>1 DEF SessionInv, TypeOK, AddUserRoles, RemoveUserRoles
  <1>2. /\ req' = [req EXCEPT ![r] = NoRequest]
        /\ UNCHANGED <<now, issued, refresh_cache, access_cache>>
    BY DEF AddUserRoles, RemoveUserRoles, Reply
  <1>3. TypeOK'
    BY <1>1, <1>2, NoRequestType DEF SessionInv, TypeOK
  <1>4. (\A s \in Requests : RequestVerified(req[s]))'
    BY <1>2 DEF SessionInv, TypeOK, RequestVerified, NoRequest
  <1>5. MarksPast'
    BY <1>2, RequestFacts DEF SessionInv, TypeOK, MarksPast, NoRequest, NoMarks, Never
  <1> QED
    BY <1>2, <1>3, <1>4, <1>5
    DEF SessionInv, ExpTellsIssue, AdminClaimGenuine, RefreshCacheOwned
-----------------------------------------------------------------------------
(* Theorems.                                                               *)

\* SessionInv is preserved by every step.
LEMMA NextInv ==
    ASSUME SessionInv, [Next]_vars
    PROVE  SessionInv'
  <1>1. CASE UNCHANGED vars
    BY <1>1 DEF vars, SessionInv, TypeOK, ExpTellsIssue, AdminClaimGenuine,
                RefreshCacheOwned, RequestVerified, MarksPast
  <1>2. CASE Tick \/ Crash
    BY <1>2, TickInv, CrashInv
  <1>3. ASSUME NEW r \in Requests, Arrive(r)
        PROVE  SessionInv'
    BY <1>3, LoginInv, ReceiveInv DEF Arrive
  <1>4. ASSUME NEW r \in Requests, Serve(r)
        PROVE  SessionInv'
    <2>1. CASE RejectRevoked(r)
      BY <2>1, ReplyStep DEF RejectRevoked
    <2>2. CASE PassRevoked(r)
      BY <2>2, PassRevokedInv
    <2>3. CASE CheckRefresh(r)
      BY <2>3, CheckRefreshInv
    <2>4. CASE GetUserRoles(r)
      BY <2>4, GetUserRolesInv
    <2>5. CASE MintToken(r)
      BY <2>5, MintTokenInv
    <2>6. CASE StoreRefreshToken(r)
      BY <2>6, StoreRefreshTokenInv
    <2>7. CASE RevokeGet(r)
      BY <2>7, RevokeGetInv
    <2>8. CASE RevokeSet(r)
      BY <2>8, RevokeSetInv
    <2>9. CASE ReadRoles(r)
      BY <2>9, ReadRolesInv
    <2>10. CASE AddUserRoles(r) \/ RemoveUserRoles(r)
      BY <2>10, CommitRolesInv
    <2> QED
      BY <1>4, <2>1, <2>2, <2>3, <2>4, <2>5, <2>6, <2>7, <2>8, <2>9, <2>10 DEF Serve
  <1> QED
    BY <1>1, <1>2, <1>3, <1>4 DEF Next

\* Types, genuine admin claims, owned refresh tokens and ordered revocation
\* times hold in every reachable state.
THEOREM SessionInvariant == Spec => []SessionInv
  BY InitInv, NextInv, PTL DEF Spec

\* TypeOK of the runs, for every value of the constants.
THEOREM TypeCorrect == Spec => []TypeOK
  <1>1. SessionInv => TypeOK
    BY DEF SessionInv
  <1> QED
    BY <1>1, SessionInvariant, PTL

\* No interleaving of logins and refreshes gives the claim "admin" to a user
\* who is not a superuser.
THEOREM AdminClaimsGenuine == Spec => []AdminClaimGenuine
  <1>1. SessionInv => AdminClaimGenuine
    BY DEF SessionInv
  <1> QED
    BY <1>1, SessionInvariant, PTL

\* The truncation of exp is the only reason why a token is refused that was
\* minted after the revocation: by less than a second.
THEOREM OverRevocationIsBounded == Spec => []OverRevocationBounded
  <1>1. SessionInv => OverRevocationBounded
    <2> SUFFICES ASSUME SessionInv, NEW t \in issued, CheckRevokedToken(t)
                 PROVE  \E m \in MarksOf(t) : t.minted < m + Second
      BY DEF OverRevocationBounded
    <2>1. t \in Token
      BY DEF SessionInv, TypeOK
    <2>2. PICK m \in MarksOf(t) : m # Never /\ t.exp - Ttl(t.type) <= m
      BY DEF CheckRevokedToken, MarksOf
    <2>3. t.exp - Ttl(t.type) = Floor(t.minted)
      <3>1. t.exp = Floor(t.minted) + Ttl(t.type)
        BY DEF SessionInv, ExpTellsIssue
      <3>2. Ttl(t.type) \in Nat /\ Floor(t.minted) \in Nat
        BY <2>1, TtlType, FloorBounds DEF Token
      <3> QED
        BY <3>1, <3>2
    <2>4. m \in Nat
      <3>1. Marks(t.sub) \in [Keys -> Nat \cup {Never}]
        BY <2>1, MarksType DEF SessionInv, Token
      <3>2. All \in Keys /\ <<"access", t.id>> \in Keys
        BY <2>1 DEF Keys, Jtis, Token
      <3> QED
        BY <2>2, <3>1, <3>2 DEF MarksOf
    <2>5. t.minted < m + Second
      BY <2>1, <2>2, <2>3, <2>4, FloorBounds, TimeAssumption DEF Token
    <2> QED
      BY <2>5
  <1> QED
    BY <1>1, SessionInvariant, PTL
\* Only RevokeSet writes access_cache, and RequestVerified still holds of the
\* request that gets there.
THEOREM RevocationsAuthorized == Spec => RevocationAuthorized
  <1> DEFINE A == \A u \in Users :
                    access_cache'[u] # access_cache[u] =>
                      \E r \in Requests :
                        /\ req[r].pc = "revoke_set" /\ req[r].user = u
                        /\ req[r].token.sub \in {u} \cup Superusers
  <1>1. SessionInv /\ [Next]_vars => [A]_vars
    <2> SUFFICES ASSUME SessionInv, Next,
                        NEW u \in Users, access_cache'[u] # access_cache[u]
                 PROVE  \E r \in Requests :
                          /\ req[r].pc = "revoke_set" /\ req[r].user = u
                          /\ req[r].token.sub \in {u} \cup Superusers
      OBVIOUS
    <2>1. PICK r \in Requests : RevokeSet(r)
      BY DEF Next, Tick, Crash, Arrive, Login, Receive, Serve, RejectRevoked,
             PassRevoked, CheckRefresh, GetUserRoles, MintToken,
             StoreRefreshToken, RevokeGet, ReadRoles, AddUserRoles,
             RemoveUserRoles
    <2>2. req[r].pc = "revoke_set" /\ req[r].user = u
      BY <2>1 DEF RevokeSet, SessionInv, TypeOK
    <2>3. /\ req[r].token \in issued
          /\ req[r].token.sub = req[r].user \/ req[r].token.admin
      BY <2>2, RequestFacts DEF RequestVerified
    <2>4. req[r].token.admin => req[r].token.sub \in Superusers
      BY <2>3 DEF SessionInv, AdminClaimGenuine
    <2> QED
      BY <2>2, <2>3, <2>4
  <1> QED
    BY <1>1, SessionInvariant, PTL DEF Spec, RevocationAuthorized

\* A record is kept refresh_ttl beyond each of its times, which is longer by
\* a second than an access token issued before such a time can live.
THEOREM ClockNeverReadmitsHolds == Spec => ClockNeverReadmits
  <1> DEFINE A == \A t \in issued :
                    /\ now' # now
                    /\ t.type = "access"
                    /\ ~Accepted(t)
                    => ~Accepted(t)'
  <1>1. SessionInv /\ [Next]_vars => [A]_vars
    <2> SUFFICES ASSUME SessionInv, Next, now' # now,
                        NEW t \in issued, t.type = "access", ~Accepted(t),
                        Accepted(t)'
                 PROVE  FALSE
      OBVIOUS
    <2>1. Tick
      BY DEF Next, Tick, Crash, Arrive, Login, Receive, Serve, RejectRevoked,
             PassRevoked, CheckRefresh, GetUserRoles, MintToken, RevokeSet,
             StoreRefreshToken, RevokeGet, ReadRoles, AddUserRoles,
             RemoveUserRoles
    <2>2. /\ now \in Nat /\ now' = now + 1 /\ access_cache' = access_cache
          /\ t \in Token /\ t.sub \in Users
      BY <2>1 DEF Tick, SessionInv, TypeOK, Token
    <2>3. Floor(now) <= Floor(now') /\ Floor(now') <= t.exp
          /\ Floor(now) \in Nat /\ Floor(now') \in Nat /\ now' < Floor(now') + Second
      BY <2>2, FloorTick, FloorBounds DEF Accepted, VerifyJwtInRequest, Floor
    <2>4. VerifyJwtInRequest(t)
      BY <2>2, <2>3 DEF VerifyJwtInRequest, Token
    <2>5. CheckRevokedToken(t) /\ ~CheckRevokedToken(t)'
      BY <2>4 DEF Accepted
    <2> DEFINE e == access_cache[t.sub]
    <2>6. now < e.exp /\ ~(now' < e.exp)
      <3>1. All \in Keys /\ <<"access", t.id>> \in Keys
        BY <2>2 DEF Keys, Jtis, Token
      <3>2. ASSUME ~(now < e.exp) PROVE FALSE
        BY <2>5, <3>1, <3>2 DEF CheckRevokedToken, Marks, NoMarks
      <3>3. ASSUME now' < e.exp PROVE FALSE
        <4>1. Marks(t.sub)' = Marks(t.sub)
          BY <2>2, <3>2, <3>3 DEF Marks
        <4> QED
          BY <2>5, <4>1 DEF CheckRevokedToken
      <3> QED
        BY <3>2, <3>3
    <2>7. PICK k \in Keys : e.marks[k] # Never /\ t.exp - AccessTtl <= e.marks[k]
      <3>1. All \in Keys /\ <<"access", t.id>> \in Keys
        BY <2>2 DEF Keys, Jtis, Token
      <3> QED
        BY <2>5, <2>6, <3>1 DEF CheckRevokedToken, Marks, Ttl
    <2>8. e.marks[k] \in Nat /\ e.exp \in Nat /\ e.marks[k] + RefreshTtl <= e.exp
      BY <2>2, <2>7 DEF SessionInv, TypeOK, MarksPast, Never
    <2>9. t.exp \in Nat
      BY <2>2 DEF Token
    <2> QED
      BY <2>2, <2>3, <2>6, <2>7, <2>8, <2>9, TimeAssumption
  <1> QED
    BY <1>1, SessionInvariant, PTL DEF Spec, ClockNeverReadmits
=============================================================================
