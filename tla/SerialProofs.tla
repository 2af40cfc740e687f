---------------------------- MODULE SerialProofs ----------------------------
(***************************************************************************)
(* What TLAPS proves about Sessions when requests are served one after     *)
(* another (OneAtATime): then a logout of all devices ends every session,  *)
(* tokens carry the roles their user has, nothing that was revoked comes   *)
(* back, and a logout of one device spares the others.  The time between   *)
(* two calls of a request, the restarts and the expiry of the records in   *)
(* Redis remain.  SerialInv is inductive on top of SessionInv.             *)
(***************************************************************************)
EXTENDS SessionsProofs

-----------------------------------------------------------------------------
(* Tokens and revocation times.                                            *)

\* What SessionInv and PairsOK say of a token that was issued.
LEMMA TokenFacts ==
    ASSUME SessionInv, NEW t \in issued
    PROVE  /\ t \in Token /\ t.id \in Ids /\ t.sub \in Users /\ t.device \in Ids
           /\ t.minted \in Nat /\ t.exp \in Nat
           /\ Floor(t.minted) \in Nat /\ Floor(t.minted) <= t.minted
           /\ t.exp = Floor(t.minted) + Ttl(t.type)
           /\ t.exp - Ttl(t.type) = Floor(t.minted)
           /\ t.type \in {"access", "refresh"}
           /\ All \in Keys /\ <<"access", t.id>> \in Keys
           /\ refresh_cache[t.id].exp \in Nat
  <1>1. t \in Token
    BY DEF SessionInv, TypeOK
  <1>2. t.minted \in Nat /\ t.id \in Ids /\ t.sub \in Users /\ t.device \in Ids
        /\ t.exp \in Nat /\ t.type \in {"access", "refresh"}
    BY <1>1 DEF Token
  <1>3. t.exp = Floor(t.minted) + Ttl(t.type)
    BY DEF SessionInv, ExpTellsIssue
  <1>4. All \in Keys /\ <<"access", t.id>> \in Keys
    BY <1>2 DEF Keys, Jtis
  <1>5. refresh_cache[t.id].exp \in Nat
    BY <1>2 DEF SessionInv, TypeOK
  <1>6. Floor(t.minted) \in Nat /\ Floor(t.minted) <= t.minted
    BY <1>2, FloorBounds
  <1>7. Ttl(t.type) \in Nat
    BY <1>2, TtlType
  <1>8. t.exp - Ttl(t.type) = Floor(t.minted)
    BY <1>3, <1>6, <1>7
  <1> QED
    BY <1>1, <1>2, <1>3, <1>4, <1>5, <1>6, <1>8

\* The revocation times in a record are past, or the record says Never.
LEMMA MarkFacts ==
    ASSUME SessionInv, NEW u \in Users, NEW k \in Keys
    PROVE  LET m == access_cache[u].marks[k] IN
           /\ m \in Nat \cup {Never} /\ m \in Int
           /\ m <= now
           /\ m # Never => m \in Nat /\ m + RefreshTtl <= access_cache[u].exp
           /\ access_cache[u].exp \in Nat
           /\ now \in Nat
  BY DEF SessionInv, TypeOK, MarksPast, Never

\* An access token that a revocation speaks of has expired when the record of
\* that revocation may have.
LEMMA ExpiredByThen ==
    ASSUME SessionInv, NEW t \in issued, t.type = "access",
           NEW m \in Nat, Floor(t.minted) <= m,
           NEW at \in Nat, m + RefreshTtl <= at
    PROVE  Floor(at) > t.exp
  <1>1. t.exp = Floor(t.minted) + AccessTtl
    BY TokenFacts DEF Ttl
  <1>2. Floor(t.minted) \in Nat /\ Floor(at) \in Nat /\ at < Floor(at) + Second
    BY TokenFacts, FloorBounds
  <1> QED
    BY <1>1, <1>2, TimeAssumption

\* check_revoked_token lets a token through that was minted after the last
\* revocation of all tokens.
LEMMA NotRevokedAll ==
    ASSUME SessionInv, NEW t \in issued, ~CheckRevokedToken(t)
    PROVE  Marks(t.sub)[All] < t.minted
  <1>1. /\ Marks(t.sub)[All] \in Nat \cup {Never}
        /\ Marks(t.sub) \in [Keys -> Nat \cup {Never}]
    BY TokenFacts, MarksType DEF SessionInv
  <1>2. /\ t.exp - Ttl(t.type) = Floor(t.minted)
        /\ t.minted \in Nat /\ Floor(t.minted) \in Nat
        /\ Floor(t.minted) <= t.minted
    BY TokenFacts
  <1>3. Marks(t.sub)[All] # Never => ~(Floor(t.minted) <= Marks(t.sub)[All])
    BY <1>2 DEF CheckRevokedToken
  <1> QED
    BY <1>1, <1>2, <1>3 DEF Never

\* The login of a token is found by its id.
LEMMA LoginIs ==
    ASSUME PairsOK, NEW t, NEW s \in issued,
           s.type = "access", s.id = t.device
    PROVE  LoginOf(t) = s
  BY DEF PairsOK, LoginOf

LEMMA LoginFacts ==
    ASSUME PairsOK, NEW t \in issued
    PROVE  /\ LoginOf(t) \in issued
           /\ LoginOf(t).type = "access" /\ LoginOf(t).id = t.device
  <1>1. PICK s \in issued : s.type = "access" /\ s.id = t.device
    BY DEF PairsOK
  <1> QED
    BY <1>1, LoginIs

-----------------------------------------------------------------------------
(* Steps and the parts of SerialInv.                                       *)

LEMMA InitSerial == Init => SerialInv
  BY DEF Init, SerialInv, PairsOK, TokensOK, ReadsCurrent, NoRequest

\* The logins of the tokens there are do not depend on anything else.
LEMMA SameLogins ==
    ASSUME issued' = issued, NEW t
    PROVE  LoginOf(t)' = LoginOf(t)
  BY DEF LoginOf

LEMMA SameEnds ==
    ASSUME issued' = issued, NEW t, NEW m
    PROVE  EndsBefore(t, m)' <=> EndsBefore(t, m)
  BY SameLogins DEF EndsBefore

\* A step that leaves the tables alone keeps what is said of them.
LEMMA SameTables ==
    ASSUME SerialInv,
           UNCHANGED <<now, issued, refresh_cache, access_cache, user_roles>>
    PROVE  PairsOK' /\ TokensOK'
  <1>1. PairsOK'
    BY DEF SerialInv, PairsOK
  <1>2. TokensOK'
    <2> SUFFICES ASSUME NEW t \in issued
                 PROVE  now < access_cache[t.sub].exp =>
                            EndsBefore(t, AllMark(t.sub))'
      BY DEF SerialInv, TokensOK, AllMark
    <2>1. PICK m : m = AllMark(t.sub)
      OBVIOUS
    <2>2. now < access_cache[t.sub].exp => EndsBefore(t, m)
      BY <2>1 DEF SerialInv, TokensOK
    <2>3. now < access_cache[t.sub].exp => EndsBefore(t, m)'
      BY <2>2, SameEnds
    <2>4. AllMark(t.sub)' = m
      BY <2>1 DEF AllMark
    <2> QED
      BY <2>3, <2>4 DEF EndsBefore
  <1> QED
    BY <1>1, <1>2

\* What a request has read stays so in such a step.
LEMMA SameReads ==
    ASSUME UNCHANGED <<now, issued, refresh_cache, access_cache, user_roles>>,
           NEW q, ReadsCurrent(q)
    PROVE  ReadsCurrent(q)'
  <1>1. \A t, m : EndsBefore(t, m) => EndsBefore(t, m)'
    BY SameEnds
  <1> QED
    BY <1>1 DEF ReadsCurrent, AllMark

\* A step of one request that leaves the tables alone.
LEMMA SerialStep ==
    ASSUME SessionInv, SerialInv,
           UNCHANGED <<now, issued, refresh_cache, access_cache, user_roles>>,
           NEW r \in Requests, NEW q,
           req' = [req EXCEPT ![r] = q],
           ReadsCurrent(q)
    PROVE  SerialInv'
  <1>1. ASSUME NEW s \in Requests PROVE ReadsCurrent(req[s])'
    <2>1. PICK x : x = req'[s]
      OBVIOUS
    <2>2. x = req[s] \/ x = q
      BY <2>1 DEF SessionInv, TypeOK
    <2>3. ReadsCurrent(x)
      BY <2>2 DEF SerialInv
    <2>4. ReadsCurrent(x)'
      BY <2>3, SameReads
    <2> QED
      BY <2>1, <2>4 DEF ReadsCurrent, EndsBefore
  <1> QED
    BY <1>1, SameTables DEF SerialInv

\* A step of the one request in progress.
LEMMA OnlyRequest ==
    ASSUME SessionInv, OneAtATime,
           NEW r \in Requests, req[r].pc # "idle", NEW q,
           req' = [req EXCEPT ![r] = q],
           ReadsCurrent(q)',
           NEW s \in Requests
    PROVE  ReadsCurrent(req[s])'
  <1>1. PICK x : x = req'[s]
    OBVIOUS
  <1>2. x = q \/ x.pc = "idle"
    BY <1>1 DEF SessionInv, TypeOK, OneAtATime
  <1>3. ReadsCurrent(x)'
    BY <1>2 DEF ReadsCurrent
  <1> QED
    BY <1>1, <1>3 DEF ReadsCurrent, EndsBefore

-----------------------------------------------------------------------------
(* Steps of a request that leave the tables alone.                         *)

LEMMA ReplySerial ==
    ASSUME SessionInv, SerialInv, NEW r \in Requests, Reply(r),
           UNCHANGED <<now, issued, refresh_cache, access_cache, user_roles>>
    PROVE  SerialInv'
  <1>1. ReadsCurrent(NoRequest)
    BY DEF ReadsCurrent, NoRequest
  <1> QED
    BY <1>1, SerialStep DEF Reply

LEMMA ArriveSerial ==
    ASSUME SessionInv, SerialInv, NEW r \in Requests, Arrive(r)
    PROVE  SerialInv'
  <1>1. ASSUME NEW u \in Users, Login(r, u)
        PROVE  SerialInv'
    <2> DEFINE q == [NoRequest EXCEPT !.pc = "get_roles", !.op = "login", !.user = u]
    <2>1. ReadsCurrent(q)
      BY DEF ReadsCurrent, NoRequest
    <2> QED
      BY <1>1, <2>1, SerialStep DEF Login
  <1>2. ASSUME NEW op \in Ops, NEW u \in Users, NEW t \in issued,
               NEW roles \in SUBSET RoleIds, Receive(r, op, u, t, roles)
        PROVE  SerialInv'
    <2> DEFINE q == [NoRequest EXCEPT !.pc = "check_revoked", !.op = op,
                                      !.user = u, !.token = t, !.roles = roles]
    <2>1. ReadsCurrent(q)
      BY DEF ReadsCurrent, NoRequest
    <2> QED
      BY <1>2, <2>1, SerialStep DEF Receive
  <1> QED
    BY <1>1, <1>2 DEF Arrive

\* A token that is not revoked was minted after the last revocation of all
\* tokens; the time a revocation takes is the latest there is.
LEMMA PassRevokedSerial ==
    ASSUME SessionInv, SerialInv, NEW r \in Requests, PassRevoked(r)
    PROVE  SerialInv'
  <1>1. /\ req[r] \in Request /\ req[r].op # "login" /\ req[r].user \in Users
        /\ req[r].token \in issued
    BY RequestFacts DEF RequestVerified, PassRevoked
  <1>2. CASE req[r].op = "refresh"
    <2> DEFINE q == [req[r] EXCEPT !.pc = "check_refresh"]
    <2>1. Marks(req[r].token.sub)[All] < req[r].token.minted
      BY <1>1, NotRevokedAll DEF PassRevoked
    <2>2. q.token = req[r].token /\ q.pc = "check_refresh" /\ q.op = "refresh"
      BY <1>1, <1>2 DEF Request
    <2>3. now < access_cache[q.token.sub].exp => q.token.minted > AllMark(q.token.sub)
      <3>1. req[r].token.minted \in Nat /\ req[r].token.sub \in Users /\ All \in Keys
        BY <1>1, TokenFacts
      <3>2. access_cache[req[r].token.sub].marks[All] \in Int
        BY <3>1, MarkFacts
      <3> QED
        BY <2>1, <2>2, <3>1, <3>2 DEF Marks, AllMark
    <2>4. ReadsCurrent(q)
      BY <2>2, <2>3 DEF ReadsCurrent
    <2>5. req' = [req EXCEPT ![r] = q]
      BY <1>2 DEF PassRevoked, Goto
    <2> QED
      BY <2>4, <2>5, SerialStep DEF PassRevoked
  <1>3. CASE req[r].op # "refresh"
    <2> DEFINE q == [req[r] EXCEPT !.pc = "revoke_get", !.stamp = now]
    <2>1. q.pc = "revoke_get" /\ q.stamp = now /\ q.user = req[r].user
      BY <1>1 DEF Request
    <2>2. \A t \in issued : t.minted <= now /\ refresh_cache[t.id].exp <= now + RefreshTtl
      BY DEF SerialInv, PairsOK
    <2>3. \A k \in Keys : access_cache[q.user].marks[k] <= now
      BY <1>1, <2>1, MarkFacts
    <2>4. ReadsCurrent(q)
      BY <2>1, <2>2, <2>3 DEF ReadsCurrent
    <2>5. req' = [req EXCEPT ![r] = q]
      BY <1>3 DEF PassRevoked
    <2> QED
      BY <2>4, <2>5, SerialStep DEF PassRevoked
  <1> QED
    BY <1>2, <1>3

LEMMA CheckRefreshSerial ==
    ASSUME SessionInv, SerialInv, NEW r \in Requests, CheckRefresh(r)
    PROVE  SerialInv'
  <1>1. CASE CheckRefreshToken(req[r].token, req[r].user)
    <2> DEFINE q == [req[r] EXCEPT !.pc = "get_roles"]
    <2>1. /\ q.pc = "get_roles" /\ q.op = req[r].op /\ q.token = req[r].token
          /\ req[r].pc = "check_refresh"
      BY RequestFacts DEF Request, CheckRefresh
    <2>2. ReadsCurrent(req[r])
      BY DEF SerialInv
    <2>3. ReadsCurrent(q)
      BY <2>1, <2>2 DEF ReadsCurrent
    <2>4. req' = [req EXCEPT ![r] = q]
      BY <1>1 DEF CheckRefresh, Goto
    <2> QED
      BY <2>3, <2>4, SerialStep DEF CheckRefresh
  <1>2. CASE ~CheckRefreshToken(req[r].token, req[r].user)
    BY <1>2, ReplySerial DEF CheckRefresh
  <1> QED
    BY <1>1, <1>2

LEMMA GetUserRolesSerial ==
    ASSUME SessionInv, SerialInv, NEW r \in Requests, GetUserRoles(r)
    PROVE  SerialInv'
  <1> DEFINE q == [req[r] EXCEPT !.pc = "get_token",
                                 !.roles = user_roles[req[r].user]]
  <1>1. /\ q.pc = "get_token" /\ q.op = req[r].op /\ q.token = req[r].token
        /\ q.roles = user_roles[q.user] /\ req[r].pc = "get_roles"
    BY RequestFacts DEF Request, GetUserRoles
  <1>2. ReadsCurrent(req[r])
    BY DEF SerialInv
  <1>3. ReadsCurrent(q)
    BY <1>1, <1>2 DEF ReadsCurrent
  <1>4. req' = [req EXCEPT ![r] = q]
    BY DEF GetUserRoles
  <1> QED
    BY <1>3, <1>4, SerialStep DEF GetUserRoles

LEMMA MintTokenSerial ==
    ASSUME SessionInv, SerialInv, NEW r \in Requests, MintToken(r)
    PROVE  SerialInv'
  <1> DEFINE q == [req[r] EXCEPT !.pc = "store", !.stamp = now]
  <1>1. /\ q.pc = "store" /\ q.op = req[r].op /\ q.token = req[r].token
        /\ q.roles = req[r].roles /\ q.user = req[r].user
        /\ q.stamp = now /\ req[r].pc = "get_token"
    BY RequestFacts DEF Request, MintToken
  <1>2. ReadsCurrent(req[r])
    BY DEF SerialInv
  <1>3. \A k \in Keys : access_cache[q.user].marks[k] <= q.stamp
    BY <1>1, RequestFacts, MarkFacts DEF RequestVerified
  <1>4. ReadsCurrent(q)
    BY <1>1, <1>2, <1>3 DEF ReadsCurrent
  <1>5. req' = [req EXCEPT ![r] = q]
    BY DEF MintToken
  <1> QED
    BY <1>4, <1>5, SerialStep DEF MintToken

\* The record that is read is the one there is, or it has expired.
LEMMA RevokeGetSerial ==
    ASSUME SessionInv, SerialInv, NEW r \in Requests, RevokeGet(r)
    PROVE  SerialInv'
  <1> DEFINE q == [req[r] EXCEPT !.pc = "revoke_set",
                                 !.marks = Marks(req[r].user)]
  <1>1. /\ q.pc = "revoke_set" /\ q.user = req[r].user /\ q.stamp = req[r].stamp
        /\ q.marks = Marks(q.user) /\ req[r].pc = "revoke_get"
    BY RequestFacts DEF Request, RevokeGet
  <1>2. ReadsCurrent(req[r])
    BY DEF SerialInv
  <1>3. q.user \in Users /\ now \in Nat /\ access_cache[q.user].exp \in Nat
    BY <1>1, RequestFacts DEF RequestVerified, SessionInv, TypeOK
  <1>4. \/ q.marks = access_cache[q.user].marks
        \/ q.marks = NoMarks /\ access_cache[q.user].exp <= now
    BY <1>1, <1>3 DEF Marks
  <1>5. ASSUME NEW t \in issued, t.sub = q.user
        PROVE  EndsBefore(t, q.marks[All])
    <2>1. CASE now < access_cache[q.user].exp
      BY <1>1, <1>5, <2>1 DEF SerialInv, TokensOK, Marks, AllMark
    <2>2. CASE ~(now < access_cache[q.user].exp)
      <3>1. q.marks[All] = Never
        <4>1. q.marks = NoMarks
          BY <1>1, <2>2 DEF Marks
        <4> QED
          BY <4>1 DEF NoMarks, Keys
      <3>2. LoginOf(t).minted \in Nat
        BY LoginFacts, TokenFacts DEF SerialInv
      <3> QED
        BY <3>1, <3>2 DEF EndsBefore, Never
    <2> QED
      BY <2>1, <2>2
  <1> HIDE DEF q
  <1>6. ReadsCurrent(q)
    BY <1>1, <1>2, <1>4, <1>5 DEF ReadsCurrent
  <1>7. req' = [req EXCEPT ![r] = q]
    BY DEF RevokeGet, q
  <1> QED
    BY <1>6, <1>7, SerialStep DEF RevokeGet

LEMMA ReadRolesSerial ==
    ASSUME SessionInv, SerialInv, NEW r \in Requests, ReadRoles(r)
    PROVE  SerialInv'
  <1> DEFINE q == [req[r] EXCEPT !.pc = "commit_roles",
                                 !.held = user_roles[req[r].user]]
  <1>1. CASE req' = [req EXCEPT ![r] = q]
    <2>1. q.pc = "commit_roles" /\ q.user = req[r].user /\ req[r].pc = "read_roles"
      BY RequestFacts DEF Request, ReadRoles
    <2>2. ReadsCurrent(req[r])
      BY DEF SerialInv
    <2>3. ReadsCurrent(q)
      BY <2>1, <2>2 DEF ReadsCurrent
    <2> QED
      BY <1>1, <2>3, SerialStep DEF ReadRoles
  <1>2. CASE Reply(r)
    BY <1>2, ReplySerial DEF ReadRoles
  <1> QED
    BY <1>1, <1>2 DEF ReadRoles

-----------------------------------------------------------------------------
(* Time and restarts.                                                      *)

LEMMA TickSerial ==
    ASSUME SessionInv, SerialInv, Tick
    PROVE  SerialInv'
  <1>1. /\ now \in Nat /\ now' = now + 1 /\ RefreshTtl \in Nat
        /\ issued' = issued /\ refresh_cache' = refresh_cache
        /\ access_cache' = access_cache /\ user_roles' = user_roles
        /\ req' = req
    BY TimeAssumption DEF SessionInv, TypeOK, Tick
  <1>2. PairsOK'
    <2>1. ASSUME NEW t \in issued
          PROVE  t.minted <= now' /\ refresh_cache[t.id].exp <= now' + RefreshTtl
      <3>1. t.minted \in Nat /\ refresh_cache[t.id].exp \in Nat
        BY TokenFacts
      <3>2. t.minted <= now /\ refresh_cache[t.id].exp <= now + RefreshTtl
        BY DEF SerialInv, PairsOK
      <3> QED
        BY <1>1, <3>1, <3>2
    <2> QED
      BY <1>1, <2>1 DEF SerialInv, PairsOK
  <1>3. ASSUME NEW e \in Nat
        PROVE  /\ now' < e => now < e
               /\ e <= now => e <= now'
    BY <1>1
  <1>4. TokensOK'
    <2>1. ASSUME NEW t \in issued
          PROVE  /\ now' < access_cache[t.sub].exp =>
                        EndsBefore(t, AllMark(t.sub))'
                 /\ Floor(now) > t.exp => Floor(now') > t.exp
      <3>1. t.exp \in Nat /\ access_cache[t.sub].exp \in Nat
        BY TokenFacts DEF SessionInv, TypeOK
      <3>2. PICK m : m = AllMark(t.sub)
        OBVIOUS
      <3>3. now' < access_cache[t.sub].exp => EndsBefore(t, m)
        BY <1>3, <3>1, <3>2 DEF SerialInv, TokensOK
      <3>4. now' < access_cache[t.sub].exp => EndsBefore(t, m)'
        BY <1>1, <3>3, SameEnds
      <3>5. AllMark(t.sub)' = m
        BY <1>1, <3>2 DEF AllMark
      <3>6. /\ Floor(now) <= Floor(now') /\ Floor(now) \in Nat
            /\ Floor(now') \in Nat
        <4>1. Floor(now) <= Floor(now + 1) /\ Floor(now) \in Nat /\ Floor(now + 1) \in Nat
          BY <1>1, FloorTick, FloorBounds
        <4> QED
          BY <1>1, <4>1
      <3>7. Floor(now) > t.exp => Floor(now') > t.exp
        BY <3>1, <3>6
      <3>8. now' < access_cache[t.sub].exp => EndsBefore(t, AllMark(t.sub))'
        BY <3>4, <3>5 DEF EndsBefore
      <3> QED
        BY <3>7, <3>8
    <2>2. \A t \in issued : Floor(now)' = Floor(now')
      BY DEF Floor
    <2> QED
      BY <1>1, <2>1, <2>2 DEF SerialInv, TokensOK, AllMark
  <1>5. ASSUME NEW s \in Requests PROVE ReadsCurrent(req[s])'
    <2>1. PICK x : x = req[s]
      OBVIOUS
    <2>2. ReadsCurrent(x) /\ RequestVerified(x) /\ x \in Request
      BY <2>1, RequestFacts DEF SerialInv
    <2>3. \A t, m : EndsBefore(t, m) => EndsBefore(t, m)'
      BY <1>1, SameEnds
    <2>4. ReadsCurrent(x)'
      <3>1. x.pc # "idle" => access_cache[x.user].exp \in Nat
        BY <2>2 DEF RequestVerified, SessionInv, TypeOK
      <3>2. x.pc # "idle" /\ x.op # "login" => access_cache[x.token.sub].exp \in Nat
        BY <2>2, TokenFacts DEF RequestVerified, SessionInv, TypeOK
      <3>3. /\ x.pc = "revoke_set" /\ access_cache[x.user].exp <= now
                  => access_cache[x.user].exp <= now'
            /\ x.pc # "idle" /\ x.op # "login" /\ now' < access_cache[x.token.sub].exp
                  => now < access_cache[x.token.sub].exp
        BY <1>3, <3>1, <3>2
      <3> QED
        BY <1>1, <2>2, <2>3, <3>3 DEF ReadsCurrent, AllMark
    <2> QED
      BY <1>1, <2>1, <2>4 DEF ReadsCurrent, EndsBefore
  <1> QED
    BY <1>2, <1>4, <1>5, <1>1 DEF SerialInv

LEMMA CrashSerial ==
    ASSUME SessionInv, SerialInv, Crash
    PROVE  SerialInv'
  <1>1. ASSUME NEW s \in Requests PROVE ReadsCurrent(req[s])'
    BY DEF ReadsCurrent, Crash, NoRequest
  <1>2. PairsOK' /\ TokensOK'
    BY SameTables DEF Crash
  <1> QED
    BY <1>1, <1>2 DEF SerialInv

-----------------------------------------------------------------------------
(* New tokens.                                                             *)

LEMMA LoginIsNext ==
    ASSUME PairsOK', NEW t, NEW s \in issued',
           s.type = "access", s.id = t.device
    PROVE  LoginOf(t)' = s
  BY DEF PairsOK, LoginOf

\* What get_token puts into a pair, and that the pair is all there is.
LEMMA PairFacts ==
    ASSUME NEW i, NEW u, NEW admin, NEW roles, NEW at, NEW dev,
           NEW pair, pair = GetToken(i, u, admin, roles, at, dev)
    PROVE  /\ \A t \in pair :
                /\ t.id = i /\ t.sub = u /\ t.minted = at /\ t.device = dev
                /\ t.type = "access" => t.roles = roles
           /\ \A s, t \in pair : s.type = t.type => s = t
           /\ \E t \in pair : t.type = "access" /\ t.id = i
  BY DEF GetToken

\* A pair that is stored under a new identifier descends from a login after
\* the last revocation of all tokens, and carries the roles of its user.
LEMMA StoreRefreshTokenSerial ==
    ASSUME SessionInv, SerialInv, OneAtATime,
           NEW r \in Requests, StoreRefreshToken(r)
    PROVE  SerialInv'
  <1>1. PICK q : q = req[r]
    OBVIOUS
  <1>2. PICK i \in Ids \ UsedIds :
          /\ issued' = issued \cup
               GetToken(i, q.user, AdminClaim(q), q.roles, q.stamp,
                        IF q.op = "login" THEN i ELSE q.token.device)
          /\ refresh_cache' = [refresh_cache EXCEPT
               ![i] = [user |-> q.user, exp |-> now + RefreshTtl]]
    BY <1>1 DEF StoreRefreshToken
  <1>3. PICK dev : dev = IF q.op = "login" THEN i ELSE q.token.device
    OBVIOUS
  <1>4. PICK pair : pair = GetToken(i, q.user, AdminClaim(q), q.roles, q.stamp, dev)
    OBVIOUS
  <1>5. /\ issued' = issued \cup pair
        /\ \A t \in pair :
             /\ t.id = i /\ t.sub = q.user /\ t.minted = q.stamp /\ t.device = dev
             /\ t.type = "access" => t.roles = q.roles
        /\ \A s, t \in pair : s.type = t.type => s = t
        /\ \E t \in pair : t.type = "access" /\ t.id = i
    BY <1>2, <1>3, <1>4, PairFacts
  <1>6. /\ q.pc = "store" /\ q.user \in Users /\ q.stamp \in Nat /\ q.stamp <= now
        /\ now \in Nat
        /\ q.op # "login" => q.token \in issued /\ q.token.sub = q.user
    BY <1>1, RequestFacts DEF RequestVerified, Request, StoreRefreshToken
  <1>7. /\ \A k \in Keys : access_cache[q.user].marks[k] <= q.stamp
        /\ q.roles = user_roles[q.user]
        /\ q.op # "login" /\ now < access_cache[q.user].exp =>
              q.token.minted > AllMark(q.user)
    <2>1. ReadsCurrent(q)
      BY <1>1 DEF SerialInv
    <2> QED
      BY <1>6, <2>1 DEF ReadsCurrent
  <1>8. /\ now' = now /\ access_cache' = access_cache /\ user_roles' = user_roles
        /\ req' = [req EXCEPT ![r] = NoRequest]
    BY DEF StoreRefreshToken, Reply
  <1>9. \A t \in issued : t.id # i /\ t.id \in Ids
    BY TokenFacts DEF UsedIds
  <1>10. /\ refresh_cache'[i].exp = now + RefreshTtl
         /\ \A t \in issued : refresh_cache'[t.id] = refresh_cache[t.id]
    BY <1>2, <1>9 DEF SessionInv, TypeOK
  <1>11. PairsOK'
    <2>1. \A s, t \in issued' : s.type = t.type /\ s.id = t.id => s = t
      BY <1>5, <1>9 DEF SerialInv, PairsOK
    <2>2. ASSUME NEW t \in issued'
          PROVE  \E s \in issued' : s.type = "access" /\ s.id = t.device
      <3>1. CASE t \in issued
        BY <1>5, <3>1 DEF SerialInv, PairsOK
      <3>2. CASE t \in pair
        <4>1. CASE q.op = "login"
          BY <1>3, <1>5, <3>2, <4>1
        <4>2. CASE q.op # "login"
          <5>1. t.device = q.token.device
            BY <1>3, <1>5, <3>2, <4>2
          <5> QED
            BY <1>5, <1>6, <4>2, <5>1 DEF SerialInv, PairsOK
        <4> QED
          BY <4>1, <4>2
      <3> QED
        BY <1>5, <2>2, <3>1, <3>2
    <2>3. ASSUME NEW t \in issued'
          PROVE  t.minted <= now /\ refresh_cache'[t.id].exp <= now + RefreshTtl
      <3>1. CASE t \in issued
        BY <1>10, <3>1 DEF SerialInv, PairsOK
      <3>2. CASE t \in pair
        BY <1>5, <1>6, <1>10, <3>2, TimeAssumption
      <3> QED
        BY <1>5, <2>3, <3>1, <3>2
    <2> QED
      BY <1>8, <2>1, <2>2, <2>3 DEF PairsOK
  <1>12. ASSUME NEW t \in issued PROVE LoginOf(t)' = LoginOf(t)
    <2>1. PICK s \in issued : s.type = "access" /\ s.id = t.device
      BY DEF SerialInv, PairsOK
    <2>2. LoginOf(t) = s
      BY <2>1, LoginIs DEF SerialInv
    <2>3. LoginOf(t)' = s
      BY <1>5, <1>11, <2>1, LoginIsNext
    <2> QED
      BY <2>2, <2>3
  <1>13. ASSUME NEW t \in issued', NEW m, m = AllMark(t.sub),
                now < access_cache[t.sub].exp
         PROVE  EndsBefore(t, m)'
    <2>1. CASE t \in issued
      <3>1. EndsBefore(t, m)
        BY <1>13, <2>1 DEF SerialInv, TokensOK
      <3> QED
        BY <1>12, <2>1, <3>1 DEF EndsBefore
    <2>2. CASE t \in pair /\ q.op = "login"
      <3>1. PICK s \in pair : s.type = "access" /\ s.id = i
        BY <1>5
      <3>2. LoginOf(t)' = s
        BY <1>3, <1>5, <1>11, <2>2, <3>1, LoginIsNext
      <3>3. s.minted = t.minted
        BY <1>5, <2>2, <3>1
      <3> QED
        BY <3>2, <3>3 DEF EndsBefore
    <2>3. CASE t \in pair /\ q.op # "login"
      <3>1. /\ q.token \in issued /\ q.token.sub = t.sub
            /\ q.token.minted > m /\ t.device = q.token.device
        BY <1>3, <1>5, <1>6, <1>7, <1>13, <2>3
      <3>2. EndsBefore(q.token, m)
        BY <1>13, <3>1 DEF SerialInv, TokensOK
      <3>3. LoginOf(t)' = LoginOf(q.token)
        <4>1. PICK s \in issued : s.type = "access" /\ s.id = q.token.device
          BY <3>1 DEF SerialInv, PairsOK
        <4>2. LoginOf(q.token) = s
          BY <4>1, LoginIs DEF SerialInv
        <4>3. LoginOf(t)' = s
          BY <1>5, <1>11, <3>1, <4>1, LoginIsNext
        <4> QED
          BY <4>2, <4>3
      <3> QED
        BY <3>1, <3>2, <3>3 DEF EndsBefore
    <2> QED
      BY <1>5, <1>13, <2>1, <2>2, <2>3
  <1>14. TokensOK'
    <2>1. ASSUME NEW t \in issued', NEW k \in Keys,
                 t.minted < access_cache[t.sub].marks[k]
          PROVE  refresh_cache'[t.id].exp <= access_cache[t.sub].marks[k] + RefreshTtl
      <3>1. CASE t \in issued
        BY <1>10, <2>1, <3>1 DEF SerialInv, TokensOK
      <3>2. CASE t \in pair
        <4>1. access_cache[q.user].marks[k] \in Int
          BY <1>6, MarkFacts
        <4> QED
          BY <1>5, <1>6, <1>7, <2>1, <3>2, <4>1
      <3> QED
        BY <1>5, <2>1, <3>1, <3>2
    <2>2. ASSUME NEW t \in issued', now < access_cache[t.sub].exp
          PROVE  EndsBefore(t, AllMark(t.sub))'
      <3>1. PICK m : m = AllMark(t.sub)
        OBVIOUS
      <3>2. EndsBefore(t, m)'
        BY <1>13, <2>2, <3>1
      <3>3. AllMark(t.sub)' = m
        BY <1>8, <3>1 DEF AllMark
      <3> QED
        BY <3>2, <3>3 DEF EndsBefore
    <2>3. ASSUME NEW t \in issued', t.type = "access"
          PROVE  \/ t.roles = user_roles[t.sub]
                 \/ t.minted <= access_cache[t.sub].marks[All]
                 \/ Floor(now) > t.exp
      <3>1. CASE t \in issued
        BY <2>3, <3>1 DEF SerialInv, TokensOK, AllMark
      <3>2. CASE t \in pair
        BY <1>5, <1>7, <2>3, <3>2
      <3> QED
        BY <1>5, <2>3, <3>1, <3>2
    <2>4. Floor(now)' = Floor(now)
      BY <1>8 DEF Floor
    <2> QED
      BY <1>8, <2>1, <2>2, <2>3, <2>4 DEF TokensOK, AllMark
  <1>15. ASSUME NEW s \in Requests PROVE ReadsCurrent(req[s])'
    <2>1. ReadsCurrent(NoRequest)'
      BY DEF ReadsCurrent, NoRequest
    <2>2. req[r].pc # "idle"
      BY DEF StoreRefreshToken
    <2> QED
      BY <1>8, <2>1, <2>2, OnlyRequest
  <1> QED
    BY <1>11, <1>14, <1>15 DEF SerialInv

-----------------------------------------------------------------------------
(* Revocations and changes of roles.                                       *)

\* The record that RevokeSet writes, for q = req[r].
LEMMA RevokeSetFacts ==
    ASSUME SessionInv, SerialInv, NEW r \in Requests, RevokeSet(r),
           NEW q, q = req[r]
    PROVE  /\ q \in Request /\ q.pc = "revoke_set" /\ q.user \in Users
           /\ q.token \in issued /\ q.op # "login"
           /\ ReadsCurrent(q)
           /\ q.stamp \in Nat /\ q.stamp <= now /\ now \in Nat
           /\ q.marks \in [Keys -> Nat \cup {Never}]
           /\ now' = now /\ issued' = issued /\ refresh_cache' = refresh_cache
           /\ user_roles' = user_roles
           /\ access_cache'[q.user].marks = NewMarks(q)
           /\ access_cache'[q.user].exp = now + RefreshTtl
           /\ now < now + RefreshTtl
           /\ \A u \in Users : u # q.user => access_cache'[u] = access_cache[u]
           /\ RevokedKey(q) \in Keys
           /\ \A k \in Keys : NewMarks(q)[k] = IF k = RevokedKey(q) THEN q.stamp
                                                                    ELSE q.marks[k]
           /\ q.op # "logout" => RevokedKey(q) = All
  <1>1. /\ q \in Request /\ q.pc = "revoke_set" /\ q.user \in Users
        /\ q.token \in issued /\ q.op # "login"
        /\ q.stamp <= now /\ now \in Nat
    BY RequestFacts DEF RequestVerified, RevokeSet
  <1>2. q.stamp \in Nat /\ q.marks \in [Keys -> Nat \cup {Never}]
    BY <1>1 DEF Request
  <1>3. ReadsCurrent(q)
    BY DEF SerialInv
  <1>4. /\ now' = now /\ issued' = issued /\ refresh_cache' = refresh_cache
        /\ user_roles' = user_roles
        /\ access_cache' = [access_cache EXCEPT
             ![q.user] = [marks |-> NewMarks(q), exp |-> now + RefreshTtl]]
    BY DEF RevokeSet, RecordExp
  <1>5. now < now + RefreshTtl
    BY <1>1, TimeAssumption
  <1>6. RevokedKey(q) \in Keys
    <2>1. Jti(q.token) \in Keys
      BY <1>1, TokenFacts DEF Jti, Keys, Jtis
    <2> QED
      BY <2>1 DEF RevokedKey, Keys
  <1>7. \A k \in Keys : NewMarks(q)[k] = IF k = RevokedKey(q) THEN q.stamp
                                                              ELSE q.marks[k]
    BY <1>2, <1>6 DEF NewMarks
  <1>8. q.op # "logout" => RevokedKey(q) = All
    BY DEF RevokedKey
  <1>9. access_cache'[q.user] = [marks |-> NewMarks(q), exp |-> now + RefreshTtl]
    BY <1>1, <1>4 DEF SessionInv, TypeOK
  <1>10. /\ access_cache'[q.user].marks = NewMarks(q)
         /\ access_cache'[q.user].exp = now + RefreshTtl
    BY <1>9
  <1>11. \A u \in Users : u # q.user => access_cache'[u] = access_cache[u]
    BY <1>4 DEF SessionInv, TypeOK
  <1> QED
    BY <1>1, <1>2, <1>3, <1>4, <1>5, <1>6, <1>7, <1>8, <1>10, <1>11

\* A revocation takes the latest time there is; the other times are those of
\* the record as it is, or the record had expired, and with it the access
\* tokens it spoke of.
LEMMA RevokeSetSerial ==
    ASSUME SessionInv, SerialInv, OneAtATime,
           NEW r \in Requests, RevokeSet(r)
    PROVE  SerialInv'
  <1>1. PICK q : q = req[r]
    OBVIOUS
  <1>2. PICK u : u = q.user
    OBVIOUS
  <1>3. PICK marks : marks = NewMarks(q)
    OBVIOUS
  <1>4. /\ q \in Request /\ q.pc = "revoke_set" /\ u \in Users
        /\ ReadsCurrent(q)
        /\ q.stamp \in Nat /\ q.stamp <= now /\ now \in Nat
        /\ q.marks \in [Keys -> Nat \cup {Never}]
        /\ now' = now /\ issued' = issued /\ refresh_cache' = refresh_cache
        /\ user_roles' = user_roles
        /\ access_cache'[u].marks = marks
        /\ \A v \in Users : v # u => access_cache'[v] = access_cache[v]
        /\ RevokedKey(q) \in Keys
        /\ \A k \in Keys : marks[k] = IF k = RevokedKey(q) THEN q.stamp
                                                            ELSE q.marks[k]
        /\ q.op # "logout" => RevokedKey(q) = All
    BY <1>1, <1>2, <1>3, RevokeSetFacts
  <1>5. /\ \A t \in issued :
             t.minted <= q.stamp /\ refresh_cache[t.id].exp <= q.stamp + RefreshTtl
        /\ \/ q.marks = access_cache[u].marks
           \/ q.marks = NoMarks /\ access_cache[u].exp <= now
        /\ \A t \in issued : t.sub = u => EndsBefore(t, q.marks[All])
    BY <1>2, <1>4 DEF ReadsCurrent
  <1>6. PairsOK'
    BY <1>4 DEF SerialInv, PairsOK
  <1>7. ASSUME NEW t \in issued, t.sub = u, NEW k \in Keys, t.minted < marks[k]
        PROVE  refresh_cache[t.id].exp <= marks[k] + RefreshTtl
    <2>1. CASE k = RevokedKey(q)
      BY <1>4, <1>5, <2>1
    <2>2. CASE k # RevokedKey(q)
      <3>1. marks[k] = q.marks[k] /\ t.minted \in Nat
        BY <1>4, <2>2, TokenFacts
      <3>2. CASE q.marks = access_cache[u].marks
        BY <1>7, <3>1, <3>2 DEF SerialInv, TokensOK
      <3>3. CASE q.marks = NoMarks
        BY <1>7, <3>1, <3>3 DEF NoMarks, Never
      <3> QED
        BY <1>5, <3>2, <3>3
    <2> QED
      BY <2>1, <2>2
  <1>8. ASSUME NEW t \in issued, t.sub = u
        PROVE  EndsBefore(t, marks[All])
    <2>1. All \in Keys /\ t.minted \in Nat
      BY TokenFacts
    <2>2. CASE RevokedKey(q) = All
      <3>1. marks[All] = q.stamp
        BY <1>4, <2>1, <2>2
      <3> QED
        BY <1>4, <1>5, <2>1, <3>1 DEF EndsBefore
    <2>3. CASE RevokedKey(q) # All
      <3>1. marks[All] = q.marks[All]
        BY <1>4, <2>1, <2>3
      <3> QED
        BY <1>5, <1>8, <3>1
    <2> QED
      BY <2>2, <2>3
  <1>9. ASSUME NEW t \in issued, t.sub = u, t.type = "access",
               t.roles # user_roles[u], ~(Floor(now) > t.exp)
        PROVE  t.minted <= marks[All]
    <2>1. All \in Keys /\ t.minted \in Nat /\ Floor(t.minted) \in Nat
          /\ Floor(t.minted) <= t.minted
      BY TokenFacts
    <2>2. t.minted <= access_cache[u].marks[All]
      BY <1>9 DEF SerialInv, TokensOK, AllMark
    <2>3. CASE RevokedKey(q) = All
      BY <1>4, <1>5, <2>1, <2>3
    <2>4. CASE RevokedKey(q) # All
      <3>1. marks[All] = q.marks[All]
        BY <1>4, <2>1, <2>4
      <3>2. CASE q.marks = access_cache[u].marks
        BY <2>2, <3>1, <3>2
      <3>3. CASE access_cache[u].exp <= now
        <4>1. PICK m : m = access_cache[u].marks[All]
          OBVIOUS
        <4>2. /\ m \in Int /\ (m # Never => m \in Nat /\ m + RefreshTtl <= access_cache[u].exp)
              /\ access_cache[u].exp \in Nat
          BY <1>4, <2>1, <4>1, MarkFacts
        <4>3. m \in Nat /\ m + RefreshTtl <= now /\ Floor(t.minted) <= m
          BY <1>4, <2>1, <2>2, <3>3, <4>1, <4>2, TimeAssumption DEF Never
        <4> QED
          BY <1>4, <1>9, <4>3, ExpiredByThen
      <3> QED
        BY <1>5, <3>2, <3>3
    <2> QED
      BY <2>3, <2>4
  <1>10. TokensOK'
    <2>1. ASSUME NEW t \in issued
          PROVE  /\ \A k \in Keys :
                      LET m == access_cache'[t.sub].marks[k] IN
                      t.minted < m => refresh_cache[t.id].exp <= m + RefreshTtl
                 /\ now < access_cache'[t.sub].exp => EndsBefore(t, AllMark(t.sub))'
                 /\ t.type = "access" =>
                      \/ t.roles = user_roles[t.sub]
                      \/ t.minted <= access_cache'[t.sub].marks[All]
                      \/ Floor(now) > t.exp
      <3>1. CASE t.sub = u
        <4>1. PICK m : m = marks[All]
          OBVIOUS
        <4>2. EndsBefore(t, m)'
          BY <1>4, <1>8, <3>1, <4>1, SameEnds
        <4>3. AllMark(t.sub)' = m
          BY <1>4, <3>1, <4>1 DEF AllMark
        <4>4. EndsBefore(t, AllMark(t.sub))'
          BY <4>2, <4>3 DEF EndsBefore
        <4> QED
          BY <1>4, <1>7, <1>9, <3>1, <4>4
      <3>2. CASE t.sub # u
        <4>1. access_cache'[t.sub] = access_cache[t.sub]
          BY <1>4, <3>2, TokenFacts
        <4>2. PICK m : m = AllMark(t.sub)
          OBVIOUS
        <4>3. now < access_cache[t.sub].exp => EndsBefore(t, m)
          BY <4>2 DEF SerialInv, TokensOK
        <4>4. now < access_cache[t.sub].exp => EndsBefore(t, m)'
          BY <1>4, <4>3, SameEnds
        <4>5. AllMark(t.sub)' = m
          BY <4>1, <4>2 DEF AllMark
        <4>6. now < access_cache'[t.sub].exp => EndsBefore(t, AllMark(t.sub))'
          BY <4>1, <4>4, <4>5 DEF EndsBefore
        <4> QED
          BY <4>1, <4>6 DEF SerialInv, TokensOK, AllMark
      <3> QED
        BY <3>1, <3>2
    <2>2. Floor(now)' = Floor(now)
      BY <1>4 DEF Floor
    <2> QED
      BY <1>4, <2>1, <2>2 DEF TokensOK, AllMark
  <1>11. PICK x : x = IF q.op \in SuperuserOnly THEN [q EXCEPT !.pc = "read_roles"]
                                                ELSE NoRequest
    OBVIOUS
  <1>12. req' = [req EXCEPT ![r] = x]
    BY <1>1, <1>11 DEF RevokeSet, Goto, Reply
  <1>13. ReadsCurrent(x)'
    <2>1. CASE q.op \in SuperuserOnly
      <3>1. x.pc = "read_roles" /\ x.user = u
        BY <1>2, <1>4, <1>11, <2>1 DEF Request
      <3>2. RevokedKey(q) = All /\ All \in Keys
        BY <1>4, <2>1 DEF SuperuserOnly, Keys
      <3>3. access_cache'[u].marks[All] = q.stamp
        BY <1>4, <3>2
      <3> QED
        BY <1>4, <1>5, <3>1, <3>3 DEF ReadsCurrent, AllMark
    <2>2. CASE q.op \notin SuperuserOnly
      BY <1>11, <2>2 DEF ReadsCurrent, NoRequest
    <2> QED
      BY <2>1, <2>2
  <1>14. ASSUME NEW s \in Requests PROVE ReadsCurrent(req[s])'
    BY <1>1, <1>4, <1>12, <1>13, OnlyRequest
  <1> QED
    BY <1>6, <1>10, <1>14 DEF SerialInv

\* The roles of a user change when all tokens of the user have been revoked.
LEMMA CommitRolesSerial ==
    ASSUME SessionInv, SerialInv, OneAtATime,
           NEW r \in Requests, AddUserRoles(r) \/ RemoveUserRoles(r)
    PROVE  SerialInv'
  <1>1. PICK q : q = req[r]
    OBVIOUS
  <1>2. q.pc = "commit_roles" /\ q.user \in Users /\ ReadsCurrent(q)
    BY <1>1, RequestFacts DEF RequestVerified, AddUserRoles, RemoveUserRoles, SerialInv
  <1>3. /\ now' = now /\ issued' = issued /\ refresh_cache' = refresh_cache
        /\ access_cache' = access_cache
        /\ req' = [req EXCEPT ![r] = NoRequest]
    BY DEF AddUserRoles, RemoveUserRoles, Reply
  <1>4. \A u \in Users : u # q.user => user_roles'[u] = user_roles[u]
    BY <1>1 DEF AddUserRoles, RemoveUserRoles, SessionInv, TypeOK
  <1>5. \A t \in issued : t.sub = q.user => t.minted <= AllMark(q.user)
    BY <1>2 DEF ReadsCurrent
  <1>6. PairsOK'
    BY <1>3 DEF SerialInv, PairsOK
  <1>7. TokensOK'
    <2>1. ASSUME NEW t \in issued
          PROVE  /\ now < access_cache[t.sub].exp => EndsBefore(t, AllMark(t.sub))'
                 /\ t.type = "access" =>
                      \/ t.roles = user_roles'[t.sub]
                      \/ t.minted <= AllMark(t.sub)
                      \/ Floor(now) > t.exp
      <3>1. PICK m : m = AllMark(t.sub)
        OBVIOUS
      <3>2. now < access_cache[t.sub].exp => EndsBefore(t, m)
        BY <3>1 DEF SerialInv, TokensOK
      <3>3. now < access_cache[t.sub].exp => EndsBefore(t, m)'
        BY <1>3, <3>2, SameEnds
      <3>4. AllMark(t.sub)' = m
        BY <1>3, <3>1 DEF AllMark
      <3>5. now < access_cache[t.sub].exp => EndsBefore(t, AllMark(t.sub))'
        BY <3>3, <3>4 DEF EndsBefore
      <3>6. t.sub # q.user => user_roles'[t.sub] = user_roles[t.sub]
        BY <1>4, TokenFacts
      <3>7. t.type = "access" =>
              \/ t.roles = user_roles'[t.sub]
              \/ t.minted <= AllMark(t.sub)
              \/ Floor(now) > t.exp
        BY <1>5, <3>6 DEF SerialInv, TokensOK
      <3> QED
        BY <3>5, <3>7
    <2>2. Floor(now)' = Floor(now)
      BY <1>3 DEF Floor
    <2> QED
      BY <1>3, <2>1, <2>2 DEF SerialInv, TokensOK, AllMark
  <1>8. ASSUME NEW s \in Requests PROVE ReadsCurrent(req[s])'
    <2>1. ReadsCurrent(NoRequest)'
      BY DEF ReadsCurrent, NoRequest
    <2> QED
      BY <1>1, <1>2, <1>3, <2>1, OnlyRequest
  <1> QED
    BY <1>6, <1>7, <1>8 DEF SerialInv

-----------------------------------------------------------------------------
(* Theorems.                                                               *)

\* SerialInv is preserved by every step from a state in which no more than
\* one request is in progress.
LEMMA NextSerial ==
    ASSUME SessionInv, SerialInv, OneAtATime, [Next]_vars
    PROVE  SerialInv'
  <1>1. CASE UNCHANGED vars
    <2>1. ASSUME NEW s \in Requests PROVE ReadsCurrent(req[s])'
      <3>1. PICK x : x = req[s]
        OBVIOUS
      <3>2. ReadsCurrent(x)'
        BY <1>1, <3>1, SameReads DEF vars, SerialInv
      <3> QED
        BY <1>1, <3>1, <3>2 DEF vars, ReadsCurrent, EndsBefore
    <2> QED
      BY <1>1, <2>1, SameTables DEF vars, SerialInv
  <1>2. CASE Tick \/ Crash
    BY <1>2, TickSerial, CrashSerial
  <1>3. ASSUME NEW r \in Requests, Arrive(r)
        PROVE  SerialInv'
    BY <1>3, ArriveSerial
  <1>4. ASSUME NEW r \in Requests, Serve(r)
        PROVE  SerialInv'
    <2>1. CASE RejectRevoked(r)
      BY <2>1, ReplySerial DEF RejectRevoked
    <2>2. CASE PassRevoked(r)
      BY <2>2, PassRevokedSerial
    <2>3. CASE CheckRefresh(r)
      BY <2>3, CheckRefreshSerial
    <2>4. CASE GetUserRoles(r)
      BY <2>4, GetUserRolesSerial
    <2>5. CASE MintToken(r)
      BY <2>5, MintTokenSerial
    <2>6. CASE StoreRefreshToken(r)
      BY <2>6, StoreRefreshTokenSerial
    <2>7. CASE RevokeGet(r)
      BY <2>7, RevokeGetSerial
    <2>8. CASE RevokeSet(r)
      BY <2>8, RevokeSetSerial
    <2>9. CASE ReadRoles(r)
      BY <2>9, ReadRolesSerial
    <2>10. CASE AddUserRoles(r) \/ RemoveUserRoles(r)
      BY <2>10, CommitRolesSerial
    <2> QED
      BY <1>4, <2>1, <2>2, <2>3, <2>4, <2>5, <2>6, <2>7, <2>8, <2>9, <2>10 DEF Serve
  <1> QED
    BY <1>1, <1>2, <1>3, <1>4 DEF Next

\* What requests have read and what tokens carry stays current as long as
\* requests come one at a time.
THEOREM SerialInvariant == Spec /\ []OneAtATime => []SerialInv
  <1>1. Init => SerialInv
    BY InitSerial
  <1>2. SessionInv /\ SerialInv /\ OneAtATime /\ [Next]_vars => SerialInv'
    BY NextSerial
  <1>3. Spec => []SessionInv
    BY SessionInvariant
  <1> QED
    BY <1>1, <1>2, <1>3, PTL DEF Spec

\* When requests come one at a time, a usable token descends from a login
\* after the last logout of all devices and the last change of roles.
THEOREM LogoutAllEnds == Spec /\ []OneAtATime => []LogoutAllEndsSessions
  <1>1. SessionInv /\ SerialInv => LogoutAllEndsSessions
    <2> SUFFICES ASSUME SessionInv, SerialInv, NEW t \in issued, Usable(t)
                 PROVE  Marks(t.sub)[All] < LoginOf(t).minted
      BY DEF LogoutAllEndsSessions
    <2>1. /\ t.minted \in Nat /\ t.sub \in Users /\ All \in Keys
          /\ LoginOf(t) \in issued
      BY TokenFacts, LoginFacts DEF SerialInv
    <2>2. LoginOf(t).minted \in Nat
      BY <2>1, TokenFacts
    <2>3. Marks(t.sub)[All] < t.minted
      BY NotRevokedAll DEF Usable, Accepted
    <2>4. CASE now < access_cache[t.sub].exp
      <3>1. Marks(t.sub)[All] = AllMark(t.sub)
        BY <2>4 DEF Marks, AllMark
      <3>2. EndsBefore(t, AllMark(t.sub))
        BY <2>4 DEF SerialInv, TokensOK
      <3>3. AllMark(t.sub) \in Int
        BY <2>1, MarkFacts DEF AllMark
      <3> QED
        BY <2>1, <2>2, <2>3, <3>1, <3>2, <3>3 DEF EndsBefore
    <2>5. CASE ~(now < access_cache[t.sub].exp)
      BY <2>1, <2>2, <2>5 DEF Marks, NoMarks, Never
    <2> QED
      BY <2>4, <2>5
  <1> QED
    BY <1>1, SessionInvariant, SerialInvariant, PTL

\* An access token of a time when all tokens of its user have been revoked is
\* refused by check_revoked_token, or it has expired.
LEMMA OldTokenRefused ==
    ASSUME SessionInv, NEW t \in issued, t.type = "access",
           t.minted <= AllMark(t.sub)
    PROVE  ~Accepted(t)
  <1>1. PICK m : m = access_cache[t.sub].marks[All]
    OBVIOUS
  <1>2. /\ t.minted \in Nat /\ Floor(t.minted) \in Nat /\ Floor(t.minted) <= t.minted
        /\ t.sub \in Users /\ All \in Keys /\ t.exp \in Nat
        /\ t.exp - Ttl(t.type) = Floor(t.minted)
    BY TokenFacts
  <1>3. /\ m \in Int /\ (m # Never => m \in Nat /\ m + RefreshTtl <= access_cache[t.sub].exp)
        /\ access_cache[t.sub].exp \in Nat /\ now \in Nat
    BY <1>1, <1>2, MarkFacts
  <1>4. t.minted <= m
    BY <1>1 DEF AllMark
  <1>5. m \in Nat /\ m # Never /\ Floor(t.minted) <= m
    BY <1>2, <1>3, <1>4 DEF Never
  <1>6. CASE now < access_cache[t.sub].exp
    <2>1. Marks(t.sub)[All] = m
      BY <1>1, <1>6 DEF Marks
    <2>2. CheckRevokedToken(t)
      BY <1>2, <1>5, <2>1 DEF CheckRevokedToken
    <2> QED
      BY <2>2 DEF Accepted
  <1>7. CASE ~(now < access_cache[t.sub].exp)
    <2>1. m + RefreshTtl <= now
      BY <1>3, <1>5, <1>7, TimeAssumption
    <2>2. Floor(now) > t.exp
      BY <1>3, <1>5, <2>1, ExpiredByThen
    <2>3. Floor(now) \in Nat
      BY <1>3, FloorBounds
    <2> QED
      BY <1>2, <2>2, <2>3 DEF Accepted, VerifyJwtInRequest
  <1> QED
    BY <1>6, <1>7

\* When requests come one at a time, an access token that is accepted carries
\* the roles its user has.
THEOREM RolesCurrent == Spec /\ []OneAtATime => []TokenRolesCurrent
  <1>1. SessionInv /\ SerialInv => TokenRolesCurrent
    <2> SUFFICES ASSUME SessionInv, SerialInv, NEW t \in issued,
                        t.type = "access", Accepted(t)
                 PROVE  t.roles = user_roles[t.sub]
      BY DEF TokenRolesCurrent
    <2>1. ~(t.minted <= AllMark(t.sub))
      BY OldTokenRefused
    <2>2. ~(Floor(now) > t.exp)
      <3>1. t.exp \in Nat /\ Floor(now) \in Nat
        BY TokenFacts, FloorBounds DEF SessionInv, TypeOK
      <3> QED
        BY <3>1 DEF Accepted, VerifyJwtInRequest
    <2> QED
      BY <2>1, <2>2 DEF SerialInv, TokensOK
  <1> QED
    BY <1>1, SessionInvariant, SerialInvariant, PTL

\* The steps on which the checks of a token depend.
LEMMA WhatCounts ==
    ASSUME Next
    PROVE  \/ Tick
           \/ \E r \in Requests : StoreRefreshToken(r) \/ RevokeSet(r)
           \/ UNCHANGED <<now, refresh_cache, access_cache>>
  <1> DEFINE Same == UNCHANGED <<now, refresh_cache, access_cache>>
  <1>1. Crash => Same
    BY DEF Crash
  <1>2. ASSUME NEW r \in Requests, Arrive(r)
        PROVE  Same
    BY <1>2 DEF Arrive, Login, Receive
  <1>3. ASSUME NEW r \in Requests, Serve(r)
        PROVE  StoreRefreshToken(r) \/ RevokeSet(r) \/ Same
    <2>1. RejectRevoked(r) \/ PassRevoked(r) \/ CheckRefresh(r) => Same
      BY DEF RejectRevoked, PassRevoked, CheckRefresh
    <2>2. GetUserRoles(r) \/ MintToken(r) \/ RevokeGet(r) => Same
      BY DEF GetUserRoles, MintToken, RevokeGet
    <2>3. ReadRoles(r) \/ AddUserRoles(r) \/ RemoveUserRoles(r) => Same
      BY DEF ReadRoles, AddUserRoles, RemoveUserRoles
    <2> HIDE DEF Same
    <2> QED
      BY <1>3, <2>1, <2>2, <2>3 DEF Serve
  <1> QED
    BY <1>1, <1>2, <1>3 DEF Next

\* What the checks of a token depend on.
LEMMA SameChecks ==
    ASSUME NEW t, now' = now, refresh_cache'[t.id] = refresh_cache[t.id],
           access_cache'[t.sub] = access_cache[t.sub]
    PROVE  /\ Ended(t) => Ended(t)'
           /\ Accepted(t) => Accepted(t)'
  <1>1. Marks(t.sub)' = Marks(t.sub)
    BY DEF Marks
  <1>2. RefreshOwner(t.id)' = RefreshOwner(t.id)
    BY DEF RefreshOwner
  <1>3. Floor(now)' = Floor(now)
    BY DEF Floor
  <1>4. CheckRevokedToken(t)' <=> CheckRevokedToken(t)
    BY <1>1 DEF CheckRevokedToken
  <1>5. CheckRefreshToken(t, t.sub)' <=> CheckRefreshToken(t, t.sub)
    BY <1>2 DEF CheckRefreshToken
  <1>6. MarksOf(t)' = MarksOf(t)
    BY <1>1 DEF MarksOf
  <1> QED
    BY <1>3, <1>4, <1>5, <1>6 DEF Ended, Accepted, VerifyJwtInRequest

\* The three ways in which a token can have ended, told by the caches.
LEMMA EndedIs ==
    ASSUME SessionInv, NEW t \in issued
    PROVE  /\ ~(now < refresh_cache[t.id].exp) <=> RefreshOwner(t.id) # t.sub
           /\ RefreshOwner(t.id) # t.sub /\ t.type = "refresh" => Ended(t)
           /\ Ended(t) =>
                \/ Floor(now) > t.exp
                \/ t.type = "refresh" /\ RefreshOwner(t.id) # t.sub
                \/ CheckRevokedToken(t) /\ \E m \in MarksOf(t) : t.minted < m
  <1>1. refresh_cache[t.id].user = t.sub /\ t.sub # Null
    BY TokenFacts, SetAssumption DEF SessionInv, RefreshCacheOwned
  <1>2. ~(now < refresh_cache[t.id].exp) <=> RefreshOwner(t.id) # t.sub
    BY <1>1 DEF RefreshOwner
  <1> QED
    BY <1>2 DEF Ended, CheckRefreshToken

\* A record that expires takes with it what it refused: access tokens have
\* expired, and Redis has dropped the refresh tokens.
LEMMA TickEnded ==
    ASSUME SessionInv, SerialInv, Tick, NEW t \in issued, Ended(t)
    PROVE  Ended(t)'
  <1>1. /\ now \in Nat /\ now' = now + 1
        /\ refresh_cache' = refresh_cache /\ access_cache' = access_cache
    BY DEF SessionInv, TypeOK, Tick
  <1>2. /\ t.exp \in Nat /\ t.minted \in Nat /\ Floor(t.minted) \in Nat
        /\ Floor(t.minted) <= t.minted /\ t.sub \in Users
        /\ refresh_cache[t.id].exp \in Nat
        /\ t.type \in {"access", "refresh"}
        /\ All \in Keys /\ <<"access", t.id>> \in Keys
    BY TokenFacts
  <1>3. now' \in Nat /\ Floor(now)' = Floor(now')
    BY <1>1 DEF Floor
  <1>4. ASSUME t.type = "refresh", ~(now' < refresh_cache[t.id].exp)
        PROVE  Ended(t)'
    <2>1. RefreshOwner(t.id)' = Null
      BY <1>1, <1>4 DEF RefreshOwner
    <2>2. t.sub # Null
      BY <1>2, SetAssumption
    <2> QED
      BY <1>4, <2>1, <2>2 DEF Ended, CheckRefreshToken
  <1>5. CASE Floor(now) > t.exp
    <2>1. Floor(now) <= Floor(now + 1) /\ Floor(now) \in Nat /\ Floor(now + 1) \in Nat
      BY <1>1, FloorTick, FloorBounds
    <2>2. Floor(now') > t.exp
      BY <1>1, <1>2, <1>5, <2>1
    <2> QED
      BY <1>3, <2>2 DEF Ended
  <1>6. CASE t.type = "refresh" /\ RefreshOwner(t.id) # t.sub
    <2>1. ~(now < refresh_cache[t.id].exp)
      BY <1>6, EndedIs
    <2>2. ~(now' < refresh_cache[t.id].exp)
      BY <1>1, <1>2, <2>1
    <2> QED
      BY <1>4, <1>6, <2>2
  <1>7. CASE CheckRevokedToken(t) /\ \E m \in MarksOf(t) : t.minted < m
    <2>1. PICK e : e = access_cache[t.sub]
      OBVIOUS
    <2>2. now < e.exp
      BY <1>2, <1>7, <2>1 DEF CheckRevokedToken, Marks, NoMarks
    <2>3. CASE now' < e.exp
      <3>1. Marks(t.sub)' = Marks(t.sub)
        BY <1>1, <2>1, <2>2, <2>3 DEF Marks
      <3>2. CheckRevokedToken(t)'
        BY <1>7, <3>1 DEF CheckRevokedToken
      <3>3. (\E m \in MarksOf(t) : t.minted < m)'
        BY <1>7, <3>1 DEF MarksOf
      <3> QED
        BY <3>2, <3>3 DEF Ended
    <2>4. CASE ~(now' < e.exp)
      <3>1. PICK k \in Keys : t.minted < e.marks[k]
        BY <1>2, <1>7, <2>1, <2>2 DEF MarksOf, Marks
      <3>2. PICK m : m = e.marks[k]
        OBVIOUS
      <3>3. /\ m \in Int /\ e.exp \in Nat
            /\ m # Never => m \in Nat /\ m + RefreshTtl <= e.exp
        BY <1>2, <2>1, <3>2, MarkFacts
      <3>4. m \in Nat /\ m + RefreshTtl <= now' /\ Floor(t.minted) <= m
        BY <1>2, <1>3, <2>4, <3>1, <3>2, <3>3, TimeAssumption DEF Never
      <3>5. CASE t.type = "access"
        <4>1. Floor(now') > t.exp
          BY <1>3, <3>4, <3>5, ExpiredByThen
        <4> QED
          BY <1>3, <4>1 DEF Ended
      <3>6. CASE t.type = "refresh"
        <4>1. refresh_cache[t.id].exp <= m + RefreshTtl
          BY <2>1, <3>1, <3>2 DEF SerialInv, TokensOK
        <4>2. ~(now' < refresh_cache[t.id].exp)
          BY <1>2, <1>3, <3>4, <4>1, TimeAssumption
        <4> QED
          BY <1>4, <3>6, <4>2
      <3> QED
        BY <1>2, <3>5, <3>6
    <2> QED
      BY <2>3, <2>4
  <1> QED
    BY <1>5, <1>6, <1>7, EndedIs

\* A revocation overwrites an entry with a later time and keeps the others.
LEMMA RevokeSetEnded ==
    ASSUME SessionInv, SerialInv, NEW r \in Requests, RevokeSet(r),
           NEW t \in issued, Ended(t)
    PROVE  Ended(t)'
  <1>1. PICK q : q = req[r]
    OBVIOUS
  <1>2. PICK marks : marks = NewMarks(q)
    OBVIOUS
  <1>3. /\ q \in Request /\ q.pc = "revoke_set" /\ q.user \in Users
        /\ ReadsCurrent(q) /\ q.stamp \in Nat
        /\ now' = now /\ refresh_cache' = refresh_cache
        /\ access_cache'[q.user].marks = marks
        /\ access_cache'[q.user].exp = now + RefreshTtl
        /\ now < now + RefreshTtl
        /\ \A v \in Users : v # q.user => access_cache'[v] = access_cache[v]
        /\ \A k \in Keys : marks[k] = IF k = RevokedKey(q) THEN q.stamp
                                                            ELSE q.marks[k]
    BY <1>1, <1>2, RevokeSetFacts
  <1>4. /\ t.exp \in Nat /\ t.minted \in Nat /\ Floor(t.minted) \in Nat
        /\ t.sub \in Users /\ All \in Keys /\ <<"access", t.id>> \in Keys
        /\ t.exp - Ttl(t.type) = Floor(t.minted)
    BY TokenFacts
  <1>5. CASE t.sub # q.user
    BY <1>3, <1>4, <1>5, SameChecks
  <1>6. CASE Floor(now) > t.exp
    BY <1>3, <1>6 DEF Ended, Floor
  <1>7. CASE t.type = "refresh" /\ RefreshOwner(t.id) # t.sub
    <2>1. RefreshOwner(t.id)' # t.sub
      BY <1>3, <1>7 DEF RefreshOwner
    <2> QED
      BY <1>7, <2>1 DEF Ended, CheckRefreshToken
  <1>8. CASE /\ t.sub = q.user
             /\ CheckRevokedToken(t) /\ \E m \in MarksOf(t) : t.minted < m
    <2>1. PICK old : old = access_cache[t.sub].marks
      OBVIOUS
    <2>2. now < access_cache[t.sub].exp
      BY <1>4, <1>8 DEF CheckRevokedToken, Marks, NoMarks
    <2>3. Marks(t.sub) = old
      BY <2>1, <2>2 DEF Marks
    <2>4. q.marks = old /\ \A k \in Keys : old[k] <= q.stamp
      <3>1. access_cache[q.user].exp \in Nat /\ now \in Nat
        BY <1>3 DEF SessionInv, TypeOK
      <3>2. ~(access_cache[q.user].exp <= now)
        BY <1>8, <2>2, <3>1
      <3> QED
        BY <1>3, <1>8, <2>1, <3>2 DEF ReadsCurrent
    <2>5. \A k \in Keys : old[k] \in Nat \cup {Never}
      BY <1>4, <2>1, MarkFacts
    <2>6. ASSUME NEW k \in Keys
          PROVE  /\ old[k] # Never => marks[k] # Never /\ old[k] <= marks[k]
                 /\ marks[k] = old[k] \/ (marks[k] = q.stamp /\ marks[k] # Never)
      BY <1>3, <2>4, <2>5 DEF Never
    <2>7. Marks(t.sub)' = marks
      BY <1>3, <1>8 DEF Marks
    <2>8. CheckRevokedToken(t)'
      <3>1. PICK m : m = IF old[All] # Never THEN old[All] ELSE old[<<"access", t.id>>]
        OBVIOUS
      <3>2. m # Never /\ Floor(t.minted) <= m
        BY <1>4, <1>8, <2>3, <3>1 DEF CheckRevokedToken
      <3>3. PICK n : n = IF marks[All] # Never THEN marks[All] ELSE marks[<<"access", t.id>>]
        OBVIOUS
      <3>4. m \in Nat /\ m <= q.stamp
        BY <1>4, <2>4, <2>5, <3>1, <3>2
      <3>5. n # Never /\ m <= n
        <4>1. CASE old[All] # Never
          BY <1>4, <2>6, <3>1, <3>3, <4>1
        <4>2. CASE old[All] = Never /\ marks[All] # Never
          BY <1>4, <2>6, <3>3, <3>4, <4>2
        <4>3. CASE old[All] = Never /\ marks[All] = Never
          BY <1>4, <2>6, <3>1, <3>2, <3>3, <4>3
        <4> QED
          BY <4>1, <4>2, <4>3
      <3>6. n \in Nat
        BY <1>3, <1>4, <2>4, <2>5, <2>6, <3>3, <3>5
      <3>7. n # Never /\ Floor(t.minted) <= n
        BY <1>4, <3>2, <3>4, <3>5, <3>6
      <3> QED
        BY <1>4, <2>7, <3>3, <3>7 DEF CheckRevokedToken
    <2>9. (\E m \in MarksOf(t) : t.minted < m)'
      <3>1. PICK k \in {All, <<"access", t.id>>} : t.minted < old[k]
        BY <1>8, <2>3 DEF MarksOf
      <3>2. k \in Keys
        BY <1>4
      <3>3. old[k] \in Nat /\ marks[k] \in Nat /\ old[k] <= marks[k]
        BY <1>3, <1>4, <2>5, <2>6, <3>1, <3>2 DEF Never
      <3>4. t.minted < marks[k]
        BY <1>4, <3>1, <3>3
      <3> QED
        BY <2>7, <3>4 DEF MarksOf
    <2> QED
      BY <2>8, <2>9 DEF Ended
  <1> QED
    BY <1>5, <1>6, <1>7, <1>8, EndedIs

\* When requests come one at a time, a token that was revoked or has expired
\* stays so, whatever the records in Redis go through.
THEOREM EndedForGood == Spec /\ []OneAtATime => EndedStaysEnded
  <1> DEFINE A == \A t \in issued : Ended(t) => Ended(t)'
  <1>1. SessionInv /\ SerialInv /\ [Next]_vars => [A]_vars
    <2> SUFFICES ASSUME SessionInv, SerialInv, Next, NEW t \in issued, Ended(t)
                 PROVE  Ended(t)'
      OBVIOUS
    <2>1. CASE Tick
      BY <2>1, TickEnded
    <2>2. ASSUME NEW r \in Requests, StoreRefreshToken(r)
          PROVE  Ended(t)'
      <3>1. t.id \in UsedIds
        BY DEF UsedIds
      <3>2. refresh_cache'[t.id] = refresh_cache[t.id]
        BY <2>2, <3>1, TokenFacts DEF StoreRefreshToken, SessionInv, TypeOK
      <3>3. now' = now /\ access_cache'[t.sub] = access_cache[t.sub]
        BY <2>2 DEF StoreRefreshToken
      <3> QED
        BY <3>2, <3>3, SameChecks
    <2>3. ASSUME NEW r \in Requests, RevokeSet(r)
          PROVE  Ended(t)'
      BY <2>3, RevokeSetEnded
    <2>4. CASE UNCHANGED <<now, refresh_cache, access_cache>>
      BY <2>4, SameChecks
    <2> QED
      BY <2>1, <2>2, <2>3, <2>4, WhatCounts
  <1> QED
    BY <1>1, SessionInvariant, SerialInvariant, PTL DEF Spec, EndedStaysEnded

\* When requests come one at a time, a logout of one device does not turn away
\* the access tokens of the other devices, nor those of other users.
THEOREM LogoutSpares == Spec /\ []OneAtATime => LogoutSparesOthers
  <1> DEFINE A == \A r \in Requests, t \in issued :
                    /\ RevokeSet(r)
                    /\ req[r].op = "logout"
                    /\ t.type = "access" /\ t.id # req[r].token.id
                    /\ Accepted(t)
                    => Accepted(t)'
  <1>1. SessionInv /\ SerialInv /\ [Next]_vars => [A]_vars
    <2> SUFFICES ASSUME SessionInv, SerialInv, NEW r \in Requests, NEW t \in issued,
                        RevokeSet(r), req[r].op = "logout", t.type = "access",
                        t.id # req[r].token.id, Accepted(t)
                 PROVE  Accepted(t)'
      OBVIOUS
    <2>1. PICK q : q = req[r]
      OBVIOUS
    <2>2. PICK marks : marks = NewMarks(q)
      OBVIOUS
    <2>3. /\ q \in Request /\ q.pc = "revoke_set" /\ q.user \in Users
          /\ q.token \in issued /\ ReadsCurrent(q) /\ now \in Nat
          /\ now' = now /\ refresh_cache' = refresh_cache
          /\ access_cache'[q.user].marks = marks
          /\ access_cache'[q.user].exp = now + RefreshTtl
          /\ now < now + RefreshTtl
          /\ \A v \in Users : v # q.user => access_cache'[v] = access_cache[v]
          /\ \A k \in Keys : marks[k] = IF k = RevokedKey(q) THEN q.stamp
                                                              ELSE q.marks[k]
      BY <2>1, <2>2, RevokeSetFacts
    <2>4. /\ t.exp \in Nat /\ t.minted \in Nat /\ Floor(t.minted) \in Nat
          /\ t.sub \in Users /\ All \in Keys /\ <<"access", t.id>> \in Keys
          /\ t.exp - Ttl(t.type) = Floor(t.minted)
          /\ Floor(t.minted) <= t.minted
      BY TokenFacts
    <2>5. CASE t.sub # q.user
      BY <2>3, <2>4, <2>5, SameChecks
    <2>6. CASE t.sub = q.user
      <3>1. VerifyJwtInRequest(t) /\ ~CheckRevokedToken(t)
        BY DEF Accepted
      <3>2. VerifyJwtInRequest(t)'
        BY <2>3, <3>1 DEF VerifyJwtInRequest, Floor
      <3>3. RevokedKey(q) # All /\ RevokedKey(q) # <<"access", t.id>>
        <4>1. RevokedKey(q) = Jti(q.token)
          BY <2>1 DEF RevokedKey
        <4>2. q.token.type \in {"access", "refresh"} /\ q.token.id \in Ids
          BY <2>3, TokenFacts
        <4>3. Jti(q.token) # All
          BY <4>2, SetAssumption DEF Jti
        <4>4. Jti(q.token) # <<"access", t.id>>
          BY <2>1 DEF Jti
        <4> QED
          BY <4>1, <4>3, <4>4
      <3>4. marks[All] = q.marks[All] /\ marks[<<"access", t.id>>] = q.marks[<<"access", t.id>>]
        BY <2>3, <2>4, <3>3
      <3>5. Marks(t.sub)' = marks
        BY <2>3, <2>6 DEF Marks
      <3>6. PICK m : m = IF marks[All] # Never THEN marks[All] ELSE marks[<<"access", t.id>>]
        OBVIOUS
      <3>7. ASSUME m # Never, Floor(t.minted) <= m
            PROVE  FALSE
        <4>1. q.marks = access_cache[t.sub].marks
          <5>1. q.marks # NoMarks
            BY <2>4, <3>4, <3>6, <3>7 DEF NoMarks
          <5> QED
            BY <2>3, <2>6, <5>1 DEF ReadsCurrent
        <4>2. m = IF q.marks[All] # Never THEN q.marks[All] ELSE q.marks[<<"access", t.id>>]
          BY <3>4, <3>6
        <4>3. /\ m \in Nat /\ m + RefreshTtl <= access_cache[t.sub].exp
              /\ access_cache[t.sub].exp \in Nat
          BY <2>4, <3>7, <4>1, <4>2, MarkFacts
        <4>4. CASE now < access_cache[t.sub].exp
          <5>1. Marks(t.sub) = q.marks
            BY <4>1, <4>4 DEF Marks
          <5>2. CheckRevokedToken(t)
            BY <2>4, <3>7, <4>2, <5>1 DEF CheckRevokedToken
          <5> QED
            BY <3>1, <5>2
        <4>5. CASE ~(now < access_cache[t.sub].exp)
          <5>1. m + RefreshTtl <= now
            BY <2>3, <4>3, <4>5, TimeAssumption
          <5>2. Floor(now) > t.exp /\ Floor(now) \in Nat
            BY <2>3, <3>7, <4>3, <5>1, ExpiredByThen, FloorBounds
          <5> QED
            BY <2>4, <3>1, <5>2 DEF VerifyJwtInRequest
        <4> QED
          BY <4>4, <4>5
      <3>8. ~CheckRevokedToken(t)'
        BY <2>4, <3>5, <3>6, <3>7 DEF CheckRevokedToken
      <3> QED
        BY <3>2, <3>8 DEF Accepted
    <2> QED
      BY <2>5, <2>6
  <1> QED
    BY <1>1, SessionInvariant, SerialInvariant, PTL DEF Spec, LogoutSparesOthers

\* A worker with a single greenlet serves requests that way.
THEOREM OneGreenlet ==
    ASSUME \A r, s \in Requests : r = s
    PROVE  Spec => []OneAtATime
  <1>1. OneAtATime
    BY DEF OneAtATime
  <1> QED
    BY <1>1, PTL

=============================================================================
