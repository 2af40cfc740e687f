------------------------------ MODULE Sessions ------------------------------
(***************************************************************************)
(* Access and refresh tokens of the auth service: how they are issued,     *)
(* checked, refreshed and revoked by HTTP requests that run as greenlets   *)
(* of one gunicorn worker and interleave at every call to Redis and        *)
(* Postgres.                                                               *)
(*                                                                         *)
(* Redis keeps two tables the module models: db 3, access_cache, one       *)
(* record of revocation times per user; db 4, refresh_cache, the owner of  *)
(* every refresh token.  Time is counted in ticks; the claim "exp" of a    *)
(* token is truncated to whole seconds, the time of a revocation is not.   *)
(***************************************************************************)
EXTENDS Integers, FiniteSets

CONSTANTS
    Users,            \* registered users, named by their uuid
    Superusers,       \* the users whose row has is_superuser = true
    Ids,              \* token pairs that can be issued (bounds the model)
    Requests,         \* greenlets: requests that may be in progress at once
    RoleIds,          \* role ids that callers send
    Roles,            \* the ones that have a row in table "roles"
    Second,           \* ticks per second
    AccessTtl,        \* config.access_ttl, in ticks
    RefreshTtl,       \* config.refresh_ttl, in ticks
    MaxNow,           \* the clock stops here (bounds the model)
    VerifyTokenType,  \* does verify_jwt_in_request() turn refresh tokens away?
    Ops,              \* endpoints that callers use (bounds the model)
    All,              \* the key "all" of a revocation record
    Null              \* Python's None

Endpoints == {"login", "refresh", "logout", "logout_all",
              "add_roles", "remove_roles"}

\* Both lifetimes are whole seconds, and a refresh token outlives an access
\* token by a second at least (config.py: one hour against one day).
ASSUME TimeAssumption ==
    /\ Second \in Nat \ {0}
    /\ AccessTtl \in Nat /\ AccessTtl % Second = 0
    /\ RefreshTtl \in Nat /\ RefreshTtl % Second = 0
    /\ AccessTtl + Second <= RefreshTtl
    /\ MaxNow \in Nat

\* A jti is a uuid and never the string "all"; None is no user.
ASSUME SetAssumption ==
    /\ Superusers \subseteq Users
    /\ Roles \subseteq RoleIds
    /\ Ops \subseteq Endpoints
    /\ VerifyTokenType \in BOOLEAN
    /\ Null \notin Users
    /\ All \notin {"access", "refresh"} \X Ids

VARIABLES
    now,           \* the clock of the host
    issued,        \* tokens handed to clients, who keep them for ever
    refresh_cache, \* Redis db 4: id of the pair -> owner and expiry
    access_cache,  \* Redis db 3: user -> revocation record and expiry
    user_roles,    \* Postgres: user -> roles assigned to the user
    req            \* greenlet -> the request it serves

vars == <<now, issued, refresh_cache, access_cache, user_roles, req>>

-----------------------------------------------------------------------------
(* Time and tokens.                                                        *)

\* A datetime put into a JWT keeps whole seconds only.
Floor(t) == t - (t % Second)

Never == -1

\* The pair of tokens with identifier i: the access token's jti is
\* <<"access", i>>, and the claim related_access_token of the refresh token
\* leads from it to the same i.
Jtis == {"access", "refresh"} \X Ids
Keys == Jtis \cup {All}

NoMarks == [k \in Keys |-> Never]

\* "minted" and "device" are not claims: the exact time of issue, and the
\* pair issued by the login that this token descends from by refreshes.
Token == [type : {"access", "refresh"}, id : Ids, sub : Users,
          admin : BOOLEAN, roles : SUBSET RoleIds, exp : Nat,
          minted : Nat, device : Ids]

Ttl(type) == IF type = "access" THEN AccessTtl ELSE RefreshTtl

Jti(t) == <<t.type, t.id>>

\* get_token: the claims of both tokens of a pair.
GetToken(i, u, admin, roles, at, dev) ==
    {[type |-> "access", id |-> i, sub |-> u, admin |-> admin,
      roles |-> roles, exp |-> Floor(at) + AccessTtl,
      minted |-> at, device |-> dev],
     [type |-> "refresh", id |-> i, sub |-> u, admin |-> admin,
      roles |-> {}, exp |-> Floor(at) + RefreshTtl,
      minted |-> at, device |-> dev]}

UsedIds == {t.id : t \in issued}

\* CacheManager.get_value: an entry that has expired is not there.
Marks(u) == IF now < access_cache[u].exp THEN access_cache[u].marks
                                         ELSE NoMarks

RefreshOwner(i) == IF now < refresh_cache[i].exp THEN refresh_cache[i].user
                                                 ELSE Null

-----------------------------------------------------------------------------
(* The checks in front of a view.                                          *)

\* verify_jwt_in_request: a token of ours that has not expired.  The version that
\* requirements.txt pins turns refresh tokens away, so that no refresh gets past
\* it (VerifyTokenType); a version that does not allows all that this one does,
\* and refreshes.
VerifyJwtInRequest(t) ==
    /\ Floor(now) <= t.exp
    /\ VerifyTokenType => t.type = "access"

SuperuserOnly == {"add_roles", "remove_roles"}

\* Deviation: the path is not compared with the bearer.
JwtVerificationAnyPath(op, u, t) ==
    VerifyJwtInRequest(t) /\ (op \notin SuperuserOnly \/ t.admin)

\* jwt_verification: the path names the bearer, or the bearer is an admin.
JwtVerification(op, u, t) ==
    /\ VerifyJwtInRequest(t)
    /\ \/ op \notin SuperuserOnly /\ t.sub = u
       \/ t.admin

\* Deviation: the lifetime of a refresh token is subtracted from every exp.
CheckRevokedAsRefresh(t) ==
    LET marks == Marks(t.sub)
        mark  == IF marks[All] # Never THEN marks[All]
                                       ELSE marks[<<"access", t.id>>]
    IN  mark # Never /\ t.exp - RefreshTtl <= mark

\* Deviation: the lifetime of an access token is.
CheckRevokedAsAccess(t) ==
    LET marks == Marks(t.sub)
        mark  == IF marks[All] # Never THEN marks[All]
                                       ELSE marks[<<"access", t.id>>]
    IN  mark # Never /\ t.exp - AccessTtl <= mark

\* check_revoked_token: the time of issue is recovered from exp, and a
\* record with the key "all" is never searched for the token itself.
CheckRevokedToken(t) ==
    LET marks  == Marks(t.sub)
        mark   == IF marks[All] # Never THEN marks[All]
                                        ELSE marks[<<"access", t.id>>]
        issuedAt == t.exp - Ttl(t.type)
    IN  mark # Never /\ issuedAt <= mark

\* Deviation: any owner will do.
CheckRefreshAnyOwner(t, u) == t.type = "refresh" /\ RefreshOwner(t.id) # Null

\* check_refresh_token: only refresh tokens have their jti in db 4.
CheckRefreshToken(t, u) == t.type = "refresh" /\ RefreshOwner(t.id) = u

-----------------------------------------------------------------------------
(* Requests.                                                               *)

Labels == {"idle", "check_revoked", "check_refresh", "get_roles",
           "get_token", "store", "revoke_get", "revoke_set",
           "read_roles", "commit_roles"}

NoRequest == [pc |-> "idle", op |-> Null, user |-> Null, token |-> Null,
              stamp |-> 0, roles |-> {}, held |-> {}, marks |-> NoMarks]

\* user: the user named by the path; token: the bearer token; stamp: a value
\* of time() kept in a local; roles: the roles sent or put into a token; held,
\* marks: what was read from user_roles and from the revocation record.
Request == [pc : Labels, op : Endpoints \cup {Null}, user : Users \cup {Null},
            token : Token \cup {Null}, stamp : Nat, roles : SUBSET RoleIds,
            held : SUBSET RoleIds, marks : [Keys -> Nat \cup {Never}]]

Reply(r) == req' = [req EXCEPT ![r] = NoRequest]

Goto(r, label) == req' = [req EXCEPT ![r].pc = label]

Init ==
    /\ now = 0
    /\ issued = {}
    /\ refresh_cache = [i \in Ids |-> [user |-> Null, exp |-> 0]]
    /\ access_cache = [u \in Users |-> [marks |-> NoMarks, exp |-> 0]]
    /\ user_roles = [u \in Users |-> {}]
    /\ req = [r \in Requests |-> NoRequest]

\* Time passes between any two steps.
Tick ==
    /\ now < MaxNow
    /\ now' = now + 1
    /\ UNCHANGED <<issued, refresh_cache, access_cache, user_roles, req>>

\* LoginView with the right password and no second factor: autorize_user has
\* found the row of the user and logged the attempt.
Login(r, u) ==
    /\ "login" \in Ops
    /\ req[r].pc = "idle"
    /\ req' = [req EXCEPT ![r] = [NoRequest EXCEPT !.pc = "get_roles",
                                                   !.op = "login",
                                                   !.user = u]]
    /\ UNCHANGED <<now, issued, refresh_cache, access_cache, user_roles>>

\* A request with a bearer token t reaches the view for user u.  One that
\* JwtVerification turns away changes nothing and is left out.
Receive(r, op, u, t, roles) ==
    /\ op \in Ops \ {"login"}
    /\ req[r].pc = "idle"
    /\ JwtVerification(op, u, t)
    /\ op \notin SuperuserOnly => roles = {}
    /\ req' = [req EXCEPT ![r] = [NoRequest EXCEPT !.pc = "check_revoked",
                                                   !.op = op,
                                                   !.user = u,
                                                   !.token = t,
                                                   !.roles = roles]]
    /\ UNCHANGED <<now, issued, refresh_cache, access_cache, user_roles>>

\* revoked_token_check answers 401 ...
RejectRevoked(r) ==
    /\ req[r].pc = "check_revoked"
    /\ CheckRevokedToken(req[r].token)
    /\ Reply(r)
    /\ UNCHANGED <<now, issued, refresh_cache, access_cache, user_roles>>

\* ... or lets the view run: RefreshView goes on to check_refresh_token, the
\* others call revoke_access_token, which takes the time first.
PassRevoked(r) ==
    /\ req[r].pc = "check_revoked"
    /\ ~CheckRevokedToken(req[r].token)
    /\ IF req[r].op = "refresh"
       THEN Goto(r, "check_refresh")
       ELSE req' = [req EXCEPT ![r].pc = "revoke_get", ![r].stamp = now]
    /\ UNCHANGED <<now, issued, refresh_cache, access_cache, user_roles>>

\* RefreshView: the refresh token must belong to the user in the path.
CheckRefresh(r) ==
    /\ req[r].pc = "check_refresh"
    /\ IF CheckRefreshToken(req[r].token, req[r].user)
       THEN Goto(r, "get_roles")
       ELSE Reply(r)
    /\ UNCHANGED <<now, issued, refresh_cache, access_cache, user_roles>>

\* get_user_roles, called for a login and for a refresh.
GetUserRoles(r) ==
    /\ req[r].pc = "get_roles"
    /\ req' = [req EXCEPT ![r].pc = "get_token",
                          ![r].roles = user_roles[req[r].user]]
    /\ UNCHANGED <<now, issued, refresh_cache, access_cache, user_roles>>

\* get_token stamps the new pair with the current time.
MintToken(r) ==
    /\ req[r].pc = "get_token"
    /\ req' = [req EXCEPT ![r].pc = "store", ![r].stamp = now]
    /\ UNCHANGED <<now, issued, refresh_cache, access_cache, user_roles>>

\* The flag "admin" comes from the row of the user at a login and from the
\* bearer token at a refresh.
AdminClaim(q) == IF q.op = "login" THEN q.user \in Superusers
                                   ELSE q.token.admin

\* generate_request_id and generate_tokens: the refresh token is registered
\* in db 4, then the pair is sent to the client.
StoreRefreshToken(r) ==
    LET q == req[r] IN
    /\ q.pc = "store"
    /\ \E i \in Ids \ UsedIds :
         /\ issued' = issued \cup
              GetToken(i, q.user, AdminClaim(q), q.roles, q.stamp,
                       IF q.op = "login" THEN i ELSE q.token.device)
         /\ refresh_cache' = [refresh_cache EXCEPT
              ![i] = [user |-> q.user, exp |-> now + RefreshTtl]]
    /\ Reply(r)
    /\ UNCHANGED <<now, access_cache, user_roles>>

\* revoke_access_token reads the record of the user ...
RevokeGet(r) ==
    /\ req[r].pc = "revoke_get"
    /\ req' = [req EXCEPT ![r].pc = "revoke_set",
                          ![r].marks = Marks(req[r].user)]
    /\ UNCHANGED <<now, issued, refresh_cache, access_cache, user_roles>>

\* Deviations: the jti is ignored, or never left out.
RevokedKeyAlwaysAll(q) == All
RevokedKeyOfBearer(q) == IF q.op = "logout_all" THEN All ELSE Jti(q.token)

\* The key a revocation writes: LogoutView sends the jti of the bearer when
\* only one device is to be logged out, every other caller means "all".
RevokedKey(q) == IF q.op = "logout" THEN Jti(q.token) ELSE All

\* Deviations: the record is replaced by a new one; the default "all" of the
\* jti is forgotten.
NewRecordOnly(q) == [NoMarks EXCEPT ![RevokedKey(q)] = q.stamp]
NoDefaultKey(q) ==
    LET key == IF q.op = "logout" THEN Jti(q.token) ELSE Null
    IN  [k \in Keys \cup {key} |-> IF k = key THEN q.stamp ELSE q.marks[k]]

\* The record read, with one entry added or overwritten.
NewMarks(q) == [q.marks EXCEPT ![RevokedKey(q)] = q.stamp]

\* Deviation: a record lives as long as an access token.
RecordExpShort == now + AccessTtl

\* Every write gives the record a new lifetime.
RecordExp == now + RefreshTtl

\* ... and writes it back.
RevokeSet(r) ==
    LET q == req[r] IN
    /\ q.pc = "revoke_set"
    /\ access_cache' = [access_cache EXCEPT
         ![q.user] = [marks |-> NewMarks(q), exp |-> RecordExp]]
    /\ IF q.op \in SuperuserOnly THEN Goto(r, "read_roles") ELSE Reply(r)
    /\ UNCHANGED <<now, issued, refresh_cache, user_roles>>

\* add_many_to_many_row and remove_many_to_many_row load the roles the user
\* has.  A role without a row rolls the addition back (404); a role the user
\* does not have makes list.remove raise.
ReadRoles(r) ==
    LET q == req[r]
        known == IF q.op = "add_roles" THEN Roles ELSE user_roles[q.user]
    IN  /\ q.pc = "read_roles"
        /\ IF q.roles \subseteq known
           THEN req' = [req EXCEPT ![r].pc = "commit_roles",
                                   ![r].held = user_roles[q.user]]
           ELSE Reply(r)
        /\ UNCHANGED <<now, issued, refresh_cache, access_cache, user_roles>>

\* The commit inserts the rows that were not there when they were read; if
\* one is there by now, the primary key rolls the transaction back.
AddUserRoles(r) ==
    LET q == req[r]
        added == q.roles \ q.held
    IN  /\ q.pc = "commit_roles" /\ q.op = "add_roles"
        /\ user_roles' = IF added \cap user_roles[q.user] = {}
                         THEN [user_roles EXCEPT ![q.user] = @ \cup added]
                         ELSE user_roles
        /\ Reply(r)
        /\ UNCHANGED <<now, issued, refresh_cache, access_cache>>

\* It deletes the rows of the roles sent; if one is gone by now, the number
\* of deleted rows is wrong and the transaction is rolled back.
RemoveUserRoles(r) ==
    LET q == req[r] IN
    /\ q.pc = "commit_roles" /\ q.op = "remove_roles"
    /\ user_roles' = IF q.roles \subseteq user_roles[q.user]
                     THEN [user_roles EXCEPT ![q.user] = @ \ q.roles]
                     ELSE user_roles
    /\ Reply(r)
    /\ UNCHANGED <<now, issued, refresh_cache, access_cache>>

\* The worker dies and is started again: requests in progress are lost.
Crash ==
    /\ \E r \in Requests : req[r].pc # "idle"
    /\ req' = [r \in Requests |-> NoRequest]
    /\ UNCHANGED <<now, issued, refresh_cache, access_cache, user_roles>>

Arrive(r) ==
    \/ \E u \in Users : Login(r, u)
    \/ \E op \in Ops, u \in Users, t \in issued, roles \in SUBSET RoleIds :
         Receive(r, op, u, t, roles)

Serve(r) ==
    \/ RejectRevoked(r) \/ PassRevoked(r) \/ CheckRefresh(r)
    \/ GetUserRoles(r) \/ MintToken(r) \/ StoreRefreshToken(r)
    \/ RevokeGet(r) \/ RevokeSet(r)
    \/ ReadRoles(r) \/ AddUserRoles(r) \/ RemoveUserRoles(r)

Next ==
    \/ Tick
    \/ Crash
    \/ \E r \in Requests : Arrive(r) \/ Serve(r)

Spec == Init /\ [][Next]_vars
-----------------------------------------------------------------------------
(* What the checks make of a token.                                        *)

Accepted(t) == VerifyJwtInRequest(t) /\ ~CheckRevokedToken(t)

\* A refresh token is usable when RefreshView exchanges it for a new pair.
Usable(t) ==
    /\ Accepted(t)
    /\ t.type = "refresh" => CheckRefreshToken(t, t.sub)

\* The revocation times that speak of t.
MarksOf(t) == {Marks(t.sub)[All], Marks(t.sub)[<<"access", t.id>>]}

\* The access token issued by the login that t descends from.
LoginOf(t) == CHOOSE s \in issued : s.type = "access" /\ s.id = t.device

\* t has expired, or was revoked after it was issued.
Ended(t) ==
    \/ Floor(now) > t.exp
    \/ t.type = "refresh" /\ ~CheckRefreshToken(t, t.sub)
    \/ CheckRevokedToken(t) /\ \E m \in MarksOf(t) : t.minted < m

-----------------------------------------------------------------------------
(* Properties of every run.                                                *)

\* The caches, the tokens and the requests in progress have the shapes that
\* get_token, set_value and the views give them.
TypeOK ==
    /\ now \in Nat
    /\ issued \subseteq Token
    /\ refresh_cache \in [Ids -> [user : Users \cup {Null}, exp : Nat]]
    /\ access_cache \in [Users -> [marks : [Keys -> Nat \cup {Never}],
                                   exp : Nat]]
    /\ user_roles \in [Users -> SUBSET RoleIds]
    /\ req \in [Requests -> Request]

\* The claim "admin" is copied from token to token by refreshes, for users
\* that callers name in the path: nobody but a superuser ever carries it.
AdminClaimGenuine == \A t \in issued : t.admin => t.sub \in Superusers

\* check_revoked_token recovers the time of issue from exp and must subtract
\* the lifetime of the right kind of token: a token is never refused on
\* account of a revocation a second or more before it was minted.
OverRevocationBounded ==
    \A t \in issued :
        CheckRevokedToken(t) => \E m \in MarksOf(t) : t.minted < m + Second

\* The record of a user in access_cache is only rewritten by a request whose
\* bearer is that user or a superuser, also after the check in front of the
\* view has long been made.
RevocationAuthorized ==
    [][\A u \in Users :
          access_cache'[u] # access_cache[u] =>
              \E r \in Requests :
                  /\ req[r].pc = "revoke_set" /\ req[r].user = u
                  /\ req[r].token.sub \in {u} \cup Superusers]_vars

\* A revocation record is dropped by Redis refresh_ttl after it was written.
\* An access token it refuses has expired by then: waiting is no way in.
ClockNeverReadmits ==
    [][\A t \in issued :
          /\ now' # now
          /\ t.type = "access"
          /\ ~Accepted(t)
          => ~Accepted(t)']_vars

-----------------------------------------------------------------------------
(* The inductive invariant behind these properties.                        *)

\* get_token puts the time of issue into exp, less a fraction of a second.
ExpTellsIssue == \A t \in issued : t.exp = Floor(t.minted) + Ttl(t.type)

\* The owner that generate_tokens stores is the subject of the token.
RefreshCacheOwned == \A t \in issued : refresh_cache[t.id].user = t.sub

\* A request behind the checks of its view has a bearer token of ours, which
\* names the user or an admin; one that will be given tokens, the user.
RequestVerified(q) ==
    q.pc # "idle" =>
        /\ q.user \in Users
        /\ q.op = "login" => q.pc \in {"get_roles", "get_token", "store"}
        /\ q.op # "login" =>
              /\ q.token \in issued
              /\ q.token.sub = q.user \/ q.token.admin
              /\ q.pc \in {"get_roles", "get_token", "store"} =>
                    q.token.sub = q.user

\* No revocation time lies in the future, and a record outlives each of its
\* times by refresh_ttl.
MarksPast ==
    /\ \A u \in Users, k \in Keys :
          LET m == access_cache[u].marks[k] IN
          m <= now /\ (m # Never => m + RefreshTtl <= access_cache[u].exp)
    /\ \A r \in Requests :
          req[r].stamp <= now /\ \A k \in Keys : req[r].marks[k] <= now

\* Together: what every handler may rely on when it is resumed.
SessionInv ==
    /\ TypeOK
    /\ ExpTellsIssue
    /\ AdminClaimGenuine
    /\ RefreshCacheOwned
    /\ \A r \in Requests : RequestVerified(req[r])
    /\ MarksPast

-----------------------------------------------------------------------------
(* Properties of runs that serve one request at a time.                    *)

\* Neither later requests, nor time, nor a restart bring back a token that
\* was revoked or has expired.
EndedStaysEnded == [][\A t \in issued : Ended(t) => Ended(t)']_vars

\* test_logout_all: logging out of all devices makes every device log in
\* again, so a usable token descends from a later login.
LogoutAllEndsSessions ==
    \A t \in issued :
        Usable(t) => Marks(t.sub)[All] < LoginOf(t).minted

\* test_logout: logging out one device leaves the access tokens of the
\* others alone.
LogoutSparesOthers ==
    [][\A r \in Requests, t \in issued :
          /\ RevokeSet(r)
          /\ req[r].op = "logout"
          /\ t.type = "access" /\ t.id # req[r].token.id
          /\ Accepted(t)
          => Accepted(t)']_vars

\* The roles in an access token are not looked up again when it is used: a
\* token that is accepted carries the roles its user has now.
TokenRolesCurrent ==
    (\A r \in Requests : req[r].pc = "idle") =>
        \A t \in issued :
            t.type = "access" /\ Accepted(t) => t.roles = user_roles[t.sub]

-----------------------------------------------------------------------------
(* The inductive invariant behind these properties.                        *)

\* No request arrives before the last one is answered.
OneAtATime ==
    \A r, s \in Requests : req[r].pc # "idle" /\ req[s].pc # "idle" => r = s

\* The time of the last revocation of all tokens in the record of u, which may
\* have expired.
AllMark(u) == access_cache[u].marks[All]

\* t was minted before time m, or after a login that is after m as well.
EndsBefore(t, m) == t.minted > m => LoginOf(t).minted > m

\* A token has its type and its id to itself, and its login is a token.  What
\* was minted is past, and Redis keeps its owner for refresh_ttl at most.
PairsOK ==
    /\ \A s, t \in issued : s.type = t.type /\ s.id = t.id => s = t
    /\ \A t \in issued :
          /\ \E s \in issued : s.type = "access" /\ s.id = t.device
          /\ t.minted <= now
          /\ refresh_cache[t.id].exp <= now + RefreshTtl

\* A token that is older than a revocation had been stored by then; only a
\* login can begin a new line of tokens after a revocation of all of them; and
\* a token with other roles than its user is older than one, or has expired.
TokensOK ==
    \A t \in issued :
        /\ \A k \in Keys :
              LET m == access_cache[t.sub].marks[k] IN
              t.minted < m => refresh_cache[t.id].exp <= m + RefreshTtl
        /\ now < access_cache[t.sub].exp => EndsBefore(t, AllMark(t.sub))
        /\ t.type = "access" =>
              \/ t.roles = user_roles[t.sub]
              \/ t.minted <= AllMark(t.sub)
              \/ Floor(now) > t.exp

\* What a request has read is still so when it goes on.
ReadsCurrent(q) ==
    /\ q.pc \in {"revoke_get", "revoke_set"} =>
          /\ \A t \in issued :
                /\ t.minted <= q.stamp
                /\ refresh_cache[t.id].exp <= q.stamp + RefreshTtl
          /\ \A k \in Keys : access_cache[q.user].marks[k] <= q.stamp
    /\ q.pc = "revoke_set" =>
          /\ \/ q.marks = access_cache[q.user].marks
             \/ q.marks = NoMarks /\ access_cache[q.user].exp <= now
          /\ \A t \in issued : t.sub = q.user => EndsBefore(t, q.marks[All])
    /\ q.pc \in {"read_roles", "commit_roles"} =>
          \A t \in issued : t.sub = q.user => t.minted <= AllMark(q.user)
    /\ q.pc \in {"check_refresh", "get_roles", "get_token", "store"}
       /\ q.op # "login" /\ now < access_cache[q.token.sub].exp =>
          q.token.minted > AllMark(q.token.sub)
    /\ q.pc \in {"get_token", "store"} => q.roles = user_roles[q.user]
    /\ q.pc = "store" => \A k \in Keys : access_cache[q.user].marks[k] <= q.stamp

SerialInv ==
    /\ PairsOK
    /\ TokensOK
    /\ \A r \in Requests : ReadsCurrent(req[r])

-----------------------------------------------------------------------------
(* What documents and tests say and the code does not do.                  *)

\* README.md, "Redis", table 2: a logout stores the access token it came
\* with and that token is refused from then on.
LogoutRevokesPresented ==
    [][\A r \in Requests, t \in issued :
          /\ RevokeSet(r)
          /\ req[r].op = "logout"
          /\ t.type = "access" /\ t = req[r].token
          => ~Accepted(t)']_vars
=============================================================================
