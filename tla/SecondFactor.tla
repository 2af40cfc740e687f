---------------------------- MODULE SecondFactor ----------------------------
(***************************************************************************)
(* Login in two steps.  A user with an active second factor is answered a  *)
(* request id, under which Redis db 5, request_cache, keeps a copy of the  *)
(* user's row and roles for request_ttl; POST /totp/check trades the id    *)
(* and a code for a pair of tokens that is made from the copy.  Meanwhile  *)
(* the secret may be replaced and confirmed (GET and POST /totp/sync), the *)
(* roles may change and all sessions may be ended; every call to Redis or  *)
(* Postgres lets other requests run, and the worker may die.               *)
(*                                                                         *)
(* A code stands for the secret it was computed from.  Sessions models     *)
(* what happens to the pairs later; here they only end by a revocation of  *)
(* all of them, since the clock stops long before access_ttl.              *)
(***************************************************************************)
EXTENDS Integers, FiniteSets

CONSTANTS
    Users,       \* registered users
    Requests,    \* greenlets
    Secrets,     \* results of pyotp.random_base32 (bounds the model)
    RequestIds,  \* results of generate_random_string (bounds the model)
    Roles,       \* names of roles
    RequestTtl,  \* config.request_ttl, in ticks
    MaxNow,      \* the clock stops here (bounds the model)
    MaxRequests, \* requests that are made in all (bounds the model)
    Null         \* Python's None

ASSUME FactorAssumption ==
    /\ RequestTtl \in Nat \ {0} /\ MaxNow \in Nat /\ MaxRequests \in Nat
    /\ Null \notin Secrets \cup RequestIds \cup Users

VARIABLES
    now,           \* the clock of the host
    totp,          \* Postgres, users: totp_secret, totp_active, totp_sync
    user_roles,    \* Postgres: user -> names of the user's roles
    request_cache, \* Redis db 5: request id -> copy of the user and expiry
    access_cache,  \* Redis db 3: user -> time under the key "all"
    req,           \* greenlet -> the request it serves
    started,       \* requests so far
    owner,         \* secret -> the user it was drawn for
    handed,        \* secrets that were sent to a client
    proven,        \* users who sent a code of such a secret of their own
    answered,      \* request id -> when it was sent to a client
    changed,       \* user -> when the row or the roles last changed
    pairs          \* pairs of tokens that were sent to clients

database == <<totp, user_roles, changed>>
cache    == <<request_cache, access_cache>>
ghosts   == <<owner, handed, proven, answered>>
vars     == <<now, database, cache, req, started, ghosts, pairs>>

-----------------------------------------------------------------------------

Never == -1

Row == [secret : Secrets \cup {Null}, active : BOOLEAN, sync : BOOLEAN]

\* What a login has read: the row and, later, the roles.  start and protected
\* are when the login came in, and whether the factor was active by then.
Copy == [user : Users, row : Row, roles : SUBSET Roles, start : Nat,
         protected : BOOLEAN]

\* A pair of tokens, with the copy it was made from, the code that was sent
\* (Null if none was asked for), and when the request id had been answered.
Pair == [copy : Copy, code : Secrets \cup {Null}, answered : Nat,
         minted : Nat]

\* None is no dictionary.
ASSUME NullAssumption == Null \notin [copy : Copy, exp : Nat]

Labels == {"idle", "get_user", "get_roles", "put", "check", "store",
           "update_secret", "hand_out", "verify", "activate", "revoke",
           "update_roles"}

NoRequest == [pc |-> "idle", user |-> Null, id |-> Null, code |-> Null,
              at |-> 0, protected |-> FALSE, copy |-> Null, pair |-> Null]

Request == [pc : Labels, user : Users \cup {Null},
            id : RequestIds \cup {Null}, code : Secrets \cup {Null},
            at : Nat, protected : BOOLEAN, copy : Copy \cup {Null},
            pair : Pair \cup {Null}]

\* Redis drops a key when its time is over.
Live(i) == request_cache[i] # Null /\ now < request_cache[i].exp

UsedIds == {i \in RequestIds :
                \/ request_cache[i] # Null
                \/ \E r \in Requests : req[r].id = i}

\* check_revoked_token, in whole ticks.
Refused(p) == p.minted <= access_cache[p.copy.user]

\* jwt_required and revoked_token_check let the bearer of such a pair through.
LoggedIn(u) == \E p \in pairs : p.copy.user = u /\ ~Refused(p)

\* pyotp.TOTP(secret).verify(code); without a secret it raises.
Verified(secret, code) == secret # Null /\ code = secret

Begin(r, q) ==
    /\ req[r].pc = "idle" /\ started < MaxRequests
    /\ started' = started + 1
    /\ req' = [req EXCEPT ![r] = q]
    /\ UNCHANGED <<now, database, cache, ghosts, pairs>>

Goto(r, label) == req' = [req EXCEPT ![r].pc = label]

Reply(r) == req' = [req EXCEPT ![r] = NoRequest]

-----------------------------------------------------------------------------

\* Users are logged in.  Their second factor is off, or has a secret that was
\* not confirmed, or is active.
Init ==
    /\ now = 0
    /\ owner \in [Secrets -> Users \cup {Null}]
    /\ handed = {s \in Secrets : owner[s] # Null}
    /\ \A s, t \in handed : owner[s] = owner[t] => s = t
    /\ totp \in [Users -> Row]
    /\ \A u \in Users :
          /\ IF totp[u].secret = Null THEN \A s \in handed : owner[s] # u
             ELSE totp[u].secret \in handed /\ owner[totp[u].secret] = u
          /\ totp[u].sync = totp[u].active
          /\ totp[u].active => totp[u].secret # Null
    /\ proven = {u \in Users : totp[u].active}
    /\ user_roles = [u \in Users |-> Roles]
    /\ request_cache = [i \in RequestIds |-> Null]
    /\ access_cache = [u \in Users |-> Never]
    /\ answered = [i \in RequestIds |-> Never]
    /\ changed = [u \in Users |-> Never]
    /\ pairs = {[copy |-> [user |-> u, row |-> [secret |-> Null,
                             active |-> FALSE, sync |-> FALSE],
                           roles |-> Roles, start |-> 0, protected |-> FALSE],
                 code |-> Null, answered |-> 0, minted |-> 0] : u \in Users}
    /\ req = [r \in Requests |-> NoRequest]
    /\ started = 0

Tick ==
    /\ now < MaxNow
    /\ now' = now + 1
    /\ UNCHANGED <<database, cache, req, started, ghosts, pairs>>

-----------------------------------------------------------------------------
(* POST /users/login, and a later login through a social provider.         *)

Login(r, u) ==
    Begin(r, [NoRequest EXCEPT !.pc = "get_user", !.user = u, !.at = now,
                               !.protected = totp[u].active])

\* autorize_user reads the row and draws a request id.
GetUser(r) ==
    LET q == req[r] IN
    /\ q.pc = "get_user"
    /\ \E i \in RequestIds \ UsedIds :
         req' = [req EXCEPT ![r].pc = "get_roles", ![r].id = i,
                   ![r].copy = [user |-> q.user, row |-> totp[q.user],
                                roles |-> {}, start |-> q.at,
                                protected |-> q.protected]]
    /\ UNCHANGED <<now, database, cache, started, ghosts, pairs>>

\* get_token, at the moment.
Mint(copy, code, at) ==
    [copy |-> copy, code |-> code, answered |-> at, minted |-> now]

\* generate_request_id: with an active factor the copy goes to Redis, else the
\* pair is made at once.
GetUserRoles(r) ==
    LET copy == [req[r].copy EXCEPT !.roles = user_roles[req[r].user]] IN
    /\ req[r].pc = "get_roles"
    /\ req' = IF copy.row.active
              THEN [req EXCEPT ![r].pc = "put", ![r].copy = copy]
              ELSE [req EXCEPT ![r].pc = "store",
                               ![r].pair = Mint(copy, Null, now)]
    /\ UNCHANGED <<now, database, cache, started, ghosts, pairs>>

\* Deviation: the copy is kept as long as a refresh token is.
CopyLifetimeLong == 2 * RequestTtl + 1

CopyLifetime == RequestTtl

\* _put_user_data_to_cache; backoff repeats the call if its answer is lost.
PutUserDataToCache(r) ==
    LET q == req[r] IN
    /\ q.pc = "put"
    /\ request_cache' = [request_cache EXCEPT ![q.id] =
                            [copy |-> q.copy, exp |-> now + CopyLifetime]]
    /\ \/ Reply(r) /\ answered' = [answered EXCEPT ![q.id] = now]
       \/ UNCHANGED <<req, answered>>
    /\ UNCHANGED <<now, database, access_cache, started, owner, handed,
                   proven, pairs>>

-----------------------------------------------------------------------------
(* POST /totp/check/<request_id>.                                          *)

\* Whoever has seen the id may send it, with a code of any secret that was
\* handed out.
TotpCheck(r, i, code) ==
    /\ answered[i] # Never
    /\ Begin(r, [NoRequest EXCEPT !.pc = "check", !.id = i, !.code = code])

\* Deviation: any code will do once the factor is in sync.
PassesInSync(copy, code) == ~copy.row.active \/ copy.row.sync

\* check_totp, on the copy alone.
Passes(copy, code) ==
    \/ ~copy.row.active
    \/ copy.row.sync /\ Verified(copy.row.secret, code)

\* A copy that is gone or a wrong code is answered 401: update_login_attempt
\* only touches the history.
CheckTotp(r) ==
    LET q == req[r] IN
    /\ q.pc = "check"
    /\ IF Live(q.id) /\ Passes(request_cache[q.id].copy, q.code)
       THEN req' = [req EXCEPT ![r].pc = "store",
                      ![r].pair = Mint(request_cache[q.id].copy, q.code,
                                       answered[q.id])]
       ELSE Reply(r)
    /\ UNCHANGED <<now, database, cache, started, ghosts, pairs>>

\* The refresh token is stored and the pair is answered.
StoreRefreshToken(r) ==
    /\ req[r].pc = "store"
    /\ pairs' = pairs \cup {req[r].pair}
    /\ Reply(r)
    /\ UNCHANGED <<now, database, cache, started, ghosts>>

-----------------------------------------------------------------------------
(* GET and POST /totp/sync.                                                *)

\* generate_provisioning_url draws a secret ...
TotpSyncGet(r, u, s) ==
    /\ req[r].pc = "idle" /\ started < MaxRequests /\ LoggedIn(u)
    /\ owner[s] = Null
    /\ owner' = [owner EXCEPT ![s] = u]
    /\ started' = started + 1
    /\ req' = [req EXCEPT ![r] = [NoRequest EXCEPT !.pc = "update_secret",
                                                   !.user = u, !.code = s]]
    /\ UNCHANGED <<now, database, cache, handed, proven, answered, pairs>>

\* Deviation: the update has no filter.
SecretForAll(u, s) == [v \in Users |-> [totp[v] EXCEPT !.secret = s]]

\* Deviation: a new secret switches the factor off until it is confirmed.
SecretUnconfirmed(u, s) ==
    [totp EXCEPT ![u] = [secret |-> s, active |-> FALSE, sync |-> FALSE]]

NewSecret(u, s) == [totp EXCEPT ![u].secret = s]

\* ... which update_user_secret puts in the place of the one there is, active
\* or not: once, or again and again if the answers of its commits are lost ...
UpdateUserSecret(r) ==
    LET q == req[r] IN
    /\ q.pc = "update_secret"
    /\ totp' = NewSecret(q.user, q.code)
    /\ changed' = [changed EXCEPT ![q.user] = now]
    /\ Goto(r, "hand_out") \/ UNCHANGED req
    /\ UNCHANGED <<now, user_roles, cache, started, ghosts, pairs>>

\* ... and the answer hands out.
HandOut(r) ==
    /\ req[r].pc = "hand_out"
    /\ handed' = handed \cup {req[r].code}
    /\ Reply(r)
    /\ UNCHANGED <<now, database, cache, started, owner, proven, answered,
                   pairs>>

TotpSyncPost(r, u, code) ==
    /\ LoggedIn(u)
    /\ Begin(r, [NoRequest EXCEPT !.pc = "verify", !.user = u, !.code = code])

\* Deviation: the result of verify is not looked at.
ConfirmedAnyway(u, code) == totp[u].secret # Null

Confirmed(u, code) == Verified(totp[u].secret, code)

\* activate_totp reads the row and verifies the code against its secret ...
VerifyCode(r) ==
    LET q == req[r] IN
    /\ q.pc = "verify"
    /\ IF Confirmed(q.user, q.code) THEN Goto(r, "activate") ELSE Reply(r)
    /\ proven' = IF owner[q.code] = q.user /\ q.code \in handed
                 THEN proven \cup {q.user} ELSE proven
    /\ UNCHANGED <<now, database, cache, started, owner, handed, answered,
                   pairs>>

\* ... and update_user_totp_status sets both flags of the row there is now, once
\* or more often.
UpdateUserTotpStatus(r) ==
    LET u == req[r].user IN
    /\ req[r].pc = "activate"
    /\ totp' = [totp EXCEPT ![u].active = TRUE, ![u].sync = TRUE]
    /\ changed' = [changed EXCEPT ![u] = now]
    /\ Reply(r) \/ UNCHANGED req
    /\ UNCHANGED <<now, user_roles, cache, started, ghosts, pairs>>

-----------------------------------------------------------------------------
(* A logout of all devices, and a change of roles, which starts like one.  *)

\* revoke_access_token takes the time before it reads and writes the record.
Revoke(r, u) ==
    Begin(r, [NoRequest EXCEPT !.pc = "revoke", !.user = u, !.at = now])

\* The record is written, again if the answer of Redis is lost; then the logout
\* is answered, or the roles come next.
RevokeSet(r) ==
    LET q == req[r] IN
    /\ q.pc = "revoke"
    /\ access_cache' = [access_cache EXCEPT ![q.user] = q.at]
    /\ Reply(r) \/ Goto(r, "update_roles") \/ UNCHANGED req
    /\ UNCHANGED <<now, database, request_cache, started, ghosts, pairs>>

\* add_many_to_many_row or remove_many_to_many_row commits; RoleAdmin has its
\* transaction in full.
UpdateRoles(r) ==
    LET u == req[r].user IN
    /\ req[r].pc = "update_roles"
    /\ \E roles \in SUBSET Roles \ {user_roles[u]} :
         user_roles' = [user_roles EXCEPT ![u] = roles]
    /\ changed' = [changed EXCEPT ![u] = now]
    /\ Reply(r)
    /\ UNCHANGED <<now, totp, cache, started, ghosts, pairs>>

\* The worker dies and is started again.
Crash ==
    /\ \E r \in Requests : req[r].pc # "idle"
    /\ req' = [r \in Requests |-> NoRequest]
    /\ UNCHANGED <<now, database, cache, started, ghosts, pairs>>

-----------------------------------------------------------------------------

Arrive(r) ==
    \/ \E u \in Users : Login(r, u) \/ Revoke(r, u)
    \/ \E i \in RequestIds, code \in handed : TotpCheck(r, i, code)
    \/ \E u \in Users, s \in Secrets : TotpSyncGet(r, u, s)
    \/ \E u \in Users, code \in handed : TotpSyncPost(r, u, code)

Serve(r) ==
    \/ GetUser(r) \/ GetUserRoles(r) \/ PutUserDataToCache(r)
    \/ CheckTotp(r) \/ StoreRefreshToken(r)
    \/ UpdateUserSecret(r) \/ HandOut(r)
    \/ VerifyCode(r) \/ UpdateUserTotpStatus(r)
    \/ RevokeSet(r) \/ UpdateRoles(r)

Next == Tick \/ Crash \/ \E r \in Requests : Arrive(r) \/ Serve(r)

Spec == Init /\ [][Next]_vars

-----------------------------------------------------------------------------
(* Properties.                                                             *)

\* The tables, the caches, the requests and the pairs keep their shapes.
TypeOK ==
    /\ now \in Nat /\ started \in Nat
    /\ totp \in [Users -> Row]
    /\ user_roles \in [Users -> SUBSET Roles]
    /\ request_cache \in
         [RequestIds -> [copy : Copy, exp : Nat] \cup {Null}]
    /\ access_cache \in [Users -> Nat \cup {Never}]
    /\ req \in [Requests -> Request]
    /\ owner \in [Secrets -> Users \cup {Null}]
    /\ handed \subseteq Secrets /\ proven \subseteq Users
    /\ answered \in [RequestIds -> Nat \cup {Never}]
    /\ changed \in [Users -> Nat \cup {Never}]
    /\ pairs \subseteq Pair

\* A copy is the user's own, is in order, and is protected if it has to be.
CopyOK(c) ==
    /\ c.row.active => c.row.sync /\ c.row.secret # Null
    /\ c.row.secret # Null => owner[c.row.secret] = c.user
    /\ c.protected => c.row.active
    /\ c.start <= now

\* What a copy says was true when its login came in, or later.
RowCurrent(c)   == c.row = totp[c.user] \/ c.start <= changed[c.user]
RolesCurrent(c) == c.roles = user_roles[c.user] \/ c.start <= changed[c.user]

PairOK(p) ==
    /\ CopyOK(p.copy)
    /\ p.copy.protected => p.code # Null
    /\ p.code # Null => owner[p.code] = p.copy.user /\ p.code \in handed
    /\ p.minted < p.answered + RequestTtl

RowsOK ==
    \A u \in Users :
        /\ totp[u].active =>
              totp[u].sync /\ totp[u].secret # Null /\ u \in proven
        /\ totp[u].secret # Null => owner[totp[u].secret] = u

CacheOK ==
    \A i \in RequestIds :
        /\ answered[i] # Never => request_cache[i] # Null
        /\ request_cache[i] # Null =>
              /\ CopyOK(request_cache[i].copy)
              /\ RowCurrent(request_cache[i].copy)
              /\ RolesCurrent(request_cache[i].copy)
              /\ request_cache[i].copy.row.active
              /\ answered[i] # Never =>
                    request_cache[i].exp <= answered[i] + RequestTtl

\* Requests that have drawn an id and not sent it yet.
Drawing == {r \in Requests : req[r].pc \in {"get_roles", "put"}}

RequestOK(q) ==
    /\ q.pc # "idle" /\ q.pc # "check" /\ q.pc # "store" => q.user \in Users
    /\ q.pc = "get_user" =>
          q.at <= now /\ (q.protected => totp[q.user].active)
    /\ q.pc \in {"get_roles", "put"} =>
          /\ q.id \in RequestIds /\ answered[q.id] = Never
          /\ q.copy \in Copy /\ q.copy.user = q.user
          /\ CopyOK(q.copy) /\ RowCurrent(q.copy)
    /\ q.pc = "put" => q.copy.row.active /\ RolesCurrent(q.copy)
    /\ q.pc = "check" =>
          q.id \in RequestIds /\ answered[q.id] # Never /\ q.code \in handed
    /\ q.pc = "store" =>
          /\ q.pair \in Pair /\ PairOK(q.pair)
          /\ RowCurrent(q.pair.copy) /\ RolesCurrent(q.pair.copy)
    /\ q.pc \in {"update_secret", "hand_out"} =>
          q.code \in Secrets /\ owner[q.code] = q.user
    /\ q.pc = "verify" => q.code \in handed
    /\ q.pc = "activate" => q.user \in proven /\ totp[q.user].secret # Null

RequestsOK == \A r \in Requests : RequestOK(req[r])

\* No id is drawn twice.
IdsOK == \A r, s \in Drawing : req[r].id = req[s].id => r = s

PairsOK == \A p \in pairs : PairOK(p)

\* The inductive invariant, from which the properties below follow: rows,
\* copies, requests and pairs are all in order, and ids are drawn once.
FactorInv ==
    /\ TypeOK
    /\ RowsOK
    /\ CacheOK
    /\ RequestsOK
    /\ IdsOK
    /\ PairsOK

\* However syncs, logins and crashes interleave: if the second factor of a
\* user was active when a login came in, the login gets no tokens without a
\* code, for generate_request_id goes by the row read later.
ActiveFactorNotBypassed ==
    \A p \in pairs : p.copy.protected => p.code # Null

\* check_totp accepts only a code of a secret that was drawn for the user of
\* the request id and handed out: another user's factor opens nothing.
FactorIsPrivate ==
    \A p \in pairs : p.code # Null =>
        owner[p.code] = p.copy.user /\ p.code \in handed

\* A factor becomes active only for a user who has once sent a code of a
\* secret of his own, though activate_totp writes the flag in a transaction of
\* its own, when the secret may have been replaced.
ActivationProven == \A u \in Users : totp[u].active => u \in proven

\* check_totp makes tokens from a copy.  The copy was the truth when the login
\* came in or later, or the pair is minted less than request_ttl after the
\* request id was answered: no older secret, role or flag gets into a token.
StaleCopyBounded ==
    \A r \in Requests :
        req[r].pc = "store" =>
            LET p == req[r].pair
                u == p.copy.user IN
            /\ (p.copy.row # totp[u] \/ p.copy.roles # user_roles[u]) =>
                  p.copy.start <= changed[u]
            /\ p.minted < p.answered + RequestTtl
=============================================================================
