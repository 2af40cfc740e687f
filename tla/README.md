# A formal model of the authorization service

The repository is a Flask service (`src/flask-auth-api`) that registers users,
logs them in by password or through Google and Yandex, hands out JWT pairs,
revokes them, and manages roles and a TOTP second factor. This directory holds
TLA+ modules for the parts whose correctness depends on order, time and
interleaving, the TLC configurations that check them on small instances, and
TLAPS proofs of the main invariants for every instance.

Paths below are relative to `src/flask-auth-api/src` unless they start with
`src/`.

## 1. The system

One gunicorn worker with gevent greenlets serves the API. `gevent.monkey` and
`psycogreen` are patched in (`wsgi_app.py`, `pywsgi.py`), so that **every call
to Redis, Postgres or RabbitMQ is a point where other requests run**; nothing
between two such calls is interrupted. There is no lock, no Redis transaction
except in the rate limiter, and one Postgres transaction per repository call.

| Component | State it keeps | Operations | What makes it hard | What makes it correct |
|---|---|---|---|---|
| Sessions: `services/users.py`, `services/request.py`, `utils/tokens.py`, `utils/view_decorators.py`, `db/cache.py` | Redis db 3 `access_cache` (user -> times of revocation), Redis db 4 `refresh_cache` (refresh jti -> user), the tokens clients hold | login, refresh, logout, logout of all devices, the checks in front of every view | read-modify-write over two Redis calls, checks made long before they matter, time of issue recovered from `exp`, expiry of the records | a revoked token stays refused, others are left alone, the admin claim is never gained, nothing outlives the record that refuses it |
| Roles of users: `services/users.py`, `repository/repository.py` | Postgres `user_roles`; roles are copied into access tokens | add, remove | tokens are revoked before the rows change; concurrent updates | an accepted token carries the current roles |
| Social accounts: `services/users.py` | Postgres `users`, `social_account`; one random login per process | first login, later login, deletion | four queries per first login, read-back by login, dropped errors | an account leads to one user and a user to one account |
| Rate limit: `utils/rate_limit.py`, `utils/decorators.py` | Redis db 5, a counter per address and minute | count and decide | keys reused every hour, retries after lost answers | a fixed window counter |
| Second factor: `services/request.py`, `api/v1/request.py` | `users.totp_*`, Redis db 5 `request_cache`, a snapshot of the user per login | new secret, activate, check | snapshot older than the row, secret replaced while active | tokens need a code; only a confirmed secret is active |
| Role administration: `services/roles.py`, `api/v1/roles.py` | Postgres `roles`, `user_roles` | create, update, delete, assign | one commit per role; deletion and assignment meet | no assignment outlives its role, a deleted role stays deleted |
| Registration: `api/v1/users.py`, `services/users.py`, `db/rabbit.py`, `utils/bitly.py` | `users`, the queue of events | register, change a user | a row committed before its event, and read back by login | the event is for the row, and a user without one is accounted for |
| Repository: `repository/repository.py`, `utils/decorators.py`, `db/db.py` | the pool of connections | CRUD with backoff, which gives up after hours and by accident | commits whose answer is lost, retries | an object becomes one row; answers say what was committed |
| Superuser command: `commands/superuser.py` | `users` | create, reset a password | an operator types between the check and the change | it makes no second row |
| E-mail verification: `api/v1/users.py` | `users.email_verified` | set the flag | - | - |
| History, role check | read-only queries | - | - | - |
| OAuth clients, schemas, wiring, tracing, migrations | - | - | - | - |

Interactions: every view except registration, both logins, the check of a
second factor and the check of roles passes `jwt_verification` (or
`jwt_required`) and then `revoked_token_check`, which reads `access_cache`. The
role, social and logout views write `access_cache` through
`revoke_access_token`. Both logins and the second factor end in the issue of a
pair and a write to `refresh_cache`. The rate limiter only guards registration.

## 2. Modules

| Module | Models | Instances |
|---|---|---|
| `Sessions` | issue, checks, refresh, revocation, roles of users | `MCSessions` |
| `SessionsProofs` | theorems on `Sessions` | - |
| `SerialProofs` | theorems on `Sessions` when requests come one at a time | - |
| `SocialAccounts` | logins through a provider | `MCSocialAccounts` |
| `SocialAccountsProofs` | theorems on `SocialAccounts` | - |
| `FixedWindow` | what a limiter with fixed windows promises (abstract) | - |
| `RateLimit` | the limiter, which implements `FixedWindow` | `MCRateLimit` |
| `RateLimitProofs` | theorems on `RateLimit`, and that it implements `FixedWindow` | - |
| `SecondFactor` | the two steps of a login, secrets and their activation | `MCSecondFactor` |
| `SecondFactorProofs` | theorems on `SecondFactor` | - |
| `Repository` | calls of `Repositiry`, their failures and retries | - |
| `Registration` | `users` and the queue, extends `Repository` | - |
| `RoleAdmin` | `roles` and `user_roles`, extends `Repository` | - |
| `Backend` | `Registration` and `RoleAdmin` on one database | itself |
| `SilentPeers` | `Backend` with calls that never return, and the fairness of those that do | itself |
| `BackendProofs` | theorems on `Backend`: types, rows and answers | - |
| `RecordsProofs` | theorems on `Backend`: users, their events, ids of roles | - |

Operators whose comment begins with *Deviation* are wrong variants of the
definition that follows them, each a slip a programmer could make. They are in
no specification; put in the place of the definition, each one breaks a
property, which shows that the property depends on the code.

### Sessions

`now` is the clock in ticks, `Second` ticks to a second: `exp` claims are
truncated to seconds (`Floor`), the `time()` of a revocation is not, and
comparing the two is one of the hazards. `issued` holds every token ever handed
out, since clients keep them as long as they like. `access_cache` and
`refresh_cache` are the Redis tables with the expiry of each entry;
`user_roles` is the Postgres table. `req` maps a greenlet to the request it
serves: its label says which call to Redis or Postgres comes next, and the other
fields are the local variables that live across calls.

| Endpoint | Steps |
|---|---|
| `POST /login` | `Login`, `GetUserRoles`, `MintToken`, `StoreRefreshToken` |
| `GET /refresh/<user>` | `Receive`, `RejectRevoked` or `PassRevoked`, `CheckRefresh`, `GetUserRoles`, `MintToken`, `StoreRefreshToken` |
| `GET /logout/<user>` | `Receive`, `RejectRevoked` or `PassRevoked`, `RevokeGet`, `RevokeSet` |
| `POST`, `DELETE /roles/user/<user>` | the same, then `ReadRoles` and `AddUserRoles` or `RemoveUserRoles` |

`Crash` loses all requests in progress; Redis and Postgres keep their contents.
Requests that `JwtVerification` turns away change nothing and are left out.
Wrong passwords and the login history are left out as well, and a login with a
second factor is the subject of `SecondFactor`.

`VerifyTokenType` stands for a behaviour of the library.
`verify_jwt_in_request()` of Flask-JWT-Extended 4.4.0, which `requirements.txt`
pins, turns refresh tokens away (TRUE): **the program as pinned refreshes nothing**,
while `src/flask-auth-api/tests/functional/src/test_users.py:57` refreshes and
expects 200. With FALSE, refresh tokens pass this check and the rest of
`RefreshView` can be reached, as its authors meant it to be. FALSE only adds
behaviours: `SessionsAdmin` and `SessionsSerial` set it, so that what they show of
the other endpoints holds for the pinned version too, and what they show of
refreshes is about `RefreshView` behind a library that lets it be reached.
`SessionsClock` and the runs that report a disagreement set TRUE and need no
refresh. The theorems hold for both settings.

### SocialAccounts

`generated` is the default of `UserRandomFields.login`, computed once when the
class is defined; `Restart` computes it anew and loses the requests in progress.
`login` and `social_account` are the tables, with their unique constraints in
`Taken` and `Linked`. `sessions` records which social account was answered with
tokens of which user. `ChangeLogin` is `PUT /users/<user>`. A first login is
`LoginViaSocialProvider`, `CreateUser` (up to three times), `FetchUser`,
`CreateSocialAccount`, `Answer`; a later one `LoginViaSocialProvider`, `GetUser`,
`Answer`; a deletion `RevokeBeforeDelete`, `DeleteSocialAccount`.

### RateLimit and FixedWindow

A call reads the clock (`ReadClock`), and then executes INCR and EXPIRE as one
transaction. The transaction may fail before it is executed (`CountFails`) or
after it (`CountLost`); either way `backoff` starts over, in the second case
with the call counted twice. `WindowSpec` maps the counter of the current minute
to the abstract counter: keys reused after an hour, lifetimes and retries do not
show.

`admitted` is history: for each address and key, how many calls had been let
through before each point in time. The properties compare two points that are a
minute apart at most. `KeyLimit` says that one key lets no more than
`requests_limit` calls through between them, and holds for any delay between
reading the clock and counting. `TwiceTheLimit` adds that only two keys do so at
all, which is where twice the limit comes from.

That second part, and `WindowSpec`, need `MaxLag` = 0, which the run and the
theorems about them assume: `MaxLag` bounds the ticks between reading the clock
and counting. This is an assumption, not something the code enforces. A call
that waits for Redis counts for a minute that may be over: the first calls of a
minute may then meet a key whose lifetime was set early, and calls that were held
up under a third key may get through in the same span. With a lag as long as a
minute, TLC finds three keys in a span.

### SecondFactor

`totp` is the three columns of `users`; `request_cache` keeps, per request id,
the copy of the user that the first step of a login has read, for `RequestTtl`.
A code stands for the secret it was computed from, and clients send codes of any
secret that has been handed out. `access_cache` is cut down to the key `"all"`,
since only revocations of all tokens matter here. The clock stops after
`RequestTtl`, long before tokens expire.

| Endpoint | Steps |
|---|---|
| `POST /login` | `Login`, `GetUser`, `GetUserRoles`, then `PutUserDataToCache` with an active factor, else `StoreRefreshToken` |
| `POST /totp/check/<id>` | `TotpCheck`, `CheckTotp`, `StoreRefreshToken` |
| `GET /totp/sync` | `TotpSyncGet`, `UpdateUserSecret`, `HandOut` |
| `POST /totp/sync` | `TotpSyncPost`, `VerifyCode`, `UpdateUserTotpStatus` |
| logout of all devices, change of roles | `Revoke`, `RevokeSet`, and `UpdateRoles` for the latter |

The variables `owner`, `handed`, `proven`, `answered` and `changed` are
history: they record who a secret was drawn for, what clients have seen, and
when. A request for `/totp/sync` passes the check of its token as it arrives.
`PutUserDataToCache`, `UpdateUserSecret`, `UpdateUserTotpStatus` and `RevokeSet` may
repeat themselves: that is `backoff` after a lost answer. Each repetition of the
first starts `RequestTtl` anew, and one of the second may put a secret back that
another request has replaced meanwhile. Left out are calls that `backoff` gives up
after hours, when every copy has long expired.

### Repository, Registration, RoleAdmin and Backend

`Repository` has what the methods of `Repositiry` have in common. `req` maps a
greenlet, or a superuser command in a process of its own, to the request it
serves; each label is one transaction. A call may fail before its commit
(`CallFails`) or after it (`AnswerLost`, part of each writing action); either way
`Retry` runs the method from its start, for at most `Delays` times. `made` and
`lost` record which request committed which row and was not told.

A retried `create_obj_in_db` inserts the same object, and the object keeps the
uuid that its first flush has given it (`ObjectId`): the model says so because
`rollback` makes a persistent object transient again without clearing its
attributes. So the retry of a commit that went through meets its own row.

| Request | Steps |
|---|---|
| `POST /users/register` | `Register`, `CreateUser`, `FetchUser`, `VerificationLink`, `Publish` |
| `PUT /users/<user>` | `ChangeUser`, `GetUser`, `UpdateUser` |
| `flask superuser create`, `reset-password` | `Command`, `LookUp`, then `CreateSuperuser` or `ResetPassword` |
| `POST /roles` | `CreateRoles`, then `CreateRole` for each role |
| `PUT /roles/<role>` | `ModifyRole`, `UpdateRole` |
| `DELETE /roles/<role>` | `ModifyRole`, `LoadRole`, `DeleteRole` |
| `POST`, `DELETE /roles/user/<user>` | `ModifyUser`, `LoadRows`, then `AddUserRoles` or `RemoveUserRoles` |

Methods of two labels run several statements at READ COMMITTED: what the first
ones have read may be out of date when the last one is flushed, and the keys of
the tables decide then (`Insertable`, `Orphans`, `UpdateViolates`). Methods of
one label run one statement. `LoadRows` may answer 404 or 500 for a body that names
both a missing role and one the user does not have: the order of the ids decides,
and the model keeps the set only. `Backend` adds the death of the worker, which
spares commands, and puts both parts on one database.

In `Backend` every call may fail, but whether it returns at all is left open.
`SilentPeers` adds `silent`, the greenlets whose call never returns: the engine
(`db/db.py:13`) and the post to bitly (`utils/bitly.py:19`) are given no timeout,
and `FallSilent` may happen to any call. A greenlet leaves `silent` only when the
worker dies. Safety is not affected: a silent greenlet is one that stops, as any
may do in `Backend`.

## 3. Runs

| Run | Properties | Instance | Shows |
|---|---|---|---|
| `SessionsClock` | `TypeOK`, `SessionInv`, `OverRevocationBounded`, `ClockNeverReadmits` | one user, two greenlets, two pairs, access 1 s, refresh 2 s, 2 ticks to a second, 7 instants | every order of Redis calls of logins and logouts of all devices, over the lifetime of every token and record |
| `SessionsAdmin` | `SessionInv`, `AdminClaimGenuine`, `RevocationAuthorized` | user and superuser, two greenlets, two pairs, one role, one instant | all endpoints but the single logout, the superuser in other users' names |
| `SessionsSerial` | `SerialInv`, `LogoutAllEndsSessions`, `TokenRolesCurrent`, `EndedStaysEnded`, `LogoutSparesOthers` | one superuser, one greenlet, two pairs, a role with a row and one without, lifetimes of 1 and 2 ticks, 4 instants | what the functional tests say, for every sequence of calls |
| `LogoutAfterAll` | `LogoutRevokesPresented` (violated) | one user, one greenlet | section 5, 1 |
| `LogoutRace` | `EndedStaysEnded` (violated) | one user, two greenlets | section 5, 2 |
| `RoleRace` | `TokenRolesCurrent` (violated) | user and superuser, two greenlets | section 5, 3 |
| `SocialAccounts` | `TypeOK`, `AccountInv`, `UsersNotShared`, `SessionsNotShared` | two accounts, three users, two greenlets, one restart, two chosen logins | first logins, renamings, deletions and restarts in every order |
| `SocialFirstLogin` | `FirstLoginServed` (violated) | the same, one greenlet | section 5, 4 |
| `RateLimit` | `TypeOK`, `RateInv`, `TwiceTheLimit`, `WindowSpec` | one address, two greenlets, limit 1, minutes of 2 ticks, an "hour" of 3 minutes, 8 instants, counts up to 2 | each key is reused after it has expired, and every failure of a count; any span of a minute is compared |
| `SecondFactor` | `FactorInv`, `ActiveFactorNotBypassed`, `FactorIsPrivate`, `ActivationProven`, `StaleCopyBounded` | two users, two greenlets, two secrets, two request ids, three requests, one role, `RequestTtl` 2, 3 instants | two-step logins against new secrets, activations, changes of roles, logouts, lost answers and crashes, in every order |
| `Backend` | `BackendInv`, `RecordsInv`, `CreatedOnce`, `AnswersTruthful`, `EventForNewUser`, `SilentUserExplained`, `NoDanglingRole`, `DeletedRoleStaysDeleted` | two greenlets, three requests of up to three rows, two logins, two names of roles, one member, two retries; the database empty or with a role that has been assigned | what rows, answers and events say of each other when calls fail, are repeated and meet |
| `SilentPeers` | `EveryRequestAnswered` | the same with two requests and three retries | no request waits for ever but for a peer that never answers |

Properties that only make sense without interleaving (`SessionsSerial`) are
checked with one greenlet, since the code breaks some of them with two: the
runs named *Race* check two of them with a second greenlet. Time passes and
the worker dies between any two calls of the one request all the same.

Why the bounds are enough. The properties of `Sessions` speak of one user and at
most two tokens; a third greenlet only adds a second writer of the same record,
and a lost update already needs no more than two. A revocation record lives
`RefreshTtl`, so that `MaxNow` above it lets tokens and records expire in every
order; the lifetimes keep the only relation that matters, `AccessTtl + Second <=
RefreshTtl`. The properties of `SocialAccounts` compare two accounts and two
sessions. Users, secrets and tokens never run into a bound that the code lacks
other than by stopping, and all bounds are parameters: `Ids`, `MaxNow`, `Ops`,
`UserIds`, `RandomLogins`, `MaxCount`, `MaxLag`, `MaxRequests`, `MaxRows`,
`MaxBatch`, `Delays`, `Secrets`, `RequestIds`.

`SecondFactor` speaks of one login and what one or two other requests do to its
user meanwhile; three requests, one more than can be in progress, let a login, a
new secret and its activation, or a login, its second step and a logout follow
and overlap each other. The second user is there to have his codes tried. In
`Backend` three requests are a creation, one that changes or deletes what was
created, and a third that takes its login, name or place; two are in progress at
once, which is what a race needs. Postgres fails in the same way at every try, so
that two retries (`Delays` = 2, where the code has 1024) show a call that fails, is
repeated, fails or loses its answer again, and gives up. Requests about users
and about roles share no row, and a behaviour has requests of one kind only
(`OnlyUsers`, `OnlyRoles`), which keeps the instance small.

`CHECK_DEADLOCK FALSE` is set everywhere: the clock stops at `MaxNow` and
identifiers run out, which ends behaviours that would go on.

Fairness. Only `SilentPeers` assumes any: `FairSilentSpec` asks of each greenlet
that its call returns unless it is in `silent` (`WF_silentVars` of `Returns`, per
greenlet). Which calls are silent is not restricted: all may be, at any time. That
a call which does return is served is what gevent's loop does: a greenlet whose
answer, error or delay has come is resumed, and the loop is fair among those that
are ready. Nothing is assumed about how a call turns out: `Fails` is a step like
any other, so that a database which breaks every connection and never comes back is
a fair behaviour. Commands are left out, since an operator need not type.

`EveryRequestAnswered` therefore says: a request is answered, or waits for one call
that never returns. It does not say that every request is answered, which is false
as long as bitly and Postgres may be silent. What it rules out is that `backoff`
repeats a call for ever, and that a request waits for the silent call of another.
The first holds for one reason only: `expo` computes `0.1 * 2 ** n` before it cuts
it down to the border, and at `n` = 1024 the power no longer fits a float. The
`OverflowError` leaves `backoff` and the request is answered 500, after some 10 183
seconds. The deviation `RetryForEver`, which is what the docstring of `expo`
describes, breaks the property.

## 4. Proofs

`SessionsProofs` shows that `SessionInv` is inductive, for every choice of the
constants that satisfies `TimeAssumption` and `SetAssumption`. `TypeOK` and the
properties are not inductive alone:

- `RequestVerified`: a greenlet past the checks has a bearer token from `issued`
  whose subject is the user or who is an admin. Without it, `RevokeSet` and
  `StoreRefreshToken` could do anything for anybody.
- `RefreshCacheOwned`: the owner stored with a refresh token is its subject. It
  makes `CheckRefresh` turn an admin away who refreshes in another user's path,
  and so keeps the admin claim from travelling to that user.
- `ExpTellsIssue`: `exp` is the truncated time of issue and the lifetime.
- `MarksPast`: no revocation time is in the future, neither in the record nor in
  a greenlet's copy of it, and a record outlives each of its times by
  `RefreshTtl`.

From it follow, as theorems of `Spec`: `TypeCorrect`, `AdminClaimsGenuine`,
`OverRevocationIsBounded` (with `FloorBounds`: truncation costs less than a
second), `RevocationsAuthorized`, and `ClockNeverReadmitsHolds` (a record that
expires was written `RefreshTtl` ago, and the access token it refuses was issued
no later than a second after that, so it has expired too).

`SerialProofs` proves what `SessionsSerial` checks. Its theorems have the form
`Spec /\ []OneAtATime => ...`: in behaviours in which no request arrives before
the last one is answered, and with any number of greenlets to do so
(`OneGreenlet`: a worker with one of them has no other behaviours). The
hypothesis cannot be dropped, as the runs `LogoutRace` and `RoleRace` show. It
removes interleaving only: the clock goes on between two calls of a request, entries in Redis expire between them, and the worker may die.
`SerialInv` is inductive on top of `SessionInv`:

- `PairsOK`: tokens have their ids to themselves, the login of each is among
  them, none was minted in the future, and no owner in `refresh_cache` outlives
  now plus `RefreshTtl`.
- `TokensOK`: a refresh token that is older than a revocation was stored before
  it, and leaves `refresh_cache` no later than the record leaves `access_cache`;
  a token minted after the last revocation of all tokens descends from a login
  after it; an access token with other roles than its user's is no younger than
  such a revocation, or has expired.
- `ReadsCurrent`: what a request has read from either table is still so, or was a
  record that has expired since; the time it will write is the latest there is;
  and by the time roles change, all tokens of the user have been revoked.

From it follow `LogoutAllEnds`, `RolesCurrent`, `EndedForGood` and `LogoutSpares`.
The step that needs most care is the expiry of a record (`ExpiredByThen`,
`TickEnded`): that the access tokens it refused have expired rests on
`AccessTtl + Second <= RefreshTtl`, and that the refresh tokens have left
`refresh_cache` on the order of the two writes. `LogoutSpares` is the one that
needs the key `"all"` to be no jti, which is part of `SetAssumption` (a jti is a
uuid).

`SocialAccountsProofs` shows that `AccountInv` is inductive, and from it
`TypeCorrect`, `UsersAreNotShared` and `SessionsAreNotShared`. The argument: an account *claims*
a user by a link, a session, or a request on its way to one. Only `FetchUser`
creates claims on new users, and it reads the user back by a login which all
first logins of a process share. That is safe because the login is unique, so
that the row found is the one just created, and at most one request is between
creating and reading (`NewUserUnclaimed`); a renamed user is claimed already, and
his new login is never the random one (`LoginAssumption`).

`RateLimitProofs` shows that `RateInv` is inductive for every limit, length of the
minute and of the hour, and every lag (`RateAssumption`). `Covered` is its heart:
the counter of a key covers what the key has let through since it was last dead,
that is, in the minute before the count that set its lifetime; after that count
nothing got through. From this alone follows `KeysLimited`, for any lag. With
`MaxLag` = 0 a key also lets calls through in its own minute only (`Punctual`), a
span of a minute meets two minutes, and these have two keys: `AtMostTwice`. For
the refinement (`ImplementsFixedWindow`) the proof goes through the steps: a tick
within a minute changes no live counter of that minute, a tick into the next one
finds its key dead, since an hour has at least two minutes, and everything else
is a call, a count or a decision of `FixedWindow`, or a stutter.

`SecondFactorProofs` shows that `FactorInv` is inductive, for all constants that
satisfy `FactorAssumption`, and from it the other four properties of the run. Its parts:

- `RowsOK`: a row with an active factor is in sync, has a secret, and belongs to a
  user in `proven`; every secret in a row was drawn for its user. Only
  `UpdateUserTotpStatus` switches a factor on, and `RequestOK` says that by then
  the user has proven a secret and the row has one, since no step takes a secret
  away.
- `CacheOK` and `RequestOK`: copies in Redis and in greenlets are in order
  (`CopyOK`), were true when their login came in or the row has changed since
  (`RowCurrent`, `RolesCurrent`), and expire `RequestTtl` after their request id
  was answered. A copy of a protected login has an active factor, because nothing
  switches a factor off (`Grows`).
- `IdsOK`: no two logins draw one request id, so that no copy is overwritten by
  the copy of another login.
- `PairsOK`: what these say about a pair when it is sent.

`Grows` states what every step leaves as it is or lets grow; `CopyStable`,
`CurrentStable`, `PairStable` and `RequestStable` derive from it, once for all
actions, that what is in order stays so. Each action then has to account only for
the request it changes.

`BackendProofs` shows that `BackendInv` is inductive, for all constants that
satisfy `RepositoryAssumption` and `BackendAssumption`: any number of greenlets,
requests, rows and delays. It is `TypeOK`, three of the properties of the run, and
what these need to hold after the next step:

- `NumbersOK`: requests are numbered as they come, no two in progress share a
  number, and none of these has an answer.
- `RequestOK`: at each label the fields hold what its call is about; a retry
  brings the request back to the first label of its method and keeps them.
- `ProgressOK`: the rows that a request has committed are those before the one it
  is at, or also this one, if it was not told (`Creating`). In the second case the
  request still holds the uuid of the row, which is why its retry adds nothing to
  `made` that is not there: without the uuid, `CreatedOnce` would be lost.

`Adds` and `Stays` say what a step of one request may do to the rows and to
itself, and `ServeStep` derives from them that all the rest is in order; `NextInv`
then needs one lemma per action, and `PlainRetryStays` serves every call that
fails. From `BackendInv` follow, as theorems of `Spec`, `RowsCreatedOnce`,
`AnswersAreTruthful` and `NoDanglingRoles`. For the last one, `Insertable`,
`Orphans` and `UpdateViolates`, the keys of the two tables, are what carries the
argument; what the methods have loaded before plays no part in it.

`RecordsProofs` adds `RecordsInv`, inductive on top of `BackendInv`: ids and
logins are unique; every user was committed by the request in `by`, and is a
superuser, has an event, or belongs to a request that is in progress, died, was
answered 500 or lost an answer (`Explained`); every event was sent by the request
that committed its user. `RegistrationOK` carries this through a registration:
between the commit and the event the request can find the row it has created, by
its login as long as nobody has changed it, and `password`, which every change
overwrites, tells whether somebody has. A user keeps `by` for ever, while
`password` and login may go; that is why the invariant has to speak of all three.
From it follow `EventsForNewUsers`, `SilentUsersExplained` and, as an action
property, `DeletedRolesStayDeleted`: only `CreateRole` and `UpdateRole` define an
id, and the first one only an id that `ObjectId` has kept from a commit whose
answer was lost. The proofs need that a row is not None
(`RegistrationAssumption`).

Every invariant and action property of the passing runs is thus a theorem as well,
for all values of the constants; those of `SessionsSerial` and two of `RateLimit`
under the hypotheses named above. Only model-checked is `EveryRequestAnswered`,
because it is a liveness property. Not proved for every lag is what `MaxLag` = 0 makes
true (section 2, `RateLimit`).

## 5. Where the code and its documents disagree

1. `LogoutAfterAll`: `check_revoked_token` (`utils/view_decorators.py:49`) looks at the key `"all"`
   only, once a record has it. For `refresh_ttl` after a logout of all devices, a
   logout of one device revokes nothing.
2. `LogoutRace`: `revoke_access_token` (`services/users.py:91`) reads, changes and writes the record
   of a user. Of two concurrent logouts one is lost and its token works again.
3. `RoleRace`: roles are changed after the tokens are revoked (`services/users.py:200`), the opposite
   of what `src/Docs/2_roles/5_add_user_role.md` draws. A login in between gets the old
   roles and keeps them for `access_ttl`.
4. `SocialFirstLogin`: the random login is drawn once per process
   (`services/users.py:35`), so that the second new social user is answered 404, after three
   attempts with the same login.

Seen while reading, and not the subject of a run:

- With the pinned library no refresh gets past `jwt_verification`
  (`utils/view_decorators.py:21`), while `test_users.py:57` expects 200. If refresh
  tokens were let through, a refresh that has passed its checks would be answered
  with a fresh pair although all devices are logged out in the meantime
  (`api/v1/users.py:203`).
- A token minted in the same second as, but after, a revocation is refused
  (`utils/view_decorators.py:50`; the functional tests sleep for a second).
  `OverRevocationBounded` says that it is never more than that second.
- A refresh leaves the old pair valid, and a logout names one pair: earlier pairs
  of the device stay usable (`api/v1/users.py:268`).
- Calls are counted per minute of the clock, so that twice the limit may pass
  within a minute (`utils/rate_limit.py:44`); `TwiceTheLimit` says that it is never more.
- `_create_social_account` drops the result of linking (`services/users.py:267`). If the first user
  is renamed while a second first login of the same account is being served, that
  login is answered for a user without a social account.
- `log_login_attempt` is passed the provider as the request id
  (`services/users.py:234`, `268`), and `update_login_attempt` compares a timestamp with a date
  (`services/request.py:99`): a failed second factor is never recorded.
- `CheckUserRole` answers a revoked token with status 200, the status being put
  into the body (`api/v1/roles.py:325`).
- `remove_many_to_many_row` lets `list.remove` raise for a role the user does not
  have (`repository/repository.py:141`), which is answered with 500.

- The docstrings of `backoff` and `expo` (`utils/decorators.py:9`) know no end of
  the sequence; `expo` fails at its 1025th delay (section 3, fairness).
- `requests.post` is given no timeout (`utils/bitly.py:19`): while bitly is silent, a
  registration is not answered, its user is committed and its event is not sent.
  The engine is given none either (`db/db.py:13`).
- Two first logins with one social account may both create a user; one of them is
  left without an account and with a session (`services/users.py:220`).
- `delete_social_account` revokes all tokens of the user before it looks for the
  account, and so also when it answers 404 (`services/users.py:239`).
- After a lost commit the retry of `create_obj_in_db` conflicts with its own row:
  the client is answered 409 for a row that was created, and a new user gets no
  event (`repository/repository.py:27`). `AnswersTruthful` and
  `SilentUserExplained` exempt just these requests. In the same way a deletion
  is answered 404.
- If a role is created with its answer lost and then deleted by somebody else, the
  retry creates it again, with the same id (`DeletedRoleStaysDeleted`).
- `create_user` reads the new row back by login (`services/users.py:127`). If the
  user is renamed in between, the view fails with 500, or the event is for
  whoever has taken the login (`EventForNewUser`).
- `update_role` of an id without a row is answered 200
  (`services/roles.py:25`), where `src/Docs/2_roles/3_edit_role.md` draws 404; and
  since `RoleSchema` accepts an id, an update may move a role to another id.
- `delete_object_by_field` and the many-to-many methods do not catch
  `IntegrityError` or `StaleDataError`: requests that meet are answered 500.
- `superuser create` ends in the same way whether the row was inserted or not
  (`commands/superuser.py:63`, `76`), and `reset-password` updates by login after the
  operator has typed, when the login may be nobody's or somebody else's
  (`commands/superuser.py:104`).
- A login that waits for its code survives a logout of all devices and a change
  of roles: it is traded for a pair with the old roles, up to `request_ttl` later
  (`services/request.py:80`). `StaleCopyBounded` says that it is never later. The request id is not used up and may be traded
  again within that time.
- `GET /totp/sync` replaces the secret of an active factor before the new one is
  confirmed (`services/request.py:66`), so that a user who loses the answer is locked
  out; and an activation that races with it may activate a secret that nobody has
  confirmed (`services/request.py:77`). `ActivationProven` says what is left: the
  user has confirmed some secret of his own.
- `totp_sync` is set together with `totp_active` and never reset, so that
  `TotpNotSyncError` is never raised (`RowsOK`).
- Deleting or renaming a role revokes no token that carries its name
  (`services/roles.py:22`).

## 6. Not modelled

E-mail verification sets one flag, and its deadline comes with the query: there
is no state between its steps. History and the check of roles read state and
change none. OAuth clients, schemas, logging, tracing, nginx, the container
wiring and the migrations have no behaviour of their own that a property could be
about. The pool of connections is not modelled: `get_user_roles` runs a lazy query
on a session that was closed, and so holds a connection until the next call of
its greenlet; how many requests may wait like that is a matter of gunicorn's
configuration.

## 7. Plan

Done, in this order of importance: `Sessions`, its proofs, `SocialAccounts`, its
proofs, `RateLimit` with `FixedWindow`, `SecondFactor`, its proofs, `Repository`
with `Registration`, `RoleAdmin` and `Backend`, proofs of `Backend`, of
`RateLimit`, and of the serial properties of `Sessions`, `SilentPeers`.

Next:

1. Abstract specifications: what `access_cache` promises (a set of revoked
   tokens), implemented by `Sessions` when requests come one at a time.
2. How much of the serial properties is left with two greenlets, stated as
   invariants that name the requests in progress.
3. The pool of connections and the scoped session.
