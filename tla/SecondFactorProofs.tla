------------------------- MODULE SecondFactorProofs -------------------------
(***************************************************************************)
(* The inductive invariant of SecondFactor, and the properties that follow *)
(* from it, for every number of users, greenlets, secrets and request ids. *)
(***************************************************************************)
EXTENDS SecondFactor, TLAPS

\* What every step leaves as it is or lets grow.
Grows ==
    /\ now <= now'
    /\ \A s \in Secrets : owner[s] # Null => owner'[s] = owner[s]
    /\ handed \subseteq handed'
    /\ proven \subseteq proven'
    /\ \A u \in Users : totp[u].active => totp'[u].active
    /\ \A u \in Users : totp[u].secret # Null => totp'[u].secret # Null
    /\ \A u \in Users :
          \/ /\ totp'[u] = totp[u]
             /\ user_roles'[u] = user_roles[u]
             /\ changed'[u] = changed[u]
          \/ changed'[u] = now
    /\ \A i \in RequestIds : answered[i] # Never => answered'[i] = answered[i]

Draws(q) == q.pc \in {"get_roles", "put"}

\* A copy in order stays in order.
LEMMA CopyStable ==
    ASSUME TypeOK, TypeOK', Grows, NEW c \in Copy, CopyOK(c)
    PROVE  CopyOK(c)'
<1>1. c.user \in Users /\ c.row \in Row /\ c.start \in Nat
  BY DEF Copy
<1>2. c.row.secret # Null => owner'[c.row.secret] = c.user
  BY <1>1, FactorAssumption DEF CopyOK, Grows, Row
<1>3. c.start <= now'
  BY <1>1 DEF CopyOK, Grows, TypeOK
<1> QED BY <1>2, <1>3 DEF CopyOK

\* A copy that was true since its login came in stays so: every change of the
\* row or the roles is stamped with the clock.
LEMMA CurrentStable ==
    ASSUME TypeOK, TypeOK', Grows, NEW c \in Copy, CopyOK(c)
    PROVE  /\ RowCurrent(c) => RowCurrent(c)'
           /\ RolesCurrent(c) => RolesCurrent(c)'
<1>1. c.user \in Users /\ c.start \in Nat /\ c.start <= now
  BY DEF Copy, CopyOK
<1> QED BY <1>1 DEF Grows, RowCurrent, RolesCurrent

\* A pair in order stays in order.
LEMMA PairStable ==
    ASSUME TypeOK, TypeOK', Grows, NEW p \in Pair, PairOK(p)
    PROVE  PairOK(p)'
<1>1. p.copy \in Copy /\ p.copy.user \in Users /\ p.code \in Secrets \cup {Null}
  BY DEF Pair, Copy
<1>2. CopyOK(p.copy)'
  BY <1>1, CopyStable DEF PairOK
<1>3. p.code # Null => owner'[p.code] = p.copy.user /\ p.code \in handed'
  BY <1>1, FactorAssumption DEF PairOK, Grows
<1> QED BY <1>2, <1>3 DEF PairOK

\* So does a request, as long as the id it has drawn is not sent.
LEMMA RequestStable ==
    ASSUME TypeOK, TypeOK', Grows, NEW q \in Request, RequestOK(q),
           Draws(q) => answered'[q.id] = Never
    PROVE  RequestOK(q)'
<1>1. q.pc = "get_user" =>
        q.at <= now' /\ (q.protected => totp'[q.user].active)
  BY DEF RequestOK, Grows, TypeOK, Request
<1>2. Draws(q) => CopyOK(q.copy)' /\ RowCurrent(q.copy)'
  BY CopyStable, CurrentStable DEF RequestOK, Draws
<1>3. q.pc = "put" => RolesCurrent(q.copy)'
  BY CurrentStable DEF RequestOK, Draws
<1>4. q.pc = "check" => answered'[q.id] # Never /\ q.code \in handed'
  BY DEF RequestOK, Grows
<1>5. q.pc = "store" =>
        PairOK(q.pair)' /\ RowCurrent(q.pair.copy)' /\ RolesCurrent(q.pair.copy)'
  <2>1. q.pc = "store" => q.pair.copy \in Copy /\ CopyOK(q.pair.copy)
    BY DEF RequestOK, PairOK, Pair
  <2> QED BY <2>1, PairStable, CurrentStable DEF RequestOK
<1>6. q.pc \in {"update_secret", "hand_out"} => owner'[q.code] = q.user
  BY FactorAssumption DEF RequestOK, Grows
<1>7. q.pc = "verify" => q.code \in handed'
  BY DEF RequestOK, Grows
<1>8. q.pc = "activate" => q.user \in proven' /\ totp'[q.user].secret # Null
  BY DEF RequestOK, Grows
<1> QED BY <1>1, <1>2, <1>3, <1>4, <1>5, <1>6, <1>7, <1>8 DEF RequestOK, Draws

\* The cache stays in order while it is not written.
LEMMA CacheStable ==
    ASSUME TypeOK, TypeOK', Grows, CacheOK,
           UNCHANGED <<request_cache, answered>>
    PROVE  CacheOK'
<1> SUFFICES ASSUME NEW i \in RequestIds, request_cache[i] # Null
             PROVE  /\ CopyOK(request_cache[i].copy)'
                    /\ RowCurrent(request_cache[i].copy)'
                    /\ RolesCurrent(request_cache[i].copy)'
  BY DEF CacheOK
<1>1. request_cache[i].copy \in Copy
  BY DEF TypeOK
<1>2. request_cache[i].copy = request_cache'[i].copy
  OBVIOUS
<1> QED BY <1>1, <1>2, CopyStable, CurrentStable DEF CacheOK, CopyOK, RowCurrent, RolesCurrent

\* No id is sent but the one that the greenlet has drawn.
SendsOwn(r) ==
    \A i \in RequestIds :
        answered'[i] = answered[i] \/ (Draws(req[r]) /\ i = req[r].id)

\* The id that q has drawn was drawn by r before, or by nobody.
DrawsOwn(r, q) ==
    Draws(q) => \/ Draws(req[r]) /\ q.id = req[r].id
                \/ \A s \in Requests : req[s].id # q.id

NewPairsOK == \A p \in pairs' \ pairs : PairOK(p)

\* What is left to show of a step of one greenlet, of which q is left.
LEMMA StepOfOne ==
    ASSUME FactorInv, TypeOK', Grows, NEW r \in Requests, NEW q \in Request,
           req' = [req EXCEPT ![r] = q], RequestOK(q)',
           SendsOwn(r), DrawsOwn(r, q), NewPairsOK, RowsOK', CacheOK'
    PROVE  FactorInv'
<1>1. ASSUME NEW s \in Requests, NEW t, t = req'[s] PROVE RequestOK(t)'
  <2>1. CASE s = r BY <1>1, <2>1 DEF FactorInv, TypeOK
  <2>2. CASE s # r
    <3>1. t = req[s] /\ t \in Request
      BY <1>1, <2>2 DEF FactorInv, TypeOK
    <3>2. RequestOK(t)
      BY <3>1 DEF FactorInv, RequestsOK
    <3>3. Draws(t) => answered'[t.id] = Never
      BY <2>2, <3>1, <3>2 DEF FactorInv, RequestOK, Draws, Drawing, IdsOK, SendsOwn
    <3> QED BY <3>1, <3>2, <3>3, RequestStable DEF FactorInv
  <2> QED BY <2>1, <2>2
<1>2. RequestsOK'
  BY <1>1 DEF RequestsOK, RequestOK
<1>3. IdsOK'
  BY DEF FactorInv, TypeOK, IdsOK, Drawing, Draws, DrawsOwn
<1>4. ASSUME NEW p \in pairs' PROVE PairOK(p)'
  <2>1. p \in Pair
    BY DEF TypeOK
  <2>2. PairOK(p)
    BY DEF FactorInv, PairsOK, NewPairsOK
  <2> QED BY <2>1, <2>2, PairStable DEF FactorInv
<1>5. PairsOK'
  BY <1>4 DEF PairsOK
<1> QED BY <1>2, <1>3, <1>5 DEF FactorInv

LEMMA InitInv == Init => FactorInv
<1> SUFFICES ASSUME Init PROVE FactorInv
  OBVIOUS
<1>1. NoRequest \in Request
  BY DEF NoRequest, Request, Labels
<1>2. pairs \subseteq Pair
  <2> SUFFICES ASSUME NEW u \in Users
               PROVE  [copy |-> [user |-> u, row |-> [secret |-> Null,
                                   active |-> FALSE, sync |-> FALSE],
                                 roles |-> Roles, start |-> 0,
                                 protected |-> FALSE],
                       code |-> Null, answered |-> 0, minted |-> 0] \in Pair
    BY DEF Init
  <2>1. [secret |-> Null, active |-> FALSE, sync |-> FALSE] \in Row
    BY DEF Row
  <2> QED BY <2>1 DEF Pair, Copy
<1>3. TypeOK
  BY <1>1, <1>2, FactorAssumption DEF Init, TypeOK, Never
<1>4. RowsOK
  BY DEF Init, RowsOK
<1>5. CacheOK
  BY DEF Init, CacheOK
<1>6. RequestsOK
  BY DEF Init, RequestsOK, RequestOK, NoRequest
<1>7. IdsOK
  BY DEF Init, IdsOK, Drawing, NoRequest
<1>8. ASSUME NEW p \in pairs PROVE PairOK(p)
  <2>1. PICK u \in Users :
          p = [copy |-> [user |-> u, row |-> [secret |-> Null,
                          active |-> FALSE, sync |-> FALSE],
                         roles |-> Roles, start |-> 0, protected |-> FALSE],
               code |-> Null, answered |-> 0, minted |-> 0]
    BY DEF Init
  <2>2. CopyOK(p.copy)
    BY <2>1 DEF CopyOK, Init
  <2>3. ~p.copy.protected /\ p.code = Null /\ p.minted = 0 /\ p.answered = 0
    BY <2>1
  <2> QED BY <2>2, <2>3, FactorAssumption DEF PairOK
<1> QED BY <1>3, <1>4, <1>5, <1>6, <1>7, <1>8 DEF FactorInv, PairsOK

\* A request that arrives changes nothing but its greenlet.
LEMMA BeginInv ==
    ASSUME FactorInv, NEW r \in Requests, NEW q \in Request, Begin(r, q),
           ~Draws(q), RequestOK(q)
    PROVE  FactorInv'
<1>1. TypeOK'
  BY DEF FactorInv, TypeOK, Begin, database, cache, ghosts
<1>2. Grows
  BY DEF FactorInv, TypeOK, Begin, database, cache, ghosts, Grows
<1>3. RequestOK(q)'
  BY <1>1, <1>2, RequestStable DEF FactorInv, Draws
<1>4. RowsOK'
  BY DEF FactorInv, RowsOK, Begin, database, ghosts
<1>5. CacheOK'
  BY <1>1, <1>2, CacheStable DEF FactorInv, Begin, cache, ghosts
<1>6. SendsOwn(r) /\ DrawsOwn(r, q) /\ NewPairsOK
  BY DEF Begin, ghosts, SendsOwn, DrawsOwn, NewPairsOK
<1>7. req' = [req EXCEPT ![r] = q]
  BY DEF Begin
<1> QED BY <1>1, <1>2, <1>3, <1>4, <1>5, <1>6, <1>7, StepOfOne

LEMMA LoginInv ==
    ASSUME FactorInv, NEW r \in Requests, NEW u \in Users, Login(r, u)
    PROVE  FactorInv'
<1> DEFINE q == [NoRequest EXCEPT !.pc = "get_user", !.user = u, !.at = now,
                                  !.protected = totp[u].active]
<1>1. q \in Request
  BY DEF NoRequest, Request, Labels, FactorInv, TypeOK, Row
<1>2. ~Draws(q) /\ RequestOK(q)
  BY DEF NoRequest, Draws, RequestOK, FactorInv, TypeOK
<1> QED BY <1>1, <1>2, BeginInv DEF Login

LEMMA TotpCheckInv ==
    ASSUME FactorInv, NEW r \in Requests, NEW i \in RequestIds,
           NEW code \in handed, TotpCheck(r, i, code)
    PROVE  FactorInv'
<1> DEFINE q == [NoRequest EXCEPT !.pc = "check", !.id = i, !.code = code]
<1>1. q \in Request
  BY DEF NoRequest, Request, Labels, FactorInv, TypeOK
<1>2. ~Draws(q) /\ RequestOK(q)
  BY DEF NoRequest, Draws, RequestOK, TotpCheck
<1> QED BY <1>1, <1>2, BeginInv DEF TotpCheck

LEMMA TotpSyncPostInv ==
    ASSUME FactorInv, NEW r \in Requests, NEW u \in Users,
           NEW code \in handed, TotpSyncPost(r, u, code)
    PROVE  FactorInv'
<1> DEFINE q == [NoRequest EXCEPT !.pc = "verify", !.user = u, !.code = code]
<1>1. q \in Request
  BY DEF NoRequest, Request, Labels, FactorInv, TypeOK
<1>2. ~Draws(q) /\ RequestOK(q)
  BY DEF NoRequest, Draws, RequestOK
<1> QED BY <1>1, <1>2, BeginInv DEF TotpSyncPost

LEMMA RevokeInv ==
    ASSUME FactorInv, NEW r \in Requests, NEW u \in Users, Revoke(r, u)
    PROVE  FactorInv'
<1> DEFINE q == [NoRequest EXCEPT !.pc = "revoke", !.user = u, !.at = now]
<1>1. q \in Request
  BY DEF NoRequest, Request, Labels, FactorInv, TypeOK
<1>2. ~Draws(q) /\ RequestOK(q)
  BY DEF NoRequest, Draws, RequestOK
<1> QED BY <1>1, <1>2, BeginInv DEF Revoke

LEMMA GetUserInv ==
    ASSUME FactorInv, NEW r \in Requests, GetUser(r)
    PROVE  FactorInv'
<1>0. PICK i \in RequestIds \ UsedIds :
        req' = [req EXCEPT ![r].pc = "get_roles", ![r].id = i,
                  ![r].copy = [user |-> req[r].user, row |-> totp[req[r].user],
                               roles |-> {}, start |-> req[r].at,
                               protected |-> req[r].protected]]
  BY DEF GetUser
<1>1. PICK c, q :
        /\ c = [user |-> req[r].user, row |-> totp[req[r].user], roles |-> {},
                start |-> req[r].at, protected |-> req[r].protected]
        /\ q = [req[r] EXCEPT !.pc = "get_roles", !.id = i, !.copy = c]
        /\ req' = [req EXCEPT ![r] = q]
  BY <1>0 DEF FactorInv, TypeOK
<1>2. req[r].pc = "get_user" /\ UNCHANGED <<now, database, cache, started, ghosts, pairs>>
  BY DEF GetUser
<1>3. req[r] \in Request /\ req[r].user \in Users /\ RequestOK(req[r])
  BY <1>2 DEF FactorInv, TypeOK, RequestsOK, RequestOK
<1>4. c \in Copy
  BY <1>1, <1>3 DEF Copy, Request, FactorInv, TypeOK
<1>5. /\ q \in Request /\ q.pc = "get_roles" /\ q.id = i /\ q.copy = c
      /\ q.user = req[r].user
  BY <1>1, <1>3, <1>4 DEF Request, Labels
<1>6. TypeOK'
  BY <1>1, <1>2, <1>5 DEF FactorInv, TypeOK, database, cache, ghosts
<1>7. Grows
  BY <1>2 DEF FactorInv, TypeOK, database, cache, ghosts, Grows
<1>8. answered[i] = Never /\ \A s \in Requests : req[s].id # i
  BY DEF UsedIds, FactorInv, CacheOK
<1>9. CopyOK(c) /\ RowCurrent(c) /\ c.user = q.user
  BY <1>1, <1>2, <1>3, <1>5 DEF CopyOK, RowCurrent, RequestOK, FactorInv, RowsOK
<1>10. RequestOK(q)
  BY <1>3, <1>4, <1>5, <1>8, <1>9 DEF RequestOK
<1>11. RequestOK(q)'
  BY <1>2, <1>5, <1>6, <1>7, <1>8, <1>10, RequestStable DEF FactorInv, ghosts
<1>12. RowsOK' /\ CacheOK'
  BY <1>2, <1>6, <1>7, CacheStable DEF FactorInv, RowsOK, database, cache, ghosts
<1>13. SendsOwn(r) /\ DrawsOwn(r, q) /\ NewPairsOK
  BY <1>2, <1>5, <1>8 DEF ghosts, SendsOwn, DrawsOwn, NewPairsOK
<1> QED BY <1>1, <1>5, <1>6, <1>7, <1>11, <1>12, <1>13, StepOfOne

\* A greenlet without a request is in order, in every state.
LEMMA NoRequestOK ==
    /\ NoRequest \in Request /\ ~Draws(NoRequest)
    /\ RequestOK(NoRequest) /\ RequestOK(NoRequest)'
BY DEF NoRequest, Request, Labels, Draws, RequestOK

LEMMA GetUserRolesInv ==
    ASSUME FactorInv, NEW r \in Requests, GetUserRoles(r)
    PROVE  FactorInv'
<1>1. PICK c, q :
        /\ c = [req[r].copy EXCEPT !.roles = user_roles[req[r].user]]
        /\ q = IF c.row.active
               THEN [req[r] EXCEPT !.pc = "put", !.copy = c]
               ELSE [req[r] EXCEPT !.pc = "store", !.pair = Mint(c, Null, now)]
        /\ req' = [req EXCEPT ![r] = q]
  BY DEF GetUserRoles, FactorInv, TypeOK
<1>2. /\ req[r].pc = "get_roles"
      /\ UNCHANGED <<now, database, cache, started, ghosts, pairs>>
  BY DEF GetUserRoles
<1>3. req[r] \in Request /\ req[r].user \in Users /\ RequestOK(req[r])
  BY <1>2 DEF FactorInv, TypeOK, RequestsOK, RequestOK
<1>4. c \in Copy /\ c.user = req[r].user
  BY <1>1, <1>2, <1>3 DEF Copy, RequestOK, FactorInv, TypeOK
<1>5. CopyOK(c) /\ RowCurrent(c) /\ RolesCurrent(c)
  BY <1>1, <1>2, <1>3 DEF CopyOK, RowCurrent, RolesCurrent, RequestOK, Copy
<1>6. q \in Request /\ RequestOK(q) /\ (Draws(q) => q.id = req[r].id)
  <2>1. CASE c.row.active
    <3>1. /\ q \in Request /\ q.pc = "put" /\ q.copy = c /\ q.id = req[r].id
          /\ q.user = req[r].user
      BY <1>1, <1>3, <1>4, <2>1 DEF Request, Labels
    <3> QED BY <1>2, <1>3, <1>4, <1>5, <2>1, <3>1 DEF RequestOK
  <2>2. CASE ~c.row.active
    <3>1. PICK p : p = Mint(c, Null, now)
      OBVIOUS
    <3>2. /\ p \in Pair /\ p.copy = c /\ p.code = Null
          /\ p.answered = now /\ p.minted = now /\ now \in Nat
      BY <1>4, <3>1 DEF Mint, Pair, FactorInv, TypeOK
    <3>3. PairOK(p)
      BY <1>5, <2>2, <3>2, FactorAssumption DEF PairOK, CopyOK
    <3>4. q \in Request /\ q.pc = "store" /\ q.pair = p
      BY <1>1, <1>3, <2>2, <3>1, <3>2 DEF Request, Labels
    <3> QED BY <1>5, <3>2, <3>3, <3>4 DEF RequestOK, Draws
  <2> QED BY <2>1, <2>2
<1>7. TypeOK'
  BY <1>1, <1>2, <1>6 DEF FactorInv, TypeOK, database, cache, ghosts
<1>8. Grows
  BY <1>2 DEF FactorInv, TypeOK, database, cache, ghosts, Grows
<1>9. RequestOK(q)'
  BY <1>2, <1>3, <1>6, <1>7, <1>8, RequestStable
  DEF FactorInv, ghosts, RequestOK
<1>10. RowsOK' /\ CacheOK'
  BY <1>2, <1>7, <1>8, CacheStable DEF FactorInv, RowsOK, database, cache, ghosts
<1>11. SendsOwn(r) /\ DrawsOwn(r, q) /\ NewPairsOK
  BY <1>2, <1>6 DEF ghosts, Draws, SendsOwn, DrawsOwn, NewPairsOK
<1> QED BY <1>1, <1>6, <1>7, <1>8, <1>9, <1>10, <1>11, StepOfOne

LEMMA PutUserDataToCacheInv ==
    ASSUME FactorInv, NEW r \in Requests, PutUserDataToCache(r)
    PROVE  FactorInv'
<1>1. PICK q \in {NoRequest, req[r]} :
        /\ req' = [req EXCEPT ![r] = q]
        /\ IF q = NoRequest THEN answered' = [answered EXCEPT ![req[r].id] = now]
                            ELSE answered' = answered
  <2>1. req[r].pc # NoRequest.pc
    BY DEF PutUserDataToCache, NoRequest
  <2>2. CASE Reply(r) /\ answered' = [answered EXCEPT ![req[r].id] = now]
    BY <2>2 DEF Reply
  <2>3. CASE UNCHANGED <<req, answered>>
    <3>1. req' = [req EXCEPT ![r] = req[r]]
      BY <2>3 DEF FactorInv, TypeOK
    <3> QED BY <2>1, <2>3, <3>1
  <2> QED BY <2>2, <2>3 DEF PutUserDataToCache
<1>2. PICK e : /\ e = [copy |-> req[r].copy, exp |-> now + CopyLifetime]
               /\ request_cache' = [request_cache EXCEPT ![req[r].id] = e]
  BY DEF PutUserDataToCache
<1>3. /\ req[r].pc = "put"
      /\ UNCHANGED <<now, database, access_cache, started, owner, handed,
                     proven, pairs>>
  BY DEF PutUserDataToCache
<1>4. req[r] \in Request /\ RequestOK(req[r]) /\ now \in Nat
  BY DEF FactorInv, TypeOK, RequestsOK
<1>5. /\ req[r].id \in RequestIds /\ answered[req[r].id] = Never
      /\ req[r].copy \in Copy /\ req[r].copy.row.active
      /\ CopyOK(req[r].copy) /\ RowCurrent(req[r].copy)
      /\ RolesCurrent(req[r].copy)
  BY <1>3, <1>4 DEF RequestOK
<1>6. e \in [copy : Copy, exp : Nat] /\ e # Null /\ e.copy = req[r].copy
      /\ e.exp = now + RequestTtl
  BY <1>2, <1>4, <1>5, FactorAssumption, NullAssumption DEF CopyLifetime
<1>7. q \in Request
  BY <1>1, <1>4, NoRequestOK
<1>8. TypeOK'
  BY <1>1, <1>2, <1>3, <1>4, <1>6, <1>7 DEF FactorInv, TypeOK, database
<1>9. Grows
  BY <1>1, <1>3, <1>5 DEF FactorInv, TypeOK, database, Grows
<1>10. RequestOK(q)'
  BY <1>1, <1>4, <1>5, <1>7, <1>8, <1>9, NoRequestOK, RequestStable DEF FactorInv
<1>11. RowsOK'
  BY <1>3 DEF FactorInv, RowsOK, database
<1>12. CacheOK'
  <2>1. ASSUME NEW i \in RequestIds, NEW d \in [copy : Copy, exp : Nat],
               d = request_cache'[i]
        PROVE  CopyOK(d.copy)' /\ RowCurrent(d.copy)' /\ RolesCurrent(d.copy)'
               /\ d.copy.row.active
    <3>1. CopyOK(d.copy) /\ RowCurrent(d.copy) /\ RolesCurrent(d.copy)
          /\ d.copy.row.active
      BY <1>2, <1>5, <1>6, <2>1, NullAssumption DEF FactorInv, TypeOK, CacheOK
    <3> QED BY <1>8, <1>9, <3>1, CopyStable, CurrentStable DEF FactorInv
  <2>2. ASSUME NEW i \in RequestIds
        PROVE  /\ answered'[i] # Never => request_cache'[i] # Null
               /\ answered'[i] # Never =>
                     request_cache'[i].exp <= answered'[i] + RequestTtl
    BY <1>1, <1>2, <1>4, <1>5, <1>6, FactorAssumption DEF FactorInv, TypeOK, CacheOK
  <2> QED BY <1>8, <2>1, <2>2 DEF CacheOK, TypeOK, CopyOK, RowCurrent, RolesCurrent
<1>13. SendsOwn(r) /\ DrawsOwn(r, q) /\ NewPairsOK
  BY <1>1, <1>3, NoRequestOK DEF FactorInv, TypeOK, Draws, SendsOwn, DrawsOwn, NewPairsOK
<1> QED BY <1>1, <1>7, <1>8, <1>9, <1>10, <1>11, <1>12, <1>13, StepOfOne

LEMMA CheckTotpInv ==
    ASSUME FactorInv, NEW r \in Requests, CheckTotp(r)
    PROVE  FactorInv'
<1>1. PICK e, p, q :
        /\ e = request_cache[req[r].id]
        /\ p = Mint(e.copy, req[r].code, answered[req[r].id])
        /\ q = IF Live(req[r].id) /\ Passes(e.copy, req[r].code)
               THEN [req[r] EXCEPT !.pc = "store", !.pair = p]
               ELSE NoRequest
        /\ req' = [req EXCEPT ![r] = q]
  BY DEF CheckTotp, Reply, FactorInv, TypeOK
<1>2. /\ req[r].pc = "check"
      /\ UNCHANGED <<now, database, cache, started, ghosts, pairs>>
  BY DEF CheckTotp
<1>3. /\ req[r] \in Request /\ req[r].id \in RequestIds
      /\ answered[req[r].id] # Never /\ req[r].code \in handed
  BY <1>2 DEF FactorInv, TypeOK, RequestsOK, RequestOK
<1>4. q \in Request /\ RequestOK(q) /\ ~Draws(q)
  <2>1. CASE Live(req[r].id) /\ Passes(e.copy, req[r].code)
    <3>1. e # Null /\ e \in [copy : Copy, exp : Nat] /\ now < e.exp
      BY <1>1, <1>3, <2>1 DEF Live, FactorInv, TypeOK
    <3>2. /\ CopyOK(e.copy) /\ RowCurrent(e.copy) /\ RolesCurrent(e.copy)
          /\ e.copy.row.active /\ e.exp <= answered[req[r].id] + RequestTtl
      BY <1>1, <1>3, <3>1 DEF FactorInv, CacheOK
    <3>3. /\ req[r].code \in Secrets /\ req[r].code # Null
          /\ owner[req[r].code] = e.copy.user
      BY <1>3, <2>1, <3>2, FactorAssumption
      DEF Passes, Verified, CopyOK, FactorInv, TypeOK
    <3>4. /\ p \in Pair /\ p.copy = e.copy /\ p.code = req[r].code
          /\ p.answered = answered[req[r].id] /\ p.minted = now
      BY <1>1, <1>3, <3>1, <3>3 DEF Mint, Pair, FactorInv, TypeOK
    <3>5. PairOK(p)
      BY <1>3, <3>1, <3>2, <3>3, <3>4, FactorAssumption
      DEF PairOK, Pair, FactorInv, TypeOK
    <3>6. q \in Request /\ q.pc = "store" /\ q.pair = p
      BY <1>1, <1>3, <2>1, <3>4 DEF Request, Labels
    <3> QED BY <3>2, <3>4, <3>5, <3>6 DEF RequestOK, Draws
  <2>2. CASE ~(Live(req[r].id) /\ Passes(e.copy, req[r].code))
    BY <1>1, <2>2, NoRequestOK
  <2> QED BY <2>1, <2>2
<1>5. TypeOK'
  BY <1>1, <1>2, <1>4 DEF FactorInv, TypeOK, database, cache, ghosts
<1>6. Grows
  BY <1>2 DEF FactorInv, TypeOK, database, cache, ghosts, Grows
<1>7. RequestOK(q)'
  BY <1>4, <1>5, <1>6, RequestStable DEF FactorInv
<1>8. RowsOK' /\ CacheOK'
  BY <1>2, <1>5, <1>6, CacheStable DEF FactorInv, RowsOK, database, cache, ghosts
<1>9. SendsOwn(r) /\ DrawsOwn(r, q) /\ NewPairsOK
  BY <1>2, <1>4 DEF ghosts, SendsOwn, DrawsOwn, NewPairsOK
<1> QED BY <1>1, <1>4, <1>5, <1>6, <1>7, <1>8, <1>9, StepOfOne

LEMMA StoreRefreshTokenInv ==
    ASSUME FactorInv, NEW r \in Requests, StoreRefreshToken(r)
    PROVE  FactorInv'
<1>1. /\ req[r].pc = "store" /\ req' = [req EXCEPT ![r] = NoRequest]
      /\ pairs' = pairs \cup {req[r].pair}
      /\ UNCHANGED <<now, database, cache, started, ghosts>>
  BY DEF StoreRefreshToken, Reply
<1>2. req[r].pair \in Pair /\ PairOK(req[r].pair)
  BY <1>1 DEF FactorInv, RequestsOK, RequestOK
<1>3. TypeOK'
  BY <1>1, <1>2, NoRequestOK DEF FactorInv, TypeOK, database, cache, ghosts
<1>4. Grows
  BY <1>1 DEF FactorInv, TypeOK, database, cache, ghosts, Grows
<1>5. RowsOK' /\ CacheOK'
  BY <1>1, <1>3, <1>4, CacheStable DEF FactorInv, RowsOK, database, cache, ghosts
<1>6. SendsOwn(r) /\ DrawsOwn(r, NoRequest) /\ NewPairsOK
  BY <1>1, <1>2, NoRequestOK DEF ghosts, SendsOwn, DrawsOwn, NewPairsOK
<1> QED BY <1>1, <1>3, <1>4, <1>5, <1>6, NoRequestOK, StepOfOne

LEMMA TotpSyncGetInv ==
    ASSUME FactorInv, NEW r \in Requests, NEW u \in Users, NEW s \in Secrets,
           TotpSyncGet(r, u, s)
    PROVE  FactorInv'
<1>1. PICK q :
        /\ q = [NoRequest EXCEPT !.pc = "update_secret", !.user = u, !.code = s]
        /\ req' = [req EXCEPT ![r] = q]
  BY DEF TotpSyncGet
<1>2. /\ owner[s] = Null /\ owner' = [owner EXCEPT ![s] = u]
      /\ started' = started + 1
      /\ UNCHANGED <<now, database, cache, handed, proven, answered, pairs>>
  BY DEF TotpSyncGet
<1>3. /\ q \in Request /\ q.pc = "update_secret" /\ q.user = u /\ q.code = s
      /\ ~Draws(q)
  BY <1>1 DEF NoRequest, Request, Labels, Draws
<1>4. TypeOK'
  BY <1>1, <1>2, <1>3 DEF FactorInv, TypeOK, database, cache
<1>5. Grows
  BY <1>2, FactorAssumption DEF FactorInv, TypeOK, database, Grows
<1>6. RequestOK(q)'
  BY <1>2, <1>3 DEF FactorInv, TypeOK, RequestOK
<1>7. RowsOK'
  BY <1>2, FactorAssumption DEF FactorInv, TypeOK, RowsOK, Row, database
<1>8. CacheOK'
  BY <1>2, <1>4, <1>5, CacheStable DEF FactorInv, cache
<1>9. SendsOwn(r) /\ DrawsOwn(r, q) /\ NewPairsOK
  BY <1>2, <1>3 DEF SendsOwn, DrawsOwn, NewPairsOK
<1> QED BY <1>1, <1>3, <1>4, <1>5, <1>6, <1>7, <1>8, <1>9, StepOfOne

LEMMA UpdateUserSecretInv ==
    ASSUME FactorInv, NEW r \in Requests, UpdateUserSecret(r)
    PROVE  FactorInv'
<1>1. PICK q \in {[req[r] EXCEPT !.pc = "hand_out"], req[r]} :
        req' = [req EXCEPT ![r] = q]
  BY DEF UpdateUserSecret, Goto, FactorInv, TypeOK
<1>2. /\ req[r].pc = "update_secret"
      /\ totp' = [totp EXCEPT ![req[r].user].secret = req[r].code]
      /\ changed' = [changed EXCEPT ![req[r].user] = now]
      /\ UNCHANGED <<now, user_roles, cache, started, ghosts, pairs>>
  BY DEF UpdateUserSecret, NewSecret
<1>3. /\ req[r] \in Request /\ req[r].user \in Users
      /\ req[r].code \in Secrets /\ owner[req[r].code] = req[r].user
  BY <1>2 DEF FactorInv, TypeOK, RequestsOK, RequestOK
<1>4. /\ q \in Request /\ q.pc \in {"update_secret", "hand_out"}
      /\ q.user = req[r].user /\ q.code = req[r].code
      /\ ~Draws(q) /\ RequestOK(q)
  <2>1. CASE q = req[r]
    BY <1>2, <1>3, <2>1 DEF Draws, RequestOK
  <2>2. CASE q = [req[r] EXCEPT !.pc = "hand_out"]
    BY <1>3, <2>2 DEF Request, Labels, Draws, RequestOK
  <2> QED BY <1>1, <2>1, <2>2
<1>5. TypeOK'
  BY <1>1, <1>2, <1>3, <1>4 DEF FactorInv, TypeOK, Row, cache, ghosts
<1>6. Grows
  BY <1>2, <1>3, FactorAssumption DEF FactorInv, TypeOK, Row, ghosts, Grows
<1>7. RequestOK(q)'
  BY <1>4, <1>5, <1>6, RequestStable DEF FactorInv
<1>8. RowsOK'
  BY <1>2, <1>3, FactorAssumption DEF FactorInv, TypeOK, Row, RowsOK, ghosts
<1>9. CacheOK'
  BY <1>2, <1>5, <1>6, CacheStable DEF FactorInv, cache, ghosts
<1>10. SendsOwn(r) /\ DrawsOwn(r, q) /\ NewPairsOK
  BY <1>2, <1>4 DEF ghosts, SendsOwn, DrawsOwn, NewPairsOK
<1> QED BY <1>1, <1>4, <1>5, <1>6, <1>7, <1>8, <1>9, <1>10, StepOfOne

LEMMA HandOutInv ==
    ASSUME FactorInv, NEW r \in Requests, HandOut(r)
    PROVE  FactorInv'
<1>1. /\ req[r].pc = "hand_out" /\ req' = [req EXCEPT ![r] = NoRequest]
      /\ handed' = handed \cup {req[r].code}
      /\ UNCHANGED <<now, database, cache, started, owner, proven, answered,
                     pairs>>
  BY DEF HandOut, Reply
<1>2. req[r].code \in Secrets
  BY <1>1 DEF FactorInv, RequestsOK, RequestOK
<1>3. TypeOK'
  BY <1>1, <1>2, NoRequestOK DEF FactorInv, TypeOK, database, cache
<1>4. Grows
  BY <1>1 DEF FactorInv, TypeOK, database, Grows
<1>5. RowsOK' /\ CacheOK'
  BY <1>1, <1>3, <1>4, CacheStable DEF FactorInv, RowsOK, database, cache
<1>6. SendsOwn(r) /\ DrawsOwn(r, NoRequest) /\ NewPairsOK
  BY <1>1, NoRequestOK DEF SendsOwn, DrawsOwn, NewPairsOK
<1> QED BY <1>1, <1>3, <1>4, <1>5, <1>6, NoRequestOK, StepOfOne

LEMMA VerifyCodeInv ==
    ASSUME FactorInv, NEW r \in Requests, VerifyCode(r)
    PROVE  FactorInv'
<1>1. PICK q :
        /\ q = IF Confirmed(req[r].user, req[r].code)
               THEN [req[r] EXCEPT !.pc = "activate"] ELSE NoRequest
        /\ req' = [req EXCEPT ![r] = q]
  BY DEF VerifyCode, Goto, Reply, FactorInv, TypeOK
<1>2. /\ req[r].pc = "verify"
      /\ proven' = IF owner[req[r].code] = req[r].user /\ req[r].code \in handed
                   THEN proven \cup {req[r].user} ELSE proven
      /\ UNCHANGED <<now, database, cache, started, owner, handed, answered,
                     pairs>>
  BY DEF VerifyCode
<1>3. req[r] \in Request /\ req[r].user \in Users /\ req[r].code \in handed
  BY <1>2 DEF FactorInv, TypeOK, RequestsOK, RequestOK
<1>4. q \in Request /\ ~Draws(q)
  BY <1>1, <1>3, NoRequestOK DEF Request, Labels, Draws
<1>5. TypeOK'
  BY <1>1, <1>2, <1>3, <1>4 DEF FactorInv, TypeOK, database, cache
<1>6. Grows
  BY <1>2 DEF FactorInv, TypeOK, database, Grows
<1>7. RequestOK(q)'
  <2>1. CASE Confirmed(req[r].user, req[r].code)
    <3>1. q.pc = "activate" /\ q.user = req[r].user
      BY <1>1, <1>3, <2>1 DEF Request
    <3>2. totp[req[r].user].secret = req[r].code /\ req[r].code # Null
      BY <2>1 DEF Confirmed, Verified
    <3>3. owner[req[r].code] = req[r].user
      BY <1>3, <3>2 DEF FactorInv, RowsOK
    <3> QED BY <1>2, <1>3, <3>1, <3>2, <3>3 DEF RequestOK, database
  <2>2. CASE ~Confirmed(req[r].user, req[r].code)
    BY <1>1, <2>2, NoRequestOK DEF RequestOK, NoRequest
  <2> QED BY <2>1, <2>2
<1>8. RowsOK'
  BY <1>2 DEF FactorInv, RowsOK, database
<1>9. CacheOK'
  BY <1>2, <1>5, <1>6, CacheStable DEF FactorInv, cache
<1>10. SendsOwn(r) /\ DrawsOwn(r, q) /\ NewPairsOK
  BY <1>2, <1>4 DEF SendsOwn, DrawsOwn, NewPairsOK
<1> QED BY <1>1, <1>4, <1>5, <1>6, <1>7, <1>8, <1>9, <1>10, StepOfOne

LEMMA UpdateUserTotpStatusInv ==
    ASSUME FactorInv, NEW r \in Requests, UpdateUserTotpStatus(r)
    PROVE  FactorInv'
<1>1. PICK q \in {NoRequest, req[r]} : req' = [req EXCEPT ![r] = q]
  BY DEF UpdateUserTotpStatus, Reply, FactorInv, TypeOK
<1>2. /\ req[r].pc = "activate"
      /\ totp' = [totp EXCEPT ![req[r].user].active = TRUE,
                              ![req[r].user].sync = TRUE]
      /\ changed' = [changed EXCEPT ![req[r].user] = now]
      /\ UNCHANGED <<now, user_roles, cache, started, ghosts, pairs>>
  BY DEF UpdateUserTotpStatus
<1>3. /\ req[r].user \in Users /\ req[r].user \in proven
      /\ totp[req[r].user].secret # Null
  BY <1>2 DEF FactorInv, RequestsOK, RequestOK
<1>4. q \in Request /\ ~Draws(q) /\ RequestOK(q)
  BY <1>1, <1>2, NoRequestOK DEF FactorInv, TypeOK, RequestsOK, Draws
<1>5. TypeOK'
  BY <1>1, <1>2, <1>3, <1>4 DEF FactorInv, TypeOK, Row, cache, ghosts
<1>6. Grows
  BY <1>2, <1>3 DEF FactorInv, TypeOK, Row, ghosts, Grows
<1>7. RequestOK(q)'
  BY <1>4, <1>5, <1>6, RequestStable DEF FactorInv
<1>8. RowsOK'
  BY <1>2, <1>3 DEF FactorInv, TypeOK, Row, RowsOK, ghosts
<1>9. CacheOK'
  BY <1>2, <1>5, <1>6, CacheStable DEF FactorInv, cache, ghosts
<1>10. SendsOwn(r) /\ DrawsOwn(r, q) /\ NewPairsOK
  BY <1>2, <1>4 DEF ghosts, SendsOwn, DrawsOwn, NewPairsOK
<1> QED BY <1>1, <1>4, <1>5, <1>6, <1>7, <1>8, <1>9, <1>10, StepOfOne

LEMMA RevokeSetInv ==
    ASSUME FactorInv, NEW r \in Requests, RevokeSet(r)
    PROVE  FactorInv'
<1>1. PICK q \in {NoRequest, [req[r] EXCEPT !.pc = "update_roles"], req[r]} :
        req' = [req EXCEPT ![r] = q]
  BY DEF RevokeSet, Reply, Goto, FactorInv, TypeOK
<1>2. /\ req[r].pc = "revoke"
      /\ access_cache' = [access_cache EXCEPT ![req[r].user] = req[r].at]
      /\ UNCHANGED <<now, database, request_cache, started, ghosts, pairs>>
  BY DEF RevokeSet
<1>3. req[r] \in Request /\ req[r].user \in Users /\ req[r].at \in Nat
  BY <1>2 DEF FactorInv, TypeOK, RequestsOK, RequestOK, Request
<1>4. q \in Request /\ ~Draws(q) /\ RequestOK(q)
  <2>1. CASE q = NoRequest BY <2>1, NoRequestOK
  <2>2. CASE q = [req[r] EXCEPT !.pc = "update_roles"]
    BY <1>3, <2>2 DEF Request, Labels, Draws, RequestOK
  <2>3. CASE q = req[r]
    BY <1>2, <1>3, <2>3 DEF FactorInv, RequestsOK, Draws
  <2> QED BY <1>1, <2>1, <2>2, <2>3
<1>5. TypeOK'
  BY <1>1, <1>2, <1>3, <1>4 DEF FactorInv, TypeOK, database, ghosts
<1>6. Grows
  BY <1>2 DEF FactorInv, TypeOK, database, ghosts, Grows
<1>7. RequestOK(q)'
  BY <1>4, <1>5, <1>6, RequestStable DEF FactorInv
<1>8. RowsOK'
  BY <1>2 DEF FactorInv, RowsOK, database, ghosts
<1>9. CacheOK'
  BY <1>2, <1>5, <1>6, CacheStable DEF FactorInv, ghosts
<1>10. SendsOwn(r) /\ DrawsOwn(r, q) /\ NewPairsOK
  BY <1>2, <1>4 DEF ghosts, SendsOwn, DrawsOwn, NewPairsOK
<1> QED BY <1>1, <1>4, <1>5, <1>6, <1>7, <1>8, <1>9, <1>10, StepOfOne

LEMMA UpdateRolesInv ==
    ASSUME FactorInv, NEW r \in Requests, UpdateRoles(r)
    PROVE  FactorInv'
<1>1. /\ req[r].pc = "update_roles" /\ req' = [req EXCEPT ![r] = NoRequest]
      /\ changed' = [changed EXCEPT ![req[r].user] = now]
      /\ UNCHANGED <<now, totp, cache, started, ghosts, pairs>>
  BY DEF UpdateRoles, Reply
<1>2. PICK roles \in SUBSET Roles :
        user_roles' = [user_roles EXCEPT ![req[r].user] = roles]
  BY DEF UpdateRoles
<1>3. req[r].user \in Users
  BY <1>1 DEF FactorInv, RequestsOK, RequestOK
<1>4. TypeOK'
  BY <1>1, <1>2, <1>3, NoRequestOK DEF FactorInv, TypeOK, cache, ghosts
<1>5. Grows
  BY <1>1, <1>2, <1>3 DEF FactorInv, TypeOK, ghosts, Grows
<1>6. RowsOK'
  BY <1>1 DEF FactorInv, RowsOK, ghosts
<1>7. CacheOK'
  BY <1>1, <1>4, <1>5, CacheStable DEF FactorInv, cache, ghosts
<1>8. SendsOwn(r) /\ DrawsOwn(r, NoRequest) /\ NewPairsOK
  BY <1>1, NoRequestOK DEF ghosts, SendsOwn, DrawsOwn, NewPairsOK
<1> QED BY <1>1, <1>4, <1>5, <1>6, <1>7, <1>8, NoRequestOK, StepOfOne

LEMMA TickInv == ASSUME FactorInv, Tick PROVE FactorInv'
<1>1. /\ now' = now + 1
      /\ UNCHANGED <<database, cache, req, started, ghosts, pairs>>
  BY DEF Tick
<1>2. TypeOK'
  BY <1>1 DEF FactorInv, TypeOK, database, cache, ghosts
<1>3. Grows
  BY <1>1 DEF FactorInv, TypeOK, database, ghosts, Grows
<1>4. RowsOK' /\ CacheOK'
  BY <1>1, <1>2, <1>3, CacheStable DEF FactorInv, RowsOK, database, cache, ghosts
<1>5. ASSUME NEW r \in Requests, NEW q, q = req[r] PROVE RequestOK(q)'
  <2>1. q \in Request /\ RequestOK(q)
    BY <1>5 DEF FactorInv, TypeOK, RequestsOK
  <2>2. Draws(q) => answered'[q.id] = Never
    BY <1>1, <2>1 DEF RequestOK, Draws, ghosts
  <2> QED BY <1>2, <1>3, <2>1, <2>2, RequestStable DEF FactorInv
<1>6. RequestsOK'
  BY <1>1, <1>5 DEF RequestsOK, RequestOK
<1>7. IdsOK'
  BY <1>1 DEF FactorInv, IdsOK, Drawing
<1>8. ASSUME NEW p \in pairs' PROVE PairOK(p)'
  BY <1>1, <1>2, <1>3, PairStable DEF FactorInv, PairsOK, TypeOK
<1>9. PairsOK'
  BY <1>8 DEF PairsOK
<1> QED BY <1>2, <1>4, <1>6, <1>7, <1>9 DEF FactorInv

LEMMA CrashInv == ASSUME FactorInv, Crash PROVE FactorInv'
<1>1. /\ req' = [r \in Requests |-> NoRequest]
      /\ UNCHANGED <<now, database, cache, started, ghosts, pairs>>
  BY DEF Crash
<1>2. TypeOK'
  BY <1>1, NoRequestOK DEF FactorInv, TypeOK, database, cache, ghosts
<1>3. Grows
  BY <1>1 DEF FactorInv, TypeOK, database, ghosts, Grows
<1>4. RowsOK' /\ CacheOK'
  BY <1>1, <1>2, <1>3, CacheStable DEF FactorInv, RowsOK, database, cache, ghosts
<1>5. RequestsOK'
  BY <1>1 DEF RequestsOK, RequestOK, NoRequest
<1>6. IdsOK'
  BY <1>1 DEF IdsOK, Drawing, NoRequest
<1>7. ASSUME NEW p \in pairs' PROVE PairOK(p)'
  BY <1>1, <1>2, <1>3, PairStable DEF FactorInv, PairsOK, TypeOK
<1>8. PairsOK'
  BY <1>7 DEF PairsOK
<1> QED BY <1>2, <1>4, <1>5, <1>6, <1>8 DEF FactorInv

LEMMA StutterInv == ASSUME FactorInv, UNCHANGED vars PROVE FactorInv'
<1>1. UNCHANGED <<now, totp, user_roles, request_cache, access_cache, req,
                  started, owner, handed, proven, answered, changed, pairs>>
  BY DEF vars, database, cache, ghosts
<1> QED BY <1>1 DEF FactorInv, TypeOK, RowsOK, CacheOK, RequestsOK, RequestOK,
                   IdsOK, Drawing, PairsOK, PairOK, CopyOK, RowCurrent, RolesCurrent

-----------------------------------------------------------------------------
\* Rows, copies in Redis, requests and pairs stay in order, whatever requests
\* and crashes there are: the properties of the second factor rest on it.
THEOREM FactorInvariant == Spec => []FactorInv
<1>1. Init => FactorInv
  BY InitInv
<1>2. FactorInv /\ [Next]_vars => FactorInv'
  <2> SUFFICES ASSUME FactorInv, [Next]_vars PROVE FactorInv'
    OBVIOUS
  <2>1. CASE Tick BY <2>1, TickInv
  <2>2. CASE Crash BY <2>2, CrashInv
  <2>3. ASSUME NEW r \in Requests, Arrive(r) PROVE FactorInv'
    BY <2>3, LoginInv, RevokeInv, TotpCheckInv, TotpSyncGetInv, TotpSyncPostInv
    DEF Arrive
  <2>4. ASSUME NEW r \in Requests, Serve(r) PROVE FactorInv'
    BY <2>4, GetUserInv, GetUserRolesInv, PutUserDataToCacheInv, CheckTotpInv,
       StoreRefreshTokenInv, UpdateUserSecretInv, HandOutInv, VerifyCodeInv,
       UpdateUserTotpStatusInv, RevokeSetInv, UpdateRolesInv
    DEF Serve
  <2>5. CASE UNCHANGED vars BY <2>5, StutterInv
  <2> QED BY <2>1, <2>2, <2>3, <2>4, <2>5 DEF Next
<1> QED BY <1>1, <1>2, PTL DEF Spec

\* A login that comes in when the factor is active gets no pair without a code.
THEOREM NoBypass == Spec => []ActiveFactorNotBypassed
<1>1. FactorInv => ActiveFactorNotBypassed
  BY DEF FactorInv, PairsOK, PairOK, ActiveFactorNotBypassed
<1> QED BY <1>1, FactorInvariant, PTL

\* No login is completed with a code of another user's secret.
THEOREM FactorsPrivate == Spec => []FactorIsPrivate
<1>1. FactorInv => FactorIsPrivate
  BY DEF FactorInv, PairsOK, PairOK, FactorIsPrivate
<1> QED BY <1>1, FactorInvariant, PTL

\* An active factor was proven by a code of a secret of the user's own.
THEOREM ActivationsProven == Spec => []ActivationProven
<1>1. FactorInv => ActivationProven
  BY DEF FactorInv, RowsOK, ActivationProven
<1> QED BY <1>1, FactorInvariant, PTL

\* Tokens are made from nothing older than the login, and within request_ttl.
THEOREM StaleCopiesBounded == Spec => []StaleCopyBounded
<1>1. FactorInv => StaleCopyBounded
  BY DEF FactorInv, RequestsOK, RequestOK, PairOK, RowCurrent, RolesCurrent,
         StaleCopyBounded
<1> QED BY <1>1, FactorInvariant, PTL
=============================================================================
