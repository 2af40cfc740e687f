------------------------------- MODULE Backend -------------------------------
(***************************************************************************)
(* Registration and the administration of roles on one database: any of    *)
(* their requests may be in progress together, each of their calls may     *)
(* break before or after its commit, and the worker may die.               *)
(***************************************************************************)
EXTENDS Registration, RoleAdmin

ASSUME BackendAssumption ==
    /\ UserIds \cap RoleIds = {} /\ UserIds \cup RoleIds = RowIds
    /\ Logins \cup RoleNames \cup Members = Keys
    /\ RoleIds # {} /\ RoleNames # {}

vars == <<repositoryVars, registrationVars, roleVars>>

\* An empty database, or one with a role that every member has.
InitBackend ==
    \E old \in {<<>>, <<CHOOSE i \in RoleIds : TRUE>>} :
        Init(old) /\ InitUsers /\ InitRoles(old)

\* The worker dies and is started again; commands are not part of it.
Crash ==
    LET killed == {g \in Greenlets : req[g].pc # "idle"
                                     /\ req[g].op \notin Commands}
    IN  /\ killed # {}
        /\ req' = [g \in Greenlets |-> IF g \in killed THEN NoRequest ELSE req[g]]
        /\ done' = [n \in Numbers |-> IF \E g \in killed : req[g].n = n
                                      THEN "dead" ELSE done[n]]
        /\ UNCHANGED <<started, asked, made, lost, registrationVars, roleVars>>

Fails(g) == CallFails(g) /\ UNCHANGED <<registrationVars, roleVars>>

Serve(g) ==
    \/ ServeUsers(g) /\ UNCHANGED roleVars
    \/ ServeRoles(g) /\ UNCHANGED registrationVars
    \/ Fails(g)

\* No request is about both tables, and none has been about the other one.
OnlyUsers ==
    /\ Defined = {}
    /\ \A g \in Greenlets : req[g].op \notin RoleOps

OnlyRoles ==
    /\ Rows = {}
    /\ \A g \in Greenlets : req[g].op \notin UserOps

\* Requests about users and requests about roles have Postgres in common, but
\* no row: a behaviour has requests of one kind (bounds the model).
Arrive(g) ==
    \/ OnlyUsers /\ ArriveUsers(g) /\ UNCHANGED roleVars
    \/ OnlyRoles /\ ArriveRoles(g) /\ UNCHANGED registrationVars

Next == Crash \/ \E g \in Greenlets : Arrive(g) \/ Serve(g)

Spec == InitBackend /\ [][Next]_vars
-----------------------------------------------------------------------------

\* The tables, the requests and the ghost variables keep their shapes.
TypeOK ==
    /\ req \in [Greenlets -> Request(UserLabels \cup RoleLabels,
                                     UserOps \cup RoleOps)]
    /\ started \in 0..MaxRequests
    /\ done \in [Numbers -> Answers \cup {Null}]
    /\ asked \in [Numbers -> Nat]
    /\ made \subseteq Numbers \X (Nat \ {0}) \X RowIds
    /\ lost \subseteq Numbers
    /\ users \in [UserIds -> User \cup {Null}]
    /\ queue \subseteq [by : Numbers, user : UserIds]
    /\ roles \in [RoleIds -> RoleNames \cup {Null}]
    /\ user_roles \in [Members -> SUBSET RoleIds]

\* create_obj_in_db is repeated when the answer of its commit is lost, and by
\* then the row may have been renamed: what one object asks for never becomes
\* two rows.
CreatedOnce ==
    \A x, y \in made : x[1] = y[1] /\ x[2] = y[2] => x[3] = y[3]

\* A request that creates rows one by one leaves a beginning of them behind;
\* all of them if it answers 201, and not all of them if it answers 409,
\* unless an answer of Postgres was lost.
AnswersTruthful ==
    \A n \in Numbers :
        /\ MadeInOrder(n)
        /\ done[n] = "created" => Complete(n)
        /\ done[n] = "conflict" /\ asked[n] > 0 /\ n \notin lost => ~Complete(n)

\* RegistrationView reads the new user back by login.  The event it sends is
\* for the row it created, unless that row has had its login changed.
EventForNewUser ==
    \A e \in queue : \E m \in made :
        /\ m[1] = e.by
        /\ m[3] = e.user \/ users[m[3]].password # e.by

\* No user goes without an event for nothing: the request died, was answered
\* 500, or had a commit whose answer was lost.
SilentUserExplained ==
    \A u \in Rows :
        LET n == users[u].by IN
        /\ ~users[u].is_superuser
        /\ ~\E e \in queue : e.by = n
        => \/ \E g \in Greenlets : req[g].n = n
           \/ done[n] \in {"dead", "error"}
           \/ n \in lost

\* Roles are deleted while they are assigned: a user never keeps the id of a
\* role without a row, since get_user_roles joins the two tables.
NoDanglingRole == \A u \in Members : user_roles[u] \subseteq Defined

\* What each label relies on: the fields hold what its call needs.
RequestOK(q) ==
    /\ q.pc \in {"create", "create_superuser"} =>
          q.key \in Logins /\ q.row \in UserIds \cup {Null}
    /\ q.pc \in {"look_up", "get_user", "reset"} => q.key \in Logins
    /\ q.pc = "look_up" => q.op \in Commands /\ q.row = Null
    /\ q.pc \in {"link", "publish"} => q.row \in UserIds
    /\ q.pc = "update" => q.key \in Logins /\ q.row \in UserIds
    /\ q.pc = "create_role" =>
          /\ q.rest \in Seq(RoleNames) /\ q.rest # <<>>
          /\ q.row \in RoleIds \cup {Null}
    /\ q.pc = "update_role" => q.key \in RoleNames /\ q.ids \subseteq RoleIds
    /\ q.pc \in {"load_role", "delete_role"} => q.row \in RoleIds
    /\ q.pc \in {"load_rows", "commit_rows"} =>
          q.key \in Members /\ q.ids \subseteq RoleIds

\* The k-th row of q is the next one to be committed, or it has been, and q was
\* not told but holds its id.
Creating(q, k) ==
    /\ k \in 1..asked[q.n]
    /\ \/ Created(q.n) = 1..(k - 1)
       \/ Created(q.n) = 1..k /\ <<q.n, k, q.row>> \in made /\ q.n \in lost

ProgressOK(q) ==
    CASE q.pc \in {"create", "create_superuser"} ->
           asked[q.n] = 1 /\ Creating(q, 1)
      [] q.pc = "create_role" -> Creating(q, Position(q))
      [] q.pc \in {"fetch", "link", "publish"} -> Complete(q.n)
      [] q.pc = "look_up" ->
           /\ Created(q.n) = {}
           /\ asked[q.n] = IF q.op = "create_superuser" THEN 1 ELSE 0
      [] OTHER -> Created(q.n) = {} /\ asked[q.n] = 0

\* Requests are numbered as they arrive.
NumbersOK ==
    /\ \A g \in Greenlets : req[g].pc # "idle" =>
          req[g].n \in 1..started /\ done[req[g].n] = Null
    /\ \A g, h \in Greenlets :
          req[g].pc # "idle" /\ req[h].pc # "idle" /\ req[g].n = req[h].n
          => g = h
    /\ \A n \in Numbers : n > started =>
          asked[n] = 0 /\ done[n] = Null /\ Created(n) = {}

\* The inductive invariant: types, what requests in progress rely on and have
\* committed, and three of the properties above.
BackendInv ==
    /\ TypeOK
    /\ NumbersOK
    /\ \A g \in Greenlets :
          req[g].pc # "idle" => RequestOK(req[g]) /\ ProgressOK(req[g])
    /\ CreatedOnce
    /\ AnswersTruthful
    /\ NoDanglingRole

\* Request n has committed the user r.
Registered(n, r) == r \in Rows /\ <<n, 1, r>> \in made

\* A registration reads back the user it has committed and sends the event
\* for it, unless the password of that user, and maybe the login, is another
\* by now.  A request that creates roles has no user; the object of a call of
\* create_obj_in_db has an id only if its commit was not answered.
RegistrationOK(q) ==
    /\ q.pc = "fetch" => \E r \in UserIds :
          Registered(q.n, r) /\ (users[r].password = q.n => users[r].login = q.key)
    /\ q.pc \in {"link", "publish"} => \E r \in UserIds :
          Registered(q.n, r) /\ (users[r].password = q.n => r = q.row)
    /\ q.pc = "create_role" => \A u \in Rows : users[u].by # q.n
    /\ q.pc \in {"create", "create_superuser", "create_role"} /\ q.row # Null =>
          q.n \in lost /\ \E k \in 1..asked[q.n] : <<q.n, k, q.row>> \in made

Explained(u) ==
    LET n == users[u].by IN
    \/ users[u].is_superuser
    \/ \E e \in queue : e.by = n
    \/ \E g \in Greenlets : req[g].pc # "idle" /\ req[g].n = n
    \/ done[n] \in {"dead", "error"}
    \/ n \in lost

\* An inductive invariant on top of BackendInv: ids and logins are unique,
\* and users and events belong to the requests that made them.
RecordsInv ==
    /\ \A x, y \in made : x[3] = y[3] => x[1] = y[1]
    /\ \A u, v \in Rows : users[u].login = users[v].login => u = v
    /\ \A u \in Rows : Registered(users[u].by, u) /\ Explained(u)
    /\ \A e \in queue : done[e.by] # Null /\ \E r \in UserIds :
          Registered(e.by, r) /\ (users[r].password = e.by => r = e.user)
    /\ \A g \in Greenlets : req[g].pc # "idle" => RegistrationOK(req[g])

\* The id of a deleted role comes back only by an update whose body names it,
\* or by a call of create_obj_in_db that is repeated after its commit, if the
\* role was deleted meanwhile.
DeletedRoleStaysDeleted ==
    [][\A m \in made :
          /\ m[3] \in RoleIds \ Defined
          /\ m[3] \in Defined'
          => \/ m[1] \in lost
             \/ \E g \in Greenlets :
                   req[g].pc = "update_role" /\ m[3] \in req[g].ids]_vars
=============================================================================
