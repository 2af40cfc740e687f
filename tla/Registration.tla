---------------------------- MODULE Registration ----------------------------
(***************************************************************************)
(* The table "users": registration with its event for the notification     *)
(* service, the change of a user's login and password, and the commands    *)
(* that create a superuser and reset a password.                           *)
(***************************************************************************)
EXTENDS Repository

CONSTANTS
    UserIds,  \* uuids of users, among RowIds
    Logins    \* logins, among Keys

VARIABLES
    users,  \* Postgres: id -> row, Null if there is none
    queue   \* RabbitMQ: events "new_user", with the request that sent them

registrationVars == <<users, queue>>

UserOps == {"register", "change", "create_superuser", "reset_password"}

\* Commands run in a process of their own, while an operator types.
Commands == {"create_superuser", "reset_password"}

UserLabels == {"create", "fetch", "link", "publish", "get_user", "update",
               "look_up", "create_superuser", "reset"}

\* password: the request that set it; by: the request that created the row.
User == [login : Logins, password : Numbers, is_superuser : BOOLEAN,
         by : Numbers]

\* A row is not None.
ASSUME RegistrationAssumption == Null \notin User

InitUsers ==
    /\ users = [u \in UserIds |-> Null]
    /\ queue = {}

Rows == {u \in UserIds : users[u] # Null}

Owners(login) == {u \in Rows : users[u].login = login}

\* The keys of "users": id and login.
Violates(u, login) == u \in Rows \/ Owners(login) # {}

Insert(g, u, admin) ==
    users' = [users EXCEPT ![u] =
        [login |-> req[g].key, password |-> req[g].n, is_superuser |-> admin,
         by |-> req[g].n]]

-----------------------------------------------------------------------------
(* POST /users/register.                                                   *)

\* RegistrationView, let through by the rate limiter.
Register(g, login) ==
    /\ Begin(g, [NoRequest EXCEPT !.pc = "create", !.op = "register",
                                  !.key = login], 1)
    /\ UNCHANGED registrationVars

\* Deviation: the False of create_obj_in_db is dropped.
DropFalse(g) == Goto(g, "fetch")

\* create_obj_in_db answers False, and create_user None.
RefuseUser(g) == Reply(g, "conflict")

\* create_user: the row is inserted ...
CreateUser(g) ==
    /\ req[g].pc = "create"
    /\ \E u \in ObjectId(g, UserIds) :
         \/ /\ Violates(u, req[g].key)
            /\ RefuseUser(g)
            /\ UNCHANGED <<users, made, lost>>
         \/ /\ ~Violates(u, req[g].key)
            /\ Insert(g, u, FALSE)
            /\ Made(g, 1, u)
            /\ \/ Goto(g, "fetch") /\ UNCHANGED lost
               \/ AnswerLost(g, u)
    /\ UNCHANGED <<started, asked, queue>>

\* Deviation: the event is sent all the same.
PublishAnyway(g) == Goto(g, "publish")

\* The row has another login by now: None has no id, and the view fails.
NotReadBack(g) == Reply(g, "error")

\* ... and read back by its login, for its id.
FetchUser(g) ==
    /\ req[g].pc = "fetch"
    /\ IF Owners(req[g].key) = {}
       THEN NotReadBack(g)
       ELSE \E u \in Owners(req[g].key) :
              /\ req' = [req EXCEPT ![g].pc = "link", ![g].row = u,
                                    ![g].tries = 0]
              /\ UNCHANGED done
    /\ UNCHANGED <<started, asked, made, lost, registrationVars>>

\* generate_email_verification_link: get_user and get_short_link only read,
\* and are both repeated by backoff; here they are one call.
VerificationLink(g) ==
    /\ req[g].pc = "link"
    /\ Goto(g, "publish")
    /\ UNCHANGED <<started, asked, made, lost, registrationVars>>

\* Deviation: errors of the broker are swallowed.
PublishQuietly(g) == Reply(g, "created")

\* There is no backoff here: an error of pika is answered 500.
PublishFails(g) == Reply(g, "error")

\* publish_user_created_event; an error may come before or after the broker has
\* the message.
Publish(g) ==
    /\ req[g].pc = "publish"
    /\ \/ /\ queue' = queue \cup {[by |-> req[g].n, user |-> req[g].row]}
          /\ \/ Reply(g, "created")
             \/ PublishFails(g)
       \/ /\ PublishFails(g)
          /\ UNCHANGED queue
    /\ UNCHANGED <<started, asked, made, lost, users>>

-----------------------------------------------------------------------------
(* PUT /users/<user_id>.                                                   *)

\* ChangeUserView, let through by its decorators; Null is an id that nobody
\* has.
ChangeUser(g, u, login) ==
    /\ Begin(g, [NoRequest EXCEPT !.pc = "get_user", !.op = "change",
                                  !.row = u, !.key = login], 0)
    /\ UNCHANGED registrationVars

GetUser(g) ==
    /\ req[g].pc = "get_user"
    /\ IF req[g].row \in Rows THEN Goto(g, "update") ELSE Reply(g, "not_found")
    /\ UNCHANGED <<started, asked, made, lost, registrationVars>>

\* update_obj_in_db with the login and the password of the body.
UpdateUser(g) ==
    LET q == req[g] IN
    /\ q.pc = "update"
    /\ \/ /\ Owners(q.key) \ {q.row} # {}
          /\ Reply(g, "conflict")
          /\ UNCHANGED <<users, lost>>
       \/ /\ Owners(q.key) \ {q.row} = {}
          /\ users' = [u \in UserIds |->
                          IF u \in {q.row} \cap Rows
                          THEN [users[u] EXCEPT !.login = q.key,
                                                !.password = q.n]
                          ELSE users[u]]
          /\ \/ Reply(g, "ok") /\ UNCHANGED lost
             \/ AnswerLost(g, q.row)
    /\ UNCHANGED <<started, asked, made, queue>>

-----------------------------------------------------------------------------
(* flask superuser create, and reset-password.                             *)

Command(g, op, login) ==
    /\ Begin(g, [NoRequest EXCEPT !.pc = "look_up", !.op = op, !.key = login],
             IF op = "create_superuser" THEN 1 ELSE 0)
    /\ UNCHANGED registrationVars

\* create wants a login that nobody has, reset one that somebody has.
LookUp(g) ==
    /\ req[g].pc = "look_up"
    /\ LET found == Owners(req[g].key) # {} IN
       \/ /\ req[g].op = "create_superuser"
          /\ IF found THEN Reply(g, "conflict") ELSE Goto(g, "create_superuser")
       \/ /\ req[g].op = "reset_password"
          /\ IF found THEN Goto(g, "reset") ELSE Reply(g, "not_found")
    /\ UNCHANGED <<started, asked, made, lost, registrationVars>>

\* The operator has typed the password twice.  The command ends in the same
\* way whether create_obj_in_db answers True or False.
CreateSuperuser(g) ==
    /\ req[g].pc = "create_superuser"
    /\ \E u \in ObjectId(g, UserIds) :
         \/ /\ Violates(u, req[g].key)
            /\ Reply(g, "ok")
            /\ UNCHANGED <<users, made, lost>>
         \/ /\ ~Violates(u, req[g].key)
            /\ Insert(g, u, TRUE)
            /\ Made(g, 1, u)
            /\ \/ Reply(g, "ok") /\ UNCHANGED lost
               \/ AnswerLost(g, u)
    /\ UNCHANGED <<started, asked, queue>>

\* The update goes by the login that was looked up, and nobody may have it.
ResetPassword(g) ==
    /\ req[g].pc = "reset"
    /\ users' = [u \in UserIds |->
                    IF u \in Owners(req[g].key)
                    THEN [users[u] EXCEPT !.password = req[g].n]
                    ELSE users[u]]
    /\ \/ Reply(g, "ok") /\ UNCHANGED lost
       \/ AnswerLost(g, Null)
    /\ UNCHANGED <<started, asked, made, queue>>

-----------------------------------------------------------------------------

\* Logins that a request may come with.
SomeLogins ==
    Choices(Logins, {users[u].login : u \in Rows}
                    \cup {req[g].key : g \in Greenlets})

ArriveUsers(g) ==
    \E login \in SomeLogins :
        \/ Register(g, login)
        \/ \E u \in Rows \cup {Null} : ChangeUser(g, u, login)
        \/ \E op \in Commands : Command(g, op, login)

ServeUsers(g) ==
    \/ CreateUser(g) \/ FetchUser(g) \/ VerificationLink(g) \/ Publish(g)
    \/ GetUser(g) \/ UpdateUser(g)
    \/ LookUp(g) \/ CreateSuperuser(g) \/ ResetPassword(g)
=============================================================================
