--------------------------- MODULE SocialAccounts ---------------------------
(***************************************************************************)
(* Login through a social provider.  The first login with a social id      *)
(* creates a row in "users", under a random login, and a row in            *)
(* "social_account"; later logins look both up.  Each query is a greenlet  *)
(* switch, so that two logins with one social id, a change of login and a  *)
(* restart of the worker may fall between any two of them.                 *)
(***************************************************************************)
EXTENDS Naturals, FiniteSets

CONSTANTS
    Socials,      \* (social_id, social_name) pairs: accounts at providers
    UserIds,      \* uuids that new rows of "users" get (bounds the model)
    RandomLogins, \* results of generate_random_string (bounds the restarts)
    ChosenLogins, \* logins that users give themselves later
    Requests,     \* greenlets
    Null          \* Python's None

ASSUME LoginAssumption == RandomLogins \cap ChosenLogins = {}
ASSUME NullAssumption  == Null \notin UserIds \cup RandomLogins \cup ChosenLogins

Logins == RandomLogins \cup ChosenLogins

\* _create_random_user: attempts = 3.
MaxAttempts == 3

VARIABLES
    generated,      \* the default of UserRandomFields.login, set at import
    drawn,          \* random logins of this process and of earlier ones
    login,          \* Postgres, users: id -> login, Null if there is no row
    social_account, \* Postgres: social -> user_id, Null if there is no row
    sessions,       \* <<s, u>>: a login with s was answered for user u
    refused,        \* socials whose last login was answered 404
    req             \* greenlet -> the login it serves

vars == <<generated, drawn, login, social_account, sessions, refused, req>>

-----------------------------------------------------------------------------

Labels == {"idle", "get_user", "create_user", "fetch_user",
           "create_account", "answer", "delete_account"}

NoRequest == [pc |-> "idle", social |-> Null, user |-> Null, attempts |-> 0]

Rows == {u \in UserIds : login[u] # Null}

Goto(r, label) == req' = [req EXCEPT ![r].pc = label]

\* ConflictError and ObjectDoesNotExistError both become a 404.
Refuse(r) ==
    /\ refused' = refused \cup {req[r].social}
    /\ req' = [req EXCEPT ![r] = NoRequest]

Init ==
    /\ generated \in RandomLogins
    /\ drawn = {generated}
    /\ login = [u \in UserIds |-> Null]
    /\ social_account = [s \in Socials |-> Null]
    /\ sessions = {}
    /\ refused = {}
    /\ req = [r \in Requests |-> NoRequest]

\* login_via_social_provider: a known account leads to its user, any other
\* one to _create_random_user.
LoginViaSocialProvider(r, s) ==
    /\ req[r].pc = "idle"
    /\ req' = [req EXCEPT ![r] =
         IF social_account[s] # Null
         THEN [pc |-> "get_user", social |-> s, user |-> social_account[s],
               attempts |-> 0]
         ELSE [pc |-> "create_user", social |-> s, user |-> Null,
               attempts |-> MaxAttempts]]
    /\ UNCHANGED <<generated, drawn, login, social_account, sessions, refused>>

\* get_object_by_field(User, id=...) for the user of a known account.
GetUser(r) ==
    /\ req[r].pc = "get_user"
    /\ IF login[req[r].user] # Null
       THEN Goto(r, "answer") /\ UNCHANGED refused
       ELSE Refuse(r)
    /\ UNCHANGED <<generated, drawn, login, social_account, sessions>>

Owners(l) == {u \in UserIds : login[u] = l}

\* Deviation: nothing stops a second row with the same login.
TakenNever(l) == FALSE

\* users.login is unique: an insertion or an update with a login that some
\* row has fails.
Taken(l) == Owners(l) # {}

\* One turn of the loop in _create_random_user: UserRandomFields() returns
\* the login that was drawn when the class was defined.
CreateUser(r) ==
    /\ req[r].pc = "create_user"
    /\ IF Taken(generated)
       THEN IF req[r].attempts > 1
            THEN /\ req' = [req EXCEPT ![r].attempts = @ - 1]
                 /\ UNCHANGED <<login, refused>>
            ELSE Refuse(r) /\ UNCHANGED login
       ELSE /\ \E u \in UserIds \ Rows : login' = [login EXCEPT ![u] = generated]
            /\ Goto(r, "fetch_user")
            /\ UNCHANGED refused
    /\ UNCHANGED <<generated, drawn, social_account, sessions>>

\* The row is read back by its login, not by its id.
FetchUser(r) ==
    /\ req[r].pc = "fetch_user"
    /\ IF Owners(generated) # {}
       THEN /\ \E u \in Owners(generated) :
                 req' = [req EXCEPT ![r].pc = "create_account", ![r].user = u]
            /\ UNCHANGED refused
       ELSE Refuse(r)
    /\ UNCHANGED <<generated, drawn, login, social_account, sessions>>

\* Deviation: the account is linked to a login instead of an id.
LinkedToLogin(s, u) == [social_account EXCEPT ![s] = login[u]]

\* (social_id, social_name) is unique: the insertion fails for an account
\* that was linked in the meantime ...
Linked(s, u) ==
    [social_account EXCEPT ![s] = IF @ = Null THEN u ELSE @]

\* ... and create_obj_in_db's False is dropped.
CreateSocialAccount(r) ==
    /\ req[r].pc = "create_account"
    /\ social_account' = Linked(req[r].social, req[r].user)
    /\ Goto(r, "answer")
    /\ UNCHANGED <<generated, drawn, login, sessions, refused>>

\* log_login_attempt and generate_request_id: tokens of the user are sent.
Answer(r) ==
    /\ req[r].pc = "answer"
    /\ sessions' = sessions \cup {<<req[r].social, req[r].user>>}
    /\ refused' = refused \ {req[r].social}
    /\ req' = [req EXCEPT ![r] = NoRequest]
    /\ UNCHANGED <<generated, drawn, login, social_account>>

\* ChangeUserView.put, by a user who has a session.
ChangeLogin(u, l) ==
    /\ \E s \in Socials : <<s, u>> \in sessions
    /\ ~Taken(l)
    /\ login' = [login EXCEPT ![u] = l]
    /\ UNCHANGED <<generated, drawn, social_account, sessions, refused, req>>

\* delete_social_account, by a user who has a session: first every session
\* of the user is ended, also when there turns out to be nothing to delete ...
RevokeBeforeDelete(r, s, u) ==
    /\ req[r].pc = "idle"
    /\ \E t \in Socials : <<t, u>> \in sessions
    /\ sessions' = {x \in sessions : x[2] # u}
    /\ req' = [req EXCEPT ![r] = [pc |-> "delete_account", social |-> s,
                                 user |-> u, attempts |-> 0]]
    /\ UNCHANGED <<generated, drawn, login, social_account, refused>>

\* ... then the row is deleted, if it is one of that user.
DeleteSocialAccount(r) ==
    LET s == req[r].social IN
    /\ req[r].pc = "delete_account"
    /\ social_account' = [social_account EXCEPT
         ![s] = IF @ = req[r].user THEN Null ELSE @]
    /\ req' = [req EXCEPT ![r] = NoRequest]
    /\ UNCHANGED <<generated, drawn, login, sessions, refused>>

\* The worker is restarted and the class is defined anew.
Restart ==
    /\ \E l \in RandomLogins \ drawn :
         generated' = l /\ drawn' = drawn \cup {l}
    /\ req' = [r \in Requests |-> NoRequest]
    /\ UNCHANGED <<login, social_account, sessions, refused>>

Serve(r) ==
    \/ GetUser(r) \/ CreateUser(r) \/ FetchUser(r)
    \/ CreateSocialAccount(r) \/ Answer(r) \/ DeleteSocialAccount(r)

Arrive(r) ==
    \/ \E s \in Socials : LoginViaSocialProvider(r, s)
    \/ \E s \in Socials, u \in UserIds : RevokeBeforeDelete(r, s, u)

Next ==
    \/ \E r \in Requests : Arrive(r) \/ Serve(r)
    \/ \E u \in UserIds, l \in ChosenLogins : ChangeLogin(u, l)
    \/ Restart

Spec == Init /\ [][Next]_vars

-----------------------------------------------------------------------------
(* Properties.                                                             *)

\* Rows, requests and the generated login keep their shapes.
TypeOK ==
    /\ generated \in drawn /\ drawn \subseteq RandomLogins
    /\ login \in [UserIds -> Logins \cup {Null}]
    /\ social_account \in [Socials -> UserIds \cup {Null}]
    /\ sessions \subseteq Socials \X UserIds
    /\ refused \subseteq Socials
    /\ req \in [Requests -> [pc : Labels, social : Socials \cup {Null},
                             user : UserIds \cup {Null},
                             attempts : 0..MaxAttempts]]

\* A new row is read back by a login that all first logins of a process
\* share.  Still no two social accounts ever lead to one user.
UsersNotShared ==
    \A s, t \in Socials :
        social_account[s] # Null /\ social_account[s] = social_account[t]
            => s = t

\* Nobody is given a session of a user that somebody else, too, got one of:
\* whatever the interleaving, a user is reached from one social account only.
SessionsNotShared ==
    \A x, y \in sessions : x[2] = y[2] => x[1] = y[1]

-----------------------------------------------------------------------------
(* The inductive invariant behind these properties.                        *)

\* The requests that will hand out, or link, the user they hold.
Holding == {"get_user", "create_account", "answer"}

\* s leads to u: by a link, a session, or a request on its way to one.
Claims(s, u) ==
    \/ social_account[s] = u
    \/ <<s, u>> \in sessions
    \/ \E r \in Requests :
          req[r].pc \in Holding /\ req[r].social = s /\ req[r].user = u

\* Requests hold what their next step needs.
RequestsFilled ==
    \A r \in Requests :
        /\ req[r].pc # "idle" => req[r].social \in Socials
        /\ req[r].pc \in Holding \cup {"delete_account"} =>
              req[r].user \in UserIds

LoginsUnique ==
    \A u, v \in UserIds : login[u] # Null /\ login[u] = login[v] => u = v

\* A request about to read its new user back finds it, and nobody else does.
NewUserUnclaimed ==
    \A r \in Requests :
        req[r].pc = "fetch_user" =>
            /\ \E u \in UserIds :
                  login[u] = generated /\ \A s \in Socials : ~Claims(s, u)
            /\ \A q \in Requests : req[q].pc = "fetch_user" => q = r

AccountInv ==
    /\ TypeOK
    /\ RequestsFilled
    /\ LoginsUnique
    /\ NewUserUnclaimed
    /\ \A u \in UserIds, s, t \in Socials :
          Claims(s, u) /\ Claims(t, u) => s = t
    /\ \A u \in UserIds, s \in Socials : Claims(s, u) => u \in Rows

-----------------------------------------------------------------------------
(* What a document says and the code does not do.                          *)

\* Docs/3_social/1_social_registration_login.md: the first login with a social
\* account creates its user and is not turned away.
FirstLoginServed == refused = {}
=============================================================================
