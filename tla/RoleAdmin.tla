------------------------------ MODULE RoleAdmin ------------------------------
(***************************************************************************)
(* The tables "roles" and "user_roles": a superuser creates roles, changes *)
(* and deletes them, and assigns them to users.  Sessions models what an   *)
(* assignment does to the tokens of the user; this module, what the two    *)
(* tables go through when these requests meet and when Postgres fails.     *)
(***************************************************************************)
EXTENDS Repository, Functions

CONSTANTS
    RoleIds,    \* uuids of roles, among RowIds
    RoleNames,  \* names of roles, among Keys
    MaxBatch,   \* roles that one request creates at most (bounds the model)
    Members     \* users, who are never deleted

VARIABLES
    roles,      \* Postgres: id -> name, Null if there is no row
    user_roles  \* Postgres: user -> ids of roles

roleVars == <<roles, user_roles>>

RoleOps == {"create_roles", "update_role", "delete_role", "add_roles",
            "remove_roles"}

RoleLabels == {"create_role", "update_role", "load_role", "delete_role",
               "load_rows", "commit_rows"}

\* There are the roles old, and every member has them.
InitRoles(old) ==
    /\ roles = [i \in RoleIds |->
                  IF \E n \in DOMAIN old : old[n] = i
                  THEN CHOOSE name \in RoleNames : TRUE
                  ELSE Null]
    /\ user_roles = [u \in Members |-> Range(old)]

Defined == {i \in RoleIds : roles[i] # Null}

Named(name) == {i \in Defined : roles[i] = name}

Holders(i) == {u \in Members : i \in user_roles[u]}

\* Ids that a superuser can send: of a role there is or was.
Known == {m[3] : m \in made} \cap RoleIds

-----------------------------------------------------------------------------
(* POST /roles.                                                            *)

CreateRoles(g, names) ==
    /\ Begin(g, [NoRequest EXCEPT !.pc = "create_role", !.op = "create_roles",
                                  !.rest = names], Len(names))
    /\ UNCHANGED roleVars

\* The position in the body of the role to be created next.
Position(q) == asked[q.n] - Len(q.rest) + 1

\* Deviation: one object is filled in and inserted again.
SameObject(g) ==
    IF Len(req[g].rest) = 1
    THEN Reply(g, "created")
    ELSE /\ \E i \in ObjectId(g, RoleIds) :
              req' = [req EXCEPT ![g].rest = Tail(@), ![g].row = i,
                                 ![g].tries = 0]
         /\ UNCHANGED done

\* After a role is created comes the next one, or the answer 201.
NextRole(g) ==
    IF Len(req[g].rest) = 1
    THEN Reply(g, "created")
    ELSE /\ req' = [req EXCEPT ![g].rest = Tail(@), ![g].row = Null,
                               ![g].tries = 0]
         /\ UNCHANGED done

\* Deviation: the loop goes on after a conflict.
SkipRole(g) == NextRole(g)

\* create_roles stops at the first role that create_obj_in_db refuses.
RefuseRole(g) == Reply(g, "conflict")

\* create_roles: each role is inserted and committed by itself.
CreateRole(g) ==
    LET q == req[g] IN
    /\ q.pc = "create_role"
    /\ \E i \in ObjectId(g, RoleIds) :
         \/ /\ i \in Defined \/ Named(Head(q.rest)) # {}
            /\ RefuseRole(g)
            /\ UNCHANGED <<roles, made, lost>>
         \/ /\ i \notin Defined /\ Named(Head(q.rest)) = {}
            /\ roles' = [roles EXCEPT ![i] = Head(q.rest)]
            /\ Made(g, Position(q), i)
            /\ \/ NextRole(g) /\ UNCHANGED lost
               \/ AnswerLost(g, i)
    /\ UNCHANGED <<started, asked, user_roles>>

-----------------------------------------------------------------------------
(* PUT and DELETE /roles/<role_id>.                                        *)

\* sent: RoleSchema lets the body of an update bring an id as well.
ModifyRole(g, op, i, name, sent) ==
    /\ Begin(g, [NoRequest EXCEPT
                   !.pc = IF op = "update_role" THEN op ELSE "load_role",
                   !.op = op, !.row = i, !.key = name, !.ids = sent], 0)
    /\ UNCHANGED roleVars

\* The keys of "roles", and of "user_roles", if role i is to get this name and,
\* unless sent is empty, the id in sent.
UpdateViolates(i, name, sent) ==
    \/ Named(name) \ {i} # {}
    \/ sent \ {i} # {} /\ (sent \subseteq Defined \/ Holders(i) # {})

Updated(i, name, sent) ==
    [j \in RoleIds |-> IF j \in sent \/ (sent = {} /\ j = i) THEN name
                      ELSE IF j = i THEN Null ELSE roles[j]]

\* update_role: an id without a row is an update of no row, and answered 200.
UpdateRole(g) ==
    LET q == req[g] IN
    /\ q.pc = "update_role"
    /\ \/ /\ q.row \in Defined /\ UpdateViolates(q.row, q.key, q.ids)
          /\ Reply(g, "conflict")
          /\ UNCHANGED <<roles, lost>>
       \/ /\ q.row \in Defined => ~UpdateViolates(q.row, q.key, q.ids)
          /\ roles' = IF q.row \in Defined
                      THEN Updated(q.row, q.key, q.ids) ELSE roles
          /\ \/ Reply(g, "ok") /\ UNCHANGED lost
             \/ AnswerLost(g, q.row)
    /\ UNCHANGED <<started, asked, made, user_roles>>

\* delete_object_by_field loads the role, and the flush its users ...
LoadRole(g) ==
    LET q == req[g] IN
    /\ q.pc = "load_role"
    /\ IF q.row \in Defined
       THEN /\ req' = [req EXCEPT ![g].pc = "delete_role",
                                  ![g].held = Holders(q.row)]
            /\ UNCHANGED done
       ELSE Reply(g, "not_found")
    /\ UNCHANGED <<started, asked, made, lost, roleVars>>

\* session.delete takes the role away from the users that were loaded.
Unassigned(i, us) ==
    [u \in Members |-> IF u \in us THEN user_roles[u] \ {i} ELSE user_roles[u]]

\* The foreign key: a role that some user still has cannot be deleted.
Orphans(i, ur) == \E u \in Members : i \in ur[u]

\* ... then deletes the rows of user_roles it has loaded, and the role.  If
\* one of these rows is gone by now the flush fails, and so it does, by the
\* foreign key, if there is another one; the view answers 500.  A call that
\* breaks here starts again with LoadRole.
DeleteRole(g) ==
    LET q == req[g]
        kept == Unassigned(q.row, q.held)
    IN  /\ q.pc = "delete_role"
        /\ \/ /\ q.held \subseteq Holders(q.row)
              /\ ~Orphans(q.row, kept)
              /\ user_roles' = kept
              /\ roles' = [roles EXCEPT ![q.row] = Null]
              /\ \/ Reply(g, "ok") /\ UNCHANGED lost
                 \/ AnswerLost(g, q.row)
           \/ /\ ~(q.held \subseteq Holders(q.row)) \/ Orphans(q.row, kept)
              /\ Reply(g, "error")
              /\ UNCHANGED <<roleVars, lost>>
        /\ UNCHANGED <<started, asked, made>>

-----------------------------------------------------------------------------
(* POST and DELETE /roles/user/<user_id>, after revoke_access_token.       *)

ModifyUser(g, op, u, ids) ==
    /\ Begin(g, [NoRequest EXCEPT !.pc = "load_rows", !.op = op, !.key = u,
                                  !.ids = ids], 0)
    /\ UNCHANGED roleVars

\* The method loads the user's roles and takes the ids that were sent one after
\* the other.  It stops at the first role that is missing, and answers False, or
\* that is to be taken away though the user does not have it, when list.remove
\* raises; the order in the body decides if there are both.
LoadRows(g) ==
    LET q == req[g]
        missing == q.ids \ Defined
        unassigned == {i \in q.ids \cap Defined :
                          q.op = "remove_roles" /\ i \notin user_roles[q.key]}
    IN  /\ q.pc = "load_rows"
        /\ \/ missing # {} /\ Reply(g, "not_found")
           \/ unassigned # {} /\ Reply(g, "error")
           \/ /\ missing = {} /\ unassigned = {}
              /\ req' = [req EXCEPT ![g].pc = "commit_rows",
                                    ![g].held = user_roles[q.key]]
              /\ UNCHANGED done
        /\ UNCHANGED <<started, asked, made, lost, roleVars>>

\* Deviation: the row of a role is not looked for again.
InsertableAnyway(u, ids) == user_roles[u] \cap ids = {}

\* The keys of "user_roles": the pair is new and the role has a row.
Insertable(u, ids) == user_roles[u] \cap ids = {} /\ ids \subseteq Defined

\* add_many_to_many_row commits the pairs that were not there when they were
\* loaded; one that violates a key is answered 500.
AddUserRoles(g) ==
    LET q == req[g]
        added == q.ids \ q.held
    IN  /\ q.pc = "commit_rows" /\ q.op = "add_roles"
        /\ \/ /\ Insertable(q.key, added)
              /\ user_roles' = [user_roles EXCEPT ![q.key] = @ \cup added]
              /\ \/ Reply(g, "ok") /\ UNCHANGED lost
                 \/ AnswerLost(g, Null)
           \/ /\ ~Insertable(q.key, added)
              /\ Reply(g, "error")
              /\ UNCHANGED <<user_roles, lost>>
        /\ UNCHANGED <<started, asked, made, roles>>

\* remove_many_to_many_row deletes the pairs; if one is gone by now the flush
\* fails and the view answers 500.
RemoveUserRoles(g) ==
    LET q == req[g] IN
    /\ q.pc = "commit_rows" /\ q.op = "remove_roles"
    /\ \/ /\ q.ids \subseteq user_roles[q.key]
          /\ user_roles' = [user_roles EXCEPT ![q.key] = @ \ q.ids]
          /\ \/ Reply(g, "ok") /\ UNCHANGED lost
             \/ AnswerLost(g, Null)
       \/ /\ ~(q.ids \subseteq user_roles[q.key])
          /\ Reply(g, "error")
          /\ UNCHANGED <<user_roles, lost>>
    /\ UNCHANGED <<started, asked, made, roles>>

-----------------------------------------------------------------------------

\* Names that a request may come with.
SomeNames ==
    Choices(RoleNames, {roles[i] : i \in Defined}
                       \cup {req[g].key : g \in Greenlets}
                       \cup UNION {Range(req[g].rest) : g \in Greenlets})

Batches == UNION {[1..k -> RoleNames] : k \in 1..MaxBatch}

ArriveRoles(g) ==
    \/ \E names \in Batches : Head(names) \in SomeNames /\ CreateRoles(g, names)
    \/ \E i \in Known, name \in SomeNames, sent \in {{}} \cup {{j} : j \in Known} :
         ModifyRole(g, "update_role", i, name, sent)
    \/ \E i \in Known : ModifyRole(g, "delete_role", i, Null, {})
    \/ \E u \in Members, ids \in SUBSET Known \ {{}} :
         \/ ModifyUser(g, "add_roles", u, ids)
         \/ ModifyUser(g, "remove_roles", u, ids)

ServeRoles(g) ==
    \/ CreateRole(g) \/ UpdateRole(g) \/ LoadRole(g) \/ DeleteRole(g)
    \/ LoadRows(g) \/ AddUserRoles(g) \/ RemoveUserRoles(g)
=============================================================================
