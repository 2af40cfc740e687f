----------------------------- MODULE Repository -----------------------------
(***************************************************************************)
(* Calls of the class Repositiry, as its clients see them.  Each method    *)
(* runs one transaction inside the decorator backoff: an OperationalError  *)
(* becomes a RetryExceptionError, which backoff answers by sleeping and    *)
(* running the method again.  The connection may break before the commit   *)
(* or after it, when only its answer is lost: the method cannot tell.      *)
(*                                                                         *)
(* The clients are the modules Registration and RoleAdmin; Backend puts    *)
(* them together.                                                          *)
(***************************************************************************)
EXTENDS Naturals, Sequences, FiniteSets

CONSTANTS
    Greenlets,    \* requests and commands that may be in progress at once
    RowIds,       \* uuids that rows get (bounds the model)
    Keys,         \* what else rows are found by: logins, names, users
    Delays,       \* delays that expo yields before its power overflows a float
    MaxRequests,  \* requests that are made in all (bounds the model)
    MaxRows,      \* rows that they are to create in all (bounds the model)
    Null          \* Python's None

\* The statuses of the answers; "dead" if the worker died before there was one.
Answers == {"created", "ok", "conflict", "not_found", "error", "dead"}

ASSUME RepositoryAssumption ==
    /\ Delays \in Nat /\ MaxRequests \in Nat \ {0} /\ MaxRows \in Nat
    /\ Null \notin RowIds \cup Keys \cup Answers

VARIABLES
    req,     \* greenlet -> the request it serves
    started, \* requests so far: they are numbered from 1
    done,    \* request -> its answer, Null while there is none
    asked,   \* request -> how many rows it is to create
    made,    \* <<n, k, id>>: the k-th row of request n was committed, as id
    lost     \* requests that were not told of one of their commits

repositoryVars == <<req, started, done, asked, made, lost>>

Numbers == 1..MaxRequests

NoRequest == [pc |-> "idle", op |-> Null, n |-> 0, tries |-> 0, row |-> Null,
              key |-> Null, rest |-> <<>>, ids |-> {}, held |-> {}]

\* tries: failures of the call in progress; row, key: the row that is created,
\* read or changed, and its login, name or user; rest: the names of roles still
\* to be created; ids, held: role ids that were sent, and rows that were read.
Request(labels, ops) ==
    [pc : labels \cup {"idle"}, op : ops \cup {Null}, n : Numbers \cup {0},
     tries : 0..Delays, row : RowIds \cup {Null}, key : Keys \cup {Null},
     rest : Seq(Keys), ids : SUBSET RowIds, held : SUBSET (RowIds \cup Keys)]

\* Request n has created the n-th of the rows old, and nothing else.
Init(old) ==
    /\ req = [g \in Greenlets |-> NoRequest]
    /\ started = Len(old)
    /\ done = [n \in Numbers |-> IF n <= Len(old) THEN "created" ELSE Null]
    /\ asked = [n \in Numbers |-> IF n <= Len(old) THEN 1 ELSE 0]
    /\ made = {<<n, 1, old[n]>> : n \in DOMAIN old}
    /\ lost = {}

-----------------------------------------------------------------------------

\* The rows that requests so far were to create.
Claimed == UNION {{<<n, k>> : k \in 1..asked[n]} : n \in Numbers}

\* A request arrives: q is its record but for its number, rows the number of
\* rows it is to create.  Which idle greenlet serves it makes no difference.
Begin(g, q, rows) ==
    /\ \E h \in Greenlets : req[h].pc = "idle"
    /\ g = CHOOSE h \in Greenlets : req[h].pc = "idle"
    /\ started < MaxRequests
    /\ Cardinality(Claimed) + rows <= MaxRows
    /\ started' = started + 1
    /\ req' = [req EXCEPT ![g] = [q EXCEPT !.n = started + 1]]
    /\ asked' = [asked EXCEPT ![started + 1] = rows]
    /\ UNCHANGED <<done, made, lost>>

\* It is answered.
Reply(g, answer) ==
    /\ req' = [req EXCEPT ![g] = NoRequest]
    /\ done' = [done EXCEPT ![req[g].n] = answer]

\* A call has returned: the next one is at label, and backoff starts anew.
Goto(g, label) ==
    /\ req' = [req EXCEPT ![g].pc = label, ![g].tries = 0]
    /\ UNCHANGED done

\* Where a method starts that runs several statements.
MethodOf(label) ==
    CASE label = "delete_role" -> "load_role"
      [] label = "commit_rows" -> "load_rows"
      [] OTHER -> label

\* Deviation: expo caps the exponent and never fails.
RetryForEver(g, row) ==
    /\ req' = [req EXCEPT ![g].pc = MethodOf(@), ![g].row = row,
                          ![g].held = {}]
    /\ UNCHANGED done

\* backoff: the call is made again after the next delay of expo, which is
\* computed as 0.1 * 2 ** n before it is cut down to the border.  When 2 ** n
\* no longer fits a float, expo raises and the request is answered 500.  row
\* is the id that the object has been given, which the next call keeps.
Retry(g, row) ==
    IF req[g].tries < Delays
    THEN /\ req' = [req EXCEPT ![g].pc = MethodOf(@), ![g].tries = @ + 1,
                               ![g].row = row, ![g].held = {}]
         /\ UNCHANGED done
    ELSE Reply(g, "error")

\* The connection breaks before anything is committed.
CallFails(g) ==
    /\ req[g].pc # "idle" /\ req[g].pc # "publish"
    /\ Retry(g, req[g].row)
    /\ UNCHANGED <<started, asked, made, lost>>

\* It breaks after the commit.
AnswerLost(g, row) ==
    /\ Retry(g, row)
    /\ lost' = lost \cup {req[g].n}

\* A uuid that no row has had; which one makes no difference.
Fresh(pool) ==
    LET free == pool \ {m[3] : m \in made}
    IN  IF free = {} THEN {} ELSE {CHOOSE id \in free : TRUE}

\* The keys among pool that a request may name: one in use, or one that is not;
\* which one of these makes no difference.
Choices(pool, used) ==
    LET free == pool \ used
    IN  (pool \cap used) \cup
        IF free = {} THEN {} ELSE {CHOOSE key \in free : TRUE}

\* Deviation: every try inserts an object of its own.
NewObject(g, pool) == Fresh(pool)

\* The id of the row that a call of create_obj_in_db inserts.  On a retry the
\* object still has the one it was first inserted with.
ObjectId(g, pool) ==
    IF req[g].row # Null THEN {req[g].row} ELSE Fresh(pool)

\* The k-th row of a request is committed with this id.
Made(g, k, id) == made' = made \cup {<<req[g].n, k, id>>}
-----------------------------------------------------------------------------
\* The positions of the rows that request n has committed: they are the first
\* ones it was to commit, or all of them.
Created(n)     == {m[2] : m \in {x \in made : x[1] = n}}
MadeInOrder(n) == \E k \in 0..asked[n] : Created(n) = 1..k
Complete(n)    == Created(n) = 1..asked[n]
=============================================================================
