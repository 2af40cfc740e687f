---------------------------- MODULE BackendProofs ----------------------------
(***************************************************************************)
(* The inductive invariant of Backend: every number of greenlets, rows,    *)
(* requests, delays and users.                                             *)
(***************************************************************************)
EXTENDS Backend, TLAPS

Labels == UserLabels \cup RoleLabels
Ops    == UserOps \cup RoleOps

\* The tables and the queue keep their shapes, and no role is dangling.
TablesOK ==
    /\ users \in [UserIds -> User \cup {Null}]
    /\ queue \subseteq [by : Numbers, user : UserIds]
    /\ roles \in [RoleIds -> RoleNames \cup {Null}]
    /\ user_roles \in [Members -> SUBSET RoleIds]
    /\ NoDanglingRole

\* Request n commits nothing, or its next row, or the row it has committed last.
Adds(n) ==
    \/ made' = made
    \/ \E k \in 1..asked[n], id \in RowIds :
         /\ made' = made \cup {<<n, k, id>>}
         /\ \/ Created(n) = 1..(k - 1)
            \/ Created(n) = 1..k /\ <<n, k, id>> \in made

\* What AnswersTruthful asks of an answer to request n.
Truthful(n, answer) ==
    /\ answer = "created" => Complete(n)
    /\ answer = "conflict" /\ asked[n] > 0 /\ n \notin lost => ~Complete(n)

\* A uuid or a key is not None.
LEMMA NotNull ==
    /\ \A u \in UserIds : u \in RowIds /\ u # Null
    /\ \A i \in RoleIds : i \in RowIds /\ i # Null
    /\ \A k \in Logins \cup RoleNames \cup Members : k \in Keys /\ k # Null
BY RepositoryAssumption, BackendAssumption

\* The positions of request n in a set of rows.
Positions(rows, n) == {m[2] : m \in {x \in rows : x[1] = n}}

LEMMA PositionsIs ==
    ASSUME NEW rows, rows \subseteq Numbers \X (Nat \ {0}) \X RowIds, NEW n, NEW k
    PROVE  k \in Positions(rows, n) <=> \E id : <<n, k, id>> \in rows
<1>1. ASSUME k \in Positions(rows, n) PROVE \E id : <<n, k, id>> \in rows
  <2>1. PICK m \in rows : m[1] = n /\ m[2] = k
    BY <1>1 DEF Positions
  <2>2. m = <<n, k, m[3]>>
    BY <2>1
  <2> QED BY <2>1, <2>2
<1>2. ASSUME NEW id, <<n, k, id>> \in rows PROVE k \in Positions(rows, n)
  BY <1>2 DEF Positions
<1> QED BY <1>1, <1>2

\* What one more row does to the positions of all requests.
LEMMA PositionsNext ==
    ASSUME NEW rows, rows \subseteq Numbers \X (Nat \ {0}) \X RowIds,
           NEW n \in Numbers, NEW k \in Nat \ {0}, NEW id \in RowIds,
           NEW more, more = rows \cup {<<n, k, id>>}, NEW j, NEW l
    PROVE  l \in Positions(more, j)
             <=> l \in Positions(rows, j) \/ (j = n /\ l = k)
<1>1. \A i : i \in Positions(rows, j) <=> \E r : <<j, i, r>> \in rows
  BY PositionsIs
<1>2. more \subseteq Numbers \X (Nat \ {0}) \X RowIds
  OBVIOUS
<1>3. \A i : i \in Positions(more, j) <=> \E r : <<j, i, r>> \in more
  BY <1>2, PositionsIs
<1> QED BY <1>1, <1>3

LEMMA PositionsGrow ==
    ASSUME NEW rows, rows \subseteq Numbers \X (Nat \ {0}) \X RowIds,
           NEW n \in Numbers, NEW k \in Nat \ {0}, NEW id \in RowIds,
           NEW more, more = rows \cup {<<n, k, id>>}
    PROVE  Positions(more, n) = Positions(rows, n) \cup {k}
<1>1. \A l : l \in Positions(more, n) <=> l \in Positions(rows, n) \cup {k}
  BY PositionsNext
<1> QED BY <1>1

LEMMA PositionsStay ==
    ASSUME NEW rows, rows \subseteq Numbers \X (Nat \ {0}) \X RowIds,
           NEW n \in Numbers, NEW k \in Nat \ {0}, NEW id \in RowIds,
           NEW more, more = rows \cup {<<n, k, id>>}, NEW j, j # n
    PROVE  Positions(more, j) = Positions(rows, j)
<1>1. \A l : l \in Positions(more, j) <=> l \in Positions(rows, j)
  BY PositionsNext
<1> QED BY <1>1

LEMMA CreatedGrows ==
    ASSUME made \subseteq Numbers \X (Nat \ {0}) \X RowIds,
           NEW n \in Numbers, NEW k \in Nat \ {0}, NEW id \in RowIds,
           made' = made \cup {<<n, k, id>>}
    PROVE  /\ Created(n)' = Created(n) \cup {k}
           /\ \A j : j # n => Created(j)' = Created(j)
<1>1. Positions(made', n) = Positions(made, n) \cup {k}
  BY PositionsGrow
<1>2. ASSUME NEW j, j # n PROVE Positions(made', j) = Positions(made, j)
  BY <1>2, PositionsStay
<1>3. Created(n)' = Created(n) \cup {k}
  BY <1>1 DEF Created, Positions
<1>4. ASSUME NEW j, j # n PROVE Created(j)' = Created(j)
  BY <1>2, <1>4 DEF Created, Positions
<1> QED BY <1>3, <1>4

\* A commit by request n leaves rows in order and no position with two rows.
LEMMA AddsOK ==
    ASSUME BackendInv, NEW n \in Numbers, Adds(n), asked' = asked
    PROVE  /\ made' \subseteq Numbers \X (Nat \ {0}) \X RowIds
           /\ CreatedOnce'
           /\ \A j \in Numbers : MadeInOrder(j)'
           /\ \A j : j # n => Created(j)' = Created(j)
<1>1. made \subseteq Numbers \X (Nat \ {0}) \X RowIds /\ asked \in [Numbers -> Nat]
  BY DEF BackendInv, TypeOK
<1>2. CASE made' = made
  BY <1>2, <1>1 DEF BackendInv, CreatedOnce, AnswersTruthful, MadeInOrder, Created
<1>3. ASSUME NEW k \in 1..asked[n], NEW id \in RowIds,
             made' = made \cup {<<n, k, id>>},
             \/ Created(n) = 1..(k - 1)
             \/ Created(n) = 1..k /\ <<n, k, id>> \in made
      PROVE  /\ made' \subseteq Numbers \X (Nat \ {0}) \X RowIds
             /\ CreatedOnce'
             /\ \A j \in Numbers : MadeInOrder(j)'
             /\ \A j : j # n => Created(j)' = Created(j)
  <2>1. k \in Nat \ {0} /\ k <= asked[n] /\ asked[n] \in Nat
    BY <1>1
  <2>2. made' \subseteq Numbers \X (Nat \ {0}) \X RowIds
    BY <1>1, <1>3, <2>1
  <2>3. /\ Created(n)' = Created(n) \cup {k}
        /\ \A j : j # n => Created(j)' = Created(j)
    BY <1>1, <1>3, <2>1, CreatedGrows
  <2>4. Created(n)' = 1..k
    BY <1>3, <2>1, <2>3
  <2>5. CreatedOnce'
    <3>1. CASE <<n, k, id>> \in made
      <4>1. made' = made
        BY <3>1, <1>3
      <4> QED BY <4>1 DEF BackendInv, CreatedOnce
    <3>2. CASE Created(n) = 1..(k - 1)
      <4>1. k \notin Created(n)
        BY <3>2, <2>1
      <4>2. \A x \in made : ~(x[1] = n /\ x[2] = k)
        BY <4>1 DEF Created
      <4>3. \A x \in made' : x \in made \/ x = <<n, k, id>>
        BY <1>3
      <4> QED BY <4>2, <4>3 DEF BackendInv, CreatedOnce
    <3> QED BY <3>1, <3>2, <1>3
  <2>6. ASSUME NEW j \in Numbers PROVE MadeInOrder(j)'
    <3>1. CASE j = n
      BY <3>1, <2>1, <2>4, <1>1 DEF MadeInOrder
    <3>2. CASE j # n
      BY <3>2, <2>3 DEF MadeInOrder, BackendInv, AnswersTruthful
    <3> QED BY <3>1, <3>2
  <2> QED BY <2>2, <2>3, <2>5, <2>6
<1> QED BY <1>2, <1>3 DEF Adds

\* A step of one greenlet, in whichever way its request goes on.
Stays(g, x) ==
    /\ req' = [req EXCEPT ![g] = x]
    /\ \/ x.pc # "idle" /\ x.n = req[g].n /\ done' = done
          /\ RequestOK(x) /\ ProgressOK(x)'
       \/ x = NoRequest
          /\ \E n \in Numbers, a \in Answers :
                /\ n = req[g].n /\ done' = [done EXCEPT ![n] = a]
                /\ Truthful(n, a)'

\* What is the same for all steps of one request.
LEMMA ServeStep ==
    ASSUME BackendInv, NEW g \in Greenlets, req[g].pc # "idle",
           NEW x \in Request(Labels, Ops), Stays(g, x),
           Adds(req[g].n), UNCHANGED <<started, asked>>,
           lost' \in {lost, lost \cup {req[g].n}}, TablesOK'
    PROVE  BackendInv'
<1> DEFINE n == req[g].n
<1>1. /\ req \in [Greenlets -> Request(Labels, Ops)]
      /\ started \in 0..MaxRequests /\ done \in [Numbers -> Answers \cup {Null}]
      /\ asked \in [Numbers -> Nat] /\ lost \subseteq Numbers
  BY DEF BackendInv, TypeOK, Labels, Ops
<1>2. n \in Numbers /\ n \in 1..started /\ done[n] = Null
  BY <1>1, RepositoryAssumption DEF BackendInv, NumbersOK, Numbers
<1>3. /\ made' \subseteq Numbers \X (Nat \ {0}) \X RowIds
      /\ CreatedOnce'
      /\ \A j \in Numbers : MadeInOrder(j)'
      /\ \A j : j # n => Created(j)' = Created(j)
  BY <1>2, AddsOK
<1>4. req' \in [Greenlets -> Request(Labels, Ops)]
  BY <1>1 DEF Stays
<1>5. done' \in [Numbers -> Answers \cup {Null}]
  BY <1>1, <1>2 DEF Stays
<1>6. TypeOK'
  BY <1>1, <1>2, <1>3, <1>4, <1>5 DEF TypeOK, TablesOK, Labels, Ops
<1>7. \A h \in Greenlets \ {g} : req'[h] = req[h]
  BY <1>1 DEF Stays
<1>8. req'[g] = x
  BY <1>1 DEF Stays
<1>9. \A m \in Numbers \ {n} : done'[m] = done[m]
  BY <1>1 DEF Stays
<1>10. NoRequest.pc = "idle"
  BY DEF NoRequest
<1>11. NumbersOK'
  <2>1. ASSUME NEW h \in Greenlets, req'[h].pc # "idle"
        PROVE  req'[h].n \in 1..started' /\ done'[req'[h].n] = Null
    <3>1. CASE h = g
      BY <3>1, <2>1, <1>2, <1>8, <1>10 DEF Stays
    <3>2. CASE h # g
      <4>1. /\ req[h].pc # "idle" /\ req[h].n \in 1..started
            /\ done[req[h].n] = Null /\ req[h].n # n
        BY <3>2, <2>1, <1>7 DEF BackendInv, NumbersOK
      <4>2. req[h].n \in Numbers
        BY <4>1, <1>1, RepositoryAssumption DEF Numbers
      <4> QED BY <4>1, <4>2, <3>2, <1>7, <1>9
    <3> QED BY <3>1, <3>2
  <2>2. ASSUME NEW h \in Greenlets, NEW i \in Greenlets,
               req'[h].pc # "idle", req'[i].pc # "idle", req'[h].n = req'[i].n
        PROVE  h = i
    BY <2>2, <1>7, <1>8, <1>10 DEF Stays, BackendInv, NumbersOK
  <2>3. ASSUME NEW m \in Numbers, m > started
        PROVE  asked'[m] = 0 /\ done'[m] = Null /\ Created(m)' = {}
    <3>1. m # n
      BY <2>3, <1>1, <1>2 DEF Numbers
    <3> QED BY <2>3, <3>1, <1>3, <1>9 DEF BackendInv, NumbersOK
  <2> QED BY <2>1, <2>2, <2>3 DEF NumbersOK
<1>12. ASSUME NEW h \in Greenlets, req'[h].pc # "idle"
       PROVE  RequestOK(req'[h]) /\ ProgressOK(req[h])'
  <2>1. CASE h = g
    BY <2>1, <1>8, <1>10, <1>12 DEF Stays
  <2>2. CASE h # g
    <3>1. req'[h] = req[h] /\ req[h].n # n
      BY <2>2, <1>7, <1>12 DEF BackendInv, NumbersOK
    <3>2. RequestOK(req[h]) /\ ProgressOK(req[h])
      BY <3>1, <1>12 DEF BackendInv
    <3>3. Created(req[h].n)' = Created(req[h].n)
      BY <3>1, <1>3
    <3>4. made \subseteq made' /\ lost \subseteq lost'
      BY DEF Adds
    <3> QED BY <3>1, <3>2, <3>3, <3>4 DEF ProgressOK, Creating, Complete, Position
  <2> QED BY <2>1, <2>2
<1>13. ASSUME NEW m \in Numbers
       PROVE  /\ done'[m] = "created" => Complete(m)'
              /\ done'[m] = "conflict" /\ asked'[m] > 0 /\ m \notin lost'
                 => ~Complete(m)'
  <2>1. CASE m = n
    BY <2>1, <1>1, <1>2, RepositoryAssumption DEF Stays, Truthful, Answers
  <2>2. CASE m # n
    BY <2>2, <1>3, <1>9 DEF Complete, BackendInv, AnswersTruthful
  <2> QED BY <2>1, <2>2
<1> QED BY <1>3, <1>6, <1>11, <1>12, <1>13
       DEF BackendInv, AnswersTruthful, TablesOK

-----------------------------------------------------------------------------
(* The ways in which a request goes on.                                    *)

\* What is known of a request in progress.
LEMMA InProgress ==
    ASSUME BackendInv, NEW g \in Greenlets, req[g].pc # "idle"
    PROVE  /\ req \in [Greenlets -> Request(Labels, Ops)]
           /\ req[g] \in Request(Labels, Ops)
           /\ RequestOK(req[g]) /\ ProgressOK(req[g])
           /\ req[g].n \in Numbers /\ asked[req[g].n] \in Nat
           /\ done \in [Numbers -> Answers \cup {Null}]
           /\ made \subseteq Numbers \X (Nat \ {0}) \X RowIds
           /\ TablesOK
<1>1. /\ req \in [Greenlets -> Request(Labels, Ops)] /\ started \in 0..MaxRequests
      /\ asked \in [Numbers -> Nat]
      /\ req[g].n \in 1..started
  BY DEF BackendInv, TypeOK, NumbersOK, Labels, Ops
<1>2. req[g].n \in Numbers
  BY <1>1, RepositoryAssumption DEF Numbers
<1> QED BY <1>1, <1>2 DEF BackendInv, TypeOK, TablesOK

LEMMA ReplyStays ==
    ASSUME BackendInv, NEW g \in Greenlets, req[g].pc # "idle",
           NEW n \in Numbers, n = req[g].n,
           NEW answer \in Answers, Reply(g, answer), Truthful(n, answer)'
    PROVE  \E x \in Request(Labels, Ops) : Stays(g, x)
<1>1. NoRequest \in Request(Labels, Ops)
  BY RepositoryAssumption DEF NoRequest, Request
<1> QED BY <1>1 DEF Reply, Stays

\* An answer that claims nothing is always true.
LEMMA PlainReplyStays ==
    ASSUME BackendInv, NEW g \in Greenlets, req[g].pc # "idle",
           NEW answer \in Answers \ {"created", "conflict"}, Reply(g, answer)
    PROVE  \E x \in Request(Labels, Ops) : Stays(g, x)
BY InProgress, ReplyStays DEF Truthful

LEMMA GotoStays ==
    ASSUME BackendInv, NEW g \in Greenlets, req[g].pc # "idle",
           NEW label \in Labels, label # "idle", Goto(g, label), NEW x,
           x = [req[g] EXCEPT !.pc = label, !.tries = 0],
           RequestOK(x), ProgressOK(x)'
    PROVE  /\ x \in Request(Labels, Ops)
           /\ Stays(g, x)
<1>1. req \in [Greenlets -> Request(Labels, Ops)] /\ req[g] \in Request(Labels, Ops)
  BY InProgress
<1>2. x \in Request(Labels, Ops) /\ x.pc # "idle" /\ x.n = req[g].n
  <2>1. 0 \in 0..Delays
    BY RepositoryAssumption
  <2> QED BY <1>1, <2>1 DEF Request
<1>3. req' = [req EXCEPT ![g] = x] /\ done' = done
  BY <1>1 DEF Goto
<1> QED BY <1>2, <1>3 DEF Stays

\* A method starts at a label of its own kind.
LEMMA MethodOfLabel ==
    ASSUME NEW label \in Labels
    PROVE  /\ MethodOf(label) \in Labels
           /\ label = "delete_role" => MethodOf(label) = "load_role"
           /\ label = "commit_rows" => MethodOf(label) = "load_rows"
           /\ label \notin {"delete_role", "commit_rows"} =>
                 MethodOf(label) = label
BY DEF MethodOf, Labels, UserLabels, RoleLabels

\* Retried is what Retry makes of a request.
Retried(q, row) ==
    [q EXCEPT !.pc = MethodOf(q.pc), !.tries = q.tries + 1, !.row = row,
              !.held = {}]

LEMMA RetryStays ==
    ASSUME BackendInv, NEW g \in Greenlets, req[g].pc # "idle",
           NEW row \in RowIds \cup {Null}, Retry(g, row),
           NEW x, x = Retried(req[g], row), RequestOK(x), ProgressOK(x)'
    PROVE  \E y \in Request(Labels, Ops) : Stays(g, y)
<1>1. /\ req \in [Greenlets -> Request(Labels, Ops)]
      /\ req[g] \in Request(Labels, Ops)
  BY InProgress
<1>2. CASE req[g].tries < Delays
  <2>1. req[g].pc \in Labels
    BY <1>1 DEF Request
  <2>2. MethodOf(req[g].pc) \in Labels /\ MethodOf(req[g].pc) # "idle"
    BY <2>1, MethodOfLabel DEF Labels, UserLabels, RoleLabels
  <2>3. req[g].tries + 1 \in 0..Delays
    BY <1>1, <1>2, RepositoryAssumption DEF Request
  <2>4. x \in Request(Labels, Ops) /\ x.pc # "idle" /\ x.n = req[g].n
    BY <1>1, <2>2, <2>3 DEF Request, Retried
  <2>5. req' = [req EXCEPT ![g] = x] /\ done' = done
    BY <1>1, <1>2 DEF Retry, Retried, Request
  <2> QED BY <2>4, <2>5 DEF Stays
<1>3. CASE ~(req[g].tries < Delays)
  BY <1>3, PlainReplyStays DEF Retry, Answers
<1> QED BY <1>2, <1>3

\* Repeating a call that has committed no row.
LEMMA PlainRetryStays ==
    ASSUME BackendInv, NEW g \in Greenlets, req[g].pc # "idle",
           NEW row \in {req[g].row, Null}, Retry(g, row),
           row = Null => req[g].pc \in {"commit_rows", "reset"} \/ req[g].row = Null,
           made' = made, asked' = asked, lost \subseteq lost'
    PROVE  \E y \in Request(Labels, Ops) : Stays(g, y)
<1>1. PICK x : x = Retried(req[g], row)
  OBVIOUS
<1>2. /\ req[g] \in Request(Labels, Ops)
      /\ RequestOK(req[g]) /\ ProgressOK(req[g])
  BY InProgress
<1>3. req[g].pc \in Labels /\ row \in RowIds \cup {Null}
  BY <1>2 DEF Request
<1>4. /\ x.pc = MethodOf(req[g].pc) /\ x.n = req[g].n /\ x.row = row
      /\ x.key = req[g].key /\ x.rest = req[g].rest /\ x.ids = req[g].ids
      /\ x.op = req[g].op
  BY <1>1, <1>2 DEF Retried, Request
<1>5. RequestOK(x)
  BY <1>2, <1>3, <1>4, MethodOfLabel DEF RequestOK
<1>6. ProgressOK(x)'
  <2>1. Created(x.n)' = Created(req[g].n) /\ asked'[x.n] = asked[req[g].n]
    BY <1>4 DEF Created
  <2>2. CASE req[g].pc \in {"create", "create_superuser", "create_role"}
    <3>1. x.pc = req[g].pc /\ x.row = req[g].row
      BY <2>2, <1>3, <1>4, MethodOfLabel
    <3> QED BY <2>1, <2>2, <3>1, <1>2, <1>4 DEF ProgressOK, Creating, Position
  <2>3. CASE req[g].pc \notin {"create", "create_superuser", "create_role"}
    <3>1. \/ x.pc = req[g].pc
          \/ req[g].pc = "delete_role" /\ x.pc = "load_role"
          \/ req[g].pc = "commit_rows" /\ x.pc = "load_rows"
      BY <1>3, <1>4, MethodOfLabel
    <3> QED BY <2>1, <2>3, <3>1, <1>2, <1>4 DEF ProgressOK, Complete
  <2> QED BY <2>2, <2>3
<1> QED BY <1>1, <1>3, <1>5, <1>6, RetryStays

-----------------------------------------------------------------------------
(* The first state, requests that arrive, and the death of the worker.     *)

LEMMA InitInv == InitBackend => BackendInv
<1> SUFFICES ASSUME NEW old \in {<<>>, <<CHOOSE i \in RoleIds : TRUE>>},
                    Init(old), InitUsers, InitRoles(old)
             PROVE  BackendInv
  BY DEF InitBackend
<1>1. PICK i \in RoleIds : i = CHOOSE j \in RoleIds : TRUE
  BY BackendAssumption
<1>2. PICK name \in RoleNames : name = CHOOSE n \in RoleNames : TRUE
  BY BackendAssumption
<1>3. NoRequest \in Request(Labels, Ops) /\ NoRequest.pc = "idle"
  BY RepositoryAssumption DEF NoRequest, Request
<1>4. req \in [Greenlets -> Request(Labels, Ops)]
      /\ \A g \in Greenlets : req[g].pc = "idle"
  BY <1>3 DEF Init
<1>5. /\ lost = {} /\ queue = {} /\ users \in [UserIds -> User \cup {Null}]
  BY DEF Init, InitUsers
<1>6. 1 \in Numbers /\ \A n \in Numbers : n \in Nat
  BY RepositoryAssumption DEF Numbers
<1>7. CASE old = <<>>
  <2>1. Len(old) = 0 /\ DOMAIN old = {} /\ Range(old) = {}
    BY <1>7 DEF Range
  <2>2. /\ started = 0 /\ made = {}
        /\ done = [n \in Numbers |-> Null] /\ asked = [n \in Numbers |-> 0]
    BY <2>1, <1>6 DEF Init
  <2>3. \A n \in Numbers : Created(n) = {} /\ asked[n] = 0 /\ done[n] = Null
    BY <2>2 DEF Created
  <2>4. /\ roles = [j \in RoleIds |-> Null]
        /\ user_roles = [u \in Members |-> {}]
    BY <2>1 DEF InitRoles
  <2>5. TypeOK
    <3>1. started \in 0..MaxRequests
      BY <2>2, RepositoryAssumption
    <3>2. /\ done \in [Numbers -> Answers \cup {Null}]
          /\ asked \in [Numbers -> Nat]
      BY <2>2
    <3>3. /\ roles \in [RoleIds -> RoleNames \cup {Null}]
          /\ user_roles \in [Members -> SUBSET RoleIds]
      BY <2>4
    <3> QED BY <1>4, <1>5, <2>2, <3>1, <3>2, <3>3 DEF TypeOK, Labels, Ops
  <2>6. \A n \in Numbers : 0 \in 0..asked[n] /\ Created(n) = 1..0
    BY <2>3
  <2>7. CreatedOnce /\ AnswersTruthful
    BY <2>2, <2>3, <2>6, RepositoryAssumption
       DEF CreatedOnce, AnswersTruthful, MadeInOrder, Answers
  <2>8. NumbersOK
    BY <1>4, <2>3 DEF NumbersOK
  <2>9. NoDanglingRole
    BY <2>4 DEF NoDanglingRole
  <2> QED BY <2>5, <2>7, <2>8, <2>9, <1>4 DEF BackendInv
<1>8. CASE old = <<i>>
  <2>1. Len(old) = 1 /\ DOMAIN old = {1} /\ old[1] = i /\ Range(old) = {i}
    BY <1>8 DEF Range
  <2>2. /\ started = 1 /\ made = {<<1, 1, i>>}
        /\ done = [n \in Numbers |-> IF n = 1 THEN "created" ELSE Null]
        /\ asked = [n \in Numbers |-> IF n = 1 THEN 1 ELSE 0]
    <3>1. \A n \in Numbers : n <= 1 <=> n = 1
      BY DEF Numbers
    <3> QED BY <2>1, <3>1 DEF Init
  <2>3. /\ asked[1] = 1 /\ Created(1) = {1} /\ done[1] = "created"
        /\ \A n \in Numbers : n # 1 =>
              Created(n) = {} /\ asked[n] = 0 /\ done[n] = Null
    <3>1. ASSUME NEW n PROVE Created(n) = IF n = 1 THEN {1} ELSE {}
      <4>0. PICK row : row = <<1, 1, i>>
        OBVIOUS
      <4>1. row[1] = 1 /\ row[2] = 1
        BY <4>0
      <4>2. {x \in made : x[1] = n} = IF n = 1 THEN {row} ELSE {}
        BY <2>2, <4>0, <4>1
      <4>3. {m[2] : m \in {row}} = {1} /\ {m[2] : m \in {}} = {}
        BY <4>1
      <4> QED BY <4>2, <4>3 DEF Created
    <3> QED BY <2>2, <3>1, <1>6
  <2>4. /\ roles = [j \in RoleIds |-> IF j = i THEN name ELSE Null]
        /\ user_roles = [u \in Members |-> {i}]
    BY <2>1, <1>2 DEF InitRoles
  <2>5. TypeOK
    <3>1. started \in 0..MaxRequests /\ <<1, 1, i>> \in Numbers \X (Nat \ {0}) \X RowIds
      BY <2>2, <1>6, RepositoryAssumption, NotNull
    <3> QED BY <1>4, <1>5, <2>2, <2>4, <3>1 DEF TypeOK, Labels, Ops, Answers
  <2>6. \A n \in Numbers : MadeInOrder(n)
    <3>1. 1 \in 0..asked[1] /\ Created(1) = 1..1
      BY <2>3
    <3>2. \A n \in Numbers : n # 1 => 0 \in 0..asked[n] /\ Created(n) = 1..0
      BY <2>3
    <3> QED BY <3>1, <3>2 DEF MadeInOrder
  <2>7. CreatedOnce /\ AnswersTruthful
    BY <2>2, <2>3, <2>6, RepositoryAssumption
       DEF CreatedOnce, AnswersTruthful, Complete, Answers
  <2>8. NumbersOK
    BY <1>4, <1>6, <2>2, <2>3 DEF NumbersOK
  <2>9. NoDanglingRole
    BY <2>4, NotNull DEF NoDanglingRole, Defined
  <2> QED BY <2>5, <2>7, <2>8, <2>9, <1>4 DEF BackendInv
<1> QED BY <1>1, <1>7, <1>8

\* A request begins with the record q, which becomes x when it gets its number.
Begins(g, q, x, rows) ==
    /\ q \in Request(Labels, Ops) /\ q.pc # "idle" /\ rows \in Nat
    /\ Begin(g, q, rows) /\ RequestOK(q)
    /\ x = [q EXCEPT !.n = started + 1]
    /\ Created(x.n)' = {} /\ asked'[x.n] = rows => ProgressOK(x)'

LEMMA BeginInv ==
    ASSUME BackendInv, NEW g \in Greenlets, NEW q, NEW x, NEW rows,
           Begins(g, q, x, rows), TablesOK'
    PROVE  BackendInv'
<1> USE DEF Begins
<1>0. PICK n : n = started + 1
  OBVIOUS
<1>1. /\ req \in [Greenlets -> Request(Labels, Ops)]
      /\ started \in 0..MaxRequests /\ done \in [Numbers -> Answers \cup {Null}]
      /\ asked \in [Numbers -> Nat] /\ lost \subseteq Numbers
      /\ made \subseteq Numbers \X (Nat \ {0}) \X RowIds
  BY DEF BackendInv, TypeOK, Labels, Ops
<1>2. /\ n \in Numbers /\ started' = n /\ started \in Nat
      /\ UNCHANGED <<done, made, lost>> /\ asked' = [asked EXCEPT ![n] = rows]
      /\ req' = [req EXCEPT ![g] = x]
  BY <1>0, <1>1, RepositoryAssumption DEF Begin, Numbers
<1>3. req[g].pc = "idle"
  BY DEF Begin
<1>4. asked[n] = 0 /\ done[n] = Null /\ Created(n) = {}
  BY <1>0, <1>2 DEF BackendInv, NumbersOK
<1>5. x \in Request(Labels, Ops) /\ x.pc # "idle" /\ x.n = n
  BY <1>0, <1>2 DEF Request
<1>6. /\ \A m \in Numbers : Created(m)' = Created(m)
      /\ Created(x.n)' = {} /\ asked'[x.n] = rows
  BY <1>1, <1>2, <1>4, <1>5 DEF Created
<1>7. \A h \in Greenlets : req'[h] = IF h = g THEN x ELSE req[h]
  BY <1>1, <1>2
<1>8. TypeOK'
  <2>1. started' \in 0..MaxRequests
    BY <1>2, RepositoryAssumption DEF Numbers
  <2>2. req' \in [Greenlets -> Request(Labels, Ops)]
    BY <1>1, <1>2, <1>5
  <2>3. asked' \in [Numbers -> Nat]
    BY <1>1, <1>2
  <2> QED BY <1>1, <1>2, <2>1, <2>2, <2>3 DEF TypeOK, TablesOK, Labels, Ops
<1>9. NumbersOK'
  <2>1. \A h \in Greenlets \ {g} : req[h].pc # "idle" =>
           req[h].n \in 1..started /\ done[req[h].n] = Null
    BY DEF BackendInv, NumbersOK
  <2>2. ASSUME NEW h \in Greenlets, req'[h].pc # "idle"
        PROVE  req'[h].n \in 1..started' /\ done'[req'[h].n] = Null
    <3>1. CASE h = g
      <4>1. n \in 1..started' /\ done'[n] = Null
        BY <1>0, <1>2, <1>4
      <4> QED BY <4>1, <3>1, <1>5, <1>7
    <3>2. CASE h # g
      <4>1. req[h].n \in 1..started /\ done'[req[h].n] = Null
        BY <3>2, <2>1, <2>2, <1>2, <1>7
      <4> QED BY <4>1, <3>2, <1>0, <1>2, <1>7
    <3> QED BY <3>1, <3>2
  <2>3. ASSUME NEW h \in Greenlets, NEW i \in Greenlets,
               req'[h].pc # "idle", req'[i].pc # "idle", req'[h].n = req'[i].n
        PROVE  h = i
    BY <2>1, <2>3, <1>0, <1>2, <1>5, <1>7 DEF BackendInv, NumbersOK
  <2>4. ASSUME NEW m \in Numbers, m > started'
        PROVE  asked'[m] = 0 /\ done'[m] = Null /\ Created(m)' = {}
    <3>1. m # n /\ m > started
      BY <2>4, <1>0, <1>2 DEF Numbers
    <3> QED BY <3>1, <1>1, <1>2, <1>6 DEF BackendInv, NumbersOK
  <2> QED BY <2>2, <2>3, <2>4 DEF NumbersOK
<1>10. ASSUME NEW h \in Greenlets, req'[h].pc # "idle"
       PROVE  RequestOK(req'[h]) /\ ProgressOK(req[h])'
  <2>1. CASE h = g
    <3>1. RequestOK(x)
      BY DEF RequestOK, Request
    <3> QED BY <2>1, <3>1, <1>6, <1>7
  <2>2. CASE h # g
    <3>1. req'[h] = req[h] /\ req[h].n \in Numbers /\ req[h].n # n
      BY <2>2, <1>0, <1>1, <1>2, <1>7, <1>10, RepositoryAssumption
         DEF BackendInv, NumbersOK, Numbers
    <3>2. RequestOK(req[h]) /\ ProgressOK(req[h])
      BY <3>1, <1>10 DEF BackendInv
    <3>3. Created(req[h].n)' = Created(req[h].n) /\ asked'[req[h].n] = asked[req[h].n]
      BY <3>1, <1>1, <1>2, <1>6
    <3> QED BY <3>1, <3>2, <3>3, <1>2
            DEF ProgressOK, Creating, Complete, Position
  <2> QED BY <2>1, <2>2
<1>11. CreatedOnce'
  BY <1>2 DEF BackendInv, CreatedOnce
<1>12. AnswersTruthful'
  <2>1. \A m \in Numbers : m # n => asked'[m] = asked[m]
    BY <1>1, <1>2
  <2>2. MadeInOrder(n)'
    <3>1. 0 \in 0..asked'[n] /\ Created(n)' = 1..0
      BY <1>5, <1>6
    <3> QED BY <3>1, <1>2 DEF MadeInOrder
  <2>3. \A m \in Numbers : m # n => MadeInOrder(m)' /\ (Complete(m)' <=> Complete(m))
    BY <2>1, <1>6 DEF BackendInv, AnswersTruthful, MadeInOrder, Complete
  <2> QED BY <2>1, <2>2, <2>3, <1>2, <1>4, RepositoryAssumption
          DEF BackendInv, AnswersTruthful, Answers
<1> QED BY <1>8, <1>9, <1>10, <1>11, <1>12 DEF BackendInv, TablesOK

\* Nothing happens to the tables.
LEMMA TablesKept ==
    ASSUME BackendInv, UNCHANGED <<registrationVars, roleVars>>
    PROVE  TablesOK'
BY DEF BackendInv, TypeOK, TablesOK, registrationVars, roleVars, NoDanglingRole,
       Defined

LEMMA ChoicesIn ==
    ASSUME NEW pool, NEW used
    PROVE  Choices(pool, used) \subseteq pool
BY DEF Choices

\* What a new request is made from, and what it may be made into.
LEMMA NoRequestIs ==
    /\ NoRequest \in Request(Labels, Ops)
    /\ NoRequest.row = Null
    /\ {"create", "get_user", "look_up", "create_role", "update_role",
        "load_role", "load_rows"} \subseteq Labels
    /\ {"register", "change", "create_superuser", "reset_password",
        "create_roles", "update_role", "delete_role", "add_roles",
        "remove_roles"} \subseteq Ops
<1>1. NoRequest \in Request(Labels, Ops)
  BY RepositoryAssumption DEF NoRequest, Request
<1>2. NoRequest.row = Null
  BY DEF NoRequest
<1> QED BY <1>1, <1>2 DEF Labels, UserLabels, RoleLabels, Ops, UserOps, RoleOps

LEMMA ArriveUsersInv ==
    ASSUME BackendInv, NEW g \in Greenlets, ArriveUsers(g), UNCHANGED roleVars
    PROVE  BackendInv'
<1>1. PICK login \in Logins :
        \/ Register(g, login)
        \/ \E u \in Rows \cup {Null} : ChangeUser(g, u, login)
        \/ \E op \in Commands : Command(g, op, login)
  BY ChoicesIn DEF ArriveUsers, SomeLogins
<1>2. login \in Keys /\ 0 \in 0..Delays
  BY NotNull, RepositoryAssumption
<1>3. CASE Register(g, login)
  <2>1. PICK q : q = [NoRequest EXCEPT !.pc = "create", !.op = "register",
                                       !.key = login]
    OBVIOUS
  <2>2. q \in Request(Labels, Ops) /\ q.pc = "create" /\ q.key = login /\ q.row = Null
    BY <1>2, <2>1, NoRequestIs DEF Request
  <2>3. PICK x : x = [q EXCEPT !.n = started + 1]
    OBVIOUS
  <2>4. x.pc = "create" /\ RequestOK(q)
    BY <2>2, <2>3 DEF RequestOK, Request
  <2>5. Created(x.n)' = {} /\ asked'[x.n] = 1 => ProgressOK(x)'
    BY <2>4 DEF ProgressOK, Creating
  <2>6. Begin(g, q, 1) /\ UNCHANGED registrationVars
    BY <1>3, <2>1 DEF Register
  <2>7. TablesOK'
    BY <2>6, TablesKept
  <2>8. Begins(g, q, x, 1)
    BY <2>2, <2>3, <2>4, <2>5, <2>6 DEF Begins
  <2> QED BY <2>7, <2>8, BeginInv
<1>4. ASSUME NEW u \in Rows \cup {Null}, ChangeUser(g, u, login)
      PROVE  BackendInv'
  <2>1. PICK q : q = [NoRequest EXCEPT !.pc = "get_user", !.op = "change",
                                       !.row = u, !.key = login]
    OBVIOUS
  <2>2. u \in RowIds \cup {Null}
    BY NotNull DEF Rows
  <2>3. q \in Request(Labels, Ops) /\ q.pc = "get_user" /\ q.key = login
    BY <1>2, <2>1, <2>2, NoRequestIs DEF Request
  <2>4. PICK x : x = [q EXCEPT !.n = started + 1]
    OBVIOUS
  <2>5. x.pc = "get_user" /\ RequestOK(q)
    BY <2>3, <2>4 DEF RequestOK, Request
  <2>6. Created(x.n)' = {} /\ asked'[x.n] = 0 => ProgressOK(x)'
    BY <2>5 DEF ProgressOK
  <2>7. Begin(g, q, 0) /\ UNCHANGED registrationVars
    BY <1>4, <2>1 DEF ChangeUser
  <2>8. TablesOK'
    BY <2>7, TablesKept
  <2>9. Begins(g, q, x, 0)
    BY <2>3, <2>4, <2>5, <2>6, <2>7 DEF Begins
  <2> QED BY <2>8, <2>9, BeginInv
<1>5. ASSUME NEW op \in Commands, Command(g, op, login)
      PROVE  BackendInv'
  <2>1. PICK q, rows :
          /\ q = [NoRequest EXCEPT !.pc = "look_up", !.op = op, !.key = login]
          /\ rows = IF op = "create_superuser" THEN 1 ELSE 0
    OBVIOUS
  <2>2. /\ q \in Request(Labels, Ops) /\ q.pc = "look_up" /\ q.key = login
        /\ q.op = op /\ q.row = Null /\ rows \in Nat
    BY <1>2, <2>1, NoRequestIs DEF Request, Commands
  <2>3. PICK x : x = [q EXCEPT !.n = started + 1]
    OBVIOUS
  <2>4. x.pc = "look_up" /\ x.op = op /\ RequestOK(q)
    BY <2>2, <2>3 DEF RequestOK, Request
  <2>5. Created(x.n)' = {} /\ asked'[x.n] = rows => ProgressOK(x)'
    BY <2>1, <2>4 DEF ProgressOK
  <2>6. Begin(g, q, rows) /\ UNCHANGED registrationVars
    BY <1>5, <2>1 DEF Command
  <2>7. TablesOK'
    BY <2>6, TablesKept
  <2>8. Begins(g, q, x, rows)
    BY <2>2, <2>3, <2>4, <2>5, <2>6 DEF Begins
  <2> QED BY <2>7, <2>8, BeginInv
<1> QED BY <1>1, <1>3, <1>4, <1>5

LEMMA BatchIsSeq ==
    ASSUME NEW names \in Batches
    PROVE  names \in Seq(RoleNames) /\ names # <<>> /\ Len(names) \in Nat \ {0}
<1>1. PICK k \in 1..MaxBatch : names \in [1..k -> RoleNames]
  BY DEF Batches
<1>2. k \in Nat \ {0}
  BY <1>1
<1> QED BY <1>1, <1>2

LEMMA ArriveRolesInv ==
    ASSUME BackendInv, NEW g \in Greenlets, ArriveRoles(g),
           UNCHANGED registrationVars
    PROVE  BackendInv'
<1>1. Known \subseteq RoleIds /\ SomeNames \subseteq RoleNames /\ 0 \in 0..Delays
  BY ChoicesIn, RepositoryAssumption DEF Known, SomeNames
<1>2. ASSUME NEW names \in Batches, CreateRoles(g, names)
      PROVE  BackendInv'
  <2>1. PICK q : q = [NoRequest EXCEPT !.pc = "create_role",
                                       !.op = "create_roles", !.rest = names]
    OBVIOUS
  <2>2. /\ names \in Seq(RoleNames) /\ names # <<>>
        /\ Len(names) \in Nat \ {0} /\ names \in Seq(Keys)
    BY BatchIsSeq, NotNull
  <2>3. /\ q \in Request(Labels, Ops) /\ q.pc = "create_role"
        /\ q.rest = names /\ q.row = Null
    BY <1>1, <2>1, <2>2, NoRequestIs DEF Request
  <2>4. PICK x : x = [q EXCEPT !.n = started + 1]
    OBVIOUS
  <2>5. x.pc = "create_role" /\ x.rest = names /\ RequestOK(q)
    BY <2>2, <2>3, <2>4 DEF RequestOK, Request
  <2>6. Created(x.n)' = {} /\ asked'[x.n] = Len(names) => ProgressOK(x)'
    BY <2>2, <2>5 DEF ProgressOK, Creating, Position
  <2>7. Begin(g, q, Len(names)) /\ UNCHANGED roleVars
    BY <1>2, <2>1 DEF CreateRoles
  <2>8. TablesOK'
    BY <2>7, TablesKept
  <2>9. Begins(g, q, x, Len(names))
    BY <2>2, <2>3, <2>4, <2>5, <2>6, <2>7 DEF Begins
  <2> QED BY <2>8, <2>9, BeginInv
<1>3. ASSUME NEW op \in {"update_role", "delete_role"}, NEW i \in RoleIds,
             NEW name \in RoleNames \cup {Null}, NEW sent \in SUBSET RoleIds,
             op = "update_role" => name \in RoleNames,
             ModifyRole(g, op, i, name, sent)
      PROVE  BackendInv'
  <2>1. PICK q : q = [NoRequest EXCEPT
                        !.pc = IF op = "update_role" THEN op ELSE "load_role",
                        !.op = op, !.row = i, !.key = name, !.ids = sent]
    OBVIOUS
  <2>2. i \in RowIds /\ name \in Keys \cup {Null} /\ sent \subseteq RowIds
    BY NotNull
  <2>3. /\ q \in Request(Labels, Ops)
        /\ q.pc \in {"update_role", "load_role"} /\ q.row = i
        /\ q.pc = "update_role" => q.key \in RoleNames
        /\ q.ids = sent
    BY <1>1, <1>3, <2>1, <2>2, NoRequestIs DEF Request
  <2>4. PICK x : x = [q EXCEPT !.n = started + 1]
    OBVIOUS
  <2>5. x.pc \in {"update_role", "load_role"} /\ RequestOK(q)
    BY <2>3, <2>4 DEF RequestOK, Request
  <2>6. Created(x.n)' = {} /\ asked'[x.n] = 0 => ProgressOK(x)'
    BY <2>5 DEF ProgressOK
  <2>7. Begin(g, q, 0) /\ UNCHANGED roleVars
    BY <1>3, <2>1 DEF ModifyRole
  <2>8. TablesOK'
    BY <2>7, TablesKept
  <2>9. Begins(g, q, x, 0)
    BY <2>3, <2>4, <2>5, <2>6, <2>7 DEF Begins
  <2> QED BY <2>8, <2>9, BeginInv
<1>4. ASSUME NEW op \in {"add_roles", "remove_roles"}, NEW u \in Members,
             NEW ids \in SUBSET RoleIds, ModifyUser(g, op, u, ids)
      PROVE  BackendInv'
  <2>1. PICK q : q = [NoRequest EXCEPT !.pc = "load_rows", !.op = op,
                                       !.key = u, !.ids = ids]
    OBVIOUS
  <2>2. u \in Keys /\ ids \subseteq RowIds
    BY NotNull
  <2>3. /\ q \in Request(Labels, Ops) /\ q.pc = "load_rows"
        /\ q.key = u /\ q.ids = ids
    BY <1>1, <2>1, <2>2, NoRequestIs DEF Request
  <2>4. PICK x : x = [q EXCEPT !.n = started + 1]
    OBVIOUS
  <2>5. x.pc = "load_rows" /\ RequestOK(q)
    BY <2>3, <2>4 DEF RequestOK, Request
  <2>6. Created(x.n)' = {} /\ asked'[x.n] = 0 => ProgressOK(x)'
    BY <2>5 DEF ProgressOK
  <2>7. Begin(g, q, 0) /\ UNCHANGED roleVars
    BY <1>4, <2>1 DEF ModifyUser
  <2>8. TablesOK'
    BY <2>7, TablesKept
  <2>9. Begins(g, q, x, 0)
    BY <2>3, <2>4, <2>5, <2>6, <2>7 DEF Begins
  <2> QED BY <2>8, <2>9, BeginInv
<1> QED BY <1>1, <1>2, <1>3, <1>4 DEF ArriveRoles

LEMMA CrashInv ==
    ASSUME BackendInv, Crash
    PROVE  BackendInv'
<1> DEFINE killed == {g \in Greenlets : req[g].pc # "idle"
                                        /\ req[g].op \notin Commands}
<1>1. /\ req' = [g \in Greenlets |-> IF g \in killed THEN NoRequest ELSE req[g]]
      /\ done' = [n \in Numbers |-> IF \E g \in killed : req[g].n = n
                                    THEN "dead" ELSE done[n]]
      /\ UNCHANGED <<started, asked, made, lost, registrationVars, roleVars>>
  BY DEF Crash
<1>2. /\ req \in [Greenlets -> Request(Labels, Ops)]
      /\ done \in [Numbers -> Answers \cup {Null}]
  BY DEF BackendInv, TypeOK, Labels, Ops
<1>3. NoRequest \in Request(Labels, Ops) /\ NoRequest.pc = "idle"
  BY RepositoryAssumption DEF NoRequest, Request
<1>4. /\ req' \in [Greenlets -> Request(Labels, Ops)]
      /\ done' \in [Numbers -> Answers \cup {Null}]
  BY <1>1, <1>2, <1>3 DEF Answers
<1>5. TypeOK' /\ NoDanglingRole' /\ CreatedOnce'
  BY <1>1, <1>4, TablesKept
     DEF TablesOK, BackendInv, TypeOK, CreatedOnce, Labels, Ops
<1>6. \A n : Created(n)' = Created(n)
  BY <1>1 DEF Created
<1>7. ASSUME NEW h \in Greenlets, req'[h].pc # "idle"
      PROVE  h \notin killed /\ req'[h] = req[h]
  BY <1>1, <1>2, <1>3, <1>7
<1>8. NumbersOK'
  <2>1. ASSUME NEW h \in Greenlets, req'[h].pc # "idle"
        PROVE  req'[h].n \in 1..started' /\ done'[req'[h].n] = Null
    <3>1. req'[h] = req[h] /\ req[h].n \in 1..started /\ done[req[h].n] = Null
      BY <2>1, <1>7 DEF BackendInv, NumbersOK
    <3>2. ~\E g \in killed : req[g].n = req[h].n
      BY <2>1, <1>7 DEF BackendInv, NumbersOK
    <3>3. req[h].n \in Numbers
      BY <3>1, RepositoryAssumption DEF Numbers, BackendInv, TypeOK
    <3> QED BY <3>1, <3>2, <3>3, <1>1
  <2>2. ASSUME NEW n \in Numbers, n > started'
        PROVE  asked'[n] = 0 /\ done'[n] = Null /\ Created(n)' = {}
    <3>1. ~\E g \in killed : req[g].n = n
      <4>1. \A g \in killed : req[g].n \in 1..started
        BY DEF BackendInv, NumbersOK
      <4>2. started \in Nat /\ n \in Nat /\ n > started
        BY <2>2, <1>1 DEF BackendInv, TypeOK, Numbers
      <4> QED BY <4>1, <4>2
    <3> QED BY <2>2, <3>1, <1>1, <1>6 DEF BackendInv, NumbersOK
  <2>3. \A g, h \in Greenlets :
           req'[g].pc # "idle" /\ req'[h].pc # "idle" /\ req'[g].n = req'[h].n
           => g = h
    BY <1>7 DEF BackendInv, NumbersOK
  <2> QED BY <2>1, <2>2, <2>3 DEF NumbersOK
<1>9. ASSUME NEW h \in Greenlets, req'[h].pc # "idle"
      PROVE  RequestOK(req'[h]) /\ ProgressOK(req[h])'
  <2>1. req'[h] = req[h] /\ RequestOK(req[h]) /\ ProgressOK(req[h])
    BY <1>7, <1>9 DEF BackendInv
  <2> QED BY <2>1, <1>1, <1>6 DEF ProgressOK, Creating, Complete, Position
<1>10. AnswersTruthful'
  BY <1>1, <1>2, <1>6
     DEF BackendInv, AnswersTruthful, MadeInOrder, Complete
<1> QED BY <1>5, <1>8, <1>9, <1>10 DEF BackendInv

-----------------------------------------------------------------------------
(* Requests that are served.                                               *)

LEMMA OneStep ==
    ASSUME BackendInv, NEW g \in Greenlets, req[g].pc # "idle",
           \E x \in Request(Labels, Ops) : Stays(g, x),
           Adds(req[g].n), UNCHANGED <<started, asked>>,
           lost' \in {lost, lost \cup {req[g].n}}, TablesOK'
    PROVE  BackendInv'
BY ServeStep

\* A step that commits no row of "users" or "roles".
LEMMA PlainStep ==
    ASSUME BackendInv, NEW g \in Greenlets, req[g].pc # "idle",
           \E x \in Request(Labels, Ops) : Stays(g, x),
           UNCHANGED <<started, asked, made>>,
           lost' \in {lost, lost \cup {req[g].n}}, TablesOK'
    PROVE  BackendInv'
<1>1. Adds(req[g].n)
  BY DEF Adds
<1> QED BY <1>1, OneStep

\* A change of an existing row, and its answer, which may be lost.
LEMMA ChangeStays ==
    ASSUME BackendInv, NEW g \in Greenlets, req[g].pc # "idle",
           NEW row \in {req[g].row, Null},
           row = Null => req[g].pc \in {"commit_rows", "reset"} \/ req[g].row = Null,
           made' = made, asked' = asked,
           \/ Reply(g, "ok") /\ UNCHANGED lost
           \/ AnswerLost(g, row)
    PROVE  /\ \E x \in Request(Labels, Ops) : Stays(g, x)
           /\ lost' \in {lost, lost \cup {req[g].n}}
<1>1. CASE Reply(g, "ok") /\ UNCHANGED lost
  BY <1>1, PlainReplyStays DEF Answers
<1>2. CASE AnswerLost(g, row)
  <2>1. Retry(g, row) /\ lost' = lost \cup {req[g].n}
    BY <1>2 DEF AnswerLost
  <2> QED BY <2>1, PlainRetryStays
<1> QED BY <1>1, <1>2

\* The request goes on with another record.
LEMMA MoveStays ==
    ASSUME NEW g \in Greenlets, NEW x \in Request(Labels, Ops),
           x.pc # "idle", x.n = req[g].n, req' = [req EXCEPT ![g] = x],
           done' = done, RequestOK(x), ProgressOK(x)'
    PROVE  \E y \in Request(Labels, Ops) : Stays(g, y)
BY DEF Stays

LEMMA FailsInv ==
    ASSUME BackendInv, NEW g \in Greenlets, Fails(g)
    PROVE  BackendInv'
<1>1. /\ req[g].pc # "idle" /\ Retry(g, req[g].row)
      /\ UNCHANGED <<started, asked, made, lost, registrationVars, roleVars>>
  BY DEF Fails, CallFails
<1>2. req[g].row \in {req[g].row, Null} /\ lost \subseteq lost'
  BY <1>1
<1>3. \E x \in Request(Labels, Ops) : Stays(g, x)
  BY <1>1, <1>2, PlainRetryStays
<1> QED BY <1>1, <1>3, TablesKept, PlainStep

\* A call of create_obj_in_db inserts the next row of its request, or it finds
\* the one that it has inserted before.
LEMMA ObjectIdIn ==
    ASSUME NEW g, NEW pool, req[g].row \in pool \cup {Null},
           NEW id \in ObjectId(g, pool)
    PROVE  id \in pool /\ (req[g].row # Null => id = req[g].row)
BY DEF ObjectId, Fresh

LEMMA CreateAdds ==
    ASSUME BackendInv, NEW g \in Greenlets, req[g].pc # "idle",
           NEW n \in Numbers, n = req[g].n,
           NEW pool \in {UserIds, RoleIds}, req[g].row \in pool \cup {Null},
           NEW k, Creating(req[g], k),
           NEW id \in ObjectId(g, pool), Made(g, k, id), asked' = asked
    PROVE  /\ id \in pool /\ Adds(n) /\ Created(n)' = 1..k
           /\ <<n, k, id>> \in made'
<1>1. id \in pool /\ id \in RowIds /\ (req[g].row # Null => id = req[g].row)
  BY ObjectIdIn, BackendAssumption
<1>2. /\ made \subseteq Numbers \X (Nat \ {0}) \X RowIds /\ asked[n] \in Nat
  BY InProgress
<1>3. k \in 1..asked[n] /\ k \in Nat \ {0}
  BY <1>2 DEF Creating
<1>4. \/ Created(n) = 1..(k - 1)
      \/ Created(n) = 1..k /\ <<n, k, id>> \in made
  <2>1. ASSUME <<n, k, req[g].row>> \in made PROVE req[g].row # Null
    BY <2>1, <1>2, RepositoryAssumption
  <2> QED BY <2>1, <1>1 DEF Creating
<1>5. made' = made \cup {<<n, k, id>>}
  BY DEF Made
<1>6. Created(n)' = Created(n) \cup {k}
  BY <1>1, <1>2, <1>3, <1>5, CreatedGrows
<1>7. Created(n)' = 1..k
  BY <1>3, <1>4, <1>6
<1> QED BY <1>1, <1>3, <1>4, <1>5, <1>7 DEF Adds

\* A row that is refused has not been committed yet, or a commit of the request
\* has lost its answer.
LEMMA RefusalTruthful ==
    ASSUME BackendInv, NEW g \in Greenlets, req[g].pc # "idle",
           NEW n \in Numbers, n = req[g].n, NEW k, Creating(req[g], k),
           UNCHANGED <<asked, made, lost>>
    PROVE  Truthful(n, "conflict")'
<1>1. asked[n] \in Nat /\ k \in 1..asked[n]
  BY InProgress DEF Creating
<1>2. Created(n)' = Created(n)
  BY DEF Created
<1>3. CASE Created(n) = 1..(k - 1)
  <2>1. asked[n] \in 1..asked[n] /\ asked[n] \notin Created(n)
    BY <1>1, <1>3
  <2> QED BY <2>1, <1>2 DEF Truthful, Complete
<1>4. CASE n \in lost
  BY <1>4 DEF Truthful
<1> QED BY <1>3, <1>4 DEF Creating

-----------------------------------------------------------------------------
(* The table "users".                                                      *)

\* A user who is inserted is well-formed.
LEMMA InsertOK ==
    ASSUME BackendInv, NEW g \in Greenlets, req[g].pc # "idle",
           NEW u \in UserIds, NEW admin \in BOOLEAN, req[g].key \in Logins,
           Insert(g, u, admin), UNCHANGED <<queue, roleVars>>
    PROVE  TablesOK'
<1>1. TablesOK /\ req[g].n \in Numbers
  BY InProgress
<1>2. [login |-> req[g].key, password |-> req[g].n, is_superuser |-> admin,
       by |-> req[g].n] \in User
  BY <1>1 DEF User
<1>3. users' \in [UserIds -> User \cup {Null}]
  BY <1>1, <1>2 DEF Insert, TablesOK
<1> QED BY <1>1, <1>3 DEF TablesOK, roleVars, NoDanglingRole, Defined

\* A user is committed, but the request is not told.
LEMMA UserCreatedLost ==
    ASSUME BackendInv, NEW g \in Greenlets,
           req[g].pc \in {"create", "create_superuser"},
           NEW n \in Numbers, n = req[g].n, NEW u \in UserIds,
           AnswerLost(g, u), asked' = asked,
           Created(n)' = 1..1, <<n, 1, u>> \in made'
    PROVE  \E y \in Request(Labels, Ops) : Stays(g, y)
<1>1. /\ req[g] \in Request(Labels, Ops) /\ req[g].key \in Logins
      /\ asked[n] = 1 /\ req[g].pc # "idle"
  BY InProgress DEF RequestOK, ProgressOK
<1>2. Retry(g, u) /\ lost' = lost \cup {n} /\ u \in RowIds
  BY NotNull DEF AnswerLost
<1>3. PICK x : x = Retried(req[g], u)
  OBVIOUS
<1>4. x.pc = req[g].pc /\ x.n = n /\ x.row = u /\ x.key = req[g].key
  BY <1>1, <1>3 DEF Retried, Request, MethodOf
<1>5. RequestOK(x)
  BY <1>1, <1>4 DEF RequestOK
<1>6. ProgressOK(x)'
  BY <1>1, <1>2, <1>4 DEF ProgressOK, Creating
<1> QED BY <1>1, <1>2, <1>3, <1>5, <1>6, RetryStays

LEMMA CreateUserInv ==
    ASSUME BackendInv, NEW g \in Greenlets, CreateUser(g), UNCHANGED roleVars
    PROVE  BackendInv'
<1> DEFINE q == req[g]
<1>1. PICK n \in Numbers : n = q.n
  BY InProgress DEF CreateUser
<1>2. /\ q.pc = "create" /\ q.pc # "idle" /\ UNCHANGED <<started, asked, queue>>
      /\ q.row \in UserIds \cup {Null} /\ q.key \in Logins
      /\ asked[n] = 1 /\ Creating(q, 1) /\ q \in Request(Labels, Ops)
  BY <1>1, InProgress DEF CreateUser, RequestOK, ProgressOK
<1>3. PICK u \in ObjectId(g, UserIds) :
        \/ Violates(u, q.key) /\ RefuseUser(g) /\ UNCHANGED <<users, made, lost>>
        \/ /\ Insert(g, u, FALSE) /\ Made(g, 1, u)
           /\ \/ Goto(g, "fetch") /\ UNCHANGED lost
              \/ AnswerLost(g, u)
  BY DEF CreateUser
<1>4. CASE RefuseUser(g) /\ UNCHANGED <<users, made, lost>>
  <2>1. Truthful(n, "conflict")'
    BY <1>1, <1>2, <1>4, RefusalTruthful
  <2>2. \E x \in Request(Labels, Ops) : Stays(g, x)
    BY <1>1, <1>2, <1>4, <2>1, ReplyStays DEF RefuseUser, Answers
  <2>3. TablesOK'
    BY <1>2, <1>4, TablesKept DEF registrationVars
  <2> QED BY <1>2, <1>4, <2>2, <2>3, PlainStep
<1>5. ASSUME Insert(g, u, FALSE), Made(g, 1, u),
             \/ Goto(g, "fetch") /\ UNCHANGED lost
             \/ AnswerLost(g, u)
      PROVE  BackendInv'
  <2>1. /\ u \in UserIds /\ Adds(n) /\ Created(n)' = 1..1
        /\ <<n, 1, u>> \in made'
    BY <1>1, <1>2, <1>5, CreateAdds
  <2>2. TablesOK'
    BY <1>2, <1>5, <2>1, InsertOK
  <2>3. asked'[n] = 1 /\ u \in RowIds
    BY <1>2, <2>1, NotNull
  <2>4. CASE Goto(g, "fetch") /\ UNCHANGED lost
    <3>1. PICK x : x = [q EXCEPT !.pc = "fetch", !.tries = 0]
      OBVIOUS
    <3>2. x.pc = "fetch" /\ x.n = n
      BY <1>1, <1>2, <3>1 DEF Request
    <3>3. RequestOK(x) /\ ProgressOK(x)'
      BY <2>1, <2>3, <3>2 DEF RequestOK, ProgressOK, Complete
    <3>4. "fetch" \in Labels
      BY DEF Labels, UserLabels
    <3>5. x \in Request(Labels, Ops) /\ Stays(g, x)
      BY <1>2, <2>4, <3>1, <3>3, <3>4, GotoStays
    <3> QED BY <1>1, <1>2, <2>1, <2>2, <2>4, <3>5, OneStep
  <2>5. CASE AnswerLost(g, u)
    <3>1. lost' = lost \cup {n}
      BY <1>1, <2>5 DEF AnswerLost
    <3>2. \E y \in Request(Labels, Ops) : Stays(g, y)
      BY <1>1, <1>2, <2>1, <2>5, UserCreatedLost
    <3> QED BY <1>1, <1>2, <2>1, <2>2, <3>1, <3>2, OneStep
  <2> QED BY <1>5, <2>4, <2>5
<1> QED BY <1>3, <1>4, <1>5

LEMMA CreateSuperuserInv ==
    ASSUME BackendInv, NEW g \in Greenlets, CreateSuperuser(g), UNCHANGED roleVars
    PROVE  BackendInv'
<1> DEFINE q == req[g]
<1>1. PICK n \in Numbers : n = q.n
  BY InProgress DEF CreateSuperuser
<1>2. /\ q.pc = "create_superuser" /\ q.pc # "idle"
      /\ UNCHANGED <<started, asked, queue>>
      /\ q.row \in UserIds \cup {Null} /\ q.key \in Logins /\ Creating(q, 1)
  BY <1>1, InProgress DEF CreateSuperuser, RequestOK, ProgressOK
<1>3. PICK u \in ObjectId(g, UserIds) :
        \/ Reply(g, "ok") /\ UNCHANGED <<users, made, lost>>
        \/ /\ Insert(g, u, TRUE) /\ Made(g, 1, u)
           /\ \/ Reply(g, "ok") /\ UNCHANGED lost
              \/ AnswerLost(g, u)
  BY DEF CreateSuperuser
<1>4. CASE Reply(g, "ok") /\ UNCHANGED <<users, made, lost>>
  <2>1. \E x \in Request(Labels, Ops) : Stays(g, x)
    BY <1>2, <1>4, PlainReplyStays DEF Answers
  <2>2. TablesOK'
    BY <1>2, <1>4, TablesKept DEF registrationVars
  <2> QED BY <1>2, <1>4, <2>1, <2>2, PlainStep
<1>5. ASSUME Insert(g, u, TRUE), Made(g, 1, u),
             \/ Reply(g, "ok") /\ UNCHANGED lost
             \/ AnswerLost(g, u)
      PROVE  BackendInv'
  <2>1. /\ u \in UserIds /\ Adds(n) /\ Created(n)' = 1..1
        /\ <<n, 1, u>> \in made'
    BY <1>1, <1>2, <1>5, CreateAdds
  <2>2. TablesOK'
    BY <1>2, <1>5, <2>1, InsertOK
  <2>3. CASE Reply(g, "ok") /\ UNCHANGED lost
    <3>1. \E x \in Request(Labels, Ops) : Stays(g, x)
      BY <1>2, <2>3, PlainReplyStays DEF Answers
    <3> QED BY <1>1, <1>2, <2>1, <2>2, <2>3, <3>1, OneStep
  <2>4. CASE AnswerLost(g, u)
    <3>1. lost' = lost \cup {n}
      BY <1>1, <2>4 DEF AnswerLost
    <3>2. \E x \in Request(Labels, Ops) : Stays(g, x)
      BY <1>1, <1>2, <2>1, <2>4, UserCreatedLost
    <3> QED BY <1>1, <1>2, <2>1, <2>2, <3>1, <3>2, OneStep
  <2> QED BY <1>5, <2>3, <2>4
<1> QED BY <1>3, <1>4, <1>5

LEMMA FetchUserInv ==
    ASSUME BackendInv, NEW g \in Greenlets, FetchUser(g), UNCHANGED roleVars
    PROVE  BackendInv'
<1>1. /\ req[g].pc = "fetch" /\ req[g].pc # "idle"
      /\ UNCHANGED <<started, asked, made, lost, registrationVars>>
  BY DEF FetchUser
<1>2. /\ req \in [Greenlets -> Request(Labels, Ops)]
      /\ req[g] \in Request(Labels, Ops) /\ Complete(req[g].n)
  BY <1>1, InProgress DEF ProgressOK
<1>3. CASE Reply(g, "error")
  <2>1. \E x \in Request(Labels, Ops) : Stays(g, x)
    BY <1>1, <1>3, PlainReplyStays DEF Answers
  <2> QED BY <1>1, <2>1, TablesKept, PlainStep
<1>4. ASSUME NEW u \in UserIds, done' = done,
             req' = [req EXCEPT ![g].pc = "link", ![g].row = u, ![g].tries = 0]
      PROVE  BackendInv'
  <2>1. PICK x : x = [req[g] EXCEPT !.pc = "link", !.row = u, !.tries = 0]
    OBVIOUS
  <2>2. "link" \in Labels /\ 0 \in 0..Delays /\ u \in RowIds
    BY RepositoryAssumption, NotNull DEF Labels, UserLabels
  <2>3. /\ x \in Request(Labels, Ops) /\ x.pc = "link" /\ x.n = req[g].n
        /\ x.row = u
    BY <1>2, <2>1, <2>2 DEF Request
  <2>4. RequestOK(x) /\ ProgressOK(x)'
    BY <1>1, <1>2, <2>3 DEF RequestOK, ProgressOK, Complete, Created
  <2>5. req' = [req EXCEPT ![g] = x]
    BY <1>2, <1>4, <2>1
  <2>6. \E y \in Request(Labels, Ops) : Stays(g, y)
    BY <1>4, <2>3, <2>4, <2>5, MoveStays
  <2> QED BY <1>1, <2>6, TablesKept, PlainStep
<1> QED BY <1>3, <1>4 DEF FetchUser, NotReadBack, Owners, Rows

LEMMA VerificationLinkInv ==
    ASSUME BackendInv, NEW g \in Greenlets, VerificationLink(g), UNCHANGED roleVars
    PROVE  BackendInv'
<1>1. /\ req[g].pc = "link" /\ req[g].pc # "idle" /\ Goto(g, "publish")
      /\ UNCHANGED <<started, asked, made, lost, registrationVars>>
  BY DEF VerificationLink
<1>2. /\ req[g] \in Request(Labels, Ops) /\ Complete(req[g].n)
      /\ req[g].row \in UserIds
  BY <1>1, InProgress DEF RequestOK, ProgressOK
<1>3. PICK x : x = [req[g] EXCEPT !.pc = "publish", !.tries = 0]
  OBVIOUS
<1>4. x.pc = "publish" /\ x.n = req[g].n /\ x.row = req[g].row
  BY <1>2, <1>3 DEF Request
<1>5. RequestOK(x) /\ ProgressOK(x)'
  BY <1>1, <1>2, <1>4 DEF RequestOK, ProgressOK, Complete, Created
<1>6. x \in Request(Labels, Ops) /\ Stays(g, x)
  BY <1>1, <1>3, <1>5, GotoStays DEF Labels, UserLabels
<1> QED BY <1>1, <1>6, TablesKept, PlainStep

LEMMA PublishInv ==
    ASSUME BackendInv, NEW g \in Greenlets, Publish(g), UNCHANGED roleVars
    PROVE  BackendInv'
<1>1. /\ req[g].pc = "publish" /\ req[g].pc # "idle"
      /\ UNCHANGED <<started, asked, made, lost, users>>
  BY DEF Publish
<1>2. PICK n \in Numbers : n = req[g].n
  BY <1>1, InProgress
<1>3. Complete(n) /\ req[g].row \in UserIds /\ TablesOK
  BY <1>1, <1>2, InProgress DEF RequestOK, ProgressOK
<1>4. /\ \/ queue' = queue \cup {[by |-> n, user |-> req[g].row]}
         \/ queue' = queue
      /\ Reply(g, "created") \/ Reply(g, "error")
  BY <1>2 DEF Publish, PublishFails
<1>5. TablesOK'
  <2>1. queue' \subseteq [by : Numbers, user : UserIds]
    BY <1>3, <1>4 DEF TablesOK
  <2> QED BY <1>1, <1>3, <2>1 DEF TablesOK, roleVars, NoDanglingRole, Defined
<1>6. CASE Reply(g, "created")
  <2>1. Truthful(n, "created")'
    BY <1>1, <1>3 DEF Truthful, Complete, Created
  <2>2. \E x \in Request(Labels, Ops) : Stays(g, x)
    BY <1>1, <1>2, <1>6, <2>1, ReplyStays DEF Answers
  <2> QED BY <1>1, <1>5, <2>2, PlainStep
<1>7. CASE Reply(g, "error")
  <2>1. \E x \in Request(Labels, Ops) : Stays(g, x)
    BY <1>1, <1>7, PlainReplyStays DEF Answers
  <2> QED BY <1>1, <1>5, <2>1, PlainStep
<1> QED BY <1>4, <1>6, <1>7

LEMMA GetUserInv ==
    ASSUME BackendInv, NEW g \in Greenlets, GetUser(g), UNCHANGED roleVars
    PROVE  BackendInv'
<1>1. /\ req[g].pc = "get_user" /\ req[g].pc # "idle"
      /\ UNCHANGED <<started, asked, made, lost, registrationVars>>
  BY DEF GetUser
<1>2. /\ req[g] \in Request(Labels, Ops) /\ req[g].key \in Logins
      /\ Created(req[g].n) = {} /\ asked[req[g].n] = 0
  BY <1>1, InProgress DEF RequestOK, ProgressOK
<1>3. CASE Goto(g, "update") /\ req[g].row \in Rows
  <2>1. PICK x : x = [req[g] EXCEPT !.pc = "update", !.tries = 0]
    OBVIOUS
  <2>2. /\ x.pc = "update" /\ x.n = req[g].n /\ x.row = req[g].row
        /\ x.key = req[g].key
    BY <1>2, <2>1 DEF Request
  <2>3. RequestOK(x)
    BY <1>2, <1>3, <2>2 DEF RequestOK, Rows
  <2>4. ProgressOK(x)'
    BY <1>1, <1>2, <2>2 DEF ProgressOK, Created
  <2>5. x \in Request(Labels, Ops) /\ Stays(g, x)
    BY <1>1, <1>3, <2>1, <2>3, <2>4, GotoStays DEF Labels, UserLabels
  <2> QED BY <1>1, <2>5, TablesKept, PlainStep
<1>4. CASE Reply(g, "not_found")
  <2>1. \E x \in Request(Labels, Ops) : Stays(g, x)
    BY <1>1, <1>4, PlainReplyStays DEF Answers
  <2> QED BY <1>1, <2>1, TablesKept, PlainStep
<1> QED BY <1>3, <1>4 DEF GetUser

LEMMA UpdateUserInv ==
    ASSUME BackendInv, NEW g \in Greenlets, UpdateUser(g), UNCHANGED roleVars
    PROVE  BackendInv'
<1> DEFINE q == req[g]
<1>1. /\ q.pc = "update" /\ q.pc # "idle"
      /\ UNCHANGED <<started, asked, made, queue>>
  BY DEF UpdateUser
<1>2. PICK n \in Numbers : n = q.n
  BY <1>1, InProgress
<1>3. /\ q.key \in Logins /\ q.row \in UserIds /\ TablesOK
      /\ asked[n] = 0
  BY <1>1, <1>2, InProgress DEF RequestOK, ProgressOK
<1>4. CASE Reply(g, "conflict") /\ UNCHANGED <<users, lost>>
  <2>1. Truthful(n, "conflict")'
    BY <1>1, <1>3 DEF Truthful
  <2>2. \E x \in Request(Labels, Ops) : Stays(g, x)
    BY <1>1, <1>2, <1>4, <2>1, ReplyStays DEF Answers
  <2>3. TablesOK'
    BY <1>1, <1>4, TablesKept DEF registrationVars
  <2> QED BY <1>1, <1>4, <2>2, <2>3, PlainStep
<1>5. ASSUME users' = [u \in UserIds |->
                         IF u \in {q.row} \cap Rows
                         THEN [users[u] EXCEPT !.login = q.key, !.password = q.n]
                         ELSE users[u]],
             (Reply(g, "ok") /\ UNCHANGED lost) \/ AnswerLost(g, q.row)
      PROVE  BackendInv'
  <2>1. ASSUME NEW u \in UserIds PROVE users'[u] \in User \cup {Null}
    <3>1. users[u] \in User \cup {Null}
      BY <1>3 DEF TablesOK
    <3>2. CASE u \in Rows
      <4>1. users[u] \in User
        BY <3>1, <3>2 DEF Rows
      <4>2. [users[u] EXCEPT !.login = q.key, !.password = q.n] \in User
        BY <4>1, <1>2, <1>3 DEF User
      <4> QED BY <3>1, <4>2, <1>5
    <3>3. CASE u \notin Rows
      BY <3>1, <3>3, <1>5
    <3> QED BY <3>2, <3>3
  <2>2. users' \in [UserIds -> User \cup {Null}]
    BY <2>1, <1>5
  <2>3. TablesOK'
    BY <1>1, <1>3, <2>2 DEF TablesOK, roleVars, NoDanglingRole, Defined
  <2>4. q.row # Null
    BY <1>3, NotNull
  <2>5. /\ \E x \in Request(Labels, Ops) : Stays(g, x)
        /\ lost' \in {lost, lost \cup {q.n}}
    BY <1>1, <1>5, <2>4, ChangeStays
  <2> QED BY <1>1, <2>3, <2>5, PlainStep
<1> QED BY <1>4, <1>5 DEF UpdateUser

LEMMA LookUpInv ==
    ASSUME BackendInv, NEW g \in Greenlets, LookUp(g), UNCHANGED roleVars
    PROVE  BackendInv'
<1> DEFINE q == req[g]
<1>1. /\ q.pc = "look_up" /\ q.pc # "idle"
      /\ UNCHANGED <<started, asked, made, lost, registrationVars>>
  BY DEF LookUp
<1>2. /\ q \in Request(Labels, Ops) /\ q.key \in Logins /\ q.row = Null
      /\ Created(q.n) = {}
      /\ asked[q.n] = IF q.op = "create_superuser" THEN 1 ELSE 0
  BY <1>1, InProgress DEF RequestOK, ProgressOK
<1>3. ASSUME NEW answer \in {"conflict", "not_found"}, Reply(g, answer)
      PROVE  BackendInv'
  <2>1. PICK n \in Numbers : n = q.n
    BY <1>1, InProgress
  <2>2. Truthful(n, answer)'
    <3>1. /\ Created(n)' = {}
          /\ asked'[n] \in {0, 1}
      BY <1>1, <1>2, <2>1 DEF Created
    <3>2. asked'[n] > 0 => 1 \in 1..asked'[n]
      BY <3>1
    <3> QED BY <3>1, <3>2 DEF Truthful, Complete
  <2>3. \E x \in Request(Labels, Ops) : Stays(g, x)
    BY <1>1, <1>3, <2>1, <2>2, ReplyStays DEF Answers
  <2> QED BY <1>1, <2>3, TablesKept, PlainStep
<1>4. ASSUME NEW label \in {"create_superuser", "reset"}, Goto(g, label),
             label = "create_superuser" <=> q.op = "create_superuser"
      PROVE  BackendInv'
  <2>1. PICK x : x = [q EXCEPT !.pc = label, !.tries = 0]
    OBVIOUS
  <2>2. /\ x.pc = label /\ x.n = q.n /\ x.row = Null /\ x.key = q.key
    BY <1>2, <2>1 DEF Request
  <2>3. RequestOK(x)
    BY <1>2, <2>2 DEF RequestOK
  <2>4. ProgressOK(x)'
    <3>1. Created(x.n)' = {} /\ asked'[x.n] = asked[q.n]
      BY <1>1, <1>2, <2>2 DEF Created
    <3>2. CASE label = "create_superuser"
      <4>1. asked'[x.n] = 1 /\ Created(x.n)' = 1..(1 - 1)
        BY <1>2, <1>4, <3>1, <3>2
      <4> QED BY <2>2, <3>2, <4>1 DEF ProgressOK, Creating
    <3>3. CASE label = "reset"
      BY <1>2, <1>4, <2>2, <3>1, <3>3 DEF ProgressOK
    <3> QED BY <3>2, <3>3
  <2>5. label \in Labels /\ label # "idle"
    BY DEF Labels, UserLabels
  <2>6. x \in Request(Labels, Ops) /\ Stays(g, x)
    BY <1>1, <1>4, <2>1, <2>3, <2>4, <2>5, GotoStays
  <2> QED BY <1>1, <2>6, TablesKept, PlainStep
<1> QED BY <1>3, <1>4 DEF LookUp

LEMMA ResetPasswordInv ==
    ASSUME BackendInv, NEW g \in Greenlets, ResetPassword(g), UNCHANGED roleVars
    PROVE  BackendInv'
<1>1. /\ req[g].pc = "reset" /\ req[g].pc # "idle"
      /\ UNCHANGED <<started, asked, made, queue>>
      /\ users' = [u \in UserIds |->
                     IF u \in Owners(req[g].key)
                     THEN [users[u] EXCEPT !.password = req[g].n]
                     ELSE users[u]]
      /\ (Reply(g, "ok") /\ UNCHANGED lost) \/ AnswerLost(g, Null)
  BY DEF ResetPassword
<1>2. TablesOK /\ req[g].n \in Numbers
  BY <1>1, InProgress
<1>3. ASSUME NEW u \in UserIds PROVE users'[u] \in User \cup {Null}
  <2>1. users[u] \in User \cup {Null}
    BY <1>2 DEF TablesOK
  <2>2. CASE u \in Owners(req[g].key)
    <3>1. users[u] \in User
      BY <2>1, <2>2 DEF Owners, Rows
    <3>2. [users[u] EXCEPT !.password = req[g].n] \in User
      BY <3>1, <1>2 DEF User
    <3> QED BY <2>2, <3>2, <1>1
  <2>3. CASE u \notin Owners(req[g].key)
    BY <2>1, <2>3, <1>1
  <2> QED BY <2>2, <2>3
<1>4. users' \in [UserIds -> User \cup {Null}]
  BY <1>1, <1>3
<1>5. TablesOK'
  BY <1>1, <1>2, <1>4 DEF TablesOK, roleVars, NoDanglingRole, Defined
<1>6. /\ \E x \in Request(Labels, Ops) : Stays(g, x)
      /\ lost' \in {lost, lost \cup {req[g].n}}
  BY <1>1, ChangeStays
<1> QED BY <1>1, <1>5, <1>6, PlainStep

LEMMA ServeUsersInv ==
    ASSUME BackendInv, NEW g \in Greenlets, ServeUsers(g), UNCHANGED roleVars
    PROVE  BackendInv'
BY CreateUserInv, FetchUserInv, VerificationLinkInv, PublishInv, GetUserInv,
   UpdateUserInv, LookUpInv, CreateSuperuserInv, ResetPasswordInv DEF ServeUsers

-----------------------------------------------------------------------------
(* The tables "roles" and "user_roles".                                    *)

\* The names that are left when the first one is done with.
LEMMA TailOf ==
    ASSUME NEW S, NEW rest \in Seq(S), rest # <<>>
    PROVE  /\ Head(rest) \in S /\ Tail(rest) \in Seq(S)
           /\ Len(rest) \in Nat \ {0} /\ Len(Tail(rest)) = Len(rest) - 1
           /\ Len(rest) # 1 => Tail(rest) # <<>>
<1>1. /\ Head(rest) \in S /\ Tail(rest) \in Seq(S)
      /\ Len(rest) \in Nat /\ Len(Tail(rest)) = Len(rest) - 1
  OBVIOUS
<1>2. Len(rest) # 0
  OBVIOUS
<1>3. Len(<<>>) = 0
  OBVIOUS
<1>4. ASSUME Tail(rest) = <<>> PROVE Len(rest) = 1
  <2>1. Len(Tail(rest)) = 0
    BY <1>3, <1>4, Zenon
  <2>2. Len(rest) - 1 = 0
    BY <1>1, <2>1, Zenon
  <2>3. PICK l \in Nat : l = Len(rest)
    BY <1>1, Zenon
  <2>4. l - 1 = 0
    BY <2>2, <2>3, Zenon
  <2>5. l = 1
    BY <2>4
  <2> QED BY <2>3, <2>5, Zenon
<1> QED BY <1>1, <1>2, <1>4

\* After the k-th of its roles a request goes on to the next one, or answers.
LEMMA NextRoleStays ==
    ASSUME BackendInv, NEW g \in Greenlets, req[g].pc = "create_role",
           NEW n \in Numbers, n = req[g].n, NEW k, k = Position(req[g]),
           k \in 1..asked[n], NextRole(g), Created(n)' = 1..k,
           UNCHANGED <<asked, lost>>
    PROVE  \E y \in Request(Labels, Ops) : Stays(g, y)
<1> DEFINE q == req[g]
<1>1. /\ q \in Request(Labels, Ops) /\ req \in [Greenlets -> Request(Labels, Ops)]
      /\ q.rest \in Seq(RoleNames) /\ q.rest \in Seq(Keys) /\ q.rest # <<>>
      /\ asked[n] \in Nat /\ q.pc # "idle"
  BY InProgress DEF RequestOK, Request
<1>2. k = asked[n] - Len(q.rest) + 1
  BY DEF Position
<1>3. CASE Len(q.rest) = 1
  <2>1. k = asked[n]
    BY <1>1, <1>2, <1>3
  <2>2. Reply(g, "created") /\ Truthful(n, "created")'
    BY <1>3, <2>1 DEF NextRole, Truthful, Complete
  <2> QED BY <1>1, <2>2, ReplyStays DEF Answers
<1>4. CASE Len(q.rest) # 1
  <2>1. PICK x : x = [q EXCEPT !.rest = Tail(q.rest), !.row = Null, !.tries = 0]
    OBVIOUS
  <2>2. /\ Tail(q.rest) \in Seq(RoleNames) /\ Tail(q.rest) \in Seq(Keys)
        /\ Len(q.rest) \in Nat \ {0} /\ Len(Tail(q.rest)) = Len(q.rest) - 1
        /\ Tail(q.rest) # <<>> /\ 0 \in 0..Delays
    BY <1>1, <1>4, TailOf, RepositoryAssumption
  <2>3. /\ x \in Request(Labels, Ops) /\ x.pc = "create_role" /\ x.n = n
        /\ x.rest = Tail(q.rest) /\ x.row = Null
    BY <1>1, <2>1, <2>2 DEF Request
  <2>4. RequestOK(x)
    BY <2>2, <2>3 DEF RequestOK
  <2>5. ProgressOK(x)'
    <3>1. /\ asked'[n] - Len(Tail(q.rest)) + 1 = k + 1
          /\ k + 1 \in 1..asked'[n] /\ (k + 1) - 1 = k
      <4>1. PICK l \in Nat \ {0} : l = Len(q.rest)
        BY <2>2
      <4>2. PICK a \in Nat : a = asked[n] /\ a = asked'[n]
        BY <1>1
      <4>3. Len(Tail(q.rest)) = l - 1 /\ k = a - l + 1 /\ l # 1
        BY <4>1, <4>2, <1>2, <1>4, <2>2
      <4>4. k \in Nat /\ k <= a
        BY <4>2
      <4>5. a - (l - 1) + 1 = k + 1
        BY <4>3, <4>4
      <4>6. k + 1 \in 1..a
        BY <4>3, <4>4
      <4>7. (k + 1) - 1 = k
        BY <4>4
      <4> QED BY <4>2, <4>3, <4>5, <4>6, <4>7, Zenon
    <3> QED BY <2>3, <3>1 DEF ProgressOK, Creating, Position
  <2>6. req' = [req EXCEPT ![g] = x] /\ done' = done
    BY <1>1, <1>4, <2>1 DEF NextRole
  <2> QED BY <1>1, <2>3, <2>4, <2>5, <2>6, MoveStays
<1> QED BY <1>3, <1>4

LEMMA RoleCreatedLost ==
    ASSUME BackendInv, NEW g \in Greenlets, req[g].pc = "create_role",
           NEW n \in Numbers, n = req[g].n, NEW k, k = Position(req[g]),
           k \in 1..asked[n], NEW i \in RoleIds, AnswerLost(g, i),
           asked' = asked, Created(n)' = 1..k, <<n, k, i>> \in made'
    PROVE  \E y \in Request(Labels, Ops) : Stays(g, y)
<1>1. /\ req[g] \in Request(Labels, Ops) /\ RequestOK(req[g])
      /\ req[g].pc # "idle"
  BY InProgress
<1>2. Retry(g, i) /\ lost' = lost \cup {n} /\ i \in RowIds
  BY NotNull DEF AnswerLost
<1>3. PICK x : x = Retried(req[g], i)
  OBVIOUS
<1>4. x.pc = "create_role" /\ x.n = n /\ x.row = i /\ x.rest = req[g].rest
  BY <1>1, <1>3 DEF Retried, Request, MethodOf
<1>5. RequestOK(x)
  BY <1>1, <1>4 DEF RequestOK
<1>6. ProgressOK(x)'
  <2>1. Position(x)' = k
    BY <1>4 DEF Position
  <2> QED BY <1>2, <1>4, <2>1 DEF ProgressOK, Creating
<1> QED BY <1>1, <1>2, <1>3, <1>5, <1>6, RetryStays

LEMMA CreateRoleInv ==
    ASSUME BackendInv, NEW g \in Greenlets, CreateRole(g),
           UNCHANGED registrationVars
    PROVE  BackendInv'
<1> DEFINE q == req[g]
<1>1. PICK n \in Numbers : n = q.n
  BY InProgress DEF CreateRole
<1>2. PICK k : k = Position(q)
  OBVIOUS
<1>3. /\ q.pc = "create_role" /\ q.pc # "idle"
      /\ UNCHANGED <<started, asked, user_roles>>
      /\ q.row \in RoleIds \cup {Null} /\ q.rest \in Seq(RoleNames)
      /\ q.rest # <<>> /\ Creating(q, k) /\ TablesOK
  BY <1>1, <1>2, InProgress DEF CreateRole, RequestOK, ProgressOK
<1>4. PICK i \in ObjectId(g, RoleIds) :
        \/ RefuseRole(g) /\ UNCHANGED <<roles, made, lost>>
        \/ /\ roles' = [roles EXCEPT ![i] = Head(q.rest)]
           /\ Made(g, k, i)
           /\ (NextRole(g) /\ UNCHANGED lost) \/ AnswerLost(g, i)
  BY <1>2 DEF CreateRole
<1>5. CASE RefuseRole(g) /\ UNCHANGED <<roles, made, lost>>
  <2>1. Truthful(n, "conflict")'
    BY <1>1, <1>3, <1>5, RefusalTruthful
  <2>2. \E x \in Request(Labels, Ops) : Stays(g, x)
    BY <1>1, <1>3, <1>5, <2>1, ReplyStays DEF RefuseRole, Answers
  <2>3. TablesOK'
    BY <1>3, <1>5, TablesKept DEF roleVars
  <2> QED BY <1>3, <1>5, <2>2, <2>3, PlainStep
<1>6. ASSUME roles' = [roles EXCEPT ![i] = Head(q.rest)], Made(g, k, i),
             (NextRole(g) /\ UNCHANGED lost) \/ AnswerLost(g, i)
      PROVE  BackendInv'
  <2>1. /\ i \in RoleIds /\ Adds(n) /\ Created(n)' = 1..k
        /\ <<n, k, i>> \in made'
    BY <1>1, <1>3, <1>6, CreateAdds
  <2>2. k \in 1..asked[n]
    BY <1>1, <1>3 DEF Creating
  <2>3. TablesOK'
    <3>1. Head(q.rest) \in RoleNames /\ Head(q.rest) # Null
      BY <1>3, TailOf, NotNull
    <3>2. roles' \in [RoleIds -> RoleNames \cup {Null}]
      BY <1>3, <1>6, <3>1 DEF TablesOK
    <3>3. Defined \subseteq Defined'
      BY <1>3, <1>6, <2>1, <3>1 DEF Defined, TablesOK
    <3> QED BY <1>3, <3>2, <3>3 DEF TablesOK, NoDanglingRole, registrationVars
  <2>4. CASE NextRole(g) /\ UNCHANGED lost
    <3>1. \E x \in Request(Labels, Ops) : Stays(g, x)
      BY <1>1, <1>2, <1>3, <2>1, <2>2, <2>4, NextRoleStays
    <3> QED BY <1>1, <1>3, <2>1, <2>3, <2>4, <3>1, OneStep
  <2>5. CASE AnswerLost(g, i)
    <3>1. lost' = lost \cup {n}
      BY <1>1, <2>5 DEF AnswerLost
    <3>2. \E x \in Request(Labels, Ops) : Stays(g, x)
      BY <1>1, <1>2, <1>3, <2>1, <2>2, <2>5, RoleCreatedLost
    <3> QED BY <1>1, <1>3, <2>1, <2>3, <3>1, <3>2, OneStep
  <2> QED BY <1>6, <2>4, <2>5
<1> QED BY <1>4, <1>5, <1>6

LEMMA UpdateRoleInv ==
    ASSUME BackendInv, NEW g \in Greenlets, UpdateRole(g),
           UNCHANGED registrationVars
    PROVE  BackendInv'
<1> DEFINE q == req[g]
<1>1. /\ q.pc = "update_role" /\ q.pc # "idle"
      /\ UNCHANGED <<started, asked, made, user_roles>>
  BY DEF UpdateRole
<1>2. PICK n \in Numbers : n = q.n
  BY <1>1, InProgress
<1>3. /\ q.key \in RoleNames /\ q.key # Null /\ q.ids \subseteq RoleIds
      /\ TablesOK /\ asked[n] = 0
  BY <1>1, <1>2, InProgress, NotNull DEF RequestOK, ProgressOK
<1>4. CASE Reply(g, "conflict") /\ UNCHANGED <<roles, lost>>
  <2>1. Truthful(n, "conflict")'
    BY <1>1, <1>3 DEF Truthful
  <2>2. \E x \in Request(Labels, Ops) : Stays(g, x)
    BY <1>1, <1>2, <1>4, <2>1, ReplyStays DEF Answers
  <2>3. TablesOK'
    BY <1>1, <1>4, TablesKept DEF roleVars
  <2> QED BY <1>1, <1>4, <2>2, <2>3, PlainStep
<1>5. ASSUME q.row \in Defined => ~UpdateViolates(q.row, q.key, q.ids),
             roles' = IF q.row \in Defined
                      THEN Updated(q.row, q.key, q.ids) ELSE roles,
             (Reply(g, "ok") /\ UNCHANGED lost) \/ AnswerLost(g, q.row)
      PROVE  BackendInv'
  <2>1. ASSUME q.row \in Defined PROVE TablesOK'
    <3>1. \A j \in RoleIds : roles'[j] =
             IF j \in q.ids \/ (q.ids = {} /\ j = q.row) THEN q.key
             ELSE IF j = q.row THEN Null ELSE roles[j]
      BY <1>5, <2>1 DEF Updated
    <3>2. roles' \in [RoleIds -> RoleNames \cup {Null}]
      BY <1>3, <1>5, <2>1 DEF Updated, TablesOK
    <3>3. ASSUME NEW u \in Members, NEW j \in user_roles[u] PROVE j \in Defined'
      <4>1. j \in RoleIds /\ roles[j] # Null
        BY <1>3, <3>3 DEF TablesOK, NoDanglingRole, Defined
      <4>2. CASE j = q.row
        <5>1. Holders(q.row) # {}
          BY <3>3, <4>2 DEF Holders
        <5>2. q.ids \ {q.row} = {}
          BY <1>5, <2>1, <5>1 DEF UpdateViolates
        <5>3. j \in q.ids \/ (q.ids = {} /\ j = q.row)
          BY <4>2, <5>2
        <5> QED BY <4>1, <5>3, <3>1, <1>3 DEF Defined
      <4>3. CASE j # q.row
        BY <4>1, <4>3, <3>1, <1>3 DEF Defined
      <4> QED BY <4>2, <4>3
    <3> QED BY <1>1, <1>3, <3>2, <3>3
            DEF TablesOK, NoDanglingRole, registrationVars
  <2>2. ASSUME q.row \notin Defined PROVE TablesOK'
    BY <1>1, <1>5, <2>2, TablesKept DEF roleVars
  <2>3. TablesOK'
    BY <2>1, <2>2
  <2>4. q.row \in {q.row, Null} /\ (q.row = Null => q.row = Null)
    OBVIOUS
  <2>5. /\ \E x \in Request(Labels, Ops) : Stays(g, x)
        /\ lost' \in {lost, lost \cup {q.n}}
    BY <1>1, <1>5, <2>4, ChangeStays
  <2> QED BY <1>1, <2>3, <2>5, PlainStep
<1> QED BY <1>4, <1>5 DEF UpdateRole

\* A request goes on to the second statement of its method.
LEMMA LoadedStays ==
    ASSUME BackendInv, NEW g \in Greenlets,
           NEW label \in {"delete_role", "commit_rows"}, NEW held,
           held \subseteq RowIds \cup Keys,
           req[g].pc = IF label = "delete_role" THEN "load_role" ELSE "load_rows",
           req' = [req EXCEPT ![g].pc = label, ![g].held = held],
           UNCHANGED <<done, asked, made>>
    PROVE  \E x \in Request(Labels, Ops) : Stays(g, x)
<1>1. req[g].pc \in {"load_role", "load_rows"} /\ req[g].pc # "idle"
  OBVIOUS
<1>2. /\ req \in [Greenlets -> Request(Labels, Ops)]
      /\ req[g] \in Request(Labels, Ops)
      /\ RequestOK(req[g])
      /\ Created(req[g].n) = {} /\ asked[req[g].n] = 0
  BY <1>1, InProgress DEF ProgressOK
<1>3. PICK x : x = [req[g] EXCEPT !.pc = label, !.held = held]
  OBVIOUS
<1>4. label \in Labels
  BY DEF Labels, RoleLabels
<1>5. /\ x \in Request(Labels, Ops) /\ x.pc = label /\ x.n = req[g].n
      /\ x.row = req[g].row /\ x.key = req[g].key /\ x.ids = req[g].ids
  BY <1>2, <1>3, <1>4 DEF Request
<1>6. RequestOK(x)
  BY <1>2, <1>5 DEF RequestOK
<1>7. ProgressOK(x)'
  BY <1>2, <1>5 DEF ProgressOK, Created
<1>8. req' = [req EXCEPT ![g] = x]
  BY <1>2, <1>3
<1> QED BY <1>5, <1>6, <1>7, <1>8, MoveStays

LEMMA LoadRoleInv ==
    ASSUME BackendInv, NEW g \in Greenlets, LoadRole(g),
           UNCHANGED registrationVars
    PROVE  BackendInv'
<1>1. /\ req[g].pc = "load_role" /\ req[g].pc # "idle"
      /\ UNCHANGED <<started, asked, made, lost, registrationVars, roleVars>>
  BY DEF LoadRole
<1>2. CASE /\ req' = [req EXCEPT ![g].pc = "delete_role",
                                 ![g].held = Holders(req[g].row)]
           /\ UNCHANGED done
  <2>1. Holders(req[g].row) \subseteq RowIds \cup Keys
    BY NotNull DEF Holders
  <2>2. \E x \in Request(Labels, Ops) : Stays(g, x)
    BY <1>1, <1>2, <2>1, LoadedStays
  <2> QED BY <1>1, <2>2, TablesKept, PlainStep
<1>3. CASE Reply(g, "not_found")
  <2>1. \E x \in Request(Labels, Ops) : Stays(g, x)
    BY <1>1, <1>3, PlainReplyStays DEF Answers
  <2> QED BY <1>1, <2>1, TablesKept, PlainStep
<1> QED BY <1>2, <1>3 DEF LoadRole

LEMMA DeleteRoleInv ==
    ASSUME BackendInv, NEW g \in Greenlets, DeleteRole(g),
           UNCHANGED registrationVars
    PROVE  BackendInv'
<1> DEFINE q == req[g]
<1>1. /\ q.pc = "delete_role" /\ q.pc # "idle"
      /\ UNCHANGED <<started, asked, made>>
  BY DEF DeleteRole
<1>2. q.row \in RoleIds /\ q.row # Null /\ TablesOK
  BY <1>1, InProgress, NotNull DEF RequestOK
<1>3. ASSUME NEW kept, kept = Unassigned(q.row, q.held), ~Orphans(q.row, kept),
             user_roles' = kept, roles' = [roles EXCEPT ![q.row] = Null],
             (Reply(g, "ok") /\ UNCHANGED lost) \/ AnswerLost(g, q.row)
      PROVE  BackendInv'
  <2>1. \A u \in Members : kept[u] \subseteq user_roles[u] /\ q.row \notin kept[u]
    BY <1>3 DEF Unassigned, Orphans
  <2>2. user_roles' \in [Members -> SUBSET RoleIds]
    BY <1>2, <1>3 DEF Unassigned, TablesOK
  <2>3. roles' \in [RoleIds -> RoleNames \cup {Null}]
    BY <1>2, <1>3 DEF TablesOK
  <2>4. NoDanglingRole'
    BY <1>2, <1>3, <2>1 DEF NoDanglingRole, TablesOK, Defined
  <2>5. TablesOK'
    BY <1>2, <2>2, <2>3, <2>4 DEF TablesOK, registrationVars
  <2>6. /\ \E x \in Request(Labels, Ops) : Stays(g, x)
        /\ lost' \in {lost, lost \cup {q.n}}
    BY <1>1, <1>2, <1>3, ChangeStays
  <2> QED BY <1>1, <2>5, <2>6, PlainStep
<1>4. CASE Reply(g, "error") /\ UNCHANGED <<roleVars, lost>>
  <2>1. \E x \in Request(Labels, Ops) : Stays(g, x)
    BY <1>1, <1>4, PlainReplyStays DEF Answers
  <2> QED BY <1>1, <1>4, <2>1, TablesKept, PlainStep
<1> QED BY <1>3, <1>4 DEF DeleteRole

LEMMA LoadRowsInv ==
    ASSUME BackendInv, NEW g \in Greenlets, LoadRows(g),
           UNCHANGED registrationVars
    PROVE  BackendInv'
<1>1. /\ req[g].pc = "load_rows" /\ req[g].pc # "idle"
      /\ UNCHANGED <<started, asked, made, lost, registrationVars, roleVars>>
  BY DEF LoadRows
<1>2. CASE /\ req' = [req EXCEPT ![g].pc = "commit_rows",
                                 ![g].held = user_roles[req[g].key]]
           /\ UNCHANGED done
  <2>1. TablesOK /\ req[g].key \in Members
    BY <1>1, InProgress DEF RequestOK
  <2>2. user_roles[req[g].key] \subseteq RowIds \cup Keys
    BY <2>1, NotNull DEF TablesOK
  <2>3. \E x \in Request(Labels, Ops) : Stays(g, x)
    BY <1>1, <1>2, <2>2, LoadedStays
  <2> QED BY <1>1, <2>3, TablesKept, PlainStep
<1>3. ASSUME NEW answer \in {"not_found", "error"}, Reply(g, answer)
      PROVE  BackendInv'
  <2>1. \E x \in Request(Labels, Ops) : Stays(g, x)
    BY <1>1, <1>3, PlainReplyStays DEF Answers
  <2> QED BY <1>1, <2>1, TablesKept, PlainStep
<1> QED BY <1>2, <1>3 DEF LoadRows

\* The roles of one user are changed to some that have rows.
LEMMA RolesOfUser ==
    ASSUME BackendInv, NEW g \in Greenlets, req[g].pc = "commit_rows",
           UNCHANGED <<started, asked, made, registrationVars, roles>>,
           NEW ids, ids \subseteq Defined,
           user_roles' = [user_roles EXCEPT ![req[g].key] = ids],
           (Reply(g, "ok") /\ UNCHANGED lost) \/ AnswerLost(g, Null)
    PROVE  BackendInv'
<1>1. /\ req[g].pc # "idle" /\ TablesOK /\ req[g].key \in Members
  BY InProgress DEF RequestOK
<1>2. ids \subseteq RoleIds
  BY DEF Defined
<1>3. user_roles' \in [Members -> SUBSET RoleIds]
  BY <1>1, <1>2 DEF TablesOK
<1>4. \A u \in Members : user_roles'[u] = IF u = req[g].key THEN ids
                                                           ELSE user_roles[u]
  BY <1>1 DEF TablesOK
<1>5. TablesOK'
  BY <1>1, <1>3, <1>4 DEF TablesOK, NoDanglingRole, Defined, registrationVars
<1>6. /\ \E x \in Request(Labels, Ops) : Stays(g, x)
      /\ lost' \in {lost, lost \cup {req[g].n}}
  BY <1>1, ChangeStays
<1> QED BY <1>1, <1>5, <1>6, PlainStep

LEMMA CommitRowsInv ==
    ASSUME BackendInv, NEW g \in Greenlets, AddUserRoles(g) \/ RemoveUserRoles(g),
           UNCHANGED registrationVars
    PROVE  BackendInv'
<1> DEFINE q == req[g]
<1>1. /\ q.pc = "commit_rows" /\ q.pc # "idle"
      /\ UNCHANGED <<started, asked, made, roles>>
  BY DEF AddUserRoles, RemoveUserRoles
<1>2. /\ q.key \in Members /\ user_roles[q.key] \subseteq Defined
  BY <1>1, InProgress DEF RequestOK, TablesOK, NoDanglingRole
<1>3. CASE Reply(g, "error") /\ UNCHANGED <<user_roles, lost>>
  <2>1. \E x \in Request(Labels, Ops) : Stays(g, x)
    BY <1>1, <1>3, PlainReplyStays DEF Answers
  <2>2. TablesOK'
    BY <1>1, <1>3, TablesKept DEF roleVars
  <2> QED BY <1>1, <1>3, <2>1, <2>2, PlainStep
<1>4. ASSUME NEW ids, ids \subseteq Defined,
             user_roles' = [user_roles EXCEPT ![q.key] = ids],
             (Reply(g, "ok") /\ UNCHANGED lost) \/ AnswerLost(g, Null)
      PROVE  BackendInv'
  BY <1>1, <1>4, RolesOfUser
<1>5. CASE AddUserRoles(g)
  <2>1. ASSUME Insertable(q.key, q.ids \ q.held)
        PROVE  user_roles[q.key] \cup (q.ids \ q.held) \subseteq Defined
    BY <1>2, <2>1 DEF Insertable
  <2> QED BY <1>3, <1>4, <1>5, <2>1 DEF AddUserRoles
<1>6. CASE RemoveUserRoles(g)
  <2>1. user_roles[q.key] \ q.ids \subseteq Defined
    BY <1>2
  <2> QED BY <1>3, <1>4, <1>6, <2>1 DEF RemoveUserRoles
<1> QED BY <1>5, <1>6

LEMMA ServeRolesInv ==
    ASSUME BackendInv, NEW g \in Greenlets, ServeRoles(g),
           UNCHANGED registrationVars
    PROVE  BackendInv'
BY CreateRoleInv, UpdateRoleInv, LoadRoleInv, DeleteRoleInv, LoadRowsInv,
   CommitRowsInv DEF ServeRoles

-----------------------------------------------------------------------------
(* The theorems.                                                           *)

LEMMA NextInv ==
    ASSUME BackendInv, [Next]_vars
    PROVE  BackendInv'
<1>1. CASE Crash
  BY <1>1, CrashInv
<1>2. ASSUME NEW g \in Greenlets, Arrive(g)
      PROVE  BackendInv'
  BY <1>2, ArriveUsersInv, ArriveRolesInv DEF Arrive
<1>3. ASSUME NEW g \in Greenlets, Serve(g)
      PROVE  BackendInv'
  BY <1>3, ServeUsersInv, ServeRolesInv, FailsInv DEF Serve
<1>4. CASE UNCHANGED vars
  <2>1. /\ UNCHANGED repositoryVars
        /\ UNCHANGED <<registrationVars, roleVars>>
    BY <1>4 DEF vars
  <2>2. UNCHANGED <<req, started, done, asked, made, lost>>
    BY <2>1 DEF repositoryVars
  <2>3. TypeOK' /\ NoDanglingRole'
    BY <2>1, <2>2, TablesKept DEF TablesOK, BackendInv, TypeOK
  <2>4. \A n : Created(n)' = Created(n)
    BY <2>2 DEF Created
  <2>5. NumbersOK' /\ CreatedOnce' /\ AnswersTruthful'
    BY <2>2, <2>4 DEF BackendInv, NumbersOK, CreatedOnce, AnswersTruthful,
                      MadeInOrder, Complete
  <2>6. ASSUME NEW g \in Greenlets, req'[g].pc # "idle"
        PROVE  RequestOK(req'[g]) /\ ProgressOK(req[g])'
    <3>1. RequestOK(req[g]) /\ ProgressOK(req[g])
      BY <2>2, <2>6 DEF BackendInv
    <3> QED BY <2>2, <2>4, <3>1 DEF ProgressOK, Creating, Complete, Position
  <2> QED BY <2>3, <2>5, <2>6 DEF BackendInv
<1> QED BY <1>1, <1>2, <1>3, <1>4 DEF Next

\* Whatever calls fail, lose their answer and are repeated, and whenever the
\* worker dies: the tables keep their shapes, and a request in progress has
\* committed exactly the rows that come before the call it is in, or also the
\* row of this call if it was not told.
THEOREM BackendInvariant == Spec => []BackendInv
BY InitInv, NextInv, PTL DEF Spec

\* create_obj_in_db, repeated as often as backoff repeats it, never makes two
\* rows of one object, in whatever way its requests meet.
THEOREM RowsCreatedOnce == Spec => []CreatedOnce
<1>1. BackendInv => CreatedOnce
  BY DEF BackendInv
<1> QED BY <1>1, BackendInvariant, PTL

\* RegistrationView and RolesView answer 201 only when every row of the request
\* was committed, and 409 only when one was not, or an answer was lost; they
\* commit the rows of a request in order.
THEOREM AnswersAreTruthful == Spec => []AnswersTruthful
<1>1. BackendInv => AnswersTruthful
  BY DEF BackendInv
<1> QED BY <1>1, BackendInvariant, PTL

\* delete_object_by_field, add_many_to_many_row and update_role together never
\* leave a user with the id of a role that has no row.
THEOREM NoDanglingRoles == Spec => []NoDanglingRole
<1>1. BackendInv => NoDanglingRole
  BY DEF BackendInv
<1> QED BY <1>1, BackendInvariant, PTL
=============================================================================
