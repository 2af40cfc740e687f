---------------------------- MODULE RecordsProofs ----------------------------
(***************************************************************************)
(* RecordsInv, on top of BackendInv: users belong to the requests that     *)
(* registered them, and events to the users they are about.  It makes      *)
(* EventForNewUser and SilentUserExplained hold for every number of        *)
(* greenlets, rows, requests and delays, and DeletedRoleStaysDeleted.      *)
(***************************************************************************)
EXTENDS BackendProofs

IdsUnique    == \A x, y \in made : x[3] = y[3] => x[1] = y[1]
LoginsUnique == \A u, v \in Rows : users[u].login = users[v].login => u = v

\* The request of g goes on as x, or it is answered.
Proceeds(g, x) ==
    /\ req' = [req EXCEPT ![g] = x]
    /\ \/ x.pc # "idle" /\ x.n = req[g].n /\ done' = done
       \/ x = NoRequest /\ \E a \in Answers : done' = [done EXCEPT ![req[g].n] = a]

\* What it may do to the tables: users keep the request that created them and
\* their rank, a new password is its own, and a new user has been committed.
Writes(n) ==
    /\ made \subseteq made' /\ lost \subseteq lost' /\ queue \subseteq queue'
    /\ asked' = asked
    /\ Rows \subseteq Rows'
    /\ \A u \in Rows :
         /\ users'[u].by = users[u].by
         /\ users'[u].is_superuser = users[u].is_superuser
         /\ users'[u] = users[u] \/ users'[u].password = n
    /\ \A u \in Rows' \ Rows : users'[u].by = n /\ <<n, 1, u>> \in made'

\* An event is about the user that its request has committed.
EventOK(e) ==
    done[e.by] # Null /\ \E r \in UserIds :
        Registered(e.by, r) /\ (users[r].password = e.by => r = e.user)

\* Request n owes nobody an event.
Told(n) ==
    \/ n \in lost
    \/ \E e \in queue : e.by = n
    \/ \A u \in Rows : users[u].by = n => users[u].is_superuser

\* What is left to show of a step of request n, case by case.
Leaves(n, x) ==
    /\ IdsUnique' /\ LoginsUnique'
    /\ \A e \in queue' \ queue : EventOK(e)'
    /\ x.pc # "idle" => RegistrationOK(x)'
    /\ x.pc = "idle" => done'[n] = "error" \/ Told(n)'

LEMMA RecordsAre ==
    RecordsInv <=> /\ IdsUnique /\ LoginsUnique
                   /\ \A u \in Rows : Registered(users[u].by, u) /\ Explained(u)
                   /\ \A e \in queue : EventOK(e)
                   /\ \A g \in Greenlets : req[g].pc # "idle" => RegistrationOK(req[g])
  BY DEF RecordsInv, IdsUnique, LoginsUnique, EventOK

LEMMA RecordsThen ==
    ASSUME IdsUnique', LoginsUnique',
           \A u \in Rows' : (Registered(users[u].by, u) /\ Explained(u))',
           \A e \in queue' : EventOK(e)',
           \A g \in Greenlets : req'[g].pc # "idle" => RegistrationOK(req[g])'
    PROVE  RecordsInv'
  BY DEF RecordsInv, IdsUnique, LoginsUnique, EventOK

\* The requests that are in progress besides that of g, and what is answered.
LEMMA Others ==
    ASSUME BackendInv, NEW g \in Greenlets, req[g].pc # "idle", NEW x, Proceeds(g, x)
    PROVE  /\ req'[g] = x
           /\ \A h \in Greenlets \ {g} :
                req'[h] = req[h] /\ (req[h].pc # "idle" => req[h].n # req[g].n)
           /\ \A n \in Numbers \ {req[g].n} : done'[n] = done[n]
           /\ x.pc # "idle" => done' = done /\ x.n = req[g].n
           /\ x.pc = "idle" => done'[req[g].n] # Null
  <1>1. /\ req \in [Greenlets -> Request(Labels, Ops)]
        /\ done \in [Numbers -> Answers \cup {Null}]
        /\ req[g].n \in Numbers
    BY InProgress
  <1>2. \A h \in Greenlets \ {g} : req[h].pc # "idle" => req[h].n # req[g].n
    BY DEF BackendInv, NumbersOK
  <1>3. Null \notin Answers /\ NoRequest.pc = "idle"
    BY RepositoryAssumption DEF NoRequest
  <1> QED
    BY <1>1, <1>2, <1>3 DEF Proceeds

\* Users keep what is written of them elsewhere.
LEMMA RegisteredStays ==
    ASSUME NEW n, Writes(n), NEW j, j # n, NEW r \in UserIds, Registered(j, r)
    PROVE  /\ Registered(j, r)'
           /\ users'[r].password = j => users'[r] = users[r]
  BY DEF Writes, Registered

LEMMA EventStays ==
    ASSUME NEW n, Writes(n), NEW e, e.by # n, EventOK(e), done'[e.by] = done[e.by]
    PROVE  EventOK(e)'
  <1>1. PICK r \in UserIds :
          Registered(e.by, r) /\ (users[r].password = e.by => r = e.user)
    BY DEF EventOK
  <1>2. Registered(e.by, r)' /\ (users'[r].password = e.by => users'[r] = users[r])
    BY <1>1, RegisteredStays
  <1> QED
    BY <1>1, <1>2 DEF EventOK

LEMMA RegistrationStays ==
    ASSUME NEW n, Writes(n), NEW q, q.n # n, RegistrationOK(q)
    PROVE  RegistrationOK(q)'
  <1>1. q.pc = "fetch" => \E r \in UserIds :
          Registered(q.n, r)' /\ (users'[r].password = q.n => users'[r].login = q.key)
    <2> SUFFICES ASSUME q.pc = "fetch"
                 PROVE  \E r \in UserIds : Registered(q.n, r)' /\
                          (users'[r].password = q.n => users'[r].login = q.key)
      OBVIOUS
    <2>1. PICK r \in UserIds :
            Registered(q.n, r) /\ (users[r].password = q.n => users[r].login = q.key)
      BY DEF RegistrationOK
    <2>2. Registered(q.n, r)' /\ (users'[r].password = q.n => users'[r] = users[r])
      BY <2>1, RegisteredStays
    <2> QED
      BY <2>1, <2>2
  <1>2. q.pc \in {"link", "publish"} => \E r \in UserIds :
          Registered(q.n, r)' /\ (users'[r].password = q.n => r = q.row)
    <2> SUFFICES ASSUME q.pc \in {"link", "publish"}
                 PROVE  \E r \in UserIds : Registered(q.n, r)' /\
                          (users'[r].password = q.n => r = q.row)
      OBVIOUS
    <2>1. PICK r \in UserIds :
            Registered(q.n, r) /\ (users[r].password = q.n => r = q.row)
      BY DEF RegistrationOK
    <2>2. Registered(q.n, r)' /\ (users'[r].password = q.n => users'[r] = users[r])
      BY <2>1, RegisteredStays
    <2> QED
      BY <2>1, <2>2
  <1>3. q.pc = "create_role" => \A u \in Rows' : users'[u].by # q.n
    BY DEF RegistrationOK, Writes
  <1>4. q.pc \in {"create", "create_superuser", "create_role"} /\ q.row # Null =>
          q.n \in lost' /\ \E k \in 1..asked'[q.n] : <<q.n, k, q.row>> \in made'
    BY DEF RegistrationOK, Writes
  <1> QED
    BY <1>1, <1>2, <1>3, <1>4 DEF RegistrationOK

\* A user whose request goes on, or is answered, has an event or a reason for
\* having none.
LEMMA ExplainedStays ==
    ASSUME BackendInv, RecordsInv, NEW g \in Greenlets, req[g].pc # "idle",
           NEW n \in Numbers, n = req[g].n, NEW x, Proceeds(g, x), Writes(n),
           Leaves(n, x), NEW u \in Rows'
    PROVE  Explained(u)'
  <1>1. /\ req'[g] = x
        /\ \A h \in Greenlets \ {g} : req'[h] = req[h]
        /\ \A m \in Numbers \ {n} : done'[m] = done[m]
        /\ x.pc # "idle" => x.n = n
    BY Others
  <1>2. PICK b : b = users'[u].by
    OBVIOUS
  <1>3. CASE b = n
    <2>1. CASE x.pc # "idle"
      BY <1>1, <1>2, <1>3, <2>1 DEF Explained
    <2>2. CASE x.pc = "idle"
      <3>1. u \in Rows' /\ users'[u].by = n
        BY <1>2, <1>3
      <3>2. done'[n] = "error" \/ Told(n)'
        BY <2>2 DEF Leaves
      <3>3. CASE Told(n)'
        BY <3>1, <3>3 DEF Explained, Told
      <3>4. CASE done'[n] = "error"
        BY <3>1, <3>4 DEF Explained
      <3> QED
        BY <3>2, <3>3, <3>4
    <2> QED
      BY <2>1, <2>2
  <1>4. CASE b # n
    <2>1. /\ u \in Rows /\ b = users[u].by
          /\ users'[u].is_superuser = users[u].is_superuser
      BY <1>2, <1>4 DEF Writes
    <2>2. b \in Numbers /\ Explained(u)
      <3>1. Registered(users[u].by, u) /\ Explained(u)
        BY <2>1 DEF RecordsInv
      <3>2. made \subseteq Numbers \X (Nat \ {0}) \X RowIds
        BY DEF BackendInv, TypeOK
      <3> QED
        BY <2>1, <3>1, <3>2 DEF Registered
    <2>3. ASSUME NEW h \in Greenlets, req[h].pc # "idle", req[h].n = b
          PROVE  req'[h].pc # "idle" /\ req'[h].n = b
      BY <1>1, <1>4, <2>3
    <2>4. done'[b] = done[b]
      BY <1>1, <1>4, <2>2
    <2>5. lost \subseteq lost' /\ queue \subseteq queue'
      BY DEF Writes
    <2> QED
      BY <1>2, <2>1, <2>2, <2>3, <2>4, <2>5 DEF Explained
  <1> QED
    BY <1>3, <1>4

\* What all steps of a request have in common.
LEMMA RecordsStep ==
    ASSUME BackendInv, RecordsInv, NEW g \in Greenlets, req[g].pc # "idle",
           NEW n \in Numbers, n = req[g].n, NEW x, Proceeds(g, x), Writes(n),
           Leaves(n, x)
    PROVE  RecordsInv'
  <1>1. /\ req'[g] = x
        /\ \A h \in Greenlets \ {g} :
             req'[h] = req[h] /\ (req[h].pc # "idle" => req[h].n # n)
        /\ \A m \in Numbers \ {n} : done'[m] = done[m]
        /\ x.pc # "idle" => done' = done
        /\ done[n] = Null
    <2>1. done[n] = Null
      BY DEF BackendInv, NumbersOK
    <2> QED
      BY <2>1, Others
  <1>2. ASSUME NEW u \in Rows' PROVE (Registered(users[u].by, u) /\ Explained(u))'
    <2>1. Registered(users[u].by, u)'
      <3>1. CASE u \in Rows
        BY <3>1, RecordsAre DEF Registered, Writes
      <3>2. CASE u \notin Rows
        BY <1>2, <3>2 DEF Registered, Writes
      <3> QED
        BY <3>1, <3>2
    <2> QED
      BY <2>1, <1>2, ExplainedStays
  <1>3. ASSUME NEW e \in queue' PROVE EventOK(e)'
    <2>1. CASE e \in queue
      <3>1. EventOK(e) /\ e.by \in Numbers
        BY <2>1, RecordsAre DEF BackendInv, TypeOK
      <3>2. e.by # n
        BY <1>1, <3>1 DEF EventOK
      <3>3. done'[e.by] = done[e.by]
        BY <1>1, <3>1, <3>2
      <3> QED
        BY <3>1, <3>2, <3>3, EventStays
    <2>2. CASE e \notin queue
      BY <1>3, <2>2 DEF Leaves
    <2> QED
      BY <2>1, <2>2
  <1>4. ASSUME NEW h \in Greenlets, req'[h].pc # "idle" PROVE RegistrationOK(req[h])'
    <2>1. PICK q : q = req'[h]
      OBVIOUS
    <2>2. CASE h = g
      <3>1. RegistrationOK(x)'
        BY <1>1, <1>4, <2>2 DEF Leaves
      <3> QED
        BY <1>1, <2>2, <3>1 DEF RegistrationOK
    <2>3. CASE h # g
      <3>1. q = req[h] /\ q.n # n /\ RegistrationOK(q)
        BY <1>1, <1>4, <2>1, <2>3, RecordsAre
      <3>2. RegistrationOK(q)'
        BY <3>1, RegistrationStays
      <3> QED
        BY <2>1, <3>2 DEF RegistrationOK
    <2> QED
      BY <2>2, <2>3
  <1>5. IdsUnique' /\ LoginsUnique'
    BY DEF Leaves
  <1> QED
    BY <1>2, <1>3, <1>4, <1>5, RecordsThen

-----------------------------------------------------------------------------
(* The ways in which a request goes on.                                    *)

LEMMA Answered ==
    ASSUME BackendInv, NEW g \in Greenlets, req[g].pc # "idle",
           NEW n \in Numbers, n = req[g].n, NEW answer \in Answers, Reply(g, answer)
    PROVE  Proceeds(g, NoRequest) /\ NoRequest.pc = "idle" /\ done'[n] = answer
  <1>1. done \in [Numbers -> Answers \cup {Null}]
    BY InProgress
  <1>2. NoRequest.pc = "idle"
    BY DEF NoRequest
  <1> QED
    BY <1>1, <1>2 DEF Reply, Proceeds

\* The request goes on at label as x.
Moves(g, label, x) ==
    /\ x.pc = label
    /\ x.n = req[g].n /\ x.row = req[g].row /\ x.key = req[g].key

LEMMA GoesOn ==
    ASSUME BackendInv, NEW g \in Greenlets, req[g].pc # "idle",
           NEW label, label # "idle", Goto(g, label)
    PROVE  \E x : Proceeds(g, x) /\ Moves(g, label, x)
  <1>1. req \in [Greenlets -> Request(Labels, Ops)] /\ req[g] \in Request(Labels, Ops)
    BY InProgress
  <1>2. PICK x : x = [req[g] EXCEPT !.pc = label, !.tries = 0]
    OBVIOUS
  <1>3. Moves(g, label, x)
    BY <1>1, <1>2 DEF Request, Moves
  <1>4. req' = [req EXCEPT ![g] = x] /\ done' = done
    BY <1>1, <1>2 DEF Goto
  <1> QED
    BY <1>3, <1>4 DEF Proceeds, Moves

\* The request is repeated as x, or given up.
Again(g, row, x) ==
    \/ /\ x.pc = MethodOf(req[g].pc) /\ x.pc # "idle"
       /\ x.n = req[g].n /\ x.row = row /\ x.key = req[g].key
    \/ /\ x = NoRequest /\ x.pc = "idle" /\ done'[req[g].n] = "error"

LEMMA Repeated ==
    ASSUME BackendInv, NEW g \in Greenlets, req[g].pc # "idle",
           NEW row, Retry(g, row)
    PROVE  \E x : Proceeds(g, x) /\ Again(g, row, x)
  <1>1. req \in [Greenlets -> Request(Labels, Ops)] /\ req[g] \in Request(Labels, Ops)
    BY InProgress
  <1>2. CASE req[g].tries < Delays
    <2>1. PICK x : x = Retried(req[g], row)
      OBVIOUS
    <2>2. req[g].pc \in Labels /\ MethodOf(req[g].pc) \in Labels
      BY <1>1, MethodOfLabel DEF Request
    <2>3. MethodOf(req[g].pc) # "idle"
      BY <2>2 DEF Labels, UserLabels, RoleLabels
    <2>4. /\ x.pc = MethodOf(req[g].pc) /\ x.pc # "idle" /\ x.n = req[g].n
          /\ x.row = row /\ x.key = req[g].key
      BY <1>1, <2>1, <2>3 DEF Request, Retried
    <2>5. req' = [req EXCEPT ![g] = x] /\ done' = done
      BY <1>1, <1>2, <2>1 DEF Retry, Retried, Request
    <2> QED
      BY <2>4, <2>5 DEF Proceeds, Again
  <1>3. CASE ~(req[g].tries < Delays)
    <2>1. Reply(g, "error") /\ "error" \in Answers
      BY <1>3 DEF Retry, Answers
    <2>2. PICK n \in Numbers : n = req[g].n
      BY InProgress
    <2>3. Proceeds(g, NoRequest) /\ NoRequest.pc = "idle" /\ done'[n] = "error"
      BY <2>1, <2>2, Answered
    <2> QED
      BY <2>2, <2>3 DEF Again
  <1> QED
    BY <1>2, <1>3

\* A request without rows has no user; one that creates a row has none either,
\* or it was not told of it.
LEMMA NoUsers ==
    ASSUME RecordsInv, NEW n, Created(n) = {}
    PROVE  \A u \in Rows : users[u].by # n
  <1>1. ASSUME NEW u \in Rows, users[u].by = n PROVE FALSE
    <2>1. <<n, 1, u>> \in made
      BY <1>1 DEF RecordsInv, Registered
    <2>2. 1 \in Created(n)
      BY <2>1 DEF Created
    <2> QED
      BY <2>2
  <1> QED
    BY <1>1

LEMMA ToldBefore ==
    ASSUME BackendInv, RecordsInv, NEW g \in Greenlets, req[g].pc # "idle",
           req[g].pc \notin {"fetch", "link", "publish"}
    PROVE  Told(req[g].n)
  <1>1. ProgressOK(req[g]) /\ RegistrationOK(req[g])
    BY InProgress DEF RecordsInv
  <1>2. CASE req[g].pc \in {"create", "create_superuser"}
    <2>1. Creating(req[g], 1)
      BY <1>1, <1>2 DEF ProgressOK
    <2>2. Created(req[g].n) = {} \/ req[g].n \in lost
      BY <2>1 DEF Creating
    <2> QED
      BY <2>2, NoUsers DEF Told
  <1>3. CASE req[g].pc = "create_role"
    BY <1>1, <1>3 DEF RegistrationOK, Told
  <1>4. CASE req[g].pc \notin {"create", "create_superuser", "create_role"}
    <2>1. Created(req[g].n) = {}
      BY <1>1, <1>4 DEF ProgressOK
    <2> QED
      BY <2>1, NoUsers DEF Told
  <1> QED
    BY <1>2, <1>3, <1>4

LEMMA ToldStays ==
    ASSUME NEW n, Told(n), Writes(n), Rows' = Rows
    PROVE  Told(n)'
  BY DEF Told, Writes

\* Labels whose requests hold what RegistrationOK says.
Special == {"fetch", "link", "publish", "create", "create_superuser", "create_role"}

LEMMA PlainRegistration ==
    ASSUME NEW x, x.pc \notin Special PROVE RegistrationOK(x)'
  BY DEF RegistrationOK, Special

LEMMA SameRegistration ==
    ASSUME NEW q, NEW x, RegistrationOK(q), x.n = q.n, x.row = q.row, x.key = q.key,
           x.pc = q.pc \/ (q.pc = "link" /\ x.pc = "publish"),
           UNCHANGED <<users, made, asked>>, lost \subseteq lost'
    PROVE  RegistrationOK(x)'
  <1>1. \A n, r : Registered(n, r)' <=> Registered(n, r)
    BY DEF Registered, Rows
  <1>2. x.pc = "fetch" => \E r \in UserIds :
          Registered(x.n, r) /\ (users[r].password = x.n => users[r].login = x.key)
    BY DEF RegistrationOK
  <1>3. x.pc \in {"link", "publish"} => \E r \in UserIds :
          Registered(x.n, r) /\ (users[r].password = x.n => r = x.row)
    BY DEF RegistrationOK
  <1>4. x.pc = "create_role" => \A u \in Rows : users[u].by # x.n
    BY DEF RegistrationOK
  <1>5. x.pc \in {"create", "create_superuser", "create_role"} /\ x.row # Null =>
          x.n \in lost /\ \E k \in 1..asked[x.n] : <<x.n, k, x.row>> \in made
    BY DEF RegistrationOK
  <1>6. Rows' = Rows
    BY DEF Rows
  <1> QED
    BY <1>1, <1>2, <1>3, <1>4, <1>5, <1>6 DEF RegistrationOK

\* A step that changes neither users nor events nor what is committed.
LEMMA QuietStep ==
    ASSUME BackendInv, RecordsInv, NEW g \in Greenlets, req[g].pc # "idle",
           UNCHANGED <<users, queue, made, asked>>, lost \subseteq lost',
           NEW x, Proceeds(g, x),
           x.pc # "idle" => RegistrationOK(x)',
           x.pc = "idle" => done'[req[g].n] = "error"
                            \/ req[g].pc \notin {"fetch", "link", "publish"}
    PROVE  RecordsInv'
  <1>1. PICK n \in Numbers : n = req[g].n
    BY InProgress
  <1>2. Rows' = Rows
    BY DEF Rows
  <1>3. Writes(n)
    BY <1>2 DEF Writes
  <1>4. IdsUnique' /\ LoginsUnique'
    BY <1>2, RecordsAre DEF IdsUnique, LoginsUnique
  <1>5. x.pc = "idle" => done'[n] = "error" \/ Told(n)'
    BY <1>1, <1>2, <1>3, ToldBefore, ToldStays
  <1>6. Leaves(n, x)
    BY <1>4, <1>5 DEF Leaves
  <1> QED
    BY <1>1, <1>3, <1>6, RecordsStep

LEMMA QuietReply ==
    ASSUME BackendInv, RecordsInv, NEW g \in Greenlets, req[g].pc # "idle",
           UNCHANGED <<users, queue, made, asked>>, lost \subseteq lost',
           NEW answer \in Answers, Reply(g, answer),
           answer = "error" \/ req[g].pc \notin {"fetch", "link", "publish"}
    PROVE  RecordsInv'
  <1>1. PICK n \in Numbers : n = req[g].n
    BY InProgress
  <1>2. Proceeds(g, NoRequest) /\ NoRequest.pc = "idle" /\ done'[n] = answer
    BY <1>1, Answered
  <1>3. PICK x : x = NoRequest
    OBVIOUS
  <1> QED
    BY <1>1, <1>2, <1>3, QuietStep

\* The call is repeated, with the id that it had, unless its label is not special.
LEMMA QuietRetry ==
    ASSUME BackendInv, RecordsInv, NEW g \in Greenlets, req[g].pc # "idle",
           UNCHANGED <<users, queue, made, asked>>, lost \subseteq lost',
           NEW row, Retry(g, row), row = req[g].row \/ req[g].pc \notin Special
    PROVE  RecordsInv'
  <1>1. PICK x : Proceeds(g, x) /\ Again(g, row, x)
    BY Repeated
  <1>2. req[g].pc \in Labels /\ RegistrationOK(req[g])
    BY InProgress DEF Request, RecordsInv
  <1>3. CASE x.pc # "idle"
    <2>1. /\ x.pc = MethodOf(req[g].pc) /\ x.n = req[g].n
          /\ x.row = row /\ x.key = req[g].key
      BY <1>1, <1>3 DEF Again
    <2>2. CASE req[g].pc \in Special
      <3>1. x.pc = req[g].pc
        BY <1>2, <2>1, <2>2, MethodOfLabel DEF Special
      <3>2. RegistrationOK(x)'
        BY <1>2, <2>1, <2>2, <3>1, SameRegistration
      <3> QED
        BY <1>1, <1>3, <3>2, QuietStep
    <2>3. CASE req[g].pc \notin Special
      <3>1. x.pc \notin Special
        BY <1>2, <2>1, <2>3, MethodOfLabel DEF Special
      <3>2. RegistrationOK(x)'
        BY <3>1, PlainRegistration
      <3> QED
        BY <1>1, <1>3, <3>2, QuietStep
    <2> QED
      BY <2>2, <2>3
  <1>4. CASE x.pc = "idle"
    <2>1. done'[req[g].n] = "error"
      BY <1>1, <1>4, <1>2, MethodOfLabel DEF Again
    <2> QED
      BY <1>1, <1>4, <2>1, QuietStep
  <1> QED
    BY <1>3, <1>4

\* The request goes on to a label that holds nothing of its own.
LEMMA QuietMove ==
    ASSUME BackendInv, RecordsInv, NEW g \in Greenlets, req[g].pc # "idle",
           UNCHANGED <<users, queue, made, asked>>, lost \subseteq lost',
           NEW x, req' = [req EXCEPT ![g] = x], done' = done,
           x.pc # "idle", x.n = req[g].n, x.pc \notin Special
    PROVE  RecordsInv'
  <1>1. Proceeds(g, x)
    BY DEF Proceeds
  <1> QED
    BY <1>1, PlainRegistration, QuietStep

\* A change that is answered, or whose answer is lost.
LEMMA QuietChange ==
    ASSUME BackendInv, RecordsInv, NEW g \in Greenlets, req[g].pc # "idle",
           UNCHANGED <<users, queue, made, asked>>, req[g].pc \notin Special,
           NEW row, (Reply(g, "ok") /\ UNCHANGED lost) \/ AnswerLost(g, row)
    PROVE  RecordsInv'
  <1>1. CASE Reply(g, "ok") /\ UNCHANGED lost
    BY <1>1, QuietReply DEF Answers, Special
  <1>2. CASE AnswerLost(g, row)
    BY <1>2, QuietRetry DEF AnswerLost
  <1> QED
    BY <1>1, <1>2

LEMMA FailsRecords ==
    ASSUME BackendInv, RecordsInv, NEW g \in Greenlets, Fails(g)
    PROVE  RecordsInv'
  BY QuietRetry DEF Fails, CallFails, registrationVars

LEMMA RoleChangesRecords ==
    ASSUME BackendInv, RecordsInv, NEW g \in Greenlets, UNCHANGED registrationVars,
           ServeRoles(g), req[g].pc # "create_role"
    PROVE  RecordsInv'
  <1>1. UNCHANGED <<users, queue>>
    BY DEF registrationVars
  <1>2. /\ req \in [Greenlets -> Request(Labels, Ops)]
        /\ req[g].pc # "idle" => req[g] \in Request(Labels, Ops)
    BY InProgress DEF BackendInv, TypeOK, Labels, Ops
  <1>3. {"ok", "conflict", "not_found", "error"} \subseteq Answers
    BY DEF Answers
  <1>4. CASE UpdateRole(g)
    <2>1. req[g].pc = "update_role" /\ UNCHANGED <<made, asked>>
      BY <1>4 DEF UpdateRole
    <2>2. \/ Reply(g, "conflict") /\ UNCHANGED lost
          \/ (Reply(g, "ok") /\ UNCHANGED lost) \/ AnswerLost(g, req[g].row)
      BY <1>4 DEF UpdateRole
    <2> QED
      BY <1>1, <1>3, <2>1, <2>2, QuietReply, QuietChange DEF Special
  <1>5. CASE LoadRole(g)
    <2>1. req[g].pc = "load_role" /\ UNCHANGED <<made, asked, lost>>
      BY <1>5 DEF LoadRole
    <2>2. CASE Reply(g, "not_found")
      BY <1>1, <1>3, <2>1, <2>2, QuietReply
    <2>3. ASSUME req' = [req EXCEPT ![g].pc = "delete_role",
                                    ![g].held = Holders(req[g].row)],
                 UNCHANGED done
          PROVE  RecordsInv'
      <3>1. PICK x : x = [req[g] EXCEPT !.pc = "delete_role",
                                        !.held = Holders(req[g].row)]
        OBVIOUS
      <3>2. x.pc = "delete_role" /\ x.n = req[g].n
        BY <1>2, <2>1, <3>1 DEF Request
      <3>3. req' = [req EXCEPT ![g] = x]
        BY <1>2, <2>3, <3>1
      <3> QED
        BY <1>1, <2>1, <2>3, <3>2, <3>3, QuietMove DEF Special
    <2> QED
      BY <1>5, <2>2, <2>3 DEF LoadRole
  <1>6. CASE DeleteRole(g)
    <2>1. req[g].pc = "delete_role" /\ UNCHANGED <<made, asked>>
      BY <1>6 DEF DeleteRole
    <2>2. \/ Reply(g, "error") /\ UNCHANGED lost
          \/ (Reply(g, "ok") /\ UNCHANGED lost) \/ AnswerLost(g, req[g].row)
      BY <1>6 DEF DeleteRole
    <2> QED
      BY <1>1, <1>3, <2>1, <2>2, QuietReply, QuietChange DEF Special
  <1>7. CASE LoadRows(g)
    <2>1. req[g].pc = "load_rows" /\ UNCHANGED <<made, asked, lost>>
      BY <1>7 DEF LoadRows
    <2>2. CASE Reply(g, "not_found") \/ Reply(g, "error")
      BY <1>1, <1>3, <2>1, <2>2, QuietReply
    <2>3. ASSUME req' = [req EXCEPT ![g].pc = "commit_rows",
                                    ![g].held = user_roles[req[g].key]],
                 UNCHANGED done
          PROVE  RecordsInv'
      <3>1. PICK x : x = [req[g] EXCEPT !.pc = "commit_rows",
                                        !.held = user_roles[req[g].key]]
        OBVIOUS
      <3>2. x.pc = "commit_rows" /\ x.n = req[g].n
        BY <1>2, <2>1, <3>1 DEF Request
      <3>3. req' = [req EXCEPT ![g] = x]
        BY <1>2, <2>3, <3>1
      <3> QED
        BY <1>1, <2>1, <2>3, <3>2, <3>3, QuietMove DEF Special
    <2> QED
      BY <1>7, <2>2, <2>3 DEF LoadRows
  <1>8. CASE AddUserRoles(g) \/ RemoveUserRoles(g)
    <2>1. req[g].pc = "commit_rows" /\ UNCHANGED <<made, asked>>
      BY <1>8 DEF AddUserRoles, RemoveUserRoles
    <2>2. \/ Reply(g, "error") /\ UNCHANGED lost
          \/ (Reply(g, "ok") /\ UNCHANGED lost) \/ AnswerLost(g, Null)
      BY <1>8 DEF AddUserRoles, RemoveUserRoles
    <2> QED
      BY <1>1, <1>3, <2>1, <2>2, QuietReply, QuietChange DEF Special
  <1> QED
    BY <1>4, <1>5, <1>6, <1>7, <1>8 DEF ServeRoles, CreateRole

-----------------------------------------------------------------------------
(* The table "users".                                                      *)

LEMMA FetchUserRecords ==
    ASSUME BackendInv, RecordsInv, NEW g \in Greenlets, FetchUser(g)
    PROVE  RecordsInv'
  <1>1. /\ req[g].pc = "fetch" /\ req[g].pc # "idle"
        /\ UNCHANGED <<made, asked, lost, users, queue>>
    BY DEF FetchUser, registrationVars
  <1>2. /\ req \in [Greenlets -> Request(Labels, Ops)]
        /\ req[g] \in Request(Labels, Ops) /\ RegistrationOK(req[g])
    BY <1>1, InProgress DEF RecordsInv
  <1>3. CASE Reply(g, "error")
    BY <1>1, <1>3, QuietReply DEF Answers
  <1>4. ASSUME NEW u \in Owners(req[g].key), UNCHANGED done,
               req' = [req EXCEPT ![g].pc = "link", ![g].row = u, ![g].tries = 0]
        PROVE  RecordsInv'
    <2>1. PICK x : x = [req[g] EXCEPT !.pc = "link", !.row = u, !.tries = 0]
      OBVIOUS
    <2>2. x.pc = "link" /\ x.n = req[g].n /\ x.row = u
      BY <1>2, <2>1 DEF Request
    <2>3. req' = [req EXCEPT ![g] = x]
      BY <1>2, <1>4, <2>1
    <2>4. Proceeds(g, x)
      BY <1>4, <2>2, <2>3 DEF Proceeds
    <2>5. PICK r \in UserIds : /\ Registered(x.n, r)
                               /\ users[r].password = x.n => users[r].login = req[g].key
      BY <1>1, <1>2, <2>2 DEF RegistrationOK
    <2>6. users[r].login = req[g].key => r = x.row
      BY <1>4, <2>2, <2>5, RecordsAre DEF Owners, LoginsUnique, Registered
    <2>7. Registered(x.n, r)' /\ (users'[r].password = x.n => r = x.row)
      BY <1>1, <2>5, <2>6 DEF Registered, Rows
    <2>8. RegistrationOK(x)'
      BY <2>2, <2>7 DEF RegistrationOK
    <2> QED
      BY <1>1, <2>2, <2>4, <2>8, QuietStep
  <1> QED
    BY <1>3, <1>4 DEF FetchUser, NotReadBack

LEMMA VerificationLinkRecords ==
    ASSUME BackendInv, RecordsInv, NEW g \in Greenlets, VerificationLink(g)
    PROVE  RecordsInv'
  <1>1. /\ req[g].pc = "link" /\ req[g].pc # "idle" /\ Goto(g, "publish")
        /\ UNCHANGED <<made, asked, lost, users, queue>>
    BY DEF VerificationLink, registrationVars
  <1>2. PICK x : Proceeds(g, x) /\ Moves(g, "publish", x)
    BY <1>1, GoesOn
  <1>3. /\ x.pc = "publish"
        /\ x.n = req[g].n /\ x.row = req[g].row /\ x.key = req[g].key
    BY <1>2 DEF Moves
  <1>4. RegistrationOK(req[g])
    BY <1>1 DEF RecordsInv
  <1>5. RegistrationOK(x)'
    BY <1>1, <1>3, <1>4, SameRegistration
  <1> QED
    BY <1>1, <1>2, <1>3, <1>5, QuietStep

LEMMA PublishRecords ==
    ASSUME BackendInv, RecordsInv, NEW g \in Greenlets, Publish(g)
    PROVE  RecordsInv'
  <1>1. /\ req[g].pc = "publish" /\ req[g].pc # "idle"
        /\ UNCHANGED <<made, asked, lost, users>>
    BY DEF Publish
  <1>2. PICK n \in Numbers : n = req[g].n
    BY <1>1, InProgress
  <1>3. PICK event : event = [by |-> n, user |-> req[g].row]
    OBVIOUS
  <1>4. CASE queue' = queue /\ Reply(g, "error")
    BY <1>1, <1>4, QuietReply DEF Answers
  <1>5. ASSUME NEW answer \in {"created", "error"}, Reply(g, answer),
               queue' = queue \cup {event}
        PROVE  RecordsInv'
    <2>1. Proceeds(g, NoRequest) /\ NoRequest.pc = "idle" /\ done'[n] = answer
      BY <1>1, <1>2, <1>5, Answered DEF Answers
    <2>2. Rows' = Rows /\ queue \subseteq queue'
      BY <1>1, <1>5 DEF Rows
    <2>3. Writes(n)
      BY <1>1, <2>2 DEF Writes
    <2>4. IdsUnique' /\ LoginsUnique'
      BY <1>1, <2>2, RecordsAre DEF IdsUnique, LoginsUnique
    <2>5. PICK r \in UserIds :
            Registered(n, r) /\ (users[r].password = n => r = req[g].row)
      BY <1>1, <1>2, RecordsAre DEF RegistrationOK
    <2>6. EventOK(event)'
      <3>1. event.by = n /\ event.user = req[g].row
        BY <1>3
      <3>2. done'[n] # Null
        BY <2>1, <1>5, RepositoryAssumption DEF Answers
      <3>3. Registered(n, r)' /\ (users'[r].password = n => r = event.user)
        BY <1>1, <2>2, <2>5, <3>1 DEF Registered
      <3> QED
        BY <3>1, <3>2, <3>3 DEF EventOK
    <2>7. \A e \in queue' \ queue : EventOK(e)'
      BY <1>5, <2>6
    <2>8. Told(n)'
      <3>1. event \in queue' /\ event.by = n
        BY <1>3, <1>5
      <3> QED
        BY <3>1 DEF Told
    <2>9. PICK x : x = NoRequest
      OBVIOUS
    <2>10. Leaves(n, x)
      BY <2>1, <2>4, <2>7, <2>8, <2>9 DEF Leaves
    <2> QED
      BY <1>1, <1>2, <2>1, <2>3, <2>9, <2>10, RecordsStep
  <1> QED
    BY <1>2, <1>3, <1>4, <1>5 DEF Publish, PublishFails

LEMMA GetUserRecords ==
    ASSUME BackendInv, RecordsInv, NEW g \in Greenlets, GetUser(g)
    PROVE  RecordsInv'
  <1>1. /\ req[g].pc = "get_user" /\ req[g].pc # "idle"
        /\ UNCHANGED <<made, asked, lost, users, queue>>
    BY DEF GetUser, registrationVars
  <1>2. CASE Reply(g, "not_found")
    BY <1>1, <1>2, QuietReply DEF Answers
  <1>3. CASE Goto(g, "update")
    <2>1. PICK x : Proceeds(g, x) /\ Moves(g, "update", x)
      BY <1>1, <1>3, GoesOn
    <2>2. Proceeds(g, x) /\ x.pc = "update"
      BY <2>1 DEF Moves
    <2>3. RegistrationOK(x)'
      BY <2>2, PlainRegistration DEF Special
    <2> QED
      BY <1>1, <2>2, <2>3, QuietStep
  <1> QED
    BY <1>2, <1>3 DEF GetUser

LEMMA LookUpRecords ==
    ASSUME BackendInv, RecordsInv, NEW g \in Greenlets, LookUp(g)
    PROVE  RecordsInv'
  <1>1. /\ req[g].pc = "look_up" /\ req[g].pc # "idle"
        /\ UNCHANGED <<made, asked, lost, users, queue>>
    BY DEF LookUp, registrationVars
  <1>2. CASE Reply(g, "conflict") \/ Reply(g, "not_found")
    BY <1>1, <1>2, QuietReply DEF Answers
  <1>3. ASSUME NEW label \in {"create_superuser", "reset"}, Goto(g, label)
        PROVE  RecordsInv'
    <2>1. PICK x : Proceeds(g, x) /\ Moves(g, label, x)
      BY <1>1, <1>3, GoesOn
    <2>2. Proceeds(g, x) /\ x.pc = label /\ x.row = req[g].row
      BY <2>1 DEF Moves
    <2>3. x.row = Null
      BY <1>1, <2>2, InProgress DEF RequestOK
    <2>4. RegistrationOK(x)'
      BY <2>2, <2>3 DEF RegistrationOK
    <2> QED
      BY <1>1, <2>2, <2>4, QuietStep
  <1> QED
    BY <1>2, <1>3 DEF LookUp

\* What a change of existing users has to show.
LEMMA UsersChanged ==
    ASSUME BackendInv, RecordsInv, NEW g \in Greenlets, req[g].pc # "idle",
           req[g].pc \notin Special, UNCHANGED <<queue, made, asked>>,
           Writes(req[g].n), Rows' = Rows, LoginsUnique',
           NEW row, (Reply(g, "ok") /\ UNCHANGED lost) \/ AnswerLost(g, row)
    PROVE  RecordsInv'
  <1>1. PICK n \in Numbers : n = req[g].n
    BY InProgress
  <1>2. Told(n)'
    <2>1. Told(n) /\ Writes(n)
      BY <1>1, ToldBefore DEF Special
    <2> QED
      BY <2>1, ToldStays
  <1>3. IdsUnique' /\ queue' \ queue = {}
    BY RecordsAre DEF IdsUnique
  <1>4. \E x : Proceeds(g, x) /\ (x.pc # "idle" => x.pc \notin Special)
    <2>1. CASE Reply(g, "ok")
      BY <1>1, <2>1, Answered DEF Answers
    <2>2. CASE AnswerLost(g, row)
      <3>1. PICK x : Proceeds(g, x) /\ Again(g, row, x)
        BY <2>2, Repeated DEF AnswerLost
      <3>2. req[g].pc \in Labels
        BY InProgress DEF Request
      <3>3. MethodOf(req[g].pc) \notin Special
        BY <3>2, MethodOfLabel DEF Special
      <3> QED
        BY <3>1, <3>3 DEF Again
    <2> QED
      BY <2>1, <2>2
  <1>5. PICK x : Proceeds(g, x) /\ (x.pc # "idle" => x.pc \notin Special)
    BY <1>4
  <1>6. x.pc # "idle" => RegistrationOK(x)'
    BY <1>5, PlainRegistration
  <1>7. Leaves(n, x)
    BY <1>2, <1>3, <1>6 DEF Leaves
  <1> QED
    BY <1>1, <1>5, <1>7, RecordsStep

LEMMA UpdateUserRecords ==
    ASSUME BackendInv, RecordsInv, NEW g \in Greenlets, UpdateUser(g)
    PROVE  RecordsInv'
  <1> DEFINE q == req[g]
  <1>1. /\ q.pc = "update" /\ q.pc # "idle"
        /\ UNCHANGED <<made, asked, queue>>
    BY DEF UpdateUser
  <1>2. q.key \in Logins /\ q.row \in UserIds /\ TablesOK /\ q.n \in Numbers
    BY <1>1, InProgress DEF RequestOK
  <1>3. CASE Reply(g, "conflict") /\ UNCHANGED <<users, lost>>
    BY <1>1, <1>3, QuietReply DEF Answers
  <1>4. ASSUME Owners(q.key) \ {q.row} = {},
               users' = [u \in UserIds |->
                           IF u \in {q.row} \cap Rows
                           THEN [users[u] EXCEPT !.login = q.key, !.password = q.n]
                           ELSE users[u]],
               (Reply(g, "ok") /\ UNCHANGED lost) \/ AnswerLost(g, q.row)
        PROVE  RecordsInv'
    <2>1. \A u \in Rows : users[u] \in User
      BY <1>2 DEF TablesOK, Rows
    <2>2. ASSUME NEW u \in Rows, u = q.row
          PROVE  /\ users'[u] # Null
                 /\ users'[u].login = q.key /\ users'[u].password = q.n
                 /\ users'[u].by = users[u].by
                 /\ users'[u].is_superuser = users[u].is_superuser
      <3>1. users[u] \in User /\ u \in UserIds
        BY <2>1, <2>2 DEF Rows
      <3>2. PICK v \in User : v = [users[u] EXCEPT !.login = q.key, !.password = q.n]
        BY <1>2, <3>1 DEF User
      <3>3. users'[u] = v
        BY <1>4, <2>2, <3>1, <3>2
      <3>4. /\ v.login = q.key /\ v.password = q.n /\ v.by = users[u].by
            /\ v.is_superuser = users[u].is_superuser
        BY <3>1, <3>2 DEF User
      <3> QED
        BY <3>3, <3>4, RegistrationAssumption
    <2>3. \A u \in UserIds : u # q.row \/ u \notin Rows => users'[u] = users[u]
      BY <1>4
    <2>4. Rows' = Rows
      BY <2>2, <2>3 DEF Rows
    <2>5. lost \subseteq lost'
      BY <1>4 DEF AnswerLost
    <2>6. Writes(q.n)
      BY <1>1, <2>2, <2>3, <2>4, <2>5 DEF Writes, Rows
    <2>7. LoginsUnique'
      <3>1. ASSUME NEW u \in Rows, NEW v \in Rows, users'[u].login = users'[v].login
            PROVE  u = v
        <4>1. CASE u # q.row /\ v # q.row
          BY <2>3, <3>1, <4>1, RecordsAre DEF LoginsUnique, Rows
        <4>2. \A w \in Rows : w # q.row => users'[w].login # q.key
          BY <1>4, <2>3 DEF Owners, Rows
        <4> QED
          BY <2>2, <3>1, <4>1, <4>2
      <3> QED
        BY <2>4, <3>1 DEF LoginsUnique
    <2> QED
      BY <1>1, <1>4, <2>4, <2>6, <2>7, UsersChanged DEF Special
  <1> QED
    BY <1>3, <1>4 DEF UpdateUser

LEMMA ResetPasswordRecords ==
    ASSUME BackendInv, RecordsInv, NEW g \in Greenlets, ResetPassword(g)
    PROVE  RecordsInv'
  <1> DEFINE q == req[g]
  <1>1. /\ q.pc = "reset" /\ q.pc # "idle"
        /\ UNCHANGED <<made, asked, queue>>
        /\ users' = [u \in UserIds |->
                        IF u \in Owners(q.key)
                        THEN [users[u] EXCEPT !.password = q.n]
                        ELSE users[u]]
        /\ (Reply(g, "ok") /\ UNCHANGED lost) \/ AnswerLost(g, Null)
    BY DEF ResetPassword
  <1>2. TablesOK /\ q.n \in Numbers
    BY <1>1, InProgress
  <1>3. ASSUME NEW u \in Rows
        PROVE  /\ users'[u] # Null /\ users'[u].login = users[u].login
               /\ users'[u].by = users[u].by
               /\ users'[u].is_superuser = users[u].is_superuser
               /\ users'[u] = users[u] \/ users'[u].password = q.n
    <2>1. users[u] \in User /\ u \in UserIds
      BY <1>2, <1>3 DEF TablesOK, Rows
    <2>2. PICK v \in User : v = [users[u] EXCEPT !.password = q.n]
      BY <1>2, <2>1 DEF User
    <2>3. /\ v.login = users[u].login /\ v.password = q.n /\ v.by = users[u].by
          /\ v.is_superuser = users[u].is_superuser
      BY <2>1, <2>2 DEF User
    <2>4. users'[u] = v \/ users'[u] = users[u]
      BY <1>1, <2>1, <2>2
    <2> QED
      BY <2>1, <2>3, <2>4, RegistrationAssumption
  <1>4. Rows' = Rows
    BY <1>1, <1>3 DEF Rows, Owners
  <1>5. lost \subseteq lost'
    BY <1>1 DEF AnswerLost
  <1>6. Writes(q.n)
    BY <1>1, <1>3, <1>4, <1>5 DEF Writes
  <1>7. LoginsUnique'
    BY <1>3, <1>4, RecordsAre DEF LoginsUnique
  <1> QED
    BY <1>1, <1>4, <1>6, <1>7, UsersChanged DEF Special

\* An id belongs to one request: it is new, or it is the one that the object of
\* this request has kept.
LEMMA IdsStay ==
    ASSUME BackendInv, RecordsInv, NEW g \in Greenlets,
           req[g].pc \in {"create", "create_superuser", "create_role"},
           NEW pool, NEW id \in ObjectId(g, pool), NEW k, Made(g, k, id)
    PROVE  IdsUnique'
  <1>1. req[g].row # Null => \E j : <<req[g].n, j, req[g].row>> \in made
    BY DEF RecordsInv, RegistrationOK
  <1>2. \A m \in made : m[3] = id => m[1] = req[g].n
    <2>1. CASE req[g].row # Null
      <3>1. id = req[g].row
        BY <2>1 DEF ObjectId
      <3> QED
        BY <1>1, <2>1, <3>1, RecordsAre DEF IdsUnique
    <2>2. CASE req[g].row = Null
      <3>1. id \notin {m[3] : m \in made}
        BY <2>2 DEF ObjectId, Fresh
      <3> QED
        BY <3>1
    <2> QED
      BY <2>1, <2>2
  <1>3. PICK new : new = <<req[g].n, k, id>>
    OBVIOUS
  <1>4. new[1] = req[g].n /\ new[3] = id /\ made' = made \cup {new}
    BY <1>3 DEF Made
  <1> QED
    BY <1>2, <1>4, RecordsAre DEF IdsUnique

\* What an insert does.
LEMMA InsertRecords ==
    ASSUME BackendInv, RecordsInv, NEW g \in Greenlets,
           req[g].pc \in {"create", "create_superuser"},
           NEW n \in Numbers, n = req[g].n, NEW u \in ObjectId(g, UserIds),
           NEW admin \in BOOLEAN, ~Violates(u, req[g].key),
           Insert(g, u, admin), Made(g, 1, u),
           UNCHANGED <<asked, queue>>, lost \subseteq lost'
    PROVE  /\ u \in UserIds /\ Rows' = Rows \cup {u} /\ Registered(n, u)'
           /\ users'[u].login = req[g].key /\ users'[u].is_superuser = admin
           /\ \A v \in Rows : users'[v] = users[v]
           /\ Writes(n) /\ IdsUnique' /\ LoginsUnique'
  <1>1. /\ req[g].key \in Logins /\ TablesOK
        /\ req[g].row \in UserIds \cup {Null}
    BY InProgress DEF RequestOK
  <1>2. u \in UserIds /\ u \notin Rows /\ Owners(req[g].key) = {}
    BY <1>1, ObjectIdIn DEF Violates
  <1>3. PICK v \in User : v = [login |-> req[g].key, password |-> req[g].n,
                               is_superuser |-> admin, by |-> req[g].n]
    BY <1>1 DEF User
  <1>4. /\ v # Null /\ v.login = req[g].key /\ v.is_superuser = admin /\ v.by = n
    BY <1>3, RegistrationAssumption
  <1>5. \A w \in UserIds : users'[w] = IF w = u THEN v ELSE users[w]
    BY <1>1, <1>3 DEF Insert, TablesOK
  <1>6. Rows' = Rows \cup {u} /\ \A w \in Rows : users'[w] = users[w]
    BY <1>2, <1>4, <1>5 DEF Rows
  <1>7. users'[u] = v /\ <<n, 1, u>> \in made' /\ made \subseteq made'
    BY <1>2, <1>5 DEF Made
  <1>8. Registered(n, u)'
    BY <1>6, <1>7 DEF Registered
  <1>9. Writes(n)
    <2>1. \A w \in Rows' \ Rows : users'[w].by = n /\ <<n, 1, w>> \in made'
      BY <1>4, <1>6, <1>7
    <2>2. \A w \in Rows :
            /\ users'[w].by = users[w].by
            /\ users'[w].is_superuser = users[w].is_superuser
            /\ users'[w] = users[w] \/ users'[w].password = n
      BY <1>6
    <2> QED
      BY <1>6, <1>7, <2>1, <2>2 DEF Writes
  <1>10. IdsUnique'
    BY IdsStay
  <1>11. LoginsUnique'
    <2>1. \A w \in Rows : users[w].login # req[g].key
      BY <1>2 DEF Owners
    <2> QED
      BY <1>4, <1>6, <1>7, <2>1, RecordsAre DEF LoginsUnique
  <1> QED
    BY <1>2, <1>4, <1>6, <1>7, <1>8, <1>9, <1>10, <1>11

\* A user is committed, but the request is not told.
LEMMA InsertLost ==
    ASSUME BackendInv, RecordsInv, NEW g \in Greenlets,
           req[g].pc \in {"create", "create_superuser"},
           NEW n \in Numbers, n = req[g].n, NEW u \in UserIds,
           Writes(n), IdsUnique', LoginsUnique', <<n, 1, u>> \in made',
           UNCHANGED <<asked, queue>>, AnswerLost(g, u)
    PROVE  RecordsInv'
  <1>1. PICK x : Proceeds(g, x) /\ Again(g, u, x)
    BY Repeated DEF AnswerLost
  <1>2. n \in lost' /\ asked'[n] = 1
    BY InProgress DEF AnswerLost, ProgressOK
  <1>3. Told(n)'
    BY <1>2 DEF Told
  <1>4. x.pc # "idle" => RegistrationOK(x)'
    <2>1. x.pc # "idle" => x.pc = req[g].pc /\ x.n = n /\ x.row = u
      BY <1>1 DEF Again, MethodOf
    <2>2. \E k \in 1..asked'[n] : <<n, k, u>> \in made'
      BY <1>2
    <2> QED
      BY <1>2, <2>1, <2>2 DEF RegistrationOK
  <1>5. Leaves(n, x)
    BY <1>3, <1>4 DEF Leaves
  <1> QED
    BY <1>1, <1>5, RecordsStep

LEMMA CreateUserRecords ==
    ASSUME BackendInv, RecordsInv, NEW g \in Greenlets, CreateUser(g)
    PROVE  RecordsInv'
  <1> DEFINE q == req[g]
  <1>1. PICK n \in Numbers : n = q.n
    BY InProgress DEF CreateUser
  <1>2. q.pc = "create" /\ q.pc # "idle" /\ UNCHANGED <<asked, queue>>
    BY DEF CreateUser
  <1>3. CASE RefuseUser(g) /\ UNCHANGED <<users, made, lost>>
    BY <1>2, <1>3, QuietReply DEF RefuseUser, Answers
  <1>4. ASSUME NEW u \in ObjectId(g, UserIds), ~Violates(u, q.key),
               Insert(g, u, FALSE), Made(g, 1, u),
               \/ Goto(g, "fetch") /\ UNCHANGED lost
               \/ AnswerLost(g, u)
        PROVE  RecordsInv'
    <2>1. lost \subseteq lost'
      BY <1>4 DEF AnswerLost
    <2>2. /\ u \in UserIds /\ Registered(n, u)' /\ users'[u].login = q.key
          /\ Writes(n) /\ IdsUnique' /\ LoginsUnique'
      BY <1>1, <1>2, <1>4, <2>1, InsertRecords
    <2>3. CASE Goto(g, "fetch")
      <3>1. PICK x : Proceeds(g, x) /\ Moves(g, "fetch", x)
        BY <1>2, <2>3, GoesOn
      <3>2. x.pc = "fetch" /\ x.n = n /\ x.key = q.key
        BY <1>1, <3>1 DEF Moves
      <3>3. RegistrationOK(x)'
        BY <2>2, <3>2 DEF RegistrationOK
      <3>4. Leaves(n, x)
        BY <1>2, <2>2, <3>2, <3>3 DEF Leaves
      <3> QED
        BY <1>1, <1>2, <2>2, <3>1, <3>4, RecordsStep
    <2>4. CASE AnswerLost(g, u)
      BY <1>1, <1>2, <2>2, <2>4, InsertLost DEF Registered
    <2> QED
      BY <1>4, <2>3, <2>4
  <1> QED
    BY <1>3, <1>4 DEF CreateUser

LEMMA CreateSuperuserRecords ==
    ASSUME BackendInv, RecordsInv, NEW g \in Greenlets, CreateSuperuser(g)
    PROVE  RecordsInv'
  <1> DEFINE q == req[g]
  <1>1. PICK n \in Numbers : n = q.n
    BY InProgress DEF CreateSuperuser
  <1>2. q.pc = "create_superuser" /\ q.pc # "idle" /\ UNCHANGED <<asked, queue>>
    BY DEF CreateSuperuser
  <1>3. CASE Reply(g, "ok") /\ UNCHANGED <<users, made, lost>>
    BY <1>2, <1>3, QuietReply DEF Answers
  <1>4. ASSUME NEW u \in ObjectId(g, UserIds), ~Violates(u, q.key),
               Insert(g, u, TRUE), Made(g, 1, u),
               \/ Reply(g, "ok") /\ UNCHANGED lost
               \/ AnswerLost(g, u)
        PROVE  RecordsInv'
    <2>1. lost \subseteq lost'
      BY <1>4 DEF AnswerLost
    <2>2. /\ u \in UserIds /\ Registered(n, u)'
          /\ Rows' = Rows \cup {u} /\ users'[u].is_superuser = TRUE
          /\ Writes(n) /\ IdsUnique' /\ LoginsUnique'
      BY <1>1, <1>2, <1>4, <2>1, InsertRecords
    <2>3. CASE Reply(g, "ok")
      <3>1. Proceeds(g, NoRequest) /\ NoRequest.pc = "idle"
        BY <1>1, <1>2, <2>3, Answered DEF Answers
      <3>2. PICK x : x = NoRequest
        OBVIOUS
      <3>3. Told(n)'
        <4>1. Told(n)
          BY <1>1, <1>2, ToldBefore
        <4> QED
          BY <2>2, <4>1 DEF Told, Writes
      <3>4. Leaves(n, x)
        BY <1>2, <2>2, <3>1, <3>2, <3>3 DEF Leaves
      <3> QED
        BY <1>1, <1>2, <2>2, <3>1, <3>2, <3>4, RecordsStep
    <2>4. CASE AnswerLost(g, u)
      BY <1>1, <1>2, <2>2, <2>4, InsertLost DEF Registered
    <2> QED
      BY <1>4, <2>3, <2>4
  <1> QED
    BY <1>3, <1>4 DEF CreateSuperuser

-----------------------------------------------------------------------------
(* The other steps.                                                        *)

LEMMA CreateRoleRecords ==
    ASSUME BackendInv, RecordsInv, NEW g \in Greenlets, CreateRole(g),
           UNCHANGED registrationVars
    PROVE  RecordsInv'
  <1> DEFINE q == req[g]
  <1>1. PICK n \in Numbers : n = q.n
    BY InProgress DEF CreateRole
  <1>2. /\ q.pc = "create_role" /\ q.pc # "idle" /\ UNCHANGED <<asked, queue, users>>
        /\ req \in [Greenlets -> Request(Labels, Ops)] /\ q \in Request(Labels, Ops)
        /\ RegistrationOK(q)
    BY InProgress DEF CreateRole, registrationVars, RecordsInv
  <1>3. PICK k : k = Position(q)
    OBVIOUS
  <1>4. k \in 1..asked[n]
    <2>1. ProgressOK(q)
      BY <1>2, InProgress
    <2> QED
      BY <1>1, <1>2, <1>3, <2>1 DEF ProgressOK, Creating
  <1>5. CASE RefuseRole(g) /\ UNCHANGED <<made, lost>>
    BY <1>2, <1>5, QuietReply DEF RefuseRole, Answers
  <1>6. ASSUME NEW i \in ObjectId(g, RoleIds), Made(g, k, i),
               (NextRole(g) /\ UNCHANGED lost) \/ AnswerLost(g, i)
        PROVE  RecordsInv'
    <2>1. /\ made \subseteq made' /\ <<n, k, i>> \in made'
          /\ lost \subseteq lost' /\ Rows' = Rows
      BY <1>1, <1>2, <1>6 DEF Made, AnswerLost, Rows
    <2>2. Writes(n)
      BY <1>2, <2>1 DEF Writes
    <2>3. IdsUnique'
      BY <1>2, <1>6, IdsStay
    <2>4. LoginsUnique'
      BY <1>2, <2>1, RecordsAre DEF LoginsUnique
    <2>5. Told(n)'
      <3>1. Told(n)
        BY <1>1, <1>2, ToldBefore
      <3> QED
        BY <2>1, <2>2, <3>1, ToldStays
    <2>6. \A u \in Rows' : users'[u].by # n
      BY <1>1, <1>2, <2>1 DEF RegistrationOK
    <2>7. ASSUME NEW x, Proceeds(g, x), x.pc # "idle" => RegistrationOK(x)'
          PROVE  RecordsInv'
      <3>1. Leaves(n, x)
        BY <1>2, <2>3, <2>4, <2>5, <2>7 DEF Leaves
      <3> QED
        BY <1>1, <1>2, <2>2, <2>7, <3>1, RecordsStep
    <2>8. CASE Reply(g, "created")
      <3>1. Proceeds(g, NoRequest) /\ NoRequest.pc = "idle"
        BY <1>1, <1>2, <2>8, Answered DEF Answers
      <3>2. PICK x : x = NoRequest
        OBVIOUS
      <3> QED
        BY <2>7, <3>1, <3>2
    <2>9. ASSUME req' = [req EXCEPT ![g].rest = Tail(@), ![g].row = Null,
                                    ![g].tries = 0],
                 UNCHANGED done
          PROVE  RecordsInv'
      <3>1. PICK x : x = [q EXCEPT !.rest = Tail(@), !.row = Null, !.tries = 0]
        OBVIOUS
      <3>2. x.pc = "create_role" /\ x.n = n /\ x.row = Null
        BY <1>1, <1>2, <3>1 DEF Request
      <3>3. req' = [req EXCEPT ![g] = x]
        BY <1>2, <2>9, <3>1
      <3>4. Proceeds(g, x)
        BY <1>1, <2>9, <3>2, <3>3 DEF Proceeds
      <3>5. RegistrationOK(x)'
        BY <2>6, <3>2 DEF RegistrationOK
      <3> QED
        BY <2>7, <3>4, <3>5
    <2>10. CASE AnswerLost(g, i)
      <3>1. PICK x : Proceeds(g, x) /\ Again(g, i, x)
        BY <1>2, <2>10, Repeated DEF AnswerLost
      <3>2. x.pc # "idle" => x.pc = "create_role" /\ x.n = n /\ x.row = i
        BY <1>1, <1>2, <3>1 DEF Again, MethodOf
      <3>3. n \in lost'
        BY <1>1, <2>10 DEF AnswerLost
      <3>4. \E l \in 1..asked'[n] : <<n, l, i>> \in made'
        BY <1>2, <1>4, <2>1
      <3>5. x.pc # "idle" => RegistrationOK(x)'
        BY <2>6, <3>2, <3>3, <3>4 DEF RegistrationOK
      <3> QED
        BY <2>7, <3>1, <3>5
    <2> QED
      BY <1>6, <2>8, <2>9, <2>10 DEF NextRole
  <1> QED
    BY <1>3, <1>5, <1>6 DEF CreateRole

LEMMA ServeRecords ==
    ASSUME BackendInv, RecordsInv, NEW g \in Greenlets, Serve(g)
    PROVE  RecordsInv'
  <1>1. CASE ServeUsers(g)
    BY <1>1, CreateUserRecords, FetchUserRecords, VerificationLinkRecords,
       PublishRecords, GetUserRecords, UpdateUserRecords, LookUpRecords,
       CreateSuperuserRecords, ResetPasswordRecords DEF ServeUsers
  <1>2. CASE ServeRoles(g) /\ UNCHANGED registrationVars
    <2>1. CASE CreateRole(g)
      BY <1>2, <2>1, CreateRoleRecords
    <2>2. CASE ~CreateRole(g)
      <3>1. req[g].pc # "create_role"
        BY <1>2, <2>2 DEF ServeRoles, UpdateRole, LoadRole, DeleteRole, LoadRows,
                          AddUserRoles, RemoveUserRoles
      <3> QED
        BY <1>2, <3>1, RoleChangesRecords
    <2> QED
      BY <2>1, <2>2
  <1> QED
    BY <1>1, <1>2, FailsRecords DEF Serve

\* A request arrives as x, and holds nothing yet.
Arrives(g, x) ==
    /\ req[g].pc = "idle" /\ req' = [req EXCEPT ![g] = x]
    /\ x.n = started + 1 /\ started < MaxRequests
    /\ x.pc \notin {"idle", "fetch", "link", "publish"}
    /\ x.pc \in Special => x.row = Null
    /\ \E rows : asked' = [asked EXCEPT ![started + 1] = rows]
    /\ UNCHANGED <<done, made, lost, registrationVars>>

LEMMA BeginArrives ==
    ASSUME NEW g \in Greenlets, NEW q, NEW rows, Begin(g, q, rows),
           UNCHANGED registrationVars,
           NEW x, x = [q EXCEPT !.n = started + 1], x.n = started + 1,
           x.pc \notin {"idle", "fetch", "link", "publish"},
           x.pc \in Special => x.row = Null
    PROVE  Arrives(g, x)
  <1>1. req[g].pc = "idle"
    BY DEF Begin
  <1> QED
    BY <1>1 DEF Begin, Arrives

LEMMA ArriveArrives ==
    ASSUME NEW g \in Greenlets, Arrive(g)
    PROVE  \E x : Arrives(g, x)
  <1>1. UNCHANGED registrationVars
    BY DEF Arrive, ArriveUsers, ArriveRoles, Register, ChangeUser, Command
  <1>2. ASSUME NEW pc \in {"create", "look_up"}, NEW op, NEW key, NEW rows,
               Begin(g, [NoRequest EXCEPT !.pc = pc, !.op = op, !.key = key], rows)
        PROVE  \E x : Arrives(g, x)
    <2>1. PICK q : q = [NoRequest EXCEPT !.pc = pc, !.op = op, !.key = key]
      OBVIOUS
    <2>2. PICK x : x = [q EXCEPT !.n = started + 1]
      OBVIOUS
    <2>3. x.n = started + 1 /\ x.pc = pc /\ x.row = Null
      BY <2>1, <2>2 DEF NoRequest
    <2>4. Begin(g, q, rows)
      BY <1>2, <2>1
    <2> QED
      BY <1>1, <2>2, <2>3, <2>4, BeginArrives
  <1>3. ASSUME NEW names, CreateRoles(g, names)
        PROVE  \E x : Arrives(g, x)
    <2>1. PICK q : q = [NoRequest EXCEPT !.pc = "create_role",
                                         !.op = "create_roles", !.rest = names]
      OBVIOUS
    <2>2. PICK x : x = [q EXCEPT !.n = started + 1]
      OBVIOUS
    <2>3. x.n = started + 1 /\ x.pc = "create_role" /\ x.row = Null
      BY <2>1, <2>2 DEF NoRequest
    <2>4. Begin(g, q, Len(names))
      BY <1>3, <2>1 DEF CreateRoles
    <2> QED
      BY <1>1, <2>2, <2>3, <2>4, BeginArrives
  <1>4. ASSUME NEW op, NEW u, NEW ids, ModifyUser(g, op, u, ids)
        PROVE  \E x : Arrives(g, x)
    <2>1. PICK q : q = [NoRequest EXCEPT !.pc = "load_rows", !.op = op,
                                         !.key = u, !.ids = ids]
      OBVIOUS
    <2>2. PICK x : x = [q EXCEPT !.n = started + 1]
      OBVIOUS
    <2>3. x.n = started + 1 /\ x.pc = "load_rows"
      BY <2>1, <2>2 DEF NoRequest
    <2>4. Begin(g, q, 0)
      BY <1>4, <2>1 DEF ModifyUser
    <2> QED
      BY <1>1, <2>2, <2>3, <2>4, BeginArrives DEF Special
  <1>5. ASSUME NEW op \in {"update_role", "delete_role"}, NEW i, NEW name, NEW sent,
               ModifyRole(g, op, i, name, sent)
        PROVE  \E x : Arrives(g, x)
    <2>1. PICK pc \in {"update_role", "load_role"} :
            pc = IF op = "update_role" THEN op ELSE "load_role"
      BY <1>5
    <2>2. PICK q : q = [NoRequest EXCEPT !.pc = pc, !.op = op, !.row = i,
                                         !.key = name, !.ids = sent]
      OBVIOUS
    <2>3. PICK x : x = [q EXCEPT !.n = started + 1]
      OBVIOUS
    <2>4. x.n = started + 1 /\ x.pc = pc
      BY <2>2, <2>3 DEF NoRequest
    <2>5. Begin(g, q, 0)
      BY <1>5, <2>1, <2>2 DEF ModifyRole
    <2> QED
      BY <1>1, <2>3, <2>4, <2>5, BeginArrives DEF Special
  <1>6. ASSUME NEW u, NEW login, ChangeUser(g, u, login)
        PROVE  \E x : Arrives(g, x)
    <2>1. PICK q : q = [NoRequest EXCEPT !.pc = "get_user", !.op = "change",
                                         !.row = u, !.key = login]
      OBVIOUS
    <2>2. PICK x : x = [q EXCEPT !.n = started + 1]
      OBVIOUS
    <2>3. x.n = started + 1 /\ x.pc = "get_user"
      BY <2>1, <2>2 DEF NoRequest
    <2>4. Begin(g, q, 0)
      BY <1>6, <2>1 DEF ChangeUser
    <2> QED
      BY <1>1, <2>2, <2>3, <2>4, BeginArrives DEF Special
  <1>7. ASSUME NEW login, Register(g, login) \/ \E op \in Commands : Command(g, op, login)
        PROVE  \E x : Arrives(g, x)
    BY <1>2, <1>7 DEF Register, Command
  <1>8. CASE ArriveUsers(g)
    BY <1>6, <1>7, <1>8 DEF ArriveUsers
  <1>9. CASE ArriveRoles(g)
    BY <1>3, <1>4, <1>5, <1>9 DEF ArriveRoles
  <1> QED
    BY <1>8, <1>9 DEF Arrive

LEMMA ArriveRecords ==
    ASSUME BackendInv, RecordsInv, NEW g \in Greenlets, Arrive(g)
    PROVE  RecordsInv'
  <1>1. PICK x : Arrives(g, x)
    BY ArriveArrives
  <1>2. /\ req \in [Greenlets -> Request(Labels, Ops)]
        /\ started \in Nat /\ asked \in [Numbers -> Nat]
    <2>1. /\ req \in [Greenlets -> Request(Labels, Ops)]
          /\ started \in 0..MaxRequests /\ asked \in [Numbers -> Nat]
      BY DEF BackendInv, TypeOK, Labels, Ops
    <2> QED
      BY <2>1
  <1>3. /\ req[g].pc = "idle" /\ req' = [req EXCEPT ![g] = x]
        /\ x.n = started + 1 /\ started < MaxRequests
        /\ x.pc \notin {"idle", "fetch", "link", "publish"}
        /\ x.pc \in Special => x.row = Null
        /\ UNCHANGED <<done, made, lost, users, queue>>
    BY <1>1 DEF Arrives, registrationVars
  <1>4. Rows' = Rows /\ \A n, r : Registered(n, r)' <=> Registered(n, r)
    BY <1>3 DEF Rows, Registered
  <1>5. IdsUnique' /\ LoginsUnique'
    BY <1>3, <1>4, RecordsAre DEF IdsUnique, LoginsUnique
  <1>6. \A h \in Greenlets \ {g} : req'[h] = req[h]
    BY <1>2, <1>3
  <1>7. ASSUME NEW u \in Rows' PROVE (Registered(users[u].by, u) /\ Explained(u))'
    <2>1. Registered(users[u].by, u) /\ Explained(u)
      BY <1>4, <1>7, RecordsAre
    <2>2. PICK b : b = users[u].by
      OBVIOUS
    <2>3. Registered(b, u)' /\ users'[u].by = b
      BY <1>3, <1>4, <2>1, <2>2
    <2>4. ASSUME NEW h \in Greenlets, req[h].pc # "idle", req[h].n = b
          PROVE  req'[h].pc # "idle" /\ req'[h].n = b
      BY <1>3, <1>6, <2>4
    <2>5. Explained(u)'
      BY <1>3, <2>1, <2>2, <2>4 DEF Explained
    <2> QED
      BY <1>3, <2>2, <2>3, <2>5 DEF Registered
  <1>8. ASSUME NEW e \in queue' PROVE EventOK(e)'
    BY <1>3, <1>4, <1>8, RecordsAre DEF EventOK
  <1>9. ASSUME NEW h \in Greenlets, req'[h].pc # "idle" PROVE RegistrationOK(req[h])'
    <2>1. PICK q : q = req'[h]
      OBVIOUS
    <2>2. CASE h = g
      <3>1. q = x
        BY <1>2, <1>3, <2>1, <2>2
      <3>2. started + 1 \in Numbers /\ started + 1 > started
        BY <1>2, <1>3, RepositoryAssumption DEF Numbers
      <3>3. Created(x.n) = {}
        BY <1>3, <3>2 DEF BackendInv, NumbersOK
      <3>4. \A u \in Rows : users[u].by # x.n
        BY <3>3, NoUsers
      <3>5. RegistrationOK(q)'
        BY <1>3, <1>4, <3>1, <3>4 DEF RegistrationOK, Special
      <3> QED
        BY <2>1, <3>5 DEF RegistrationOK
    <2>3. CASE h # g
      <3>1. q = req[h] /\ q.pc # "idle" /\ RegistrationOK(q)
        BY <1>6, <1>9, <2>1, <2>3, RecordsAre
      <3>2. q.n \in 1..started
        BY <3>1 DEF BackendInv, NumbersOK
      <3>3. q.n # started + 1 /\ asked'[q.n] = asked[q.n]
        BY <1>1, <1>2, <3>2 DEF Arrives
      <3>4. RegistrationOK(q)'
        BY <1>3, <1>4, <3>1, <3>3 DEF RegistrationOK
      <3> QED
        BY <2>1, <3>4 DEF RegistrationOK
    <2> QED
      BY <2>2, <2>3
  <1> QED
    BY <1>5, <1>7, <1>8, <1>9, RecordsThen

LEMMA CrashRecords ==
    ASSUME BackendInv, RecordsInv, Crash
    PROVE  RecordsInv'
  <1>1. PICK killed : killed = {g \in Greenlets : req[g].pc # "idle"
                                                  /\ req[g].op \notin Commands}
    OBVIOUS
  <1>2. /\ req' = [g \in Greenlets |-> IF g \in killed THEN NoRequest ELSE req[g]]
        /\ done' = [n \in Numbers |-> IF \E g \in killed : req[g].n = n
                                      THEN "dead" ELSE done[n]]
        /\ UNCHANGED <<asked, made, lost, users, queue>>
    BY <1>1 DEF Crash, registrationVars
  <1>3. Rows' = Rows /\ \A n, r : Registered(n, r)' <=> Registered(n, r)
    BY <1>2 DEF Rows, Registered
  <1>4. IdsUnique' /\ LoginsUnique'
    BY <1>2, <1>3, RecordsAre DEF IdsUnique, LoginsUnique
  <1>5. NoRequest.pc = "idle" /\ "dead" # Null
    BY RepositoryAssumption DEF NoRequest, Answers
  <1>6. ASSUME NEW u \in Rows' PROVE (Registered(users[u].by, u) /\ Explained(u))'
    <2>1. Registered(users[u].by, u) /\ Explained(u)
      BY <1>3, <1>6, RecordsAre
    <2>2. PICK b : b = users[u].by
      OBVIOUS
    <2>3. Registered(b, u)' /\ users'[u].by = b
      BY <1>2, <1>3, <2>1, <2>2
    <2>4. b \in Numbers
      <3>1. <<b, 1, u>> \in made /\ made \subseteq Numbers \X (Nat \ {0}) \X RowIds
        BY <2>1, <2>2 DEF Registered, BackendInv, TypeOK
      <3> QED
        BY <3>1
    <2>5. ASSUME NEW h \in Greenlets, req[h].pc # "idle", req[h].n = b
          PROVE  (req'[h].pc # "idle" /\ req'[h].n = b) \/ done'[b] = "dead"
      BY <1>2, <2>4, <2>5
    <2>6. done[b] \in {"dead", "error"} => done'[b] \in {"dead", "error"}
      BY <1>2, <2>4
    <2>7. Explained(u)'
      BY <1>2, <2>1, <2>2, <2>5, <2>6 DEF Explained
    <2> QED
      BY <1>2, <2>2, <2>3, <2>7 DEF Registered
  <1>7. ASSUME NEW e \in queue' PROVE EventOK(e)'
    <2>1. EventOK(e) /\ e.by \in Numbers
      BY <1>2, <1>7, RecordsAre DEF BackendInv, TypeOK
    <2>2. done'[e.by] # Null
      BY <1>2, <1>5, <2>1 DEF EventOK
    <2> QED
      BY <1>2, <1>3, <2>1, <2>2 DEF EventOK
  <1>8. ASSUME NEW h \in Greenlets, req'[h].pc # "idle" PROVE RegistrationOK(req[h])'
    <2>1. PICK q : q = req'[h]
      OBVIOUS
    <2>2. q = req[h] /\ RegistrationOK(q)
      BY <1>2, <1>5, <1>8, <2>1, RecordsAre
    <2>3. RegistrationOK(q)'
      BY <1>2, <1>3, <2>2 DEF RegistrationOK
    <2> QED
      BY <2>1, <2>3 DEF RegistrationOK
  <1> QED
    BY <1>4, <1>6, <1>7, <1>8, RecordsThen

LEMMA StutterRecords ==
    ASSUME RecordsInv, UNCHANGED vars
    PROVE  RecordsInv'
  <1>1. UNCHANGED <<req, done, asked, made, lost, users, queue>>
    BY DEF vars, repositoryVars, registrationVars
  <1> QED
    BY <1>1 DEF RecordsInv, Registered, Explained, RegistrationOK, Rows

LEMMA InitRecords == InitBackend => RecordsInv
  <1> SUFFICES ASSUME NEW old \in {<<>>, <<CHOOSE i \in RoleIds : TRUE>>},
                      Init(old), InitUsers
               PROVE  RecordsInv
    BY DEF InitBackend
  <1>1. Rows = {} /\ queue = {}
    BY DEF InitUsers, Rows
  <1>2. \A g \in Greenlets : req[g].pc = "idle"
    BY DEF Init, NoRequest
  <1>3. IdsUnique
    <2>1. \A x, y \in made : x = y
      <3>1. CASE old = <<>>
        <4>1. DOMAIN old = {}
          BY <3>1
        <4> QED
          BY <4>1 DEF Init
      <3>2. CASE old = <<CHOOSE i \in RoleIds : TRUE>>
        <4>1. DOMAIN old = {1}
          BY <3>2
        <4> QED
          BY <4>1 DEF Init
      <3> QED
        BY <3>1, <3>2
    <2> QED
      BY <2>1 DEF IdsUnique
  <1> QED
    BY <1>1, <1>2, <1>3, RecordsAre DEF LoginsUnique

LEMMA NextRecords ==
    ASSUME BackendInv, RecordsInv, [Next]_vars
    PROVE  RecordsInv'
  <1>1. CASE Crash
    BY <1>1, CrashRecords
  <1>2. CASE UNCHANGED vars
    BY <1>2, StutterRecords
  <1> QED
    BY <1>1, <1>2, ArriveRecords, ServeRecords DEF Next

-----------------------------------------------------------------------------
(* The theorems.                                                           *)

\* However registrations, changes of logins, failed calls and deaths of the
\* worker meet: ids and logins are unique, every user and every event belongs
\* to the request that committed that user, and a request between its commit
\* and its event finds that user.
THEOREM RecordsInvariant == Spec => []RecordsInv
  <1>1. InitBackend => RecordsInv
    BY InitRecords
  <1>2. BackendInv /\ RecordsInv /\ [Next]_vars => RecordsInv'
    BY NextRecords
  <1> QED
    BY <1>1, <1>2, BackendInvariant, PTL DEF Spec

\* RegistrationView reads the new user back by login: its event is about the
\* user that it has created, unless that user has another password since.
THEOREM EventsForNewUsers == Spec => []EventForNewUser
  <1>1. RecordsInv => EventForNewUser
    <2> SUFFICES ASSUME RecordsInv, NEW e \in queue
                 PROVE  \E m \in made :
                          /\ m[1] = e.by
                          /\ m[3] = e.user \/ users[m[3]].password # e.by
      BY DEF EventForNewUser
    <2>1. PICK r \in UserIds :
            Registered(e.by, r) /\ (users[r].password = e.by => r = e.user)
      BY DEF RecordsInv
    <2>2. PICK m \in made : m = <<e.by, 1, r>>
      BY <2>1 DEF Registered
    <2>3. m[1] = e.by /\ m[3] = r
      BY <2>2
    <2> QED
      BY <2>1, <2>3
  <1> QED
    BY <1>1, RecordsInvariant, PTL

\* A user without an event is a superuser, or its registration died, was
\* answered 500 or lost the answer of the commit, or it is still in progress.
THEOREM SilentUsersExplained == Spec => []SilentUserExplained
  <1>1. RecordsInv => SilentUserExplained
    BY DEF RecordsInv, Explained, SilentUserExplained
  <1> QED
    BY <1>1, RecordsInvariant, PTL

\* Where a role can come from in one step of a request.
LEMMA RolesComeFrom ==
    ASSUME BackendInv, NEW g \in Greenlets, ServeRoles(g),
           NEW i \in RoleIds, i \notin Defined, i \in Defined'
    PROVE  \/ req[g].pc = "create_role" /\ i \in ObjectId(g, RoleIds)
           \/ req[g].pc = "update_role" /\ i \in req[g].ids
  <1>1. roles \in [RoleIds -> RoleNames \cup {Null}] /\ roles[i] = Null
    BY DEF BackendInv, TypeOK, Defined
  <1>2. roles'[i] # Null
    BY DEF Defined
  <1>3. CASE CreateRole(g)
    <2>1. PICK id \in ObjectId(g, RoleIds) :
            roles' = roles \/ roles' = [roles EXCEPT ![id] = Head(req[g].rest)]
      BY <1>3 DEF CreateRole
    <2>2. i = id
      BY <1>1, <1>2, <2>1
    <2> QED
      BY <1>3, <2>1, <2>2 DEF CreateRole
  <1>4. CASE UpdateRole(g)
    <2>1. req[g].row \in Defined /\ roles' = Updated(req[g].row, req[g].key, req[g].ids)
      BY <1>1, <1>2, <1>4 DEF UpdateRole
    <2>2. i \in req[g].ids
      BY <1>1, <1>2, <2>1 DEF Updated
    <2> QED
      BY <1>4, <2>2 DEF UpdateRole
  <1>5. CASE DeleteRole(g)
    <2>1. roles' = roles \/ roles' = [roles EXCEPT ![req[g].row] = Null]
      BY <1>5 DEF DeleteRole, roleVars
    <2> QED
      BY <1>1, <1>2, <2>1
  <1>6. CASE LoadRole(g) \/ LoadRows(g) \/ AddUserRoles(g) \/ RemoveUserRoles(g)
    <2>1. roles' = roles
      BY <1>6 DEF LoadRole, LoadRows, AddUserRoles, RemoveUserRoles, roleVars
    <2> QED
      BY <1>1, <1>2, <2>1
  <1> QED
    BY <1>3, <1>4, <1>5, <1>6 DEF ServeRoles

\* A role that was deleted, or whose id was changed, comes back by a call of
\* create_obj_in_db that is repeated after its commit, or by an update_role
\* whose body brings the id, and in no other way.
THEOREM DeletedRolesStayDeleted == Spec => DeletedRoleStaysDeleted
  <1>1. ASSUME BackendInv, RecordsInv, [Next]_vars, NEW m \in made,
               m[3] \in RoleIds \ Defined, m[3] \in Defined'
        PROVE  \/ m[1] \in lost
               \/ \E g \in Greenlets :
                     req[g].pc = "update_role" /\ m[3] \in req[g].ids
    <2>1. roles' # roles
      BY <1>1 DEF Defined
    <2>2. PICK g \in Greenlets : ServeRoles(g)
      <3>1. ASSUME NEW g \in Greenlets, Arrive(g) PROVE FALSE
        BY <2>1, <3>1 DEF Arrive, ArriveRoles, CreateRoles, ModifyRole, ModifyUser,
                          roleVars
      <3>2. ASSUME NEW g \in Greenlets, Serve(g) PROVE ServeRoles(g)
        BY <2>1, <3>2 DEF Serve, Fails, roleVars
      <3>3. ~Crash /\ ~UNCHANGED vars
        BY <2>1 DEF Crash, vars, roleVars
      <3> QED
        BY <1>1, <3>1, <3>2, <3>3 DEF Next
    <2>3. \/ req[g].pc = "create_role" /\ m[3] \in ObjectId(g, RoleIds)
          \/ req[g].pc = "update_role" /\ m[3] \in req[g].ids
      BY <1>1, <2>2, RolesComeFrom
    <2>4. ASSUME req[g].pc = "create_role", m[3] \in ObjectId(g, RoleIds)
          PROVE  m[1] \in lost
      <3>1. req[g].row # Null /\ m[3] = req[g].row
        BY <2>4 DEF ObjectId, Fresh
      <3>2. PICK k : <<req[g].n, k, req[g].row>> \in made /\ req[g].n \in lost
        BY <2>4, <3>1, RecordsAre, <1>1 DEF RegistrationOK
      <3> QED
        BY <1>1, <3>1, <3>2, RecordsAre DEF IdsUnique
    <2> QED
      BY <2>3, <2>4
  <1>2. BackendInv /\ RecordsInv /\ [Next]_vars =>
          [\A m \in made :
              /\ m[3] \in RoleIds \ Defined
              /\ m[3] \in Defined'
              => \/ m[1] \in lost
                 \/ \E g \in Greenlets :
                       req[g].pc = "update_role" /\ m[3] \in req[g].ids]_vars
    BY <1>1
  <1> QED
    BY <1>2, BackendInvariant, RecordsInvariant, PTL DEF Spec, DeletedRoleStaysDeleted

=============================================================================
