----------------------------- MODULE RateLimit -----------------------------
(***************************************************************************)
(* utils/rate_limit.py: calls of one address are counted in Redis under a  *)
(* key made of the address and of the minute hand of the clock, which the  *)
(* worker reads before it talks to Redis.  Every count sets the lifetime   *)
(* of the key anew; the key of a minute is used again an hour later.       *)
(***************************************************************************)
EXTENDS Naturals

CONSTANTS
    Addresses,  \* values of the header X-Real-IP
    Requests,   \* greenlets
    Limit,      \* requests_limit
    Period,     \* ticks in a minute; limit_expire_period is a minute too
    Hour,       \* minutes on the clock
    MaxLag,     \* ticks between reading the clock and counting, at most
    MaxNow,     \* the clock stops here (bounds the model)
    MaxCount,   \* no counter goes beyond this (bounds the model)
    Null        \* Python's None

ASSUME RateAssumption ==
    /\ Limit \in Nat
    /\ Period \in Nat \ {0}
    /\ Hour \in Nat /\ Hour >= 2
    /\ MaxLag \in Nat /\ MaxNow \in Nat /\ MaxCount \in Nat
    /\ Null \notin Addresses

VARIABLES
    now,      \* the clock, in ticks
    counter,  \* Redis db 5: address and minute -> count and expiry
    req,      \* greenlet -> the call it serves
    verdict,  \* greenlet -> what it answered last
    admitted  \* address -> minute of a key -> time -> calls let through before it

vars == <<now, counter, req, verdict, admitted>>

-----------------------------------------------------------------------------

Minutes == 0..(Hour - 1)

\* now.minute
Minute(t) == (t \div Period) % Hour

NoRequest == [pc |-> "idle", address |-> Null, read |-> 0]

\* GET: a key that has expired counts nothing.
Live(c) == now < c.exp
Value(c) == IF Live(c) THEN c.count ELSE 0

\* Deviations: the key lives for one tick; the lifetime is mistaken for a
\* point in time.
IncrExpireShort(c) == [count |-> Value(c) + 1, exp |-> now + 1]
IncrExpireAt(c) == [count |-> Value(c) + 1, exp |-> Period - now]

\* INCR and EXPIRE, in one transaction.
IncrExpire(c) == [count |-> Value(c) + 1, exp |-> now + Period]

Init ==
    /\ now = 0
    /\ counter = [a \in Addresses |-> [m \in Minutes |-> [count |-> 0, exp |-> 0]]]
    /\ req = [r \in Requests |-> NoRequest]
    /\ verdict = [r \in Requests |-> Null]
    /\ admitted = [a \in Addresses |-> [m \in Minutes |-> [t \in 0..(MaxNow + 1) |-> 0]]]

\* Time passes, but no call waits for Redis for more than MaxLag ticks.
Tick ==
    /\ now < MaxNow
    /\ \A r \in Requests : req[r].pc = "count" => now < req[r].read + MaxLag
    /\ now' = now + 1
    /\ admitted' = [a \in Addresses |-> [m \in Minutes |->
         [admitted[a][m] EXCEPT ![now + 2] = admitted[a][m][now + 1]]]]
    /\ UNCHANGED <<counter, req, verdict>>

\* RegistrationView is called.
Call(r, a) ==
    /\ req[r].pc = "idle"
    /\ req' = [req EXCEPT ![r] = [pc |-> "read", address |-> a, read |-> 0]]
    /\ verdict' = [verdict EXCEPT ![r] = Null]
    /\ UNCHANGED <<now, counter, admitted>>

\* requests_is_limited makes the key ...
ReadClock(r) ==
    /\ req[r].pc = "read"
    /\ req' = [req EXCEPT ![r].pc = "count", ![r].read = now]
    /\ UNCHANGED <<now, counter, verdict, admitted>>

\* ... and cannot reach Redis: backoff calls it again.
CountFails(r) ==
    /\ req[r].pc = "count"
    /\ req' = [req EXCEPT ![r].pc = "read"]
    /\ UNCHANGED <<now, counter, verdict, admitted>>

\* The transaction is executed, for the key that was made.
CountCall(r) ==
    LET a == req[r].address
        m == Minute(req[r].read)
    IN  /\ req[r].pc = "count"
        /\ Value(counter[a][m]) < MaxCount
        /\ counter' = [counter EXCEPT ![a][m] = IncrExpire(@)]

\* The connection breaks before the answer arrives: backoff calls it again.
CountLost(r) ==
    /\ CountCall(r)
    /\ req' = [req EXCEPT ![r].pc = "read"]
    /\ UNCHANGED <<now, verdict, admitted>>

\* Deviations: the call that reaches the limit is turned away; the count is
\* taken for the one before the call.
LimitedAtLimit(count) == count >= Limit
LimitedByOld(count) == count - 1 > Limit

\* result[0] > request_limit
Limited(count) == count > Limit

\* The answer arrives: the view is called, or 429 is sent.
Decide(r) ==
    LET a == req[r].address
        m == Minute(req[r].read)
        limited == Limited(Value(counter[a][m]) + 1)
    IN  /\ CountCall(r)
        /\ verdict' = [verdict EXCEPT ![r] = IF limited THEN "refused" ELSE "admitted"]
        /\ admitted' = [admitted EXCEPT ![a][m][now + 1] = IF limited THEN @ ELSE @ + 1]
        /\ req' = [req EXCEPT ![r] = NoRequest]
        /\ UNCHANGED now

Next ==
    \/ Tick
    \/ \E r \in Requests :
         \/ \E a \in Addresses : Call(r, a)
         \/ ReadClock(r) \/ CountFails(r) \/ CountLost(r) \/ Decide(r)

Spec == Init /\ [][Next]_vars

-----------------------------------------------------------------------------
(* Properties.                                                             *)

\* Counters, calls and answers keep their shapes.
TypeOK ==
    /\ now \in Nat
    /\ counter \in [Addresses -> [Minutes -> [count : Nat, exp : Nat]]]
    /\ req \in [Requests -> [pc : {"idle", "read", "count"},
                             address : Addresses \cup {Null}, read : Nat]]
    /\ verdict \in [Requests -> {"admitted", "refused", Null}]
    /\ admitted \in [Addresses -> [Minutes -> [0..(MaxNow + 1) -> Nat]]]
    /\ now <= MaxNow
    /\ \A r \in Requests :
         req[r].address \in IF req[r].pc = "idle" THEN {Null} ELSE Addresses

\* The reuse of a key after an hour, its lifetime and the retries of backoff
\* do not show: the limiter counts per minute, and per minute only.
Window == INSTANCE FixedWindow WITH
    used <- [a \in Addresses |-> Value(counter[a][Minute(now)])],
    caller <- [r \in Requests |-> req[r].address]

WindowSpec == Window!Spec

\* Times of which it is known how many calls got through before them.
Times == 0..(now + 1)

\* A key lets no more than Limit calls of an address through in a span of
\* time as long as a minute, whenever it is set anew and however late counted.
KeyLimit ==
    \A a \in Addresses, m \in Minutes, t, u \in Times :
        t <= u /\ u <= t + Period => admitted[a][m][u] <= admitted[a][m][t] + Limit

\* A call that is counted in the minute in which it reads the clock meets one
\* of two keys in such a span, so that at most twice the limit gets through.
TwiceTheLimit ==
    /\ KeyLimit
    /\ \A a \in Addresses, t, u \in Times :
         t <= u /\ u <= t + Period =>
           \E i, j \in Minutes : \A m \in Minutes \ {i, j} :
             admitted[a][m][u] = admitted[a][m][t]

\* The counter of a key covers what got through since it was last dead:
\* nothing did after the count that set its lifetime, and no more than count
\* calls, nor more than Limit, did in the minute before that one.
Covered(a, m) ==
    LET c == counter[a][m]
        through == admitted[a][m]
    IN  /\ c.exp <= now + Period
        /\ \A t \in Times : t + Period > c.exp => through[t] = through[now + 1]
        /\ \A t \in Times : t + 2 * Period > c.exp =>
             /\ through[now + 1] <= through[t] + c.count
             /\ through[now + 1] <= through[t] + Limit

\* Without a lag, the calls under way read the clock just now, a key was set
\* in its own minute, and lets calls through in its own minute alone.
Punctual ==
    /\ \A r \in Requests : req[r].pc = "count" => req[r].read = now
    /\ \A a \in Addresses, m \in Minutes :
         /\ counter[a][m].exp = 0 \/ \E t \in 0..now :
              counter[a][m].exp = t + Period /\ Minute(t) = m
         /\ \A t, u \in Times :
              t < u /\ (\A x \in t..(u - 1) : Minute(x) # m) =>
                admitted[a][m][u] = admitted[a][m][t]

\* The inductive invariant of the limiter.
RateInv ==
    /\ TypeOK
    /\ \A a \in Addresses, m \in Minutes : Covered(a, m)
    /\ KeyLimit
    /\ MaxLag = 0 => Punctual
=============================================================================
