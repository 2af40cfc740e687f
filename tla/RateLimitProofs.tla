--------------------------- MODULE RateLimitProofs ---------------------------
(***************************************************************************)
(* What TLAPS proves about RateLimit, for every number of addresses and    *)
(* greenlets, every limit, length of the minute and of the hour.           *)
(* Nothing here computes sums: admitted is cumulative, so that what got    *)
(* through in a span of time is the difference of two of its entries.      *)
(***************************************************************************)
EXTENDS RateLimit, TLAPS

(***************************************************************************)
(* The clock face.                                                         *)
(***************************************************************************)

LEMMA MinuteType == ASSUME NEW t \in Nat PROVE Minute(t) \in Minutes
  BY RateAssumption DEF Minute, Minutes

\* A number divided by the length of a minute, and what is left over.
LEMMA Division ==
    ASSUME NEW t \in Nat
    PROVE  \E k \in Nat, x \in 0..(Period - 1) : t = k * Period + x /\ t \div Period = k
  BY RateAssumption

LEMMA DivisionUnique ==
    ASSUME NEW k \in Nat, NEW t \in Nat, k * Period <= t, t < (k + 1) * Period
    PROVE  t \div Period = k
  BY RateAssumption

LEMMA Remainder ==
    ASSUME NEW h \in Nat \ {0}, NEW q \in Nat, NEW x \in 0..(h - 1)
    PROVE  (q * h + x) % h = x
  OBVIOUS

LEMMA NextMinuteDiffers ==
    ASSUME NEW k \in Nat PROVE (k + 1) % Hour # k % Hour
  <1>1. Hour \in Nat \ {0} /\ Hour >= 2
    BY RateAssumption
  <1>2. PICK q \in Nat, x \in 0..(Hour - 1) : k = q * Hour + x
    <2>1. /\ k \div Hour \in Nat /\ k % Hour \in 0..(Hour - 1)
          /\ k = ((k \div Hour) * Hour) + (k % Hour)
      BY <1>1
    <2> QED
      BY <2>1
  <1>3. k % Hour = x
    BY <1>1, <1>2, Remainder
  <1>4. CASE x + 1 < Hour
    <2>1. k + 1 = q * Hour + (x + 1) /\ x + 1 \in 0..(Hour - 1)
      BY <1>1, <1>2, <1>4
    <2>2. (k + 1) % Hour = x + 1
      BY <1>1, <2>1, Remainder
    <2> QED
      BY <1>3, <2>2
  <1>5. CASE x + 1 = Hour
    <2>1. k + 1 = (q + 1) * Hour + 0 /\ q + 1 \in Nat /\ 0 \in 0..(Hour - 1)
      BY <1>1, <1>2, <1>5
    <2>2. (k + 1) % Hour = 0
      BY <1>1, <2>1, Remainder
    <2> QED
      BY <1>1, <1>3, <1>5, <2>2
  <1> QED
    BY <1>1, <1>2, <1>4, <1>5

(***************************************************************************)
(* Types.                                                                  *)
(***************************************************************************)

LEMMA ValueType ==
    ASSUME TypeOK, NEW a \in Addresses, NEW m \in Minutes
    PROVE  Value(counter[a][m]) \in Nat
  BY DEF TypeOK, Value

LEMMA CountedKey ==
    ASSUME TypeOK, NEW r \in Requests, req[r].pc = "count"
    PROVE  req[r].address \in Addresses /\ Minute(req[r].read) \in Minutes
  <1>1. req[r].pc # "idle" /\ req[r].read \in Nat
    BY DEF TypeOK
  <1> QED
    BY <1>1, MinuteType DEF TypeOK

\* What a count does to the counters.
LEMMA Counted ==
    ASSUME TypeOK, NEW r \in Requests, CountCall(r),
           NEW a, a = req[r].address, NEW m, m = Minute(req[r].read)
    PROVE  /\ counter' \in [Addresses -> [Minutes -> [count : Nat, exp : Nat]]]
           /\ counter'[a][m] = [count |-> Value(counter[a][m]) + 1, exp |-> now + Period]
           /\ \A b \in Addresses, n \in Minutes :
                b # a \/ n # m => counter'[b][n] = counter[b][n]
  <1>1. a \in Addresses /\ m \in Minutes /\ Value(counter[a][m]) \in Nat
    BY CountedKey, ValueType DEF CountCall
  <1>2. now \in Nat /\ Period \in Nat
    BY RateAssumption DEF TypeOK
  <1>3. PICK c : c = IncrExpire(counter[a][m])
    OBVIOUS
  <1>4. c = [count |-> Value(counter[a][m]) + 1, exp |-> now + Period]
    BY <1>3 DEF IncrExpire
  <1>5. c \in [count : Nat, exp : Nat]
    BY <1>1, <1>2, <1>4
  <1>6. counter' = [counter EXCEPT ![a][m] = c]
    BY <1>3 DEF CountCall
  <1>7. counter \in [Addresses -> [Minutes -> [count : Nat, exp : Nat]]]
    BY DEF TypeOK
  <1> QED
    BY <1>1, <1>4, <1>5, <1>6, <1>7

\* What a decision does to the calls let through.
LEMMA Decided ==
    ASSUME TypeOK, NEW r \in Requests, Decide(r),
           NEW a, a = req[r].address, NEW m, m = Minute(req[r].read)
    PROVE  /\ admitted' \in [Addresses -> [Minutes -> [0..(MaxNow + 1) -> Nat]]]
           /\ \/ admitted'[a][m][now + 1] = admitted[a][m][now + 1]
              \/ /\ admitted'[a][m][now + 1] = admitted[a][m][now + 1] + 1
                 /\ Value(counter[a][m]) + 1 <= Limit
           /\ \A b \in Addresses, n \in Minutes, t \in 0..(MaxNow + 1) :
                b # a \/ n # m \/ t # now + 1 => admitted'[b][n][t] = admitted[b][n][t]
  <1>1. a \in Addresses /\ m \in Minutes /\ Value(counter[a][m]) \in Nat
    BY CountedKey, ValueType DEF Decide, CountCall
  <1>2. now + 1 \in 0..(MaxNow + 1) /\ Limit \in Nat
    BY RateAssumption DEF TypeOK
  <1>3. admitted \in [Addresses -> [Minutes -> [0..(MaxNow + 1) -> Nat]]]
    BY DEF TypeOK
  <1>4. admitted[a][m][now + 1] \in Nat
    BY <1>1, <1>2, <1>3
  <1>5. PICK x : x = IF Limited(Value(counter[a][m]) + 1) THEN admitted[a][m][now + 1]
                                                          ELSE admitted[a][m][now + 1] + 1
    OBVIOUS
  <1>6. admitted' = [admitted EXCEPT ![a][m][now + 1] = x]
    BY <1>5 DEF Decide
  <1>7. x \in Nat
    BY <1>4, <1>5
  <1>8. [admitted[a][m] EXCEPT ![now + 1] = x] \in [0..(MaxNow + 1) -> Nat]
    BY <1>1, <1>2, <1>3, <1>7
  <1>9. admitted'[a][m] = [admitted[a][m] EXCEPT ![now + 1] = x]
    BY <1>1, <1>3, <1>6
  <1>10. \A b \in Addresses, n \in Minutes :
            b # a \/ n # m => admitted'[b][n] = admitted[b][n]
    BY <1>1, <1>3, <1>6
  <1>11. admitted' \in [Addresses -> [Minutes -> [0..(MaxNow + 1) -> Nat]]]
    BY <1>1, <1>3, <1>6, <1>8
  <1>12. admitted'[a][m][now + 1] = x
    <2>1. admitted[a][m] \in [0..(MaxNow + 1) -> Nat]
      BY <1>1, <1>3
    <2> QED
      BY <1>2, <1>9, <2>1
  <1>13. \A t \in 0..(MaxNow + 1) : t # now + 1 => admitted'[a][m][t] = admitted[a][m][t]
    BY <1>1, <1>2, <1>3, <1>9
  <1>14. \/ x = admitted[a][m][now + 1]
         \/ x = admitted[a][m][now + 1] + 1 /\ Value(counter[a][m]) + 1 <= Limit
    BY <1>1, <1>2, <1>5 DEF Limited
  <1> QED
    BY <1>10, <1>11, <1>12, <1>13, <1>14

LEMMA TypeInit == Init => TypeOK
  BY RateAssumption DEF Init, TypeOK, NoRequest

LEMMA TypeStep == TypeOK /\ [Next]_vars => TypeOK'
  <1> SUFFICES ASSUME TypeOK, [Next]_vars PROVE TypeOK'
    OBVIOUS
  <1>0. MaxNow \in Nat
    BY RateAssumption
  <1>1. CASE Tick
    <2>1. now + 1 \in 0..(MaxNow + 1) /\ now + 2 \in 0..(MaxNow + 1) /\ now' <= MaxNow
      BY <1>0, <1>1 DEF Tick, TypeOK
    <2>2. \A a \in Addresses, m \in Minutes :
            admitted[a][m] \in [0..(MaxNow + 1) -> Nat]
      BY DEF TypeOK
    <2>3. \A a \in Addresses, m \in Minutes :
            [admitted[a][m] EXCEPT ![now + 2] = admitted[a][m][now + 1]]
              \in [0..(MaxNow + 1) -> Nat]
      BY <2>1, <2>2
    <2>4. admitted' \in [Addresses -> [Minutes -> [0..(MaxNow + 1) -> Nat]]]
      BY <1>1, <2>3 DEF Tick
    <2> QED
      BY <1>1, <2>1, <2>4 DEF Tick, TypeOK
  <1>2. ASSUME NEW r \in Requests, NEW a \in Addresses, Call(r, a) PROVE TypeOK'
    BY <1>2 DEF Call, TypeOK
  <1>3. ASSUME NEW r \in Requests, ReadClock(r) PROVE TypeOK'
    BY <1>3 DEF ReadClock, TypeOK
  <1>4. ASSUME NEW r \in Requests, CountFails(r) PROVE TypeOK'
    BY <1>4 DEF CountFails, TypeOK
  <1>5. ASSUME NEW r \in Requests, CountLost(r) PROVE TypeOK'
    <2>1. counter' \in [Addresses -> [Minutes -> [count : Nat, exp : Nat]]]
      BY <1>5, Counted DEF CountLost
    <2>2. req[r].pc = "count"
      BY <1>5 DEF CountLost, CountCall
    <2> QED
      BY <1>5, <2>1, <2>2 DEF CountLost, TypeOK
  <1>6. ASSUME NEW r \in Requests, Decide(r) PROVE TypeOK'
    <2>1. counter' \in [Addresses -> [Minutes -> [count : Nat, exp : Nat]]]
      BY <1>6, Counted DEF Decide
    <2>2. PICK a \in Addresses, m \in Minutes :
            a = req[r].address /\ m = Minute(req[r].read)
      BY <1>6, CountedKey DEF Decide, CountCall
    <2>5. admitted' \in [Addresses -> [Minutes -> [0..(MaxNow + 1) -> Nat]]]
      BY <1>6, <2>2, Decided
    <2>6. req' \in [Requests -> [pc : {"idle", "read", "count"},
                                 address : Addresses \cup {Null}, read : Nat]]
      BY <1>6 DEF Decide, TypeOK, NoRequest
    <2>7. \A q \in Requests :
            req'[q].address \in IF req'[q].pc = "idle" THEN {Null} ELSE Addresses
      BY <1>6 DEF Decide, TypeOK, NoRequest
    <2>8. verdict' \in [Requests -> {"admitted", "refused", Null}]
      BY <1>6 DEF Decide, TypeOK
    <2> QED
      BY <1>6, <2>1, <2>5, <2>6, <2>7, <2>8 DEF Decide, TypeOK
  <1>7. CASE UNCHANGED vars
    BY <1>7 DEF vars, TypeOK
  <1> QED
    BY <1>1, <1>2, <1>3, <1>4, <1>5, <1>6, <1>7 DEF Next

(***************************************************************************)
(* RateInv is inductive.                                                   *)
(***************************************************************************)

\* The facts that the arithmetic below is about.
LEMMA Numbers ==
    ASSUME TypeOK
    PROVE  /\ Period \in Nat /\ Period >= 1 /\ Limit \in Nat /\ MaxNow \in Nat
           /\ now \in Nat /\ now <= MaxNow
           /\ \A a \in Addresses, m \in Minutes :
                /\ counter[a][m].exp \in Nat /\ counter[a][m].count \in Nat
                /\ admitted[a][m] \in [0..(MaxNow + 1) -> Nat]
                /\ \A t \in Times : admitted[a][m][t] \in Nat
  <1>1. /\ Period \in Nat /\ Period >= 1 /\ Limit \in Nat /\ MaxNow \in Nat
        /\ now \in Nat /\ now <= MaxNow
    BY RateAssumption DEF TypeOK
  <1>2. ASSUME NEW a \in Addresses, NEW m \in Minutes
        PROVE  /\ counter[a][m].exp \in Nat /\ counter[a][m].count \in Nat
               /\ admitted[a][m] \in [0..(MaxNow + 1) -> Nat]
               /\ \A t \in Times : admitted[a][m][t] \in Nat
    <2>1. counter[a][m] \in [count : Nat, exp : Nat]
      BY DEF TypeOK
    <2>2. admitted[a][m] \in [0..(MaxNow + 1) -> Nat]
      BY DEF TypeOK
    <2>3. \A t \in Times : t \in 0..(MaxNow + 1)
      BY <1>1 DEF Times
    <2> QED
      BY <2>1, <2>2, <2>3
  <1> QED
    BY <1>1, <1>2

\* When time passes, what got through before the next instant is what got
\* through until now.
LEMMA Ticked ==
    ASSUME TypeOK, Tick, NEW a \in Addresses, NEW m \in Minutes
    PROVE  /\ admitted'[a][m][now + 2] = admitted[a][m][now + 1]
           /\ \A t \in Times : admitted'[a][m][t] = admitted[a][m][t]
           /\ Times' = Times \cup {now + 2}
  <1>1. /\ now \in Nat /\ now < MaxNow /\ now' = now + 1 /\ MaxNow \in Nat
        /\ admitted[a][m] \in [0..(MaxNow + 1) -> Nat]
    BY Numbers DEF Tick
  <1>2. now + 2 \in 0..(MaxNow + 1)
    BY <1>1
  <1>3. admitted'[a][m] = [admitted[a][m] EXCEPT ![now + 2] = admitted[a][m][now + 1]]
    BY DEF Tick
  <1>4. \A t \in Times : t \in 0..(MaxNow + 1) /\ t # now + 2
    BY <1>1 DEF Times
  <1>5. Times' = Times \cup {now + 2}
    BY <1>1 DEF Times
  <1> QED
    BY <1>1, <1>2, <1>3, <1>4, <1>5

LEMMA CoveredAfterTick ==
    ASSUME TypeOK, Tick, NEW a \in Addresses, NEW m \in Minutes, Covered(a, m)
    PROVE  Covered(a, m)'
  <1>1. PICK x, e, n : x = admitted[a][m] /\ e = counter[a][m].exp /\ n = counter[a][m].count
    OBVIOUS
  <1>2. PICK y : y = admitted'[a][m]
    OBVIOUS
  <1>3. /\ Period \in Nat /\ now \in Nat /\ Limit \in Nat /\ e \in Nat /\ n \in Nat
        /\ \A t \in Times : x[t] \in Nat
    BY <1>1, Numbers
  <1>4. /\ y[now + 2] = x[now + 1] /\ \A t \in Times : y[t] = x[t]
        /\ Times' = Times \cup {now + 2} /\ now + 1 \in Times
        /\ now' = now + 1 /\ counter' = counter
    BY <1>1, <1>2, <1>3, Ticked DEF Tick, Times
  <1>5. /\ e <= now + Period
        /\ \A t \in Times : t + Period > e => x[t] = x[now + 1]
        /\ \A t \in Times : t + 2 * Period > e =>
             x[now + 1] <= x[t] + n /\ x[now + 1] <= x[t] + Limit
    BY <1>1 DEF Covered
  <1>6. e <= now' + Period
    BY <1>3, <1>4, <1>5
  <1>7. \A t \in Times' : t + Period > e => y[t] = y[now' + 1]
    BY <1>3, <1>4, <1>5
  <1>8. \A t \in Times' : t + 2 * Period > e =>
             y[now' + 1] <= y[t] + n /\ y[now' + 1] <= y[t] + Limit
    BY <1>3, <1>4, <1>5
  <1> QED
    BY <1>1, <1>2, <1>4, <1>6, <1>7, <1>8 DEF Covered

\* The heart of the matter: a count within the lifetime of the key goes on
\* from the last one, and a count after it finds that nothing got through in
\* the minute before.
LEMMA CoveredAfterCount ==
    ASSUME TypeOK, now' = now,
           NEW a \in Addresses, NEW m \in Minutes, Covered(a, m),
           counter'[a][m] = [count |-> Value(counter[a][m]) + 1, exp |-> now + Period],
           \A t \in Times : t # now + 1 => admitted'[a][m][t] = admitted[a][m][t],
           \/ admitted'[a][m][now + 1] = admitted[a][m][now + 1]
           \/ /\ admitted'[a][m][now + 1] = admitted[a][m][now + 1] + 1
              /\ Value(counter[a][m]) + 1 <= Limit
    PROVE  Covered(a, m)'
  <1>1. PICK x, e, n, v : /\ x = admitted[a][m] /\ e = counter[a][m].exp
                          /\ n = counter[a][m].count /\ v = Value(counter[a][m])
    OBVIOUS
  <1>2. PICK y : y = admitted'[a][m]
    OBVIOUS
  <1>3. /\ Period \in Nat /\ Period >= 1 /\ now \in Nat /\ Limit \in Nat
        /\ e \in Nat /\ n \in Nat /\ v \in Nat
        /\ \A t \in Times : t \in Nat /\ t <= now + 1 /\ x[t] \in Nat
        /\ now + 1 \in Times
    BY <1>1, Numbers, ValueType DEF Times
  <1>4. /\ e <= now + Period
        /\ \A t \in Times : t + Period > e => x[t] = x[now + 1]
        /\ \A t \in Times : t + 2 * Period > e =>
             x[now + 1] <= x[t] + n /\ x[now + 1] <= x[t] + Limit
    BY <1>1 DEF Covered
  <1>5. v = IF now < e THEN n ELSE 0
    BY <1>1 DEF Value, Live
  <1>6. /\ \A t \in Times : t # now + 1 => y[t] = x[t]
        /\ \/ y[now + 1] = x[now + 1]
           \/ y[now + 1] = x[now + 1] + 1 /\ v + 1 <= Limit
    BY <1>1, <1>2
  <1>7. \A t \in Times : t + Period > now + Period => t = now + 1
    BY <1>3
  <1>8. ASSUME NEW t \in Times, t + 2 * Period > now + Period
        PROVE  y[now + 1] <= y[t] + (v + 1) /\ y[now + 1] <= y[t] + Limit
    <2>1. CASE t = now + 1
      BY <1>3, <1>6, <2>1
    <2>2. CASE t # now + 1 /\ now < e
      <3>1. x[now + 1] <= x[t] + n /\ x[now + 1] <= x[t] + Limit
        BY <1>3, <1>4, <1>8
      <3> QED
        BY <1>3, <1>5, <1>6, <2>2, <3>1
    <2>3. CASE t # now + 1 /\ ~(now < e)
      <3>1. x[t] = x[now + 1]
        BY <1>3, <1>4, <1>8, <2>3
      <3> QED
        BY <1>3, <1>5, <1>6, <2>3, <3>1
    <2> QED
      BY <2>1, <2>2, <2>3
  <1>9. /\ counter'[a][m].exp = now + Period /\ counter'[a][m].count = v + 1
        /\ Times' = Times
    BY <1>1 DEF Times
  <1>10. counter'[a][m].exp <= now' + Period
    BY <1>3, <1>9
  <1>11. \A t \in Times' : t + Period > counter'[a][m].exp => y[t] = y[now' + 1]
    BY <1>7, <1>9
  <1>12. \A t \in Times' : t + 2 * Period > counter'[a][m].exp =>
              /\ y[now' + 1] <= y[t] + counter'[a][m].count
              /\ y[now' + 1] <= y[t] + Limit
    BY <1>8, <1>9
  <1> QED
    BY <1>2, <1>10, <1>11, <1>12 DEF Covered

\* A step that changes no entry of the past keeps the limit of every key, if
\* the keys are covered after it.
LEMMA KeyLimitKept ==
    ASSUME TypeOK', KeyLimit,
           \A a \in Addresses, m \in Minutes : Covered(a, m)',
           \A t \in Times' : t # now' + 1 => t \in Times,
           \A a \in Addresses, m \in Minutes, t \in Times' :
             t # now' + 1 => admitted'[a][m][t] = admitted[a][m][t]
    PROVE  KeyLimit'
  <1> SUFFICES ASSUME NEW a \in Addresses, NEW m \in Minutes,
                      NEW t \in Times', NEW u \in Times', t <= u, u <= t + Period
               PROVE  admitted'[a][m][u] <= admitted'[a][m][t] + Limit
    BY DEF KeyLimit
  <1>1. PICK y, e : y = admitted'[a][m] /\ e = counter'[a][m].exp
    OBVIOUS
  <1>2. PICK k : k = now'
    OBVIOUS
  <1>3. k \in Nat /\ Period \in Nat /\ Limit \in Nat /\ e \in Nat
    BY <1>1, <1>2, RateAssumption DEF TypeOK
  <1>4. t \in 0..(k + 1) /\ u \in 0..(k + 1)
    BY <1>2 DEF Times
  <1>5. CASE u = k + 1
    <2>1. /\ e <= k + Period
          /\ t + 2 * Period > e => y[k + 1] <= y[t] + Limit
      BY <1>1, <1>2 DEF Covered
    <2> QED
      BY <1>1, <1>3, <1>4, <1>5, <2>1
  <1>6. CASE u # k + 1
    <2>1. t # k + 1
      BY <1>3, <1>4, <1>6
    <2>2. /\ t \in Times /\ u \in Times
          /\ admitted'[a][m][t] = admitted[a][m][t]
          /\ admitted'[a][m][u] = admitted[a][m][u]
      BY <1>2, <1>6, <2>1
    <2>3. admitted[a][m][u] <= admitted[a][m][t] + Limit
      BY <2>2 DEF KeyLimit
    <2> QED
      BY <2>2, <2>3
  <1> QED
    BY <1>5, <1>6

\* What a step that counts a call does to a key, and to the limit.
LEMMA KeysAfterCount ==
    ASSUME TypeOK, TypeOK', KeyLimit, now' = now,
           NEW a \in Addresses, NEW m \in Minutes,
           \A b \in Addresses, n \in Minutes : Covered(b, n),
           counter'[a][m] = [count |-> Value(counter[a][m]) + 1, exp |-> now + Period],
           \/ admitted'[a][m][now + 1] = admitted[a][m][now + 1]
           \/ /\ admitted'[a][m][now + 1] = admitted[a][m][now + 1] + 1
              /\ Value(counter[a][m]) + 1 <= Limit,
           \A b \in Addresses, n \in Minutes : b # a \/ n # m =>
             /\ counter'[b][n] = counter[b][n]
             /\ \A t \in Times : admitted'[b][n][t] = admitted[b][n][t],
           \A t \in Times : t # now + 1 => admitted'[a][m][t] = admitted[a][m][t]
    PROVE  KeyLimit' /\ \A b \in Addresses, n \in Minutes : Covered(b, n)'
  <1>1. Covered(a, m)'
    BY CoveredAfterCount
  <1>2. Times' = Times /\ now + 1 \in Times
    BY Numbers DEF Times
  <1>3. ASSUME NEW b \in Addresses, NEW n \in Minutes, b # a \/ n # m
        PROVE  Covered(b, n)'
    <2>1. /\ counter'[b][n] = counter[b][n]
          /\ \A t \in Times : admitted'[b][n][t] = admitted[b][n][t]
      BY <1>3
    <2> QED
      BY <1>2, <2>1 DEF Covered
  <1>4. \A b \in Addresses, n \in Minutes : Covered(b, n)'
    BY <1>1, <1>3
  <1>5. \A b \in Addresses, n \in Minutes, t \in Times' :
           t # now' + 1 => admitted'[b][n][t] = admitted[b][n][t]
    BY <1>2
  <1>6. \A t \in Times' : t # now' + 1 => t \in Times
    BY <1>2
  <1>7. KeyLimit'
    BY <1>4, <1>5, <1>6, KeyLimitKept
  <1> QED
    BY <1>4, <1>7

\* Every step keeps the keys covered and their limit.
LEMMA KeysStep ==
    ASSUME TypeOK, TypeOK', [Next]_vars, KeyLimit,
           \A a \in Addresses, m \in Minutes : Covered(a, m)
    PROVE  KeyLimit' /\ \A a \in Addresses, m \in Minutes : Covered(a, m)'
  <1>1. CASE Tick
    <2>1. \A a \in Addresses, m \in Minutes : Covered(a, m)'
      BY <1>1, CoveredAfterTick
    <2>2. /\ Times' = 0..(now + 2) /\ Times = 0..(now + 1) /\ now' + 1 = now + 2
          /\ now \in Nat
      BY <1>1, Numbers DEF Tick, Times
    <2>3. \A t \in Times' : t # now' + 1 => t \in Times
      BY <2>2
    <2>4. \A a \in Addresses, m \in Minutes, t \in Times :
             admitted'[a][m][t] = admitted[a][m][t]
      BY <1>1, Ticked
    <2> QED
      BY <2>1, <2>3, <2>4, KeyLimitKept
  <1>2. ASSUME NEW r \in Requests, CountLost(r)
        PROVE  KeyLimit' /\ \A a \in Addresses, m \in Minutes : Covered(a, m)'
    <2>1. PICK a \in Addresses, m \in Minutes : a = req[r].address /\ m = Minute(req[r].read)
      BY <1>2, CountedKey DEF CountLost, CountCall
    <2>2. /\ counter'[a][m] = [count |-> Value(counter[a][m]) + 1, exp |-> now + Period]
          /\ \A b \in Addresses, n \in Minutes :
               b # a \/ n # m => counter'[b][n] = counter[b][n]
      BY <1>2, <2>1, Counted DEF CountLost
    <2>3. admitted' = admitted /\ now' = now
      BY <1>2 DEF CountLost
    <2> QED
      BY <2>2, <2>3, KeysAfterCount
  <1>3. ASSUME NEW r \in Requests, Decide(r)
        PROVE  KeyLimit' /\ \A a \in Addresses, m \in Minutes : Covered(a, m)'
    <2>1. PICK a \in Addresses, m \in Minutes : a = req[r].address /\ m = Minute(req[r].read)
      BY <1>3, CountedKey DEF Decide, CountCall
    <2>2. /\ counter'[a][m] = [count |-> Value(counter[a][m]) + 1, exp |-> now + Period]
          /\ \A b \in Addresses, n \in Minutes :
               b # a \/ n # m => counter'[b][n] = counter[b][n]
      BY <1>3, <2>1, Counted DEF Decide
    <2>3. /\ \/ admitted'[a][m][now + 1] = admitted[a][m][now + 1]
             \/ /\ admitted'[a][m][now + 1] = admitted[a][m][now + 1] + 1
                /\ Value(counter[a][m]) + 1 <= Limit
          /\ \A b \in Addresses, n \in Minutes, t \in 0..(MaxNow + 1) :
               b # a \/ n # m \/ t # now + 1 => admitted'[b][n][t] = admitted[b][n][t]
      BY <1>3, <2>1, Decided
    <2>4. \A t \in Times : t \in 0..(MaxNow + 1)
      BY Numbers DEF Times
    <2>5. /\ \A b \in Addresses, n \in Minutes : b # a \/ n # m =>
               /\ counter'[b][n] = counter[b][n]
               /\ \A t \in Times : admitted'[b][n][t] = admitted[b][n][t]
          /\ \A t \in Times : t # now + 1 => admitted'[a][m][t] = admitted[a][m][t]
      BY <2>2, <2>3, <2>4
    <2>6. now' = now
      BY <1>3 DEF Decide
    <2> QED
      BY <2>2, <2>3, <2>5, <2>6, KeysAfterCount
  <1>4. CASE UNCHANGED <<now, counter, admitted>>
    BY <1>4 DEF KeyLimit, Covered, Times
  <1> QED
    BY <1>1, <1>2, <1>3, <1>4 DEF Next, Call, ReadClock, CountFails, vars

\* Time does not pass while a call that may not lag is being counted.
LEMMA NoneCounted ==
    ASSUME TypeOK, MaxLag = 0, Punctual, Tick, NEW r \in Requests
    PROVE  req[r].pc # "count"
  BY DEF Tick, Punctual, TypeOK

LEMMA PunctualAfterTick ==
    ASSUME TypeOK, MaxLag = 0, Punctual, Tick
    PROVE  Punctual'
  <1>1. now \in Nat /\ now' = now + 1 /\ req' = req /\ counter' = counter
    BY Numbers DEF Tick
  <1>2. \A r \in Requests : req'[r].pc = "count" => req'[r].read = now'
    BY <1>1, NoneCounted
  <1>3. ASSUME NEW a \in Addresses, NEW m \in Minutes
        PROVE  counter'[a][m].exp = 0 \/ \E t \in 0..now' :
                 counter'[a][m].exp = t + Period /\ Minute(t) = m
    BY <1>1 DEF Punctual
  <1>4. ASSUME NEW a \in Addresses, NEW m \in Minutes, NEW t \in Times', NEW u \in Times',
               t < u, \A x \in t..(u - 1) : Minute(x) # m
        PROVE  admitted'[a][m][u] = admitted'[a][m][t]
    <2>1. PICK x, y : x = admitted[a][m] /\ y = admitted'[a][m]
      OBVIOUS
    <2>2. /\ y[now + 2] = x[now + 1] /\ \A z \in Times : y[z] = x[z]
          /\ t \in 0..(now + 2) /\ u \in 0..(now + 2) /\ Times = 0..(now + 1)
      BY <1>1, <2>1, Ticked DEF Times
    <2>3. \A z, w \in Times : z < w /\ (\A i \in z..(w - 1) : Minute(i) # m) => x[w] = x[z]
      BY <2>1 DEF Punctual
    <2>4. CASE u # now + 2
      <3>1. t \in Times /\ u \in Times
        BY <1>1, <1>4, <2>2, <2>4
      <3> QED
        BY <1>4, <2>1, <2>2, <2>3, <3>1
    <2>5. CASE u = now + 2 /\ t = now + 1
      <3>1. now + 1 \in Times
        BY <1>1, <2>2
      <3> QED
        BY <2>1, <2>2, <2>5, <3>1
    <2>6. CASE u = now + 2 /\ t # now + 1
      <3>1. t \in Times /\ now + 1 \in Times /\ t < now + 1
        BY <1>1, <1>4, <2>2, <2>6
      <3>2. \A i \in t..((now + 1) - 1) : i \in t..(u - 1)
        BY <1>1, <2>2, <2>6
      <3>3. x[now + 1] = x[t]
        BY <1>4, <2>3, <3>1, <3>2
      <3> QED
        BY <2>1, <2>2, <2>6, <3>1, <3>3
    <2> QED
      BY <2>4, <2>5, <2>6
  <1> QED
    BY <1>2, <1>3, <1>4 DEF Punctual

LEMMA PunctualAfterCount ==
    ASSUME TypeOK, Punctual, now' = now,
           \A r \in Requests : req'[r].pc = "count" => req'[r].read = now,
           NEW a \in Addresses, NEW m \in Minutes, m = Minute(now),
           counter'[a][m].exp = now + Period,
           \A b \in Addresses, n \in Minutes : b # a \/ n # m =>
             /\ counter'[b][n] = counter[b][n]
             /\ \A t \in Times : admitted'[b][n][t] = admitted[b][n][t],
           \A t \in Times : t # now + 1 => admitted'[a][m][t] = admitted[a][m][t]
    PROVE  Punctual'
  <1>1. now \in Nat /\ Times' = Times /\ Times = 0..(now + 1)
    BY Numbers DEF Times
  <1>2. ASSUME NEW b \in Addresses, NEW n \in Minutes
        PROVE  counter'[b][n].exp = 0 \/ \E t \in 0..now' :
                 counter'[b][n].exp = t + Period /\ Minute(t) = n
    <2>1. CASE b = a /\ n = m
      <3>1. now \in 0..now' /\ counter'[b][n].exp = now + Period /\ Minute(now) = n
        BY <1>1, <2>1
      <3> QED
        BY <3>1
    <2>2. CASE b # a \/ n # m
      BY <2>2 DEF Punctual
    <2> QED
      BY <2>1, <2>2
  <1>3. ASSUME NEW b \in Addresses, NEW n \in Minutes, NEW t \in Times', NEW u \in Times',
               t < u, \A x \in t..(u - 1) : Minute(x) # n
        PROVE  admitted'[b][n][u] = admitted'[b][n][t]
    <2>1. t \in Times /\ u \in Times
      BY <1>1, <1>3
    <2>2. admitted[b][n][u] = admitted[b][n][t]
      BY <1>3, <2>1 DEF Punctual
    <2>3. CASE b # a \/ n # m
      BY <2>1, <2>2, <2>3
    <2>4. CASE b = a /\ n = m
      <3>1. now \notin t..(u - 1)
        BY <1>3, <2>4
      <3>2. u # now + 1 /\ t # now + 1
        BY <1>1, <1>3, <2>1, <3>1
      <3> QED
        BY <2>1, <2>2, <2>4, <3>2
    <2> QED
      BY <2>3, <2>4
  <1> QED
    BY <1>2, <1>3 DEF Punctual

LEMMA CallsStep ==
    ASSUME TypeOK, Punctual, NEW r \in Requests,
           \/ \E a \in Addresses : Call(r, a)
           \/ ReadClock(r) \/ CountFails(r) \/ CountLost(r) \/ Decide(r),
           NEW q \in Requests, req'[q].pc = "count"
    PROVE  req'[q].read = now
  <1>1. req[q].pc = "count" => req[q].read = now
    BY DEF Punctual
  <1>2. req \in [Requests -> [pc : {"idle", "read", "count"},
                              address : Addresses \cup {Null}, read : Nat]]
    BY DEF TypeOK
  <1>3. ASSUME NEW a \in Addresses, Call(r, a) PROVE req'[q] = req[q]
    BY <1>2, <1>3 DEF Call
  <1>4. CASE ReadClock(r)
    BY <1>1, <1>2, <1>4 DEF ReadClock
  <1>5. CASE CountFails(r) \/ CountLost(r)
    BY <1>1, <1>2, <1>5 DEF CountFails, CountLost
  <1>6. CASE Decide(r)
    BY <1>1, <1>2, <1>6 DEF Decide, NoRequest
  <1> QED
    BY <1>1, <1>3, <1>4, <1>5, <1>6

LEMMA PunctualStep ==
    ASSUME TypeOK, MaxLag = 0, Punctual, [Next]_vars
    PROVE  Punctual'
  <1>1. CASE Tick
    BY <1>1, PunctualAfterTick
  <1>2. ASSUME NEW r \in Requests, CountLost(r) \/ Decide(r) PROVE Punctual'
    <2>1. req[r].read = now /\ now' = now /\ CountCall(r)
      BY <1>2 DEF CountLost, Decide, CountCall, Punctual
    <2>2. PICK a \in Addresses, m \in Minutes : a = req[r].address /\ m = Minute(req[r].read)
      BY <2>1, CountedKey DEF CountCall
    <2>3. /\ counter'[a][m].exp = now + Period
          /\ \A b \in Addresses, n \in Minutes :
               b # a \/ n # m => counter'[b][n] = counter[b][n]
      <3>1. /\ counter'[a][m] = [count |-> Value(counter[a][m]) + 1, exp |-> now + Period]
            /\ \A b \in Addresses, n \in Minutes :
                 b # a \/ n # m => counter'[b][n] = counter[b][n]
        BY <2>1, <2>2, Counted
      <3> QED
        BY <3>1
    <2>4. \A b \in Addresses, n \in Minutes, t \in Times :
             b # a \/ n # m \/ t # now + 1 => admitted'[b][n][t] = admitted[b][n][t]
      <3>1. CASE CountLost(r)
        BY <3>1 DEF CountLost
      <3>2. CASE Decide(r)
        <4>1. \A t \in Times : t \in 0..(MaxNow + 1)
          BY Numbers DEF Times
        <4>2. \A b \in Addresses, n \in Minutes, t \in 0..(MaxNow + 1) :
               b # a \/ n # m \/ t # now + 1 => admitted'[b][n][t] = admitted[b][n][t]
          BY <2>2, <3>2, Decided
        <4> QED
          BY <4>1, <4>2
      <3> QED
        BY <1>2, <3>1, <3>2
    <2>5. \A q \in Requests : req'[q].pc = "count" => req'[q].read = now
      BY <1>2, CallsStep
    <2>6. m = Minute(now)
      BY <2>1, <2>2
    <2> QED
      BY <2>1, <2>3, <2>4, <2>5, <2>6, PunctualAfterCount
  <1>3. ASSUME UNCHANGED <<now, counter, admitted>>,
               \A q \in Requests : req'[q].pc = "count" => req'[q].read = now
        PROVE  Punctual'
    BY <1>3 DEF Punctual, Times
  <1>4. ASSUME NEW r \in Requests,
               (\E a \in Addresses : Call(r, a)) \/ ReadClock(r) \/ CountFails(r)
        PROVE  Punctual'
    <2>1. \A q \in Requests : req'[q].pc = "count" => req'[q].read = now
      BY <1>4, CallsStep
    <2>2. UNCHANGED <<now, counter, admitted>>
      BY <1>4 DEF Call, ReadClock, CountFails
    <2> QED
      BY <1>3, <2>1, <2>2
  <1>5. CASE UNCHANGED vars
    BY <1>5 DEF vars, Punctual, Times
  <1> QED
    BY <1>1, <1>2, <1>4, <1>5 DEF Next

(***************************************************************************)
(* The theorems.                                                           *)
(***************************************************************************)

LEMMA RateInvInit == Init => RateInv
  <1> SUFFICES ASSUME Init PROVE RateInv
    OBVIOUS
  <1>1. TypeOK
    BY TypeInit
  <1>2. /\ now = 0 /\ Times = 0..1 /\ Period \in Nat /\ Limit \in Nat /\ MaxNow \in Nat
        /\ \A a \in Addresses, m \in Minutes :
             /\ counter[a][m].exp = 0 /\ counter[a][m].count = 0
             /\ \A t \in Times : admitted[a][m][t] = 0
        /\ \A r \in Requests : req[r].pc = "idle"
    BY RateAssumption DEF Init, Times, NoRequest
  <1>3. \A a \in Addresses, m \in Minutes : Covered(a, m)
    BY <1>2 DEF Covered
  <1>4. KeyLimit
    BY <1>2 DEF KeyLimit
  <1>5. Punctual
    BY <1>2 DEF Punctual
  <1> QED
    BY <1>1, <1>3, <1>4, <1>5 DEF RateInv

\* Every reachable state of the limiter satisfies its inductive invariant:
\* counters cover what they let through, however late calls are counted.
THEOREM RateInvariant == Spec => []RateInv
  <1>1. ASSUME RateInv, [Next]_vars PROVE RateInv'
    <2>1. TypeOK'
      BY <1>1, TypeStep DEF RateInv
    <2>2. KeyLimit' /\ \A a \in Addresses, m \in Minutes : Covered(a, m)'
      BY <1>1, <2>1, KeysStep DEF RateInv
    <2>3. MaxLag = 0 => Punctual'
      BY <1>1, PunctualStep DEF RateInv
    <2> QED
      BY <2>1, <2>2, <2>3 DEF RateInv
  <1> QED
    BY RateInvInit, <1>1, PTL DEF Spec

\* Counters, calls and answers keep their shapes.
THEOREM TypeCorrect == Spec => []TypeOK
  <1>1. RateInv => TypeOK
    BY DEF RateInv
  <1> QED
    BY RateInvariant, <1>1, PTL

\* Under one key no more than requests_limit calls of an address reach the
\* view in a span of a minute: whatever the retries of backoff count again,
\* whenever the lifetime of the key ends, however late the counts arrive.
THEOREM KeysLimited == Spec => []KeyLimit
  <1>1. RateInv => KeyLimit
    BY DEF RateInv
  <1> QED
    BY RateInvariant, <1>1, PTL

\* The instants of a span as long as a minute belong to two minutes.
LEMMA TwoMinutes ==
    ASSUME NEW t \in Nat, NEW x \in Nat, t <= x, x < t + Period
    PROVE  Minute(x) \in {Minute(t), Minute(t + Period)}
  <1>1. Period \in Nat /\ Period >= 1
    BY RateAssumption
  <1>2. PICK k \in Nat, y \in 0..(Period - 1) : t = k * Period + y /\ t \div Period = k
    BY Division
  <1>3. PICK p : p = k * Period
    OBVIOUS
  <1>4. p \in Nat /\ (k + 1) * Period = p + Period /\ ((k + 1) + 1) * Period = p + 2 * Period
    BY <1>1, <1>3
  <1>5. (t + Period) \div Period = k + 1
    <2>1. (k + 1) * Period <= t + Period /\ t + Period < ((k + 1) + 1) * Period
      BY <1>1, <1>2, <1>3, <1>4
    <2> QED
      BY <1>1, <2>1, DivisionUnique
  <1>6. CASE x < (k + 1) * Period
    <2>1. k * Period <= x
      BY <1>1, <1>2, <1>3, <1>4
    <2>2. x \div Period = k
      BY <1>6, <2>1, DivisionUnique
    <2> QED
      BY <1>2, <2>2 DEF Minute
  <1>7. CASE ~(x < (k + 1) * Period)
    <2>1. (k + 1) * Period <= x /\ x < ((k + 1) + 1) * Period
      BY <1>1, <1>2, <1>3, <1>4, <1>7
    <2>2. x \div Period = k + 1
      BY <2>1, DivisionUnique
    <2> QED
      BY <1>5, <2>2 DEF Minute
  <1> QED
    BY <1>6, <1>7

\* If calls are counted in the minute in which they read the clock, at most
\* twice requests_limit calls of an address reach the view in any minute.
THEOREM AtMostTwice == ASSUME MaxLag = 0 PROVE Spec => []TwiceTheLimit
  <1>1. ASSUME RateInv PROVE TwiceTheLimit
    <2>1. TypeOK /\ KeyLimit /\ Punctual
      BY <1>1 DEF RateInv
    <2>2. ASSUME NEW a \in Addresses, NEW t \in Times, NEW u \in Times,
                 t <= u, u <= t + Period
          PROVE  \E i, j \in Minutes : \A m \in Minutes \ {i, j} :
                   admitted[a][m][u] = admitted[a][m][t]
      <3>1. t \in Nat /\ u \in Nat /\ t + Period \in Nat /\ Period \in Nat
        BY <2>1, Numbers DEF Times
      <3>2. Minute(t) \in Minutes /\ Minute(t + Period) \in Minutes
        BY <3>1, MinuteType
      <3>3. ASSUME NEW m \in Minutes \ {Minute(t), Minute(t + Period)}
            PROVE  admitted[a][m][u] = admitted[a][m][t]
        <4>1. \A x \in t..(u - 1) : Minute(x) # m
          <5> SUFFICES ASSUME NEW x \in t..(u - 1) PROVE Minute(x) # m
            OBVIOUS
          <5>1. x \in Nat /\ t <= x /\ x < t + Period
            BY <2>2, <3>1
          <5> QED
            BY <3>1, <3>3, <5>1, TwoMinutes
        <4>2. CASE t < u
          BY <2>1, <4>1, <4>2 DEF Punctual
        <4> QED
          BY <2>2, <3>1, <4>2
      <3> QED
        BY <3>2, <3>3
    <2> QED
      BY <2>1, <2>2 DEF TwiceTheLimit
  <1> QED
    BY RateInvariant, <1>1, PTL

(***************************************************************************)
(* RateLimit implements FixedWindow.                                       *)
(***************************************************************************)

\* A key that is alive when its minute is on the clock was set in it, since
\* the minutes of two successive windows differ.
LEMMA SetInThisMinute ==
    ASSUME NEW n \in Nat, NEW t \in Nat, t <= n, n < t + Period, Minute(t) = Minute(n)
    PROVE  t \div Period = n \div Period
  <1>1. Period \in Nat /\ Period >= 1
    BY RateAssumption
  <1>2. PICK k \in Nat, y \in 0..(Period - 1) : t = k * Period + y /\ t \div Period = k
    BY Division
  <1>3. PICK p : p = k * Period
    OBVIOUS
  <1>4. p \in Nat /\ (k + 1) * Period = p + Period /\ ((k + 1) + 1) * Period = p + 2 * Period
    BY <1>1, <1>3
  <1>5. CASE n < (k + 1) * Period
    <2>1. k * Period <= n
      BY <1>1, <1>2, <1>3, <1>4
    <2> QED
      BY <1>2, <1>5, <2>1, DivisionUnique
  <1>6. CASE ~(n < (k + 1) * Period)
    <2>1. (k + 1) * Period <= n /\ n < ((k + 1) + 1) * Period
      BY <1>1, <1>2, <1>3, <1>4, <1>6
    <2>2. n \div Period = k + 1
      BY <2>1, DivisionUnique
    <2> QED
      BY <1>2, <2>2, NextMinuteDiffers DEF Minute
  <1> QED
    BY <1>5, <1>6

\* Calls counted in the current minute, as FixedWindow sees them.
LEMMA UsedAfterTick ==
    ASSUME TypeOK, MaxLag = 0, Punctual, Tick
    PROVE  \/ \A a \in Addresses :
                Value(counter[a][Minute(now)])' = Value(counter[a][Minute(now)])
           \/ \A a \in Addresses : Value(counter[a][Minute(now)])' = 0
  <1>1. /\ now \in Nat /\ now' = now + 1 /\ counter' = counter
        /\ Period \in Nat /\ Period >= 1
    BY Numbers DEF Tick
  <1>2. PICK k \in Nat, y \in 0..(Period - 1) : now = k * Period + y /\ now \div Period = k
    BY <1>1, Division
  <1>3. PICK p : p = k * Period
    OBVIOUS
  <1>4. p \in Nat /\ (k + 1) * Period = p + Period /\ ((k + 1) + 1) * Period = p + 2 * Period
    BY <1>1, <1>3
  <1>5. \A a \in Addresses, m \in Minutes : counter[a][m].exp \in Nat
    BY Numbers
  <1>6. ASSUME NEW a \in Addresses, NEW m \in Minutes, m = Minute(now),
               now < counter[a][m].exp
        PROVE  counter[a][m].exp >= p + Period
    <2>1. counter[a][m].exp # 0
      BY <1>1, <1>6
    <2>2. PICK t \in 0..now : counter[a][m].exp = t + Period /\ Minute(t) = m
      BY <2>1 DEF Punctual
    <2>3. t \div Period = k
      BY <1>1, <1>2, <1>6, <2>2, SetInThisMinute
    <2>4. PICK z \in 0..(Period - 1) : t = k * Period + z
      BY <1>1, <2>2, <2>3, Division
    <2> QED
      BY <1>1, <1>3, <1>4, <2>2, <2>4
  <1>7. CASE now + 1 < (k + 1) * Period
    <2>1. (now + 1) \div Period = k
      <3>1. k * Period <= now + 1
        BY <1>1, <1>2, <1>3, <1>4
      <3> QED
        BY <1>1, <1>7, <3>1, DivisionUnique
    <2>2. Minute(now') = Minute(now)
      BY <1>1, <1>2, <2>1 DEF Minute
    <2>3. Minute(now) \in Minutes
      BY <1>1, MinuteType
    <2>4. \A a \in Addresses, m \in Minutes : m = Minute(now) =>
            (now + 1 < counter[a][m].exp <=> now < counter[a][m].exp)
      BY <1>1, <1>4, <1>5, <1>6, <1>7
    <2>5. \A a \in Addresses, m \in Minutes : m = Minute(now) =>
            Value(counter[a][m])' = Value(counter[a][m])
      BY <1>1, <2>4 DEF Value, Live
    <2> QED
      BY <2>2, <2>3, <2>5
  <1>8. CASE ~(now + 1 < (k + 1) * Period)
    <2>1. now + 1 = p + Period
      BY <1>1, <1>2, <1>3, <1>4, <1>8
    <2>2. (now + 1) \div Period = k + 1
      <3>1. (k + 1) * Period <= now + 1 /\ now + 1 < ((k + 1) + 1) * Period
        BY <1>1, <1>4, <2>1
      <3> QED
        BY <1>1, <3>1, DivisionUnique
    <2>3. PICK m \in Minutes : m = Minute(now')
      BY <1>1, MinuteType
    <2>4. m # Minute(now)
      BY <1>1, <1>2, <2>2, <2>3, NextMinuteDiffers DEF Minute
    <2>5. ASSUME NEW a \in Addresses, now + 1 < counter[a][m].exp PROVE FALSE
      <3>1. counter[a][m].exp # 0
        BY <1>1, <2>5
      <3>2. PICK t \in 0..now : counter[a][m].exp = t + Period /\ Minute(t) = m
        BY <3>1 DEF Punctual
      <3>3. k * Period <= t /\ t < (k + 1) * Period /\ t \in Nat
        BY <1>1, <1>3, <1>4, <2>1, <2>5, <3>2
      <3>4. t \div Period = k
        BY <3>3, DivisionUnique
      <3> QED
        BY <1>2, <2>4, <3>2, <3>4 DEF Minute
    <2>6. \A a \in Addresses : ~(now' < counter'[a][m].exp)
      BY <1>1, <2>5
    <2>7. \A a \in Addresses : Value(counter[a][m])' = 0
      BY <2>3, <2>6 DEF Value, Live
    <2> QED
      BY <2>3, <2>7
  <1> QED
    BY <1>7, <1>8

\* What FixedWindow sees of a count.
LEMMA UsedAfterCount ==
    ASSUME TypeOK, NEW r \in Requests, CountCall(r), req[r].read = now, now' = now
    PROVE  \A b \in Addresses :
             Value(counter[b][Minute(now)])' =
               IF b = req[r].address THEN Value(counter[b][Minute(now)]) + 1
                                     ELSE Value(counter[b][Minute(now)])
  <1>1. PICK a \in Addresses, m \in Minutes : a = req[r].address /\ m = Minute(req[r].read)
    BY CountedKey DEF CountCall
  <1>2. /\ counter'[a][m] = [count |-> Value(counter[a][m]) + 1, exp |-> now + Period]
        /\ \A b \in Addresses, n \in Minutes :
             b # a \/ n # m => counter'[b][n] = counter[b][n]
    BY <1>1, Counted
  <1>3. /\ now \in Nat /\ Period \in Nat /\ Period >= 1
        /\ m = Minute(now) /\ Minute(now)' = m
    BY <1>1, Numbers
  <1>4. Value(counter[a][m])' = Value(counter[a][m]) + 1
    <2>1. counter'[a][m].exp = now + Period /\ counter'[a][m].count = Value(counter[a][m]) + 1
      BY <1>2
    <2>2. now' < counter'[a][m].exp
      BY <1>3, <2>1
    <2> QED
      BY <1>3, <2>1, <2>2 DEF Value, Live
  <1>5. \A b \in Addresses : b # a => Value(counter[b][m])' = Value(counter[b][m])
    BY <1>2, <1>3 DEF Value, Live
  <1> QED
    BY <1>1, <1>3, <1>4, <1>5

LEMMA WindowInit == Init => Window!Init
  <1> SUFFICES ASSUME Init PROVE Window!Init
    OBVIOUS
  <1>1. Minute(now) \in Minutes
    BY MinuteType DEF Init
  <1>2. \A a \in Addresses : Value(counter[a][Minute(now)]) = 0
    BY <1>1 DEF Init, Value, Live
  <1> QED
    BY <1>2 DEF Init, NoRequest, Window!Init

LEMMA WindowStep ==
    ASSUME TypeOK, MaxLag = 0, Punctual, [Next]_vars
    PROVE  [Window!Next]_Window!vars
  <1>0. /\ req \in [Requests -> [pc : {"idle", "read", "count"},
                                 address : Addresses \cup {Null}, read : Nat]]
        /\ verdict \in [Requests -> {"admitted", "refused", Null}]
        /\ Null \notin Addresses
    BY RateAssumption DEF TypeOK
  <1>1. CASE Tick
    <2>1. UNCHANGED <<req, verdict>>
      BY <1>1 DEF Tick
    <2>2. CASE \A a \in Addresses :
                 Value(counter[a][Minute(now)])' = Value(counter[a][Minute(now)])
      BY <2>1, <2>2 DEF Window!vars
    <2>3. CASE \A a \in Addresses : Value(counter[a][Minute(now)])' = 0
      BY <2>1, <2>3 DEF Window!Next, Window!NewWindow
    <2> QED
      BY <1>1, <2>2, <2>3, UsedAfterTick
  <1>2. ASSUME NEW r \in Requests, NEW a \in Addresses, Call(r, a)
        PROVE  Window!Call(r, a)
    <2>1. UNCHANGED <<now, counter>> /\ req[r].address = Null
      BY <1>2 DEF Call, TypeOK
    <2> QED
      BY <1>0, <1>2, <2>1 DEF Call, Window!Call, Value, Live
  <1>3. ASSUME NEW r \in Requests, ReadClock(r) \/ CountFails(r)
        PROVE  UNCHANGED Window!vars
    <2>1. UNCHANGED <<now, counter, verdict>>
      BY <1>3 DEF ReadClock, CountFails
    <2>2. \A q \in Requests : req'[q].address = req[q].address
      BY <1>0, <1>3 DEF ReadClock, CountFails
    <2> QED
      BY <2>1, <2>2 DEF Window!vars, Value, Live
  <1>4. ASSUME NEW r \in Requests, CountLost(r)
        PROVE  Window!Count(req[r].address)
    <2>1. \A b \in Addresses :
            Value(counter[b][Minute(now)])' =
              IF b = req[r].address THEN Value(counter[b][Minute(now)]) + 1
                                    ELSE Value(counter[b][Minute(now)])
      BY <1>4, UsedAfterCount DEF CountLost, CountCall, Punctual
    <2>2. verdict' = verdict /\ \A q \in Requests : req'[q].address = req[q].address
      BY <1>0, <1>4 DEF CountLost
    <2> QED
      BY <2>1, <2>2 DEF Window!Count
  <1>5. ASSUME NEW r \in Requests, Decide(r)
        PROVE  Window!Decide(r)
    <2>1. PICK a \in Addresses, m \in Minutes :
            a = req[r].address /\ m = Minute(req[r].read) /\ m = Minute(now)
      BY <1>5, CountedKey DEF Decide, CountCall, Punctual
    <2>2. \A b \in Addresses :
            Value(counter[b][Minute(now)])' =
              IF b = a THEN Value(counter[b][Minute(now)]) + 1
                       ELSE Value(counter[b][Minute(now)])
      <3>1. CountCall(r) /\ req[r].read = now /\ now' = now
        BY <1>5 DEF Decide, CountCall, Punctual
      <3> QED
        BY <2>1, <3>1, UsedAfterCount
    <2>3. Value(counter[a][m]) \in Nat /\ Limit \in Nat
      BY RateAssumption, ValueType
    <2>4. Limited(Value(counter[a][m]) + 1) <=> ~(Value(counter[a][m]) < Limit)
      BY <2>3 DEF Limited
    <2>5. verdict' = [verdict EXCEPT ![r] =
            IF Value(counter[a][m]) < Limit THEN "admitted" ELSE "refused"]
      BY <1>0, <1>5, <2>1, <2>4 DEF Decide
    <2>6. \A q \in Requests : req'[q].address = IF q = r THEN Null ELSE req[q].address
      BY <1>0, <1>5 DEF Decide, NoRequest
    <2> QED
      BY <1>0, <2>1, <2>2, <2>5, <2>6 DEF Window!Decide
  <1>6. CASE UNCHANGED vars
    BY <1>6 DEF vars, Window!vars, Value, Live
  <1>7. ASSUME NEW r \in Requests, CountLost(r) PROVE req[r].address \in Addresses
    BY <1>7, CountedKey DEF CountLost, CountCall
  <1> QED
    BY <1>1, <1>2, <1>3, <1>4, <1>5, <1>6, <1>7 DEF Next, Window!Next

\* If calls are counted in the minute in which they read the clock, the
\* limiter implements a fixed window counter: the reuse of the keys after an
\* hour, their lifetimes and the failures of Redis do not show.
THEOREM ImplementsFixedWindow == ASSUME MaxLag = 0 PROVE Spec => WindowSpec
  <1>1. ASSUME RateInv, [Next]_vars PROVE [Window!Next]_Window!vars
    BY <1>1, WindowStep DEF RateInv
  <1> QED
    BY RateInvariant, WindowInit, <1>1, PTL DEF Spec, WindowSpec, Window!Spec

=============================================================================
