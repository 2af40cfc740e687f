---------------------------- MODULE FixedWindow ----------------------------
(***************************************************************************)
(* What a rate limiter with fixed windows promises: in every window it     *)
(* counts the calls of an address and admits them until Limit is reached.  *)
(* A call may be counted more than once, when the limiter loses the answer *)
(* of its counter, but it is never decided without having been counted.    *)
(***************************************************************************)
EXTENDS Naturals

CONSTANTS Addresses, Requests, Limit, Null

VARIABLES
    used,    \* address -> calls counted in the current window
    caller,  \* request -> address it comes from while it is undecided
    verdict  \* request -> "admitted" or "refused", once it is decided

vars == <<used, caller, verdict>>

Init ==
    /\ used = [a \in Addresses |-> 0]
    /\ caller = [r \in Requests |-> Null]
    /\ verdict = [r \in Requests |-> Null]

NewWindow ==
    /\ used' = [a \in Addresses |-> 0]
    /\ UNCHANGED <<caller, verdict>>

Call(r, a) ==
    /\ caller[r] = Null
    /\ caller' = [caller EXCEPT ![r] = a]
    /\ verdict' = [verdict EXCEPT ![r] = Null]
    /\ UNCHANGED used

Count(a) ==
    /\ used' = [used EXCEPT ![a] = @ + 1]
    /\ UNCHANGED <<caller, verdict>>

Decide(r) ==
    /\ caller[r] # Null
    /\ used' = [used EXCEPT ![caller[r]] = @ + 1]
    /\ verdict' = [verdict EXCEPT ![r] =
         IF used[caller[r]] < Limit THEN "admitted" ELSE "refused"]
    /\ caller' = [caller EXCEPT ![r] = Null]

Next ==
    \/ NewWindow
    \/ \E a \in Addresses : Count(a)
    \/ \E r \in Requests : Decide(r) \/ \E a \in Addresses : Call(r, a)

Spec == Init /\ [][Next]_vars
=============================================================================
