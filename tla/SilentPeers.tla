---------------------------- MODULE SilentPeers ----------------------------
(***************************************************************************)
(* Backend with peers that may never answer.  Neither the engine of        *)
(* Postgres nor the post to bitly is given a timeout, nor is a connection  *)
(* that the broker blocks: a peer that neither answers nor breaks the      *)
(* connection keeps the request waiting for ever.  What remains to be      *)
(* checked is that nothing else does, above all not backoff, which has no  *)
(* last attempt.                                                           *)
(***************************************************************************)
EXTENDS Backend

VARIABLE silent  \* greenlets whose call in progress will never return

silentVars == <<vars, silent>>

InitSilent == InitBackend /\ silent = {}

\* The peer of the call that g has made falls silent.
FallSilent(g) ==
    /\ req[g].pc # "idle" /\ g \notin silent
    /\ silent' = silent \cup {g}
    /\ UNCHANGED vars

\* Only the death of the worker ends such a request.
CrashSilent ==
    /\ Crash
    /\ silent' = {g \in silent : req'[g].pc # "idle"}

\* The call of g returns, with a result or an error.
Returns(g) ==
    /\ g \notin silent /\ Serve(g)
    /\ UNCHANGED silent

NextSilent ==
    \/ CrashSilent
    \/ \E g \in Greenlets :
          \/ FallSilent(g)
          \/ Returns(g)
          \/ Arrive(g) /\ UNCHANGED silent

\* A call whose peer is not silent returns, and gevent resumes its greenlet; a
\* delay of backoff comes to its end.  Whether a call succeeds is not a matter of
\* fairness, and an operator may leave a command waiting for input.
FairSilentSpec ==
    /\ InitSilent /\ [][NextSilent]_silentVars
    /\ \A g \in Greenlets :
          WF_silentVars(req[g].op \notin Commands /\ Returns(g))
-----------------------------------------------------------------------------

\* Every request is answered in the end, or waits for one call that never
\* returns: however often its calls break, backoff tries again but not for ever,
\* and the silence of one peer leaves the other requests alone.
EveryRequestAnswered ==
    \A g \in Greenlets :
        (req[g].pc # "idle" /\ req[g].op \notin Commands)
        ~> (req[g].pc = "idle" \/ g \in silent)
=============================================================================
