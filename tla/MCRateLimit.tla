---------------------------- MODULE MCRateLimit ----------------------------
(* Instances of RateLimit for TLC.                                         *)
EXTENDS RateLimit, TLC

\* The greenlets are interchangeable.
MCSymmetry == Permutations(Requests)
=============================================================================
