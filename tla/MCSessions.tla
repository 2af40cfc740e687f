----------------------------- MODULE MCSessions -----------------------------
(* Instances of Sessions for TLC.                                          *)
EXTENDS Sessions, TLC

\* The pairs are interchangeable, and so are the greenlets.
MCSymmetry == Permutations(Ids) \cup Permutations(Requests)
=============================================================================
