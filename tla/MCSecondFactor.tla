--------------------------- MODULE MCSecondFactor ---------------------------
(* Instances of SecondFactor for TLC.                                      *)
EXTENDS SecondFactor, TLC

\* What requests and commands are named by makes no difference.
MCSymmetry ==
    Permutations(Users) \cup Permutations(Requests)
    \cup Permutations(Secrets) \cup Permutations(RequestIds)
=============================================================================
