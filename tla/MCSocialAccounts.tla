-------------------------- MODULE MCSocialAccounts --------------------------
(* Instances of SocialAccounts for TLC.                                    *)
EXTENDS SocialAccounts, TLC

\* Social accounts, rows and greenlets are interchangeable, and so are the
\* random logins and the chosen ones.
MCSymmetry ==
    Permutations(Socials) \cup Permutations(UserIds) \cup
    Permutations(Requests) \cup Permutations(RandomLogins) \cup
    Permutations(ChosenLogins)
=============================================================================
