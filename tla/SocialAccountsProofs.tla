------------------------ MODULE SocialAccountsProofs ------------------------
(***************************************************************************)
(* What TLAPS proves about SocialAccounts, for every number of social      *)
(* accounts, users, greenlets and restarts.  AccountInv is inductive: only *)
(* FetchUser lets an account claim a user, and the user it finds is        *)
(* claimed by no other.                                                    *)
(***************************************************************************)
EXTENDS SocialAccounts, TLAPS

LEMMA NoRequestType ==
    /\ NoRequest.pc = "idle"
    /\ NoRequest \in [pc : Labels, social : Socials \cup {Null},
                      user : UserIds \cup {Null}, attempts : 0..MaxAttempts]
  BY DEF NoRequest, Labels, MaxAttempts

\* A step that claims nothing new and leaves the logins alone keeps the
\* claims in order, and the new users unclaimed.
LEMMA NoNewClaims ==
    ASSUME AccountInv, TypeOK', RequestsFilled',
           UNCHANGED <<generated, login>>,
           \A s \in Socials, u \in UserIds : Claims(s, u)' => Claims(s, u),
           \A r \in Requests : req'[r].pc = "fetch_user" => req[r].pc = "fetch_user"
    PROVE  AccountInv'
  <1>1. LoginsUnique' /\ Rows' = Rows
    BY DEF AccountInv, LoginsUnique, Rows
  <1>2. NewUserUnclaimed'
    <2> SUFFICES ASSUME NEW r \in Requests, req'[r].pc = "fetch_user"
                 PROVE  /\ \E u \in UserIds : /\ login'[u] = generated'
                                              /\ \A s \in Socials : ~Claims(s, u)'
                        /\ \A q \in Requests : req'[q].pc = "fetch_user" => q = r
      BY DEF NewUserUnclaimed
    <2>1. req[r].pc = "fetch_user"
      OBVIOUS
    <2>2. PICK u \in UserIds : login[u] = generated /\ \A s \in Socials : ~Claims(s, u)
      BY <2>1 DEF AccountInv, NewUserUnclaimed
    <2>3. \A q \in Requests : req'[q].pc = "fetch_user" => q = r
      BY <2>1 DEF AccountInv, NewUserUnclaimed
    <2> QED
      BY <2>2, <2>3
  <1>3. \A u \in UserIds, s, t \in Socials : Claims(s, u)' /\ Claims(t, u)' => s = t
    BY DEF AccountInv
  <1>4. \A u \in UserIds, s \in Socials : Claims(s, u)' => u \in Rows'
    BY <1>1 DEF AccountInv
  <1> QED
    BY <1>1, <1>2, <1>3, <1>4 DEF AccountInv

-----------------------------------------------------------------------------
(* The steps.                                                              *)

LEMMA InitInv == Init => AccountInv
  BY NoRequestType, NullAssumption
  DEF Init, AccountInv, TypeOK, RequestsFilled, LoginsUnique, NewUserUnclaimed,
      Claims, Holding, Rows, Logins

LEMMA LoginInv ==
    ASSUME AccountInv, NEW r \in Requests, NEW s \in Socials,
           LoginViaSocialProvider(r, s)
    PROVE  AccountInv'
  <1> USE DEF LoginViaSocialProvider
  <1>1. TypeOK'
    BY DEF AccountInv, TypeOK, Labels, MaxAttempts
  <1>2. RequestsFilled'
    BY DEF AccountInv, TypeOK, RequestsFilled, Holding
  <1>3. \A t \in Socials, u \in UserIds : Claims(t, u)' => Claims(t, u)
    BY DEF AccountInv, TypeOK, Claims, Holding
  <1>4. \A q \in Requests : req'[q].pc = "fetch_user" => req[q].pc = "fetch_user"
    BY DEF AccountInv, TypeOK
  <1> QED
    BY <1>1, <1>2, <1>3, <1>4, NoNewClaims

LEMMA GetUserInv ==
    ASSUME AccountInv, NEW r \in Requests, GetUser(r)
    PROVE  AccountInv'
  <1> USE DEF GetUser, Goto, Refuse
  <1>1. TypeOK'
    BY NoRequestType DEF AccountInv, TypeOK, RequestsFilled, Labels
  <1>2. RequestsFilled'
    BY NoRequestType DEF AccountInv, TypeOK, RequestsFilled, Holding
  <1>3. \A t \in Socials, u \in UserIds : Claims(t, u)' => Claims(t, u)
    BY NoRequestType DEF AccountInv, TypeOK, Claims, Holding
  <1>4. \A q \in Requests : req'[q].pc = "fetch_user" => req[q].pc = "fetch_user"
    BY NoRequestType DEF AccountInv, TypeOK
  <1> QED
    BY <1>1, <1>2, <1>3, <1>4, NoNewClaims

LEMMA CreateUserInv ==
    ASSUME AccountInv, NEW r \in Requests, CreateUser(r)
    PROVE  AccountInv'
  <1> USE DEF CreateUser, Goto, Refuse
  <1>1. CASE Taken(generated)
    <2>1. TypeOK'
      BY <1>1, NoRequestType DEF AccountInv, TypeOK, RequestsFilled, Labels, MaxAttempts
    <2>2. RequestsFilled'
      BY <1>1, NoRequestType DEF AccountInv, TypeOK, RequestsFilled, Holding
    <2>3. \A t \in Socials, u \in UserIds : Claims(t, u)' => Claims(t, u)
      BY <1>1, NoRequestType DEF AccountInv, TypeOK, Claims, Holding
    <2>4. \A q \in Requests : req'[q].pc = "fetch_user" => req[q].pc = "fetch_user"
      BY <1>1, NoRequestType DEF AccountInv, TypeOK
    <2> QED
      BY <1>1, <2>1, <2>2, <2>3, <2>4, NoNewClaims
  <1>2. CASE ~Taken(generated)
    <2>1. PICK u \in UserIds \ Rows : login' = [login EXCEPT ![u] = generated]
      BY <1>2
    <2>2. TypeOK'
      <3>1. /\ req' = [req EXCEPT ![r].pc = "fetch_user"]
            /\ UNCHANGED <<generated, drawn, social_account, sessions, refused>>
        BY <1>2
      <3>2. req' \in [Requests -> [pc : Labels, social : Socials \cup {Null},
                                  user : UserIds \cup {Null},
                                  attempts : 0..MaxAttempts]]
        BY <3>1 DEF AccountInv, TypeOK, Labels
      <3>3. login' \in [UserIds -> Logins \cup {Null}]
        BY <2>1 DEF AccountInv, TypeOK, Logins
      <3> QED
        BY <3>1, <3>2, <3>3 DEF AccountInv, TypeOK
    <2>3. RequestsFilled'
      BY <1>2 DEF AccountInv, TypeOK, RequestsFilled, Holding
    <2>4. generated # Null /\ login[u] = Null
      BY NullAssumption DEF AccountInv, TypeOK, Rows
    <2>5. \A v \in UserIds : login[v] # generated
      BY <1>2 DEF Taken, Owners
    <2>6. LoginsUnique'
      BY <2>1, <2>5 DEF AccountInv, TypeOK, LoginsUnique
    <2>7. \A t \in Socials, v \in UserIds : Claims(t, v)' => Claims(t, v)
      BY <1>2 DEF AccountInv, TypeOK, Claims, Holding
    <2>8. Rows \subseteq Rows'
      BY <2>1, <2>4 DEF Rows, AccountInv, TypeOK
    <2>9. \A q \in Requests : req[q].pc # "fetch_user"
      BY <2>5 DEF AccountInv, NewUserUnclaimed
    <2>10. NewUserUnclaimed'
      <3>1. \A q \in Requests : req'[q].pc = "fetch_user" => q = r
        BY <1>2, <2>9 DEF AccountInv, TypeOK
      <3>2. login'[u] = generated' /\ \A s \in Socials : ~Claims(s, u)'
        BY <2>1, <2>7 DEF AccountInv, TypeOK
      <3> QED
        BY <3>1, <3>2 DEF NewUserUnclaimed
    <2> QED
      BY <2>2, <2>3, <2>6, <2>7, <2>8, <2>10 DEF AccountInv
  <1> QED
    BY <1>1, <1>2

\* The user that is read back is the one that was created, and no account
\* claims it but the one of this request.
LEMMA FetchUserInv ==
    ASSUME AccountInv, NEW r \in Requests, FetchUser(r)
    PROVE  AccountInv'
  <1> USE DEF FetchUser
  <1>1. PICK u \in UserIds : login[u] = generated /\ \A s \in Socials : ~Claims(s, u)
    BY DEF AccountInv, NewUserUnclaimed
  <1>2. generated # Null
    BY NullAssumption DEF AccountInv, TypeOK
  <1>3. Owners(generated) = {u}
    BY <1>1, <1>2 DEF Owners, AccountInv, LoginsUnique
  <1>4. /\ req' = [req EXCEPT ![r].pc = "create_account", ![r].user = u]
        /\ UNCHANGED <<generated, drawn, login, social_account, sessions, refused>>
    BY <1>3
  <1>5. req[r].pc = "fetch_user" /\ req[r].social \in Socials
    BY DEF AccountInv, RequestsFilled
  <1> HIDE DEF FetchUser
  <1>6. TypeOK'
    BY <1>4 DEF AccountInv, TypeOK, Labels
  <1>7. RequestsFilled'
    BY <1>4, <1>5 DEF AccountInv, TypeOK, RequestsFilled, Holding
  <1>8. \A t \in Socials, v \in UserIds :
            Claims(t, v)' => Claims(t, v) \/ (t = req[r].social /\ v = u)
    BY <1>4 DEF AccountInv, TypeOK, Claims, Holding
  <1>9. LoginsUnique' /\ Rows' = Rows /\ u \in Rows
    BY <1>1, <1>2, <1>4 DEF AccountInv, LoginsUnique, Rows
  <1>10. NewUserUnclaimed'
    <2>1. \A q \in Requests : req'[q].pc # "fetch_user"
      BY <1>4, <1>5 DEF AccountInv, TypeOK, NewUserUnclaimed
    <2> QED
      BY <2>1 DEF NewUserUnclaimed
  <1>11. \A v \in UserIds, s, t \in Socials : Claims(s, v)' /\ Claims(t, v)' => s = t
    BY <1>1, <1>8 DEF AccountInv
  <1>12. \A v \in UserIds, s \in Socials : Claims(s, v)' => v \in Rows'
    BY <1>8, <1>9 DEF AccountInv
  <1> QED
    BY <1>6, <1>7, <1>9, <1>10, <1>11, <1>12 DEF AccountInv

LEMMA CreateSocialAccountInv ==
    ASSUME AccountInv, NEW r \in Requests, CreateSocialAccount(r)
    PROVE  AccountInv'
  <1> USE DEF CreateSocialAccount, Goto
  <1>1. req[r].social \in Socials /\ req[r].user \in UserIds
    BY DEF AccountInv, RequestsFilled, Holding
  <1>2. TypeOK'
    BY <1>1 DEF AccountInv, TypeOK, Labels, Linked
  <1>3. RequestsFilled'
    BY DEF AccountInv, TypeOK, RequestsFilled, Holding
  <1>4. \A t \in Socials, u \in UserIds : Claims(t, u)' => Claims(t, u)
    BY <1>1 DEF AccountInv, TypeOK, Claims, Holding, Linked
  <1>5. \A q \in Requests : req'[q].pc = "fetch_user" => req[q].pc = "fetch_user"
    BY DEF AccountInv, TypeOK
  <1> QED
    BY <1>2, <1>3, <1>4, <1>5, NoNewClaims

LEMMA AnswerInv ==
    ASSUME AccountInv, NEW r \in Requests, Answer(r)
    PROVE  AccountInv'
  <1> USE DEF Answer
  <1>1. req[r].social \in Socials /\ req[r].user \in UserIds
    BY DEF AccountInv, RequestsFilled, Holding
  <1>2. TypeOK'
    BY <1>1, NoRequestType DEF AccountInv, TypeOK
  <1>3. RequestsFilled'
    BY NoRequestType DEF AccountInv, TypeOK, RequestsFilled, Holding
  <1>4. \A t \in Socials, u \in UserIds : Claims(t, u)' => Claims(t, u)
    BY <1>1, NoRequestType DEF AccountInv, TypeOK, Claims, Holding
  <1>5. \A q \in Requests : req'[q].pc = "fetch_user" => req[q].pc = "fetch_user"
    BY NoRequestType DEF AccountInv, TypeOK
  <1> QED
    BY <1>2, <1>3, <1>4, <1>5, NoNewClaims

LEMMA RevokeBeforeDeleteInv ==
    ASSUME AccountInv, NEW r \in Requests, NEW s \in Socials, NEW u \in UserIds,
           RevokeBeforeDelete(r, s, u)
    PROVE  AccountInv'
  <1> USE DEF RevokeBeforeDelete
  <1>1. TypeOK'
    BY DEF AccountInv, TypeOK, Labels, MaxAttempts
  <1>2. RequestsFilled'
    BY DEF AccountInv, TypeOK, RequestsFilled, Holding
  <1>3. \A t \in Socials, v \in UserIds : Claims(t, v)' => Claims(t, v)
    BY DEF AccountInv, TypeOK, Claims, Holding
  <1>4. \A q \in Requests : req'[q].pc = "fetch_user" => req[q].pc = "fetch_user"
    BY DEF AccountInv, TypeOK
  <1> QED
    BY <1>1, <1>2, <1>3, <1>4, NoNewClaims

LEMMA DeleteSocialAccountInv ==
    ASSUME AccountInv, NEW r \in Requests, DeleteSocialAccount(r)
    PROVE  AccountInv'
  <1> USE DEF DeleteSocialAccount
  <1>1. TypeOK'
    BY NoRequestType DEF AccountInv, TypeOK
  <1>2. RequestsFilled'
    BY NoRequestType DEF AccountInv, TypeOK, RequestsFilled, Holding
  <1>3. Null \notin UserIds
    BY NullAssumption
  <1>4. \A t \in Socials, v \in UserIds : Claims(t, v)' => Claims(t, v)
    BY <1>3, NoRequestType DEF AccountInv, TypeOK, Claims, Holding
  <1>5. \A q \in Requests : req'[q].pc = "fetch_user" => req[q].pc = "fetch_user"
    BY NoRequestType DEF AccountInv, TypeOK
  <1> QED
    BY <1>1, <1>2, <1>4, <1>5, NoNewClaims

\* Only a claimed user renames himself, which a new user is not.
LEMMA ChangeLoginInv ==
    ASSUME AccountInv, NEW u \in UserIds, NEW l \in ChosenLogins,
           ChangeLogin(u, l)
    PROVE  AccountInv'
  <1> USE DEF ChangeLogin
  <1>1. PICK s \in Socials : Claims(s, u)
    BY DEF Claims
  <1>2. l # generated /\ l # Null /\ \A v \in UserIds : login[v] # l
    BY LoginAssumption, NullAssumption DEF AccountInv, TypeOK, Taken, Owners
  <1>3. TypeOK'
    BY DEF AccountInv, TypeOK, Logins
  <1>4. RequestsFilled'
    BY DEF AccountInv, RequestsFilled
  <1>5. LoginsUnique'
    BY <1>2 DEF AccountInv, TypeOK, LoginsUnique
  <1>6. \A t \in Socials, v \in UserIds : Claims(t, v)' <=> Claims(t, v)
    BY DEF Claims
  <1>7. Rows \subseteq Rows'
    BY <1>2 DEF AccountInv, TypeOK, Rows
  <1>8. NewUserUnclaimed'
    <2> SUFFICES ASSUME NEW r \in Requests, req[r].pc = "fetch_user"
                 PROVE  \E v \in UserIds : /\ login'[v] = generated
                                           /\ \A t \in Socials : ~Claims(t, v)
      BY <1>6 DEF AccountInv, NewUserUnclaimed
    <2>1. PICK v \in UserIds : login[v] = generated /\ \A t \in Socials : ~Claims(t, v)
      BY DEF AccountInv, NewUserUnclaimed
    <2>2. v # u
      BY <1>1, <2>1
    <2>3. login'[v] = login[v]
      BY <2>2 DEF AccountInv, TypeOK
    <2> QED
      BY <2>1, <2>3
  <1> QED
    BY <1>3, <1>4, <1>5, <1>6, <1>7, <1>8 DEF AccountInv

LEMMA RestartInv ==
    ASSUME AccountInv, Restart
    PROVE  AccountInv'
  <1> USE DEF Restart
  <1>1. TypeOK'
    BY NoRequestType DEF AccountInv, TypeOK
  <1>2. \A r \in Requests : req'[r].pc = "idle"
    BY NoRequestType
  <1>3. RequestsFilled' /\ NewUserUnclaimed'
    BY <1>2 DEF RequestsFilled, NewUserUnclaimed, Holding
  <1>4. LoginsUnique' /\ Rows' = Rows
    BY DEF AccountInv, LoginsUnique, Rows
  <1>5. \A t \in Socials, v \in UserIds : Claims(t, v)' => Claims(t, v)
    BY <1>2 DEF Claims, Holding
  <1> QED
    BY <1>1, <1>3, <1>4, <1>5 DEF AccountInv

LEMMA NextInv == AccountInv /\ [Next]_vars => AccountInv'
  <1> SUFFICES ASSUME AccountInv, [Next]_vars PROVE AccountInv'
    OBVIOUS
  <1>1. CASE UNCHANGED vars
    BY <1>1 DEF vars, AccountInv, TypeOK, RequestsFilled, LoginsUnique,
                NewUserUnclaimed, Claims, Rows
  <1>2. ASSUME NEW r \in Requests, Arrive(r) PROVE AccountInv'
    BY <1>2, LoginInv, RevokeBeforeDeleteInv DEF Arrive
  <1>3. ASSUME NEW r \in Requests, Serve(r) PROVE AccountInv'
    BY <1>3, GetUserInv, CreateUserInv, FetchUserInv, CreateSocialAccountInv,
       AnswerInv, DeleteSocialAccountInv DEF Serve
  <1> QED
    BY <1>1, <1>2, <1>3, ChangeLoginInv, RestartInv DEF Next

-----------------------------------------------------------------------------
(* The results.                                                            *)

\* The invariant holds in every state of every behaviour.
THEOREM AccountInvariant == Spec => []AccountInv
  BY InitInv, NextInv, PTL DEF Spec

\* Rows, requests and the generated login keep their shapes.
THEOREM TypeCorrect == Spec => []TypeOK
  <1>1. AccountInv => TypeOK
    BY DEF AccountInv
  <1> QED
    BY <1>1, AccountInvariant, PTL

\* However first logins interleave with each other, with renamings and with
\* restarts, no two social accounts are linked to one user.
THEOREM UsersAreNotShared == Spec => []UsersNotShared
  <1>1. AccountInv => UsersNotShared
    BY DEF AccountInv, TypeOK, Claims, UsersNotShared
  <1> QED
    BY <1>1, AccountInvariant, PTL

\* Nor are two of them ever given sessions of one user.
THEOREM SessionsAreNotShared == Spec => []SessionsNotShared
  <1>1. AccountInv => SessionsNotShared
    <2> SUFFICES ASSUME AccountInv, NEW x \in sessions, NEW y \in sessions,
                        x[2] = y[2]
                 PROVE  x[1] = y[1]
      BY DEF SessionsNotShared
    <2>1. /\ x[1] \in Socials /\ y[1] \in Socials /\ x[2] \in UserIds
          /\ x = <<x[1], x[2]>> /\ y = <<y[1], y[2]>>
      BY DEF AccountInv, TypeOK
    <2>2. Claims(x[1], x[2]) /\ Claims(y[1], x[2])
      BY <2>1 DEF Claims
    <2> QED
      BY <2>1, <2>2 DEF AccountInv
  <1> QED
    BY <1>1, AccountInvariant, PTL
=============================================================================
