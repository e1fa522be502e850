---------------------------- MODULE Logins_proofs ---------------------------
(***************************************************************************)
(* Any codes, rows and sign-ins.  Each of the three properties rests on    *)
(* what a sign-in saw in an earlier transaction and still holds unless     *)
(* another was in the same place at the same time: the tries of the code   *)
(* it judges (CodeInv), that the address has no active account but ones    *)
(* that came since (ForkInv), that no account is bound to the identity     *)
(* (GoogleInv).                                                            *)
(***************************************************************************)
EXTENDS Logins, TLAPS, FiniteSetTheorems

CodeInv ==
    \A c \in Codes :
        /\ code[c].state = "none" => code[c].tries = 0 /\ Holding(c) = {}
        /\ c \in history.codes => judged[c] = 0 /\ opened[c] = 0
        /\ c \notin history.codes =>
             /\ opened[c] = IF code[c].state = "spent" THEN 1 ELSE 0
             /\ judged[c] = code[c].tries + opened[c]
             /\ \A r \in Holding(c) :
                    /\ code[c].state \in {"open", "expired"}
                    /\ signin[r].tries = code[c].tries
                    /\ \A s \in Holding(c) : s = r

\* A sign-in makes an account where every active one came after its look.
ForkInv ==
    /\ AddressForksForAReason
    /\ \A r \in SignIns : At(r, "create") => Active \subseteq signin[r].missed

GoogleInv ==
    /\ \A a \in Rows : account[a].google => account[a].row # "none"
    /\ \A r \in SignIns : At(r, "bind") => account[signin[r].account].row # "none"
    /\ "raced" \notin history.google =>
           \A r \in ByGoogle : Bound = {} /\ \A s \in ByGoogle : s = r

LoginInv == LoginTypeOK /\ CodeInv /\ ForkInv /\ GoogleInv /\ GoogleFailsForAReason

----------------------------------------------------------------------------
LEMMA InitLogins == LoginInit => LoginInv
<1> SUFFICES ASSUME LoginInit PROVE LoginInv
  OBVIOUS
<1> USE DEF LoginInit
<1>1. LoginTypeOK
  BY LoginsAssumption DEF LoginTypeOK, CodeRows, AccountRows
<1>2. CodeInv
  BY DEF CodeInv, Holding, At, NoSignIn
<1>3. ForkInv /\ GoogleInv /\ GoogleFailsForAReason
  BY DEF ForkInv, AddressForksForAReason, Active, At, NoSignIn, GoogleInv, ByGoogle,
         GoogleFailsForAReason
<1> QED
  BY <1>1, <1>2, <1>3 DEF LoginInv

LEMMA JudgeType ==
    ASSUME LoginTypeOK, NEW r \in SignIns, At(r, "judge")
    PROVE  signin[r].code \in Codes /\ signin[r].tries \in 0..(MaxTries - 1)
  BY DEF LoginTypeOK, At, NoSignIn, SigningIn

LEMMA FoundType ==
    ASSUME NEW r \in SignIns, NEW a \in Rows
    PROVE  /\ Found(r, a) \in {NoSignIn} \cup SigningIn
           /\ Found(r, a).pc = "bind" => signin[r].google /\ Found(r, a).account = a
           /\ Found(r, a).pc \in {"idle", "bind"}
  BY DEF Found, SigningIn, NoSignIn

Histories == [apart : SUBSET (Rows \X Rows), codes : SUBSET Codes,
              google : SUBSET {"raced", "failed"}]

\* What an account that becomes active does to the rest.
LEMMA ActiveType ==
    ASSUME LoginTypeOK, NEW a \in Rows, NEW unlooked \in SUBSET Rows, BecomesActive(a, unlooked)
    PROVE  /\ account' \in [Rows -> AccountRows] /\ history' \in Histories
           /\ account'[a].row = "active" /\ account'[a].google = account[a].google
           /\ \A b \in Rows \ {a} : account'[b] = account[b]
           /\ history'.apart = history.apart \cup {a} \X unlooked
           /\ history'.codes = history.codes /\ history'.google = history.google
           /\ UNCHANGED <<code, judged, opened>>
  BY DEF LoginTypeOK, BecomesActive, AccountRows, Histories

\* What it does to the sign-ins.
LEMMA MissingType ==
    ASSUME LoginTypeOK, NEW a \in Rows
    PROVE  /\ Missing(a) \in [SignIns -> {NoSignIn} \cup SigningIn]
           /\ \A s \in SignIns :
                /\ ~At(s, "create") => Missing(a)[s] = signin[s]
                /\ At(s, "create") => /\ Missing(a)[s].pc = "create"
                                      /\ Missing(a)[s].google = signin[s].google
                                      /\ Missing(a)[s].missed = signin[s].missed \cup {a}
<1> SUFFICES ASSUME NEW s \in SignIns
             PROVE  /\ Missing(a)[s] \in {NoSignIn} \cup SigningIn
                    /\ ~At(s, "create") => Missing(a)[s] = signin[s]
                    /\ At(s, "create") => /\ Missing(a)[s].pc = "create"
                                          /\ Missing(a)[s].google = signin[s].google
                                          /\ Missing(a)[s].missed = signin[s].missed \cup {a}
  BY DEF Missing
<1>1. CASE ~At(s, "create")
  BY <1>1 DEF Missing, LoginTypeOK
<1>2. CASE At(s, "create")
  <2>1. signin[s] \in [pc : {"create"}, google : BOOLEAN, missed : SUBSET Rows]
    BY <1>2 DEF LoginTypeOK, At, SigningIn, NoSignIn
  <2>2. Missing(a)[s] = [signin[s] EXCEPT !.missed = @ \cup {a}]
    BY <1>2 DEF Missing
  <2>3. Missing(a)[s] = [pc |-> "create", google |-> signin[s].google,
                         missed |-> signin[s].missed \cup {a}]
    BY <2>1, <2>2
  <2> QED
    BY <1>2, <2>1, <2>3 DEF SigningIn
<1> QED
  BY <1>1, <1>2

LEMMA MissedType ==
    ASSUME LoginTypeOK, NEW r \in SignIns, At(r, "create") PROVE signin[r].missed \in SUBSET Rows
  BY DEF LoginTypeOK, At, SigningIn, NoSignIn

LEMMA NextLoginType == LoginTypeOK /\ [LoginNext]_loginvars => LoginTypeOK'
<1> SUFFICES ASSUME LoginTypeOK, [LoginNext]_loginvars PROVE LoginTypeOK'
  OBVIOUS
<1> USE LoginsAssumption DEF LoginTypeOK, Histories
<1>1. ASSUME NEW c \in Codes, RequestOtp(c) \/ Lapse(c) PROVE LoginTypeOK'
  BY <1>1 DEF RequestOtp, Lapse, CodeRows
<1>2. ASSUME NEW r \in SignIns, NEW c \in Codes, NEW right \in BOOLEAN, VerifyOtp(r, c, right)
      PROVE  LoginTypeOK'
  <2>1. code[c].tries \in 0..(MaxTries - 1)
    BY <1>2 DEF VerifyOtp, TriesLeft, CodeRows
  <2>2. signin' \in [SignIns -> {NoSignIn} \cup SigningIn]
    BY <1>2, <2>1 DEF VerifyOtp, Goes, SigningIn
  <2>3. history' \in Histories
    BY <1>2 DEF VerifyOtp
  <2>4. judged' \in [Codes -> Nat] /\ opened' \in [Codes -> Nat]
    BY <1>2 DEF VerifyOtp
  <2> QED
    BY <1>2, <2>2, <2>3, <2>4 DEF VerifyOtp
<1>3. ASSUME NEW r \in SignIns, WrongCode(r) PROVE LoginTypeOK'
  <2>1. signin[r].code \in Codes /\ signin[r].tries \in 0..(MaxTries - 1)
    BY <1>3, JudgeType DEF WrongCode
  <2>2. signin[r].tries + 1 \in 0..MaxTries
    BY <2>1
  <2>3. code' \in [Codes -> CodeRows]
    BY <1>3, <2>1, <2>2 DEF WrongCode, CodeRows
  <2>4. judged' \in [Codes -> Nat]
    BY <1>3, <2>1 DEF WrongCode, Count
  <2> QED
    BY <1>3, <2>3, <2>4 DEF WrongCode, Goes
<1>4. ASSUME NEW r \in SignIns, RightCode(r) PROVE LoginTypeOK'
  <2>1. signin[r].code \in Codes
    BY <1>4, JudgeType DEF RightCode
  <2>2. code' \in [Codes -> CodeRows]
    BY <1>4, <2>1 DEF RightCode, CodeRows, Consumed
  <2>3. judged' \in [Codes -> Nat] /\ opened' \in [Codes -> Nat]
    BY <1>4, <2>1 DEF RightCode, Count
  <2> QED
    BY <1>4, <2>2, <2>3 DEF RightCode, Goes, SigningIn
<1>5. ASSUME NEW r \in SignIns, GoogleLogin(r) PROVE LoginTypeOK'
  BY <1>5 DEF GoogleLogin, Goes, SigningIn
<1>6. ASSUME NEW r \in SignIns, FindUser(r) PROVE LoginTypeOK'
  <2>1. \A a \in Candidates : Found(r, a) \in {NoSignIn} \cup SigningIn
    BY FoundType DEF Candidates, Active
  <2>2. signin[r].google \in BOOLEAN
    BY <1>6 DEF FindUser, At, SigningIn, NoSignIn
  <2>3. [pc |-> "create", google |-> signin[r].google, missed |-> {}] \in SigningIn
    BY <2>2 DEF SigningIn
  <2> QED
    BY <1>6, <2>1, <2>3 DEF FindUser, Goes
<1>7. ASSUME NEW r \in SignIns, NEW a \in Rows, CreateUser(r, a) PROVE LoginTypeOK'
  <2>1. BecomesActive(a, signin[r].missed) /\ signin[r].missed \in SUBSET Rows
    BY <1>7, MissedType DEF CreateUser
  <2>2. signin' \in [SignIns -> {NoSignIn} \cup SigningIn]
    BY <1>7, FoundType, MissingType DEF CreateUser
  <2> QED
    BY <2>1, <2>2, ActiveType
<1>8. ASSUME NEW r \in SignIns, BindGoogle(r) PROVE LoginTypeOK'
  <2>1. account' \in [Rows -> AccountRows]
    <3>1. account' = account \/ account' = [account EXCEPT ![signin[r].account].google = TRUE]
      BY <1>8 DEF BindGoogle
    <3>2. [account[signin[r].account] EXCEPT !.google = TRUE] \in AccountRows
      <4>1. account[signin[r].account] \in AccountRows
        BY <1>8 DEF BindGoogle, At, SigningIn, NoSignIn
      <4> QED
        BY <4>1 DEF AccountRows
    <3> QED
      BY <3>1, <3>2
  <2>2. history' \in Histories
    BY <1>8 DEF BindGoogle
  <2> QED
    BY <1>8, <2>1, <2>2 DEF BindGoogle, Goes
<1>9. ASSUME NEW a \in Rows, Signup(a) \/ ImportUser(a) \/ ReactivateUser(a)
      PROVE  LoginTypeOK'
  <2>1. BecomesActive(a, Active) /\ signin' = Missing(a) /\ Active \in SUBSET Rows
    BY <1>9 DEF Signup, ImportUser, ReactivateUser, Active
  <2> QED
    BY <2>1, ActiveType, MissingType
<1>12. ASSUME NEW a \in Rows, SuspendUser(a) \/ DeleteUserData(a) PROVE LoginTypeOK'
  <2>1. account' \in [Rows -> AccountRows]
    BY <1>12 DEF SuspendUser, DeleteUserData, AccountRows
  <2> QED
    BY <1>12, <2>1 DEF SuspendUser, DeleteUserData
<1>10. ASSUME NEW r \in SignIns, DieSigningIn(r) PROVE LoginTypeOK'
  BY <1>10 DEF DieSigningIn, Goes
<1>11. CASE UNCHANGED loginvars
  BY <1>11 DEF loginvars
<1> QED
  BY <1>1, <1>2, <1>3, <1>4, <1>5, <1>6, <1>7, <1>8, <1>9, <1>10, <1>11, <1>12 DEF LoginNext

----------------------------------------------------------------------------
(* Codes *)

\* A step that leaves the codes and their histories alone and holds none anew.
LEMMA AsideKeepsCodes ==
    ASSUME CodeInv, LoginTypeOK, UNCHANGED <<code, judged, opened>>,
           history'.codes = history.codes,
           \A r \in SignIns : At(r, "judge")' => At(r, "judge") /\ signin'[r] = signin[r]
    PROVE  CodeInv'
<1>1. \A c \in Codes : Holding(c)' \subseteq Holding(c)
  BY DEF Holding
<1>2. \A c \in Codes : \A r \in Holding(c)' : signin'[r] = signin[r]
  BY DEF Holding
<1> QED
  BY <1>1, <1>2 DEF CodeInv

LEMMA NextCodes == LoginTypeOK /\ CodeInv /\ [LoginNext]_loginvars => CodeInv'
<1> SUFFICES ASSUME LoginTypeOK, CodeInv, [LoginNext]_loginvars PROVE CodeInv'
  OBVIOUS
<1> USE DEF LoginTypeOK
<1>1. ASSUME NEW c \in Codes, RequestOtp(c) \/ Lapse(c) PROVE CodeInv'
  <2>1. /\ UNCHANGED <<signin, judged, opened, history>>
        /\ \A b \in Codes \ {c} : code'[b] = code[b]
        /\ code'[c].tries = code[c].tries /\ code'[c].state \in {"open", "expired"}
        /\ code[c].state \in {"none", "open"}
    BY <1>1 DEF RequestOtp, Lapse, CodeInv, CodeRows
  <2>2. \A b \in Codes : Holding(b)' = Holding(b)
    BY <2>1 DEF Holding, At
  <2> SUFFICES ASSUME NEW b \in Codes
               PROVE  /\ code'[b].state = "none" => code'[b].tries = 0 /\ Holding(b)' = {}
                      /\ b \in history.codes => judged[b] = 0 /\ opened[b] = 0
                      /\ b \notin history.codes =>
                           /\ opened[b] = IF code'[b].state = "spent" THEN 1 ELSE 0
                           /\ judged[b] = code'[b].tries + opened[b]
                           /\ \A r \in Holding(b) :
                                  /\ code'[b].state \in {"open", "expired"}
                                  /\ signin[r].tries = code'[b].tries
                                  /\ \A s \in Holding(b) : s = r
    BY <2>1, <2>2 DEF CodeInv
  <2>3. CASE b = c
    BY <2>1, <2>2, <2>3 DEF CodeInv
  <2>4. CASE b # c
    BY <2>1, <2>2, <2>4 DEF CodeInv
  <2> QED
    BY <2>3, <2>4
<1>2. ASSUME NEW r \in SignIns, NEW c \in Codes, NEW right \in BOOLEAN, VerifyOtp(r, c, right)
      PROVE  CodeInv'
  <2>1. /\ UNCHANGED code /\ code[c].state = "open"
        /\ signin'[r] = [pc |-> "judge", code |-> c, right |-> right, tries |-> code[c].tries]
        /\ \A s \in SignIns \ {r} : signin'[s] = signin[s]
        /\ ~At(r, "judge")
    BY <1>2 DEF VerifyOtp, Goes, At
  <2>2. Holding(c)' = Holding(c) \cup {r} /\ \A b \in Codes \ {c} : Holding(b)' = Holding(b)
    BY <2>1 DEF Holding, At
  <2>3. \A b \in Codes : r \notin Holding(b)
    BY <2>1 DEF Holding
  <2>4. ASSUME NEW b \in Codes \ {c}
        PROVE  /\ judged'[b] = judged[b] /\ opened'[b] = opened[b]
               /\ b \in history'.codes <=> b \in history.codes
    BY <1>2 DEF VerifyOtp
  <2>5. CASE Holding(c) = {}
    <3>1. UNCHANGED history /\ judged'[c] = judged[c] /\ opened'[c] = opened[c]
      BY <1>2, <2>5 DEF VerifyOtp
    <3> SUFFICES ASSUME NEW b \in Codes
                 PROVE  /\ code[b].state = "none" => code[b].tries = 0 /\ Holding(b)' = {}
                        /\ b \in history'.codes => judged'[b] = 0 /\ opened'[b] = 0
                        /\ b \notin history'.codes =>
                             /\ opened'[b] = IF code[b].state = "spent" THEN 1 ELSE 0
                             /\ judged'[b] = code[b].tries + opened'[b]
                             /\ \A s \in Holding(b)' :
                                    /\ code[b].state \in {"open", "expired"}
                                    /\ signin'[s].tries = code[b].tries
                                    /\ \A t \in Holding(b)' : t = s
      BY <2>1 DEF CodeInv
    <3>2. CASE b = c
      BY <2>1, <2>2, <2>5, <3>1, <3>2 DEF CodeInv
    <3>3. CASE b # c
      <4>1. \A s \in Holding(b) : signin'[s] = signin[s]
        BY <2>1, <2>3 DEF Holding
      <4> QED
        BY <2>2, <2>4, <3>1, <3>3, <4>1 DEF CodeInv
    <3> QED
      BY <3>2, <3>3
  <2>6. CASE Holding(c) # {}
    <3>1. c \in history'.codes /\ judged'[c] = 0 /\ opened'[c] = 0
      BY <1>2, <2>6 DEF VerifyOtp
    <3> SUFFICES ASSUME NEW b \in Codes
                 PROVE  /\ code[b].state = "none" => code[b].tries = 0 /\ Holding(b)' = {}
                        /\ b \in history'.codes => judged'[b] = 0 /\ opened'[b] = 0
                        /\ b \notin history'.codes =>
                             /\ opened'[b] = IF code[b].state = "spent" THEN 1 ELSE 0
                             /\ judged'[b] = code[b].tries + opened'[b]
                             /\ \A s \in Holding(b)' :
                                    /\ code[b].state \in {"open", "expired"}
                                    /\ signin'[s].tries = code[b].tries
                                    /\ \A t \in Holding(b)' : t = s
      BY <2>1 DEF CodeInv
    <3>2. CASE b = c
      BY <2>1, <3>1, <3>2 DEF CodeInv
    <3>3. CASE b # c
      <4>1. \A s \in Holding(b) : signin'[s] = signin[s]
        BY <2>1, <2>3 DEF Holding
      <4> QED
        BY <2>2, <2>4, <3>3, <4>1 DEF CodeInv
    <3> QED
      BY <3>2, <3>3
  <2> QED
    BY <2>5, <2>6
<1>3. ASSUME NEW r \in SignIns, NEW c, c = signin[r].code, WrongCode(r) \/ RightCode(r)
      PROVE  CodeInv'
  <2>1. c \in Codes /\ signin[r].tries \in Nat /\ r \in Holding(c)
    BY <1>3, JudgeType, LoginsAssumption DEF WrongCode, RightCode, Holding
  <2>2. /\ UNCHANGED history /\ ~At(r, "judge")'
        /\ \A s \in SignIns \ {r} : signin'[s] = signin[s]
        /\ \A b \in Codes \ {c} : code'[b] = code[b] /\ judged'[b] = judged[b]
                                  /\ opened'[b] = opened[b]
    BY <1>3 DEF WrongCode, RightCode, Goes, At, NoSignIn
  <2>3. \A b \in Codes : Holding(b)' = Holding(b) \ {r}
    BY <2>2 DEF Holding, At
  <2>4. c \in history.codes => judged'[c] = 0 /\ opened'[c] = 0
    BY <1>3, <2>1 DEF WrongCode, RightCode, Count, CodeInv
  <2>5. c \notin history.codes =>
            /\ opened'[c] = IF code'[c].state = "spent" THEN 1 ELSE 0
            /\ judged'[c] = code'[c].tries + opened'[c]
            /\ Holding(c)' = {}
    <3> SUFFICES ASSUME c \notin history.codes
                 PROVE  /\ opened'[c] = IF code'[c].state = "spent" THEN 1 ELSE 0
                        /\ judged'[c] = code'[c].tries + opened'[c]
                        /\ Holding(c)' = {}
      OBVIOUS
    <3>1. /\ code[c].state \in {"open", "expired"} /\ signin[r].tries = code[c].tries
          /\ \A s \in Holding(c) : s = r
          /\ opened[c] = 0 /\ judged[c] = code[c].tries /\ code[c].tries \in Nat
      BY <2>1 DEF CodeInv, CodeRows
    <3>0. Holding(c)' = {}
      BY <2>1, <2>3, <3>1
    <3>2. CASE WrongCode(r)
      <4>1. /\ code'[c].tries = code[c].tries + 1 /\ code'[c].state = code[c].state
            /\ judged'[c] = judged[c] + 1 /\ opened'[c] = opened[c]
        BY <1>3, <2>1, <3>1, <3>2 DEF WrongCode, Count, CodeRows
      <4> QED
        BY <3>0, <3>1, <4>1
    <3>3. CASE RightCode(r)
      <4>1. /\ code'[c].tries = code[c].tries /\ code'[c].state = "spent"
            /\ judged'[c] = judged[c] + 1 /\ opened'[c] = opened[c] + 1
        BY <1>3, <2>1, <3>1, <3>3 DEF RightCode, Count, CodeRows, Consumed
      <4> QED
        BY <3>0, <3>1, <4>1
    <3> QED
      BY <1>3, <3>2, <3>3
  <2>6. code'[c].state # "none"
    <3>1. CASE WrongCode(r)
      <4>1. code[c].state # "none"
        BY <2>1 DEF CodeInv
      <4>2. code'[c].state = code[c].state
        BY <1>3, <2>1, <3>1 DEF WrongCode, CodeRows
      <4> QED
        BY <4>1, <4>2
    <3>2. CASE RightCode(r)
      BY <1>3, <2>1, <3>2 DEF RightCode, CodeRows, Consumed
    <3> QED
      BY <1>3, <3>1, <3>2
  <2> SUFFICES ASSUME NEW b \in Codes
               PROVE  /\ code'[b].state = "none" => code'[b].tries = 0 /\ Holding(b)' = {}
                      /\ b \in history.codes => judged'[b] = 0 /\ opened'[b] = 0
                      /\ b \notin history.codes =>
                           /\ opened'[b] = IF code'[b].state = "spent" THEN 1 ELSE 0
                           /\ judged'[b] = code'[b].tries + opened'[b]
                           /\ \A s \in Holding(b)' :
                                  /\ code'[b].state \in {"open", "expired"}
                                  /\ signin'[s].tries = code'[b].tries
                                  /\ \A t \in Holding(b)' : t = s
    BY <2>2 DEF CodeInv
  <2>7. CASE b = c
    BY <2>4, <2>5, <2>6, <2>7
  <2>8. CASE b # c
    <3>1. \A s \in Holding(b)' : signin'[s] = signin[s] /\ s \in Holding(b)
      BY <2>2, <2>3 DEF Holding
    <3> QED
      BY <2>2, <2>8, <3>1 DEF CodeInv
  <2> QED
    BY <2>7, <2>8
<1>4. ASSUME NEW r \in SignIns, GoogleLogin(r) PROVE CodeInv'
  BY <1>4, AsideKeepsCodes DEF GoogleLogin, Goes, At
<1>5. ASSUME NEW r \in SignIns, FindUser(r) PROVE CodeInv'
  <2>1. \A a \in Candidates : Found(r, a).pc # "judge"
    BY FoundType DEF Candidates, Active
  <2> QED
    BY <1>5, <2>1, AsideKeepsCodes DEF FindUser, Goes, At, NoSignIn
<1>6. ASSUME NEW r \in SignIns, NEW a \in Rows, CreateUser(r, a) PROVE CodeInv'
  <2>1. BecomesActive(a, signin[r].missed) /\ signin[r].missed \in SUBSET Rows
        /\ signin' = [Missing(a) EXCEPT ![r] = Found(r, a)]
    BY <1>6, MissedType DEF CreateUser
  <2>2. \A s \in SignIns : At(s, "judge")' => At(s, "judge") /\ signin'[s] = signin[s]
    BY <2>1, FoundType, MissingType DEF At
  <2> QED
    BY <2>1, <2>2, ActiveType, AsideKeepsCodes
<1>7. ASSUME NEW r \in SignIns, BindGoogle(r) PROVE CodeInv'
  BY <1>7, AsideKeepsCodes DEF BindGoogle, Goes, At, NoSignIn
<1>8. ASSUME NEW a \in Rows, Signup(a) \/ ImportUser(a) \/ ReactivateUser(a) PROVE CodeInv'
  <2>1. BecomesActive(a, Active) /\ signin' = Missing(a) /\ Active \in SUBSET Rows
    BY <1>8 DEF Signup, ImportUser, ReactivateUser, Active
  <2>2. \A s \in SignIns : At(s, "judge")' => At(s, "judge") /\ signin'[s] = signin[s]
    BY <2>1, MissingType DEF At
  <2> QED
    BY <2>1, <2>2, ActiveType, AsideKeepsCodes
<1>11. ASSUME NEW a \in Rows, SuspendUser(a) \/ DeleteUserData(a) PROVE CodeInv'
  BY <1>11, AsideKeepsCodes DEF SuspendUser, DeleteUserData, At
<1>9. ASSUME NEW r \in SignIns, DieSigningIn(r) PROVE CodeInv'
  BY <1>9, AsideKeepsCodes DEF DieSigningIn, Goes, At, NoSignIn
<1>10. CASE UNCHANGED loginvars
  BY <1>10, AsideKeepsCodes DEF loginvars, At
<1> QED
  BY <1>1, <1>2, <1>3, <1>4, <1>5, <1>6, <1>7, <1>8, <1>9, <1>10, <1>11 DEF LoginNext

----------------------------------------------------------------------------
(* Accounts *)

\* A step that makes no account active and takes nobody to make one with a look
\* that has grown old.
LEMMA AsideKeepsForks ==
    ASSUME ForkInv, history'.apart = history.apart,
           \A a \in Rows : account'[a].row = "active" => account[a].row = "active",
           \A r \in SignIns : At(r, "create")' =>
               (At(r, "create") /\ signin'[r] = signin[r]) \/ Active = {}
    PROVE  ForkInv'
<1>1. Active' \subseteq Active
  BY DEF Active
<1>2. AddressForksForAReason'
  BY <1>1 DEF ForkInv, AddressForksForAReason
<1> QED
  BY <1>1, <1>2 DEF ForkInv

\* One that makes an account active: whoever does it has looked at the others, but
\* for the ones unlooked, and everyone who is making another learns of it.
LEMMA JoiningKeepsForks ==
    ASSUME LoginTypeOK, ForkInv, NEW a \in Rows, NEW unlooked \in SUBSET Rows,
           BecomesActive(a, unlooked), Active \subseteq unlooked,
           \A s \in SignIns : At(s, "create")' => At(s, "create") /\ signin'[s] = Missing(a)[s]
    PROVE  ForkInv'
<1>1. Active' = Active \cup {a}
  BY ActiveType DEF Active
<1>2. history'.apart = history.apart \cup {a} \X unlooked
  BY ActiveType
<1>3. AddressForksForAReason'
  <2> SUFFICES ASSUME NEW b \in Active', NEW c \in Active', b # c
               PROVE  <<b, c>> \in history'.apart \/ <<c, b>> \in history'.apart
    BY DEF AddressForksForAReason
  <2>1. CASE b = a \/ c = a
    BY <1>1, <1>2, <2>1
  <2>2. CASE b # a /\ c # a
    BY <1>1, <1>2, <2>2 DEF ForkInv, AddressForksForAReason
  <2> QED
    BY <2>1, <2>2
<1>4. \A s \in SignIns : At(s, "create")' => Active' \subseteq signin'[s].missed
  BY <1>1, MissingType DEF ForkInv
<1> QED
  BY <1>3, <1>4 DEF ForkInv

LEMMA NextForks == LoginTypeOK /\ ForkInv /\ [LoginNext]_loginvars => ForkInv'
<1> SUFFICES ASSUME LoginTypeOK, ForkInv, [LoginNext]_loginvars PROVE ForkInv'
  OBVIOUS
<1>1. ASSUME NEW c \in Codes, RequestOtp(c) \/ Lapse(c) PROVE ForkInv'
  BY <1>1, AsideKeepsForks DEF RequestOtp, Lapse, At
<1>2. ASSUME NEW r \in SignIns, NEW c \in Codes, NEW right \in BOOLEAN, VerifyOtp(r, c, right)
      PROVE  ForkInv'
  <2>1. history'.apart = history.apart
    BY <1>2 DEF VerifyOtp, LoginTypeOK
  <2> QED
    BY <1>2, <2>1, AsideKeepsForks DEF VerifyOtp, Goes, At, LoginTypeOK
<1>3. ASSUME NEW r \in SignIns, WrongCode(r) \/ RightCode(r) PROVE ForkInv'
  BY <1>3, AsideKeepsForks DEF WrongCode, RightCode, Goes, At, NoSignIn, LoginTypeOK
<1>4. ASSUME NEW r \in SignIns, GoogleLogin(r) PROVE ForkInv'
  <2>1. history'.apart = history.apart
    BY <1>4 DEF GoogleLogin, LoginTypeOK
  <2> QED
    BY <1>4, <2>1, AsideKeepsForks DEF GoogleLogin, Goes, At, LoginTypeOK
<1>5. ASSUME NEW r \in SignIns, FindUser(r) PROVE ForkInv'
  <2>1. \A a \in Candidates : Found(r, a).pc # "create"
    BY FoundType DEF Candidates, Active
  <2>2. At(r, "create")' => Active = {}
    BY <1>5, <2>1 DEF FindUser, Goes, At, NoSignIn, Candidates, LoginTypeOK
  <2>3. UNCHANGED <<account, history>> /\ \A s \in SignIns \ {r} : signin'[s] = signin[s]
    BY <1>5 DEF FindUser, Goes, LoginTypeOK
  <2> QED
    BY <2>2, <2>3, AsideKeepsForks DEF At
<1>6. ASSUME NEW r \in SignIns, NEW a \in Rows, CreateUser(r, a) PROVE ForkInv'
  <2>1. /\ BecomesActive(a, signin[r].missed) /\ signin[r].missed \in SUBSET Rows
        /\ Active \subseteq signin[r].missed
        /\ signin' = [Missing(a) EXCEPT ![r] = Found(r, a)]
    BY <1>6, MissedType DEF CreateUser, ForkInv
  <2>2. \A s \in SignIns : At(s, "create")' => At(s, "create") /\ signin'[s] = Missing(a)[s]
    BY <2>1, FoundType, MissingType DEF At
  <2> QED
    BY <2>1, <2>2, JoiningKeepsForks
<1>7. ASSUME NEW r \in SignIns, BindGoogle(r) PROVE ForkInv'
  <2>1. \A a \in Rows : account'[a].row = account[a].row
    <3>1. account' = account \/ account' = [account EXCEPT ![signin[r].account].google = TRUE]
      BY <1>7 DEF BindGoogle
    <3> QED
      BY <3>1 DEF AccountRows, LoginTypeOK
  <2>2. history'.apart = history.apart
    BY <1>7 DEF BindGoogle, LoginTypeOK
  <2> QED
    BY <1>7, <2>1, <2>2, AsideKeepsForks DEF BindGoogle, Goes, At, NoSignIn, LoginTypeOK
<1>8. ASSUME NEW a \in Rows, Signup(a) \/ ImportUser(a) \/ ReactivateUser(a) PROVE ForkInv'
  <2>1. BecomesActive(a, Active) /\ signin' = Missing(a) /\ Active \in SUBSET Rows
    BY <1>8 DEF Signup, ImportUser, ReactivateUser, Active
  <2>2. \A s \in SignIns : At(s, "create")' => At(s, "create") /\ signin'[s] = Missing(a)[s]
    BY <2>1, MissingType DEF At
  <2> QED
    BY <2>1, <2>2, JoiningKeepsForks
<1>9. ASSUME NEW a \in Rows, SuspendUser(a) \/ DeleteUserData(a) PROVE ForkInv'
  <2>1. UNCHANGED <<signin, history>>
        /\ \A b \in Rows : account'[b].row = "active" => account[b].row = "active"
    BY <1>9 DEF SuspendUser, DeleteUserData, LoginTypeOK, AccountRows
  <2> QED
    BY <2>1, AsideKeepsForks DEF At
<1>10. ASSUME NEW r \in SignIns, DieSigningIn(r) PROVE ForkInv'
  BY <1>10, AsideKeepsForks DEF DieSigningIn, Goes, At, NoSignIn, LoginTypeOK
<1>11. CASE UNCHANGED loginvars
  BY <1>11, AsideKeepsForks DEF loginvars, At
<1> QED
  BY <1>1, <1>2, <1>3, <1>4, <1>5, <1>6, <1>7, <1>8, <1>9, <1>10, <1>11 DEF LoginNext

----------------------------------------------------------------------------
(* The Google identity *)

GoogleSafe == GoogleInv /\ GoogleFailsForAReason

\* A step after which no identity is bound that was not, no row is gone, nobody
\* binds who did not go to, and nothing failed.
LEMMA AsideKeepsGoogle ==
    ASSUME GoogleSafe, LoginTypeOK, history'.google = history.google,
           \A a \in Rows : account'[a].google => account[a].google \/ account'[a].row = "deleted",
           \A a \in Rows : account[a].google => account'[a].google,
           \A a \in Rows : account[a].row # "none" => account'[a].row # "none",
           \A a \in Rows : account[a].row = "deleted" => account'[a].row = "deleted",
           \A a \in Rows : account'[a].row \in {"active", "suspended"} =>
                account[a].row \in {"active", "suspended", "none"},
           \A r \in SignIns : r \in ByGoogle' => r \in ByGoogle,
           \A r \in SignIns : At(r, "bind")' =>
                (At(r, "bind") /\ signin'[r].account = signin[r].account
                    /\ signin[r].account \in Rows)
                \/ (signin'[r].account \in Rows /\ account'[signin'[r].account].row # "none")
    PROVE  GoogleSafe'
<1>1. \A a \in Rows : account'[a].google => account'[a].row # "none"
  BY DEF GoogleSafe, GoogleInv
<1>2. \A r \in SignIns : At(r, "bind")' => account'[signin'[r].account].row # "none"
  BY DEF GoogleSafe, GoogleInv
<1>3. Bound' \subseteq Bound
  BY DEF Bound, GoogleSafe, GoogleInv
<1>4. ("raced" \notin history.google) =>
          \A r \in ByGoogle' : Bound' = {} /\ \A s \in ByGoogle' : s = r
  <2>1. ByGoogle' \subseteq ByGoogle
    BY DEF ByGoogle
  <2> QED
    BY <1>3, <2>1 DEF GoogleSafe, GoogleInv
<1>5. GoogleFailsForAReason'
  BY DEF GoogleSafe, GoogleFailsForAReason
<1> QED
  BY <1>1, <1>2, <1>4, <1>5 DEF GoogleSafe, GoogleInv

LEMMA BindType ==
    ASSUME LoginTypeOK, NEW r \in SignIns, At(r, "bind") PROVE signin[r].account \in Rows
  BY DEF LoginTypeOK, At, SigningIn, NoSignIn

\* Sign-ins alone move: none comes to bind, or one that was going to with an
\* account that is there.
LEMMA MoveKeepsGoogle ==
    ASSUME GoogleSafe, LoginTypeOK, UNCHANGED account, history'.google = history.google,
           NEW r \in SignIns, NEW next, Goes(r, next),
           \/ next.pc \in {"idle", "judge"}
           \/ next.pc \in {"find", "create"}
              /\ (next.google => signin[r].pc \in {"find", "create"} /\ signin[r].google)
           \/ next.pc = "bind" /\ next.account \in Rows /\ account[next.account].row # "none"
              /\ signin[r].pc \in {"find", "create"} /\ signin[r].google
    PROVE  GoogleSafe'
<1>1. signin'[r] = next /\ \A s \in SignIns \ {r} : signin'[s] = signin[s]
  BY DEF Goes, LoginTypeOK
<1>2. \A s \in SignIns : s \in ByGoogle' => s \in ByGoogle
  BY <1>1 DEF ByGoogle, At
<1>3. \A s \in SignIns : At(s, "bind")' =>
          (At(s, "bind") /\ signin'[s].account = signin[s].account /\ signin[s].account \in Rows)
          \/ (signin'[s].account \in Rows /\ account'[signin'[s].account].row # "none")
  BY <1>1, BindType DEF At
<1>4. \A a \in Rows : account[a].row \in {"none", "active", "suspended", "deleted"}
  BY DEF LoginTypeOK, AccountRows
<1> QED
  BY <1>2, <1>3, <1>4, AsideKeepsGoogle

LEMMA NextGoogle == LoginTypeOK /\ GoogleSafe /\ [LoginNext]_loginvars => GoogleSafe'
<1> SUFFICES ASSUME LoginTypeOK, GoogleSafe, [LoginNext]_loginvars PROVE GoogleSafe'
  OBVIOUS
<1>0. ASSUME UNCHANGED <<account, signin>>, history'.google = history.google
      PROVE  GoogleSafe'
  BY <1>0 DEF GoogleSafe, GoogleInv, GoogleFailsForAReason, Bound, ByGoogle, At
<1>1. ASSUME NEW c \in Codes, RequestOtp(c) \/ Lapse(c) PROVE GoogleSafe'
  BY <1>0, <1>1 DEF RequestOtp, Lapse
<1>2. ASSUME NEW r \in SignIns, NEW c \in Codes, NEW right \in BOOLEAN, VerifyOtp(r, c, right)
      PROVE  GoogleSafe'
  <2> DEFINE next == [pc |-> "judge", code |-> c, right |-> right, tries |-> code[c].tries]
  <2>1. history'.google = history.google
    BY <1>2 DEF VerifyOtp, LoginTypeOK
  <2>2. next.pc = "judge"
    OBVIOUS
  <2>3. Goes(r, next) /\ UNCHANGED account
    BY <1>2 DEF VerifyOtp
  <2> HIDE DEF next
  <2> QED
    BY <2>1, <2>2, <2>3, MoveKeepsGoogle
<1>3. ASSUME NEW r \in SignIns, WrongCode(r) PROVE GoogleSafe'
  BY <1>3, MoveKeepsGoogle DEF WrongCode, NoSignIn
<1>4. ASSUME NEW r \in SignIns, RightCode(r) PROVE GoogleSafe'
  <2> DEFINE next == [pc |-> "find", google |-> FALSE]
  <2>1. next.pc = "find" /\ ~next.google
    OBVIOUS
  <2>2. Goes(r, next) /\ UNCHANGED <<account, history>>
    BY <1>4 DEF RightCode
  <2> HIDE DEF next
  <2> QED
    BY <2>1, <2>2, MoveKeepsGoogle
<1>5. ASSUME NEW r \in SignIns, GoogleLogin(r) PROVE GoogleSafe'
  <2>1. /\ UNCHANGED account /\ At(r, "idle") /\ Bound = {}
        /\ signin'[r] = [pc |-> "find", google |-> TRUE]
        /\ \A s \in SignIns \ {r} : signin'[s] = signin[s]
    BY <1>5 DEF GoogleLogin, Goes, LoginTypeOK
  <2>2. ByGoogle' = ByGoogle \cup {r} /\ r \notin ByGoogle
    BY <2>1 DEF ByGoogle, At
  <2>3. Bound' = {}
    BY <2>1 DEF Bound
  <2>4. \A s \in SignIns : At(s, "bind")' => At(s, "bind") /\ signin'[s] = signin[s]
    BY <2>1 DEF At
  <2>5. CASE ByGoogle = {}
    <3>1. UNCHANGED history
      BY <1>5, <2>5 DEF GoogleLogin
    <3> QED
      BY <2>1, <2>2, <2>3, <2>4, <2>5, <3>1 DEF GoogleSafe, GoogleInv, GoogleFailsForAReason
  <2>6. CASE ByGoogle # {}
    <3>1. "raced" \in history'.google
      BY <1>5, <2>6 DEF GoogleLogin, LoginTypeOK
    <3> QED
      BY <2>1, <2>4, <3>1 DEF GoogleSafe, GoogleInv, GoogleFailsForAReason
  <2> QED
    BY <2>5, <2>6
<1>6. ASSUME NEW r \in SignIns, FindUser(r) PROVE GoogleSafe'
  <2>1. UNCHANGED <<account, history>> /\ At(r, "find")
    BY <1>6 DEF FindUser
  <2>2. ASSUME NEW a \in Candidates, Goes(r, Found(r, a)) PROVE GoogleSafe'
    <3>1. a \in Rows /\ account[a].row = "active"
      BY DEF Candidates, Active
    <3>2. Found(r, a).pc \in {"idle", "bind"}
          /\ (Found(r, a).pc = "bind" => signin[r].google /\ Found(r, a).account = a)
      BY <3>1, FoundType
    <3> QED
      BY <2>1, <2>2, <3>1, <3>2, MoveKeepsGoogle DEF At
  <2>3. CASE Goes(r, NoSignIn)
    BY <2>1, <2>3, MoveKeepsGoogle DEF NoSignIn
  <2>4. CASE Goes(r, [pc |-> "create", google |-> signin[r].google, missed |-> {}])
    <3> DEFINE next == [pc |-> "create", google |-> signin[r].google, missed |-> {}]
    <3>1. next.pc = "create" /\ next.google = signin[r].google /\ Goes(r, next)
      BY <2>4
    <3> HIDE DEF next
    <3> QED
      BY <2>1, <3>1, MoveKeepsGoogle DEF At
  <2> QED
    BY <1>6, <2>2, <2>3, <2>4 DEF FindUser
<1>7. ASSUME NEW r \in SignIns, NEW a \in Rows, CreateUser(r, a) PROVE GoogleSafe'
  <2>1. /\ At(r, "create") /\ account[a].row = "none" /\ signin[r].missed \in SUBSET Rows
        /\ BecomesActive(a, signin[r].missed)
        /\ signin' = [Missing(a) EXCEPT ![r] = Found(r, a)]
    BY <1>7, MissedType DEF CreateUser
  <2>2. signin'[r] = Found(r, a) /\ \A s \in SignIns \ {r} : signin'[s] = Missing(a)[s]
    BY <2>1, MissingType
  <2>3. /\ history'.google = history.google
        /\ account'[a].row = "active" /\ account'[a].google = account[a].google
        /\ \A b \in Rows \ {a} : account'[b] = account[b]
    BY <2>1, ActiveType
  <2>4. Found(r, a).pc \in {"idle", "bind"}
        /\ (Found(r, a).pc = "bind" => signin[r].google /\ Found(r, a).account = a)
    BY FoundType
  <2>5. \A s \in SignIns : s \in ByGoogle' => s \in ByGoogle
    BY <2>1, <2>2, <2>4, MissingType DEF ByGoogle, At
  <2>6. \A s \in SignIns : At(s, "bind")' =>
          (At(s, "bind") /\ signin'[s].account = signin[s].account /\ signin[s].account \in Rows)
          \/ (signin'[s].account \in Rows /\ account'[signin'[s].account].row # "none")
    BY <2>2, <2>3, <2>4, BindType, MissingType DEF At
  <2>7. \A b \in Rows : account[b].row \in {"none", "active", "suspended", "deleted"}
    BY DEF LoginTypeOK, AccountRows
  <2> QED
    BY <2>1, <2>3, <2>5, <2>6, <2>7, AsideKeepsGoogle
<1>8. ASSUME NEW r \in SignIns, NEW a, a = signin[r].account, BindGoogle(r)
      PROVE  GoogleSafe'
  <2> DEFINE taken == \E b \in Rows \ {a} : account[b].google
  <2>1. /\ At(r, "bind") /\ a \in Rows /\ account[a].row # "none"
        /\ ~At(r, "bind")' /\ signin'[r] = NoSignIn
        /\ \A s \in SignIns \ {r} : signin'[s] = signin[s]
    BY <1>8, BindType DEF BindGoogle, Goes, At, NoSignIn, GoogleSafe, GoogleInv, LoginTypeOK
  <2>2. r \in ByGoogle /\ ByGoogle' = ByGoogle \ {r}
    BY <2>1 DEF ByGoogle, At, NoSignIn
  <2>3. \A s \in SignIns : At(s, "bind")' => At(s, "bind") /\ signin'[s] = signin[s]
    BY <2>1 DEF At
  <2>4. "raced" \notin history.google => ByGoogle' = {} /\ Bound = {}
    BY <2>2 DEF GoogleSafe, GoogleInv
  <2>5. CASE taken
    <3>1. UNCHANGED account /\ history'.google = history.google \cup {"failed"}
      BY <1>8, <2>5 DEF BindGoogle, LoginTypeOK
    <3>2. PICK b \in Rows : account[b].google
      BY <2>5
    <3>3. "raced" \in history.google \/ account[b].row = "deleted"
      <4> SUFFICES ASSUME "raced" \notin history.google PROVE account[b].row = "deleted"
        OBVIOUS
      <4>1. b \notin Bound /\ account[b].row # "none"
        BY <2>4, <3>2 DEF GoogleSafe, GoogleInv
      <4>2. account[b].row \in {"none", "active", "suspended", "deleted"}
        BY DEF LoginTypeOK, AccountRows
      <4> QED
        BY <3>2, <4>1, <4>2 DEF Bound
    <3>4. GoogleFailsForAReason'
      BY <3>1, <3>2, <3>3 DEF GoogleFailsForAReason
    <3>5. GoogleInv'
      BY <2>3, <2>4, <3>1 DEF GoogleSafe, GoogleInv
    <3> QED
      BY <3>4, <3>5 DEF GoogleSafe
  <2>6. CASE ~taken
    <3>1. UNCHANGED history /\ account' = [account EXCEPT ![a].google = TRUE]
      BY <1>8, <2>6 DEF BindGoogle
    <3>2. \A b \in Rows : account'[b].row = account[b].row
                          /\ (b # a => account'[b].google = account[b].google)
      BY <2>1, <3>1 DEF LoginTypeOK, AccountRows
    <3>3. \A b \in Rows : account'[b].google => account'[b].row # "none"
      BY <2>1, <3>2 DEF GoogleSafe, GoogleInv
    <3>4. \A s \in SignIns : At(s, "bind")' => account'[signin'[s].account].row # "none"
      BY <2>3, <3>2, BindType DEF GoogleSafe, GoogleInv
    <3>5. GoogleInv'
      BY <2>4, <3>1, <3>3, <3>4 DEF GoogleInv
    <3>6. GoogleFailsForAReason'
      BY <3>1, <3>2 DEF GoogleSafe, GoogleFailsForAReason
    <3> QED
      BY <3>5, <3>6 DEF GoogleSafe
  <2> QED
    BY <2>5, <2>6
<1>9. ASSUME NEW a \in Rows, Signup(a) \/ ImportUser(a) \/ ReactivateUser(a)
      PROVE  GoogleSafe'
  <2>1. BecomesActive(a, Active) /\ signin' = Missing(a) /\ Active \in SUBSET Rows
        /\ account[a].row \in {"none", "suspended"}
    BY <1>9 DEF Signup, ImportUser, ReactivateUser, Active
  <2>2. /\ history'.google = history.google
        /\ account'[a].row = "active" /\ account'[a].google = account[a].google
        /\ \A b \in Rows \ {a} : account'[b] = account[b]
    BY <2>1, ActiveType
  <2>3. \A s \in SignIns : At(s, "bind")' =>
            At(s, "bind") /\ signin'[s].account = signin[s].account /\ signin[s].account \in Rows
    BY <2>1, BindType, MissingType DEF At
  <2>4. \A s \in SignIns : s \in ByGoogle' => s \in ByGoogle
    BY <2>1, MissingType DEF ByGoogle, At
  <2>5. \A b \in Rows : account[b].row \in {"none", "active", "suspended", "deleted"}
    BY DEF LoginTypeOK, AccountRows
  <2> QED
    BY <2>1, <2>2, <2>3, <2>4, <2>5, AsideKeepsGoogle
<1>12. ASSUME NEW a \in Rows, SuspendUser(a) \/ DeleteUserData(a) PROVE GoogleSafe'
  <2>1. /\ UNCHANGED <<signin, history>>
        /\ \E row \in {"suspended", "deleted"} :
               /\ account' = [account EXCEPT ![a].row = row]
               /\ account[a].row \in {"active", "suspended"}
    BY <1>12 DEF SuspendUser, DeleteUserData
  <2>2. /\ account'[a].row \in {"suspended", "deleted"} /\ account[a].row \in {"active", "suspended"}
        /\ account'[a].google = account[a].google
        /\ \A b \in Rows \ {a} : account'[b] = account[b]
    BY <2>1 DEF LoginTypeOK, AccountRows
  <2>3. \A s \in SignIns : At(s, "bind")' =>
            At(s, "bind") /\ signin'[s].account = signin[s].account /\ signin[s].account \in Rows
    BY <2>1, BindType DEF At
  <2>4. \A s \in SignIns : s \in ByGoogle' => s \in ByGoogle
    BY <2>1 DEF ByGoogle, At
  <2>5. \A b \in Rows : account[b].row \in {"none", "active", "suspended", "deleted"}
    BY DEF LoginTypeOK, AccountRows
  <2> QED
    BY <2>1, <2>2, <2>3, <2>4, <2>5, AsideKeepsGoogle
<1>10. ASSUME NEW r \in SignIns, DieSigningIn(r) PROVE GoogleSafe'
  BY <1>10, MoveKeepsGoogle DEF DieSigningIn, NoSignIn
<1>11. CASE UNCHANGED loginvars
  BY <1>0, <1>11 DEF loginvars
<1> QED
  BY <1>1, <1>2, <1>3, <1>4, <1>5, <1>6, <1>7, <1>8, <1>9, <1>10, <1>11, <1>12 DEF LoginNext

----------------------------------------------------------------------------
LEMMA LoginsStayRight == LoginInv /\ [LoginNext]_loginvars => LoginInv'
  BY NextLoginType, NextCodes, NextForks, NextGoogle DEF LoginInv, GoogleSafe

LEMMA SpentOnce == LoginTypeOK /\ CodeInv => CodesAreSpentOnce
<1> SUFFICES ASSUME LoginTypeOK, CodeInv, NEW c \in Codes
             PROVE  opened[c] <= 1 /\ judged[c] <= MaxTries + opened[c]
  BY DEF CodesAreSpentOnce
<1>1. code[c].tries \in 0..MaxTries /\ opened[c] \in Nat /\ judged[c] \in Nat
  BY DEF LoginTypeOK, CodeRows
<1>2. (judged[c] = 0 /\ opened[c] = 0)
      \/ (judged[c] = code[c].tries + opened[c] /\ opened[c] \in {0, 1})
  BY DEF CodeInv
<1> QED
  BY <1>1, <1>2, LoginsAssumption

\* A mailed code signs in once and answers MaxTries wrong guesses at most
\* (verify_otp in app/routers/auth.py).
THEOREM CodesWorkOnce == LoginSpec => [](LoginTypeOK /\ CodesAreSpentOnce)
<1>1. LoginInit => LoginInv
  BY InitLogins
<1>2. LoginInv /\ [LoginNext]_loginvars => LoginInv'
  BY LoginsStayRight
<1>3. LoginInv => LoginTypeOK /\ CodesAreSpentOnce
  BY SpentOnce DEF LoginInv
<1> QED
  BY <1>1, <1>2, <1>3, PTL DEF LoginSpec

\* Signing in gives no address a second active account: of two, the later comes of a
\* signup, an import, a suspension that ended, or a sign-in that looked before the
\* other was there (_get_or_create_user in app/routers/auth.py).
THEOREM AddressesForkForAReason == LoginSpec => []AddressForksForAReason
<1>1. LoginInit => LoginInv
  BY InitLogins
<1>2. LoginInv /\ [LoginNext]_loginvars => LoginInv'
  BY LoginsStayRight
<1>3. LoginInv => AddressForksForAReason
  BY DEF LoginInv, ForkInv
<1> QED
  BY <1>1, <1>2, <1>3, PTL DEF LoginSpec

\* Google sign-in fails on the unique identity only for an anonymised row that
\* still holds it, or two sign-ins at once (google_login in app/routers/auth.py).
THEOREM IdentitiesClashOnlyByRace == LoginSpec => []GoogleFailsForAReason
<1>1. LoginInit => LoginInv
  BY InitLogins
<1>2. LoginInv /\ [LoginNext]_loginvars => LoginInv'
  BY LoginsStayRight
<1>3. LoginInv => GoogleFailsForAReason
  BY DEF LoginInv
<1> QED
  BY <1>1, <1>2, <1>3, PTL DEF LoginSpec
============================================================================
