------------------------------- MODULE Logins -------------------------------
(***************************************************************************)
(* Signing in with one address (app/routers/auth.py, app/compliance/       *)
(* gdpr.py, app/admin/user_lifecycle.py): login codes by mail, Google, and *)
(* the accounts both make on the spot, beside those made by signup and     *)
(* import.  No two rows that are not deleted share an organisation         *)
(* (uq_users_org_email_active).                                            *)
(*                                                                         *)
(* A sign-in runs in several transactions: spend the code, find or make    *)
(* the account, bind the Google identity.  Another sign-in may commit      *)
(* between any two, and a process may die there.  Tokens and mail are left *)
(* out; passwords are in LoginLockout.                                     *)
(***************************************************************************)
EXTENDS Naturals, Sequences, FiniteSets

CONSTANTS
    Codes,      \* login codes, in the order they are issued
    Rows,       \* users rows made for the address
    SignIns,    \* sign-ins in flight at a time
    MaxTries    \* wrong guesses a code takes

ASSUME LoginsAssumption == MaxTries \in Nat \ {0} /\ Codes \subseteq Nat

VARIABLES
    code,      \* code[c]: an otp_codes row
    account,   \* account[a]: a users row with the address, or anonymised
    signin,    \* requests in flight
    judged,    \* history: guesses each code was answered for
    opened,    \* history: sign-ins each code has admitted
    history    \* history: what excuses a second account, a lost count, a clash
               \* apart, <<a, b>>: a became active without a look at b, which was

loginvars == <<code, account, signin, judged, opened, history>>

NoSignIn == [pc |-> "idle"]
SigningIn == [pc : {"judge"}, code : Codes, right : BOOLEAN, tries : 0..(MaxTries - 1)]
             \cup [pc : {"find"}, google : BOOLEAN]
             \cup [pc : {"create"}, google : BOOLEAN, missed : SUBSET Rows]
             \cup [pc : {"bind"}, account : Rows]
CodeRows == [state : {"none", "open", "expired", "spent"}, tries : 0..MaxTries]
AccountRows == [row : {"none", "active", "suspended", "deleted"}, google : BOOLEAN]

LoginInit ==
    /\ code = [c \in Codes |-> [state |-> "none", tries |-> 0]]
    /\ account = [a \in Rows |-> [row |-> "none", google |-> FALSE]]
    /\ signin = [r \in SignIns |-> NoSignIn]
    /\ judged = [c \in Codes |-> 0] /\ opened = [c \in Codes |-> 0]
    /\ history = [apart |-> {}, codes |-> {}, google |-> {}]

Goes(r, next) == signin' = [signin EXCEPT ![r] = next]
At(r, pc) == signin[r].pc = pc

----------------------------------------------------------------------------
(* Codes *)

RequestOtp(c) ==
    /\ code[c].state = "none" /\ \A b \in Codes : b < c => code[b].state # "none"
    /\ code' = [code EXCEPT ![c] = [state |-> "open", tries |-> 0]]
    /\ UNCHANGED <<account, signin, judged, opened, history>>

Lapse(c) ==
    /\ code[c].state = "open"
    /\ code' = [code EXCEPT ![c].state = "expired"]
    /\ UNCHANGED <<account, signin, judged, opened, history>>

Sent == {c \in Codes : code[c].state # "none"}
\* consumed_at is null; an expired code is found, and refused.
Unspent == {c \in Codes : code[c].state \in {"open", "expired"}}
Newest(c) == c \in Unspent /\ \A b \in Unspent : b <= c
Holding(c) == {r \in SignIns : At(r, "judge") /\ signin[r].code = c}

TriesLeft(c) == code[c].tries < MaxTries

\* The histories stop counting a code that two verifications held at once.
Count(c, n) == IF c \in history.codes THEN 0 ELSE n + 1

\* verify_otp reads the newest code and judges the guess before it commits.
VerifyOtp(r, c, right) ==
    /\ At(r, "idle") /\ c \in Sent
    /\ Newest(c) /\ code[c].state = "open" /\ TriesLeft(c)
    /\ Goes(r, [pc |-> "judge", code |-> c, right |-> right, tries |-> code[c].tries])
    /\ history' = IF Holding(c) = {} THEN history
                  ELSE [history EXCEPT !.codes = @ \cup {c}]
    /\ judged' = [judged EXCEPT ![c] = IF Holding(c) = {} THEN @ ELSE 0]
    /\ opened' = [opened EXCEPT ![c] = IF Holding(c) = {} THEN @ ELSE 0]
    /\ UNCHANGED <<code, account>>

WrongCode(r) ==
    /\ At(r, "judge") /\ ~signin[r].right
    /\ code' = [code EXCEPT ![signin[r].code].tries = signin[r].tries + 1]
    /\ judged' = [judged EXCEPT ![signin[r].code] = Count(signin[r].code, @)]
    /\ Goes(r, NoSignIn)
    /\ UNCHANGED <<account, opened, history>>

StaysOpen(c) == code[c].state
Consumed(c) == "spent"
RightCode(r) ==
    LET c == signin[r].code
    IN  /\ At(r, "judge") /\ signin[r].right
        /\ code' = [code EXCEPT ![c].state = Consumed(c)]
        /\ opened' = [opened EXCEPT ![c] = Count(c, @)]
        /\ judged' = [judged EXCEPT ![c] = Count(c, @)]
        /\ Goes(r, [pc |-> "find", google |-> FALSE])
        /\ UNCHANGED <<account, history>>

----------------------------------------------------------------------------
(* _get_or_create_user and google_login *)

Active == {a \in Rows : account[a].row = "active"}
Passwordless == {a \in Active : account[a].google}
\* _find_candidate_users_by_email
Candidates == Active

BoundActive == {a \in Active : account[a].google}
\* An anonymised row does not match, a suspended one does.
Bound == {a \in Rows : account[a].google /\ account[a].row \in {"active", "suspended"}}

\* Sign-ins that will bind the identity.
ByGoogle == {r \in SignIns : \/ At(r, "bind")
                             \/ signin[r].pc \in {"find", "create"} /\ signin[r].google}

GoogleLogin(r) ==
    /\ At(r, "idle")
    /\ Bound = {}    \* otherwise signed in as that user at once
    /\ Goes(r, [pc |-> "find", google |-> TRUE])
    /\ history' = IF ByGoogle = {} THEN history
                  ELSE [history EXCEPT !.google = @ \cup {"raced"}]
    /\ UNCHANGED <<code, account, judged, opened>>

Found(r, a) == IF signin[r].google THEN [pc |-> "bind", account |-> a] ELSE NoSignIn

FindUser(r) ==
    /\ At(r, "find")
    /\ \/ \E a \in Candidates : Candidates = {a} /\ Goes(r, Found(r, a))
       \/ Cardinality(Candidates) > 1 /\ Goes(r, NoSignIn)    \* ambiguous: refused
       \/ Candidates = {} /\ Goes(r, [pc |-> "create", google |-> signin[r].google,
                                            missed |-> {}])
    /\ UNCHANGED <<code, account, judged, opened, history>>

\* A sign-in that is making an account has looked before a became active.
Missing(a) == [q \in SignIns |-> IF At(q, "create")
                  THEN [signin[q] EXCEPT !.missed = @ \cup {a}] ELSE signin[q]]

\* a becomes active, and whoever does it has not looked at the accounts unlooked.
BecomesActive(a, unlooked) ==
    /\ account' = [account EXCEPT ![a].row = "active"]
    /\ history' = [history EXCEPT !.apart = @ \cup {a} \X unlooked]
    /\ UNCHANGED <<code, judged, opened>>

CreateUser(r, a) ==
    /\ At(r, "create") /\ account[a].row = "none"
    /\ BecomesActive(a, signin[r].missed)
    /\ signin' = [Missing(a) EXCEPT ![r] = Found(r, a)]

\* users.google_sub is unique over all rows, the anonymised ones included.
BindGoogle(r) ==
    LET a == signin[r].account
        taken == \E b \in Rows \ {a} : account[b].google
    IN  /\ At(r, "bind")
        /\ account' = IF taken THEN account ELSE [account EXCEPT ![a].google = TRUE]
        /\ history' = IF taken THEN [history EXCEPT !.google = @ \cup {"failed"}] ELSE history
        /\ Goes(r, NoSignIn)
        /\ UNCHANGED <<code, judged, opened>>

----------------------------------------------------------------------------
(* What else makes, bars or removes an account of the address *)

\* signup: always a new organisation, whoever else has the address.
Signup(a) ==
    /\ account[a].row = "none"
    /\ BecomesActive(a, Active)
    /\ signin' = Missing(a)

\* bulk_import_users looks for the address in its own organisation only.
ImportUser(a) ==
    /\ account[a].row = "none"
    /\ BecomesActive(a, Active)
    /\ signin' = Missing(a)

SuspendUser(a) ==
    /\ account[a].row = "active"
    /\ account' = [account EXCEPT ![a].row = "suspended"]
    /\ UNCHANGED <<code, signin, judged, opened, history>>

\* What was made while it was suspended stays.
ReactivateUser(a) ==
    /\ account[a].row = "suspended"
    /\ BecomesActive(a, Active)
    /\ signin' = Missing(a)

\* delete_user_data redacts the address and leaves google_sub.
DeleteUserData(a) ==
    /\ account[a].row \in {"active", "suspended"}
    /\ account' = [account EXCEPT ![a].row = "deleted"]
    /\ UNCHANGED <<code, signin, judged, opened, history>>

DieSigningIn(r) ==
    /\ ~At(r, "idle")
    /\ Goes(r, NoSignIn)
    /\ UNCHANGED <<code, account, judged, opened, history>>

LoginNext ==
    \/ \E c \in Codes : RequestOtp(c) \/ Lapse(c)
    \/ \E r \in SignIns :
        \/ \E c \in Codes, right \in BOOLEAN : VerifyOtp(r, c, right)
        \/ WrongCode(r) \/ RightCode(r) \/ GoogleLogin(r) \/ FindUser(r)
        \/ \E a \in Rows : CreateUser(r, a)
        \/ BindGoogle(r) \/ DieSigningIn(r)
    \/ \E a \in Rows :
        \/ Signup(a) \/ ImportUser(a)
        \/ SuspendUser(a) \/ ReactivateUser(a) \/ DeleteUserData(a)

LoginSpec == LoginInit /\ [][LoginNext]_loginvars

----------------------------------------------------------------------------
LoginTypeOK ==
    /\ code \in [Codes -> CodeRows] /\ account \in [Rows -> AccountRows]
    /\ signin \in [SignIns -> {NoSignIn} \cup SigningIn]
    /\ judged \in [Codes -> Nat] /\ opened \in [Codes -> Nat]
    /\ history \in [apart : SUBSET (Rows \X Rows), codes : SUBSET Codes,
                   google : SUBSET {"raced", "failed"}]

\* A mailed code signs in once and is held against MaxTries wrong guesses at
\* most, through expiry, newer codes and older ones that become the newest
\* again, unless two verifications of it are in flight together.
CodesAreSpentOnce ==
    \A c \in Codes :
        /\ opened[c] <= 1
        /\ judged[c] <= MaxTries + opened[c]

\* Signing in never gives an address a second active account, with which it
\* could not sign in any more: of two, the later was made by a signup or an
\* import, came back from a suspension, or was made by a sign-in that looked
\* before the other was there.
AddressForksForAReason ==
    \A a, b \in Active : a = b \/ <<a, b>> \in history.apart \/ <<b, a>> \in history.apart

\* Google sign-in fails on the unique identity only when an anonymised row
\* still holds it, or two sign-ins of the address bound it at the same time.
GoogleFailsForAReason ==
    "failed" \in history.google =>
        \/ "raced" \in history.google
        \/ \E a \in Rows : account[a].row = "deleted" /\ account[a].google
============================================================================
