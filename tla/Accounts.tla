------------------------------ MODULE Accounts ------------------------------
(***************************************************************************)
(* The users of one organisation and who administers it                    *)
(* (app/admin/users.py, app/admin/user_lifecycle.py, app/routers/admin.py, *)
(* app/compliance/gdpr.py).                                                *)
(*                                                                         *)
(* A user is told by the address it was created with.  Every change reads  *)
(* the row, and counts the administrators where a guard asks for it,       *)
(* before it commits; another request may commit in between.               *)
(***************************************************************************)
EXTENDS Naturals, FiniteSets

CONSTANTS
    Users,          \* addresses
    Founder,        \* the administrator the organisation was created with
    AdminRequests   \* requests in flight at a time

ASSUME FounderAssumption == Founder \in Users

VARIABLES
    user,        \* user[u]: the active row of an address
    change,      \* requests in flight
    overlapped,  \* history: an administrator left while another's leaving was decided
    erased       \* history: an administrator was anonymised

accvars == <<user, change, overlapped, erased>>

Roles == {"admin", "reviewer", "viewer"}
NoUser == [row |-> "none", role |-> "viewer", active |-> FALSE]
UserRows == [row : {"none", "live"}, role : Roles, active : BOOLEAN]
NoChange == [op |-> "idle"]
Decisions == [op : {"suspend", "role"}, user : Users, role : Roles, seen : UserRows,
              left : BOOLEAN]
Changes == {NoChange} \cup Decisions \cup [op : {"import"}, role : Roles, rows : SUBSET Users]

Member(u) == user[u].row = "live"
ActiveAdmins == {u \in Users : Member(u) /\ user[u].role = "admin" /\ user[u].active}
Quiet(r) == change[r].op = "idle"

AccInit ==
    /\ user = [u \in Users |-> IF u = Founder
                  THEN [row |-> "live", role |-> "admin", active |-> TRUE] ELSE NoUser]
    /\ change = [r \in AdminRequests |-> NoChange]
    /\ overlapped = FALSE /\ erased = FALSE

\* Begin a change of u: what was read, whether anyone left since.
Read(r, op, u, role) ==
    /\ Quiet(r) /\ Member(u)
    /\ change' = [change EXCEPT ![r] = [op |-> op, user |-> u, role |-> role,
                                        seen |-> user[u], left |-> FALSE]]
    /\ UNCHANGED <<user, overlapped, erased>>

AnyLeft == ActiveAdmins # {}
\* The guard of both changes: more than one active administrator.
Spare == Cardinality(ActiveAdmins) > 1

Suspend(r, u) ==
    /\ u \in ActiveAdmins => Spare
    /\ Read(r, "suspend", u, user[u].role)

UpdateRole(r, u, role) ==
    /\ (user[u].role = "admin" /\ role # "admin") => Spare
    /\ Read(r, "role", u, role)

\* Only a column that differs from what was read is written.
Written(q) ==
    IF q.op = "suspend"
    THEN [user[q.user] EXCEPT !.active = IF q.seen.active THEN FALSE ELSE @]
    ELSE [user[q.user] EXCEPT !.role = IF q.role # q.seen.role THEN q.role ELSE @]

\* Everyone still deciding learns nothing of an administrator who leaves.
Leaves(u, next) ==
    u \in ActiveAdmins /\ ~(next.row = "live" /\ next.role = "admin" /\ next.active)
Deciding(q) == change[q].op \in {"suspend", "role"}
Told(gone) == [q \in AdminRequests |-> IF gone /\ Deciding(q)
                   THEN [change[q] EXCEPT !.left = TRUE] ELSE change[q]]

Commit(r) ==
    LET q == change[r]
        gone == Leaves(q.user, Written(q))
    IN  /\ Deciding(r) /\ Member(q.user)
        /\ user' = [user EXCEPT ![q.user] = Written(q)]
        /\ overlapped' = (overlapped \/ (gone /\ q.left))
        /\ change' = [Told(gone) EXCEPT ![r] = NoChange]
        /\ UNCHANGED erased

Reactivate(u) ==
    /\ Member(u)
    /\ user' = [user EXCEPT ![u].active = TRUE]
    /\ UNCHANGED <<change, overlapped, erased>>

\* delete_user_data: the row is redacted and the address free again; nothing
\* asks whether it was the last administrator.  Whoever is changing the user
\* reaches the redacted row only.
Anonymise(u) ==
    /\ Member(u)
    /\ erased' = (erased \/ u \in ActiveAdmins)
    /\ change' = [q \in AdminRequests |->
                     IF Deciding(q) /\ change[q].user = u THEN NoChange
                     ELSE Told(u \in ActiveAdmins)[q]]
    /\ user' = [user EXCEPT ![u] = NoUser]
    /\ UNCHANGED overlapped

\* bulk_import_users: the addresses in use are read once, then one insert a row.
Import(r, role) ==
    /\ Quiet(r)
    /\ \E rows \in SUBSET Users :
          /\ rows # {}
          /\ change' = [change EXCEPT ![r] = [op |-> "import", role |-> role,
                                              rows |-> {u \in rows : ~Member(u)}]]
    /\ UNCHANGED <<user, overlapped, erased>>

\* A row that meets the unique index fails, and with it the session: the
\* commit at the end fails too, whatever was reported for the other rows.
FinishImport(r) ==
    LET q == change[r]
    IN  /\ q.op = "import"
        /\ user' = IF \E u \in q.rows : Member(u) THEN user
                   ELSE [u \in Users |-> IF u \in q.rows
                            THEN [row |-> "live", role |-> q.role, active |-> TRUE]
                            ELSE user[u]]
        /\ change' = [change EXCEPT ![r] = NoChange]
        /\ UNCHANGED <<overlapped, erased>>

\* The request dies, or its row is gone and the update fails.
Abandon(r) ==
    /\ ~Quiet(r)
    /\ change' = [change EXCEPT ![r] = NoChange]
    /\ UNCHANGED <<user, overlapped, erased>>

AccNext ==
    \/ \E r \in AdminRequests, u \in Users :
        Suspend(r, u) \/ \E role \in Roles : UpdateRole(r, u, role)
    \/ \E r \in AdminRequests : Commit(r) \/ FinishImport(r) \/ Abandon(r)
    \/ \E r \in AdminRequests, role \in Roles : Import(r, role)
    \/ \E u \in Users : Reactivate(u) \/ Anonymise(u)

AccSpec == AccInit /\ [][AccNext]_accvars

----------------------------------------------------------------------------
AccTypeOK ==
    /\ user \in [Users -> UserRows]
    /\ overlapped \in BOOLEAN /\ erased \in BOOLEAN
    /\ change \in [AdminRequests -> Changes]

\* Suspensions, role changes, imports and reactivations never leave an
\* organisation without an active administrator, unless two removals were
\* decided at the same time; only anonymising a user needs no second one.
AdminsRunOutOnlyByOverlap ==
    ActiveAdmins = {} => overlapped \/ erased
============================================================================
