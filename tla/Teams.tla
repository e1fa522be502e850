------------------------------- MODULE Teams --------------------------------
(***************************************************************************)
(* The members of one team and the invitations into it                     *)
(* (app/collab/teams.py, app/routers/teams.py, app/models/team.py).        *)
(*                                                                         *)
(* Each operation reads, decides and commits once; another may commit in   *)
(* between.  Tokens, mail and the activity list are left out.              *)
(***************************************************************************)
EXTENDS Naturals

CONSTANTS
    People,        \* users of the organisation
    Invitations,   \* invitations that may be issued
    TeamRequests   \* requests in flight at a time

VARIABLES
    role,      \* role[p]: in team_members, or "none"
    invite,    \* invite[i]: a team_invitations row
    teamreq,   \* requests in flight
    uses,      \* history: how often each invitation made a member
    coincided  \* history: invitations that two requests were deciding at once

teamvars == <<role, invite, teamreq, uses, coincided>>

TeamRoles == {"lead", "member"}
NoInvite == [status |-> "none"]
NoReq == [op |-> "idle"]
Invites == [status : {"pending", "accepted", "expired"}, person : People, past : BOOLEAN]
RoleChanges == [op : {"add", "role"}, person : People, role : TeamRoles]
Answers == [op : {"accept"}, invite : Invitations, join : BOOLEAN]
           \cup [op : {"expire"}, invite : Invitations]
IsMember(p) == role[p] # "none"
Past(i) == invite[i].past

TeamInit ==
    /\ role = [p \in People |-> "none"]
    /\ invite = [i \in Invitations |-> NoInvite]
    /\ teamreq = [r \in TeamRequests |-> NoReq]
    /\ uses = [i \in Invitations |-> 0] /\ coincided = {}

Asks(r, next) ==
    /\ teamreq[r] = NoReq
    /\ teamreq' = [teamreq EXCEPT ![r] = next]
Answered(r) == teamreq' = [teamreq EXCEPT ![r] = NoReq]
DecidingOn(i) == {r \in TeamRequests :
                    teamreq[r].op \in {"accept", "expire"} /\ teamreq[r].invite = i}

----------------------------------------------------------------------------
AddTeamMember(r, p, as) ==
    /\ ~IsMember(p)
    /\ Asks(r, [op |-> "add", person |-> p, role |-> as])
    /\ UNCHANGED <<role, invite, uses, coincided>>

\* The unique constraint refuses a second row, the request fails.
CommitAdd(r) ==
    LET q == teamreq[r]
    IN  /\ q.op = "add"
        /\ role' = IF IsMember(q.person) THEN role ELSE [role EXCEPT ![q.person] = q.role]
        /\ Answered(r)
        /\ UNCHANGED <<invite, uses, coincided>>

UpdateMemberRole(r, p, as) ==
    /\ IsMember(p) /\ role[p] # as    \* the same role again is not written
    /\ Asks(r, [op |-> "role", person |-> p, role |-> as])
    /\ UNCHANGED <<role, invite, uses, coincided>>

CommitRole(r) ==
    LET q == teamreq[r]
    IN  /\ q.op = "role"
        /\ role' = [role EXCEPT ![q.person] = q.role]
        /\ Answered(r)
        /\ UNCHANGED <<invite, uses, coincided>>

\* One read, one delete by key: of two requests the second deletes nothing.  An
\* update of the row that is gone fails, also if the user has joined again.
RemoveTeamMember(p) ==
    /\ IsMember(p)
    /\ role' = [role EXCEPT ![p] = "none"]
    /\ teamreq' = [r \in TeamRequests |->
                      IF teamreq[r].op = "role" /\ teamreq[r].person = p THEN NoReq
                      ELSE teamreq[r]]
    /\ UNCHANGED <<invite, uses, coincided>>

----------------------------------------------------------------------------
InviteToTeam(i, p) ==
    /\ invite[i] = NoInvite
    /\ invite' = [invite EXCEPT ![i] = [status |-> "pending", person |-> p, past |-> FALSE]]
    /\ UNCHANGED <<role, teamreq, uses, coincided>>

Expire(i) ==
    /\ invite[i] # NoInvite /\ ~Past(i)
    /\ invite' = [invite EXCEPT ![i].past = TRUE]
    /\ UNCHANGED <<role, teamreq, uses, coincided>>

Known(i) == invite[i] # NoInvite
Pending(i) == invite[i] # NoInvite /\ invite[i].status = "pending"

\* accept_invitation by its addressee: who is a member already is only read.
ReadInvitation(r, i) ==
    /\ Pending(i)
    /\ Asks(r, IF Past(i) THEN [op |-> "expire", invite |-> i]
               ELSE [op |-> "accept", invite |-> i, join |-> ~IsMember(invite[i].person)])
    /\ coincided' = IF DecidingOn(i) = {} THEN coincided ELSE coincided \cup {i}
    /\ UNCHANGED <<role, invite, uses>>

MarkExpired(r) ==
    /\ teamreq[r].op = "expire"
    /\ invite' = [invite EXCEPT ![teamreq[r].invite].status = "expired"]
    /\ Answered(r)
    /\ UNCHANGED <<role, uses, coincided>>

\* The membership row and the status are one commit: a second row fails both.
CommitAcceptance(r) ==
    LET q == teamreq[r]
        p == invite[q.invite].person
    IN  /\ q.op = "accept"
        /\ IF q.join /\ IsMember(p) THEN UNCHANGED <<role, invite, uses>>
           ELSE /\ invite' = [invite EXCEPT ![q.invite].status = "accepted"]
                /\ role' = IF q.join THEN [role EXCEPT ![p] = "member"] ELSE role
                /\ uses' = [uses EXCEPT ![q.invite] =
                                IF q.join /\ q.invite \notin coincided THEN @ + 1 ELSE @]
        /\ Answered(r)
        /\ UNCHANGED coincided

TeamRequestDies(r) ==
    /\ teamreq[r] # NoReq
    /\ Answered(r)
    /\ UNCHANGED <<role, invite, uses, coincided>>

TeamNext ==
    \/ \E r \in TeamRequests, p \in People, as \in TeamRoles :
        AddTeamMember(r, p, as) \/ UpdateMemberRole(r, p, as)
    \/ \E r \in TeamRequests :
        \/ CommitAdd(r) \/ CommitRole(r) \/ MarkExpired(r) \/ CommitAcceptance(r)
        \/ TeamRequestDies(r)
        \/ \E i \in Invitations : ReadInvitation(r, i)
    \/ \E p \in People :
        RemoveTeamMember(p) \/ \E i \in Invitations : InviteToTeam(i, p)
    \/ \E i \in Invitations : Expire(i)

TeamSpec == TeamInit /\ [][TeamNext]_teamvars

----------------------------------------------------------------------------
TeamTypeOK ==
    /\ role \in [People -> TeamRoles \cup {"none"}]
    /\ invite \in [Invitations -> {NoInvite} \cup Invites]
    /\ teamreq \in [TeamRequests -> {NoReq} \cup RoleChanges \cup Answers]
    /\ uses \in [Invitations -> Nat] /\ coincided \subseteq Invitations

\* An invitation makes a member once: a decided one never brings its addressee
\* back after a removal, and one that made a member stays accepted, also past
\* its expiry, unless two requests decided it together.
InvitationsAreSpentOnce ==
    \A i \in Invitations :
        /\ uses[i] <= 1
        /\ (uses[i] = 1 /\ i \notin coincided) => invite[i].status = "accepted"
============================================================================
