--------------------------- MODULE Records_proofs ---------------------------
(***************************************************************************)
(* The record stores of MCRecords but for documents and logins: accounts,  *)
(* projects, teams, discussions and MITRE re-assessment settings.  They    *)
(* share no state; each section proves the invariant of one of them.       *)
(***************************************************************************)
EXTENDS Accounts, Projects, Teams, Discussion, MitreConfig, TLAPS, FiniteSetTheorems

----------------------------------------------------------------------------
(***************************************************************************)
(* Any number of users, requests and imports: an organisation keeps an     *)
(* active administrator.  A guard counts the administrators and its commit *)
(* comes later, so the count says nothing by then; what stays true is that *)
(* somebody else is an administrator until one is seen to leave            *)
(* (SpareInv).                                                             *)
(***************************************************************************)
\* A decision that cannot take its user's administration away.
Harmless(q) ==
    \/ q.op = "suspend" /\ ~q.seen.active
    \/ q.op = "role" /\ q.role = "admin"

\* While no administrator left since it was decided, a change of u takes nothing
\* away or somebody besides u is an active administrator.
SpareInv ==
    ~(overlapped \/ erased) =>
        \A r \in AdminRequests :
            (Deciding(r) /\ ~change[r].left) =>
                Harmless(change[r]) \/ ActiveAdmins \ {change[r].user} # {}

AccInv == AccTypeOK /\ SpareInv /\ AdminsRunOutOnlyByOverlap

----------------------------------------------------------------------------
\* More than one active administrator leaves one besides any given user.
LEMMA SpareMeansAnother ==
    ASSUME Spare, NEW u PROVE ActiveAdmins \ {u} # {}
<1> SUFFICES ASSUME ActiveAdmins \ {u} = {} PROVE FALSE
  OBVIOUS
<1>1. ActiveAdmins = {} \/ ActiveAdmins = {u}
  OBVIOUS
<1>2. CASE ActiveAdmins = {}
  <2>1. Cardinality(ActiveAdmins) = 0
    BY <1>2, FS_EmptySet
  <2> QED
    BY <2>1 DEF Spare
<1>3. CASE ActiveAdmins = {u}
  <2>1. Cardinality(ActiveAdmins) = 1
    BY <1>3, FS_Singleton
  <2> QED
    BY <2>1 DEF Spare
<1> QED
  BY <1>1, <1>2, <1>3

LEMMA DecisionType ==
    ASSUME AccTypeOK, NEW r \in AdminRequests, Deciding(r)
    PROVE  change[r] \in Decisions
  BY DEF AccTypeOK, Deciding, Changes, Decisions, NoChange

LEMMA WrittenType ==
    ASSUME AccTypeOK, NEW q \in Decisions PROVE Written(q) \in UserRows
<1>1. user[q.user] \in UserRows /\ q.role \in Roles
  BY DEF AccTypeOK, Decisions
<1> QED
  BY <1>1 DEF Written, UserRows

LEMMA ToldType ==
    ASSUME AccTypeOK, NEW gone \in BOOLEAN
    PROVE  /\ Told(gone) \in [AdminRequests -> Changes]
           /\ \A q \in AdminRequests : Told(gone)[q].op = change[q].op
<1> SUFFICES ASSUME NEW q \in AdminRequests
             PROVE  Told(gone)[q] \in Changes /\ Told(gone)[q].op = change[q].op
  BY DEF Told
<1>1. CASE gone /\ Deciding(q)
  <2>1. change[q] \in Decisions
    BY <1>1, DecisionType
  <2>2. Told(gone)[q] = [change[q] EXCEPT !.left = TRUE]
    BY <1>1 DEF Told
  <2> QED
    BY <2>1, <2>2 DEF Changes, Decisions
<1>2. CASE ~(gone /\ Deciding(q))
  BY <1>2 DEF Told, AccTypeOK
<1> QED
  BY <1>1, <1>2

LEMMA InitAccounts == AccInit => AccInv
<1> SUFFICES ASSUME AccInit PROVE AccInv
  OBVIOUS
<1>1. AccTypeOK
  BY FounderAssumption DEF AccInit, AccTypeOK, UserRows, Roles, NoUser, NoChange, Changes
<1>2. Founder \in ActiveAdmins
  BY FounderAssumption DEF AccInit, ActiveAdmins, Member
<1>3. SpareInv
  BY DEF SpareInv, AccInit, Deciding, NoChange
<1> QED
  BY <1>1, <1>2, <1>3 DEF AccInv, AdminsRunOutOnlyByOverlap

LEMMA NextAccType == AccTypeOK /\ [AccNext]_accvars => AccTypeOK'
<1> SUFFICES ASSUME AccTypeOK, [AccNext]_accvars PROVE AccTypeOK'
  OBVIOUS
<1>1. ASSUME NEW r \in AdminRequests, NEW u \in Users, Suspend(r, u) PROVE AccTypeOK'
  BY <1>1 DEF Suspend, Read, AccTypeOK, Changes, Decisions, Member, UserRows
<1>2. ASSUME NEW r \in AdminRequests, NEW u \in Users, NEW held \in Roles,
             UpdateRole(r, u, held)
      PROVE  AccTypeOK'
  BY <1>2 DEF UpdateRole, Read, AccTypeOK, Changes, Decisions, Member, UserRows
<1>3. ASSUME NEW r \in AdminRequests, Commit(r) PROVE AccTypeOK'
  <2> DEFINE q == change[r]
             gone == Leaves(q.user, Written(q))
  <2>1. q \in Decisions
    BY <1>3, DecisionType DEF Commit
  <2>2. Written(q) \in UserRows
    BY <2>1, WrittenType
  <2>3. Told(gone) \in [AdminRequests -> Changes]
    BY ToldType DEF Leaves
  <2>4. user' = [user EXCEPT ![q.user] = Written(q)]
        /\ change' = [Told(gone) EXCEPT ![r] = NoChange]
    BY <1>3 DEF Commit
  <2>5. overlapped' \in BOOLEAN /\ erased' \in BOOLEAN
    BY <1>3 DEF Commit, AccTypeOK
  <2>6. user' \in [Users -> UserRows]
    BY <2>1, <2>2, <2>4 DEF AccTypeOK
  <2>7. change' \in [AdminRequests -> Changes]
    <3> HIDE DEF gone
    <3> QED
      BY <2>3, <2>4 DEF Changes
  <2> QED
    BY <2>5, <2>6, <2>7 DEF AccTypeOK
<1>4. ASSUME NEW u \in Users, Reactivate(u) PROVE AccTypeOK'
  BY <1>4 DEF Reactivate, AccTypeOK, UserRows
<1>5. ASSUME NEW u \in Users, Anonymise(u) PROVE AccTypeOK'
  <2> DEFINE gone == u \in ActiveAdmins
  <2>0. gone \in BOOLEAN
    OBVIOUS
  <2>1. Told(gone) \in [AdminRequests -> Changes]
    <3> HIDE DEF gone
    <3> QED
      BY <2>0, ToldType
  <2>2. change' \in [AdminRequests -> Changes]
    BY <1>5, <2>1 DEF Anonymise, Changes
  <2>3. user' \in [Users -> UserRows]
    BY <1>5 DEF Anonymise, AccTypeOK, UserRows, NoUser, Roles
  <2> QED
    BY <1>5, <2>2, <2>3 DEF Anonymise, AccTypeOK
<1>6. ASSUME NEW r \in AdminRequests, NEW held \in Roles, Import(r, held) PROVE AccTypeOK'
  BY <1>6 DEF Import, AccTypeOK, Changes
<1>7. ASSUME NEW r \in AdminRequests, FinishImport(r) PROVE AccTypeOK'
  <2>1. change[r].role \in Roles
    BY <1>7 DEF FinishImport, AccTypeOK, Changes, Decisions, NoChange
  <2> QED
    BY <1>7, <2>1 DEF FinishImport, AccTypeOK, Changes, UserRows
<1>8. ASSUME NEW r \in AdminRequests, Abandon(r) PROVE AccTypeOK'
  BY <1>8 DEF Abandon, AccTypeOK, Changes
<1>9. CASE UNCHANGED accvars
  BY <1>9 DEF accvars, AccTypeOK
<1> QED
  BY <1>1, <1>2, <1>3, <1>4, <1>5, <1>6, <1>7, <1>8, <1>9 DEF AccNext

----------------------------------------------------------------------------
\* A step after which everyone is at least as much of an administrator, and
\* every decision was there before, keeps the invariant.
LEMMA NobodyLeft ==
    ASSUME SpareInv, AdminsRunOutOnlyByOverlap,
           ActiveAdmins \subseteq ActiveAdmins',
           overlapped' = overlapped, erased' = erased,
           \A r \in AdminRequests : Deciding(r)' => Deciding(r) /\ change'[r] = change[r]
    PROVE  SpareInv' /\ AdminsRunOutOnlyByOverlap'
<1>1. SpareInv'
  <2> SUFFICES ASSUME ~(overlapped' \/ erased'), NEW r \in AdminRequests, Deciding(r)',
                      ~change'[r].left
               PROVE  Harmless(change'[r]) \/ ActiveAdmins' \ {change'[r].user} # {}
    BY DEF SpareInv, Harmless
  <2> QED
    BY DEF SpareInv
<1>2. AdminsRunOutOnlyByOverlap'
  BY DEF AdminsRunOutOnlyByOverlap
<1> QED
  BY <1>1, <1>2

LEMMA ReadKeepsSpare ==
    ASSUME AccInv, NEW r \in AdminRequests, NEW u \in Users, NEW held \in Roles,
           NEW op \in {"suspend", "role"}, Read(r, op, u, held),
           op = "suspend" => (u \in ActiveAdmins => Spare),
           op = "suspend" => held = user[u].role,
           op = "role" => (user[u].role = "admin" /\ held # "admin" => Spare)
    PROVE  SpareInv' /\ AdminsRunOutOnlyByOverlap'
<1>1. ActiveAdmins' = ActiveAdmins /\ overlapped' = overlapped /\ erased' = erased
  BY DEF Read, ActiveAdmins, Member
<1>2. change' = [change EXCEPT ![r] = [op |-> op, user |-> u, role |-> held,
                                       seen |-> user[u], left |-> FALSE]]
  BY DEF Read
<1>3. AdminsRunOutOnlyByOverlap'
  BY <1>1 DEF AccInv, AdminsRunOutOnlyByOverlap
<1>4. SpareInv'
  <2> SUFFICES ASSUME ~(overlapped \/ erased), NEW s \in AdminRequests, Deciding(s)',
                      ~change'[s].left
               PROVE  Harmless(change'[s]) \/ ActiveAdmins \ {change'[s].user} # {}
    BY <1>1 DEF SpareInv, Harmless
  <2>1. CASE s # r
    BY <2>1, <1>2 DEF AccInv, SpareInv, AccTypeOK, Deciding
  <2>2. CASE s = r
    <3>1. change'[s] = [op |-> op, user |-> u, role |-> held, seen |-> user[u], left |-> FALSE]
      BY <2>2, <1>2 DEF AccInv, AccTypeOK
    <3>2. ActiveAdmins # {}
      BY DEF AccInv, AdminsRunOutOnlyByOverlap
    <3>3. CASE u \notin ActiveAdmins
      BY <3>1, <3>2, <3>3
    <3>4. CASE u \in ActiveAdmins /\ op = "role" /\ held = "admin"
      BY <3>1, <3>4 DEF Harmless
    <3>5. CASE u \in ActiveAdmins /\ ~(op = "role" /\ held = "admin")
      <4>1. Spare
        BY <3>5 DEF ActiveAdmins
      <4> QED
        BY <4>1, <3>1, SpareMeansAnother
    <3> QED
      BY <3>3, <3>4, <3>5
  <2> QED
    BY <2>1, <2>2
<1> QED
  BY <1>3, <1>4

LEMMA CommitKeepsSpare ==
    ASSUME AccInv, NEW r \in AdminRequests, Commit(r)
    PROVE  SpareInv' /\ AdminsRunOutOnlyByOverlap'
<1> DEFINE q == change[r]
           u == change[r].user
           gone == Leaves(u, Written(q))
<1>0. AccTypeOK
  BY DEF AccInv
<1>1. q \in Decisions /\ u \in Users /\ Written(q) \in UserRows
  BY <1>0, DecisionType, WrittenType DEF Commit, Decisions
<1>2. /\ user' = [user EXCEPT ![u] = Written(q)]
      /\ overlapped' = (overlapped \/ (gone /\ q.left)) /\ erased' = erased
      /\ change' = [Told(gone) EXCEPT ![r] = NoChange]
      /\ user[u].row = "live"
  BY DEF Commit, Member
<1>3. Written(q).row = "live"
  BY <1>0, <1>1, <1>2 DEF Written, AccTypeOK, UserRows
<1>4. Told(gone) \in [AdminRequests -> Changes]
      /\ \A s \in AdminRequests : Told(gone)[s].op = change[s].op
  BY <1>0, ToldType DEF Leaves
<1> HIDE DEF gone
<1>5. CASE ~gone
  <2>1. ActiveAdmins \subseteq ActiveAdmins'
    <3> SUFFICES ASSUME NEW w \in ActiveAdmins PROVE w \in ActiveAdmins'
      OBVIOUS
    <3>1. CASE w # u
      BY <3>1, <1>0, <1>2 DEF ActiveAdmins, Member, AccTypeOK
    <3>2. CASE w = u
      BY <3>2, <1>0, <1>1, <1>2, <1>3, <1>5 DEF ActiveAdmins, Member, AccTypeOK, Leaves, gone
    <3> QED
      BY <3>1, <3>2
  <2>2. \A s \in AdminRequests : Deciding(s)' => Deciding(s) /\ change'[s] = change[s]
    <3> SUFFICES ASSUME NEW s \in AdminRequests, Deciding(s)'
                 PROVE  Deciding(s) /\ change'[s] = change[s]
      OBVIOUS
    <3>1. s # r
      BY <1>2, <1>4 DEF Deciding, NoChange
    <3>2. change'[s] = Told(gone)[s]
      BY <3>1, <1>2, <1>4
    <3>3. Told(gone)[s] = change[s]
      BY <1>5 DEF Told
    <3> QED
      BY <3>2, <3>3 DEF Deciding
  <2> QED
    BY <2>1, <2>2, <1>2, <1>5, NobodyLeft DEF AccInv, AccTypeOK
<1>6. CASE gone
  <2>1. SpareInv'
    <3> SUFFICES ASSUME NEW s \in AdminRequests, Deciding(s)', ~change'[s].left PROVE FALSE
      BY DEF SpareInv, Harmless
    <3>1. s # r
      BY <1>2, <1>4 DEF Deciding, NoChange
    <3>2. change'[s] = Told(gone)[s]
      BY <3>1, <1>2, <1>4
    <3>3. Deciding(s)
      BY <3>2, <1>4 DEF Deciding
    <3>4. Told(gone)[s] = [change[s] EXCEPT !.left = TRUE]
      BY <3>3, <1>6 DEF Told
    <3>5. change[s] \in Decisions
      BY <3>3, <1>0, DecisionType
    <3> QED
      BY <3>2, <3>4, <3>5 DEF Decisions
  <2>2. AdminsRunOutOnlyByOverlap'
    <3> SUFFICES ASSUME ~(overlapped' \/ erased') PROVE ActiveAdmins' # {}
      BY DEF AdminsRunOutOnlyByOverlap
    <3>1. ~(overlapped \/ erased) /\ ~q.left
      BY <1>0, <1>1, <1>2, <1>6 DEF AccTypeOK, Decisions
    <3>2. ~Harmless(q)
      <4> SUFFICES ASSUME Harmless(q) PROVE FALSE
        OBVIOUS
      <4>1. u \in ActiveAdmins /\ ~(Written(q).role = "admin" /\ Written(q).active)
        BY <1>3, <1>6 DEF Leaves, gone
      <4>2. user[u] \in UserRows /\ user[u].role = "admin" /\ user[u].active
        BY <4>1, <1>0, <1>1 DEF ActiveAdmins, AccTypeOK
      <4>3. CASE q.op = "suspend" /\ ~q.seen.active
        BY <4>1, <4>2, <4>3 DEF Written, UserRows
      <4>4. CASE q.op = "role" /\ q.role = "admin"
        BY <4>1, <4>2, <4>4 DEF Written, UserRows
      <4> QED
        BY <4>3, <4>4 DEF Harmless
    <3>3. PICK w \in ActiveAdmins : w # u
      BY <3>1, <3>2 DEF AccInv, SpareInv, Commit
    <3>4. w \in ActiveAdmins'
      BY <3>3, <1>0, <1>2 DEF ActiveAdmins, Member, AccTypeOK
    <3> QED
      BY <3>4
  <2> QED
    BY <2>1, <2>2
<1> QED
  BY <1>5, <1>6

LEMMA AnonymiseKeepsSpare ==
    ASSUME AccInv, NEW u \in Users, Anonymise(u)
    PROVE  SpareInv' /\ AdminsRunOutOnlyByOverlap'
<1>1. CASE u \in ActiveAdmins
  BY <1>1 DEF Anonymise, SpareInv, AdminsRunOutOnlyByOverlap
<1>2. CASE u \notin ActiveAdmins
  <2>1. ActiveAdmins \subseteq ActiveAdmins'
    BY <1>2 DEF Anonymise, ActiveAdmins, Member, AccInv, AccTypeOK
  <2>2. \A s \in AdminRequests : Deciding(s)' => Deciding(s) /\ change'[s] = change[s]
    BY <1>2 DEF Anonymise, Told, Deciding, NoChange
  <2>3. overlapped' = overlapped /\ erased' = erased
    BY <1>2 DEF Anonymise, AccInv, AccTypeOK
  <2> QED
    BY <2>1, <2>2, <2>3, NobodyLeft DEF AccInv
<1> QED
  BY <1>1, <1>2

LEMMA NextSpare == AccInv /\ [AccNext]_accvars => SpareInv' /\ AdminsRunOutOnlyByOverlap'
<1> SUFFICES ASSUME AccInv, [AccNext]_accvars
             PROVE  SpareInv' /\ AdminsRunOutOnlyByOverlap'
  OBVIOUS
<1> DEFINE Goal == SpareInv' /\ AdminsRunOutOnlyByOverlap'
<1>1. ASSUME NEW r \in AdminRequests, NEW u \in Users, Suspend(r, u) PROVE Goal
  <2>1. user[u].role \in Roles
    BY <1>1 DEF AccInv, AccTypeOK, UserRows
  <2> QED
    BY <1>1, <2>1, ReadKeepsSpare DEF Suspend
<1>2. ASSUME NEW r \in AdminRequests, NEW u \in Users, NEW held \in Roles,
             UpdateRole(r, u, held)
      PROVE  Goal
  BY <1>2, ReadKeepsSpare DEF UpdateRole
<1>3. ASSUME NEW r \in AdminRequests, Commit(r) PROVE Goal
  BY <1>3, CommitKeepsSpare
<1>4. ASSUME NEW u \in Users, Reactivate(u) PROVE Goal
  <2>1. ActiveAdmins \subseteq ActiveAdmins'
    BY <1>4 DEF Reactivate, ActiveAdmins, Member, AccInv, AccTypeOK, UserRows
  <2> QED
    BY <1>4, <2>1, NobodyLeft DEF Reactivate, AccInv, Deciding
<1>5. ASSUME NEW u \in Users, Anonymise(u) PROVE Goal
  BY <1>5, AnonymiseKeepsSpare
<1>6. ASSUME NEW r \in AdminRequests, NEW held \in Roles, Import(r, held) PROVE Goal
  <2>1. ActiveAdmins' = ActiveAdmins
    BY <1>6 DEF Import, ActiveAdmins, Member
  <2> QED
    BY <1>6, <2>1, NobodyLeft DEF Import, AccInv, AccTypeOK, Deciding
<1>7. ASSUME NEW r \in AdminRequests, FinishImport(r) PROVE Goal
  <2>1. ActiveAdmins \subseteq ActiveAdmins'
    BY <1>7 DEF FinishImport, ActiveAdmins, Member, AccInv, AccTypeOK
  <2> QED
    BY <1>7, <2>1, NobodyLeft DEF FinishImport, AccInv, AccTypeOK, Deciding, NoChange
<1>8. ASSUME NEW r \in AdminRequests, Abandon(r) PROVE Goal
  <2>1. ActiveAdmins' = ActiveAdmins
    BY <1>8 DEF Abandon, ActiveAdmins, Member
  <2> QED
    BY <1>8, <2>1, NobodyLeft DEF Abandon, AccInv, AccTypeOK, Deciding, NoChange
<1>9. CASE UNCHANGED accvars
  <2>1. ActiveAdmins' = ActiveAdmins
    BY <1>9 DEF accvars, ActiveAdmins, Member
  <2> QED
    BY <1>9, <2>1, NobodyLeft DEF accvars, AccInv, Deciding
<1> QED
  BY <1>1, <1>2, <1>3, <1>4, <1>5, <1>6, <1>7, <1>8, <1>9 DEF AccNext

----------------------------------------------------------------------------
\* Suspensions, role changes, imports and reactivations never leave an
\* organisation without an active administrator, unless two removals were
\* decided at the same time or one was anonymised (app/admin/user_lifecycle.py,
\* app/admin/users.py, app/compliance/gdpr.py).
THEOREM AdministratorsRemain == AccSpec => [](AccTypeOK /\ AdminsRunOutOnlyByOverlap)
<1>1. AccInit => AccInv
  BY InitAccounts
<1>2. AccInv /\ [AccNext]_accvars => AccInv'
  BY NextAccType, NextSpare DEF AccInv
<1>3. AccInv => AccTypeOK /\ AdminsRunOutOnlyByOverlap
  BY DEF AccInv
<1> QED
  BY <1>1, <1>2, <1>3, PTL DEF AccSpec

----------------------------------------------------------------------------
(***************************************************************************)
(* Any names, likeness (symmetric or not), documents and requests: projects*)
(* fork only through inserts that did not see each other.  A request that  *)
(* goes to insert a name still has no match but inserts it missed          *)
(* (FreshInv).                                                             *)
(***************************************************************************)
\* What a request found is still so: the match is in the table, or there is none
\* but for inserts it missed.
FreshInv ==
    \A r \in NameRequests :
        /\ naming[r].op = "file" => naming[r].name \in project
        /\ Inserts(naming[r]) => Matching(naming[r].name) \subseteq naming[r].missed

ProjectInv == ProjectTypeOK /\ FreshInv /\ ProjectsForkOnlyByOverlap

----------------------------------------------------------------------------
LEMMA InitProjects == ProjectInit => ProjectInv
<1> SUFFICES ASSUME ProjectInit PROVE ProjectInv
  OBVIOUS
<1>1. ProjectTypeOK
  BY DEF ProjectInit, ProjectTypeOK
<1>2. FreshInv
  BY DEF ProjectInit, FreshInv, Inserts, NotNaming
<1>3. ProjectsForkOnlyByOverlap
  BY DEF ProjectInit, ProjectsForkOnlyByOverlap
<1> QED
  BY <1>1, <1>2, <1>3 DEF ProjectInv

\* A request that leaves the tables alone and knows what it found.
LEMMA StartKeepsProjects ==
    ASSUME ProjectInv, NEW r \in NameRequests, NEW next \in Namings,
           Types(r, next), UNCHANGED <<project, filed, older, blind>>,
           next.op = "file" => next.name \in project,
           Inserts(next) => Matching(next.name) = {}
    PROVE  ProjectInv'
<1>1. naming \in [NameRequests -> {NotNaming} \cup Namings]
      /\ naming' = [naming EXCEPT ![r] = next]
  BY DEF Types, ProjectInv, ProjectTypeOK
<1>2. ProjectTypeOK'
  BY <1>1 DEF ProjectInv, ProjectTypeOK
<1>3. FreshInv'
  <2> SUFFICES ASSUME NEW s \in NameRequests
               PROVE  /\ naming'[s].op = "file" => naming'[s].name \in project
                      /\ Inserts(naming'[s])
                            => Matching(naming'[s].name) \subseteq naming'[s].missed
    BY DEF FreshInv, Matching, Inserts
  <2>1. CASE s = r
    BY <2>1, <1>1
  <2>2. CASE s # r
    BY <2>2, <1>1 DEF ProjectInv, FreshInv
  <2> QED
    BY <2>1, <2>2
<1>4. ProjectsForkOnlyByOverlap'
  BY DEF ProjectInv, ProjectsForkOnlyByOverlap
<1> QED
  BY <1>2, <1>3, <1>4 DEF ProjectInv

LEMMA CommitKeepsProjects ==
    ASSUME ProjectInv, NEW r \in NameRequests, CommitName(r) PROVE ProjectInv'
<1> DEFINE q == naming[r]
           refused == Inserts(q) /\ q.name \in project
<1>1. q \in Namings /\ q.name \in Names
  BY DEF CommitName, ProjectInv, ProjectTypeOK, Namings
<1>2. naming \in [NameRequests -> {NotNaming} \cup Namings]
  BY DEF ProjectInv, ProjectTypeOK
<1>3. filed' = IF q.op = "create" \/ refused THEN filed
               ELSE [filed EXCEPT ![q.doc] = q.name]
  BY DEF CommitName
<1>4. CASE ~Inserts(q) \/ refused
  <2>1. UNCHANGED <<project, older, blind>> /\ naming' = [naming EXCEPT ![r] = NotNaming]
    BY <1>4 DEF CommitName
  <2>2. q.op = "file" \/ refused
    BY <1>1, <1>4 DEF Inserts, Namings
  <2>3. ProjectTypeOK'
    BY <1>1, <1>2, <1>3, <2>1, <2>2 DEF ProjectInv, ProjectTypeOK, Namings
  <2>4. FreshInv'
    BY <1>2, <2>1 DEF ProjectInv, FreshInv, Matching, Inserts, NotNaming
  <2>5. \A d \in Files : filed'[d] \in project \cup {"none"}
    BY <1>3, <2>2 DEF ProjectInv, ProjectTypeOK, FreshInv, ProjectsForkOnlyByOverlap
  <2>6. ProjectsForkOnlyByOverlap'
    BY <2>1, <2>5 DEF ProjectInv, ProjectsForkOnlyByOverlap
  <2> QED
    BY <2>3, <2>4, <2>6 DEF ProjectInv
<1>5. CASE Inserts(q) /\ ~refused
  <2>1. /\ project' = project \cup {q.name}
        /\ older' = older \cup {q.name} \X project
        /\ blind' = blind \cup {q.name} \X q.missed
        /\ naming' = [p \in NameRequests |->
               IF p = r THEN NotNaming
               ELSE IF Inserts(naming[p])
               THEN [naming[p] EXCEPT !.missed = @ \cup {q.name}] ELSE naming[p]]
    BY <1>5 DEF CommitName
  <2>2. q.missed \in SUBSET Names
    BY <1>1, <1>5 DEF Namings, Inserts
  <2>3. ASSUME NEW p \in NameRequests, p # r, Inserts(naming[p])
        PROVE  /\ naming'[p] \in Namings /\ naming'[p].op = naming[p].op
               /\ naming'[p].name = naming[p].name
               /\ naming'[p].missed = naming[p].missed \cup {q.name}
    <3>1. naming[p] \in Namings
      BY <1>2, <2>3 DEF Inserts, NotNaming
    <3>2. naming'[p] = [naming[p] EXCEPT !.missed = @ \cup {q.name}]
      BY <2>1, <2>3
    <3> QED
      BY <1>1, <2>3, <3>1, <3>2 DEF Namings, Inserts
  <2>4. \A p \in NameRequests : naming'[p] \in {NotNaming} \cup Namings
    BY <1>2, <2>1, <2>3
  <2>5. naming' \in [NameRequests -> {NotNaming} \cup Namings]
    BY <2>1, <2>4
  <2>6. filed' \in [Files -> Names \cup {"none"}]
    BY <1>1, <1>3, <1>5 DEF ProjectInv, ProjectTypeOK, Namings, Inserts
  <2>7. ProjectTypeOK'
    BY <1>1, <2>1, <2>2, <2>5, <2>6 DEF ProjectInv, ProjectTypeOK
  <2>8. FreshInv'
    <3> SUFFICES ASSUME NEW p \in NameRequests
                 PROVE  /\ naming'[p].op = "file" => naming'[p].name \in project'
                        /\ Inserts(naming'[p]) =>
                              \A m \in project' : <<naming'[p].name, m>> \in Alike =>
                                  m \in naming'[p].missed
      BY DEF FreshInv, Inserts, Matching
    <3>1. CASE p = r
      BY <2>1, <3>1 DEF NotNaming, Inserts
    <3>2. CASE p # r /\ Inserts(naming[p])
      <4>1. Matching(naming[p].name) \subseteq naming[p].missed
        BY <3>2 DEF ProjectInv, FreshInv
      <4> QED
        BY <2>1, <2>3, <3>2, <4>1 DEF Matching, Inserts
    <3>3. CASE p # r /\ ~Inserts(naming[p])
      BY <2>1, <3>3 DEF ProjectInv, FreshInv
    <3> QED
      BY <3>1, <3>2, <3>3
  <2>9. older' \cap Alike \subseteq blind'
    <3> SUFFICES ASSUME NEW m \in project, <<q.name, m>> \in Alike PROVE m \in q.missed
      BY <2>1 DEF ProjectInv, ProjectsForkOnlyByOverlap
    <3> QED
      BY <1>5 DEF ProjectInv, FreshInv, Matching
  <2>10. \A d \in Files : filed'[d] \in project' \cup {"none"}
    BY <1>3, <2>1 DEF ProjectInv, ProjectTypeOK, ProjectsForkOnlyByOverlap
  <2> QED
    BY <2>7, <2>8, <2>9, <2>10 DEF ProjectInv, ProjectsForkOnlyByOverlap
<1> QED
  BY <1>4, <1>5

LEMMA NextProjects == ProjectInv /\ [ProjectNext]_projectvars => ProjectInv'
<1> SUFFICES ASSUME ProjectInv, [ProjectNext]_projectvars PROVE ProjectInv'
  OBVIOUS
<1>1. ASSUME NEW r \in NameRequests, CommitName(r) PROVE ProjectInv'
  BY <1>1, CommitKeepsProjects
<1>2. ASSUME NEW r \in NameRequests, NamingDies(r) PROVE ProjectInv'
  <2>1. UNCHANGED <<project, filed, older, blind>>
        /\ naming' = [naming EXCEPT ![r] = NotNaming]
    BY <1>2 DEF NamingDies
  <2>2. ProjectTypeOK'
    BY <2>1 DEF ProjectInv, ProjectTypeOK
  <2>3. FreshInv'
    BY <2>1 DEF ProjectInv, ProjectTypeOK, FreshInv, Matching, Inserts, NotNaming
  <2>4. ProjectsForkOnlyByOverlap'
    BY <2>1 DEF ProjectInv, ProjectsForkOnlyByOverlap
  <2> QED
    BY <2>2, <2>3, <2>4 DEF ProjectInv
<1>3. ASSUME NEW r \in NameRequests, NEW n \in Names, CreateProject(r, n)
      PROVE  ProjectInv'
  <2> DEFINE next == [op |-> "create", name |-> n, missed |-> {}]
  <2>1. next \in Namings /\ next.op # "file" /\ next.name = n
    BY DEF Namings
  <2>2. Types(r, next) /\ Matching(n) = {} /\ UNCHANGED <<project, filed, older, blind>>
    BY <1>3 DEF CreateProject
  <2> HIDE DEF next
  <2> QED
    BY <2>1, <2>2, StartKeepsProjects
<1>4. ASSUME NEW r \in NameRequests, NEW n \in Names, NEW d \in Files, FileUnder(r, d, n)
      PROVE  ProjectInv'
  <2>1. ASSUME NEW m \in Matching(n),
               Types(r, [op |-> "file", doc |-> d, name |-> m])
        PROVE  ProjectInv'
    <3> DEFINE next == [op |-> "file", doc |-> d, name |-> m]
    <3>1. m \in project /\ m \in Names
      BY DEF Matching, ProjectInv, ProjectTypeOK
    <3>2. next \in Namings /\ next.name \in project /\ ~Inserts(next)
      BY <3>1 DEF Namings, Inserts
    <3>3. Types(r, next) /\ UNCHANGED <<project, filed, older, blind>>
      BY <1>4, <2>1 DEF FileUnder
    <3> HIDE DEF next
    <3> QED
      BY <3>2, <3>3, StartKeepsProjects
  <2>2. ASSUME Matching(n) = {},
               Types(r, [op |-> "insert", doc |-> d, name |-> n, missed |-> {}])
        PROVE  ProjectInv'
    <3> DEFINE next == [op |-> "insert", doc |-> d, name |-> n, missed |-> {}]
    <3>1. next \in Namings /\ next.op # "file" /\ next.name = n
      BY DEF Namings
    <3>2. Types(r, next) /\ UNCHANGED <<project, filed, older, blind>>
      BY <1>4, <2>2 DEF FileUnder
    <3> HIDE DEF next
    <3> QED
      BY <3>1, <3>2, <2>2, StartKeepsProjects
  <2> QED
    BY <1>4, <2>1, <2>2 DEF FileUnder
<1>5. CASE UNCHANGED projectvars
  BY <1>5 DEF projectvars, ProjectInv, ProjectTypeOK, FreshInv, Inserts, Matching,
              ProjectsForkOnlyByOverlap
<1> QED
  BY <1>1, <1>2, <1>3, <1>4, <1>5 DEF ProjectNext

----------------------------------------------------------------------------
\* Of two projects of one organisation the matcher takes the later for the earlier
\* only if they were inserted without sight of each other, whether or not likeness
\* is symmetric, and a document is filed under a project that exists
\* (app/routers/projects.py, app/routers/documents.py).
THEOREM ForksNeedOverlap == ProjectSpec => [](ProjectTypeOK /\ ProjectsForkOnlyByOverlap)
<1>1. ProjectInit => ProjectInv
  BY InitProjects
<1>2. ProjectInv /\ [ProjectNext]_projectvars => ProjectInv'
  BY NextProjects
<1>3. ProjectInv => ProjectTypeOK /\ ProjectsForkOnlyByOverlap
  BY DEF ProjectInv
<1> QED
  BY <1>1, <1>2, <1>3, PTL DEF ProjectSpec

----------------------------------------------------------------------------
(***************************************************************************)
(* Any number of people, invitations and requests: an invitation makes a   *)
(* member once.  Nothing locks the row, so this rests on who may write it: *)
(* an invitation that no two requests decided together is pending while    *)
(* its one decider is between read and commit (LoneDecider).               *)
(***************************************************************************)
Decides(r, i) == teamreq[r].op \in {"accept", "expire"} /\ teamreq[r].invite = i

\* Who decides an invitation has read a row of it, and alone he still has the
\* row as he read it.
LoneDecider ==
    \A r \in TeamRequests, i \in Invitations :
        Decides(r, i) =>
            /\ invite[i] # NoInvite
            /\ i \notin coincided =>
                   /\ invite[i].status = "pending"
                   /\ \A s \in TeamRequests : Decides(s, i) => s = r

TeamInv == TeamTypeOK /\ LoneDecider /\ InvitationsAreSpentOnce

----------------------------------------------------------------------------
LEMMA InitTeams == TeamInit => TeamInv
<1> SUFFICES ASSUME TeamInit PROVE TeamInv
  OBVIOUS
<1>1. TeamTypeOK
  BY DEF TeamInit, TeamTypeOK
<1>2. LoneDecider
  BY DEF TeamInit, LoneDecider, Decides, NoReq
<1>3. InvitationsAreSpentOnce
  BY DEF TeamInit, InvitationsAreSpentOnce
<1> QED
  BY <1>1, <1>2, <1>3 DEF TeamInv

\* A step that leaves invitations and histories alone and starts no decision.
LEMMA AsideKeepsTeams ==
    ASSUME TeamInv, UNCHANGED <<invite, uses, coincided>>,
           role' \in [People -> TeamRoles \cup {"none"}],
           teamreq' \in [TeamRequests -> {NoReq} \cup RoleChanges \cup Answers],
           \A r \in TeamRequests :
               teamreq'[r] = teamreq[r] \/ teamreq'[r] = NoReq \/ teamreq'[r] \in RoleChanges
    PROVE  TeamInv'
<1>1. TeamTypeOK'
  BY DEF TeamInv, TeamTypeOK
<1>2. \A r \in TeamRequests, i \in Invitations : Decides(r, i)' => Decides(r, i)
  BY DEF Decides, NoReq, RoleChanges
<1>3. LoneDecider'
  BY <1>2 DEF TeamInv, LoneDecider
<1>4. InvitationsAreSpentOnce'
  BY DEF TeamInv, InvitationsAreSpentOnce
<1> QED
  BY <1>1, <1>3, <1>4 DEF TeamInv

LEMMA DeciderType ==
    ASSUME TeamTypeOK, NEW r \in TeamRequests, teamreq[r].op \in {"accept", "expire"}
    PROVE  teamreq[r] \in Answers /\ teamreq[r].invite \in Invitations
  BY DEF TeamTypeOK, NoReq, RoleChanges, Answers

\* A decider answers: nobody else that decides the same invitation is alone, and
\* an invitation that is used up is accepted.
LEMMA DecisionKeepsTeams ==
    ASSUME TeamInv, NEW r \in TeamRequests, NEW i \in Invitations, Decides(r, i),
           NEW status \in {"accepted", "expired"},
           invite' = [invite EXCEPT ![i].status = status],
           Answered(r), UNCHANGED coincided,
           role' \in [People -> TeamRoles \cup {"none"}],
           \/ uses' = uses
           \/ /\ uses' = [uses EXCEPT ![i] = @ + 1]
              /\ i \notin coincided /\ status = "accepted"
    PROVE  TeamInv'
<1>1. teamreq' = [teamreq EXCEPT ![r] = NoReq] /\ TeamTypeOK
  BY DEF Answered, TeamInv
<1>2. invite[i] \in Invites
  BY DEF TeamInv, TeamTypeOK, LoneDecider
<1>3. TeamTypeOK'
  <2>1. invite' \in [Invitations -> {NoInvite} \cup Invites]
    BY <1>1, <1>2 DEF TeamTypeOK, Invites
  <2>2. uses' \in [Invitations -> Nat]
    BY <1>1 DEF TeamTypeOK
  <2> QED
    BY <1>1, <2>1, <2>2 DEF TeamTypeOK
<1>4. \A s \in TeamRequests, j \in Invitations : Decides(s, j)' => s # r /\ Decides(s, j)
  BY <1>1 DEF Decides, NoReq, TeamTypeOK
<1>5. LoneDecider'
  <2> SUFFICES ASSUME NEW s \in TeamRequests, NEW j \in Invitations, Decides(s, j)'
               PROVE  /\ invite'[j] # NoInvite
                      /\ j \notin coincided =>
                             /\ invite'[j].status = "pending"
                             /\ \A t \in TeamRequests : Decides(t, j)' => t = s
    BY DEF LoneDecider
  <2>1. Decides(s, j) /\ s # r
    BY <1>4
  <2>2. CASE j = i
    <3>1. i \in coincided
      BY <2>1, <2>2 DEF TeamInv, LoneDecider
    <3>2. invite'[j] # NoInvite
      BY <2>2, <1>1, <1>2 DEF NoInvite, Invites, TeamTypeOK
    <3> QED
      BY <3>1, <3>2, <2>2
  <2>3. CASE j # i
    BY <2>1, <2>3, <1>1, <1>4 DEF TeamInv, LoneDecider, TeamTypeOK
  <2> QED
    BY <2>2, <2>3
<1>6. InvitationsAreSpentOnce'
  <2>1. CASE i \in coincided
    <3>1. uses' = uses
      BY <2>1
    <3> QED
      BY <3>1, <2>1, <1>1 DEF TeamInv, InvitationsAreSpentOnce, TeamTypeOK
  <2>2. CASE i \notin coincided
    <3>1. invite[i].status = "pending"
      BY <2>2 DEF TeamInv, LoneDecider
    <3>2. uses[i] = 0
      BY <3>1, <2>2, <1>1 DEF TeamInv, InvitationsAreSpentOnce, TeamTypeOK
    <3>3. \A j \in Invitations : j # i => uses'[j] = uses[j] /\ invite'[j] = invite[j]
      BY <1>1 DEF TeamTypeOK
    <3>4. uses'[i] <= 1 /\ (uses'[i] = 1 => invite'[i].status = "accepted")
      BY <3>2, <1>1, <1>2 DEF TeamTypeOK, Invites
    <3> QED
      BY <3>3, <3>4 DEF TeamInv, InvitationsAreSpentOnce
  <2> QED
    BY <2>1, <2>2
<1> QED
  BY <1>3, <1>5, <1>6 DEF TeamInv

LEMMA ReadInvitationKeepsTeams ==
    ASSUME TeamInv, NEW r \in TeamRequests, NEW i \in Invitations, ReadInvitation(r, i)
    PROVE  TeamInv'
<1> DEFINE next == IF Past(i) THEN [op |-> "expire", invite |-> i]
                   ELSE [op |-> "accept", invite |-> i, join |-> ~IsMember(invite[i].person)]
<1>1. /\ teamreq[r] = NoReq /\ teamreq' = [teamreq EXCEPT ![r] = next]
      /\ coincided' = IF DecidingOn(i) = {} THEN coincided ELSE coincided \cup {i}
      /\ UNCHANGED <<role, invite, uses>>
      /\ invite[i] # NoInvite /\ invite[i].status = "pending"
  BY DEF ReadInvitation, Asks, Pending
<1>2. next \in Answers /\ next.op \in {"accept", "expire"} /\ next.invite = i
  BY DEF Answers, IsMember
<1> HIDE DEF next
<1>3. TeamTypeOK'
  BY <1>1, <1>2 DEF TeamInv, TeamTypeOK
<1>4. \A s \in TeamRequests, j \in Invitations :
        Decides(s, j)' <=> (s = r /\ j = i) \/ (s # r /\ Decides(s, j))
  BY <1>1, <1>2 DEF Decides, TeamInv, TeamTypeOK
<1>5. LoneDecider'
  <2> SUFFICES ASSUME NEW s \in TeamRequests, NEW j \in Invitations, Decides(s, j)'
               PROVE  /\ invite[j] # NoInvite
                      /\ j \notin coincided' =>
                             /\ invite[j].status = "pending"
                             /\ \A t \in TeamRequests : Decides(t, j)' => t = s
    BY <1>1 DEF LoneDecider
  <2>1. CASE j = i
    <3>1. j \notin coincided' => \A t \in TeamRequests : ~Decides(t, i)
      BY <2>1, <1>1 DEF DecidingOn, Decides
    <3> QED
      BY <3>1, <2>1, <1>1, <1>4
  <2>2. CASE j # i
    <3>1. Decides(s, j) /\ (j \notin coincided' => j \notin coincided)
      BY <2>2, <1>1, <1>4
    <3> QED
      BY <3>1, <2>2, <1>4 DEF TeamInv, LoneDecider
  <2> QED
    BY <2>1, <2>2
<1>6. InvitationsAreSpentOnce'
  BY <1>1 DEF TeamInv, InvitationsAreSpentOnce
<1> QED
  BY <1>3, <1>5, <1>6 DEF TeamInv

\* An invitation that is issued, or runs out, keeps what was decided of it.
LEMMA RowKeepsTeams ==
    ASSUME TeamInv, NEW i \in Invitations, NEW row \in Invites,
           invite' = [invite EXCEPT ![i] = row],
           invite[i] = NoInvite \/ row.status = invite[i].status,
           UNCHANGED <<role, teamreq, uses, coincided>>
    PROVE  TeamInv'
<1>0. TeamTypeOK /\ row # NoInvite
  BY DEF TeamInv, Invites, NoInvite
<1>1. TeamTypeOK'
  BY <1>0 DEF TeamTypeOK
<1>2. \A j \in Invitations :
        /\ invite'[j] = NoInvite => invite[j] = NoInvite
        /\ invite[j] # NoInvite => invite'[j].status = invite[j].status
  BY <1>0 DEF TeamTypeOK
<1>3. \A s \in TeamRequests, j \in Invitations : Decides(s, j)' <=> Decides(s, j)
  BY DEF Decides
<1>4. LoneDecider'
  BY <1>2, <1>3 DEF TeamInv, LoneDecider
<1>5. InvitationsAreSpentOnce'
  <2>1. \A j \in Invitations : invite[j] = NoInvite => invite[j].status # "accepted"
    BY DEF NoInvite
  <2> QED
    BY <1>2, <2>1 DEF TeamInv, InvitationsAreSpentOnce
<1> QED
  BY <1>1, <1>4, <1>5 DEF TeamInv

LEMMA NextTeams == TeamInv /\ [TeamNext]_teamvars => TeamInv'
<1> SUFFICES ASSUME TeamInv, [TeamNext]_teamvars PROVE TeamInv'
  OBVIOUS
<1>0. TeamTypeOK
  BY DEF TeamInv
<1>1. ASSUME NEW r \in TeamRequests, NEW p \in People, NEW as \in TeamRoles,
             AddTeamMember(r, p, as)
      PROVE  TeamInv'
  BY <1>0, <1>1, AsideKeepsTeams DEF AddTeamMember, Asks, TeamTypeOK, RoleChanges
<1>2. ASSUME NEW r \in TeamRequests, NEW p \in People, NEW as \in TeamRoles,
             UpdateMemberRole(r, p, as)
      PROVE  TeamInv'
  BY <1>0, <1>2, AsideKeepsTeams DEF UpdateMemberRole, Asks, TeamTypeOK, RoleChanges
<1>3. ASSUME NEW r \in TeamRequests, CommitAdd(r) PROVE TeamInv'
  <2>1. teamreq[r] \in RoleChanges
    BY <1>0, <1>3 DEF CommitAdd, TeamTypeOK, NoReq, Answers
  <2>2. role' \in [People -> TeamRoles \cup {"none"}]
    BY <1>0, <1>3, <2>1 DEF CommitAdd, TeamTypeOK, RoleChanges
  <2> QED
    BY <1>0, <1>3, <2>2, AsideKeepsTeams DEF CommitAdd, Answered, TeamTypeOK
<1>4. ASSUME NEW r \in TeamRequests, CommitRole(r) PROVE TeamInv'
  <2>1. teamreq[r] \in RoleChanges
    BY <1>0, <1>4 DEF CommitRole, TeamTypeOK, NoReq, Answers
  <2>2. role' \in [People -> TeamRoles \cup {"none"}]
    BY <1>0, <1>4, <2>1 DEF CommitRole, TeamTypeOK, RoleChanges
  <2> QED
    BY <1>0, <1>4, <2>2, AsideKeepsTeams DEF CommitRole, Answered, TeamTypeOK
<1>5. ASSUME NEW r \in TeamRequests, MarkExpired(r) PROVE TeamInv'
  <2> DEFINE i == teamreq[r].invite
  <2>1. i \in Invitations /\ Decides(r, i)
    BY <1>0, <1>5, DeciderType DEF MarkExpired, Decides
  <2>2. /\ invite' = [invite EXCEPT ![i].status = "expired"]
        /\ Answered(r) /\ UNCHANGED <<role, uses, coincided>>
    BY <1>5 DEF MarkExpired
  <2>3. role' \in [People -> TeamRoles \cup {"none"}]
    BY <1>0, <2>2 DEF TeamTypeOK
  <2> HIDE DEF i
  <2> QED
    BY <2>1, <2>2, <2>3, DecisionKeepsTeams
<1>6. ASSUME NEW r \in TeamRequests, CommitAcceptance(r) PROVE TeamInv'
  <2> DEFINE i == teamreq[r].invite
             p == invite[i].person
  <2>1. i \in Invitations /\ Decides(r, i)
    BY <1>0, <1>6, DeciderType DEF CommitAcceptance, Decides
  <2>2. p \in People
    BY <2>1 DEF TeamInv, TeamTypeOK, LoneDecider, Invites
  <2>3. CASE teamreq[r].join /\ IsMember(p)
    BY <1>0, <1>6, <2>3, AsideKeepsTeams DEF CommitAcceptance, Answered, TeamTypeOK
  <2>4. CASE ~(teamreq[r].join /\ IsMember(p))
    <3>1. /\ invite' = [invite EXCEPT ![i].status = "accepted"]
          /\ role' = IF teamreq[r].join THEN [role EXCEPT ![p] = "member"] ELSE role
          /\ uses' = [uses EXCEPT ![i] =
                          IF teamreq[r].join /\ i \notin coincided THEN @ + 1 ELSE @]
          /\ Answered(r) /\ UNCHANGED coincided
      BY <1>6, <2>4 DEF CommitAcceptance
    <3>2. role' \in [People -> TeamRoles \cup {"none"}]
      BY <1>0, <2>2, <3>1 DEF TeamTypeOK, TeamRoles
    <3>3. \/ uses' = uses
          \/ uses' = [uses EXCEPT ![i] = @ + 1] /\ i \notin coincided
      BY <1>0, <3>1 DEF TeamTypeOK
    <3> HIDE DEF i, p
    <3> QED
      BY <2>1, <3>1, <3>2, <3>3, DecisionKeepsTeams
  <2> QED
    BY <2>3, <2>4
<1>7. ASSUME NEW r \in TeamRequests, TeamRequestDies(r) PROVE TeamInv'
  BY <1>0, <1>7, AsideKeepsTeams DEF TeamRequestDies, Answered, TeamTypeOK
<1>8. ASSUME NEW r \in TeamRequests, NEW i \in Invitations, ReadInvitation(r, i)
      PROVE  TeamInv'
  BY <1>8, ReadInvitationKeepsTeams
<1>9. ASSUME NEW p \in People, RemoveTeamMember(p) PROVE TeamInv'
  BY <1>0, <1>9, AsideKeepsTeams DEF RemoveTeamMember, TeamTypeOK
<1>10. ASSUME NEW p \in People, NEW i \in Invitations, InviteToTeam(i, p) PROVE TeamInv'
  <2> DEFINE row == [status |-> "pending", person |-> p, past |-> FALSE]
  <2>1. row \in Invites
    BY DEF Invites
  <2>2. /\ invite[i] = NoInvite /\ invite' = [invite EXCEPT ![i] = row]
        /\ UNCHANGED <<role, teamreq, uses, coincided>>
    BY <1>10 DEF InviteToTeam
  <2> HIDE DEF row
  <2> QED
    BY <2>1, <2>2, RowKeepsTeams
<1>11. ASSUME NEW i \in Invitations, Expire(i) PROVE TeamInv'
  <2> DEFINE row == [invite[i] EXCEPT !.past = TRUE]
  <2>1. row \in Invites /\ row.status = invite[i].status
    BY <1>0, <1>11 DEF Expire, TeamTypeOK, Invites
  <2>2. invite' = [invite EXCEPT ![i] = row] /\ UNCHANGED <<role, teamreq, uses, coincided>>
    BY <1>11 DEF Expire
  <2> HIDE DEF row
  <2> QED
    BY <2>1, <2>2, RowKeepsTeams
<1>12. CASE UNCHANGED teamvars
  BY <1>12, <1>0, AsideKeepsTeams DEF teamvars, TeamTypeOK
<1> QED
  BY <1>1, <1>2, <1>3, <1>4, <1>5, <1>6, <1>7, <1>8, <1>9, <1>10, <1>11, <1>12
     DEF TeamNext

----------------------------------------------------------------------------
\* An invitation makes a member once and stays accepted, unless two requests
\* decided it together (app/collab/teams.py).
THEOREM InvitationsWorkOnce == TeamSpec => [](TeamTypeOK /\ InvitationsAreSpentOnce)
<1>1. TeamInit => TeamInv
  BY InitTeams
<1>2. TeamInv /\ [TeamNext]_teamvars => TeamInv'
  BY NextTeams
<1>3. TeamInv => TeamTypeOK /\ InvitationsAreSpentOnce
  BY DEF TeamInv
<1> QED
  BY <1>1, <1>2, <1>3, PTL DEF TeamSpec

----------------------------------------------------------------------------
(***************************************************************************)
(* Any number of comments, users and requests: toggles that do not cross   *)
(* add up, since who toggles a pair alone still finds what it read         *)
(* (LoneToggler); a comment is inserted once, under one that is already    *)
(* there, so that no comments hold one another (Grounded) and each listed  *)
(* one hangs under the top or under one deleted; and whoever hangs under a *)
(* deleted one was there or being written when that was deleted            *)
(* (OrphansAreBereft).                                                     *)
(***************************************************************************)
Posted == {c \in Comments : comment[c] # NoComment}

TalkTypeOK ==
    /\ comment \in [Comments -> {NoComment} \cup
                        [row : {"live", "deleted"}, parent : Comments \cup {Top}]]
    /\ reaction \in [Reactors -> SUBSET Comments]
    /\ post \in [Posts -> {NoPost}
                    \cup [op : {"create"}, comment : Comments, parent : Comments \cup {Top}]
                    \cup [op : {"toggle"}, by : Reactors, comment : Comments, there : BOOLEAN]]
    /\ toggles \in [Reactors -> [Comments -> {0, 1}]]
    /\ crossed \in SUBSET (Reactors \X Comments)

\* A comment is inserted once, and under a comment that is there for good.
Creates(r, c) == post[r].op = "create" /\ post[r].comment = c
InsertsAreFresh ==
    \A r \in Posts : post[r].op = "create" =>
        /\ post[r].comment \notin Posted
        /\ post[r].parent \in Posted \cup {Top}
        /\ \A s \in Posts : Creates(s, post[r].comment) => s = r

\* Whatever comments one takes, one of them has its parent elsewhere.
Grounded ==
    /\ \A c \in Posted : comment[c].parent \in Posted \cup {Top}
    /\ \A S \in SUBSET Posted : S # {} => \E c \in S : comment[c].parent \notin S

\* Every reply, there or being written, to a comment that is deleted.
OrphansAreBereft == \A p \in Deleted : Replies(p) \cup Writing(p) \subseteq bereft

\* Of a pair that was never crossed one request at a time has read, and what it
\* read is still so.
LoneToggler ==
    \A r \in Posts :
        (post[r].op = "toggle" /\ <<post[r].by, post[r].comment>> \notin crossed) =>
            /\ post[r].there <=> post[r].comment \in reaction[post[r].by]
            /\ Toggling(post[r].by, post[r].comment) = {r}

TalkInv ==
    /\ TalkTypeOK /\ InsertsAreFresh /\ Grounded /\ OrphansAreBereft
    /\ LoneToggler /\ TogglesAddUp

----------------------------------------------------------------------------
LEMMA TopIsNoComment == Top \notin Comments
BY CommentsAssumption DEF Top

LEMMA InitTalk == TalkInit => TalkInv
<1> SUFFICES ASSUME TalkInit PROVE TalkInv
  OBVIOUS
<1> USE DEF TalkInit, NoComment, NoPost
<1>1. TalkTypeOK
  BY DEF TalkTypeOK
<1>2. InsertsAreFresh
  BY DEF InsertsAreFresh
<1>3. Grounded
  BY DEF Grounded, Posted
<1>4. LoneToggler
  BY DEF LoneToggler
<1>5. TogglesAddUp
  BY DEF TogglesAddUp
<1>6. OrphansAreBereft
  BY DEF OrphansAreBereft, Deleted
<1> QED
  BY <1>1, <1>2, <1>3, <1>4, <1>5, <1>6 DEF TalkInv

LEMMA NextTalkType == TalkTypeOK /\ [TalkNext]_talkvars => TalkTypeOK'
<1> SUFFICES ASSUME TalkTypeOK, [TalkNext]_talkvars PROVE TalkTypeOK'
  OBVIOUS
<1> USE DEF TalkTypeOK
<1>1. ASSUME NEW r \in Posts, NEW c \in Comments, NEW parent \in Comments \cup {Top},
             ReadParent(r, c, parent)
      PROVE  TalkTypeOK'
  BY <1>1 DEF ReadParent, Starts
<1>2. ASSUME NEW r \in Posts, NEW c \in Comments, NEW x \in Reactors, ReadReaction(r, x, c)
      PROVE  TalkTypeOK'
  <2>1. post' \in [Posts -> {NoPost}
                    \cup [op : {"create"}, comment : Comments, parent : Comments \cup {Top}]
                    \cup [op : {"toggle"}, by : Reactors, comment : Comments, there : BOOLEAN]]
    BY <1>2 DEF ReadReaction, Starts
  <2> QED
    BY <1>2, <2>1 DEF ReadReaction
<1>3. ASSUME NEW r \in Posts, InsertComment(r) PROVE TalkTypeOK'
  BY <1>3 DEF InsertComment, Done, NoPost
<1>4. ASSUME NEW r \in Posts, WriteReaction(r) PROVE TalkTypeOK'
  <2>1. post[r].by \in Reactors /\ post[r].comment \in Comments
    BY <1>4 DEF WriteReaction, NoPost
  <2>2. Toggled(post[r]) \in SUBSET Comments
    BY <2>1 DEF Toggled
  <2> DEFINE x == post[r].by
             c == post[r].comment
             n == IF <<x, c>> \in crossed THEN 0 ELSE (toggles[x][c] + 1) % 2
  <2>3. n \in {0, 1} /\ toggles' = [toggles EXCEPT ![x][c] = n]
    BY <1>4, <2>1 DEF WriteReaction
  <2> HIDE DEF n
  <2>4. toggles' \in [Reactors -> [Comments -> {0, 1}]]
    BY <2>1, <2>3
  <2> QED
    BY <1>4, <2>2, <2>4 DEF WriteReaction
<1>5. ASSUME NEW r \in Posts, PostDies(r) PROVE TalkTypeOK'
  BY <1>5 DEF PostDies, Done
<1>6. ASSUME NEW c \in Comments, DeleteComment(c) PROVE TalkTypeOK'
  BY <1>6 DEF DeleteComment, Visible, NoComment
<1>7. CASE UNCHANGED talkvars
  BY <1>7 DEF talkvars
<1> QED
  BY <1>1, <1>2, <1>3, <1>4, <1>5, <1>6, <1>7 DEF TalkNext

----------------------------------------------------------------------------
(* The tree of comments *)

\* The one step that adds a row.
LEMMA InsertKeepsGrounded ==
    ASSUME TalkTypeOK, InsertsAreFresh, Grounded, NEW r \in Posts, InsertComment(r)
    PROVE  Grounded'
<1> DEFINE n == post[r].comment
           p == post[r].parent
<1>1. /\ n \in Comments /\ n \notin Posted /\ p \in Posted \cup {Top}
      /\ comment' = [comment EXCEPT ![n] = [row |-> "live", parent |-> p]]
  BY DEF TalkTypeOK, InsertsAreFresh, InsertComment, NoPost
<1>2. Posted' = Posted \cup {n}
  BY <1>1 DEF Posted, TalkTypeOK, NoComment
<1>3. comment'[n].parent = p /\ \A c \in Posted : comment'[c].parent = comment[c].parent
  BY <1>1 DEF TalkTypeOK, Posted
<1>4. p # n
  BY <1>1, TopIsNoComment
<1> HIDE DEF n, p
<1>5. ASSUME NEW S \in SUBSET Posted', S # {} PROVE \E c \in S : comment'[c].parent \notin S
  <2>1. CASE S \ {n} = {}
    BY <1>3, <1>4, <1>5, <2>1
  <2>2. CASE S \ {n} # {}
    <3>1. PICK c \in S \ {n} : comment[c].parent \notin S \ {n}
      BY <1>2, <1>5, <2>2 DEF Grounded
    <3>2. c \in Posted /\ comment[c].parent \in Posted \cup {Top}
      BY <1>2, <1>5, <3>1 DEF Grounded
    <3>3. comment[c].parent # n
      BY <1>1, <3>2, TopIsNoComment
    <3> QED
      BY <1>3, <3>1, <3>2, <3>3
  <2> QED
    BY <2>1, <2>2
<1> QED
  BY <1>1, <1>2, <1>3, <1>5 DEF Grounded

LEMMA NextTree ==
    TalkTypeOK /\ InsertsAreFresh /\ Grounded /\ [TalkNext]_talkvars
        => InsertsAreFresh' /\ Grounded'
<1> SUFFICES ASSUME TalkTypeOK, InsertsAreFresh, Grounded, [TalkNext]_talkvars
             PROVE  InsertsAreFresh' /\ Grounded'
  OBVIOUS
<1>1. ASSUME UNCHANGED comment,
             \A r \in Posts : post'[r].op = "create" => post'[r] = post[r]
      PROVE  InsertsAreFresh' /\ Grounded'
  <2>1. Posted' = Posted
    BY <1>1 DEF Posted
  <2> QED
    BY <1>1, <2>1 DEF InsertsAreFresh, Grounded, Creates
<1>2. ASSUME NEW r \in Posts, NEW c \in Comments, NEW parent \in Comments \cup {Top},
             ReadParent(r, c, parent)
      PROVE  InsertsAreFresh' /\ Grounded'
  <2>1. /\ UNCHANGED comment /\ c \notin Posted /\ parent \in Posted \cup {Top}
        /\ \A s \in Posts : ~Creates(s, c)
    BY <1>2 DEF ReadParent, Taken, Parents, Posted, Creates, Visible, NoComment
  <2>2. /\ post'[r] = [op |-> "create", comment |-> c, parent |-> parent]
        /\ \A s \in Posts \ {r} : post'[s] = post[s]
    BY <1>2 DEF ReadParent, Starts, TalkTypeOK
  <2>3. Posted' = Posted
    BY <2>1 DEF Posted
  <2>4. InsertsAreFresh'
    BY <2>1, <2>2, <2>3 DEF InsertsAreFresh, Creates
  <2> QED
    BY <2>1, <2>3, <2>4 DEF Grounded
<1>3. ASSUME NEW r \in Posts, NEW c \in Comments, NEW x \in Reactors, ReadReaction(r, x, c)
      PROVE  InsertsAreFresh' /\ Grounded'
  BY <1>1, <1>3 DEF ReadReaction, Starts, TalkTypeOK
<1>4. ASSUME NEW r \in Posts, InsertComment(r) PROVE InsertsAreFresh' /\ Grounded'
  <2>1. /\ post'[r] = NoPost /\ \A s \in Posts \ {r} : post'[s] = post[s]
        /\ Posted' = Posted \cup {post[r].comment}
    BY <1>4 DEF InsertComment, Done, TalkTypeOK, Posted, NoComment, NoPost
  <2>2. \A s \in Posts \ {r} : post[s].op = "create" => post[s].comment # post[r].comment
    BY <1>4 DEF InsertComment, InsertsAreFresh, Creates
  <2>3. InsertsAreFresh'
    BY <2>1, <2>2 DEF InsertsAreFresh, Creates, NoPost
  <2> QED
    BY <1>4, <2>3, InsertKeepsGrounded
<1>5. ASSUME NEW r \in Posts, WriteReaction(r) PROVE InsertsAreFresh' /\ Grounded'
  BY <1>1, <1>5 DEF WriteReaction, NoPost
<1>6. ASSUME NEW r \in Posts, PostDies(r) PROVE InsertsAreFresh' /\ Grounded'
  BY <1>1, <1>6 DEF PostDies, Done, TalkTypeOK, NoPost
<1>7. ASSUME NEW c \in Comments, DeleteComment(c) PROVE InsertsAreFresh' /\ Grounded'
  <2>1. Posted' = Posted /\ UNCHANGED post
    BY <1>7 DEF DeleteComment, Posted, TalkTypeOK, Visible, NoComment
  <2>2. \A b \in Posted : comment'[b].parent = comment[b].parent
    BY <1>7 DEF DeleteComment, Posted, TalkTypeOK
  <2>3. InsertsAreFresh'
    BY <2>1 DEF InsertsAreFresh, Creates
  <2>4. Grounded'
    BY <2>1, <2>2 DEF Grounded
  <2> QED
    BY <2>3, <2>4
<1>8. CASE UNCHANGED talkvars
  BY <1>1, <1>8 DEF talkvars
<1> QED
  BY <1>2, <1>3, <1>4, <1>5, <1>6, <1>7, <1>8 DEF TalkNext

\* Comments are deleted one by one, and no request takes a deleted one for a
\* parent: who hangs under it was there, or being written, at that step.
LEMMA NextOrphans ==
    TalkTypeOK /\ InsertsAreFresh /\ OrphansAreBereft /\ [TalkNext]_talkvars => OrphansAreBereft'
<1> SUFFICES ASSUME TalkTypeOK, InsertsAreFresh, OrphansAreBereft, [TalkNext]_talkvars
             PROVE  OrphansAreBereft'
  OBVIOUS
<1>1. ASSUME UNCHANGED <<comment, bereft>>,
             \A r \in Posts : post'[r].op = "create" => post'[r] = post[r]
      PROVE  OrphansAreBereft'
  <2>1. Deleted' = Deleted /\ \A p \in Deleted : Replies(p)' = Replies(p)
    BY <1>1 DEF Deleted, Replies
  <2>2. \A p \in Deleted : Writing(p)' \subseteq Writing(p)
    BY <1>1 DEF Writing
  <2> QED
    BY <1>1, <2>1, <2>2 DEF OrphansAreBereft
<1>2. ASSUME NEW r \in Posts, NEW c \in Comments, NEW parent \in Comments \cup {Top},
             ReadParent(r, c, parent)
      PROVE  OrphansAreBereft'
  <2>1. /\ UNCHANGED comment /\ bereft' = bereft \ {c} /\ parent \notin Deleted
        /\ comment[c] = NoComment
        /\ \A s \in Posts : ~Creates(s, c)
    BY <1>2, TopIsNoComment DEF ReadParent, Taken, Parents, Creates, Visible, Deleted
  <2>2. /\ post'[r] = [op |-> "create", comment |-> c, parent |-> parent]
        /\ \A s \in Posts \ {r} : post'[s] = post[s]
    BY <1>2 DEF ReadParent, Starts, TalkTypeOK
  <2>3. Deleted' = Deleted /\ \A p \in Deleted : Replies(p)' = Replies(p)
    BY <2>1 DEF Deleted, Replies
  <2>4. \A p \in Deleted : Writing(p)' \subseteq Writing(p)
    BY <2>1, <2>2 DEF Writing
  <2>5. \A p \in Deleted : c \notin Replies(p) \cup Writing(p)
    BY <2>1 DEF Replies, Writing, Creates
  <2> QED
    BY <2>1, <2>3, <2>4, <2>5 DEF OrphansAreBereft
<1>3. ASSUME NEW r \in Posts, NEW c \in Comments, NEW x \in Reactors, ReadReaction(r, x, c)
      PROVE  OrphansAreBereft'
  BY <1>1, <1>3 DEF ReadReaction, Starts, TalkTypeOK
<1>4. ASSUME NEW r \in Posts, InsertComment(r) PROVE OrphansAreBereft'
  <2> DEFINE n == post[r].comment
             q == post[r].parent
  <2>1. /\ n \in Comments /\ n \notin Posted
        /\ comment' = [comment EXCEPT ![n] = [row |-> "live", parent |-> q]]
        /\ post[r].op = "create" /\ UNCHANGED bereft
        /\ post'[r] = NoPost /\ \A s \in Posts \ {r} : post'[s] = post[s]
    BY <1>4 DEF TalkTypeOK, InsertsAreFresh, InsertComment, Done, NoPost
  <2>2. /\ comment'[n].row = "live" /\ comment'[n].parent = q
        /\ \A b \in Comments \ {n} : comment'[b] = comment[b]
    BY <2>1 DEF TalkTypeOK
  <2>3. n \in Writing(q)
    BY <2>1 DEF Writing
  <2> HIDE DEF n, q
  <2>4. Deleted' \subseteq Deleted
    BY <2>2 DEF Deleted
  <2>5. \A p \in Deleted : Writing(p)' \subseteq Writing(p)
    BY <2>1 DEF Writing, NoPost
  <2>6. \A p \in Deleted : Replies(p)' \subseteq Replies(p) \cup Writing(p)
    BY <2>2, <2>3 DEF Replies
  <2> QED
    BY <2>1, <2>4, <2>5, <2>6 DEF OrphansAreBereft
<1>5. ASSUME NEW r \in Posts, WriteReaction(r) PROVE OrphansAreBereft'
  BY <1>1, <1>5 DEF WriteReaction, NoPost
<1>6. ASSUME NEW r \in Posts, PostDies(r) PROVE OrphansAreBereft'
  BY <1>1, <1>6 DEF PostDies, Done, TalkTypeOK, NoPost
<1>7. ASSUME NEW c \in Comments, DeleteComment(c) PROVE OrphansAreBereft'
  <2>1. /\ UNCHANGED post /\ bereft' = bereft \cup Replies(c) \cup Writing(c)
        /\ comment[c] # NoComment
        /\ comment' = [comment EXCEPT ![c].row = "deleted"]
    BY <1>7 DEF DeleteComment, Visible, NoComment
  <2>2. /\ comment'[c].parent = comment[c].parent
        /\ \A b \in Comments \ {c} : comment'[b] = comment[b]
    BY <2>1 DEF TalkTypeOK
  <2>3. Deleted' \subseteq Deleted \cup {c}
    BY <2>2 DEF Deleted
  <2>4. \A p \in Comments : Writing(p)' = Writing(p)
    BY <2>1 DEF Writing
  <2>5. \A p \in Comments : Replies(p)' \subseteq Replies(p)
    BY <2>1, <2>2 DEF Replies
  <2>6. Deleted \subseteq Comments
    BY DEF Deleted
  <2> QED
    BY <2>1, <2>3, <2>4, <2>5, <2>6 DEF OrphansAreBereft
<1>8. CASE UNCHANGED talkvars
  BY <1>1, <1>8 DEF talkvars
<1> QED
  BY <1>2, <1>3, <1>4, <1>5, <1>6, <1>7, <1>8 DEF TalkNext

\* Whoever is below has a parent above or below, and the other way round.
LEMMA BelowUnfolds ==
    ASSUME NEW above, NEW c \in Listed
    PROVE  c \in Below(above) <=> comment[c].parent \in above \cup Below(above)
<1>1. ASSUME comment[c].parent \in above \cup Below(above) PROVE c \in Below(above)
  <2> SUFFICES ASSUME NEW S \in SUBSET Listed, ChildrenOf(above \cup S) \subseteq S PROVE c \in S
    BY DEF Below
  <2>1. comment[c].parent \in above \cup S
    BY <1>1 DEF Below
  <2> QED
    BY <2>1 DEF ChildrenOf
<1>2. ASSUME c \in Below(above), comment[c].parent \notin above \cup Below(above) PROVE FALSE
  <2> DEFINE S == Below(above) \ {c}
  <2>1. S \in SUBSET Listed
    BY DEF Below
  <2>2. ASSUME NEW b \in ChildrenOf(above \cup S) PROVE b \in S
    <3>1. b \in Listed /\ comment[b].parent \in above \cup Below(above)
      BY <2>2 DEF ChildrenOf
    <3>2. b # c
      BY <1>2, <3>1
    <3>3. b \in Below(above)
      <4> SUFFICES ASSUME NEW R \in SUBSET Listed, ChildrenOf(above \cup R) \subseteq R
                   PROVE  b \in R
        BY <3>1 DEF Below
      <4>1. comment[b].parent \in above \cup R
        BY <3>1 DEF Below
      <4> QED
        BY <3>1, <4>1 DEF ChildrenOf
    <3> QED
      BY <3>2, <3>3
  <2>3. c \in S
    BY <1>2, <2>1, <2>2 DEF Below
  <2> QED
    BY <2>3
<1> QED
  BY <1>1, <1>2

\* A comment that is in neither view, or in both, has such a parent; and there
\* is no set of comments that all have their parent in it.
LEMMA TreeIsSplit == TalkTypeOK /\ Grounded => Threaded = Listed \ Below(Deleted)
<1> SUFFICES ASSUME TalkTypeOK, Grounded PROVE Threaded = Listed \ Below(Deleted)
  OBVIOUS
<1> DEFINE Under == Below(Deleted)
           Wrong == {c \in Listed : c \in Threaded <=> c \in Under}
<1>1. /\ Listed \subseteq Posted /\ Posted = Listed \cup Deleted
      /\ Listed \cap Deleted = {} /\ Top \notin Posted
  BY TopIsNoComment DEF Listed, Deleted, Posted, Visible, NoComment, TalkTypeOK
<1>2. Threaded \subseteq Listed /\ Under \subseteq Listed
  BY DEF Threaded, Below
<1>3. ASSUME NEW c \in Wrong PROVE comment[c].parent \in Wrong
  <2>1. comment[c].parent \in Posted \cup {Top}
    BY <1>1 DEF Grounded
  <2>2. c \in Threaded <=> comment[c].parent \in {Top} \cup Threaded
    BY BelowUnfolds DEF Threaded
  <2>3. c \in Under <=> comment[c].parent \in Deleted \cup Under
    BY BelowUnfolds
  <2> HIDE DEF Under
  <2> QED
    BY <1>1, <1>2, <2>1, <2>2, <2>3
<1>4. Wrong = {}
  BY <1>1, <1>3 DEF Grounded
<1> QED
  BY <1>2, <1>4

LEMMA OrphansAreKnown ==
    TalkTypeOK /\ OrphansAreBereft
        => \A c \in Listed : comment[c].parent \in Deleted => c \in bereft
BY DEF OrphansAreBereft, Replies, Listed, Visible, NoComment

----------------------------------------------------------------------------
(* Reactions *)

LEMMA TogglerType ==
    ASSUME TalkTypeOK, NEW r \in Posts, post[r].op = "toggle"
    PROVE  /\ post[r].by \in Reactors /\ post[r].comment \in Comments
           /\ post[r].there \in BOOLEAN
BY DEF TalkTypeOK, NoPost

\* Requests may come and go as long as no new one toggles.
LEMMA FewerTogglers ==
    ASSUME TalkInv, UNCHANGED <<reaction, toggles, crossed>>,
           \A r \in Posts : post'[r].op = "toggle" => post'[r] = post[r]
    PROVE  LoneToggler' /\ TogglesAddUp'
<1>1. ASSUME NEW r \in Posts, post'[r].op = "toggle",
             <<post'[r].by, post'[r].comment>> \notin crossed'
      PROVE  /\ post'[r].there <=> post'[r].comment \in reaction'[post'[r].by]
             /\ Toggling(post[r].by, post[r].comment)' = {r}
  <2>1. post'[r] = post[r]
    BY <1>1
  <2>2. /\ post[r].there <=> post[r].comment \in reaction[post[r].by]
        /\ Toggling(post[r].by, post[r].comment) = {r}
    BY <1>1, <2>1 DEF TalkInv, LoneToggler
  <2>3. \A s \in Posts : (post'[s].op = "toggle" /\ post'[s].by = post[r].by
                              /\ post'[s].comment = post[r].comment) <=> s = r
    BY <1>1, <2>1, <2>2 DEF Toggling
  <2> QED
    BY <2>1, <2>2, <2>3 DEF Toggling
<1>2. LoneToggler'
  BY <1>1 DEF LoneToggler
<1> QED
  BY <1>2 DEF TalkInv, TogglesAddUp

LEMMA ReadReactionKeepsParity ==
    ASSUME TalkInv, NEW r \in Posts, NEW x \in Reactors, NEW c \in Comments,
           ReadReaction(r, x, c)
    PROVE  LoneToggler' /\ TogglesAddUp'
<1>1. /\ \A s \in Posts \ {r} : post'[s] = post[s]
      /\ UNCHANGED <<reaction, toggles>>
      /\ crossed' = IF Toggling(x, c) = {} THEN crossed ELSE crossed \cup {<<x, c>>}
      /\ post[r] = NoPost
  BY DEF ReadReaction, Starts, TalkInv, TalkTypeOK
<1>2. /\ post'[r].op = "toggle" /\ post'[r].by = x /\ post'[r].comment = c
      /\ post'[r].there <=> c \in reaction[x]
  <2> DEFINE next == [op |-> "toggle", by |-> x, comment |-> c, there |-> c \in reaction[x]]
  <2>1. post' = [post EXCEPT ![r] = next]
    BY DEF ReadReaction, Starts
  <2>2. /\ next.op = "toggle" /\ next.by = x /\ next.comment = c
        /\ next.there <=> c \in reaction[x]
    OBVIOUS
  <2> HIDE DEF next
  <2>3. post'[r] = next
    BY <2>1 DEF TalkInv, TalkTypeOK
  <2> QED
    BY <2>2, <2>3
<1>3. ASSUME NEW s \in Posts, post'[s].op = "toggle",
             <<post'[s].by, post'[s].comment>> \notin crossed'
      PROVE  /\ post'[s].there <=> post'[s].comment \in reaction'[post'[s].by]
             /\ Toggling(post[s].by, post[s].comment)' = {s}
  <2>1. CASE s = r
    <3>1. Toggling(x, c) = {}
      BY <1>1, <1>2, <1>3, <2>1
    <3>2. \A t \in Posts : (post'[t].op = "toggle" /\ post'[t].by = x
                                /\ post'[t].comment = c) <=> t = r
      BY <1>1, <1>2, <3>1 DEF Toggling
    <3>3. Toggling(x, c)' = {r}
      BY <3>2 DEF Toggling
    <3> QED
      BY <1>1, <1>2, <2>1, <3>3
  <2>2. CASE s # r
    <3> DEFINE y == post[s].by
               d == post[s].comment
    <3>1. post'[s] = post[s] /\ <<y, d>> \notin crossed
      BY <1>1, <1>3, <2>2
    <3>2. (post[s].there <=> d \in reaction[y]) /\ Toggling(y, d) = {s}
      BY <1>3, <3>1 DEF TalkInv, LoneToggler
    <3>3. <<x, c>> # <<y, d>>
      BY <1>1, <1>3, <3>1, <3>2
    <3>4. \A t \in Posts : (post'[t].op = "toggle" /\ post'[t].by = y
                                /\ post'[t].comment = d) <=> t = s
      BY <1>1, <1>2, <2>2, <3>2, <3>3 DEF Toggling, NoPost
    <3>5. Toggling(y, d)' = {s}
      BY <3>4 DEF Toggling
    <3> QED
      BY <1>1, <3>1, <3>2, <3>5
  <2> QED
    BY <2>1, <2>2
<1>4. LoneToggler'
  BY <1>3 DEF LoneToggler
<1>5. TogglesAddUp'
  BY <1>1 DEF TalkInv, TogglesAddUp
<1> QED
  BY <1>4, <1>5

LEMMA WriteReactionKeepsParity ==
    ASSUME TalkInv, NEW r \in Posts, WriteReaction(r)
    PROVE  LoneToggler' /\ TogglesAddUp'
<1> DEFINE x == post[r].by
           c == post[r].comment
<1>1. /\ post[r].op = "toggle" /\ x \in Reactors /\ c \in Comments
      /\ UNCHANGED crossed
  BY TogglerType DEF WriteReaction, TalkInv
<1>2. \A s \in Posts : post'[s] = NoPost \/ (s # r /\ post'[s] = post[s])
  <2> TAKE s \in Posts
  <2>1. post'[s] = IF s = r \/ Outrun(s, post[r]) THEN NoPost ELSE post[s]
    BY DEF WriteReaction
  <2> QED
    BY <2>1
<1>3. /\ reaction'[x] = Toggled(post[r])
      /\ \A y \in Reactors \ {x} : reaction'[y] = reaction[y]
  BY <1>1 DEF WriteReaction, TalkInv, TalkTypeOK
<1>4. /\ toggles'[x][c] = IF <<x, c>> \in crossed THEN 0 ELSE (toggles[x][c] + 1) % 2
      /\ \A y \in Reactors, d \in Comments :
             <<y, d>> # <<x, c>> => toggles'[y][d] = toggles[y][d]
  BY <1>1 DEF WriteReaction, TalkInv, TalkTypeOK
<1>5. \A y \in Reactors, d \in Comments :
          <<y, d>> # <<x, c>> => (d \in reaction'[y] <=> d \in reaction[y])
  BY <1>3 DEF Toggled
<1>6. <<x, c>> \notin crossed => (c \in reaction'[x] <=> c \notin reaction[x])
  <2> SUFFICES ASSUME <<x, c>> \notin crossed PROVE c \in reaction'[x] <=> c \notin reaction[x]
    OBVIOUS
  <2>1. post[r].there <=> c \in reaction[x]
    BY <1>1 DEF TalkInv, LoneToggler
  <2> QED
    BY <1>3, <2>1 DEF Toggled
<1>7. toggles[x][c] \in {0, 1}
  BY <1>1 DEF TalkInv, TalkTypeOK
<1>8. TogglesAddUp'
  <2> SUFFICES ASSUME NEW y \in Reactors, NEW d \in Comments, <<y, d>> \notin crossed
               PROVE  d \in reaction'[y] <=> toggles'[y][d] = 1
    BY <1>1 DEF TogglesAddUp
  <2>1. d \in reaction[y] <=> toggles[y][d] = 1
    BY DEF TalkInv, TogglesAddUp
  <2>2. CASE y = x /\ d = c
    <3>1. toggles'[x][c] = (toggles[x][c] + 1) % 2
      BY <1>4, <2>2
    <3>2. toggles'[x][c] = 1 <=> toggles[x][c] # 1
      BY <1>7, <3>1
    <3> QED
      BY <1>6, <2>1, <2>2, <3>2
  <2>3. CASE ~(y = x /\ d = c)
    BY <1>4, <1>5, <2>1, <2>3
  <2> QED
    BY <2>2, <2>3
<1>9. ASSUME NEW s \in Posts, post'[s].op = "toggle",
             <<post'[s].by, post'[s].comment>> \notin crossed'
      PROVE  /\ post'[s].there <=> post'[s].comment \in reaction'[post'[s].by]
             /\ Toggling(post[s].by, post[s].comment)' = {s}
  <2> DEFINE y == post[s].by
             d == post[s].comment
  <2>1. s # r /\ post'[s] = post[s] /\ <<y, d>> \notin crossed
    BY <1>1, <1>2, <1>9 DEF NoPost
  <2>2. y \in Reactors /\ d \in Comments
    BY <1>9, <2>1, TogglerType DEF TalkInv
  <2>3. (post[s].there <=> d \in reaction[y]) /\ Toggling(y, d) = {s}
    BY <1>9, <2>1 DEF TalkInv, LoneToggler
  <2>4. <<y, d>> # <<x, c>>
    BY <1>1, <2>1, <2>3 DEF Toggling
  <2>5. \A t \in Posts : (post'[t].op = "toggle" /\ post'[t].by = y
                              /\ post'[t].comment = d) <=> t = s
    BY <1>2, <1>9, <2>1, <2>3 DEF Toggling, NoPost
  <2>6. Toggling(y, d)' = {s}
    BY <2>5 DEF Toggling
  <2> QED
    BY <1>5, <2>1, <2>2, <2>3, <2>4, <2>6
<1> QED
  BY <1>8, <1>9 DEF LoneToggler

LEMMA NextParity == TalkInv /\ [TalkNext]_talkvars => LoneToggler' /\ TogglesAddUp'
<1> SUFFICES ASSUME TalkInv, [TalkNext]_talkvars PROVE LoneToggler' /\ TogglesAddUp'
  OBVIOUS
<1> USE DEF NoPost
<1>1. ASSUME NEW r \in Posts, NEW c \in Comments, NEW parent, ReadParent(r, c, parent)
      PROVE  LoneToggler' /\ TogglesAddUp'
  BY <1>1, FewerTogglers DEF ReadParent, Starts, TalkInv, TalkTypeOK
<1>2. ASSUME NEW r \in Posts, NEW c \in Comments, NEW x \in Reactors, ReadReaction(r, x, c)
      PROVE  LoneToggler' /\ TogglesAddUp'
  BY <1>2, ReadReactionKeepsParity
<1>3. ASSUME NEW r \in Posts, InsertComment(r) PROVE LoneToggler' /\ TogglesAddUp'
  BY <1>3, FewerTogglers DEF InsertComment, Done, TalkInv, TalkTypeOK
<1>4. ASSUME NEW r \in Posts, WriteReaction(r) PROVE LoneToggler' /\ TogglesAddUp'
  BY <1>4, WriteReactionKeepsParity
<1>5. ASSUME NEW r \in Posts, PostDies(r) PROVE LoneToggler' /\ TogglesAddUp'
  BY <1>5, FewerTogglers DEF PostDies, Done, TalkInv, TalkTypeOK
<1>6. ASSUME NEW c \in Comments, DeleteComment(c) PROVE LoneToggler' /\ TogglesAddUp'
  BY <1>6, FewerTogglers DEF DeleteComment
<1>7. CASE UNCHANGED talkvars
  BY <1>7, FewerTogglers DEF talkvars
<1> QED
  BY <1>1, <1>2, <1>3, <1>4, <1>5, <1>6, <1>7 DEF TalkNext

----------------------------------------------------------------------------
\* With any number of users, comments and requests, reactions count up to the
\* parity of the toggles unless a user crossed his own (toggle_reaction in
\* app/collab/reactions.py).
THEOREM DiscussionHolds == TalkSpec => [](TalkTypeOK /\ TogglesAddUp)
<1>1. TalkInit => TalkInv
  BY InitTalk
<1>2. TalkInv /\ [TalkNext]_talkvars => TalkInv'
  BY NextTalkType, NextTree, NextOrphans, NextParity DEF TalkInv
<1>3. TalkInv => TalkTypeOK /\ TogglesAddUp
  BY DEF TalkInv
<1> QED
  BY <1>1, <1>2, <1>3, PTL DEF TalkSpec

\* The threaded view leaves out of the flat list what is below a deleted comment
\* and nothing else, and who is right below one was there, or being written, when
\* it was deleted, whatever else was posted, answered and deleted
\* (build_comment_tree in app/collab/threads.py, create_comment in
\* app/collab/comments.py).
THEOREM ThreadsLoseOnlyOrphans == TalkSpec => []ThreadsHideOnlyUnderDeleted
<1>1. TalkInit => TalkInv
  BY InitTalk
<1>2. TalkInv /\ [TalkNext]_talkvars => TalkInv'
  BY NextTalkType, NextTree, NextOrphans, NextParity DEF TalkInv
<1>3. TalkInv => ThreadsHideOnlyUnderDeleted
  BY TreeIsSplit, OrphansAreKnown DEF TalkInv, ThreadsHideOnlyUnderDeleted
<1> QED
  BY <1>1, <1>2, <1>3, PTL DEF TalkSpec

----------------------------------------------------------------------------
(***************************************************************************)
(* Any levels, hours, weekdays and requests: the settings stay what some PATCH*)
(* validated as a whole, unless two overlapped.  A PATCH validates the row it*)
(* read with its changes on it and writes the changes only, one at a time for*)
(* the tunables; until another commits, what it is still to write makes of the*)
(* row what it validated (ValidatedIsWritten).                             *)
(***************************************************************************)
Schedules == [cadence : Maybe({"daily", "weekly"}), hour : Maybe(Hours), weekday : Maybe(Weekdays)]

\* What is to be written names fields of the row, each with a value it may have.
FieldsOf(writes, values) ==
    \A f \in DOMAIN writes : f \in DOMAIN values /\ writes[f] \in values[f]

InFlight(q) ==
    /\ q = [of |-> q.of, writes |-> q.writes, overtaken |-> q.overtaken]
    /\ q.overtaken \in BOOLEAN
    /\ \/ q.of = "schedule" /\ FieldsOf(q.writes, ScheduleValues)
       \/ q.of = "tunables" /\ FieldsOf(q.writes, TunableValues)

ConfigTypeOK ==
    /\ schedule \in Schedules
    /\ tunable \in Tunables
    /\ patch = [r \in Patches |-> patch[r]]
    /\ \A r \in Patches : patch[r] # NoPatch => InFlight(patch[r])

WellFormed(row) ==
    /\ row.cadence # "none" => row.hour # "none"
    /\ row.cadence = "weekly" => row.weekday # "none"
    /\ row.weekday # "none" => row.cadence = "weekly"
InOrder(row) == row.floor < row.covered

\* Until another commits, a PATCH still to write makes of the row what it validated.
ValidatedIsWritten ==
    \A r \in Patches :
        /\ (patch[r].of = "schedule" /\ ~patch[r].overtaken) =>
               WellFormed(Over(schedule, patch[r].writes))
        /\ (patch[r].of = "tunables" /\ ~patch[r].overtaken) =>
               InOrder(Over(tunable, patch[r].writes))

ConfigInv == ConfigTypeOK /\ ValidatedIsWritten /\ ValidatedIsStored

----------------------------------------------------------------------------
LEMMA ScheduleRow ==
    ASSUME NEW row \in Schedules, NEW writes, FieldsOf(writes, ScheduleValues)
    PROVE  Over(row, writes) \in Schedules
<1>1. DOMAIN row = {"cadence", "hour", "weekday"}
  BY DEF Schedules
<1>2. \A f \in DOMAIN writes : f \in {"cadence", "hour", "weekday"} => writes[f] \in ScheduleValues[f]
  BY DEF FieldsOf
<1> QED
  BY <1>1, <1>2 DEF Over, ScheduleValues, Schedules

LEMMA TunableRow ==
    ASSUME NEW row \in Tunables, NEW writes, FieldsOf(writes, TunableValues)
    PROVE  Over(row, writes) \in Tunables
<1>1. DOMAIN row = {"floor", "covered"}
  BY DEF Tunables
<1>2. \A f \in DOMAIN writes : f \in {"floor", "covered"} => writes[f] \in TunableValues[f]
  BY DEF FieldsOf
<1> QED
  BY <1>1, <1>2 DEF Over, TunableValues, Tunables

LEMMA BodiesAreFields ==
    ASSUME NEW values, NEW asked \in Bodies(values) PROVE FieldsOf(asked, values)
BY DEF Bodies, FieldsOf

\* A validated schedule is one that fires.
LEMMA SettledIsWellFormed ==
    ASSUME NEW want \in Schedules, Accepted(want)
    PROVE  Settled(want) \in Schedules /\ WellFormed(Settled(want))
<1>1. NoSchedule \in Schedules /\ WellFormed(NoSchedule)
  BY DEF NoSchedule, Schedules, WellFormed, Maybe
<1>2. CASE want.cadence = "none"
  BY <1>1, <1>2 DEF Settled
<1>3. CASE want.cadence = "daily"
  <2>1. Settled(want) = [want EXCEPT !.weekday = "none"]
    BY <1>3 DEF Settled
  <2> QED
    BY <1>3, <2>1 DEF Schedules, WellFormed, Accepted, Maybe
<1>4. CASE want.cadence = "weekly"
  <2>1. Settled(want) = want
    BY <1>4 DEF Settled
  <2> QED
    BY <1>4, <2>1 DEF WellFormed, Accepted
<1> QED
  BY <1>2, <1>3, <1>4 DEF Schedules, Maybe

\* What changed, over the row, is the new row.
LEMMA ChangedOverRow ==
    ASSUME NEW row \in Schedules, NEW new \in Schedules
    PROVE  LET changed == [f \in {g \in DOMAIN new : new[g] # row[g]} |-> new[f]]
           IN  Over(row, changed) = new /\ FieldsOf(changed, ScheduleValues)
<1> DEFINE changed == [f \in {g \in DOMAIN new : new[g] # row[g]} |-> new[f]]
<1>1. Over(row, changed) = new
  BY DEF Over, Schedules
<1>2. FieldsOf(changed, ScheduleValues)
  BY DEF FieldsOf, ScheduleValues, Schedules
<1> QED
  BY <1>1, <1>2

----------------------------------------------------------------------------
LEMMA InitConfig == ConfigInit => ConfigInv
<1> SUFFICES ASSUME ConfigInit PROVE ConfigInv
  OBVIOUS
<1>1. ConfigTypeOK
  BY DEF ConfigInit, ConfigTypeOK, NoSchedule, Schedules, Maybe
<1>2. ValidatedIsWritten
  BY DEF ConfigInit, ValidatedIsWritten, NoPatch
<1>3. ValidatedIsStored
  BY DEF ConfigInit, ValidatedIsStored, NoSchedule, Fires
<1> QED
  BY <1>1, <1>2, <1>3 DEF ConfigInv

\* A PATCH that has read changes nothing but its own request.
LEMMA ReadKeepsConfig ==
    ASSUME ConfigInv, NEW r \in Patches, NEW of, NEW writes, PatchReads(r, of, writes),
           \/ /\ of = "schedule" /\ FieldsOf(writes, ScheduleValues)
              /\ WellFormed(Over(schedule, writes))
           \/ /\ of = "tunables" /\ FieldsOf(writes, TunableValues)
              /\ InOrder(Over(tunable, writes))
    PROVE  ConfigInv'
<1>1. /\ patch'[r] = [of |-> of, writes |-> writes, overtaken |-> FALSE]
      /\ \A s \in Patches \ {r} : patch'[s] = patch[s]
      /\ patch' = [s \in Patches |-> patch'[s]]
      /\ UNCHANGED <<schedule, tunable, frayed>>
  BY DEF PatchReads, ConfigInv, ConfigTypeOK
<1>2. ConfigTypeOK'
  <2>1. patch'[r].of = of /\ patch'[r].writes = writes /\ patch'[r].overtaken = FALSE
    BY <1>1
  <2>2. InFlight(patch'[r])
    BY <1>1, <2>1 DEF InFlight
  <2>3. \A s \in Patches : patch'[s] # NoPatch => InFlight(patch'[s])
    BY <1>1, <2>2 DEF ConfigInv, ConfigTypeOK
  <2>4. schedule' \in Schedules /\ tunable' \in Tunables
    BY <1>1 DEF ConfigInv, ConfigTypeOK
  <2> QED
    BY <1>1, <2>3, <2>4 DEF ConfigTypeOK, InFlight, Schedules, FieldsOf, ScheduleValues
<1>3. ValidatedIsWritten'
  <2>1. patch'[r].of = of /\ patch'[r].writes = writes
    BY <1>1
  <2> QED
    BY <1>1, <2>1 DEF ConfigInv, ValidatedIsWritten, Over, WellFormed, InOrder
<1>4. ValidatedIsStored'
  BY <1>1 DEF ConfigInv, ValidatedIsStored, Fires
<1> QED
  BY <1>2, <1>3, <1>4 DEF ConfigInv

\* The request that commits ends or goes on with what is left; those of the
\* same kind are overtaken.
LEMMA CommitOvertakes ==
    ASSUME ConfigInv, NEW r \in Patches, NEW left, PatchCommits(r, left), patch[r] # NoPatch
    PROVE  /\ patch' = [s \in Patches |-> patch'[s]]
           /\ DOMAIN left = {} => patch'[r] = NoPatch
           /\ DOMAIN left # {} => patch'[r] = [of |-> patch[r].of, writes |-> left,
                                              overtaken |-> patch[r].overtaken]
           /\ \A s \in Patches \ {r} :
                  \/ /\ patch[s].of = patch[r].of
                     /\ patch'[s] = [of |-> patch[s].of, writes |-> patch[s].writes,
                                     overtaken |-> TRUE]
                  \/ patch[s].of # patch[r].of /\ patch'[s] = patch[s]
<1>1. ASSUME NEW s \in Patches, patch[s] # NoPatch PROVE InFlight(patch[s])
  BY <1>1 DEF ConfigInv, ConfigTypeOK
<1>2. patch[r].of # "none"
  BY <1>1 DEF InFlight
<1>3. ASSUME NEW s \in Patches \ {r}, patch[s].of = patch[r].of
      PROVE  patch'[s] = [of |-> patch[s].of, writes |-> patch[s].writes, overtaken |-> TRUE]
  <2>1. patch'[s] = [patch[s] EXCEPT !.overtaken = TRUE]
    BY <1>3 DEF PatchCommits
  <2>2. patch[s] = [of |-> patch[s].of, writes |-> patch[s].writes,
                    overtaken |-> patch[s].overtaken]
    BY <1>1, <1>2, <1>3 DEF NoPatch, InFlight
  <2> QED
    BY <2>1, <2>2
<1>4. ASSUME NEW s \in Patches \ {r}, patch[s].of # patch[r].of PROVE patch'[s] = patch[s]
  BY <1>4 DEF PatchCommits
<1>5. DOMAIN left # {} => patch'[r] = [of |-> patch[r].of, writes |-> left,
                                      overtaken |-> patch[r].overtaken]
  <2>1. patch[r] = [of |-> patch[r].of, writes |-> patch[r].writes,
                    overtaken |-> patch[r].overtaken]
    BY <1>1 DEF InFlight
  <2>2. DOMAIN left # {} => patch'[r] = [patch[r] EXCEPT !.writes = left]
    BY DEF PatchCommits
  <2> QED
    BY <2>1, <2>2
<1>6. patch' = [s \in Patches |-> patch'[s]] /\ (DOMAIN left = {} => patch'[r] = NoPatch)
  BY DEF PatchCommits
<1> QED
  BY <1>3, <1>4, <1>5, <1>6

\* After a commit the requests are what they may be, and those of the same kind
\* need not agree with the row any more.
LEMMA CommitKeepsRequests ==
    ASSUME ConfigInv, NEW r \in Patches, NEW left, PatchCommits(r, left), patch[r] # NoPatch,
           patch[r].of = "schedule" => FieldsOf(left, ScheduleValues),
           patch[r].of = "tunables" => FieldsOf(left, TunableValues)
    PROVE  /\ \A s \in Patches : patch'[s] # NoPatch => InFlight(patch'[s])
           /\ \A s \in Patches \ {r} :
                  ~patch'[s].overtaken /\ patch'[s] # NoPatch =>
                      patch'[s] = patch[s] /\ patch[s].of # patch[r].of
<1>1. ASSUME NEW s \in Patches, patch[s] # NoPatch PROVE InFlight(patch[s])
  BY <1>1 DEF ConfigInv, ConfigTypeOK
<1>2. ASSUME NEW s \in Patches \ {r}
      PROVE  /\ patch'[s] # NoPatch => InFlight(patch'[s])
             /\ ~patch'[s].overtaken /\ patch'[s] # NoPatch =>
                      patch'[s] = patch[s] /\ patch[s].of # patch[r].of
  <2>1. CASE /\ patch[s].of = patch[r].of
             /\ patch'[s] = [of |-> patch[s].of, writes |-> patch[s].writes, overtaken |-> TRUE]
    <3>1. patch[s] # NoPatch
      <4>1. patch[r].of \in {"schedule", "tunables"}
        BY <1>1 DEF InFlight
      <4> QED
        BY <2>1, <4>1 DEF NoPatch
    <3>2. /\ patch'[s].of = patch[s].of /\ patch'[s].writes = patch[s].writes
          /\ patch'[s].overtaken = TRUE
      BY <2>1
    <3>3. \/ patch[s].of = "schedule" /\ FieldsOf(patch[s].writes, ScheduleValues)
          \/ patch[s].of = "tunables" /\ FieldsOf(patch[s].writes, TunableValues)
      BY <1>1, <3>1 DEF InFlight
    <3>4. InFlight(patch'[s])
      BY <2>1, <3>2, <3>3 DEF InFlight
    <3> QED
      BY <3>2, <3>4
  <2>2. CASE patch[s].of # patch[r].of /\ patch'[s] = patch[s]
    BY <1>1, <2>2
  <2> QED
    BY <2>1, <2>2, CommitOvertakes
<1>3. ASSUME patch'[r] # NoPatch PROVE InFlight(patch'[r])
  <2>1. patch'[r] = [of |-> patch[r].of, writes |-> left, overtaken |-> patch[r].overtaken]
    BY <1>3, CommitOvertakes
  <2>2. /\ patch'[r].of = patch[r].of /\ patch'[r].writes = left
        /\ patch'[r].overtaken = patch[r].overtaken
    BY <2>1
  <2>3. patch[r].of \in {"schedule", "tunables"} /\ patch[r].overtaken \in BOOLEAN
    BY <1>1 DEF InFlight
  <2> QED
    BY <2>1, <2>2, <2>3 DEF InFlight
<1> QED
  BY <1>2, <1>3

LEMMA CommitScheduleKeeps ==
    ASSUME ConfigInv, NEW r \in Patches, CommitSchedule(r) PROVE ConfigInv'
<1>1. patch[r] # NoPatch /\ patch[r].of = "schedule" /\ PatchCommits(r, <<>>)
  BY DEF CommitSchedule, NoPatch
<1>2. DOMAIN <<>> = {} /\ FieldsOf(<<>>, ScheduleValues)
  BY DEF FieldsOf
<1>3. FieldsOf(patch[r].writes, ScheduleValues)
  BY <1>1 DEF ConfigInv, ConfigTypeOK, InFlight
<1>4. schedule' = Over(schedule, patch[r].writes) /\ schedule' \in Schedules
  BY <1>3, ScheduleRow DEF CommitSchedule, ConfigInv, ConfigTypeOK
<1>5. patch'[r] = NoPatch
  BY <1>1, <1>2, CommitOvertakes
<1>6. /\ patch' = [s \in Patches |-> patch'[s]]
      /\ \A s \in Patches : patch'[s] # NoPatch => InFlight(patch'[s])
      /\ \A s \in Patches \ {r} :
             ~patch'[s].overtaken /\ patch'[s] # NoPatch =>
                 patch'[s] = patch[s] /\ patch[s].of # patch[r].of
  BY <1>1, <1>2, CommitOvertakes, CommitKeepsRequests
<1>7. ConfigTypeOK'
  BY <1>4, <1>6 DEF ConfigTypeOK, CommitSchedule, ConfigInv, InFlight
<1>8. ValidatedIsWritten'
  <2> SUFFICES ASSUME NEW s \in Patches, ~patch'[s].overtaken,
                      patch'[s].of \in {"schedule", "tunables"}
               PROVE  /\ patch'[s].of # "schedule"
                      /\ InOrder(Over(tunable', patch'[s].writes))
    BY DEF ValidatedIsWritten
  <2>1. patch'[s] # NoPatch /\ s # r
    BY <1>5 DEF NoPatch
  <2>2. patch'[s] = patch[s] /\ patch[s].of # "schedule" /\ tunable' = tunable
    BY <1>1, <1>6, <2>1 DEF CommitSchedule
  <2> QED
    BY <2>2 DEF ConfigInv, ValidatedIsWritten
<1>9. ValidatedIsStored'
  <2>1. "tunables" \notin frayed' => tunable'.floor < tunable'.covered
    BY <1>1, <1>2 DEF PatchCommits, CommitSchedule, ConfigInv, ValidatedIsStored
  <2>2. "schedule" \notin frayed' => WellFormed(schedule')
    BY <1>1, <1>2, <1>4 DEF PatchCommits, ConfigInv, ValidatedIsWritten
  <2> QED
    BY <2>1, <2>2 DEF ValidatedIsStored, Fires, WellFormed
<1> QED
  BY <1>7, <1>8, <1>9 DEF ConfigInv

LEMMA WriteTunableKeeps ==
    ASSUME ConfigInv, NEW r \in Patches, NEW key, WriteTunable(r, key) PROVE ConfigInv'
<1> DEFINE writes == patch[r].writes
           left == [k \in DOMAIN writes \ {key} |-> writes[k]]
<1>1. /\ patch[r] # NoPatch /\ patch[r].of = "tunables" /\ PatchCommits(r, left)
      /\ key \in DOMAIN writes /\ UNCHANGED schedule
      /\ tunable' = [tunable EXCEPT ![key] = writes[key]]
  BY DEF WriteTunable, NoPatch
<1>2. FieldsOf(writes, TunableValues)
  BY <1>1 DEF ConfigInv, ConfigTypeOK, InFlight
<1>3. /\ FieldsOf(left, TunableValues) /\ tunable' \in Tunables
      /\ Over(tunable', left) = Over(tunable, writes)
      /\ DOMAIN left = {} => tunable' = Over(tunable, writes)
  <2>1. tunable \in Tunables
    BY DEF ConfigInv, ConfigTypeOK
  <2>2. DOMAIN left = DOMAIN writes \ {key} /\ \A k \in DOMAIN left : left[k] = writes[k]
    OBVIOUS
  <2>3. key \in {"floor", "covered"} /\ writes[key] \in Levels
    BY <1>1, <1>2 DEF FieldsOf, TunableValues
  <2> HIDE DEF writes, left
  <2>4. /\ tunable' \in Tunables
        /\ \A f \in DOMAIN tunable : tunable'[f] = IF f = key THEN writes[key] ELSE tunable[f]
    BY <1>1, <2>1, <2>3 DEF Tunables
  <2>5. FieldsOf(left, TunableValues)
    BY <1>2, <2>2 DEF FieldsOf
  <2>6. DOMAIN tunable = {"floor", "covered"} /\ DOMAIN tunable' = {"floor", "covered"}
    BY <2>1, <2>4 DEF Tunables
  <2>7. Over(tunable', left) = Over(tunable, writes)
    BY <2>2, <2>3, <2>4, <2>6, <1>1 DEF Over
  <2>8. ASSUME DOMAIN left = {} PROVE tunable' = Over(tunable, writes)
    <3>1. Over(tunable, writes) \in Tunables
      BY <1>2, <2>1, TunableRow
    <3>2. \A f \in DOMAIN tunable : tunable'[f] = Over(tunable, writes)[f]
      BY <2>2, <2>4, <2>8, <1>1 DEF Over
    <3> QED
      BY <2>4, <2>6, <3>1, <3>2 DEF Tunables
  <2> QED
    BY <2>4, <2>5, <2>7, <2>8
<1>4. ~patch[r].overtaken => InOrder(Over(tunable, writes))
  BY <1>1 DEF ConfigInv, ValidatedIsWritten
<1>5. /\ patch' = [s \in Patches |-> patch'[s]]
      /\ DOMAIN left = {} => patch'[r] = NoPatch
      /\ DOMAIN left # {} => patch'[r] = [of |-> patch[r].of, writes |-> left,
                                         overtaken |-> patch[r].overtaken]
  <2> HIDE DEF left
  <2> QED
    BY <1>1, CommitOvertakes
<1>6. /\ \A s \in Patches : patch'[s] # NoPatch => InFlight(patch'[s])
      /\ \A s \in Patches \ {r} :
             ~patch'[s].overtaken /\ patch'[s] # NoPatch =>
                 patch'[s] = patch[s] /\ patch[s].of # patch[r].of
  <2> HIDE DEF left
  <2> QED
    BY <1>1, <1>3, CommitKeepsRequests
<1> HIDE DEF left
<1>7. ConfigTypeOK'
  BY <1>1, <1>3, <1>5, <1>6 DEF ConfigTypeOK, ConfigInv, InFlight
<1>8. ValidatedIsWritten'
  <2>1. ASSUME NEW s \in Patches \ {r}, ~patch'[s].overtaken,
               patch'[s].of \in {"schedule", "tunables"}
        PROVE  patch'[s].of = "schedule" /\ WellFormed(Over(schedule', patch'[s].writes))
    <3>1. patch'[s] # NoPatch
      BY <2>1 DEF NoPatch
    <3>2. patch'[s] = patch[s] /\ patch[s].of # "tunables"
      BY <1>1, <1>6, <2>1, <3>1
    <3> QED
      BY <1>1, <2>1, <3>2 DEF ConfigInv, ValidatedIsWritten
  <2>2. ASSUME ~patch'[r].overtaken, patch'[r].of \in {"schedule", "tunables"}
        PROVE  patch'[r].of = "tunables" /\ InOrder(Over(tunable', patch'[r].writes))
    <3>1. DOMAIN left # {}
      BY <1>5, <2>2 DEF NoPatch
    <3>2. /\ patch'[r].of = "tunables" /\ patch'[r].writes = left
          /\ patch'[r].overtaken = patch[r].overtaken
      BY <1>1, <1>5, <3>1
    <3> QED
      BY <1>3, <1>4, <2>2, <3>2
  <2> QED
    BY <2>1, <2>2 DEF ValidatedIsWritten
<1>9. ValidatedIsStored'
  <2>1. "schedule" \notin frayed' => "schedule" \notin frayed
    BY <1>1 DEF PatchCommits
  <2>2. "tunables" \notin frayed' => DOMAIN left = {} /\ ~patch[r].overtaken
    BY <1>1 DEF PatchCommits
  <2>3. "tunables" \notin frayed' => tunable'.floor < tunable'.covered
    BY <1>3, <1>4, <2>2 DEF InOrder
  <2> QED
    BY <1>1, <2>1, <2>3 DEF ConfigInv, ValidatedIsStored, Fires
<1> QED
  BY <1>7, <1>8, <1>9 DEF ConfigInv

LEMMA NextConfig == ConfigInv /\ [ConfigNext]_configvars => ConfigInv'
<1> SUFFICES ASSUME ConfigInv, [ConfigNext]_configvars PROVE ConfigInv'
  OBVIOUS
<1>1. ASSUME NEW r \in Patches, NEW asked \in Bodies(ScheduleValues), PatchSchedule(r, asked)
      PROVE  ConfigInv'
  <2> DEFINE want == Over(schedule, asked)
             new == Settled(want)
             changed == [f \in {g \in DOMAIN new : new[g] # schedule[g]} |-> new[f]]
  <2>1. schedule \in Schedules
    BY DEF ConfigInv, ConfigTypeOK
  <2>2. want \in Schedules
    BY <2>1, BodiesAreFields, ScheduleRow
  <2>3. Accepted(want) /\ PatchReads(r, "schedule", changed)
    BY <1>1 DEF PatchSchedule
  <2>4. new \in Schedules /\ WellFormed(new)
    BY <2>2, <2>3, SettledIsWellFormed
  <2> HIDE DEF want, new
  <2>5. Over(schedule, changed) = new /\ FieldsOf(changed, ScheduleValues)
    BY <2>1, <2>4, ChangedOverRow
  <2> HIDE DEF changed
  <2> QED
    BY <2>3, <2>4, <2>5, ReadKeepsConfig
<1>2. ASSUME NEW r \in Patches, CommitSchedule(r) PROVE ConfigInv'
  BY <1>2, CommitScheduleKeeps
<1>3. ASSUME NEW r \in Patches, NEW asked \in Bodies(TunableValues), PatchTunables(r, asked)
      PROVE  ConfigInv'
  <2>1. FieldsOf(asked, TunableValues)
    BY BodiesAreFields
  <2>2. InOrder(Over(tunable, asked)) /\ PatchReads(r, "tunables", asked)
    BY <1>3 DEF PatchTunables, InOrder
  <2> QED
    BY <2>1, <2>2, ReadKeepsConfig
<1>4. ASSUME NEW r \in Patches, NEW key, WriteTunable(r, key) PROVE ConfigInv'
  BY <1>4, WriteTunableKeeps
<1>5. ASSUME NEW r \in Patches, PatchDies(r) PROVE ConfigInv'
  <2>1. /\ patch' = [s \in Patches |-> patch'[s]] /\ patch'[r] = NoPatch
        /\ \A s \in Patches \ {r} : patch'[s] = patch[s]
        /\ UNCHANGED <<schedule, tunable, frayed>>
    BY <1>5 DEF PatchDies, ConfigInv, ConfigTypeOK
  <2>2. ConfigTypeOK'
    BY <2>1 DEF ConfigInv, ConfigTypeOK, InFlight
  <2>3. ValidatedIsWritten'
    BY <2>1 DEF ConfigInv, ValidatedIsWritten, NoPatch
  <2>4. ValidatedIsStored'
    BY <2>1 DEF ConfigInv, ValidatedIsStored, Fires
  <2> QED
    BY <2>2, <2>3, <2>4 DEF ConfigInv
<1>6. CASE UNCHANGED configvars
  BY <1>6 DEF configvars, ConfigInv, ConfigTypeOK, InFlight, ValidatedIsWritten,
              ValidatedIsStored, Fires, WellFormed, InOrder, Over
<1> QED
  BY <1>1, <1>2, <1>3, <1>4, <1>5, <1>6 DEF ConfigNext

\* What each PATCH validates of the schedule and of the two thresholds holds of
\* what is stored, unless the last one was overtaken or stopped half-way
\* (update_connection and patch_settings in app/mitre/router.py).
THEOREM ValidatedConfigIsStored == ConfigSpec => [](ConfigTypeOK /\ ValidatedIsStored)
<1>1. ConfigInit => ConfigInv
  BY InitConfig
<1>2. ConfigInv /\ [ConfigNext]_configvars => ConfigInv'
  BY NextConfig
<1>3. ConfigInv => ConfigTypeOK /\ ValidatedIsStored
  BY DEF ConfigInv
<1> QED
  BY <1>1, <1>2, <1>3, PTL DEF ConfigSpec
============================================================================
