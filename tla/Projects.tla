------------------------------ MODULE Projects ------------------------------
(***************************************************************************)
(* The projects of one organisation and the documents filed under them     *)
(* (app/routers/projects.py; project_name in app/routers/documents.py).    *)
(*                                                                         *)
(* A typed name is matched against the names there are before it is        *)
(* inserted; the insert becomes visible at the commit of the request,      *)
(* which for an upload includes the document.  Names are model values and  *)
(* what the normalisation and the similarity threshold make of them is     *)
(* the constant Alike.  It need not be symmetric: SequenceMatcher's ratio  *)
(* depends on which of the two names is the typed one.                     *)
(***************************************************************************)
CONSTANTS
    Names,          \* project names people type
    Alike,          \* <<n, m>>: the matcher takes a typed n for the project m
    Files,          \* documents
    NameRequests    \* requests in flight at a time

ASSUME AlikeAssumption ==
    /\ Alike \subseteq Names \X Names
    /\ \A n \in Names : <<n, n>> \in Alike

VARIABLES
    project,   \* names in the projects table
    filed,     \* filed[d]: the project of a document, or "none"
    naming,    \* requests that matched their name and have yet to commit
    older,     \* history: <<n, m>>: m was there when n was inserted
    blind      \* history: <<n, m>>: it came after n's request had looked

projectvars == <<project, filed, naming, older, blind>>

NotNaming == [op |-> "idle"]
Namings == [op : {"create"}, name : Names, missed : SUBSET Names]
           \cup [op : {"insert"}, doc : Files, name : Names, missed : SUBSET Names]
           \cup [op : {"file"}, doc : Files, name : Names]
SameName(n) == {n} \cap project
\* find_matching_project
Matching(n) == {m \in project : <<n, m>> \in Alike}

ProjectInit ==
    /\ project = {} /\ filed = [d \in Files |-> "none"]
    /\ naming = [r \in NameRequests |-> NotNaming] /\ older = {} /\ blind = {}

Types(r, next) ==
    /\ naming[r] = NotNaming
    /\ naming' = [naming EXCEPT ![r] = next]

\* create_project: a match is a conflict.
CreateProject(r, n) ==
    /\ Matching(n) = {}
    /\ Types(r, [op |-> "create", name |-> n, missed |-> {}])
    /\ UNCHANGED <<project, filed, older, blind>>

\* get_or_create_project for an upload or a change of project: a match is used
\* at the commit, whatever else is inserted meanwhile.
FileUnder(r, d, n) ==
    /\ \/ \E m \in Matching(n) : Types(r, [op |-> "file", doc |-> d, name |-> m])
       \/ /\ Matching(n) = {}
          /\ Types(r, [op |-> "insert", doc |-> d, name |-> n, missed |-> {}])
    /\ UNCHANGED <<project, filed, older, blind>>

Inserts(q) == q.op \in {"create", "insert"}

\* (org_id, name) is unique: the exact name a second time fails the request.
CommitName(r) ==
    LET q == naming[r]
        refused == Inserts(q) /\ q.name \in project
    IN  /\ q # NotNaming
        /\ filed' = IF q.op = "create" \/ refused THEN filed
                    ELSE [filed EXCEPT ![q.doc] = q.name]
        /\ IF ~Inserts(q) \/ refused
           THEN /\ UNCHANGED <<project, older, blind>>
                /\ naming' = [naming EXCEPT ![r] = NotNaming]
           ELSE /\ project' = project \cup {q.name}
                /\ older' = older \cup {q.name} \X project
                /\ blind' = blind \cup {q.name} \X q.missed
                /\ naming' = [p \in NameRequests |->
                       IF p = r THEN NotNaming
                       ELSE IF Inserts(naming[p])
                       THEN [naming[p] EXCEPT !.missed = @ \cup {q.name}] ELSE naming[p]]

NamingDies(r) ==
    /\ naming[r] # NotNaming
    /\ naming' = [naming EXCEPT ![r] = NotNaming]
    /\ UNCHANGED <<project, filed, older, blind>>

ProjectNext ==
    \/ \E r \in NameRequests :
        \/ CommitName(r) \/ NamingDies(r)
        \/ \E n \in Names : CreateProject(r, n) \/ \E d \in Files : FileUnder(r, d, n)

ProjectSpec == ProjectInit /\ [][ProjectNext]_projectvars

----------------------------------------------------------------------------
ProjectTypeOK ==
    /\ project \subseteq Names
    /\ filed \in [Files -> Names \cup {"none"}]
    /\ naming \in [NameRequests -> {NotNaming} \cup Namings]
    /\ older \subseteq Names \X Names /\ blind \subseteq Names \X Names

\* "so a typo or a different capitalization doesn't silently fork a new project"
\* (get_or_create_project), as far as the matcher sees it: of two projects the
\* later is none it takes for the earlier, unless that was inserted after the
\* request for the later had looked.  Every document's project is in the table,
\* through failed inserts and dead requests.
ProjectsForkOnlyByOverlap ==
    /\ older \cap Alike \subseteq blind
    /\ \A d \in Files : filed[d] \in project \cup {"none"}
============================================================================
