--------------------------- MODULE DocumentStore ---------------------------
(***************************************************************************)
(* Uploaded documents, their files and version groups                      *)
(* (app/routers/documents.py, documents_extra.py, app/storage.py,          *)
(* app/insights/similarity.py, app/compliance/data_retention.py).          *)
(*                                                                         *)
(* A request reads, awaits and commits under READ COMMITTED, so a version  *)
(* number may be out of date when it is written.  File and row live in two *)
(* stores and no transaction spans them.  A request may die at any await:  *)
(* a failed call, a database error or a killed process end it the same     *)
(* way, with what it committed kept.  Projects are in Projects.  Parsing,  *)
(* types and views are left out; a similarity score is a free choice.      *)
(***************************************************************************)
EXTENDS Naturals, FiniteSets

CONSTANTS
    Docs,        \* identifiers an upload may draw
    DocRequests, \* requests in flight at a time
    MaxVersion   \* bound: version numbers explored

ASSUME DocAssumption == MaxVersion \in Nat \ {0}

VARIABLES
    doc,        \* documents rows
    file,       \* documents whose bytes are in the store
    suggestion, \* document_link_suggestions, by doc_id
    request,    \* requests in flight
    contested,  \* history: documents numbered while the group was being numbered
    torn        \* history: documents whose deletion died after the file was gone

docvars == <<doc, file, suggestion, request, contested, torn>>

NoDoc == [row |-> "none"]
NoSuggestion == [status |-> "none"]
Idle == [op |-> "idle"]
\* A request that will write a number into a group.
Numbering == [op : {"store", "insert", "link", "accept"}, doc : Docs, group : Docs,
              version : 1..MaxVersion, writes : SUBSET {"group", "version"},
              overtaken : BOOLEAN]

Live(d) == doc[d].row = "live"
InGroup(g) == {d \in Docs : Live(d) /\ doc[d].group = g}
Numbers(g) == {doc[d].version : d \in InGroup(g)}
HowMany(g) == Cardinality(InGroup(g)) + 1
\* One more than max(version) over the live rows of the group.
NextVersion(g) == CHOOSE v \in 1..(MaxVersion + 1) :
                      /\ v = 1 \/ v - 1 \in Numbers(g)
                      /\ \A w \in Numbers(g) : w < v

Free(r) == request[r] = Idle
Unused(d) == doc[d] = NoDoc /\ d \notin file
             /\ \A r \in DocRequests : ~Free(r) => request[r].doc # d

DocInit ==
    /\ doc = [d \in Docs |-> NoDoc] /\ file = {}
    /\ suggestion = [d \in Docs |-> NoSuggestion]
    /\ request = [r \in DocRequests |-> Idle]
    /\ contested = {} /\ torn = {}

Become(r, next) == request' = [request EXCEPT ![r] = next]

\* The session writes the columns that differ from what it read of the row.
Changed(d, g) ==
    {c \in {"group", "version"} :
        \/ doc[d] = NoDoc
        \/ c = "group" /\ doc[d].group # g
        \/ c = "version" /\ doc[d].version # NextVersion(g)}

\* Read the group's numbers now; the write comes later.
Number(r, op, d, g) ==
    /\ NextVersion(g) <= MaxVersion
    /\ Become(r, [op |-> op, doc |-> d, group |-> g, version |-> NextVersion(g),
                  writes |-> Changed(d, g), overtaken |-> FALSE])
    /\ UNCHANGED <<doc, file, suggestion, contested, torn>>

----------------------------------------------------------------------------
(* Uploads *)

\* upload_document: a group of its own.
Upload(r, d) ==
    /\ Free(r) /\ Unused(d)
    /\ Become(r, [op |-> "store", doc |-> d, group |-> d, version |-> 1,
                  writes |-> {"group", "version"}, overtaken |-> FALSE])
    /\ UNCHANGED <<doc, file, suggestion, contested, torn>>

UploadNewVersion(r, d, source) ==
    /\ Free(r) /\ Unused(d) /\ Live(source)
    /\ Number(r, "store", d, doc[source].group)

\* The row is built once the storage has answered.
Stored(r) == request[r].op = "insert"

StoreFile(r) ==
    /\ request[r].op = "store"
    /\ file' = file \cup {request[r].doc}
    /\ Become(r, [request[r] EXCEPT !.op = "insert"])
    /\ UNCHANGED <<doc, suggestion, contested, torn>>

\* Everyone else who has read the numbers of the group, or the row, that this
\* commit changes.
Overtake(r, next) ==
    request' = [q \in DocRequests |->
        IF q = r THEN next
        ELSE IF /\ request[q] \in Numbering
                /\ \/ request[q].group = request[r].group
                   \/ request[q].doc = request[r].doc
        THEN [request[q] EXCEPT !.overtaken = TRUE]
        ELSE request[q]]

Mark(q) == contested' = IF q.overtaken THEN contested \cup {q.doc}
                        ELSE contested \ {q.doc}

InsertRow(r) ==
    LET q == request[r]
    IN  /\ Stored(r)
        /\ doc' = [doc EXCEPT ![q.doc] = [row |-> "live", group |-> q.group,
                                          version |-> q.version]]
        /\ Mark(q)
        /\ Overtake(r, [op |-> "suggest", doc |-> q.doc])
        /\ UNCHANGED <<file, suggestion, torn>>

\* suggest_version_link, in a second commit: the latest of a group it resembles.
Suggest(r) ==
    LET d == request[r].doc
    IN  /\ request[r].op = "suggest"
        /\ \/ UNCHANGED suggestion
           \/ /\ Live(d)
              /\ \E t \in Docs :
                    /\ Live(t) /\ doc[t].group # doc[d].group
                    /\ \A v \in Numbers(doc[t].group) : v <= doc[t].version
                    /\ suggestion' = [suggestion EXCEPT ![d] =
                                          [status |-> "pending", target |-> t]]
        /\ Become(r, Idle)
        /\ UNCHANGED <<doc, file, contested, torn>>

----------------------------------------------------------------------------
(* Linking into another group *)

Link(r, d, target) ==
    /\ Free(r) /\ Live(d) /\ Live(target) /\ doc[d].group # doc[target].group
    /\ Number(r, "link", d, doc[target].group)

\* No look at the suggestion's status, nor at whether it is in the group already.
Accept(r, d) ==
    /\ Free(r) /\ suggestion[d] # NoSuggestion
    /\ Live(d) /\ Live(suggestion[d].target)
    /\ Number(r, "accept", d, doc[suggestion[d].target].group)

\* The row with the columns the session writes.
Linked(q) ==
    [row |-> doc[q.doc].row,
     group |-> IF "group" \in q.writes THEN q.group ELSE doc[q.doc].group,
     version |-> IF "version" \in q.writes THEN q.version ELSE doc[q.doc].version]

\* The update finds no row when the document, or the suggestion, was deleted.
WriteLink(r) ==
    LET q == request[r]
    IN  /\ q.op \in {"link", "accept"} /\ doc[q.doc] # NoDoc
        /\ q.op = "accept" => suggestion[q.doc] # NoSuggestion
        /\ doc' = [doc EXCEPT ![q.doc] = Linked(q)]
        /\ suggestion' = IF q.op = "link" THEN suggestion
                         ELSE [suggestion EXCEPT ![q.doc].status = "accepted"]
        /\ Mark(q)
        /\ Overtake(r, Idle)
        /\ UNCHANGED <<file, torn>>

Dismiss(d) ==
    /\ suggestion[d] # NoSuggestion
    /\ suggestion' = [suggestion EXCEPT ![d].status = "dismissed"]
    /\ UNCHANGED <<doc, file, request, contested, torn>>

----------------------------------------------------------------------------
(* Deletion *)

DeleteFile(r, d) ==
    /\ Free(r) /\ Live(d)
    /\ file' = file \ {d}
    /\ Become(r, [op |-> "remove", doc |-> d])
    /\ UNCHANGED <<doc, suggestion, contested, torn>>

OwnOnly(s, d) == s = d
\* ON DELETE CASCADE takes the suggestions of and for the document along.
Dangling(s, d) == suggestion[s] # NoSuggestion /\ (s = d \/ suggestion[s].target = d)

DeleteRow(r) ==
    LET d == request[r].doc
    IN  /\ request[r].op = "remove"
        /\ doc' = [doc EXCEPT ![d] = NoDoc]
        /\ suggestion' = [s \in Docs |-> IF Dangling(s, d) THEN NoSuggestion
                                         ELSE suggestion[s]]
        /\ contested' = contested \ {d}
        /\ Become(r, Idle)
        /\ UNCHANGED <<file, torn>>

\* purge_expired_documents, softly: nothing else here depends on a document's
\* age, so any document may be past the cutoff.
Purge(d) ==
    /\ Live(d)
    /\ doc' = [doc EXCEPT ![d].row = "purged"]
    /\ UNCHANGED <<file, suggestion, request, contested, torn>>

Die(r) ==
    /\ ~Free(r)
    /\ torn' = IF request[r].op = "remove" THEN torn \cup {request[r].doc} ELSE torn
    /\ Become(r, Idle)
    /\ UNCHANGED <<doc, file, suggestion, contested>>

DocNext ==
    \/ \E r \in DocRequests, d \in Docs :
        \/ Upload(r, d) \/ Accept(r, d) \/ DeleteFile(r, d)
        \/ \E other \in Docs : UploadNewVersion(r, d, other) \/ Link(r, d, other)
    \/ \E r \in DocRequests :
        \/ StoreFile(r) \/ InsertRow(r) \/ Suggest(r)
        \/ WriteLink(r) \/ DeleteRow(r) \/ Die(r)
    \/ \E d \in Docs : Dismiss(d) \/ Purge(d)

DocSpec == DocInit /\ [][DocNext]_docvars

----------------------------------------------------------------------------
DocTypeOK ==
    /\ doc \in [Docs -> {NoDoc} \cup [row : {"live", "purged"}, group : Docs,
                                      version : 1..MaxVersion]]
    /\ request \in [DocRequests -> {Idle} \cup Numbering
                                   \cup [op : {"suggest", "remove"}, doc : Docs]]
    /\ suggestion \in [Docs -> {NoSuggestion} \cup
           [status : {"pending", "accepted", "dismissed"}, target : Docs]]
    /\ file \subseteq Docs /\ contested \subseteq Docs /\ torn \subseteq Docs

\* get_version_changes and get_finding_diff look a version up by its number and
\* raise if two live documents of the group have it: that happens only to a
\* document numbered while another commit into the group, or of the document
\* itself, overtook it.
VersionsCollideOnlyByOverlap ==
    \A d, e \in Docs :
        (Live(d) /\ Live(e) /\ d # e /\ doc[d].group = doc[e].group
            /\ doc[d].version = doc[e].version) => d \in contested \/ e \in contested

\* A row, purged or not, has its file in the store, except while a deletion is
\* between its two steps or after one died there; and no suggestion outlives a
\* document it is about.
RowsHaveWhatTheyName ==
    \A d \in Docs :
        /\ (doc[d] # NoDoc /\ d \notin file) =>
               d \in torn \/ \E r \in DocRequests : request[r] = [op |-> "remove", doc |-> d]
        /\ suggestion[d] # NoSuggestion =>
               doc[d] # NoDoc /\ doc[suggestion[d].target] # NoDoc
============================================================================
