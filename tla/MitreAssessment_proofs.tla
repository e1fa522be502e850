----------------------- MODULE MitreAssessment_proofs -----------------------
(***************************************************************************)
(* The life of an assessment is correct for any dump, any number of        *)
(* requests and pipelines and any pipeline cap.                            *)
(*                                                                         *)
(* None of the properties is inductive.  AssessmentInv adds what the code  *)
(* relies on and nowhere writes down: a request that edits or attests      *)
(* keeps the row lock, so the assessment stays completed under it; a       *)
(* pipeline's row objects never know more than the table does; and while   *)
(* one pipeline is alive alone, its objects are the table.                 *)
(***************************************************************************)
EXTENDS MitreAssessment, TLAPS

InEdit(c) == client[c].op \in {"edit", "attest"}

\* What a request in flight has read still holds when it commits.
RequestOK(c) ==
    /\ client[c].op = "remap" => client[c].arg \in Layouts
    /\ InEdit(c) => rowLock = c /\ asmt.status = "completed"
    /\ client[c].op = "edit" => client[c].arg \in RowIds /\ rules[client[c].arg] # Absent
    /\ client[c].op = "attest" =>
        client[c].arg \in Techniques /\ ~AttestedIn(rules, client[c].arg)
RequestInv == \A c \in Clients : RequestOK(c)

InStage(p) == pipe[p].pc \in Stages

\* A pipeline has loaded no row that is gone, and every row the customer tagged.
PipeOK(p) ==
    /\ pipe[p].pc # "idle" => asmt.status # "pending"
    /\ InStage(p) => \A r \in RowIds :
        /\ pipe[p].mem[r] # Absent => rules[r] # Absent
        /\ rules[r].status = "customer_tagged" => pipe[p].mem[r].status = "customer_tagged"
PipeInv == \A p \in Pipelines : PipeOK(p)

TagsInFile == \A r \in RowIds : rules[r].status = "customer_tagged" => r \in FileRows

RowsInv == RequestInv /\ PipeInv /\ TagsInFile

IsAlive(p) == pipe[p].pc \in Alive

\* While one pipeline is alive alone, its row objects are the table, and nobody
\* but an edit moves the rows of a completed assessment.
OneAlive == \A p, q \in Pipelines : IsAlive(p) /\ IsAlive(q) => p = q
StageAlone(p) == asmt.status \in {"running", "failed"} /\ pipe[p].mem = rules
AloneInv ==
    ~overlap =>
        /\ OneAlive
        /\ \A p \in Pipelines : InStage(p) => StageAlone(p)
        /\ \A c \in Clients : InEdit(c) => client[c].view = rules

AssessmentInv == TypeOK /\ RowsInv /\ AttestedOnce /\ AloneInv /\ ResultsMatchRules

----------------------------------------------------------------------------
(***************************************************************************)
(* Types                                                                   *)
(***************************************************************************)
LEMMA AbsentType == Absent \in Rule /\ NoRules \in [RowIds -> Rule] /\ NoParams \in Params
  BY DEF Absent, Rule, NoRules, NoParams, Params

LEMMA RestType == IdlePipe \in Pipeline /\ EndedPipe \in Pipeline /\ IdleRequest \in Request
  BY AbsentType DEF IdlePipe, EndedPipe, Pipeline, IdleRequest, Request

LEMMA ParsedType == \A l \in Layouts : ParsedRows(l) \in [RowIds -> Rule]
<1> SUFFICES ASSUME NEW l \in Layouts, NEW r \in RowIds PROVE ParsedRows(l)[r] \in Rule
  BY DEF ParsedRows
<1>1. CASE r \in FileRows /\ Parsed[l][r] # "absent"
  <2>1. Parsed[l][r] \in FileStatus
    BY <1>1, ParsedAssumption
  <2> QED
    BY <1>1, <2>1 DEF ParsedRows, Rule
<1>2. CASE ~(r \in FileRows /\ Parsed[l][r] # "absent")
  BY <1>2, AbsentType DEF ParsedRows
<1> QED
  BY <1>1, <1>2

LEMMA WrittenType ==
    ASSUME NEW p \in Pipelines, TypeOK,
           NEW mapped \in SUBSET RowIds, NEW value \in Rule, NEW next \in Stages,
           WriteRows(p, mapped, value, next)
    PROVE  rules' \in [RowIds -> Rule] /\ pipe' \in [Pipelines -> Pipeline]
<1>1. rules' \in [RowIds -> Rule]
  BY DEF TypeOK, WriteRows
<1> DEFINE mem == [r \in RowIds |-> IF r \in mapped THEN value ELSE pipe[p].mem[r]]
<1>2. pipe[p] \in Pipeline
  BY DEF TypeOK
<1>3. mem \in [RowIds -> Rule]
  BY <1>2 DEF Pipeline
<1>4. [pipe[p] EXCEPT !.pc = next, !.mem = mem] \in Pipeline
  BY <1>2, <1>3 DEF Pipeline, Alive, Working
<1>5. pipe' = [pipe EXCEPT ![p] = [pipe[p] EXCEPT !.pc = next, !.mem = mem]]
  BY DEF WriteRows
<1> QED
  BY <1>1, <1>4, <1>5 DEF TypeOK

LEMMA InitType == Init => TypeOK
<1> SUFFICES ASSUME Init PROVE TypeOK
  OBVIOUS
<1>1. PICK l \in Layouts \cup {Nobody} :
        /\ asmt = [status |-> "pending", params |-> [NoParams EXCEPT !.columns = l],
                   results |-> NoRules, aged |-> FALSE, deleted |-> FALSE]
        /\ rules = IF l = Nobody THEN NoRules ELSE ParsedRows(l)
  BY DEF Init
<1>2. [NoParams EXCEPT !.columns = l] \in Params
  BY DEF NoParams, Params
<1>3. asmt \in Assessment
  BY <1>1, <1>2, AbsentType DEF Assessment
<1>4. rules \in [RowIds -> Rule]
  BY <1>1, AbsentType, ParsedType
<1> QED
  BY <1>3, <1>4, RestType DEF TypeOK, Init

LEMMA NextType == TypeOK /\ RequestInv /\ [Next]_vars => TypeOK'
<1> SUFFICES ASSUME TypeOK, RequestInv, [Next]_vars PROVE TypeOK'
  OBVIOUS
<1>1. /\ asmt \in Assessment /\ rules \in [RowIds -> Rule]
      /\ pipe \in [Pipelines -> Pipeline] /\ client \in [Clients -> Request]
  BY DEF TypeOK
<1>2. ASSUME NEW c \in Clients, ClientStep(c) PROVE TypeOK'
  <2>0. client[c] \in Request
    BY <1>1
  <2>1. CASE RunRead(c)
    BY <1>1, <2>1 DEF TypeOK, RunRead, Request
  <2>2. ASSUME NEW p \in Pipelines, RunCommit(c, p) PROVE TypeOK'
    <3>1. pipe' \in [Pipelines -> Pipeline]
      BY <1>1, <2>2 DEF RunCommit, Pipeline, Alive
    <3>2. asmt' \in Assessment
      BY <1>1, <2>2 DEF RunCommit, Assessment
    <3> QED
      BY <2>2, <3>1, <3>2, RestType DEF TypeOK, RunCommit
  <2>3. ASSUME NEW l \in Layouts, RemapRead(c, l) PROVE TypeOK'
    <3>1. [IdleRequest EXCEPT !.op = "remap", !.arg = l, !.params = asmt.params] \in Request
      BY <1>1, RestType DEF Assessment, Request
    <3> QED
      BY <1>1, <2>3, <3>1 DEF TypeOK, RemapRead
  <2>4. CASE RemapCommit(c)
    <3>1. client[c].arg \in Layouts
      BY <2>4 DEF RequestInv, RequestOK, RemapCommit
    <3>2. [client[c].params EXCEPT !.columns = client[c].arg] \in Params
      BY <2>0, <3>1 DEF Request, Params
    <3>3. asmt' \in Assessment
      BY <1>1, <2>4, <3>2 DEF RemapCommit, Assessment
    <3>4. rules' \in [RowIds -> Rule]
      BY <1>1, <2>4, <3>1, ParsedType DEF RemapCommit
    <3> QED
      BY <2>4, <3>3, <3>4, RestType DEF TypeOK, RemapCommit
  <2>5. CASE PatchRead(c)
    <3>1. asmt.params \in Params
      BY <1>1 DEF Assessment
    <3>2. [client[c] EXCEPT !.op = "patch", !.params = asmt.params] \in Request
      BY <2>0, <3>1 DEF Request
    <3>3. client' = [client EXCEPT ![c] = [client[c] EXCEPT !.op = "patch", !.params = asmt.params]]
      BY <2>5 DEF PatchRead
    <3> QED
      BY <1>1, <2>5, <3>2, <3>3 DEF TypeOK, PatchRead
  <2>6. CASE PatchCommit(c)
    <3>1. [client[c].params EXCEPT !.archived = ~client[c].params.archived] \in Params
      BY <2>0 DEF Request, Params
    <3>2. asmt' \in Assessment
      BY <1>1, <2>6, <3>1 DEF PatchCommit, Assessment
    <3> QED
      BY <2>6, <3>2, RestType DEF TypeOK, PatchCommit
  <2>7. ASSUME NEW r \in RowIds, EditRead(c, r) PROVE TypeOK'
    <3>1. [client[c] EXCEPT !.op = "edit", !.arg = r, !.view = rules] \in Request
      BY <1>1, <2>0 DEF Request
    <3>2. client' = [client EXCEPT ![c] = [client[c] EXCEPT !.op = "edit", !.arg = r, !.view = rules]]
      BY <2>7 DEF EditRead
    <3> QED
      BY <1>1, <2>7, <3>1, <3>2 DEF TypeOK, EditRead, LocksRow
  <2>8. CASE EditCommit(c)
    <3>1. [status |-> "manual", by |-> c] \in Rule
      BY DEF Rule
    <3>2. client[c].view \in [RowIds -> Rule]
      BY <2>0 DEF Request
    <3>3. asmt' \in Assessment
      BY <1>1, <2>8, <3>1, <3>2 DEF EditCommit, Recomputed, Assessment
    <3>4. rules' \in [RowIds -> Rule]
      BY <1>1, <2>8, <3>1 DEF EditCommit
    <3> QED
      BY <2>8, <3>3, <3>4, RestType DEF TypeOK, EditCommit
  <2>9. ASSUME NEW t \in Techniques, AttestRead(c, t) PROVE TypeOK'
    <3>1. [client[c] EXCEPT !.op = "attest", !.arg = t, !.view = rules] \in Request
      BY <1>1, <2>0 DEF Request
    <3>2. client' = [client EXCEPT ![c] = [client[c] EXCEPT !.op = "attest", !.arg = t, !.view = rules]]
      BY <2>9 DEF AttestRead
    <3> QED
      BY <1>1, <2>9, <3>1, <3>2 DEF TypeOK, AttestRead, LocksRow
  <2>10. CASE AttestCommit(c)
    <3>1. [status |-> "tool_attested", by |-> client[c].arg] \in Rule
      BY <2>10 DEF Rule, RequestInv, RequestOK, AttestCommit
    <3>2. client[c].view \in [RowIds -> Rule]
      BY <2>0 DEF Request
    <3>3. asmt' \in Assessment
      BY <1>1, <2>10, <3>1, <3>2 DEF AttestCommit, Recomputed, Assessment
    <3>4. rules' \in [RowIds -> Rule]
      BY <1>1, <2>10, <3>1 DEF AttestCommit
    <3> QED
      BY <2>10, <3>3, <3>4, RestType DEF TypeOK, AttestCommit
  <2> QED
    BY <1>2, <2>1, <2>2, <2>3, <2>4, <2>5, <2>6, <2>7, <2>8, <2>9, <2>10 DEF ClientStep
<1>3. ASSUME NEW p \in Pipelines, PipeStep(p) PROVE TypeOK'
  <2>0. pipe[p] \in Pipeline
    BY <1>1
  <2>1. CASE PipeLoad(p)
    <3>1. asmt.params \in Params
      BY <1>1 DEF Assessment
    <3>2. \A pc \in Stages : [pc |-> pc, mem |-> rules, params |-> asmt.params] \in Pipeline
      BY <1>1, <3>1 DEF Pipeline, Alive, Working
    <3>3. PICK q \in Pipeline : pipe' = [pipe EXCEPT ![p] = q]
      BY <2>1, <3>2, RestType DEF PipeLoad, Stages
    <3> QED
      BY <1>1, <2>1, <3>3 DEF TypeOK, PipeLoad
  <2>2. ASSUME NEW found \in [DocRows -> {"absent", "unmapped", "ai_tagged"}],
               PipeExtract(p, found)
        PROVE TypeOK'
    <3> DEFINE inserted == [r \in RowIds |->
                IF r \in {p} \X DocRows /\ found[r[2]] # "absent"
                THEN [status |-> found[r[2]], by |-> p] ELSE rules[r]]
    <3>1. inserted \in [RowIds -> Rule]
      <4> SUFFICES ASSUME NEW r \in RowIds PROVE inserted[r] \in Rule
        OBVIOUS
      <4>1. CASE r \in {p} \X DocRows /\ found[r[2]] # "absent"
        <5>1. found[r[2]] \in {"unmapped", "ai_tagged"}
          BY <4>1
        <5> QED
          BY <4>1, <5>1 DEF Rule, FileStatus
      <4>2. CASE ~(r \in {p} \X DocRows /\ found[r[2]] # "absent")
        BY <1>1, <4>2
      <4> QED
        BY <4>1, <4>2
    <3>2. [pipe[p] EXCEPT !.pc = "failing"] \in Pipeline
          /\ [pipe[p] EXCEPT !.pc = "keyword", !.mem = inserted] \in Pipeline
      BY <2>0, <3>1 DEF Pipeline, Alive, Working, Stages
    <3>3. \/ rules' = rules /\ pipe' = [pipe EXCEPT ![p] = [pipe[p] EXCEPT !.pc = "failing"]]
          \/ rules' = inserted /\ pipe' =
                [pipe EXCEPT ![p] = [pipe[p] EXCEPT !.pc = "keyword", !.mem = inserted]]
      <4>1. CASE \A d \in DocRows : found[d] = "absent"
        BY <2>2, <4>1, Zenon DEF PipeExtract
      <4>2. CASE ~\A d \in DocRows : found[d] = "absent"
        <5>1. rules' = inserted
              /\ pipe' = [pipe EXCEPT ![p].pc = "keyword", ![p].mem = inserted]
          BY <2>2, <4>2, Zenon DEF PipeExtract
        <5> HIDE DEF inserted
        <5> QED
          BY <1>1, <5>1
      <4> QED
        BY <4>1, <4>2
    <3> QED
      BY <1>1, <2>2, <3>1, <3>2, <3>3 DEF TypeOK, PipeExtract
  <2>3. CASE PipeKeyword(p)
    <3>1. [status |-> "keyword_tagged", by |-> Nobody] \in Rule
      BY DEF Rule
    <3>2. rules' \in [RowIds -> Rule] /\ pipe' \in [Pipelines -> Pipeline]
      BY <2>3, <3>1, WrittenType DEF PipeKeyword, ToTag, Stages
    <3> QED
      BY <2>3, <3>2 DEF TypeOK, PipeKeyword
  <2>4. ASSUME NEW mapped \in SUBSET ToTag(p), PipeTag(p, mapped) PROVE TypeOK'
    <3>1. [status |-> "ai_tagged", by |-> p] \in Rule
      BY DEF Rule
    <3>2. rules' \in [RowIds -> Rule] /\ pipe' \in [Pipelines -> Pipeline]
      BY <2>4, <3>1, WrittenType DEF PipeTag, ToTag, Stages
    <3> QED
      BY <2>4, <3>2 DEF TypeOK, PipeTag
  <2>5. CASE PipeTagUnavailable(p)
    BY <1>1, <2>5 DEF TypeOK, PipeTagUnavailable, Pipeline, Alive, Working
  <2>6. CASE PipeFinish(p)
    <3>1. pipe[p].mem \in [RowIds -> Rule] /\ [pipe[p].params EXCEPT !.stamped = TRUE] \in Params
      BY <2>0 DEF Pipeline, Params
    <3>2. asmt.params \in Params
      BY <1>1 DEF Assessment
    <3>3. PICK written \in Params :
            asmt' = [asmt EXCEPT !.status = "completed", !.results = pipe[p].mem,
                                 !.params = written, !.aged = FALSE]
      BY <2>6, <3>1, <3>2 DEF PipeFinish
    <3>4. asmt' \in Assessment
      BY <1>1, <3>1, <3>3 DEF Assessment
    <3>5. [IdlePipe EXCEPT !.pc = "log"] \in Pipeline
      BY RestType DEF Pipeline, Alive, Working
    <3> QED
      BY <1>1, <2>6, <3>4, <3>5 DEF TypeOK, PipeFinish
  <2>7. CASE PipeLog(p)
    BY <1>1, <2>7, RestType DEF TypeOK, PipeLog
  <2>8. CASE PipeRaise(p)
    <3>1. [IdlePipe EXCEPT !.pc = "failing"] \in Pipeline
      BY RestType DEF Pipeline, Alive, Working
    <3> QED
      BY <1>1, <2>8, <3>1 DEF TypeOK, PipeRaise
  <2>9. CASE PipeFail(p)
    <3>1. asmt' \in Assessment
      BY <1>1, <2>9 DEF PipeFail, MarkedFailed, Assessment
    <3> QED
      BY <1>1, <2>9, <3>1, RestType DEF TypeOK, PipeFail
  <2> QED
    BY <1>3, <2>1, <2>2, <2>3, <2>4, <2>5, <2>6, <2>7, <2>8, <2>9 DEF PipeStep
<1>4. CASE Rename
  BY <1>1, <1>4 DEF TypeOK, Rename, Assessment
<1>5. CASE Delete
  BY <1>1, <1>5 DEF TypeOK, Delete, Assessment
<1>6. CASE Age
  BY <1>1, <1>6 DEF TypeOK, Age, Assessment
<1>7. CASE PollRead
  BY <1>7 DEF TypeOK, PollRead
<1>8. CASE PollFlip
  BY <1>1, <1>8 DEF TypeOK, PollFlip, MarkedFailed, Assessment
<1>9. CASE Restart
  BY <1>9, RestType DEF TypeOK, Restart
<1>10. CASE UNCHANGED vars
  BY <1>10 DEF TypeOK, vars
<1> QED
  BY <1>2, <1>3, <1>4, <1>5, <1>6, <1>7, <1>8, <1>9, <1>10 DEF Next

----------------------------------------------------------------------------
(***************************************************************************)
(* What a step of a pipeline does                                          *)
(***************************************************************************)
LEMMA PipeFrame ==
    ASSUME TypeOK, NEW p \in Pipelines, PipeStep(p)
    PROVE  /\ UNCHANGED <<client, rowLock, overlap>>
           /\ \A q \in Pipelines \ {p} : pipe'[q] = pipe[q]
           /\ pipe[p].pc \in Alive
  BY DEF TypeOK, PipeStep, PipeLoad, PipeExtract, PipeKeyword, PipeTag, PipeTagUnavailable,
         PipeFinish, PipeLog, PipeRaise, PipeFail, WriteRows, AtStage, Alive, Working, Stages

\* It tags only what was unmapped when loaded, and inserts only rows of its own.
LEMMA PipeRows ==
    ASSUME TypeOK, NEW p \in Pipelines, PipeStep(p), NEW r \in RowIds, rules'[r] # rules[r]
    PROVE  /\ InStage(p)
           /\ rules'[r].status \in {"unmapped", "ai_tagged", "keyword_tagged"}
           /\ rules'[r].by \in {p, Nobody}
           /\ r \in {p} \X DocRows \/ pipe[p].mem[r].status = "unmapped"
<1> USE DEF InStage, Stages, AtStage
<1> DEFINE Goal ==
        /\ InStage(p)
        /\ rules'[r].status \in {"unmapped", "ai_tagged", "keyword_tagged"}
        /\ rules'[r].by \in {p, Nobody}
        /\ r \in {p} \X DocRows \/ pipe[p].mem[r].status = "unmapped"
<1>1. ASSUME NEW found \in [DocRows -> {"absent", "unmapped", "ai_tagged"}],
             PipeExtract(p, found)
      PROVE  Goal
  <2>1. rules' = [x \in RowIds |->
            IF x \in {p} \X DocRows /\ found[x[2]] # "absent"
            THEN [status |-> found[x[2]], by |-> p] ELSE rules[x]]
    BY <1>1 DEF PipeExtract
  <2>2. r \in {p} \X DocRows /\ found[r[2]] # "absent"
    BY <2>1
  <2>3. found[r[2]] \in {"unmapped", "ai_tagged"}
    BY <2>2
  <2> QED
    BY <1>1, <2>1, <2>2, <2>3 DEF PipeExtract
<1>2. ASSUME NEW mapped \in SUBSET ToTag(p), NEW value, NEW next,
             WriteRows(p, mapped, value, next)
      PROVE  rules'[r] = value /\ pipe[p].mem[r].status = "unmapped"
  BY <1>2 DEF WriteRows, ToTag
<1>3. ASSUME PipeKeyword(p) PROVE Goal
  BY <1>2, <1>3 DEF PipeKeyword
<1>4. ASSUME NEW mapped \in SUBSET ToTag(p), PipeTag(p, mapped)
      PROVE  Goal
  BY <1>2, <1>4 DEF PipeTag
<1>5. PipeKeyword(p)
      \/ (\E found \in [DocRows -> {"absent", "unmapped", "ai_tagged"}] : PipeExtract(p, found))
      \/ (\E mapped \in SUBSET ToTag(p) : PipeTag(p, mapped))
  BY DEF PipeStep, PipeLoad, PipeTagUnavailable, PipeFinish, PipeLog, PipeRaise, PipeFail
<1> HIDE DEF Goal
<1>6. Goal
  BY <1>1, <1>3, <1>4, <1>5
<1> QED
  BY <1>6 DEF Goal

\* After the load its objects change only together with the table.
LEMMA PipeMemory ==
    ASSUME TypeOK, NEW p \in Pipelines, PipeStep(p), InStage(p)'
    PROVE  /\ UNCHANGED asmt
           /\ \/ asmt.status = "running" /\ pipe'[p].mem = rules /\ rules' = rules
              \/ /\ InStage(p)
                 /\ \A r \in RowIds :
                     \/ pipe'[p].mem[r] = rules'[r]
                     \/ pipe'[p].mem[r] = pipe[p].mem[r] /\ rules'[r] = rules[r]
<1> USE DEF InStage, Stages, AtStage
<1>1. pipe \in [Pipelines -> Pipeline] /\ rules \in [RowIds -> Rule]
  BY DEF TypeOK
<1>2. CASE PipeLoad(p)
  BY <1>1, <1>2 DEF PipeLoad, EndedPipe
<1>3. ASSUME NEW found \in [DocRows -> {"absent", "unmapped", "ai_tagged"}],
             PipeExtract(p, found)
      PROVE  pipe'[p].mem = rules' /\ InStage(p) /\ UNCHANGED asmt
  <2> DEFINE inserted == [x \in RowIds |->
            IF x \in {p} \X DocRows /\ found[x[2]] # "absent"
            THEN [status |-> found[x[2]], by |-> p] ELSE rules[x]]
  <2>1. \/ pipe' = [pipe EXCEPT ![p].pc = "failing"]
        \/ rules' = inserted
           /\ pipe' = [pipe EXCEPT ![p].pc = "keyword", ![p].mem = inserted]
    BY <1>3, Zenon DEF PipeExtract
  <2> HIDE DEF inserted
  <2> QED
    BY <1>1, <1>3, <2>1 DEF PipeExtract, Pipeline
<1>4. ASSUME NEW mapped \in SUBSET RowIds, NEW value, NEW next,
             WriteRows(p, mapped, value, next), NEW r \in RowIds
      PROVE  \/ pipe'[p].mem[r] = rules'[r]
             \/ pipe'[p].mem[r] = pipe[p].mem[r] /\ rules'[r] = rules[r]
  BY <1>1, <1>4 DEF WriteRows, Pipeline
<1>5. CASE PipeKeyword(p)
  BY <1>4, <1>5 DEF PipeKeyword, ToTag
<1>6. ASSUME NEW mapped \in SUBSET ToTag(p), PipeTag(p, mapped)
      PROVE  /\ InStage(p) /\ UNCHANGED asmt
             /\ \A r \in RowIds :
                  \/ pipe'[p].mem[r] = rules'[r]
                  \/ pipe'[p].mem[r] = pipe[p].mem[r] /\ rules'[r] = rules[r]
  BY <1>4, <1>6 DEF PipeTag, ToTag
<1>7. ~(PipeTagUnavailable(p) \/ PipeFinish(p) \/ PipeLog(p) \/ PipeRaise(p) \/ PipeFail(p))
  BY <1>1 DEF PipeTagUnavailable, PipeFinish, PipeLog, PipeRaise, PipeFail, IdlePipe,
              EndedPipe, Pipeline
<1> QED
  BY <1>2, <1>3, <1>5, <1>6, <1>7 DEF PipeStep

\* It writes the assessment row when it finishes and when it fails, unlocked.
LEMMA PipeResults ==
    ASSUME TypeOK, NEW p \in Pipelines, PipeStep(p)
    PROVE  \/ UNCHANGED asmt
           \/ /\ Unlocked /\ InStage(p) /\ UNCHANGED rules
              /\ asmt'.status = "completed" /\ asmt'.results = pipe[p].mem
           \/ /\ Unlocked /\ UNCHANGED rules
              /\ asmt'.status = "failed" /\ asmt'.results = asmt.results
<1>1. asmt \in Assessment
  BY DEF TypeOK
<1>2. CASE PipeFinish(p)
  BY <1>1, <1>2 DEF PipeFinish, AtStage, InStage, Stages, Assessment
<1>3. CASE PipeFail(p)
  BY <1>1, <1>3 DEF PipeFail, MarkedFailed, Assessment
<1> QED
  BY <1>2, <1>3 DEF PipeStep, PipeLoad, PipeExtract, PipeKeyword, PipeTag,
                    PipeTagUnavailable, PipeLog, PipeRaise, WriteRows

----------------------------------------------------------------------------
(***************************************************************************)
(* What a request does                                                     *)
(***************************************************************************)
LEMMA ClientFrame ==
    ASSUME TypeOK, NEW c \in Clients, ClientStep(c)
    PROVE  /\ UNCHANGED poll
           /\ \A d \in Clients \ {c} : client'[d] = client[d]
  BY DEF TypeOK, ClientStep, RunRead, RunCommit, RemapRead, RemapCommit, PatchRead,
         PatchCommit, EditRead, EditCommit, AttestRead, AttestCommit

\* Under an edit or an attestation no other request moves the rows.
LEMMA LockExcludes ==
    ASSUME RequestInv, NEW c \in Clients, NEW d \in Clients, InEdit(d), d # c, ClientStep(c)
    PROVE  UNCHANGED <<asmt, rules, pipe, rowLock>>
<1>1. rowLock = d /\ d # Nobody
  BY NamesAssumption DEF RequestInv, RequestOK
<1> QED
  BY <1>1 DEF ClientStep, RunRead, RunCommit, RemapRead, RemapCommit, PatchRead,
              PatchCommit, EditRead, EditCommit, AttestRead, AttestCommit,
              Unlocked, MayWrite

\* A request under way has read what the later commit relies on.
LEMMA ClientReads ==
    ASSUME TypeOK, NEW c \in Clients, ClientStep(c), client'[c].op \in {"remap", "edit", "attest"}
    PROVE  /\ UNCHANGED <<asmt, rules, pipe, overlap>>
           /\ \/ client'[c].op = "remap" /\ client'[c].arg \in Layouts /\ UNCHANGED rowLock
              \/ /\ Unlocked /\ rowLock' = c
                 /\ asmt.status = "completed" /\ client'[c].view = rules
                 /\ \/ client'[c].op = "edit" /\ client'[c].arg \in RowIds
                       /\ rules[client'[c].arg] # Absent
                    \/ client'[c].op = "attest" /\ client'[c].arg \in Techniques
                       /\ ~AttestedIn(rules, client'[c].arg)
                       /\ rules[<<c, client'[c].arg>>] = Absent
<1>1. client \in [Clients -> Request]
  BY DEF TypeOK
<1>2. client'[c].op \notin {"idle", "run", "patch"}
  OBVIOUS
<1>3. ASSUME NEW l \in Layouts, RemapRead(c, l)
      PROVE  client'[c].op = "remap" /\ client'[c].arg = l
  BY <1>1, <1>3 DEF RemapRead, IdleRequest
<1>4. ASSUME NEW r \in RowIds, EditRead(c, r)
      PROVE  client'[c].op = "edit" /\ client'[c].arg = r /\ client'[c].view = rules
  BY <1>1, <1>4 DEF EditRead, Request
<1>5. ASSUME NEW t \in Techniques, AttestRead(c, t)
      PROVE  client'[c].op = "attest" /\ client'[c].arg = t /\ client'[c].view = rules
  BY <1>1, <1>5 DEF AttestRead, Request
<1>6. \/ \E l \in Layouts : RemapRead(c, l)
      \/ \E r \in RowIds : EditRead(c, r)
      \/ \E t \in Techniques : AttestRead(c, t)
  BY <1>1, <1>2 DEF ClientStep, RunRead, RunCommit, RemapCommit, PatchRead, PatchCommit,
                    EditCommit, AttestCommit, IdleRequest, Request
<1> QED
  BY <1>3, <1>4, <1>5, <1>6 DEF RemapRead, EditRead, AttestRead, LocksRow, AttestAllowed

Quiet == /\ UNCHANGED <<rules, pipe, overlap>>
         /\ asmt'.status = asmt.status /\ asmt'.results = asmt.results

\* What a request writes: a new run, a remap of a pending assessment, one
\* manual mapping, one attestation, or nothing of this.
LEMMA ClientWrites ==
    ASSUME TypeOK, RequestInv, NEW c \in Clients, ClientStep(c)
    PROVE  \/ Quiet
           \/ /\ asmt'.status = "running" /\ asmt'.results = asmt.results /\ UNCHANGED rules
              /\ \E p \in Pipelines : pipe' = [pipe EXCEPT ![p].pc = "queued"]
              /\ overlap' = (overlap \/ \E q \in Pipelines : pipe[q].pc \in Alive)
           \/ /\ client[c].op = "remap"
              /\ asmt.status = "pending" /\ asmt'.status = "pending"
              /\ asmt'.results = asmt.results
              /\ rules' = ParsedRows(client[c].arg) /\ UNCHANGED <<pipe, overlap>>
           \/ /\ client[c].op = "edit" /\ UNCHANGED <<pipe, overlap>>
              /\ asmt.status = "completed" /\ asmt'.status = "completed"
              /\ rules' = [rules EXCEPT ![client[c].arg] = [status |-> "manual", by |-> c]]
              /\ asmt'.results = [client[c].view EXCEPT ![client[c].arg] =
                                                        [status |-> "manual", by |-> c]]
           \/ /\ client[c].op = "attest" /\ UNCHANGED <<pipe, overlap>>
              /\ asmt.status = "completed" /\ asmt'.status = "completed"
              /\ rules' = [rules EXCEPT ![<<c, client[c].arg>>] =
                                [status |-> "tool_attested", by |-> client[c].arg]]
              /\ asmt'.results = [client[c].view EXCEPT ![<<c, client[c].arg>>] =
                                [status |-> "tool_attested", by |-> client[c].arg]]
<1>1. asmt \in Assessment
  BY DEF TypeOK
<1>2. CASE \E p \in Pipelines : RunCommit(c, p)
  BY <1>1, <1>2 DEF RunCommit, Assessment
<1>3. CASE RemapCommit(c)
  BY <1>1, <1>3 DEF RemapCommit, RemapGuard, Assessment, Quiet
<1>4. CASE PatchCommit(c)
  BY <1>1, <1>4 DEF PatchCommit, Assessment, Quiet
<1>5. CASE EditCommit(c)
  <2>1. asmt.status = "completed"
    BY <1>5 DEF EditCommit, RequestInv, RequestOK, InEdit
  <2>2. asmt'.status = asmt.status /\ asmt'.results =
            [client[c].view EXCEPT ![client[c].arg] = [status |-> "manual", by |-> c]]
    BY <1>1, <1>5 DEF EditCommit, Recomputed, Assessment
  <2> QED
    BY <1>5, <2>1, <2>2 DEF EditCommit
<1>6. CASE AttestCommit(c)
  <2>1. asmt.status = "completed"
    BY <1>6 DEF AttestCommit, RequestInv, RequestOK, InEdit
  <2>2. asmt'.status = asmt.status /\ asmt'.results =
            [client[c].view EXCEPT ![<<c, client[c].arg>>] =
                [status |-> "tool_attested", by |-> client[c].arg]]
    BY <1>1, <1>6 DEF AttestCommit, Recomputed, Assessment
  <2> QED
    BY <1>6, <2>1, <2>2 DEF AttestCommit
<1> QED
  BY <1>2, <1>3, <1>4, <1>5, <1>6 DEF ClientStep, RunRead, RemapRead, PatchRead,
                                      EditRead, AttestRead, Quiet

(***************************************************************************)
(* What the other steps do                                                 *)
(***************************************************************************)
OtherStep == Rename \/ Delete \/ Age \/ PollRead \/ PollFlip \/ UNCHANGED vars

LEMMA OtherWrites ==
    ASSUME TypeOK, OtherStep
    PROVE  /\ UNCHANGED <<rules, pipe, client, rowLock, overlap>>
           /\ \/ Quiet
              \/ /\ PollFlip /\ Unlocked
                 /\ asmt'.status = "failed" /\ asmt'.results = asmt.results
<1>1. asmt \in Assessment
  BY DEF TypeOK
<1> QED
  BY <1>1 DEF OtherStep, Rename, Delete, Age, PollRead, PollFlip, MarkedFailed, Assessment,
              Quiet, vars

LEMMA RestartWrites ==
    ASSUME TypeOK, Restart
    PROVE  /\ UNCHANGED <<asmt, rules, overlap>>
           /\ \A c \in Clients : client'[c] = IdleRequest
           /\ \A p \in Pipelines : /\ pipe'[p].pc \notin Alive
                                   /\ pipe'[p].pc # "idle" => pipe[p].pc # "idle"
  BY DEF Restart, TypeOK, EndedPipe, IdlePipe, Alive, Working, Stages

----------------------------------------------------------------------------
(***************************************************************************)
(* Requests, pipelines and rows                                            *)
(***************************************************************************)
LEMMA InitRows == Init => RowsInv
<1> SUFFICES ASSUME Init PROVE RowsInv
  OBVIOUS
<1>1. RequestInv
  BY DEF Init, RequestInv, RequestOK, InEdit, IdleRequest
<1>2. PipeInv
  BY DEF Init, PipeInv, PipeOK, InStage, Stages, IdlePipe
<1>3. TagsInFile
  BY DEF Init, TagsInFile, NoRules, Absent, ParsedRows
<1> QED
  BY <1>1, <1>2, <1>3 DEF RowsInv

LEMMA NextRequest == TypeOK /\ RequestInv /\ [Next]_vars => RequestInv'
<1> SUFFICES ASSUME TypeOK, RequestInv, [Next]_vars PROVE RequestInv'
  OBVIOUS
<1> USE NamesAssumption
\* The lock keeps status and rows for who holds it.
<1>1. ASSUME NEW d \in Clients, client'[d] = client[d], rowLock' = rowLock,
             InEdit(d) => asmt'.status = asmt.status,
             InEdit(d) => \A r \in RowIds : rules'[r] = rules[r] \/
                \/ rules'[r].status \in {"unmapped", "ai_tagged", "keyword_tagged"}
      PROVE  RequestOK(d)'
  <2>1. \A r \in RowIds : InEdit(d) /\ rules[r] # Absent => rules'[r] # Absent
    BY <1>1 DEF Absent
  <2>2. \A t \in Techniques :
            InEdit(d) /\ ~AttestedIn(rules, t) => ~AttestedIn(rules, t)'
    BY <1>1 DEF AttestedIn, RowIds
  <2> QED
    BY <1>1, <2>1, <2>2 DEF RequestInv, RequestOK, InEdit
<1>2. ASSUME NEW c \in Clients, ClientStep(c), NEW d \in Clients PROVE RequestOK(d)'
  <2>1. CASE d = c
    BY <1>2, <2>1, ClientReads DEF RequestOK, InEdit, AttestedIn
  <2>2. CASE d # c /\ InEdit(d)
    <3>1. client'[d] = client[d] /\ UNCHANGED <<asmt, rules, rowLock>>
      BY <1>2, <2>2, ClientFrame, LockExcludes
    <3> QED
      BY <1>1, <3>1
  <2>3. CASE d # c /\ ~InEdit(d)
    <3>1. client'[d] = client[d]
      BY <1>2, <2>3, ClientFrame
    <3> QED
      BY <2>3, <3>1 DEF RequestInv, RequestOK, InEdit
  <2> QED
    BY <2>1, <2>2, <2>3
<1>3. ASSUME NEW p \in Pipelines, PipeStep(p), NEW d \in Clients PROVE RequestOK(d)'
  <2>1. UNCHANGED <<client, rowLock>>
    BY <1>3, PipeFrame
  <2>2. InEdit(d) => UNCHANGED asmt
    BY <1>3, PipeResults DEF RequestInv, RequestOK, Unlocked
  <2>3. \A r \in RowIds : rules'[r] = rules[r] \/
            rules'[r].status \in {"unmapped", "ai_tagged", "keyword_tagged"}
    BY <1>3, PipeRows
  <2> QED
    BY <1>1, <2>1, <2>2, <2>3
<1>4. ASSUME OtherStep, NEW d \in Clients PROVE RequestOK(d)'
  <2>1. UNCHANGED <<rules, client, rowLock>>
    BY <1>4, OtherWrites
  <2>2. InEdit(d) => asmt'.status = asmt.status
    BY <1>4, OtherWrites DEF Quiet, RequestInv, RequestOK, Unlocked
  <2> QED
    BY <1>1, <2>1, <2>2
<1>5. ASSUME Restart, NEW d \in Clients PROVE RequestOK(d)'
  BY <1>5, RestartWrites DEF RequestOK, IdleRequest, InEdit
<1> QED
  BY <1>2, <1>3, <1>4, <1>5 DEF Next, OtherStep, RequestInv, RequestOK

\* Only the customer's file holds tags of the customer, and the assessment
\* never goes back to pending.
LEMMA NextTags == TypeOK /\ RequestInv /\ TagsInFile /\ [Next]_vars => TagsInFile'
<1> SUFFICES ASSUME TypeOK, RequestInv, TagsInFile, [Next]_vars, NEW r \in RowIds,
                    rules'[r].status = "customer_tagged", rules'[r] # rules[r]
             PROVE  r \in FileRows
  BY DEF TagsInFile
<1>1. ASSUME NEW c \in Clients, ClientStep(c) PROVE r \in FileRows
  <2>1. DOMAIN rules = RowIds
    BY DEF TypeOK
  <2>2. \A l \in Layouts : ParsedRows(l)[r].status = "customer_tagged" => r \in FileRows
    BY DEF ParsedRows, Absent
  <2>3. client[c].op = "remap" => client[c].arg \in Layouts
    BY DEF RequestInv, RequestOK
  <2>4. \/ UNCHANGED rules
        \/ client[c].op = "remap" /\ rules' = ParsedRows(client[c].arg)
        \/ rules' = [rules EXCEPT ![client[c].arg] = [status |-> "manual", by |-> c]]
        \/ rules' = [rules EXCEPT ![<<c, client[c].arg>>] =
                                [status |-> "tool_attested", by |-> client[c].arg]]
    BY <1>1, ClientWrites DEF Quiet
  <2> QED
    BY <2>1, <2>2, <2>3, <2>4
<1>2. ASSUME NEW p \in Pipelines, PipeStep(p) PROVE FALSE
  BY <1>2, PipeRows
<1> QED
  BY <1>1, <1>2, OtherWrites, RestartWrites DEF Next, OtherStep

LEMMA NextPipe == TypeOK /\ RowsInv /\ [Next]_vars => PipeInv'
<1> SUFFICES ASSUME TypeOK, RowsInv, [Next]_vars, NEW q \in Pipelines PROVE PipeOK(q)'
  BY DEF PipeInv, PipeOK
<1> USE DEF RowsInv
<1> DEFINE Kept == \A r \in RowIds :
                \/ rules'[r] = rules[r]
                \/ rules'[r] # Absent /\ rules'[r].status # "customer_tagged"
\* A pipeline that does not move stays right while rows are only rewritten.
<1>1. ASSUME pipe'[q] = pipe[q], InStage(q) => Kept, pipe[q].pc # "idle" => asmt'.status # "pending"
      PROVE  PipeOK(q)'
  BY <1>1 DEF PipeInv, PipeOK, InStage
<1>2. ASSUME NEW c \in Clients, ClientStep(c) PROVE PipeOK(q)'
  <2>1. CASE asmt'.status = "running" /\ UNCHANGED rules
             /\ \E p \in Pipelines : pipe' = [pipe EXCEPT ![p].pc = "queued"]
    <3>1. pipe'[q] = pipe[q] \/ pipe'[q].pc = "queued"
      BY <2>1 DEF TypeOK, Pipeline
    <3> QED
      BY <1>1, <2>1, <3>1 DEF PipeOK, InStage, Stages
  <2>2. CASE UNCHANGED pipe /\ asmt.status # "pending" /\ asmt'.status # "pending" /\ Kept
    BY <1>1, <2>2
  <2>3. CASE UNCHANGED pipe /\ asmt.status = "pending"
    <3>1. pipe'[q].pc = "idle"
      BY <2>3 DEF PipeInv, PipeOK
    <3> QED
      BY <3>1 DEF PipeOK, InStage, Stages
  <2>4. ASSUME NEW x, NEW v, rules' = [rules EXCEPT ![x] = v],
               v.status \in {"manual", "tool_attested"}
        PROVE  Kept
    BY <2>4 DEF TypeOK, Absent
  <2>5. CASE UNCHANGED pipe /\ asmt.status = "completed" /\ asmt'.status = "completed"
             /\ \/ rules' = [rules EXCEPT ![client[c].arg] = [status |-> "manual", by |-> c]]
                \/ rules' = [rules EXCEPT ![<<c, client[c].arg>>] =
                                [status |-> "tool_attested", by |-> client[c].arg]]
    <3>1. Kept
      BY <2>4, <2>5
    <3> QED
      BY <2>2, <2>5, <3>1
  <2>6. CASE Quiet
    BY <2>2, <2>3, <2>6 DEF Quiet
  <2> QED
    BY <1>2, <2>1, <2>3, <2>5, <2>6, ClientWrites
<1>3. ASSUME NEW p \in Pipelines, PipeStep(p) PROVE PipeOK(q)'
  <2>1. Kept
    BY <1>3, PipeRows DEF Absent
  <2>2. asmt'.status # "pending"
    BY <1>3, PipeFrame, PipeResults DEF PipeInv, PipeOK, Alive, Working, Stages
  <2>3. CASE q # p
    BY <1>1, <1>3, <2>1, <2>2, <2>3, PipeFrame
  <2>4. CASE q = p
    <3>1. CASE ~InStage(q)'
      BY <2>2, <3>1 DEF PipeOK
    <3>2. CASE InStage(q)'
      BY <1>3, <2>2, <2>4, <3>2, PipeMemory DEF PipeInv, PipeOK
    <3> QED
      BY <3>1, <3>2
  <2> QED
    BY <2>3, <2>4
<1>4. ASSUME OtherStep PROVE PipeOK(q)'
  BY <1>1, <1>4, OtherWrites DEF Quiet, PipeInv, PipeOK
<1>5. ASSUME Restart PROVE PipeOK(q)'
  <2>1. ~InStage(q)'
    BY <1>5, RestartWrites DEF InStage, Alive, Working
  <2> QED
    BY <1>5, <2>1, RestartWrites DEF PipeInv, PipeOK
<1> QED
  BY <1>2, <1>3, <1>4, <1>5 DEF Next, OtherStep

LEMMA NextRows == TypeOK /\ RowsInv /\ [Next]_vars => RowsInv'
  BY NextRequest, NextTags, NextPipe DEF RowsInv

----------------------------------------------------------------------------
(***************************************************************************)
(* Attestations                                                            *)
(***************************************************************************)
LEMMA NextAttested == TypeOK /\ RowsInv /\ AttestedOnce /\ [Next]_vars => AttestedOnce'
<1> SUFFICES ASSUME TypeOK, RowsInv, AttestedOnce, [Next]_vars PROVE AttestedOnce'
  OBVIOUS
<1> USE DEF RowsInv
<1> DEFINE NoNew == \A r \in RowIds :
                rules'[r].status = "tool_attested" => rules[r].status = "tool_attested"
<1>0. DOMAIN rules = RowIds /\ \A c \in Clients, t \in Techniques : <<c, t>> \in RowIds
  BY DEF TypeOK, RowIds
<1>1. ASSUME NoNew PROVE AttestedOnce'
  BY <1>0, <1>1 DEF AttestedOnce
<1>2. ASSUME NEW c \in Clients, ClientStep(c) PROVE AttestedOnce'
  <2>1. CASE UNCHANGED rules
    BY <1>1, <2>1
  <2>2. CASE client[c].op = "remap" /\ rules' = ParsedRows(client[c].arg)
    <3>1. client[c].arg \in Layouts
      BY <2>2 DEF RequestInv, RequestOK
    <3>2. \A r \in RowIds : rules'[r].status \in FileStatus \cup {"absent"}
      BY <2>2, <3>1, ParsedAssumption DEF ParsedRows, Absent
    <3> QED
      BY <1>1, <3>2 DEF FileStatus
  <2>3. CASE rules' = [rules EXCEPT ![client[c].arg] = [status |-> "manual", by |-> c]]
    <3>1. NoNew
      BY <1>0, <2>3
    <3> QED
      BY <1>1, <3>1
  <2>4. CASE client[c].op = "attest" /\ rules' = [rules EXCEPT ![<<c, client[c].arg>>] =
                                [status |-> "tool_attested", by |-> client[c].arg]]
    <3>1. client[c].arg \in Techniques /\ ~AttestedIn(rules, client[c].arg)
      BY <2>4 DEF RequestInv, RequestOK
    <3>2. \A t \in Techniques, d \in Clients :
            rules'[<<d, t>>] = IF d = c /\ t = client[c].arg
                               THEN [status |-> "tool_attested", by |-> client[c].arg]
                               ELSE rules[<<d, t>>]
      BY <1>0, <2>4, <3>1
    <3> QED
      BY <3>1, <3>2 DEF AttestedOnce, AttestedIn
  <2> QED
    BY <1>2, <2>1, <2>2, <2>3, <2>4, ClientWrites DEF Quiet
<1>3. ASSUME NEW p \in Pipelines, PipeStep(p) PROVE AttestedOnce'
  BY <1>1, <1>3, PipeRows
<1> QED
  BY <1>1, <1>2, <1>3, OtherWrites, RestartWrites DEF Next, OtherStep

(***************************************************************************)
(* The rows of the file                                                    *)
(***************************************************************************)
LEMMA StepFreezes ==
    TypeOK /\ RowsInv /\ [Next]_vars =>
        (asmt.status # "pending" =>
            \A r \in FileRows :
                /\ rules[r] = Absent <=> rules'[r] = Absent
                /\ rules'[r].by \in Layouts => rules'[r] = rules[r])
<1> SUFFICES ASSUME TypeOK, RowsInv, [Next]_vars, asmt.status # "pending",
                    NEW r \in FileRows, rules'[r] # rules[r]
             PROVE  rules[r] # Absent /\ rules'[r] # Absent /\ rules'[r].by \notin Layouts
  OBVIOUS
<1> USE NamesAssumption DEF RowsInv
<1>0. DOMAIN rules = RowIds /\ r \in RowIds
  BY DEF TypeOK, RowIds
<1>1. ASSUME NEW c \in Clients, ClientStep(c)
      PROVE  rules[r] # Absent /\ rules'[r] # Absent /\ rules'[r].by \notin Layouts
  <2>1. CASE client[c].op = "edit"
             /\ rules' = [rules EXCEPT ![client[c].arg] = [status |-> "manual", by |-> c]]
    <3>1. rules'[r] = [status |-> "manual", by |-> c] /\ r = client[c].arg
      BY <1>0, <2>1
    <3> QED
      BY <2>1, <3>1 DEF RequestInv, RequestOK, Absent
  <2>2. CASE client[c].op = "attest" /\ rules' = [rules EXCEPT ![<<c, client[c].arg>>] =
                                [status |-> "tool_attested", by |-> client[c].arg]]
    <3>1. client[c].arg \in Techniques
      BY <2>2 DEF RequestInv, RequestOK
    <3> QED
      BY <1>0, <2>2, <3>1
  <2> QED
    BY <1>1, <2>1, <2>2, ClientWrites DEF Quiet
<1>2. ASSUME NEW p \in Pipelines, PipeStep(p)
      PROVE  rules[r] # Absent /\ rules'[r] # Absent /\ rules'[r].by \notin Layouts
  <2>1. /\ InStage(p) /\ rules'[r].status \in {"unmapped", "ai_tagged", "keyword_tagged"}
        /\ rules'[r].by \in {p, Nobody} /\ pipe[p].mem[r].status = "unmapped"
    BY <1>0, <1>2, PipeRows
  <2>2. pipe[p].mem[r] # Absent
    BY <2>1 DEF Absent
  <2>3. rules[r] # Absent
    BY <1>0, <2>1, <2>2 DEF PipeInv, PipeOK
  <2> QED
    BY <2>1, <2>3 DEF Absent
<1> QED
  BY <1>1, <1>2, OtherWrites, RestartWrites DEF Next, OtherStep

LEMMA StepKeepsTags ==
    TypeOK /\ RowsInv /\ [Next]_vars =>
        \A r \in RowIds :
            rules[r].status = "customer_tagged" /\ rules'[r] # rules[r]
                => asmt.status = "pending" \/ rules'[r].status = "manual"
<1> SUFFICES ASSUME TypeOK, RowsInv, [Next]_vars, NEW r \in RowIds, asmt.status # "pending",
                    rules[r].status = "customer_tagged", rules'[r] # rules[r]
             PROVE  rules'[r].status = "manual"
  OBVIOUS
<1> USE NamesAssumption DEF RowsInv
<1>0. DOMAIN rules = RowIds /\ r \in FileRows
  BY DEF TypeOK, TagsInFile
<1>1. ASSUME NEW c \in Clients, ClientStep(c) PROVE rules'[r].status = "manual"
  <2>1. CASE client[c].op = "edit"
             /\ rules' = [rules EXCEPT ![client[c].arg] = [status |-> "manual", by |-> c]]
    BY <1>0, <2>1
  <2>2. CASE client[c].op = "attest" /\ rules' = [rules EXCEPT ![<<c, client[c].arg>>] =
                                [status |-> "tool_attested", by |-> client[c].arg]]
    <3>1. client[c].arg \in Techniques
      BY <2>2 DEF RequestInv, RequestOK
    <3> QED
      BY <1>0, <2>2, <3>1
  <2> QED
    BY <1>1, <2>1, <2>2, ClientWrites DEF Quiet
<1>2. ASSUME NEW p \in Pipelines, PipeStep(p) PROVE FALSE
  <2>1. InStage(p) /\ pipe[p].mem[r].status = "unmapped"
    BY <1>0, <1>2, PipeRows
  <2> QED
    BY <2>1 DEF PipeInv, PipeOK
<1> QED
  BY <1>1, <1>2, OtherWrites, RestartWrites DEF Next, OtherStep

----------------------------------------------------------------------------
(***************************************************************************)
(* Results                                                                 *)
(***************************************************************************)
LEMMA StageIsAlive == \A p \in Pipelines : InStage(p) => IsAlive(p)
  BY DEF InStage, IsAlive, Alive, Working

LEMMA InitAlone == Init => AloneInv /\ ResultsMatchRules /\ AttestedOnce
<1> SUFFICES ASSUME Init PROVE AloneInv /\ ResultsMatchRules /\ AttestedOnce
  OBVIOUS
<1>1. AloneInv
  BY DEF Init, AloneInv, OneAlive, IsAlive, InStage, Alive, Working, Stages, IdlePipe,
         InEdit, IdleRequest
<1>2. ResultsMatchRules
  BY DEF Init, ResultsMatchRules
<1>3. \A r \in RowIds : rules[r].status # "tool_attested"
  <2>1. \A l \in Layouts, r \in RowIds : ParsedRows(l)[r].status \in FileStatus \cup {"absent"}
    BY ParsedAssumption DEF ParsedRows, Absent
  <2> QED
    BY <2>1 DEF Init, NoRules, Absent, FileStatus
<1> QED
  BY <1>1, <1>2, <1>3 DEF AttestedOnce, RowIds

\* A pipeline alone: its last write is the table, and only it moves the rows.
LEMMA PipeAlone ==
    ASSUME TypeOK, TypeOK', RowsInv, AloneInv, ResultsMatchRules, ~overlap,
           NEW p \in Pipelines, PipeStep(p)
    PROVE  AloneInv' /\ ResultsMatchRules'
<1> USE DEF RowsInv
<1>1. /\ OneAlive /\ IsAlive(p)
      /\ \A q \in Pipelines \ {p} : pipe'[q] = pipe[q] /\ ~IsAlive(q)
  BY PipeFrame DEF AloneInv, OneAlive, IsAlive
<1>2. OneAlive'
  BY <1>1 DEF OneAlive, IsAlive
<1>3. ASSUME NEW q \in Pipelines, InStage(q)' PROVE StageAlone(q)'
  <2>1. q = p
    BY <1>1, <1>3, StageIsAlive DEF InStage
  <2>2. UNCHANGED asmt
    BY <1>3, <2>1, PipeMemory
  <2>3. CASE asmt.status = "running" /\ pipe'[p].mem = rules /\ rules' = rules
    BY <2>1, <2>2, <2>3 DEF StageAlone
  <2>4. CASE /\ InStage(p)
             /\ \A r \in RowIds :
                 \/ pipe'[p].mem[r] = rules'[r]
                 \/ pipe'[p].mem[r] = pipe[p].mem[r] /\ rules'[r] = rules[r]
    <3>1. StageAlone(p)
      BY <2>4 DEF AloneInv
    <3>2. \A r \in RowIds : pipe'[p].mem[r] = rules'[r]
      BY <2>4, <3>1 DEF StageAlone
    <3>3. pipe'[p].mem \in [RowIds -> Rule] /\ rules' \in [RowIds -> Rule]
      BY DEF TypeOK, Pipeline
    <3>4. pipe'[p].mem = rules'
      BY <3>2, <3>3
    <3> QED
      BY <2>1, <2>2, <3>1, <3>4 DEF StageAlone
  <2> QED
    BY <1>3, <2>1, <2>3, <2>4, PipeMemory
\* An assessment with a loaded pipeline is not completed.
<1>4. asmt.status = "completed" => UNCHANGED rules
  <2> SUFFICES ASSUME asmt.status = "completed" PROVE rules' = rules
    OBVIOUS
  <2>1. ~InStage(p)
    BY DEF AloneInv, StageAlone
  <2>2. \A r \in RowIds : rules'[r] = rules[r]
    BY <2>1, PipeRows
  <2> QED
    BY <2>2 DEF TypeOK
<1>5. ASSUME NEW c \in Clients, InEdit(c)' PROVE (client[c].view = rules)'
  <2>1. InEdit(c) /\ client'[c] = client[c]
    BY <1>5, PipeFrame DEF InEdit
  <2> QED
    BY <1>4, <2>1 DEF AloneInv, RequestInv, RequestOK
<1>6. ResultsMatchRules'
  <2>1. CASE UNCHANGED asmt
    BY <1>4, <2>1 DEF ResultsMatchRules
  <2>2. CASE /\ InStage(p) /\ UNCHANGED rules
             /\ asmt'.status = "completed" /\ asmt'.results = pipe[p].mem
    BY <2>2 DEF ResultsMatchRules, AloneInv, StageAlone
  <2>3. CASE asmt'.status = "failed"
    BY <2>3 DEF ResultsMatchRules
  <2> QED
    BY <2>1, <2>2, <2>3, PipeResults
<1> QED
  BY <1>2, <1>3, <1>5, <1>6 DEF AloneInv

LEMMA ClientAlone ==
    ASSUME TypeOK, RowsInv, AloneInv, ResultsMatchRules, ~overlap, ~overlap',
           NEW c \in Clients, ClientStep(c)
    PROVE  AloneInv' /\ ResultsMatchRules'
<1> USE DEF RowsInv
<1>1. /\ OneAlive /\ \A p \in Pipelines : InStage(p) => StageAlone(p)
      /\ \A d \in Clients : InEdit(d) => client[d].view = rules
  BY DEF AloneInv
\* Whatever c did, the views of requests under an edit are the table.
<1>2. ASSUME NEW d \in Clients, InEdit(d)' PROVE (client[d].view = rules)'
  <2>1. CASE d = c
    BY <1>2, <2>1, ClientReads DEF InEdit
  <2>2. CASE d # c
    <3>1. client'[d] = client[d] /\ InEdit(d)
      BY <1>2, <2>2, ClientFrame DEF InEdit
    <3>2. UNCHANGED rules
      BY <2>2, <3>1, LockExcludes
    <3> QED
      BY <1>1, <3>1, <3>2
  <2> QED
    BY <2>1, <2>2
<1>3. ASSUME UNCHANGED pipe,
             \A p \in Pipelines : InStage(p) =>
                UNCHANGED rules /\ asmt'.status = asmt.status
      PROVE  OneAlive' /\ \A p \in Pipelines : InStage(p)' => StageAlone(p)'
  BY <1>1, <1>3 DEF OneAlive, IsAlive, InStage, StageAlone
<1>4. CASE Quiet
  BY <1>2, <1>3, <1>4 DEF Quiet, AloneInv, ResultsMatchRules
<1>5. CASE /\ asmt'.status = "running" /\ UNCHANGED rules
           /\ \E p \in Pipelines : pipe' = [pipe EXCEPT ![p].pc = "queued"]
           /\ overlap' = (overlap \/ \E q \in Pipelines : pipe[q].pc \in Alive)
  <2>1. \A q \in Pipelines : ~IsAlive(q) /\ ~InStage(q)
    BY <1>5, StageIsAlive DEF IsAlive
  <2>2. PICK p \in Pipelines : pipe' = [pipe EXCEPT ![p].pc = "queued"]
    BY <1>5
  <2>3. /\ \A q \in Pipelines \ {p} : pipe'[q] = pipe[q]
        /\ pipe'[p].pc = "queued"
    BY <2>2 DEF TypeOK, Pipeline
  <2>4. OneAlive' /\ \A q \in Pipelines : ~InStage(q)'
    BY <2>1, <2>3 DEF OneAlive, IsAlive, InStage, Stages
  <2> QED
    BY <1>2, <1>5, <2>4 DEF AloneInv, ResultsMatchRules
<1>6. CASE asmt.status = "pending" /\ asmt'.status = "pending" /\ UNCHANGED <<pipe, overlap>>
  <2>1. \A p \in Pipelines : ~InStage(p)
    BY <1>1, <1>6 DEF StageAlone
  <2> QED
    BY <1>2, <1>3, <1>6, <2>1 DEF AloneInv, ResultsMatchRules
<1>7. ASSUME NEW x, NEW v, InEdit(c), UNCHANGED <<pipe, overlap>>,
             rules' = [rules EXCEPT ![x] = v], asmt'.results = [client[c].view EXCEPT ![x] = v],
             asmt.status = "completed"
      PROVE  AloneInv' /\ ResultsMatchRules'
  <2>1. \A p \in Pipelines : ~InStage(p)
    BY <1>1, <1>7 DEF StageAlone
  <2>2. asmt'.results = rules'
    BY <1>1, <1>7
  <2> QED
    BY <1>2, <1>3, <1>7, <2>1, <2>2 DEF AloneInv, ResultsMatchRules
<1>8. CASE /\ client[c].op = "edit" /\ UNCHANGED <<pipe, overlap>>
           /\ asmt.status = "completed"
           /\ rules' = [rules EXCEPT ![client[c].arg] = [status |-> "manual", by |-> c]]
           /\ asmt'.results = [client[c].view EXCEPT ![client[c].arg] =
                                                     [status |-> "manual", by |-> c]]
  <2>1. InEdit(c)
    BY <1>8 DEF InEdit
  <2> QED
    BY <1>7, <1>8, <2>1, Zenon
<1>9. CASE /\ client[c].op = "attest" /\ UNCHANGED <<pipe, overlap>>
           /\ asmt.status = "completed"
           /\ rules' = [rules EXCEPT ![<<c, client[c].arg>>] =
                            [status |-> "tool_attested", by |-> client[c].arg]]
           /\ asmt'.results = [client[c].view EXCEPT ![<<c, client[c].arg>>] =
                            [status |-> "tool_attested", by |-> client[c].arg]]
  <2>1. InEdit(c)
    BY <1>9 DEF InEdit
  <2> QED
    BY <1>7, <1>9, <2>1, Zenon
<1>10. RequestInv
  OBVIOUS
<1> HIDE DEF RowsInv
<1> QED
  BY <1>4, <1>5, <1>6, <1>8, <1>9, <1>10, ClientWrites

LEMMA NextAlone ==
    AssessmentInv /\ TypeOK' /\ [Next]_vars => AloneInv' /\ ResultsMatchRules'
<1> SUFFICES ASSUME AssessmentInv, TypeOK', [Next]_vars, ~overlap'
             PROVE  AloneInv' /\ ResultsMatchRules'
  BY DEF AloneInv, ResultsMatchRules
<1> USE DEF AssessmentInv
<1>1. ASSUME NEW c \in Clients, ClientStep(c) PROVE ~overlap
  BY <1>1, ClientWrites DEF RowsInv, Quiet
<1>2. ~overlap
  BY <1>1, PipeFrame, OtherWrites, RestartWrites DEF Next, OtherStep
<1>3. CASE OtherStep
  <2>1. UNCHANGED <<rules, pipe, client>>
    BY <1>3, OtherWrites
  <2>2. \/ asmt'.status = asmt.status /\ asmt'.results = asmt.results
        \/ asmt'.status = "failed"
    BY <1>3, OtherWrites DEF Quiet
  <2> QED
    BY <1>2, <2>1, <2>2 DEF AloneInv, OneAlive, IsAlive, InStage, StageAlone, InEdit,
                            ResultsMatchRules
<1>4. CASE Restart
  <2>1. /\ \A p \in Pipelines : ~IsAlive(p)' /\ ~InStage(p)'
        /\ \A c \in Clients : ~InEdit(c)'
    BY <1>4, RestartWrites DEF IsAlive, InStage, Alive, Working, InEdit, IdleRequest
  <2>2. UNCHANGED <<asmt, rules>>
    BY <1>4, RestartWrites
  <2> QED
    BY <1>2, <2>1, <2>2 DEF AloneInv, OneAlive, ResultsMatchRules
<1> QED
  BY <1>2, <1>3, <1>4, PipeAlone, ClientAlone DEF Next, OtherStep

----------------------------------------------------------------------------
(***************************************************************************)
(* The promise.  Besides the invariants it takes that a dump is extracted  *)
(* into an empty table only, and that a stale run is found running.        *)
(***************************************************************************)
ExtractInv == \A p \in Pipelines : AtStage(p, "extract") => pipe[p].mem = NoRules
PollInv == poll => asmt.status # "pending"
PromiseInv == AssessmentInv /\ ExtractInv /\ PollInv

LEMMA NextExtract == TypeOK /\ ExtractInv /\ [Next]_vars => ExtractInv'
<1> SUFFICES ASSUME TypeOK, ExtractInv, [Next]_vars, NEW q \in Pipelines, pipe'[q].pc = "extract"
             PROVE  pipe'[q].mem = NoRules
  BY DEF ExtractInv, AtStage
<1> USE DEF TypeOK, ExtractInv, AtStage
<1>1. CASE pipe'[q] = pipe[q]
  BY <1>1
<1>2. ASSUME NEW c \in Clients, NEW p \in Pipelines, RunCommit(c, p) PROVE pipe'[q] = pipe[q]
  BY <1>2 DEF RunCommit, Pipeline
<1>3. ASSUME NEW c \in Clients, ClientStep(c) PROVE pipe'[q] = pipe[q]
  BY <1>2, <1>3 DEF ClientStep, RunRead, RemapRead, RemapCommit, PatchRead, PatchCommit,
                    EditRead, EditCommit, AttestRead, AttestCommit
<1>4. ASSUME NEW p \in Pipelines, PipeStep(p), p = q, pipe'[q] # pipe[q]
      PROVE  pipe'[q].mem = NoRules
  <2>1. CASE PipeLoad(p)
    BY <1>4, <2>1 DEF PipeLoad, EndedPipe
  <2>2. ASSUME NEW found \in [DocRows -> {"absent", "unmapped", "ai_tagged"}],
               PipeExtract(p, found)
        PROVE  FALSE
    BY <1>4, <2>2 DEF PipeExtract, Pipeline
  <2>3. ASSUME NEW mapped, NEW value, NEW next \in {"tag", "finish"},
               WriteRows(p, mapped, value, next)
        PROVE  FALSE
    BY <1>4, <2>3 DEF WriteRows, Pipeline
  <2>4. ~PipeKeyword(p) /\ \A mapped \in SUBSET ToTag(p) : ~PipeTag(p, mapped)
    BY <2>3 DEF PipeKeyword, PipeTag
  <2>5. ASSUME NEW v, v.pc # "extract", pipe' = [pipe EXCEPT ![p] = v] PROVE FALSE
    BY <1>4, <2>5
  <2>6. /\ EndedPipe.pc # "extract"
        /\ \A s \in {"log", "failing"} : [IdlePipe EXCEPT !.pc = s].pc # "extract"
    BY DEF EndedPipe, IdlePipe
  <2>7. ~PipeFinish(p) /\ ~PipeLog(p) /\ ~PipeRaise(p) /\ ~PipeFail(p)
    BY <2>5, <2>6 DEF PipeFinish, PipeLog, PipeRaise, PipeFail
  <2>8. ~PipeTagUnavailable(p)
    BY <1>4 DEF PipeTagUnavailable, Pipeline
  <2> QED
    BY <1>4, <2>1, <2>2, <2>4, <2>8, <2>7 DEF PipeStep
<1>5. ASSUME NEW p \in Pipelines, PipeStep(p), p # q PROVE pipe'[q] = pipe[q]
  BY <1>5, PipeFrame
<1>6. CASE Restart
  BY <1>6 DEF Restart, EndedPipe
<1>7. CASE OtherStep
  BY <1>1, <1>7, OtherWrites
<1> QED
  BY <1>1, <1>3, <1>4, <1>5, <1>6, <1>7 DEF Next, OtherStep

LEMMA NextPoll == AssessmentInv /\ PollInv /\ [Next]_vars => PollInv'
<1> SUFFICES ASSUME AssessmentInv, PollInv, [Next]_vars, poll' PROVE asmt'.status # "pending"
  BY DEF PollInv
<1> USE DEF AssessmentInv, RowsInv, PollInv
<1>1. ASSUME NEW c \in Clients, ClientStep(c) PROVE asmt'.status # "pending"
  <2>1. asmt.status # "pending"
    BY <1>1, ClientFrame
  <2> QED
    BY <1>1, <2>1, ClientWrites DEF Quiet
<1>2. ASSUME NEW p \in Pipelines, PipeStep(p) PROVE asmt'.status # "pending"
  <2>1. asmt.status # "pending"
    BY <1>2, PipeFrame DEF PipeInv, PipeOK, Alive, Working, Stages
  <2> QED
    BY <1>2, <2>1, PipeResults
<1>3. CASE OtherStep
  <2>1. asmt.status # "pending" \/ asmt'.status = "failed"
    BY <1>3 DEF OtherStep, Rename, Delete, Age, PollRead, PollFlip, IsStale, vars
  <2> QED
    BY <1>3, <2>1, OtherWrites DEF Quiet
<1>4. CASE Restart
  BY <1>4 DEF Restart
<1> QED
  BY <1>1, <1>2, <1>3, <1>4 DEF Next, OtherStep

\* What a pipeline changes it found open, or found an empty table.
LEMMA PipeOpens ==
    ASSUME TypeOK, ExtractInv, NEW p \in Pipelines, PipeStep(p),
           NEW r \in RowIds, rules'[r] # rules[r]
    PROVE  pipe[p].mem[r].status \in {"absent", "unmapped"}
<1>1. ASSUME NEW found \in [DocRows -> {"absent", "unmapped", "ai_tagged"}],
             PipeExtract(p, found)
      PROVE  pipe[p].mem[r] = Absent
  BY <1>1 DEF PipeExtract, ExtractInv, NoRules
<1>2. ASSUME NEW mapped \in SUBSET ToTag(p), NEW value, NEW next,
             WriteRows(p, mapped, value, next)
      PROVE  pipe[p].mem[r].status = "unmapped"
  BY <1>2 DEF WriteRows, ToTag
<1>3. CASE PipeKeyword(p)
  BY <1>2, <1>3 DEF PipeKeyword
<1>4. ASSUME NEW mapped \in SUBSET ToTag(p), PipeTag(p, mapped)
      PROVE  pipe[p].mem[r].status = "unmapped"
  BY <1>2, <1>4 DEF PipeTag
<1>5. PipeKeyword(p)
      \/ (\E found \in [DocRows -> {"absent", "unmapped", "ai_tagged"}] : PipeExtract(p, found))
      \/ (\E mapped \in SUBSET ToTag(p) : PipeTag(p, mapped))
  BY DEF PipeStep, PipeLoad, PipeTagUnavailable, PipeFinish, PipeLog, PipeRaise, PipeFail
<1> QED
  BY <1>1, <1>3, <1>4, <1>5 DEF Absent

Promised == [Report!ReportNext]_(Report!reportvars)

LEMMA PipePromise ==
    ASSUME PromiseInv, TypeOK', NEW p \in Pipelines, PipeStep(p)
    PROVE  Promised
<1> USE DEF PromiseInv, AssessmentInv
<1>1. UNCHANGED overlap
  BY PipeFrame
<1>2. CASE overlap
  BY <1>1, <1>2 DEF Promised, Report!ReportNext, Report!Unpromised
<1>3. ASSUME ~overlap, InStage(p) PROVE StageAlone(p)
  BY <1>3 DEF AloneInv
<1>4. CASE ~overlap /\ UNCHANGED asmt /\ rules' # rules
  <2>1. DOMAIN rules = RowIds /\ rules' \in [RowIds -> Rule] /\ rules \in [RowIds -> Rule]
    BY DEF TypeOK
  <2>2. PICK x \in RowIds : rules'[x] # rules[x]
    BY <1>4, <2>1
  <2>3. StageAlone(p)
    BY <1>3, <1>4, <2>2, PipeRows
  <2>4. ASSUME NEW r \in RowIds, rules'[r] # rules[r] PROVE rules[r] \in OpenRule
    BY <2>1, <2>3, <2>4, PipeOpens DEF StageAlone, OpenRule
  <2>5. Report!MapOpen
    BY <1>1, <1>4, <2>1, <2>3, <2>4 DEF Report!MapOpen, Report!Tables, StageAlone
  <2> QED
    BY <2>5 DEF Promised, Report!ReportNext
<1>5. CASE UNCHANGED asmt /\ rules' = rules
  BY <1>1, <1>5 DEF Promised, Report!reportvars
<1>6. CASE ~overlap /\ InStage(p) /\ UNCHANGED rules
           /\ asmt'.status = "completed" /\ asmt'.results = pipe[p].mem
  <2>1. Report!Publish
    BY <1>1, <1>3, <1>6 DEF Report!Publish, StageAlone
  <2> QED
    BY <2>1 DEF Promised, Report!ReportNext
<1>7. CASE UNCHANGED rules /\ asmt'.status = "failed" /\ asmt'.results = asmt.results
  <2>1. asmt.status # "pending"
    BY PipeFrame DEF RowsInv, PipeInv, PipeOK, Alive, Working, Stages
  <2>2. Report!Fail
    BY <1>1, <1>7, <2>1 DEF Report!Fail
  <2> QED
    BY <2>2 DEF Promised, Report!ReportNext
<1> QED
  BY <1>2, <1>4, <1>5, <1>6, <1>7, PipeResults

LEMMA ClientPromise ==
    ASSUME PromiseInv, TypeOK', NEW c \in Clients, ClientStep(c)
    PROVE  Promised
<1> USE DEF PromiseInv, AssessmentInv
<1>0. /\ rules \in [RowIds -> Rule] /\ rules' \in [RowIds -> Rule]
      /\ overlap \in BOOLEAN /\ overlap' \in BOOLEAN
  BY DEF TypeOK
<1>1. CASE Quiet
  BY <1>1 DEF Quiet, Promised, Report!reportvars
<1>2. CASE /\ asmt'.status = "running" /\ asmt'.results = asmt.results /\ UNCHANGED rules
           /\ overlap' = (overlap \/ \E q \in Pipelines : pipe[q].pc \in Alive)
  <2>1. overlap' = overlap \/ overlap'
    BY <1>0, <1>2
  <2>2. Report!Start \/ Report!Cross
    BY <1>2, <2>1 DEF Report!Start, Report!Cross
  <2> QED
    BY <2>2 DEF Promised, Report!ReportNext
<1>3. CASE /\ asmt.status = "pending" /\ asmt'.status = "pending"
           /\ asmt'.results = asmt.results /\ UNCHANGED overlap
  <2>1. Report!Remap
    BY <1>0, <1>3 DEF Report!Remap, Report!Tables
  <2> QED
    BY <2>1 DEF Promised, Report!ReportNext
<1>4. ASSUME NEW x \in RowIds, NEW v, InEdit(c), UNCHANGED overlap,
             asmt.status = "completed", asmt'.status = "completed",
             rules' = [rules EXCEPT ![x] = v], asmt'.results = [client[c].view EXCEPT ![x] = v]
      PROVE  Promised
  <2>1. CASE overlap
    BY <1>4, <2>1 DEF Promised, Report!ReportNext, Report!Unpromised
  <2>2. CASE ~overlap
    <3>1. client[c].view = rules
      BY <1>4, <2>2 DEF AloneInv
    <3>2. asmt'.results = rules' /\ \A q \in RowIds \ {x} : rules'[q] = rules[q]
      BY <1>0, <1>4, <3>1
    <3>3. Report!Correct
      BY <1>0, <1>4, <3>2 DEF Report!Correct, Report!Tables
    <3> QED
      BY <3>3 DEF Promised, Report!ReportNext
  <2> QED
    BY <2>1, <2>2
<1>5. CASE /\ client[c].op = "edit" /\ UNCHANGED <<pipe, overlap>>
           /\ asmt.status = "completed" /\ asmt'.status = "completed"
           /\ rules' = [rules EXCEPT ![client[c].arg] = [status |-> "manual", by |-> c]]
           /\ asmt'.results = [client[c].view EXCEPT ![client[c].arg] =
                                                     [status |-> "manual", by |-> c]]
  <2>1. InEdit(c) /\ client[c].arg \in RowIds
    BY <1>5 DEF InEdit, RowsInv, RequestInv, RequestOK
  <2> QED
    BY <1>4, <1>5, <2>1, Zenon
<1>6. CASE /\ client[c].op = "attest" /\ UNCHANGED <<pipe, overlap>>
           /\ asmt.status = "completed" /\ asmt'.status = "completed"
           /\ rules' = [rules EXCEPT ![<<c, client[c].arg>>] =
                            [status |-> "tool_attested", by |-> client[c].arg]]
           /\ asmt'.results = [client[c].view EXCEPT ![<<c, client[c].arg>>] =
                            [status |-> "tool_attested", by |-> client[c].arg]]
  <2>1. InEdit(c) /\ <<c, client[c].arg>> \in RowIds
    BY <1>6 DEF InEdit, RowsInv, RequestInv, RequestOK, RowIds
  <2> QED
    BY <1>4, <1>6, <2>1, Zenon
<1>7. RequestInv
  BY DEF RowsInv
<1> QED
  BY <1>1, <1>2, <1>3, <1>5, <1>6, <1>7, ClientWrites

LEMMA NextPromise == PromiseInv /\ TypeOK' /\ [Next]_vars => Promised
<1> SUFFICES ASSUME PromiseInv, TypeOK', [Next]_vars PROVE Promised
  OBVIOUS
<1>1. CASE OtherStep
  <2>1. CASE PollFlip /\ asmt'.status = "failed" /\ asmt'.results = asmt.results
    <3>1. asmt.status # "pending" /\ UNCHANGED <<rules, overlap>>
      BY <2>1 DEF PollFlip, PromiseInv, PollInv
    <3>2. Report!Fail
      BY <2>1, <3>1 DEF Report!Fail
    <3> QED
      BY <3>2 DEF Promised, Report!ReportNext
  <2>2. CASE Quiet
    BY <2>2 DEF Quiet, Promised, Report!reportvars
  <2> QED
    BY <1>1, <2>1, <2>2, OtherWrites DEF PromiseInv, AssessmentInv
<1>2. CASE Restart
  BY <1>2, RestartWrites DEF PromiseInv, AssessmentInv, Promised, Report!reportvars
<1> QED
  BY <1>1, <1>2, ClientPromise, PipePromise DEF Next, OtherStep

----------------------------------------------------------------------------
(***************************************************************************)
(* Edits.  An attestation takes a key that no row has yet, and a pending   *)
(* assessment has no edited row for a remap to replace.                    *)
(***************************************************************************)
AttestFresh ==
    \A c \in Clients : client[c].op = "attest" => rules[<<c, client[c].arg>>] = Absent
PendingUnedited == asmt.status = "pending" => \A r \in RowIds : rules[r].status # "manual"
EditsInv == PromiseInv /\ AttestFresh /\ PendingUnedited

LEMMA NextFresh == AssessmentInv /\ AttestFresh /\ [Next]_vars => AttestFresh'
<1> SUFFICES ASSUME AssessmentInv, AttestFresh, [Next]_vars,
                    NEW d \in Clients, client'[d].op = "attest"
             PROVE  rules'[<<d, client'[d].arg>>] = Absent
  BY DEF AttestFresh
<1> USE DEF AssessmentInv, RowsInv
<1>1. ASSUME client'[d] = client[d], UNCHANGED rules PROVE rules'[<<d, client'[d].arg>>] = Absent
  BY <1>1 DEF AttestFresh
<1>2. ASSUME NEW c \in Clients, ClientStep(c) PROVE rules'[<<d, client'[d].arg>>] = Absent
  <2>1. CASE c = d
    BY <1>2, <2>1, ClientReads
  <2>2. CASE c # d
    <3>1. client'[d] = client[d] /\ InEdit(d)
      BY <1>2, <2>2, ClientFrame DEF InEdit
    <3> QED
      BY <1>1, <1>2, <2>2, <3>1, LockExcludes
  <2> QED
    BY <2>1, <2>2
<1>3. ASSUME NEW p \in Pipelines, PipeStep(p) PROVE rules'[<<d, client'[d].arg>>] = Absent
  <2> DEFINE r == <<d, client[d].arg>>
  <2>1. client'[d] = client[d] /\ client[d].arg \in Techniques /\ rules[r] = Absent
    BY <1>3, PipeFrame DEF RequestInv, RequestOK, AttestFresh
  <2>2. r \in RowIds /\ r \notin {p} \X DocRows
    BY <2>1, NamesAssumption DEF RowIds
  <2> HIDE DEF r
  <2>3. rules'[r] = rules[r]
    <3> SUFFICES ASSUME rules'[r] # rules[r] PROVE FALSE
      OBVIOUS
    <3>1. InStage(p) /\ pipe[p].mem[r].status = "unmapped"
      BY <1>3, <2>2, PipeRows
    <3>2. pipe[p].mem[r] # Absent
      BY <3>1 DEF Absent
    <3> QED
      BY <2>1, <2>2, <3>1, <3>2 DEF PipeInv, PipeOK
  <2> QED
    BY <2>1, <2>3 DEF r
<1>4. CASE OtherStep
  BY <1>1, <1>4, OtherWrites
<1>5. CASE Restart
  BY <1>5, RestartWrites DEF IdleRequest
<1> QED
  BY <1>2, <1>3, <1>4, <1>5 DEF Next, OtherStep

LEMMA NextUnedited ==
    AssessmentInv /\ PendingUnedited /\ [Next]_vars => PendingUnedited'
<1> SUFFICES ASSUME AssessmentInv, PendingUnedited, [Next]_vars, asmt'.status = "pending",
                    NEW r \in RowIds
             PROVE  rules'[r].status # "manual"
  BY DEF PendingUnedited
<1> USE DEF AssessmentInv, RowsInv
<1>1. ASSUME asmt.status = "pending", UNCHANGED rules PROVE rules'[r].status # "manual"
  BY <1>1 DEF PendingUnedited
<1>2. ASSUME NEW c \in Clients, ClientStep(c) PROVE rules'[r].status # "manual"
  <2>1. CASE Quiet
    BY <1>1, <2>1 DEF Quiet
  <2>2. CASE client[c].op = "remap" /\ rules' = ParsedRows(client[c].arg)
    <3>1. client[c].arg \in Layouts
      BY <2>2 DEF RequestInv, RequestOK
    <3> QED
      BY <2>2, <3>1, ParsedAssumption DEF ParsedRows, Absent, FileStatus
  <2> QED
    BY <1>2, <2>1, <2>2, ClientWrites
<1>3. ASSUME NEW p \in Pipelines, PipeStep(p) PROVE FALSE
  BY <1>3, PipeFrame, PipeResults DEF PipeInv, PipeOK, Alive, Working, Stages
<1>4. CASE OtherStep
  BY <1>1, <1>4, OtherWrites DEF Quiet
<1>5. CASE Restart
  BY <1>1, <1>5, RestartWrites
<1> QED
  BY <1>2, <1>3, <1>4, <1>5 DEF Next, OtherStep

LEMMA StepKeepsEdits ==
    EditsInv /\ [Next]_vars =>
        \A r \in RowIds : rules[r].status = "manual" /\ ~overlap => rules'[r].status = "manual"
<1> SUFFICES ASSUME EditsInv, [Next]_vars, NEW r \in RowIds, rules[r].status = "manual",
                    ~overlap, rules'[r] # rules[r]
             PROVE  rules'[r].status = "manual"
  OBVIOUS
<1> USE DEF EditsInv, PromiseInv, AssessmentInv, RowsInv
<1>0. DOMAIN rules = RowIds
  BY DEF TypeOK
<1>1. ASSUME NEW c \in Clients, ClientStep(c) PROVE rules'[r].status = "manual"
  <2>1. CASE client[c].op = "edit"
             /\ rules' = [rules EXCEPT ![client[c].arg] = [status |-> "manual", by |-> c]]
    BY <1>0, <2>1
  <2>2. CASE client[c].op = "attest" /\ rules' = [rules EXCEPT ![<<c, client[c].arg>>] =
                                [status |-> "tool_attested", by |-> client[c].arg]]
    <3>1. rules[<<c, client[c].arg>>].status = "absent"
      BY <2>2 DEF AttestFresh, Absent
    <3> QED
      BY <1>0, <2>2, <3>1
  <2> QED
    BY <1>1, <2>1, <2>2, ClientWrites DEF Quiet, PendingUnedited
<1>2. ASSUME NEW p \in Pipelines, PipeStep(p) PROVE FALSE
  <2>1. InStage(p) /\ pipe[p].mem[r].status \in {"absent", "unmapped"}
    BY <1>2, PipeRows, PipeOpens
  <2> QED
    BY <2>1 DEF AloneInv, StageAlone
<1> QED
  BY <1>1, <1>2, OtherWrites, RestartWrites DEF Next, OtherStep

----------------------------------------------------------------------------
(***************************************************************************)
(* The theorems                                                            *)
(***************************************************************************)
LEMMA Invariance == Spec => []AssessmentInv
<1>1. Init => AssessmentInv
  BY InitType, InitRows, InitAlone DEF AssessmentInv
<1>2. AssessmentInv /\ [Next]_vars => AssessmentInv'
  <2> SUFFICES ASSUME AssessmentInv, [Next]_vars PROVE AssessmentInv'
    OBVIOUS
  <2>1. TypeOK' /\ RowsInv' /\ AttestedOnce'
    BY NextType, NextRows, NextAttested DEF AssessmentInv, RowsInv
  <2> QED
    BY <2>1, NextAlone DEF AssessmentInv
<1> QED
  BY <1>1, <1>2, PTL DEF Spec

\* No handler and no pipeline stage stores a status outside the CHECK
\* constraint, or a row, request or pipeline outside its type.
THEOREM TypeCorrect == Spec => []TypeOK
<1>1. AssessmentInv => TypeOK
  BY DEF AssessmentInv
<1> QED
  BY Invariance, <1>1, PTL

\* recompute_results and the final write of the pipeline: for any number of
\* requests, restarts and stale-run flips, a completed assessment whose
\* pipelines never overlapped shows results computed from its current rows.
THEOREM ResultsAreCurrent == Spec => []ResultsMatchRules
<1>1. AssessmentInv => ResultsMatchRules
  BY DEF AssessmentInv
<1> QED
  BY Invariance, <1>1, PTL

\* attest_tool_coverage: the row check under the row lock keeps any number of
\* reviewers from attesting a technique twice.
THEOREM AttestationsAreUnique == Spec => []AttestedOnce
<1>1. AssessmentInv => AttestedOnce
  BY DEF AssessmentInv
<1> QED
  BY Invariance, <1>1, PTL

\* The guarded UPDATE of remap_assessment_columns: after the first run has
\* started no remap, however slow, replaces a row, for any dump and mappings.
THEOREM RowsAreFrozen == Spec => RunFreezesRows
<1>1. AssessmentInv /\ [Next]_vars =>
        [asmt.status # "pending" =>
            \A r \in FileRows :
                /\ rules[r] = Absent <=> rules'[r] = Absent
                /\ rules'[r].by \in Layouts => rules'[r] = rules[r]]_vars
  BY StepFreezes DEF AssessmentInv
<1> QED
  BY Invariance, <1>1, PTL DEF Spec, RunFreezesRows

\* "Customer truth wins": no pipeline, late or overlapping ones included, ever
\* overwrites a mapping that the customer tagged.
THEOREM CustomerTagsPrevail == Spec => CustomerTruthWins
<1>1. AssessmentInv /\ [Next]_vars =>
        [\A r \in RowIds :
            rules[r].status = "customer_tagged" /\ rules'[r] # rules[r]
                => asmt.status = "pending" \/ rules'[r].status = "manual"]_vars
  BY StepKeepsTags DEF AssessmentInv
<1> QED
  BY Invariance, <1>1, PTL DEF Spec, CustomerTruthWins

LEMMA PromiseInvariance == Spec => []PromiseInv /\ [][Promised]_vars
<1>1. Init => PromiseInv
  <2>1. Init => AssessmentInv
    BY InitType, InitRows, InitAlone DEF AssessmentInv
  <2>2. Init => ExtractInv /\ PollInv
    BY DEF Init, ExtractInv, PollInv, AtStage, IdlePipe
  <2> QED
    BY <2>1, <2>2 DEF PromiseInv
<1>2. PromiseInv /\ AssessmentInv' /\ [Next]_vars => PromiseInv' /\ Promised
  BY NextExtract, NextPoll, NextPromise DEF PromiseInv, AssessmentInv
<1> QED
  BY Invariance, <1>1, <1>2, PTL DEF Spec

\* run_assessment_pipeline and the handlers implement what their docstrings
\* promise readers and reviewers, for any dump, requests and pipelines: every
\* step is one of CoverageReport, or changes nothing of it.
THEOREM ReportPromiseIsKept == Spec => ReportKeepsThePromise
<1>1. Init => Report!ReportInit
  <2> SUFFICES ASSUME Init PROVE Report!ReportInit
    OBVIOUS
  <2>1. asmt \in Assessment /\ rules \in [RowIds -> Rule]
    BY InitType DEF TypeOK
  <2> QED
    BY <2>1 DEF Init, Assessment, Report!ReportInit, Report!Tables
<1>2. [Promised]_vars => [Report!ReportNext]_(Report!reportvars)
  BY DEF Promised, vars, Report!reportvars
<1> QED
  BY PromiseInvariance, <1>1, <1>2, PTL DEF Spec, ReportKeepsThePromise, Report!ReportSpec

\* edit_use_case_mappings takes edits of completed assessments only, lest a
\* running pipeline overwrite them.  Until two pipelines of the assessment run
\* at once that is enough: a mapping edited by hand is changed by hand only,
\* whatever fails, is given up or is run again.
THEOREM EditsStickUntilRunsCross ==
    Spec => [][\A r \in RowIds :
                rules[r].status = "manual" /\ ~overlap => rules'[r].status = "manual"]_vars
<1>1. Init => AttestFresh /\ PendingUnedited
  <2>1. \A l \in Layouts, r \in RowIds : ParsedRows(l)[r].status # "manual"
    BY ParsedAssumption DEF ParsedRows, Absent, FileStatus
  <2> QED
    BY <2>1 DEF Init, AttestFresh, PendingUnedited, IdleRequest, NoRules, Absent
<1>2. PromiseInv /\ AttestFresh /\ PendingUnedited /\ [Next]_vars
        => AttestFresh' /\ PendingUnedited'
  BY NextFresh, NextUnedited DEF PromiseInv
<1>3. PromiseInv /\ AttestFresh /\ PendingUnedited /\ [Next]_vars =>
        [\A r \in RowIds :
            rules[r].status = "manual" /\ ~overlap => rules'[r].status = "manual"]_vars
  BY StepKeepsEdits DEF EditsInv
<1> QED
  BY PromiseInvariance, <1>1, <1>2, <1>3, PTL DEF Spec
=============================================================================
