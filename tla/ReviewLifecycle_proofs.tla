----------------------- MODULE ReviewLifecycle_proofs -----------------------
(***************************************************************************)
(* The review lifecycle is correct for any number of requests, issues and  *)
(* clients and any allowance.  The allowance is conserved because the      *)
(* holder of the organisation's row lock sits between its UPDATE and its   *)
(* first commit (LockInv); a verdict stays true because its review is over *)
(* and nothing writes that row again (VerdictInv).                         *)
(***************************************************************************)
EXTENDS ReviewLifecycle, TLAPS

\* Only a request between the UPDATE of the gate and its first commit holds the
\* lock, and a run is left for it.
LockInv ==
    org.lock # Nobody => At(org.lock, "load") /\ org.allowance > 0

\* The author of a verdict has answered.
AuthorDone == \A i \in Issues : finding[i].by # Nobody => At(finding[i].by, "done")

AllowanceInv == TypeOK /\ LockInv /\ AllowanceConserved
VerdictInv == TypeOK /\ AuthorDone /\ VerdictMatchesReview

----------------------------------------------------------------------------
LEMMA RequestAtType ==
    \A pc \in {"new", "done", "lost"} \cup InFlight : RequestAt(pc) \in Request
  BY DEF RequestAt, Request, AllOpen, FindingStatuses

LEMMA InitAllowance == Init => AllowanceInv
<1> SUFFICES ASSUME Init PROVE AllowanceInv
  OBVIOUS
<1> USE DEF Init
<1>1. PICK tier \in {"free", "paid"}, n \in 0..MaxAllowance :
        org = [tier |-> tier, allowance |-> n, lock |-> Nobody] /\ granted = n
  OBVIOUS
<1>2. TypeOK
  <2>1. org \in Organization /\ granted \in 0..MaxAllowance /\ spent \in Nat
    BY <1>1 DEF Organization
  <2>2. review \in [Reviews -> Review]
    BY DEF Review, NoReview
  <2>3. finding \in [Issues -> Finding]
    BY DEF Finding, FindingStatuses
  <2>4. req \in [Reviews -> Request]
    BY RequestAtType
  <2>5. patch \in [Patchers -> Patch]
    BY DEF Patch, IdlePatch, FindingStatuses
  <2> QED
    BY <2>1, <2>2, <2>3, <2>4, <2>5 DEF TypeOK
<1>3. LockInv /\ AllowanceConserved
  BY <1>1, BoundAssumption DEF LockInv, AllowanceConserved
<1> QED
  BY <1>2, <1>3 DEF AllowanceInv

LEMMA NextType == TypeOK /\ LockInv /\ [Next]_vars => TypeOK'
<1> SUFFICES ASSUME TypeOK, LockInv, [Next]_vars PROVE TypeOK'
  OBVIOUS
<1> USE RequestAtType, BoundAssumption, NamesAssumption
    DEF TypeOK, LockInv, Reviews, Organization, Goto, InFlight, At
<1>1. ASSUME NEW r \in Requests, TriggerStep(r) PROVE TypeOK'
  <2>1. CASE GateRead(r)
    BY <2>1 DEF GateRead
  <2>2. CASE GateConsume(r)
    BY <2>2 DEF GateConsume
  <2>3. CASE Refuse(r)
    BY <2>3 DEF Refuse, RolledBack
  <2>4. CASE Create(r)
    <3> USE <2>4 DEF Create
    <3>1. org' \in Organization /\ spent' \in Nat
      <4>1. CASE org.lock = r
        <5>1. org.allowance - 1 \in 0..MaxAllowance
          BY <4>1
        <5>2. org' = [tier |-> org.tier, allowance |-> org.allowance - 1, lock |-> Nobody]
          BY <4>1
        <5>3. org.tier \in {"free", "paid"} /\ spent' \in Nat
          BY <4>1
        <5> QED
          BY <5>1, <5>2, <5>3
      <4>2. CASE org.lock # r
        BY <4>2
      <4> QED
        BY <4>1, <4>2
    <3>2. review' \in [Reviews -> Review]
      BY DEF Record, Review
    <3>3. req' \in [Reviews -> Request]
      OBVIOUS
    <3> QED
      BY <3>1, <3>2, <3>3
  <2>5. CASE Start(r)
    BY <2>5 DEF Start, Record, Review
  <2>6. ASSUME NEW found \in SUBSET Issues, VerifyRead(r, found) PROVE TypeOK'
    BY <2>6 DEF VerifyRead, Request, Finding
  <2>7. ASSUME NEW found \in SUBSET Issues, Fail(r, found) PROVE TypeOK'
    BY <2>7 DEF Fail, Failed, Record, Review
  <2>8. CASE VerifyCommit(r)
    BY <2>8 DEF VerifyCommit, Verified, Flushed, Record, Review, Request, Finding, FindingStatuses
  <2> QED
    BY <1>1, <2>1, <2>2, <2>3, <2>4, <2>5, <2>6, <2>7, <2>8 DEF TriggerStep
<1>2. ASSUME NEW b \in Bulk, BulkStep(b) PROVE TypeOK'
  <2>1. CASE BulkStart(b)
    BY <2>1 DEF BulkStart
  <2>2. ASSUME NEW answered \in BOOLEAN, NEW violations \in SUBSET Issues,
               BulkEnds(b, answered, violations)
        PROVE TypeOK'
    BY <2>2 DEF BulkEnds, Failed, Record, Review
  <2> QED
    BY <1>2, <2>1, <2>2 DEF BulkStep
<1>3. ASSUME NEW r \in Reviews, SessionBreaks(r) PROVE TypeOK'
  BY <1>3 DEF SessionBreaks, RolledBack
<1>4. ASSUME NEW c \in Patchers, PatchStep(c) PROVE TypeOK'
  <2>1. ASSUME NEW i \in Issues, PatchRead(c, i) PROVE TypeOK'
    BY <2>1 DEF PatchRead, Patch, Finding
  <2>2. ASSUME NEW status \in FindingStatuses, PatchCommit(c, status) PROVE TypeOK'
    BY <2>2 DEF PatchCommit, Patch, IdlePatch, Finding, FindingStatuses
  <2> QED
    BY <1>4, <2>1, <2>2 DEF PatchStep
<1>5. ASSUME NEW n \in 0..MaxAllowance, Grant(n) PROVE TypeOK'
  BY <1>5 DEF Grant
<1>6. ASSUME NEW tier \in {"free", "paid"}, SetTier(tier) PROVE TypeOK'
  BY <1>6 DEF SetTier
<1>7. CASE Crash
  BY <1>7 DEF Crash, Patch, IdlePatch, FindingStatuses
<1>8. CASE UNCHANGED vars
  BY <1>8 DEF vars
<1> QED
  BY <1>1, <1>2, <1>3, <1>4, <1>5, <1>6, <1>7, <1>8 DEF Next

(***************************************************************************)
(* The allowance                                                           *)
(***************************************************************************)
LEMMA NextAllowance == AllowanceInv /\ [Next]_vars => AllowanceInv'
<1> SUFFICES ASSUME AllowanceInv, [Next]_vars PROVE AllowanceInv'
  OBVIOUS
<1> USE NamesAssumption, BoundAssumption
    DEF AllowanceInv, LockInv, AllowanceConserved, At, Goto, RequestAt, Reviews
<1>1. TypeOK'
  BY NextType
<1>2. org.lock \in Requests \cup {Nobody} /\ org.allowance \in Nat /\ granted \in Nat
      /\ spent \in Nat /\ DOMAIN req = Reviews
  BY DEF TypeOK, Organization
<1> DEFINE Goal == (LockInv /\ AllowanceConserved)'
<1>3. ASSUME NEW r \in Requests, TriggerStep(r) PROVE Goal
  <2>1. CASE GateRead(r)
    BY <1>2, <2>1 DEF GateRead, TypeOK
  <2>2. CASE GateConsume(r)
    BY <1>2, <2>2 DEF GateConsume, GrantLeft, TypeOK, Organization
  <2>3. CASE Refuse(r)
    BY <1>2, <2>3 DEF Refuse, RolledBack, TypeOK, Organization
  <2>4. CASE Create(r)
    <3>1. CASE org.lock = r
      <4>1. org'.allowance = org.allowance - 1 /\ org'.lock = Nobody
        BY <2>4, <3>1 DEF Create, TypeOK, Organization
      <4>2. spent' = spent + 1 /\ granted' = granted /\ org.allowance > 0
        BY <2>4, <3>1 DEF Create
      <4> QED
        BY <1>2, <4>1, <4>2
    <3>2. CASE org.lock # r
      BY <1>2, <2>4, <3>2 DEF Create, TypeOK
    <3> QED
      BY <3>1, <3>2
  <2>5. CASE Start(r)
    BY <1>2, <2>5 DEF Start, TypeOK
  <2>6. ASSUME NEW found \in SUBSET Issues, VerifyRead(r, found) PROVE Goal
    BY <1>2, <2>6 DEF VerifyRead, TypeOK
  <2>7. ASSUME NEW found \in SUBSET Issues, Fail(r, found) PROVE Goal
    BY <1>2, <2>7 DEF Fail, TypeOK
  <2>8. CASE VerifyCommit(r)
    BY <1>2, <2>8 DEF VerifyCommit, TypeOK
  <2> QED
    BY <1>3, <2>1, <2>2, <2>3, <2>4, <2>5, <2>6, <2>7, <2>8 DEF TriggerStep
<1>4. ASSUME NEW b \in Bulk, BulkStep(b) PROVE Goal
  BY <1>2, <1>4 DEF BulkStep, BulkStart, BulkEnds, TypeOK
<1>5. ASSUME NEW r \in Reviews, SessionBreaks(r) PROVE Goal
  BY <1>2, <1>5 DEF SessionBreaks, RolledBack, TypeOK, Organization
<1>6. ASSUME NEW c \in Patchers, PatchStep(c) PROVE Goal
  BY <1>2, <1>6 DEF PatchStep, PatchRead, PatchCommit
<1>7. ASSUME NEW n \in 0..MaxAllowance, Grant(n) PROVE Goal
  BY <1>2, <1>7 DEF Grant, TypeOK, Organization
<1>8. ASSUME NEW tier \in {"free", "paid"}, SetTier(tier) PROVE Goal
  BY <1>2, <1>8 DEF SetTier, TypeOK, Organization
<1>9. ASSUME Crash PROVE Goal
  BY <1>2, <1>9 DEF Crash, TypeOK, Organization
<1>10. ASSUME UNCHANGED vars PROVE Goal
  BY <1>10 DEF vars
<1>11. Goal
  BY <1>3, <1>4, <1>5, <1>6, <1>7, <1>8, <1>9, <1>10 DEF Next
<1> QED
  BY <1>1, <1>11

(***************************************************************************)
(* The verdicts                                                            *)
(***************************************************************************)
LEMMA InitVerdict == Init => AuthorDone /\ VerdictMatchesReview
  BY DEF Init, AuthorDone, VerdictMatchesReview

LEMMA NextVerdict ==
    VerdictInv /\ LockInv /\ [Next]_vars => (AuthorDone /\ VerdictMatchesReview)'
<1> SUFFICES ASSUME VerdictInv, LockInv, [Next]_vars
             PROVE (AuthorDone /\ VerdictMatchesReview)'
  OBVIOUS
<1> USE NamesAssumption
    DEF VerdictInv, AuthorDone, VerdictMatchesReview, At, Goto, RequestAt, Reviews
<1>1. /\ DOMAIN req = Reviews /\ DOMAIN review = Reviews /\ DOMAIN finding = Issues
      /\ \A i \in Issues : finding[i].by \in Requests \cup {Nobody}
  BY DEF TypeOK, Finding
<1> DEFINE Goal == (AuthorDone /\ VerdictMatchesReview)'
\* A step that writes no verdict and moves only requests under way.
<1>2. ASSUME NEW r \in Reviews, ~At(r, "done"), UNCHANGED finding,
             \A q \in Reviews \ {r} : req'[q] = req[q] /\ review'[q] = review[q]
      PROVE Goal
  BY <1>1, <1>2
<1>3. ASSUME NEW r \in Requests, TriggerStep(r) PROVE Goal
  <2>1. CASE VerifyCommit(r)
    <3>1. finding' = [i \in Issues |-> Verified(r, i)]
          /\ review' = [review EXCEPT ![r] =
                            [status |-> "completed", found |-> req[r].found]]
          /\ At(r, "done")'
      BY <1>1, <2>1 DEF VerifyCommit, Record
    <3>2. \A i \in Issues : finding'[i].by = r
      BY <3>1 DEF Verified
    <3>3. \A i \in Issues : finding'[i].verdict =
              IF i \in req[r].found THEN "still_present" ELSE "verified"
      BY <3>1 DEF Verified, Flushed
    <3>4. review'[r].status = "completed" /\ review'[r].found = req[r].found
      BY <1>1, <3>1
    <3> QED
      BY <3>1, <3>2, <3>3, <3>4
  <2>2. CASE ~VerifyCommit(r)
    <3>1. ~At(r, "done") /\ UNCHANGED finding
      BY <1>3, <2>2 DEF TriggerStep, GateRead, GateConsume, Refuse, Create, Start,
                        VerifyRead, Fail
    <3>2. \A q \in Reviews \ {r} : req'[q] = req[q] /\ review'[q] = review[q]
      BY <1>1, <1>3, <2>2 DEF TriggerStep, GateRead, GateConsume, Refuse, Create, Start,
                              VerifyRead, Fail, Record
    <3> QED
      BY <1>2, <3>1, <3>2
  <2> QED
    BY <2>1, <2>2
<1>4. ASSUME NEW b \in Bulk, BulkStep(b) PROVE Goal
  <2>1. ~At(b, "done") /\ UNCHANGED finding
    BY <1>4 DEF BulkStep, BulkStart, BulkEnds
  <2>2. \A q \in Reviews \ {b} : req'[q] = req[q] /\ review'[q] = review[q]
    BY <1>1, <1>4 DEF BulkStep, BulkStart, BulkEnds, Record
  <2> QED
    BY <1>2, <2>1, <2>2
<1>5. ASSUME NEW r \in Reviews, SessionBreaks(r) PROVE Goal
  <2>1. ~At(r, "done") /\ UNCHANGED finding
    BY <1>5 DEF SessionBreaks, InFlight
  <2>2. \A q \in Reviews \ {r} : req'[q] = req[q] /\ review'[q] = review[q]
    BY <1>1, <1>5 DEF SessionBreaks
  <2> QED
    BY <1>2, <2>1, <2>2
<1>6. ASSUME NEW c \in Patchers, PatchStep(c) PROVE Goal
  <2>1. \A i \in Issues : finding'[i].by = finding[i].by
                          /\ finding'[i].verdict = finding[i].verdict
    <3>1. CASE UNCHANGED finding
      BY <3>1
    <3>2. ASSUME NEW status \in FindingStatuses, NEW j \in Issues,
                 finding' = [finding EXCEPT ![j].status = status]
          PROVE \A i \in Issues : finding'[i].by = finding[i].by
                                /\ finding'[i].verdict = finding[i].verdict
      <4>1. finding[j] \in Finding /\ DOMAIN finding = Issues
        BY DEF TypeOK
      <4> QED
        BY <3>2, <4>1 DEF Finding
    <3>3. \A d \in Patchers : patch[d].issue \in Issues \cup {Nobody}
      BY DEF TypeOK, Patch
    <3> QED
      BY <1>6, <3>1, <3>2, <3>3 DEF PatchStep, PatchRead, PatchCommit
  <2>2. UNCHANGED <<req, review>>
    BY <1>6 DEF PatchStep, PatchRead, PatchCommit
  <2> QED
    BY <1>1, <2>1, <2>2
<1>7. ASSUME NEW n \in 0..MaxAllowance, Grant(n) PROVE Goal
  BY <1>7 DEF Grant
<1>8. ASSUME NEW tier \in {"free", "paid"}, SetTier(tier) PROVE Goal
  BY <1>8 DEF SetTier
<1>9. CASE Crash
  BY <1>1, <1>9 DEF Crash, InFlight
<1>10. CASE UNCHANGED vars
  BY <1>10 DEF vars
<1> QED
  BY <1>3, <1>4, <1>5, <1>6, <1>7, <1>8, <1>9, <1>10 DEF Next

(***************************************************************************)
(* The theorems                                                            *)
(***************************************************************************)

\* No handler ever leaves a row, a request or the allowance outside its type:
\* the CHECK constraints of the tables hold, and the allowance never goes
\* below zero.
THEOREM TypeCorrect == Spec => []TypeOK
<1>1. AllowanceInv => TypeOK
  BY DEF AllowanceInv
<1> QED
  BY InitAllowance, NextAllowance, <1>1, PTL DEF Spec

\* require_runs_enabled: any number of requests racing for any allowance are
\* charged only for the runs that were granted and recorded.
THEOREM AllowanceIsConserved == Spec => []AllowanceConserved
<1>1. AllowanceInv => AllowanceConserved
  BY DEF AllowanceInv
<1> QED
  BY InitAllowance, NextAllowance, <1>1, PTL DEF Spec

\* _verify_against_previous_version: for any number of reviews, bulk reviews,
\* edits and crashes, a verdict on an old finding is the one that a completed
\* review's own findings justify.
THEOREM VerdictsAreJustified == Spec => []VerdictMatchesReview
<1> DEFINE Inv == AllowanceInv /\ VerdictInv
<1>1. Init => Inv
  BY InitAllowance, InitVerdict DEF AllowanceInv, VerdictInv
<1>2. Inv /\ [Next]_vars => Inv'
  BY NextAllowance, NextVerdict DEF AllowanceInv, VerdictInv
<1>3. Inv => VerdictMatchesReview
  BY DEF VerdictInv
<1> QED
  BY <1>1, <1>2, <1>3, PTL DEF Spec
=============================================================================
