---------------------------- MODULE ReportsProofs ----------------------------
(***************************************************************************)
(* Proofs about Reports for any users, secrets, requests and limits.       *)
(*                                                                         *)
(* EnoughReportsRestrict is not inductive: nothing in it speaks of the     *)
(* handlers under way.  GroundsInv adds them.  For a user who is not       *)
(* restricted, the open reports that a handler has counted and no lift has *)
(* overlooked are fewer than MaxReports, or a handler that counted enough  *)
(* is still on its way to Impose, or such a handler failed.              *)
(***************************************************************************)
EXTENDS Reports, FiniteSetTheorems, TLAPS

\* Every request kind keeps to its own steps, and a report request past its save has saved.
StepInv ==
    /\ \A q \in Reporting :
          /\ pc[q] \in ReportSteps
          /\ pc[q] # "idle" => job[q] \in Job
          /\ pc[q] \in {"count", "write", "percentage", "decide", "notify", "done"}
                => reports[q] # NoReport /\ reports[q].reported = job[q].about
          /\ pc[q] \in {"idle", "secret", "owner", "duplicate", "save", "rejected"}
                => reports[q] = NoReport
    /\ \A q \in Resolving :
          /\ pc[q] \in ResolveSteps
          /\ pc[q] \notin {"idle", "rejected"}
                => /\ target[q] \in ReportId
                   /\ reports[target[q]] # NoReport

\* The reports a finished count has taken into account.
Counted == {r \in ReportId : r \in Archived
               \/ pc[r] \in {"write", "percentage", "decide", "notify", "done"}}

PendingRestriction(q, u) ==
    /\ pc[q] \in {"write", "percentage", "decide"}
    /\ job[q].about = u
    /\ Cardinality(counted[q]) >= MaxReports

FailedOn(q, u) ==
    pc[q] = "failed" /\ reports[q] # NoReport /\ reports[q].reported = u

Heeded(u) == (Unresolved(u) \cap Counted) \ overlooked

GroundsInv ==
    \A u \in User :
        \/ restricted[u]
        \/ Cardinality(Heeded(u)) < MaxReports
        \/ \E q \in Reporting : PendingRestriction(q, u) \/ FailedOn(q, u)

\* The count a resolve holds covers the open reports of its user that are not behind it.
CountInv ==
    \A q \in Resolving :
        pc[q] \in CountHeld => Unresolved(Subject(q)) \ behind[q] \subseteq counted[q]

IInv == TypeOK /\ StepInv /\ CountInv /\ GroundsInv

------------------------------------------------------------------------------
LEMMA ReportIdFinite == IsFiniteSet(ReportId)
  BY IdAssumption, FS_Union DEF ReportId

\* Fewer stays fewer for a subset, which is all the argument needs to know of Cardinality.
LEMMA FewerInSubset ==
    ASSUME NEW S, NEW T, S \subseteq T, T \subseteq ReportId, Cardinality(T) < MaxReports
    PROVE  Cardinality(S) < MaxReports
<1>1. IsFiniteSet(T)
  BY ReportIdFinite, FS_Subset
<1>2. IsFiniteSet(S) /\ Cardinality(S) <= Cardinality(T)
  BY <1>1, FS_Subset
<1>3. Cardinality(S) \in Nat /\ Cardinality(T) \in Nat
  BY <1>1, <1>2, FS_CardinalityType
<1>4. QED
  BY <1>2, <1>3, LimitAssumption

LEMMA CardinalityOfReports ==
    ASSUME NEW S \in SUBSET ReportId PROVE Cardinality(S) \in Nat
  BY ReportIdFinite, FS_Subset, FS_CardinalityType


------------------------------------------------------------------------------
\* Types are kept by every operation.
LEMMA TypeStep == TypeOK /\ StepInv /\ [Next]_vars => TypeOK'
<1> SUFFICES ASSUME TypeOK, StepInv, [Next]_vars PROVE TypeOK'
  OBVIOUS
<1>1. ASSUME NEW q \in Reporting, NEW j \in Asked, FindReporter(q, j) PROVE TypeOK'
  BY <1>1, DataAssumption DEF FindReporter, Goto, TypeOK, userVars, secretVars,
     ReportSteps, Request
<1>2. ASSUME NEW q \in Reporting, FindSecret(q) PROVE TypeOK'
  BY <1>2 DEF FindSecret, Goto, TypeOK, userVars, secretVars, ReportSteps, Request
<1>3. ASSUME NEW q \in Reporting, FindOwner(q) PROVE TypeOK'
  BY <1>3 DEF FindOwner, Goto, TypeOK, userVars, secretVars, ReportSteps, Request
<1>4. ASSUME NEW q \in Reporting, CheckDuplicate(q) PROVE TypeOK'
  BY <1>4 DEF CheckDuplicate, Goto, TypeOK, userVars, secretVars, ReportSteps, Request
<1>5. ASSUME NEW q \in Reporting, SaveReport(q) PROVE TypeOK'
  BY <1>5 DEF SaveReport, Goto, TypeOK, StepInv, userVars, secretVars, ReportSteps,
     Request, Report, Job, ReportId, CountHeld
<1>6. ASSUME NEW q \in Reporting, CountForReport(q) PROVE TypeOK'
  BY <1>6 DEF CountForReport, Goto, TypeOK, userVars, secretVars, ReportSteps, Request,
     Unresolved, Against, Open, Stored
<1>7. ASSUME NEW q \in Request, WriteCount(q) PROVE TypeOK'
  BY <1>7, CardinalityOfReports DEF WriteCount, Goto, TypeOK, secretVars, ReportSteps,
     Request
<1>8. ASSUME NEW q \in Request, CheckPercentage(q) PROVE TypeOK'
  BY <1>8 DEF CheckPercentage, Goto, TypeOK, userVars, secretVars, ReportSteps, Request,
     OverPercentage
<1>9. ASSUME NEW q \in Reporting, Impose(q) PROVE TypeOK'
  BY <1>9 DEF Impose, Goto, TypeOK, secretVars, ReportSteps, Request, ShouldBan
<1>10. ASSUME NEW q \in Reporting, Notify(q) PROVE TypeOK'
  BY <1>10 DEF Notify, Goto, TypeOK, userVars, secretVars, ReportSteps, Request
<1>11. ASSUME NEW q \in Resolving, NEW r \in ReportId, FindReport(q, r) PROVE TypeOK'
  BY <1>11 DEF FindReport, Goto, TypeOK, userVars, secretVars, ResolveSteps, Request
<1>12. ASSUME NEW q \in Resolving, MarkResolved(q) PROVE TypeOK'
  <2>1. target[q] \in ReportId /\ reports[target[q]] \in Report
    BY <1>12, IdAssumption DEF MarkResolved, Goto, StepInv, TypeOK
  <2>2. [reports[target[q]] EXCEPT !.resolved = TRUE] \in Report
    BY <2>1 DEF Report
  <2>3. reports' \in [ReportId -> Report \cup {NoReport}]
    BY <1>12, <2>1, <2>2 DEF MarkResolved, TypeOK
  <2>4. QED
    BY <1>12, <2>3 DEF MarkResolved, Goto, TypeOK, userVars, secretVars, ResolveSteps, Request
<1>13. ASSUME NEW q \in Resolving, CountForResolve(q) PROVE TypeOK'
  BY <1>13 DEF CountForResolve, Goto, TypeOK, userVars, secretVars, ResolveSteps, Request,
     CountedByResolve, Unresolved, Against, Open, Stored
<1>14. ASSUME NEW q \in Resolving, Lift(q) PROVE TypeOK'
  BY <1>14 DEF Lift, Goto, TypeOK, secretVars, ResolveSteps, Request, ShouldBan,
     Unresolved, Against, Open, Stored
<1>15. ASSUME NEW q \in Request, Fail(q) PROVE TypeOK'
  BY <1>15 DEF Fail, TypeOK, userVars, secretVars, ReportSteps, Request
<1>16. ASSUME NEW s \in Secret, EditSharing(s) PROVE TypeOK'
  BY <1>16, LimitAssumption DEF EditSharing, Edit, TypeOK, userVars, handlerVars
<1>17. ASSUME NEW s \in Secret, DeleteSecret(s) PROVE TypeOK'
  BY <1>17, LimitAssumption DEF DeleteSecret, Edit, TypeOK, userVars, handlerVars
<1>18. ASSUME NEW u \in User, DeactivateUser(u) PROVE TypeOK'
  BY <1>18, LimitAssumption DEF DeactivateUser, Edit, TypeOK, secretVars, handlerVars
<1>19. CASE UNCHANGED vars
  BY <1>19 DEF TypeOK, vars, userVars, secretVars, handlerVars
<1>20. QED
  BY <1>1, <1>2, <1>3, <1>4, <1>5, <1>6, <1>7, <1>8, <1>9, <1>10, <1>11, <1>12, <1>13,
     <1>14, <1>15, <1>16, <1>17, <1>18, <1>19 DEF Next, Idle, ReportStep, ResolveStep, Request

\* Resolving a report changes nothing else in the collection.
LEMMA MarkResolvedKeeps ==
    ASSUME TypeOK, StepInv, NEW q \in Resolving, MarkResolved(q), NEW r \in ReportId
    PROVE  /\ reports'[r] = NoReport <=> reports[r] = NoReport
           /\ reports[r] # NoReport =>
                 /\ reports'[r].reported = reports[r].reported
                 /\ reports'[r].byId = reports[r].byId
                 /\ reports[r].resolved => reports'[r].resolved
<1>1. target[q] \in ReportId /\ reports[target[q]] \in Report
  BY IdAssumption DEF MarkResolved, Goto, StepInv, TypeOK
<1>2. [reports[target[q]] EXCEPT !.resolved = TRUE] \in Report
  BY <1>1 DEF Report
<1>3. CASE r = target[q]
  BY <1>1, <1>2, <1>3, DataAssumption DEF MarkResolved, TypeOK, Report
<1>4. CASE r # target[q]
  BY <1>1, <1>4 DEF MarkResolved, TypeOK
<1>5. QED
  BY <1>3, <1>4

\* Saving a report adds it under the id of its request.
LEMMA SaveReportAdds ==
    ASSUME TypeOK, StepInv, NEW q \in Reporting, SaveReport(q), NEW r \in ReportId
    PROVE  IF r = q THEN reports'[r] # NoReport /\ reports'[r].reported = job[q].about
                    ELSE reports'[r] = reports[r]
<1>1. job[q] \in Job
  BY DEF SaveReport, Goto, StepInv
<1>2. [reporter |-> job[q].by, reported |-> job[q].about, secret |-> job[q].secret,
       legacy |-> FALSE, byId |-> TRUE, resolved |-> FALSE] \in Report
  BY <1>1 DEF Job, Report
<1>3. QED
  BY <1>2, DataAssumption DEF SaveReport, TypeOK

\* The bookkeeping of each request is kept by every operation.
LEMMA StepInvStep == TypeOK /\ StepInv /\ [Next]_vars => StepInv'
<1> SUFFICES ASSUME TypeOK, StepInv, [Next]_vars PROVE StepInv'
  OBVIOUS
<1>1. ASSUME NEW q \in Reporting, NEW j \in Asked, FindReporter(q, j) PROVE StepInv'
  BY <1>1, DataAssumption, IdAssumption DEF FindReporter, Goto, TypeOK, StepInv, Request,
     ReportSteps, ResolveSteps
<1>2. ASSUME NEW q \in Reporting, FindSecret(q) PROVE StepInv'
  BY <1>2, IdAssumption DEF FindSecret, Goto, TypeOK, StepInv, Request, ReportSteps,
     ResolveSteps
<1>3. ASSUME NEW q \in Reporting, FindOwner(q) PROVE StepInv'
  BY <1>3, IdAssumption DEF FindOwner, Goto, TypeOK, StepInv, Request, ReportSteps,
     ResolveSteps
<1>4. ASSUME NEW q \in Reporting, CheckDuplicate(q) PROVE StepInv'
  BY <1>4, IdAssumption DEF CheckDuplicate, Goto, TypeOK, StepInv, Request, ReportSteps,
     ResolveSteps
<1>5. ASSUME NEW q \in Reporting, SaveReport(q) PROVE StepInv'
  <2>1. \A r \in ReportId : r # q => reports'[r] = reports[r]
    BY <1>5, SaveReportAdds
  <2>2. reports'[q] # NoReport /\ reports'[q].reported = job[q].about
    BY <1>5, SaveReportAdds DEF ReportId
  <2>3. \A r \in ReportId : reports[r] # NoReport => reports'[r] # NoReport
    BY <2>1, <2>2
  <2>4. QED
    BY <1>5, <2>1, <2>2, <2>3, IdAssumption
    DEF SaveReport, Goto, TypeOK, StepInv, Request, ReportSteps, ResolveSteps, ReportId
<1>6. ASSUME NEW q \in Reporting, CountForReport(q) PROVE StepInv'
  BY <1>6, IdAssumption DEF CountForReport, Goto, TypeOK, StepInv, Request, ReportSteps,
     ResolveSteps
<1>7. ASSUME NEW q \in Request, WriteCount(q) PROVE StepInv'
  BY <1>7, IdAssumption DEF WriteCount, Goto, TypeOK, StepInv, Request, ReportSteps,
     ResolveSteps
<1>8. ASSUME NEW q \in Request, CheckPercentage(q) PROVE StepInv'
  BY <1>8, IdAssumption DEF CheckPercentage, Goto, TypeOK, StepInv, Request, ReportSteps,
     ResolveSteps
<1>9. ASSUME NEW q \in Reporting, Impose(q) PROVE StepInv'
  BY <1>9, IdAssumption DEF Impose, Goto, TypeOK, StepInv, Request, ReportSteps,
     ResolveSteps
<1>10. ASSUME NEW q \in Reporting, Notify(q) PROVE StepInv'
  BY <1>10, IdAssumption DEF Notify, Goto, TypeOK, StepInv, Request, ReportSteps,
     ResolveSteps
<1>11. ASSUME NEW q \in Resolving, NEW r \in ReportId, FindReport(q, r) PROVE StepInv'
  BY <1>11, IdAssumption DEF FindReport, Goto, Stored, TypeOK, StepInv, Request,
     ReportSteps, ResolveSteps
<1>12. ASSUME NEW q \in Resolving, MarkResolved(q) PROVE StepInv'
  <2>1. \A r \in ReportId :
          reports[r] # NoReport
             => reports'[r] # NoReport /\ reports'[r].reported = reports[r].reported
    BY <1>12, MarkResolvedKeeps
  <2>2. QED
    BY <1>12, <2>1, IdAssumption
    DEF MarkResolved, Goto, TypeOK, StepInv, Request, ReportSteps, ResolveSteps, ReportId
<1>13. ASSUME NEW q \in Resolving, CountForResolve(q) PROVE StepInv'
  BY <1>13, IdAssumption DEF CountForResolve, Goto, TypeOK, StepInv, Request, ReportSteps,
     ResolveSteps
<1>14. ASSUME NEW q \in Resolving, Lift(q) PROVE StepInv'
  BY <1>14, IdAssumption DEF Lift, Goto, TypeOK, StepInv, Request, ReportSteps, ResolveSteps
<1>15. ASSUME NEW q \in Request, Fail(q) PROVE StepInv'
  BY <1>15, IdAssumption DEF Fail, Running, TypeOK, StepInv, Request, ReportSteps,
     ResolveSteps
<1>16. ASSUME NEW s \in Secret, EditSharing(s) PROVE StepInv'
  BY <1>16 DEF EditSharing, Edit, StepInv, handlerVars
<1>17. ASSUME NEW s \in Secret, DeleteSecret(s) PROVE StepInv'
  BY <1>17 DEF DeleteSecret, Edit, StepInv, handlerVars
<1>18. ASSUME NEW u \in User, DeactivateUser(u) PROVE StepInv'
  BY <1>18 DEF DeactivateUser, Edit, StepInv, handlerVars
<1>19. CASE UNCHANGED vars
  BY <1>19 DEF StepInv, vars, userVars, secretVars, handlerVars
<1>20. QED
  BY <1>1, <1>2, <1>3, <1>4, <1>5, <1>6, <1>7, <1>8, <1>9, <1>10, <1>11, <1>12, <1>13,
     <1>14, <1>15, <1>16, <1>17, <1>18, <1>19 DEF Next, Idle, ReportStep, ResolveStep, Request

------------------------------------------------------------------------------
\* A step keeps what the counts cover when it opens no report, and no request begins to
\* hold a count.
LEMMA CountKept ==
    ASSUME TypeOK, StepInv, CountInv,
           \A q \in Resolving : pc'[q] \in CountHeld =>
              /\ pc[q] \in CountHeld
              /\ target'[q] = target[q] /\ counted'[q] = counted[q]
              /\ behind'[q] = behind[q],
           \A r \in ReportId : reports[r] # NoReport =>
              /\ reports'[r] # NoReport
              /\ reports'[r].reported = reports[r].reported,
           \A u \in User : Unresolved(u)' \subseteq Unresolved(u)
    PROVE  CountInv'
<1> SUFFICES ASSUME NEW q \in Resolving, pc'[q] \in CountHeld
             PROVE  (Unresolved(Subject(q)) \ behind[q])' \subseteq counted'[q]
  BY DEF CountInv
<1>1. target[q] \in ReportId /\ reports[target[q]] # NoReport
  BY DEF StepInv, CountHeld
<1>2. q \notin Reporting
  BY IdAssumption
<1>3. PICK u : u = Subject(q)
  OBVIOUS
<1>4. u \in User
  BY <1>1, <1>2, <1>3 DEF Subject, TypeOK, Report
<1>5. Subject(q)' = u
  BY <1>1, <1>2, <1>3 DEF Subject
<1>6. Unresolved(Subject(q))' = Unresolved(u)'
  BY <1>5 DEF Unresolved, Against, Open, Stored
<1>7. Unresolved(u) \ behind[q] \subseteq counted[q]
  BY <1>3 DEF CountInv
<1>8. QED
  BY <1>4, <1>6, <1>7

\* Every operation keeps what the counts cover.
LEMMA CountStep == TypeOK /\ StepInv /\ CountInv /\ [Next]_vars => CountInv'
<1> SUFFICES ASSUME TypeOK, StepInv, CountInv, [Next]_vars PROVE CountInv'
  OBVIOUS
<1>1. ASSUME NEW q \in Reporting, SaveReport(q) PROVE CountInv'
  <2> SUFFICES ASSUME NEW x \in Resolving, pc'[x] \in CountHeld
               PROVE  (Unresolved(Subject(x)) \ behind[x])' \subseteq counted'[x]
    BY DEF CountInv
  <2>1. pc[x] \in CountHeld /\ behind'[x] = behind[x] \cup {q} /\ counted' = counted
    BY <1>1, IdAssumption DEF SaveReport, Goto, TypeOK, Request, CountHeld
  <2>2. target[x] \in ReportId /\ reports[target[x]] # NoReport /\ x \notin Reporting
    BY <2>1, IdAssumption DEF StepInv, CountHeld
  <2>3. \A r \in ReportId : r # q => reports'[r] = reports[r]
    BY <1>1, SaveReportAdds
  <2>4. PICK u : u = Subject(x)
    OBVIOUS
  <2>5. Unresolved(u)' \subseteq Unresolved(u) \cup {q}
    BY <2>3 DEF Unresolved, Against, Open, Stored
  <2>6. CASE target[x] = q
    <3>1. pc[q] = "save"
      BY <1>1 DEF SaveReport, Goto
    <3>2. QED
      BY <2>2, <2>6, <3>1 DEF StepInv
  <2>7. CASE target[x] # q
    <3>1. Subject(x)' = u
      BY <1>1, <2>2, <2>3, <2>4, <2>7 DEF Subject, SaveReport
    <3>2. Unresolved(Subject(x))' = Unresolved(u)'
      BY <3>1 DEF Unresolved, Against, Open, Stored
    <3>3. Unresolved(u) \ behind[x] \subseteq counted[x]
      BY <2>1, <2>4 DEF CountInv
    <3>4. QED
      BY <2>1, <2>5, <3>2, <3>3
  <2>8. QED
    BY <2>6, <2>7
<1>2. ASSUME NEW q \in Resolving, CountForResolve(q) PROVE CountInv'
  <2> SUFFICES ASSUME NEW x \in Resolving, pc'[x] \in CountHeld
               PROVE  (Unresolved(Subject(x)) \ behind[x])' \subseteq counted'[x]
    BY DEF CountInv
  <2>1. \A u \in User : Unresolved(u)' = Unresolved(u)
    BY <1>2 DEF CountForResolve, Unresolved, Against, Open, Stored
  <2>2. Subject(x)' = Subject(x)
    BY <1>2 DEF CountForResolve, Subject
  <2>3. Unresolved(Subject(x))' = Unresolved(Subject(x))
    BY <1>2, <2>2 DEF CountForResolve, Unresolved, Against, Open, Stored
  <2>4. CASE x = q
    <3>1. counted'[x] = CountedByResolve(target[x])
      BY <1>2, <2>4 DEF CountForResolve, TypeOK, Request
    <3>2. Subject(x) = reports[target[x]].reported
      BY IdAssumption DEF Subject
    <3>3. QED
      BY <2>3, <3>1, <3>2 DEF CountedByResolve
  <2>5. CASE x # q
    BY <1>2, <2>3, <2>5 DEF CountForResolve, Goto, TypeOK, Request, CountInv
  <2>6. QED
    BY <2>4, <2>5
<1>3. ASSUME NEW q \in Resolving, MarkResolved(q) PROVE CountInv'
  <2>1. \A r \in ReportId :
          /\ reports'[r] = NoReport <=> reports[r] = NoReport
          /\ reports[r] # NoReport =>
                /\ reports'[r].reported = reports[r].reported
                /\ reports'[r].byId = reports[r].byId
                /\ reports[r].resolved => reports'[r].resolved
    BY <1>3, MarkResolvedKeeps
  <2>2. \A u \in User : Unresolved(u)' \subseteq Unresolved(u)
    BY <2>1 DEF Unresolved, Against, Open, Stored
  <2>3. QED
    BY <1>3, <2>1, <2>2, CountKept DEF MarkResolved, Goto, TypeOK, Request, CountHeld
<1>4. CASE /\ reports' = reports /\ behind' = behind
           /\ \A x \in Resolving : pc'[x] \in CountHeld =>
                 /\ pc[x] \in CountHeld
                 /\ target'[x] = target[x] /\ counted'[x] = counted[x]
  <2>1. \A u \in User : Unresolved(u)' \subseteq Unresolved(u)
    BY <1>4 DEF Unresolved, Against, Open, Stored
  <2>2. QED
    BY <1>4, <2>1, CountKept
<1>5. ASSUME NEW q \in Reporting, NEW j \in Asked, FindReporter(q, j) PROVE CountInv'
  BY <1>4, <1>5, IdAssumption DEF FindReporter, Goto, TypeOK, Request
<1>6. ASSUME NEW q \in Reporting,
             FindSecret(q) \/ FindOwner(q) \/ CheckDuplicate(q) \/ CountForReport(q)
             \/ Impose(q) \/ Notify(q)
      PROVE  CountInv'
  BY <1>4, <1>6, IdAssumption DEF FindSecret, FindOwner, CheckDuplicate, CountForReport,
     Impose, Notify, Goto, TypeOK, Request
<1>7. ASSUME NEW q \in Request, WriteCount(q) \/ CheckPercentage(q) PROVE CountInv'
  BY <1>4, <1>7 DEF WriteCount, CheckPercentage, Goto, TypeOK, Request, CountHeld
<1>8. ASSUME NEW q \in Resolving, NEW r \in ReportId, FindReport(q, r) PROVE CountInv'
  BY <1>4, <1>8 DEF FindReport, Goto, TypeOK, Request, CountHeld
<1>9. ASSUME NEW q \in Resolving, Lift(q) PROVE CountInv'
  BY <1>4, <1>9 DEF Lift, Goto, TypeOK, Request, CountHeld
<1>10. ASSUME NEW q \in Request, Fail(q) PROVE CountInv'
  BY <1>4, <1>10 DEF Fail, TypeOK, Request, CountHeld
<1>11. ASSUME NEW x \in Secret, EditSharing(x) \/ DeleteSecret(x) PROVE CountInv'
  BY <1>4, <1>11 DEF EditSharing, DeleteSecret, handlerVars
<1>12. ASSUME NEW u \in User, DeactivateUser(u) PROVE CountInv'
  BY <1>4, <1>12 DEF DeactivateUser, handlerVars
<1>13. CASE UNCHANGED vars
  BY <1>4, <1>13 DEF vars, handlerVars
<1>14. QED
  BY <1>1, <1>2, <1>3, <1>5, <1>6, <1>7, <1>8, <1>9, <1>10, <1>11, <1>12, <1>13
  DEF Next, Idle, ReportStep, ResolveStep, Request

------------------------------------------------------------------------------
\* A step keeps a user's grounds when it heeds no new report, and lets a pending
\* restriction be carried out or fail.
LEMMA GroundsKeptFor ==
    ASSUME TypeOK, GroundsInv, NEW u \in User,
           Heeded(u)' \subseteq Heeded(u),
           \A x \in Reporting :
              /\ PendingRestriction(x, u)
                    => PendingRestriction(x, u)' \/ FailedOn(x, u)' \/ restricted'[u]
              /\ FailedOn(x, u) => FailedOn(x, u)',
           restricted[u] => restricted'[u]
    PROVE  \/ restricted'[u]
           \/ (Cardinality(Heeded(u)) < MaxReports)'
           \/ \E x \in Reporting : PendingRestriction(x, u)' \/ FailedOn(x, u)'
<1>1. CASE Cardinality(Heeded(u)) < MaxReports
  <2>1. Heeded(u) \subseteq ReportId
    BY DEF Heeded, Unresolved, Against, Open, Stored
  <2>2. QED
    BY <1>1, <2>1, FewerInSubset
<1>2. CASE ~(Cardinality(Heeded(u)) < MaxReports)
  BY <1>2 DEF GroundsInv
<1>3. QED
  BY <1>1, <1>2

LEMMA GroundsKept ==
    ASSUME TypeOK, GroundsInv,
           \A u \in User : Heeded(u)' \subseteq Heeded(u),
           \A x \in Reporting, u \in User :
              /\ PendingRestriction(x, u)
                    => PendingRestriction(x, u)' \/ FailedOn(x, u)' \/ restricted'[u]
              /\ FailedOn(x, u) => FailedOn(x, u)',
           \A u \in User : restricted[u] => restricted'[u]
    PROVE  GroundsInv'
<1> SUFFICES ASSUME NEW u \in User
             PROVE  \/ restricted'[u]
                    \/ (Cardinality(Heeded(u)) < MaxReports)'
                    \/ \E x \in Reporting : PendingRestriction(x, u)' \/ FailedOn(x, u)'
  BY DEF GroundsInv
<1> QED
  BY GroundsKeptFor

\* A resolve that lifts had counted every open report that is not behind it, and few.
LEMMA LiftedAreFew ==
    ASSUME TypeOK, CountInv, NEW q \in Resolving, Lift(q), ~ShouldBan(q)
    PROVE  Cardinality(Unresolved(Subject(q)) \ behind[q]) < MaxReports
<1>1. counted[q] \in SUBSET ReportId
  BY DEF TypeOK, Request
<1>2. Cardinality(counted[q]) < MaxReports
  BY <1>1, CardinalityOfReports, LimitAssumption DEF ShouldBan
<1>3. Unresolved(Subject(q)) \ behind[q] \subseteq counted[q]
  BY DEF Lift, Goto, CountInv, CountHeld
<1>4. QED
  BY <1>1, <1>2, <1>3, FewerInSubset

\* Every operation leaves each unrestricted user with grounds for being so.
LEMMA GroundsStep == TypeOK /\ StepInv /\ CountInv /\ GroundsInv /\ [Next]_vars => GroundsInv'
<1> SUFFICES ASSUME TypeOK, StepInv, CountInv, GroundsInv, [Next]_vars PROVE GroundsInv'
  OBVIOUS
<1>1. ASSUME NEW q \in Reporting, NEW j \in Asked, FindReporter(q, j) PROVE GroundsInv'
  <2>1. \A u \in User : Heeded(u)' \subseteq Heeded(u)
    BY <1>1, IdAssumption DEF FindReporter, Goto, TypeOK, StepInv, Request, ReportId,
       Heeded, Counted, Unresolved, Against, Open, Stored, handlerVars, userVars, Edit
  <2>2. \A x \in Reporting, u \in User :
           /\ PendingRestriction(x, u) => PendingRestriction(x, u)'
           /\ FailedOn(x, u) => FailedOn(x, u)'
    BY <1>1, IdAssumption DEF FindReporter, Goto, TypeOK, Request, PendingRestriction,
       FailedOn, handlerVars
  <2>3. \A u \in User : restricted[u] => restricted'[u]
    BY <1>1 DEF FindReporter, userVars
  <2>4. QED
    BY <2>1, <2>2, <2>3, GroundsKept
<1>2. ASSUME NEW q \in Reporting, FindSecret(q) PROVE GroundsInv'
  <2>1. \A u \in User : Heeded(u)' \subseteq Heeded(u)
    BY <1>2, IdAssumption DEF FindSecret, Goto, TypeOK, StepInv, Request, ReportId,
       Heeded, Counted, Unresolved, Against, Open, Stored, handlerVars, userVars, Edit
  <2>2. \A x \in Reporting, u \in User :
           /\ PendingRestriction(x, u) => PendingRestriction(x, u)'
           /\ FailedOn(x, u) => FailedOn(x, u)'
    BY <1>2, IdAssumption DEF FindSecret, Goto, TypeOK, Request, PendingRestriction,
       FailedOn, handlerVars
  <2>3. \A u \in User : restricted[u] => restricted'[u]
    BY <1>2 DEF FindSecret, userVars
  <2>4. QED
    BY <2>1, <2>2, <2>3, GroundsKept
<1>3. ASSUME NEW q \in Reporting, FindOwner(q) PROVE GroundsInv'
  <2>1. \A u \in User : Heeded(u)' \subseteq Heeded(u)
    BY <1>3, IdAssumption DEF FindOwner, Goto, TypeOK, StepInv, Request, ReportId,
       Heeded, Counted, Unresolved, Against, Open, Stored, handlerVars, userVars, Edit
  <2>2. \A x \in Reporting, u \in User :
           /\ PendingRestriction(x, u) => PendingRestriction(x, u)'
           /\ FailedOn(x, u) => FailedOn(x, u)'
    BY <1>3, IdAssumption DEF FindOwner, Goto, TypeOK, Request, PendingRestriction,
       FailedOn, handlerVars
  <2>3. \A u \in User : restricted[u] => restricted'[u]
    BY <1>3 DEF FindOwner, userVars
  <2>4. QED
    BY <2>1, <2>2, <2>3, GroundsKept
<1>4. ASSUME NEW q \in Reporting, CheckDuplicate(q) PROVE GroundsInv'
  <2>1. \A u \in User : Heeded(u)' \subseteq Heeded(u)
    BY <1>4, IdAssumption DEF CheckDuplicate, Goto, TypeOK, StepInv, Request, ReportId,
       Heeded, Counted, Unresolved, Against, Open, Stored, handlerVars, userVars, Edit
  <2>2. \A x \in Reporting, u \in User :
           /\ PendingRestriction(x, u) => PendingRestriction(x, u)'
           /\ FailedOn(x, u) => FailedOn(x, u)'
    BY <1>4, IdAssumption DEF CheckDuplicate, Goto, TypeOK, Request, PendingRestriction,
       FailedOn, handlerVars
  <2>3. \A u \in User : restricted[u] => restricted'[u]
    BY <1>4 DEF CheckDuplicate, userVars
  <2>4. QED
    BY <2>1, <2>2, <2>3, GroundsKept
<1>5. ASSUME NEW q \in Reporting, SaveReport(q) PROVE GroundsInv'
  <2>1. \A r \in ReportId : r # q => reports'[r] = reports[r]
    BY <1>5, SaveReportAdds
  <2>2. q \notin Counted'
    BY <1>5, IdAssumption DEF SaveReport, Goto, Counted, TypeOK, Request
  <2>3. \A u \in User : Heeded(u)' \subseteq Heeded(u)
    BY <1>5, <2>1, <2>2 DEF SaveReport, Goto, TypeOK, Request, ReportId, Heeded, Counted,
       Unresolved, Against, Open, Stored
  <2>4. \A x \in Reporting, u \in User :
           /\ PendingRestriction(x, u) => PendingRestriction(x, u)'
           /\ FailedOn(x, u) => FailedOn(x, u)'
    BY <1>5, <2>1 DEF SaveReport, Goto, TypeOK, Request, ReportId, PendingRestriction,
       FailedOn
  <2>5. \A u \in User : restricted[u] => restricted'[u]
    BY <1>5 DEF SaveReport, userVars
  <2>6. QED
    BY <2>3, <2>4, <2>5, GroundsKept
<1>6. ASSUME NEW q \in Reporting, CountForReport(q) PROVE GroundsInv'
  <2> SUFFICES ASSUME NEW u \in User
               PROVE  \/ restricted'[u]
                      \/ (Cardinality(Heeded(u)) < MaxReports)'
                      \/ \E x \in Reporting : PendingRestriction(x, u)' \/ FailedOn(x, u)'
    BY DEF GroundsInv
  <2>1. CASE u = job[q].about /\ Cardinality(Unresolved(u)) < MaxReports
    <3>1. Heeded(u)' \subseteq Unresolved(u) /\ Unresolved(u) \subseteq ReportId
      BY <1>6 DEF CountForReport, Heeded, Counted, Unresolved, Against, Open, Stored
    <3>2. QED
      BY <2>1, <3>1, FewerInSubset
  <2>2. CASE u = job[q].about /\ ~(Cardinality(Unresolved(u)) < MaxReports)
    <3>1. counted'[q] = Unresolved(u) /\ Unresolved(u) \in SUBSET ReportId
      BY <1>6, <2>2 DEF CountForReport, TypeOK, Request, Unresolved, Against, Open, Stored
    <3>2. Cardinality(counted'[q]) >= MaxReports
      BY <2>2, <3>1, CardinalityOfReports, LimitAssumption
    <3>3. pc'[q] = "write" /\ job'[q].about = u
      BY <1>6, <2>2 DEF CountForReport, Goto, TypeOK, Request
    <3>4. PendingRestriction(q, u)'
      BY <3>2, <3>3 DEF PendingRestriction
    <3>5. QED
      BY <3>4
  <2>3. CASE u # job[q].about
    <3>1. q \notin Unresolved(u)
      BY <1>6, <2>3 DEF CountForReport, Goto, StepInv, Unresolved, Against
    <3>2. Heeded(u)' \subseteq Heeded(u)
      BY <1>6, <3>1, IdAssumption DEF CountForReport, Goto, TypeOK, Request, ReportId,
         Heeded, Counted, Unresolved, Against, Open, Stored
    <3>3. \A x \in Reporting :
             /\ PendingRestriction(x, u) => PendingRestriction(x, u)'
             /\ FailedOn(x, u) => FailedOn(x, u)'
      BY <1>6 DEF CountForReport, Goto, TypeOK, Request, PendingRestriction, FailedOn
    <3>4. restricted' = restricted
      BY <1>6 DEF CountForReport, userVars
    <3>5. QED
      BY <3>2, <3>3, <3>4, GroundsKeptFor
  <2>4. QED
    BY <2>1, <2>2, <2>3
<1>7. ASSUME NEW q \in Request, WriteCount(q) PROVE GroundsInv'
  <2>1. \A u \in User : Heeded(u)' \subseteq Heeded(u)
    BY <1>7, IdAssumption DEF WriteCount, Goto, TypeOK, StepInv, Request, ReportId,
       Heeded, Counted, Unresolved, Against, Open, Stored, handlerVars, userVars, Edit
  <2>2. \A x \in Reporting, u \in User :
           /\ PendingRestriction(x, u) => PendingRestriction(x, u)'
           /\ FailedOn(x, u) => FailedOn(x, u)'
    BY <1>7, IdAssumption DEF WriteCount, Goto, TypeOK, Request, PendingRestriction,
       FailedOn, handlerVars
  <2>3. \A u \in User : restricted[u] => restricted'[u]
    BY <1>7 DEF WriteCount, userVars
  <2>4. QED
    BY <2>1, <2>2, <2>3, GroundsKept
<1>8. ASSUME NEW q \in Request, CheckPercentage(q) PROVE GroundsInv'
  <2>1. \A u \in User : Heeded(u)' \subseteq Heeded(u)
    BY <1>8, IdAssumption DEF CheckPercentage, Goto, TypeOK, StepInv, Request, ReportId,
       Heeded, Counted, Unresolved, Against, Open, Stored, handlerVars, userVars, Edit
  <2>2. \A x \in Reporting, u \in User :
           /\ PendingRestriction(x, u) => PendingRestriction(x, u)'
           /\ FailedOn(x, u) => FailedOn(x, u)'
    BY <1>8, IdAssumption DEF CheckPercentage, Goto, TypeOK, Request, PendingRestriction,
       FailedOn, handlerVars
  <2>3. \A u \in User : restricted[u] => restricted'[u]
    BY <1>8 DEF CheckPercentage, userVars
  <2>4. QED
    BY <2>1, <2>2, <2>3, GroundsKept
<1>9. ASSUME NEW q \in Reporting, Impose(q) PROVE GroundsInv'
  <2>1. \A u \in User : Heeded(u)' \subseteq Heeded(u)
    BY <1>9, IdAssumption DEF Impose, Goto, TypeOK, Request, ReportId, Heeded, Counted,
       Unresolved, Against, Open, Stored
  <2>2. \A u \in User : PendingRestriction(q, u) => restricted'[u]
    BY <1>9 DEF Impose, TypeOK, PendingRestriction, ShouldBan
  <2>3. \A x \in Reporting, u \in User :
           /\ x # q /\ PendingRestriction(x, u) => PendingRestriction(x, u)'
           /\ FailedOn(x, u) => FailedOn(x, u)'
    BY <1>9 DEF Impose, Goto, TypeOK, Request, PendingRestriction, FailedOn
  <2>4. \A u \in User : restricted[u] => restricted'[u]
    BY <1>9 DEF Impose, TypeOK
  <2>5. QED
    BY <2>1, <2>2, <2>3, <2>4, GroundsKept
<1>10. ASSUME NEW q \in Reporting, Notify(q) PROVE GroundsInv'
  <2>1. \A u \in User : Heeded(u)' \subseteq Heeded(u)
    BY <1>10, IdAssumption DEF Notify, Goto, TypeOK, StepInv, Request, ReportId,
       Heeded, Counted, Unresolved, Against, Open, Stored, handlerVars, userVars, Edit
  <2>2. \A x \in Reporting, u \in User :
           /\ PendingRestriction(x, u) => PendingRestriction(x, u)'
           /\ FailedOn(x, u) => FailedOn(x, u)'
    BY <1>10, IdAssumption DEF Notify, Goto, TypeOK, Request, PendingRestriction, FailedOn,
       handlerVars
  <2>3. \A u \in User : restricted[u] => restricted'[u]
    BY <1>10 DEF Notify, userVars
  <2>4. QED
    BY <2>1, <2>2, <2>3, GroundsKept
<1>11. ASSUME NEW q \in Resolving, NEW r \in ReportId, FindReport(q, r) PROVE GroundsInv'
  <2>1. \A u \in User : Heeded(u)' \subseteq Heeded(u)
    BY <1>11, IdAssumption DEF FindReport, Goto, TypeOK, StepInv, Request, ReportId,
       Heeded, Counted, Unresolved, Against, Open, Stored, handlerVars, userVars, Edit
  <2>2. \A x \in Reporting, u \in User :
           /\ PendingRestriction(x, u) => PendingRestriction(x, u)'
           /\ FailedOn(x, u) => FailedOn(x, u)'
    BY <1>11, IdAssumption DEF FindReport, Goto, TypeOK, Request, PendingRestriction,
       FailedOn, handlerVars
  <2>3. \A u \in User : restricted[u] => restricted'[u]
    BY <1>11 DEF FindReport, userVars
  <2>4. QED
    BY <2>1, <2>2, <2>3, GroundsKept
<1>12. ASSUME NEW q \in Resolving, MarkResolved(q) PROVE GroundsInv'
  <2>1. \A r \in ReportId :
          /\ reports'[r] = NoReport <=> reports[r] = NoReport
          /\ reports[r] # NoReport =>
                /\ reports'[r].reported = reports[r].reported
                /\ reports'[r].byId = reports[r].byId
                /\ reports[r].resolved => reports'[r].resolved
    BY <1>12, MarkResolvedKeeps
  <2>2. Counted' = Counted
    BY <1>12, IdAssumption DEF MarkResolved, Goto, Counted, TypeOK, Request, ReportId
  <2>3. \A u \in User : Heeded(u)' \subseteq Heeded(u)
    BY <1>12, <2>1, <2>2 DEF MarkResolved, Heeded, Unresolved, Against, Open, Stored
  <2>4. \A x \in Reporting, u \in User :
           /\ PendingRestriction(x, u) => PendingRestriction(x, u)'
           /\ FailedOn(x, u) => FailedOn(x, u)'
    BY <1>12, <2>1, IdAssumption
    DEF MarkResolved, Goto, TypeOK, Request, ReportId, PendingRestriction, FailedOn
  <2>5. \A u \in User : restricted[u] => restricted'[u]
    BY <1>12 DEF MarkResolved, userVars
  <2>6. QED
    BY <2>3, <2>4, <2>5, GroundsKept
<1>13. ASSUME NEW q \in Resolving, CountForResolve(q) PROVE GroundsInv'
  <2>1. \A u \in User : Heeded(u)' \subseteq Heeded(u)
    BY <1>13, IdAssumption DEF CountForResolve, Goto, TypeOK, StepInv, Request, ReportId,
       Heeded, Counted, Unresolved, Against, Open, Stored, handlerVars, userVars, Edit
  <2>2. \A x \in Reporting, u \in User :
           /\ PendingRestriction(x, u) => PendingRestriction(x, u)'
           /\ FailedOn(x, u) => FailedOn(x, u)'
    BY <1>13, IdAssumption DEF CountForResolve, Goto, TypeOK, Request, PendingRestriction,
       FailedOn, handlerVars
  <2>3. \A u \in User : restricted[u] => restricted'[u]
    BY <1>13 DEF CountForResolve, userVars
  <2>4. QED
    BY <2>1, <2>2, <2>3, GroundsKept
<1>14. ASSUME NEW q \in Resolving, Lift(q) PROVE GroundsInv'
  <2> SUFFICES ASSUME NEW u \in User
               PROVE  \/ restricted'[u]
                      \/ (Cardinality(Heeded(u)) < MaxReports)'
                      \/ \E x \in Reporting : PendingRestriction(x, u)' \/ FailedOn(x, u)'
    BY DEF GroundsInv
  <2>1. CASE u = Subject(q) /\ ~ShouldBan(q)
    <3>1. Heeded(u)' \subseteq Unresolved(u) \ behind[q]
      BY <1>14, <2>1 DEF Lift, Heeded, Unresolved, Against, Open, Stored
    <3>2. Unresolved(u) \ behind[q] \subseteq ReportId
      BY DEF Unresolved, Against, Open, Stored
    <3>3. Cardinality(Unresolved(u) \ behind[q]) < MaxReports
      BY <1>14, <2>1, LiftedAreFew
    <3>4. Cardinality(Heeded(u)') < MaxReports
      BY <3>1, <3>2, <3>3, FewerInSubset
    <3>5. QED
      BY <3>4
  <2>2. CASE ~(u = Subject(q) /\ ~ShouldBan(q))
    <3>1. Heeded(u)' \subseteq Heeded(u)
      BY <1>14, IdAssumption DEF Lift, Goto, TypeOK, Request, ReportId, Heeded, Counted,
         Unresolved, Against, Open, Stored
    <3>2. \A x \in Reporting :
             /\ PendingRestriction(x, u) => PendingRestriction(x, u)'
             /\ FailedOn(x, u) => FailedOn(x, u)'
      BY <1>14, IdAssumption DEF Lift, Goto, TypeOK, Request, PendingRestriction, FailedOn
    <3>3. restricted[u] => restricted'[u]
      BY <1>14, <2>2 DEF Lift, TypeOK
    <3>4. QED
      BY <3>1, <3>2, <3>3, GroundsKeptFor
  <2>3. QED
    BY <2>1, <2>2
<1>15. ASSUME NEW q \in Request, Fail(q) PROVE GroundsInv'
  <2>1. \A u \in User : Heeded(u)' \subseteq Heeded(u)
    BY <1>15 DEF Fail, TypeOK, Request, ReportId, Heeded, Counted, Unresolved, Against, Open, Stored
  <2>2. \A u \in User :
           q \in Reporting /\ PendingRestriction(q, u) => FailedOn(q, u)'
    BY <1>15 DEF Fail, TypeOK, StepInv, Request, PendingRestriction, FailedOn
  <2>3. \A x \in Reporting, u \in User :
           /\ x # q /\ PendingRestriction(x, u) => PendingRestriction(x, u)'
           /\ FailedOn(x, u) => FailedOn(x, u)'
    BY <1>15 DEF Fail, Running, TypeOK, Request, PendingRestriction, FailedOn
  <2>4. \A u \in User : restricted[u] => restricted'[u]
    BY <1>15 DEF Fail, userVars
  <2>5. QED
    BY <2>1, <2>2, <2>3, <2>4, GroundsKept
<1>16. ASSUME NEW s \in Secret, EditSharing(s) PROVE GroundsInv'
  <2>1. \A u \in User : Heeded(u)' \subseteq Heeded(u)
    BY <1>16, IdAssumption DEF EditSharing, Goto, TypeOK, StepInv, Request, ReportId,
       Heeded, Counted, Unresolved, Against, Open, Stored, handlerVars, userVars, Edit
  <2>2. \A x \in Reporting, u \in User :
           /\ PendingRestriction(x, u) => PendingRestriction(x, u)'
           /\ FailedOn(x, u) => FailedOn(x, u)'
    BY <1>16, IdAssumption DEF EditSharing, Goto, TypeOK, Request, PendingRestriction,
       FailedOn, handlerVars
  <2>3. \A u \in User : restricted[u] => restricted'[u]
    BY <1>16 DEF EditSharing, userVars
  <2>4. QED
    BY <2>1, <2>2, <2>3, GroundsKept
<1>17. ASSUME NEW s \in Secret, DeleteSecret(s) PROVE GroundsInv'
  <2>1. \A u \in User : Heeded(u)' \subseteq Heeded(u)
    BY <1>17, IdAssumption DEF DeleteSecret, Goto, TypeOK, StepInv, Request, ReportId,
       Heeded, Counted, Unresolved, Against, Open, Stored, handlerVars, userVars, Edit
  <2>2. \A x \in Reporting, u \in User :
           /\ PendingRestriction(x, u) => PendingRestriction(x, u)'
           /\ FailedOn(x, u) => FailedOn(x, u)'
    BY <1>17, IdAssumption DEF DeleteSecret, Goto, TypeOK, Request, PendingRestriction,
       FailedOn, handlerVars
  <2>3. \A u \in User : restricted[u] => restricted'[u]
    BY <1>17 DEF DeleteSecret, userVars
  <2>4. QED
    BY <2>1, <2>2, <2>3, GroundsKept
<1>18. ASSUME NEW v \in User, DeactivateUser(v) PROVE GroundsInv'
  <2>1. \A u \in User : Heeded(u)' \subseteq Heeded(u)
    BY <1>18, IdAssumption DEF DeactivateUser, Goto, TypeOK, StepInv, Request, ReportId,
       Heeded, Counted, Unresolved, Against, Open, Stored, handlerVars, userVars, Edit
  <2>2. \A x \in Reporting, u \in User :
           /\ PendingRestriction(x, u) => PendingRestriction(x, u)'
           /\ FailedOn(x, u) => FailedOn(x, u)'
    BY <1>18, IdAssumption DEF DeactivateUser, Goto, TypeOK, Request, PendingRestriction,
       FailedOn, handlerVars
  <2>3. \A u \in User : restricted[u] => restricted'[u]
    BY <1>18 DEF DeactivateUser, userVars
  <2>4. QED
    BY <2>1, <2>2, <2>3, GroundsKept
<1>19. CASE UNCHANGED vars
  <2>1. \A u \in User : Heeded(u)' = Heeded(u)
    BY <1>19 DEF vars, handlerVars, Heeded, Counted, Unresolved, Against, Open, Stored
  <2>2. \A x \in Reporting, u \in User :
           /\ PendingRestriction(x, u) => PendingRestriction(x, u)'
           /\ FailedOn(x, u) => FailedOn(x, u)'
    BY <1>19 DEF vars, handlerVars, PendingRestriction, FailedOn
  <2>3. \A u \in User : restricted[u] => restricted'[u]
    BY <1>19 DEF vars, userVars
  <2>4. QED
    BY <2>1, <2>2, <2>3, GroundsKept
<1>20. QED
  BY <1>1, <1>2, <1>3, <1>4, <1>5, <1>6, <1>7, <1>8, <1>9, <1>10, <1>11, <1>12, <1>13,
     <1>14, <1>15, <1>16, <1>17, <1>18, <1>19 DEF Next, Idle, ReportStep, ResolveStep, Request

------------------------------------------------------------------------------
LEMMA InitIInv == Init => IInv
<1> SUFFICES ASSUME Init PROVE IInv
  OBVIOUS
<1>1. \A u \in User :
        Unresolved(u) = {r \in Archived : Archive[r].reported = u /\ Archive[r].byId
                                          /\ ~Archive[r].resolved}
  BY DataAssumption, IdAssumption DEF Init, Unresolved, Against, Open, Stored, ReportId
<1>2. \A u \in User : Unresolved(u) \in SUBSET ReportId
  BY DEF Unresolved, Against, Open, Stored
<1>3. \A u \in User : Cardinality(Unresolved(u)) \in Nat
  BY <1>2, CardinalityOfReports
<1>4. TypeOK
  BY <1>3, DataAssumption, LimitAssumption
  DEF Init, TypeOK, ReportSteps, ResolveSteps, ReportId
<1>5. StepInv
  BY IdAssumption DEF Init, StepInv, Request, ReportSteps, ResolveSteps, ReportId
<1>6. ASSUME NEW u \in User PROVE Cardinality(Heeded(u)) < MaxReports
  <2>1. Cardinality(Unresolved(u)) < MaxReports
    BY <1>1, ArchiveAssumption
  <2>2. QED
    BY <1>2, <2>1, FewerInSubset DEF Heeded
<1>7. QED
  BY <1>4, <1>5, <1>6 DEF Init, IInv, GroundsInv, CountInv, CountHeld, Request

\* The inductive invariant holds in every reachable state.
THEOREM ReportsInvariant == Spec => []IInv
<1>1. IInv /\ [Next]_vars => IInv'
  BY TypeStep, StepInvStep, CountStep, GroundsStep DEF IInv
<1>2. QED
  BY InitIInv, <1>1, PTL DEF Spec

\* Every reachable state is well typed, for any number of users, secrets and requests.
THEOREM TypeCorrect == Spec => []TypeOK
<1>1. IInv => TypeOK
  BY DEF IInv
<1>2. QED
  BY <1>1, ReportsInvariant, PTL

\* A user with MaxReports open reports is restricted once their handlers have decided,
\* unless one of them failed or a resolve lifted the restriction from an older count.
THEOREM EnoughReportsRestrictHolds == Spec => []EnoughReportsRestrict
<1>1. IInv => EnoughReportsRestrict
  <2> SUFFICES ASSUME IInv, NEW u \in User, Undisturbed(u), Decided(u),
                      Cardinality(Unresolved(u)) >= MaxReports
               PROVE  restricted[u]
    BY DEF EnoughReportsRestrict
  <2>1. Heeded(u) = Unresolved(u)
    BY DEF Heeded, Counted, Decided, Undisturbed, Unresolved, Against, Open, Stored, ReportId
  <2>2. ~(Cardinality(Heeded(u)) < MaxReports)
    <3>1. Unresolved(u) \in SUBSET ReportId
      BY DEF Unresolved, Against, Open, Stored
    <3>2. Cardinality(Unresolved(u)) \in Nat
      BY <3>1, CardinalityOfReports
    <3>3. QED
      BY <2>1, <3>2, LimitAssumption
  <2>3. ASSUME NEW q \in Reporting PROVE ~PendingRestriction(q, u) /\ ~FailedOn(q, u)
    BY DEF IInv, StepInv, PendingRestriction, FailedOn, Decided
  <2>4. QED
    BY <2>2, <2>3 DEF IInv, GroundsInv
<1>2. QED
  BY <1>1, ReportsInvariant, PTL

\* A restriction is lifted only by a resolve of a report against its user, and only when the
\* reports open against him that were not saved after its count are fewer than MaxReports.
THEOREM LiftIsJustifiedHolds == Spec => LiftIsJustified
<1>1. IInv /\ [Next]_vars =>
        [\A u \in User : restricted[u] /\ ~restricted'[u]
            => \E q \in Resolving :
                  /\ pc[q] # pc'[q]
                  /\ Subject(q) = u
                  /\ Cardinality(Unresolved(u) \ behind[q]) < MaxReports]_vars
  <2> SUFFICES ASSUME IInv, Next, NEW u \in User, restricted[u], ~restricted'[u]
               PROVE  \E q \in Resolving :
                         /\ pc[q] # pc'[q]
                         /\ Subject(q) = u
                         /\ Cardinality(Unresolved(u) \ behind[q]) < MaxReports
    OBVIOUS
  <2>1. TypeOK /\ CountInv
    BY DEF IInv
  <2>2. PICK q \in Resolving : Lift(q)
    BY <2>1 DEF Next, Idle, ReportStep, ResolveStep, TypeOK, vars, userVars, FindReporter,
       FindSecret, FindOwner, CheckDuplicate, SaveReport, CountForReport, WriteCount,
       CheckPercentage, Impose, Notify, FindReport, MarkResolved, CountForResolve,
       Fail, EditSharing, DeleteSecret, DeactivateUser
  <2>3. u = Subject(q) /\ ~ShouldBan(q)
    BY <2>1, <2>2 DEF Lift, TypeOK
  <2>4. pc[q] # pc'[q]
    BY <2>1, <2>2 DEF Lift, Goto, TypeOK, Request
  <2>5. Cardinality(Unresolved(u) \ behind[q]) < MaxReports
    BY <2>1, <2>2, <2>3, LiftedAreFew
  <2>6. QED
    BY <2>3, <2>4, <2>5
<1>2. QED
  BY <1>1, ReportsInvariant, PTL DEF Spec, LiftIsJustified

==============================================================================
