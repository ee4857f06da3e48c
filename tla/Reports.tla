------------------------------- MODULE Reports -------------------------------
(***************************************************************************)
(* Moderation: POST /reports and PATCH /reports/admin/resolve/:id.         *)
(*                                                                         *)
(* The server keeps no lock and opens no transaction: a handler is a       *)
(* sequence of single-document MongoDB operations, and another handler     *)
(* (of this process or of another instance) may run at every await.  Each  *)
(* action below is one such operation with the code that follows it up to  *)
(* the next await.  What a handler has read lives in job, target, shared,  *)
(* counted and percentage until it is used.                                *)
(***************************************************************************)
EXTENDS Naturals, FiniteSets

CONSTANTS
    User,        \* accounts
    Nameless,    \* accounts without a username (created by a wallet login)
    Secret,
    Owner,       \* the account each secret belongs to
    Reporting,   \* POST /reports requests; a request's id names the report it saves
    Asked,       \* the reports clients ask for
    Resolving,   \* PATCH /reports/admin/resolve/:id requests
    Archive,     \* the reports stored before the first request, by id
    MaxReports,  \* MAX_REPORTS_BEFORE_BAN
    PctNum,      \* MAX_PERCENTAGE_OF_REPORTS_REQUIRED_FOR_BAN is PctNum / PctDen
    PctDen,
    MaxFailures, \* bound: handlers that may fail half way
    MaxEdits,    \* bound: changes made by the rest of the system
    NoJob,
    NoReport

VARIABLES
    active,      \* users.isActive
    restricted,  \* users.sharingRestricted
    reportCount, \* users.reportCount
    live,        \* the secret exists and passwords.isActive
    sharedWith,  \* passwords.sharedWith, as the accounts it names
    reports,     \* the reports collection
    pc,          \* where each request is
    job,         \* what a reporting request asks for
    target,      \* the report a resolving request is about
    shared,      \* the secret, as read by a reporting request, was shared with its sender
    counted,     \* the reports a request's countDocuments matched
    percentage,  \* what checkPercentageBanCondition answered to a request
    behind,      \* history: the reports saved since a resolving request counted
    overlooked,  \* history: those behind a count that lifted their user's restriction
    edits        \* history: changes made by the rest of the system

handlerVars == <<pc, job, target, shared, counted, percentage>>
userVars    == <<active, restricted, reportCount>>
secretVars  == <<live, sharedWith>>
vars        == <<userVars, secretVars, reports, handlerVars, behind, overlooked, edits>>

Archived == DOMAIN Archive
ReportId == Archived \cup Reporting
Request  == Reporting \cup Resolving

\* A report is legacy when it carries reportedTelegramId, which reportUser no longer writes.
\* Some legacy reports name their users by that alone, and not byId.
Report == [reporter : User, reported : User, secret : Secret,
           legacy : BOOLEAN, byId : BOOLEAN, resolved : BOOLEAN]
Job    == [by : User, about : User, secret : Secret]

ASSUME DataAssumption ==
    /\ Nameless \subseteq User
    /\ Owner \in [Secret -> User]
    /\ Archive \in [Archived -> Report]
    /\ Asked \subseteq Job
    /\ NoJob \notin Job
    /\ NoReport \notin Report
ASSUME IdAssumption ==
    /\ IsFiniteSet(Archived) /\ IsFiniteSet(Reporting)
    /\ Archived \cap Reporting = {}
    /\ Reporting \cap Resolving = {}
ASSUME LimitAssumption ==
    /\ MaxReports \in Nat \ {0}
    /\ PctDen \in Nat \ {0}
    /\ PctNum \in 0..PctDen
    /\ MaxFailures \in Nat
    /\ MaxEdits \in Nat
\* The history starts when nobody has collected MaxReports open reports.
ASSUME ArchiveAssumption ==
    \A u \in User :
        Cardinality({r \in Archived : Archive[r].reported = u /\ Archive[r].byId
                                      /\ ~Archive[r].resolved}) < MaxReports

ReportSteps  == {"idle", "secret", "owner", "duplicate", "save", "count", "write",
                 "percentage", "decide", "notify", "done", "rejected", "failed"}
ResolveSteps == {"idle", "mark", "count", "write", "percentage", "decide",
                 "done", "rejected", "failed"}
Running      == {"secret", "owner", "duplicate", "save", "mark", "count", "write",
                 "percentage", "decide"}

\* The steps of a request that still holds the count it took.
CountHeld    == {"write", "percentage", "decide"}

TypeOK ==
    /\ active \in [User -> BOOLEAN]
    /\ restricted \in [User -> BOOLEAN]
    /\ reportCount \in [User -> Nat]
    /\ live \in [Secret -> BOOLEAN]
    /\ sharedWith \in [Secret -> SUBSET User]
    /\ reports \in [ReportId -> Report \cup {NoReport}]
    /\ pc \in [Request -> ReportSteps \cup ResolveSteps]
    /\ job \in [Reporting -> Job \cup {NoJob}]
    /\ target \in [Resolving -> ReportId \cup {NoReport}]
    /\ shared \in [Reporting -> BOOLEAN]
    /\ counted \in [Request -> SUBSET ReportId]
    /\ percentage \in [Request -> BOOLEAN]
    /\ behind \in [Resolving -> SUBSET ReportId]
    /\ overlooked \subseteq ReportId
    /\ edits \in 0..MaxEdits

------------------------------------------------------------------------------
Stored        == {r \in ReportId : reports[r] # NoReport}
Open          == {r \in Stored : ~reports[r].resolved}
Against(u)    == {r \in Stored : reports[r].reported = u /\ reports[r].byId}
Unresolved(u) == Against(u) \cap Open

\* The user a request's counts and writes are about.
Subject(q) == IF q \in Reporting THEN job[q].about ELSE reports[target[q]].reported

\* resolveReport's filter matches on reportedTelegramId as well.  A report saved by
\* reportUser has no such field; the filter value is then undefined, which the driver
\* sends as null, and null matches every report that lacks the field.
SameLegacyField(r, t) ==
    /\ reports[r].legacy = reports[t].legacy
    /\ reports[t].legacy => reports[r].reported = reports[t].reported

\* Variant: only the legacy field is matched.
CountedByLegacyField(t) == {r \in Open : SameLegacyField(r, t)}

CountedByResolve(t) ==
    {r \in Open : SameLegacyField(r, t)} \cup Unresolved(reports[t].reported)

\* The usernames on the user's live secrets; an entry without a username is not counted.
UsersWhoCanReport(u) ==
    UNION {sharedWith[s] : s \in {x \in Secret : Owner[x] = u /\ live[x]}} \ Nameless

OverPercentage(u, n) ==
    LET total == Cardinality(UsersWhoCanReport(u))
    IN  active[u] /\ total # 0 /\ n * PctDen >= PctNum * total

ShouldBan(q) == Cardinality(counted[q]) >= MaxReports \/ percentage[q]

Goto(q, from, to) == pc[q] = from /\ pc' = [pc EXCEPT ![q] = to]

Init ==
    /\ active = [u \in User |-> TRUE]
    /\ restricted = [u \in User |-> FALSE]
    /\ live = [s \in Secret |-> TRUE]
    /\ sharedWith = [s \in Secret |-> User \ {Owner[s]}]
    /\ reports = [r \in ReportId |-> IF r \in Archived THEN Archive[r] ELSE NoReport]
    /\ reportCount = [u \in User |-> Cardinality(Unresolved(u))]
    /\ pc = [q \in Request |-> "idle"]
    /\ job = [q \in Reporting |-> NoJob]
    /\ target = [q \in Resolving |-> NoReport]
    /\ shared = [q \in Reporting |-> FALSE]
    /\ counted = [q \in Request |-> {}]
    /\ percentage = [q \in Request |-> FALSE]
    /\ behind = [q \in Resolving |-> {}]
    /\ overlooked = {}
    /\ edits = 0

------------------------------------------------------------------------------
\* reportUser, one action per await.

FindReporter(q, j) ==
    /\ Goto(q, "idle", IF active[j.by] THEN "secret" ELSE "rejected")
    /\ job' = [job EXCEPT ![q] = j]
    /\ UNCHANGED <<userVars, secretVars, reports, target, shared, counted, percentage,
                   behind, overlooked, edits>>

FindSecret(q) ==
    LET s == job[q].secret
    IN  /\ Goto(q, "secret", IF live[s] THEN "owner" ELSE "rejected")
        /\ shared' = [shared EXCEPT ![q] = live[s] /\ job[q].by \in sharedWith[s]]
        /\ UNCHANGED <<userVars, secretVars, reports, job, target, counted, percentage,
                       behind, overlooked, edits>>

\* The reads of the owner and of the reported user look at the same document when the
\* request is accepted.  The scan of sharedWith throws at the first entry without a
\* username, so a named recipient may be rejected when a nameless one stands before it.
FindOwner(q) ==
    LET j == job[q]
    IN  /\ pc[q] = "owner"
        /\ \E thrown \in BOOLEAN :
              /\ thrown => sharedWith[j.secret] \cap Nameless # {}
              /\ Goto(q, "owner",
                      IF /\ active[Owner[j.secret]]
                         /\ j.about = Owner[j.secret]
                         /\ j.by # j.about
                         /\ shared[q] /\ j.by \notin Nameless /\ ~thrown
                      THEN "duplicate" ELSE "rejected")
        /\ UNCHANGED <<userVars, secretVars, reports, job, target, shared, counted,
                       percentage, behind, overlooked, edits>>

HasOpenReport(by, s) ==
    \E r \in Open : reports[r].byId /\ reports[r].reporter = by /\ reports[r].secret = s

\* A request of type Other without a reason is rejected here too.
CheckDuplicate(q) ==
    /\ \E reasonGiven \in BOOLEAN :
          Goto(q, "duplicate",
               IF reasonGiven /\ ~HasOpenReport(job[q].by, job[q].secret)
               THEN "save" ELSE "rejected")
    /\ UNCHANGED <<userVars, secretVars, reports, job, target, shared, counted,
                   percentage, behind, overlooked, edits>>

SaveReport(q) ==
    /\ Goto(q, "save", "count")
    /\ reports' = [reports EXCEPT ![q] =
                     [reporter |-> job[q].by, reported |-> job[q].about,
                      secret |-> job[q].secret, legacy |-> FALSE, byId |-> TRUE,
                      resolved |-> FALSE]]
    /\ behind' = [x \in Resolving |->
                    IF pc[x] \in CountHeld THEN behind[x] \cup {q} ELSE behind[x]]
    /\ UNCHANGED <<userVars, secretVars, job, target, shared, counted, percentage,
                   overlooked, edits>>

\* Variant: the report is counted as it stood before it was saved.
CountForReportTooEarly(q) ==
    /\ Goto(q, "count", "write")
    /\ counted' = [counted EXCEPT ![q] = Unresolved(job[q].about) \ {q}]
    /\ UNCHANGED <<userVars, secretVars, reports, job, target, shared, percentage,
                   behind, overlooked, edits>>

CountForReport(q) ==
    /\ Goto(q, "count", "write")
    /\ counted' = [counted EXCEPT ![q] = Unresolved(job[q].about)]
    /\ UNCHANGED <<userVars, secretVars, reports, job, target, shared, percentage,
                   behind, overlooked, edits>>

\* The second half of both handlers: write the count, ask for the percentage.
WriteCount(q) ==
    /\ Goto(q, "write", "percentage")
    /\ reportCount' = [reportCount EXCEPT ![Subject(q)] = Cardinality(counted[q])]
    /\ UNCHANGED <<active, restricted, secretVars, reports, job, target, shared, counted,
                   percentage, behind, overlooked, edits>>

\* checkPercentageBanCondition answers false when one of its reads fails.
CheckPercentage(q) ==
    /\ Goto(q, "percentage", "decide")
    /\ \E readFails \in BOOLEAN :
          percentage' = [percentage EXCEPT ![q] =
              ~readFails /\ OverPercentage(Subject(q), Cardinality(counted[q]))]
    /\ UNCHANGED <<userVars, secretVars, reports, job, target, shared, counted,
                   behind, overlooked, edits>>

\* Variant: the limit itself is still allowed.
ImposeAboveLimit(q) ==
    /\ Goto(q, "decide", "notify")
    /\ restricted' = [restricted EXCEPT ![job[q].about] =
                        @ \/ Cardinality(counted[q]) > MaxReports \/ percentage[q]]
    /\ UNCHANGED <<active, reportCount, secretVars, reports, job, target, shared, counted,
                   percentage, behind, overlooked, edits>>

Impose(q) ==
    /\ Goto(q, "decide", "notify")
    /\ restricted' = [restricted EXCEPT ![job[q].about] = @ \/ ShouldBan(q)]
    /\ UNCHANGED <<active, reportCount, secretVars, reports, job, target, shared, counted,
                   percentage, behind, overlooked, edits>>

\* The owner is told over Telegram, or a notification is logged; errors are swallowed.
Notify(q) ==
    /\ Goto(q, "notify", "done")
    /\ UNCHANGED <<userVars, secretVars, reports, job, target, shared, counted,
                   percentage, behind, overlooked, edits>>

------------------------------------------------------------------------------
\* resolveReport.

FindReport(q, r) ==
    /\ Goto(q, "idle", IF r \in Stored THEN "mark" ELSE "rejected")
    /\ target' = [target EXCEPT ![q] = r]
    /\ UNCHANGED <<userVars, secretVars, reports, job, shared, counted, percentage,
                   behind, overlooked, edits>>

\* A report without the users' ids cannot be saved any more: the schema requires them.
MarkResolved(q) ==
    /\ Goto(q, "mark", IF reports[target[q]].byId THEN "count" ELSE "rejected")
    /\ reports' = IF reports[target[q]].byId
                  THEN [reports EXCEPT ![target[q]] = [@ EXCEPT !.resolved = TRUE]]
                  ELSE reports
    /\ UNCHANGED <<userVars, secretVars, job, target, shared, counted, percentage,
                   behind, overlooked, edits>>

CountForResolve(q) ==
    /\ Goto(q, "count", "write")
    /\ counted' = [counted EXCEPT ![q] = CountedByResolve(target[q])]
    /\ UNCHANGED <<userVars, secretVars, reports, job, target, shared, percentage,
                   behind, overlooked, edits>>

Lift(q) ==
    LET u == Subject(q)
    IN  /\ Goto(q, "decide", "done")
        /\ restricted' = [restricted EXCEPT ![u] = @ /\ ShouldBan(q)]
        /\ overlooked' = IF ShouldBan(q) THEN overlooked
                         ELSE overlooked \cup (behind[q] \cap Against(u))
        /\ UNCHANGED <<active, reportCount, secretVars, reports, job, target, shared,
                       counted, percentage, behind, edits>>

------------------------------------------------------------------------------
\* A database operation throws, or the instance running the handler stops.
Fail(q) ==
    /\ pc[q] \in Running
    /\ Cardinality({x \in Request : pc[x] = "failed"}) < MaxFailures
    /\ pc' = [pc EXCEPT ![q] = "failed"]
    /\ UNCHANGED <<userVars, secretVars, reports, job, target, shared, counted,
                   percentage, behind, overlooked, edits>>

\* The rest of the system, as far as the handlers read it.
Edit == edits < MaxEdits /\ edits' = edits + 1

EditSharing(s) ==
    /\ Edit
    /\ live[s]
    /\ \E W \in SUBSET (User \ {Owner[s]}) : sharedWith' = [sharedWith EXCEPT ![s] = W]
    /\ UNCHANGED <<userVars, live, reports, handlerVars, behind, overlooked>>

DeleteSecret(s) ==
    /\ Edit
    /\ live' = [live EXCEPT ![s] = FALSE]
    /\ UNCHANGED <<userVars, sharedWith, reports, handlerVars, behind, overlooked>>

DeactivateUser(u) ==
    /\ Edit
    /\ active' = [active EXCEPT ![u] = FALSE]
    /\ UNCHANGED <<restricted, reportCount, secretVars, reports, handlerVars, behind, overlooked>>

Idle == \* every request has been answered
    /\ \A q \in Request : pc[q] \in {"done", "rejected", "failed"}
    /\ UNCHANGED vars

ReportStep(q) ==
    \/ FindSecret(q) \/ FindOwner(q) \/ CheckDuplicate(q) \/ SaveReport(q)
    \/ CountForReport(q) \/ WriteCount(q) \/ CheckPercentage(q)
    \/ Impose(q) \/ Notify(q)

ResolveStep(q) ==
    \/ MarkResolved(q) \/ CountForResolve(q)
    \/ WriteCount(q) \/ CheckPercentage(q) \/ Lift(q)

Next ==
    \/ \E q \in Reporting, j \in Asked : FindReporter(q, j)
    \/ \E q \in Resolving, r \in ReportId : FindReport(q, r)
    \/ \E q \in Reporting : ReportStep(q)
    \/ \E q \in Resolving : ResolveStep(q)
    \/ \E q \in Request : Fail(q)
    \/ \E s \in Secret : EditSharing(s) \/ DeleteSecret(s)
    \/ \E u \in User : DeactivateUser(u)
    \/ Idle

Spec == Init /\ [][Next]_vars

\* A handler that has begun runs on: the event loop resumes every settled await.
Fairness ==
    /\ \A q \in Reporting : WF_vars(ReportStep(q))
    /\ \A q \in Resolving : WF_vars(ResolveStep(q))

FairSpec == Spec /\ Fairness

------------------------------------------------------------------------------
\* Every report against u was seen through by the handler that saved it, and no
\* restriction was lifted by a resolve that had counted before one of them was saved.
Undisturbed(u) ==
    /\ \A q \in Reporting :
          (reports[q] # NoReport /\ reports[q].reported = u) => pc[q] # "failed"
    /\ Unresolved(u) \cap overlooked = {}

Decided(u) ==
    \A q \in Reporting :
        (reports[q] # NoReport /\ reports[q].reported = u) => pc[q] \in {"notify", "done"}

\* Safety: however reports and resolves interleave, a user with MaxReports open reports is
\* restricted once the handlers that saved them have decided, unless one of them failed or
\* a resolve that counted earlier lifted the restriction afterwards
\* (report.service.ts:326-350 against 654-678).
EnoughReportsRestrict ==
    \A u \in User :
        Undisturbed(u) /\ Decided(u) /\ Cardinality(Unresolved(u)) >= MaxReports
            => restricted[u]

\* Action property: a restriction is only lifted by a resolve that concerns its user, and
\* only when the reports still open against him, apart from those saved after that resolve
\* had counted, are fewer than MaxReports: whatever was resolved, edited or decided since,
\* the count it holds may be old but never too small (report.service.ts:654-678).
LiftIsJustified ==
    [][\A u \in User :
          restricted[u] /\ ~restricted'[u]
              => \E q \in Resolving :
                    /\ pc[q] # pc'[q]
                    /\ Subject(q) = u
                    /\ Cardinality(Unresolved(u) \ behind[q]) < MaxReports]_vars

\* Liveness: MaxReports open reports lead to a restriction, unless enough of them are
\* resolved first or the exceptions of EnoughReportsRestrict occur.
EventuallyRestricted ==
    \A u \in User :
        Cardinality(Unresolved(u)) >= MaxReports
            ~> (restricted[u] \/ Cardinality(Unresolved(u)) < MaxReports \/ ~Undisturbed(u))

\* "Recalculate the report count for the user using both legacy and new fields"
\* (report.service.ts:653): a resolve counts reports against its own user only.  It does
\* not; this is what reports_foreign_count shows.
ResolveCountsItsUser ==
    \A q \in Resolving : \A r \in counted[q] : reports[r].reported = Subject(q)
==============================================================================
