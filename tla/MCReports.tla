------------------------------ MODULE MCReports ------------------------------
(* Instances of Reports for TLC. *)
EXTENDS Reports, TLC

CONSTANTS own, ann, bob, wal, s1, s2, r1, r2, r3, q1, q2, old, older, past

\* own shares s1, ann shares s2.
MCOwner == s1 :> own @@ s2 :> ann
OneOwner == s1 :> own

MCNoReports == [r \in {} |-> NoReport]
\* Two reports left from the time reportedTelegramId was written, the older of which names
\* nobody by id, and one that an admin has resolved long ago and may resolve again.
MCArchive ==
    old :> [reporter |-> bob, reported |-> own, secret |-> s1, legacy |-> TRUE,
            byId |-> TRUE, resolved |-> FALSE]
    @@ older :> [reporter |-> bob, reported |-> own, secret |-> s1, legacy |-> TRUE,
                 byId |-> FALSE, resolved |-> FALSE]
    @@ past :> [reporter |-> own, reported |-> bob, secret |-> s1, legacy |-> FALSE,
                byId |-> TRUE, resolved |-> TRUE]

Ask(by, about, s) == [by |-> by, about |-> about, secret |-> s]

\* Two good reports against own, and one that names the wrong owner.
MCAsked == {Ask(ann, own, s1), Ask(wal, own, s1), Ask(ann, bob, s1)}
TwoReporters == {Ask(ann, own, s1), Ask(bob, own, s1)}
TwoOwners == {Ask(ann, own, s1), Ask(bob, ann, s2)}

Symmetry == Permutations(Reporting)
==============================================================================
