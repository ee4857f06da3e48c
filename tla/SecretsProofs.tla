----------------------------- MODULE SecretsProofs -----------------------------
(***************************************************************************)
(* Proofs about Secrets, for any users, keys, wallets, requests and        *)
(* bounds.  What a request has checked about secrets it does not own must  *)
(* survive what others write before it stores.  Change says how a step may *)
(* alter the collection at all; every request that does not take the step  *)
(* keeps what it knows because of it, whichever action the step is.        *)
(***************************************************************************)
EXTENDS Secrets, TLAPS

Creating == {"parent", "lookup", "exists", "overwrite", "insert"}

\* What a request carries at each of its steps.
JobOK(r) ==
    /\ pc[r] # "idle" => job[r].user \in User
    /\ pc[r] \in Creating => job[r].op = "create"
    /\ pc[r] = "read" => job[r].op = "update"
    /\ pc[r] = "own" => job[r].op \in {"hide", "delete"}
    /\ pc[r] = "user" => job[r].op # "none"
    /\ pc[r] = "validate" => job[r].op \in {"create", "update"}
    /\ pc[r] = "store" => job[r].op \in {"update", "hide", "delete"}
    /\ job[r].op = "create" => job[r].key \in Key /\ job[r].parent \in 1..born \cup {None}
    /\ job[r].op \in {"update", "hide", "delete"} => job[r].id \in 1..born
    /\ job[r].op = "update" => job[r].parent \in 1..born \cup {None, Unset}
    /\ pc[r] \in {"exists", "overwrite"} => found[r] \in 1..born
    /\ job[r].op = "update" /\ pc[r] \in {"user", "validate", "store"} => saw[r] # None
    /\ saw[r] # None => job[r].op = "update" /\ pc[r] \in {"user", "validate", "store"}
    /\ looked[r] <= born

\* The secret it is about to change is its user's, or it came by Telegram.
OwnerOK(r) ==
    /\ pc[r] \in {"exists", "overwrite"} /\ Exists(found[r]) =>
         /\ secret[found[r]].owner = job[r].user
         /\ secret[found[r]].key = job[r].key
    /\ saw[r] # None /\ Exists(job[r].id) => saw[r].owner = secret[job[r].id].owner
    /\ saw[r] # None /\ pc[r] \in {"validate", "store"} =>
         saw[r].owner = job[r].user \/ job[r].byTelegram

\* The parent it has checked is still no child, unless an update made it one.
NestOK(r) ==
    pc[r] \in {"lookup", "exists", "overwrite", "insert"} /\ job[r].parent # None =>
        \/ ~Exists(job[r].parent)
        \/ secret[job[r].parent].parent = None
        \/ job[r].parent \in adopted

\* What it did not find among the secrets there were still is not among them.
KeyOK(r) ==
    pc[r] = "insert" =>
        \A i \in Existing : i <= looked[r] =>
            ~(secret[i].owner = job[r].user /\ secret[i].key = job[r].key)

\* The recipients a restricted user gives a secret of its own are people it shares with.
ShareOK(r) ==
    /\ ~free[r]
    /\ \/ pc[r] \in Creating
       \/ pc[r] = "store" /\ job[r].op = "update" /\ saw[r].owner = job[r].user
    => Pairs(job[r].user, Targets(r)) \subseteq freely

\* An update that read its secret as shown knows of a later hide.
LateOK(r) ==
    /\ saw[r] # None /\ ~saw[r].hidden
    /\ Exists(job[r].id) /\ secret[job[r].id].hidden
    => r \in late

ReqOK(r) == JobOK(r) /\ OwnerOK(r) /\ NestOK(r) /\ KeyOK(r) /\ ShareOK(r) /\ LateOK(r)

StoredOK ==
    \A i \in Existing : i <= born /\ secret[i].parent \in 1..born \cup {None}

IInv ==
    /\ TypeOK /\ StoredOK
    /\ \A r \in Req : ReqOK(r)
    /\ NestedOnlyByUpdates /\ DuplicatesRaced /\ SharingBeginsFreely

------------------------------------------------------------------------------
(* Types. *)

LEMMA NoJobIsJob == NoJob \in Job
  BY DEF NoJob, Job, Ops

LEMMA InitIInv == Init => IInv
<1> SUFFICES ASSUME Init PROVE IInv
  OBVIOUS
<1>1. TypeOK
  BY NoJobIsJob, SecretsAssumption DEF Init, TypeOK, Id, Steps
<1>2. Existing = {}
  BY DEF Init, Existing
<1>3. \A r \in Req : ReqOK(r)
  BY DEF Init, NoJob, ReqOK, JobOK, OwnerOK, NestOK, KeyOK, ShareOK, LateOK, Creating
<1>4. StoredOK /\ NestedOnlyByUpdates /\ DuplicatesRaced /\ SharingBeginsFreely
  BY <1>2 DEF Init, StoredOK, NestedOnlyByUpdates, DuplicatesRaced, SharingBeginsFreely, Existing
<1>5. QED
  BY <1>1, <1>3, <1>4 DEF IInv

\* A step of request r that leaves the collection alone types what it changes.
LEMMA EndTyped ==
    ASSUME TypeOK, NEW r \in Req, End(r)
    PROVE  /\ pc' \in [Req -> Steps] /\ job' \in [Req -> Job]
           /\ free' \in [Req -> BOOLEAN]
           /\ saw' \in [Req -> [owner : User, hidden : BOOLEAN] \cup {None}]
           /\ found' \in [Req -> Id \cup {None}]
           /\ looked' \in [Req -> 0..MaxSecrets]
  BY NoJobIsJob, SecretsAssumption DEF TypeOK, End, Goto, Steps

LEMMA RefuseTyped ==
    ASSUME TypeOK, NEW r \in Req, Refuse(r)
    PROVE  TypeOK'
  BY EndTyped DEF TypeOK, Refuse, stored, accounts, history, bounds

LEMMA ArriveTyped ==
    ASSUME TypeOK, NEW r \in Req, NEW what \in Job, NEW first \in {"user", "read"},
           Arrive(r, what, first)
    PROVE  TypeOK'
  BY SecretsAssumption DEF TypeOK, Arrive, Steps, stored, accounts, local

LEMMA AskTyped ==
    ASSUME TypeOK, NEW r \in Req, AskCreate(r) \/ AskUpdate(r) \/ AskHide(r) \/ AskDelete(r)
    PROVE  TypeOK'
<1>1. born \in Nat /\ 1..born \subseteq Id
  BY SecretsAssumption DEF TypeOK, Id
<1>2. CASE AskCreate(r)
  <2>1. PICK u \in User, k \in Key, p \in 1..born \cup {None}, list \in Wanted :
          Arrive(r, [NoJob EXCEPT !.op = "create", !.user = u, !.key = k, !.parent = p,
                                  !.lists = TRUE, !.sharedWith = list], "user")
    BY <1>2 DEF AskCreate
  <2>2. [NoJob EXCEPT !.op = "create", !.user = u, !.key = k, !.parent = p,
                      !.lists = TRUE, !.sharedWith = list] \in Job
    BY <1>1, SecretsAssumption DEF NoJob, Job, Ops
  <2>3. QED
    BY <2>1, <2>2, ArriveTyped
<1>3. CASE AskUpdate(r)
  <2>1. PICK u \in User, i \in 1..born, p \in 1..born \cup {None, Unset},
             h \in {"unset", "yes", "no"}, lists \in BOOLEAN :
          \E list \in IF lists THEN Wanted ELSE {{}}, telegram \in {FALSE, (u \in Telegram)} :
            Arrive(r, [NoJob EXCEPT !.op = "update", !.user = u, !.id = i, !.parent = p,
                                    !.hidden = h, !.lists = lists, !.sharedWith = list,
                                    !.byTelegram = telegram], "read")
    BY <1>3 DEF AskUpdate
  <2>a. {FALSE, (u \in Telegram)} \subseteq BOOLEAN
    OBVIOUS
  <2>b. (IF lists THEN Wanted ELSE {{}}) \subseteq SUBSET User
    BY SecretsAssumption
  <2> PICK list \in SUBSET User, telegram \in BOOLEAN :
          Arrive(r, [NoJob EXCEPT !.op = "update", !.user = u, !.id = i, !.parent = p,
                                  !.hidden = h, !.lists = lists, !.sharedWith = list,
                                  !.byTelegram = telegram], "read")
    BY <2>1, <2>a, <2>b
  <2>2. [NoJob EXCEPT !.op = "update", !.user = u, !.id = i, !.parent = p,
                      !.hidden = h, !.lists = lists, !.sharedWith = list,
                      !.byTelegram = telegram] \in Job
    BY <1>1, SecretsAssumption DEF NoJob, Job, Ops
  <2>3. QED
    BY <2>1, <2>2, ArriveTyped
<1>4. CASE AskHide(r) \/ AskDelete(r)
  <2>1. PICK op \in {"hide", "delete"}, u \in User, i \in 1..born :
          Arrive(r, [NoJob EXCEPT !.op = op, !.user = u, !.id = i], "user")
    BY <1>4 DEF AskHide, AskDelete
  <2>2. [NoJob EXCEPT !.op = op, !.user = u, !.id = i] \in Job
    BY <1>1 DEF NoJob, Job, Ops
  <2>3. QED
    BY <2>1, <2>2, ArriveTyped
<1>5. QED
  BY <1>2, <1>3, <1>4

LEMMA AfterSharesIsStep ==
    ASSUME NEW r
    PROVE  AfterShares(r) \in {"store", "parent", "lookup"}
  BY DEF AfterShares

LEMMA ChecksTyped ==
    ASSUME TypeOK, NEW r \in Req, JobOK(r),
           \/ FindUser(r) \/ FindUpdater(r) \/ ValidateSharingRestrictions(r)
           \/ CheckParent(r) \/ LookUpKey(r)
           \/ VerifyPasswordExists(r) \/ ReadSecret(r) \/ CheckOwner(r)
    PROVE  TypeOK'
<1>1. CASE Refuse(r)
  BY <1>1, RefuseTyped
<1>2. CASE ~Refuse(r)
  <2>1. pc' \in [Req -> Steps]
    BY <1>2, AfterSharesIsStep
    DEF TypeOK, Steps, Goto, FindUser, FindUpdater, Admit, ValidateSharingRestrictions,
        CheckParent, LookUpKey,
        VerifyPasswordExists, ReadSecret, CheckOwner
  <2>2. /\ free' \in [Req -> BOOLEAN]
        /\ looked' \in [Req -> 0..MaxSecrets]
        /\ found' \in [Req -> Id \cup {None}]
    <3>1. CASE LookUpKey(r)
      <4>1. found' = found \/ \E i \in Existing : found' = [found EXCEPT ![r] = i]
        BY <1>2, <3>1 DEF LookUpKey, Keyed
      <4>2. found' \in [Req -> Id \cup {None}]
        BY <4>1 DEF TypeOK, Existing
      <4>3. QED
        BY <1>2, <3>1, <4>2 DEF TypeOK, LookUpKey
    <3>2. CASE ~LookUpKey(r)
      BY <1>2, <3>2
      DEF TypeOK, FindUser, FindUpdater, Admit, ValidateSharingRestrictions, CheckParent,
          VerifyPasswordExists,
          ReadSecret, CheckOwner, local
    <3>3. QED
      BY <3>1, <3>2
  <2>3. saw' \in [Req -> [owner : User, hidden : BOOLEAN] \cup {None}]
    <3>1. CASE ReadSecret(r)
      <4>1. job[r].id \in Id
        BY <3>1, SecretsAssumption DEF TypeOK, Id, JobOK, ReadSecret
      <4>2. secret[job[r].id] \in Password
        BY <1>2, <3>1, <4>1 DEF TypeOK, ReadSecret, Exists
      <4>3. QED
        BY <1>2, <3>1, <4>2 DEF TypeOK, ReadSecret, Password
    <3>2. CASE ~ReadSecret(r)
      BY <1>2, <3>2
      DEF TypeOK, FindUser, FindUpdater, Admit, ValidateSharingRestrictions, CheckParent, LookUpKey,
          VerifyPasswordExists, CheckOwner, local
    <3>3. QED
      BY <3>1, <3>2
  <2>4. UNCHANGED <<stored, accounts, job, history, bounds>>
    BY <1>2
    DEF FindUser, FindUpdater, Admit, ValidateSharingRestrictions, CheckParent, LookUpKey,
        VerifyPasswordExists,
        ReadSecret, CheckOwner
  <2>5. QED
    BY <2>1, <2>2, <2>3, <2>4 DEF TypeOK, stored, accounts, history, bounds
<1>3. QED
  BY <1>1, <1>2

\* The stores write a password of the type.
LEMMA InsertTyped ==
    ASSUME TypeOK, NEW r \in Req, JobOK(r), Insert(r)
    PROVE  TypeOK'
<1>1. job[r] \in Job /\ job[r].user \in User /\ job[r].key \in Key
      /\ job[r].parent \in 1..born \cup {None}
  BY DEF TypeOK, JobOK, Insert, Creating
<1>2. born \in Nat /\ born + 1 \in Id /\ 1..born \subseteq Id
  BY SecretsAssumption DEF TypeOK, Insert, Id
<1>3. Targets(r) \subseteq User
  BY <1>1 DEF Targets, Job
<1>4. [owner |-> job[r].user, key |-> job[r].key, parent |-> job[r].parent,
       hidden |-> FALSE, sharedWith |-> Targets(r)] \in Password
  BY <1>1, <1>2, <1>3 DEF Password
<1>5. secret' \in [Id -> Password \cup {None}]
  BY <1>4 DEF TypeOK, Insert
<1>6. freely' \subseteq SUBSET User
  BY <1>1, <1>3 DEF TypeOK, Insert, Opened, Pairs
<1>7. born' \in 0..MaxSecrets /\ lookedFor' \in [Id -> 0..MaxSecrets]
  BY <1>2, SecretsAssumption DEF TypeOK, Insert, Id
<1>8. End(r) /\ UNCHANGED <<accounts, adopted, late, bounds>>
  BY DEF Insert
<1>9. QED
  BY <1>5, <1>6, <1>7, <1>8, EndTyped DEF TypeOK, accounts, bounds

LEMMA OverwriteTyped ==
    ASSUME TypeOK, NEW r \in Req, JobOK(r), Overwrite(r)
    PROVE  TypeOK'
<1> DEFINE i == found[r]
<1>1. CASE Refuse(r)
  BY <1>1, RefuseTyped
<1>2. CASE ~Refuse(r)
  <2>1. /\ job[r] \in Job /\ job[r].user \in User /\ job[r].key \in Key
        /\ job[r].parent \in Id \cup {None} /\ i \in Id
    BY SecretsAssumption DEF TypeOK, Overwrite, JobOK, Creating, Id
  <2>2. Targets(r) \subseteq User
    BY <2>1 DEF Targets, Job
  <2>3. secret[i] \in Password
    BY <1>2, <2>1 DEF TypeOK, Overwrite, Exists
  <2>4. Overwritten(secret[i], r) \in Password
    BY <2>1, <2>2, <2>3 DEF Overwritten, Password
  <2>5. secret' \in [Id -> Password \cup {None}]
    BY <1>2, <2>4 DEF TypeOK, Overwrite
  <2>6. adopted' \subseteq Id /\ freely' \subseteq SUBSET User
    BY <1>2, <2>1, <2>2 DEF TypeOK, Overwrite, Opened, Pairs
  <2>7. End(r) /\ UNCHANGED <<born, accounts, lookedFor, late, bounds>>
    BY <1>2 DEF Overwrite
  <2>8. QED
    BY <2>5, <2>6, <2>7, EndTyped DEF TypeOK, accounts, bounds
<1>3. QED
  BY <1>1, <1>2

LEMMA StoreTyped ==
    ASSUME TypeOK, NEW r \in Req, JobOK(r), Store(r)
    PROVE  TypeOK'
<1> DEFINE i == job[r].id
<1>1. /\ job[r] \in Job /\ job[r].user \in User
      /\ i \in Id
  BY SecretsAssumption DEF TypeOK, Store, JobOK, Id
<1>2. CASE Refuse(r)
  BY <1>2, RefuseTyped
<1>3. CASE Patch(r) /\ job[r].op = "update" /\ ~Refuse(r)
  <2>1. Targets(r) \subseteq User
    BY <1>1 DEF Targets, Job
  <2>2. secret[i] \in Password
    BY <1>1, <1>3 DEF TypeOK, Patch, Exists
  <2>3. saw[r] \in [owner : User, hidden : BOOLEAN]
    BY <1>3 DEF TypeOK, Store, JobOK
  <2>4. HiddenAfter(r) \in BOOLEAN
    BY <2>3 DEF HiddenAfter
  <2>5. job[r].parent \in Id \cup {None, Unset}
    BY <1>1 DEF Job
  <2>6. Patched(secret[i], r) \in Password
    BY <2>1, <2>2, <2>4, <2>5 DEF Patched, Password
  <2>7. secret' \in [Id -> Password \cup {None}]
    BY <1>3, <2>6 DEF TypeOK, Patch
  <2>8. adopted' \subseteq Id /\ freely' \subseteq SUBSET User
    BY <1>1, <1>3, <2>1, <2>2 DEF TypeOK, Patch, Opened, Pairs, Password
  <2>9. late' \subseteq Req
    BY <1>3 DEF TypeOK, Patch, Hidden, HoldersOf
  <2>10. End(r) /\ UNCHANGED <<born, accounts, lookedFor, bounds>>
    BY <1>3 DEF Patch
  <2>11. QED
    BY <2>7, <2>8, <2>9, <2>10, EndTyped DEF TypeOK, accounts, bounds
<1>4. CASE Hide(r) /\ ~Refuse(r)
  <2>1. secret[i] \in Password
    BY <1>1, <1>4 DEF TypeOK, Hide, Exists
  <2>a. [secret[i] EXCEPT !.hidden = TRUE] \in Password
    BY <2>1 DEF Password
  <2>2. secret' \in [Id -> Password \cup {None}]
    BY <1>4, <2>a DEF TypeOK, Hide
  <2>3. late' \subseteq Req
    BY <1>4 DEF TypeOK, Hide, Hidden, HoldersOf
  <2>4. End(r) /\ UNCHANGED <<born, accounts, adopted, lookedFor, freely, bounds>>
    BY <1>4 DEF Hide
  <2>5. QED
    BY <2>2, <2>3, <2>4, EndTyped DEF TypeOK, accounts, bounds
<1>5. CASE Delete(r)
  BY <1>1, <1>5, EndTyped DEF TypeOK, Delete, Remove, accounts, history, bounds
<1>6. QED
  BY <1>2, <1>3, <1>4, <1>5 DEF Store

LEMMA OutsideTyped ==
    ASSUME TypeOK, \/ \E i \in Id : DeleteById(i)
                   \/ \E u \in User : Administer(u)
    PROVE  TypeOK'
<1>1. ASSUME NEW i \in Id, DeleteById(i)
      PROVE  TypeOK'
  BY <1>1, SecretsAssumption DEF TypeOK, DeleteById, Remove, accounts, local, history
<1>2. ASSUME NEW u \in User, Administer(u)
      PROVE  TypeOK'
  <2>1. restricted' \in [User -> BOOLEAN] /\ active' \in [User -> BOOLEAN]
    <3>1. CASE restricted' = [restricted EXCEPT ![u] = ~@] /\ UNCHANGED active
      BY <3>1, Zenon DEF TypeOK
    <3>2. CASE active' = [active EXCEPT ![u] = FALSE] /\ UNCHANGED restricted
      BY <3>2 DEF TypeOK
    <3>3. QED
      BY <1>2, <3>1, <3>2 DEF Administer
  <2>2. QED
    BY <1>2, <2>1, SecretsAssumption DEF TypeOK, Administer, stored, local, history
<1>3. QED
  BY <1>1, <1>2

LEMMA StutterTyped == TypeOK /\ (UNCHANGED vars \/ AllAnswered) => TypeOK'
  BY DEF AllAnswered, TypeOK, vars, stored, accounts, local, history, bounds

LEMMA TypeStep == IInv /\ [Next]_vars => TypeOK'
<1> SUFFICES ASSUME IInv, [Next]_vars PROVE TypeOK'
  OBVIOUS
<1>1. TypeOK /\ \A r \in Req : JobOK(r)
  BY DEF IInv, ReqOK
<1>2. ASSUME NEW r \in Req, Step(r)
      PROVE  TypeOK'
  BY <1>1, <1>2, AskTyped, ChecksTyped, InsertTyped, OverwriteTyped, StoreTyped DEF Step
<1>3. QED
  BY <1>1, <1>2, OutsideTyped, StutterTyped DEF Next

------------------------------------------------------------------------------
(* How a step may alter the collection. *)

\* Secret i is rewritten: its owner and key stay, a new parent is recorded as an adoption,
\* and updates of it that go on learn that it is hidden now.
Rewritten(i) ==
    /\ Exists(i)
    /\ secret'[i].owner = secret[i].owner /\ secret'[i].key = secret[i].key
    /\ secret'[i].parent \in {secret[i].parent, None} \/ i \in adopted'
    /\ secret'[i].parent \in 1..born \cup {None}
    /\ secret'[i].hidden =>
         secret[i].hidden \/ \A q \in HoldersOf(i) : pc'[q] = "idle" \/ q \in late'
    /\ \/ secret'[i].sharedWith = secret[i].sharedWith
       \/ Pairs(secret'[i].owner, secret'[i].sharedWith) \subseteq freely'
    /\ lookedFor'[i] = lookedFor[i]

\* Secret i is new: its parent is no child but by an update, and of the secrets that were
\* there when its key was looked up none has it.
Inserted(i) ==
    /\ ~Exists(i) /\ i = born + 1 /\ born' = i
    /\ ~secret'[i].hidden
    /\ secret'[i].parent \in 1..born \cup {None}
    /\ secret'[i].parent \in Existing =>
         secret[secret'[i].parent].parent = None \/ secret'[i].parent \in adopted
    /\ \A j \in Existing : j <= lookedFor'[i] =>
         ~(secret[j].owner = secret'[i].owner /\ secret[j].key = secret'[i].key)
    /\ Pairs(secret'[i].owner, secret'[i].sharedWith) \subseteq freely'

Change ==
    /\ \A i \in Id : (Exists(i))' => Rewritten(i) \/ Inserted(i)
    /\ born' \in Nat /\ born <= born'
    /\ adopted \subseteq adopted' /\ freely \subseteq freely'

LEMMA SameCollection ==
    ASSUME TypeOK, StoredOK, UNCHANGED <<secret, born, lookedFor>>,
           adopted \subseteq adopted', freely \subseteq freely'
    PROVE  Change
  BY DEF TypeOK, StoredOK, Change, Rewritten, Exists, Existing

\* What is stored for an owner is opened with it, or has been open before.
LEMMA OpenedEnough ==
    ASSUME NEW r, NEW owner, Opened(r, owner),
           \/ free[r] \/ owner # job[r].user
           \/ Pairs(owner, Targets(r)) \subseteq freely
    PROVE  Pairs(owner, Targets(r)) \subseteq freely' /\ freely \subseteq freely'
  BY DEF Opened

LEMMA ChangeInsert ==
    ASSUME TypeOK, StoredOK, NEW r \in Req, ReqOK(r), Insert(r)
    PROVE  Change
<1> DEFINE new == [owner |-> job[r].user, key |-> job[r].key, parent |-> job[r].parent,
                   hidden |-> FALSE, sharedWith |-> Targets(r)]
<1>1. born \in Nat /\ born + 1 \in Id
  BY SecretsAssumption DEF TypeOK, Insert, Id
<1>2. ~Exists(born + 1)
  BY <1>1 DEF StoredOK, Existing, Exists
<1>3. job[r].parent \in 1..born \cup {None}
  BY DEF ReqOK, JobOK, Insert, Creating
<1>4. secret'[born + 1] = new /\ lookedFor'[born + 1] = looked[r]
  BY <1>1 DEF TypeOK, Insert
<1>5. job[r].parent \in Existing => secret[job[r].parent].parent = None \/ job[r].parent \in adopted
  BY SecretsAssumption DEF ReqOK, NestOK, Insert, Existing, Exists, Id
<1>6. \A j \in Existing : j <= looked[r] =>
        ~(secret[j].owner = job[r].user /\ secret[j].key = job[r].key)
  BY DEF ReqOK, KeyOK, Insert
<1>7. Pairs(job[r].user, Targets(r)) \subseteq freely' /\ freely \subseteq freely'
  BY OpenedEnough DEF ReqOK, ShareOK, Insert, Creating
<1>8. Inserted(born + 1)
  BY <1>1, <1>2, <1>3, <1>4, <1>5, <1>6, <1>7 DEF Insert, Inserted
<1>9. \A i \in Id \ {born + 1} : secret'[i] = secret[i] /\ lookedFor'[i] = lookedFor[i]
  BY DEF TypeOK, Insert
<1>10. \A i \in Id \ {born + 1} : (Exists(i))' => Rewritten(i)
  BY <1>9 DEF StoredOK, Rewritten, Exists, Existing
<1>11. born' = born + 1 /\ adopted' = adopted
  BY DEF Insert
<1>12. QED
  BY <1>1, <1>7, <1>8, <1>10, <1>11 DEF Change

LEMMA ChangeOverwrite ==
    ASSUME TypeOK, StoredOK, NEW r \in Req, ReqOK(r), Overwrite(r)
    PROVE  Change
<1> DEFINE i == found[r]
<1>1. CASE Refuse(r)
  BY <1>1, SameCollection DEF Refuse, stored, history
<1>2. CASE ~Refuse(r)
  <2>1. /\ pc[r] = "overwrite" /\ Exists(i) /\ i \in Id
        /\ secret' = [secret EXCEPT ![i] = Overwritten(secret[i], r)]
        /\ adopted' = IF job[r].parent = None THEN adopted ELSE adopted \cup {i}
        /\ Opened(r, job[r].user) /\ born' = born /\ lookedFor' = lookedFor
    BY <1>2, SecretsAssumption DEF TypeOK, Overwrite, ReqOK, JobOK, Id
  <2>2. secret[i] \in Password
    BY <2>1 DEF TypeOK, Exists
  <2>3. secret'[i] = Overwritten(secret[i], r)
    BY <2>1 DEF TypeOK
  <2>4. /\ job[r].parent \in 1..born \cup {None}
        /\ secret[i].owner = job[r].user /\ secret[i].key = job[r].key
    BY <2>1 DEF ReqOK, JobOK, OwnerOK, Creating
  <2>a. Pairs(job[r].user, Targets(r)) \subseteq freely' /\ freely \subseteq freely'
    BY <2>1, OpenedEnough DEF ReqOK, ShareOK, Creating
  <2>5. Rewritten(i)
    BY <2>1, <2>2, <2>3, <2>4, <2>a
    DEF StoredOK, Existing, Exists, Rewritten, Overwritten, Password
  <2>6. \A j \in Id \ {i} : (Exists(j))' => Rewritten(j)
    BY <2>1 DEF TypeOK, StoredOK, Rewritten, Exists, Existing
  <2>7. QED
    BY <2>1, <2>a, <2>5, <2>6 DEF TypeOK, Change
<1>3. QED
  BY <1>1, <1>2

\* Hidden records every other update of i that has read it.
LEMMA HiddenIsKnown ==
    ASSUME NEW i, NEW r, Hidden(i, r), ~secret[i].hidden
    PROVE  \A q \in HoldersOf(i) \ {r} : q \in late'
  BY DEF Hidden

LEMMA ChangePatch ==
    ASSUME TypeOK, StoredOK, NEW r \in Req, ReqOK(r), pc[r] = "store", job[r].op = "update",
           Patch(r)
    PROVE  Change
<1> DEFINE i == job[r].id
<1>1. CASE Refuse(r)
  BY <1>1, SameCollection DEF Refuse, stored, history
<1>2. CASE ~Refuse(r)
  <2>1. /\ Exists(i) /\ i \in Id
        /\ secret' = [secret EXCEPT ![i] = Patched(secret[i], r)]
        /\ adopted' = IF job[r].parent \in {None, Unset} THEN adopted ELSE adopted \cup {i}
        /\ Opened(r, secret[i].owner) /\ born' = born /\ lookedFor' = lookedFor
        /\ HiddenAfter(r) => Hidden(i, r)
        /\ End(r)
    BY <1>2, SecretsAssumption DEF TypeOK, Patch, ReqOK, JobOK, Id
  <2>2. secret[i] \in Password
    BY <2>1 DEF TypeOK, Exists
  <2>3. secret'[i] = Patched(secret[i], r)
    BY <2>1 DEF TypeOK
  <2>4. job[r].parent \in 1..born \cup {None, Unset} /\ saw[r].owner = secret[i].owner
    BY <2>1 DEF ReqOK, JobOK, OwnerOK
  <2>a. Pairs(secret[i].owner, Targets(r)) \subseteq freely' /\ freely \subseteq freely'
    BY <2>1, <2>4, OpenedEnough DEF ReqOK, ShareOK
  <2>5. pc'[r] = "idle"
    BY <2>1 DEF TypeOK, End, Goto
  <2>6. /\ secret'[i].owner = secret[i].owner /\ secret'[i].key = secret[i].key
        /\ secret'[i].hidden = HiddenAfter(r)
        /\ secret'[i].parent = IF job[r].parent = Unset THEN secret[i].parent ELSE job[r].parent
        /\ secret'[i].sharedWith = IF job[r].lists THEN Targets(r) ELSE secret[i].sharedWith
    BY <2>2, <2>3 DEF Patched, Password
  <2>7. secret'[i].hidden =>
          secret[i].hidden \/ \A q \in HoldersOf(i) : pc'[q] = "idle" \/ q \in late'
    BY <2>1, <2>5, <2>6, HiddenIsKnown
  <2>8. Rewritten(i)
    BY <2>1, <2>4, <2>a, <2>6, <2>7 DEF StoredOK, Existing, Exists, Rewritten
  <2>9. \A j \in Id \ {i} : (Exists(j))' => Rewritten(j)
    BY <2>1 DEF TypeOK, StoredOK, Rewritten, Exists, Existing
  <2>10. QED
    BY <2>1, <2>a, <2>8, <2>9 DEF TypeOK, Change
<1>3. QED
  BY <1>1, <1>2

LEMMA ChangeHide ==
    ASSUME TypeOK, StoredOK, NEW r \in Req, JobOK(r), pc[r] = "store", Hide(r)
    PROVE  Change
<1> DEFINE i == job[r].id
<1>1. CASE Refuse(r)
  BY <1>1, SameCollection DEF Refuse, stored, history
<1>2. CASE ~Refuse(r)
  <2>1. /\ Exists(i) /\ i \in Id
        /\ secret' = [secret EXCEPT ![i].hidden = TRUE]
        /\ Hidden(i, r) /\ End(r)
        /\ UNCHANGED <<born, adopted, freely, lookedFor>>
    BY <1>2, SecretsAssumption DEF TypeOK, Hide, JobOK, Id
  <2>2. secret[i] \in Password
    BY <2>1 DEF TypeOK, Exists
  <2>3. /\ secret'[i].owner = secret[i].owner /\ secret'[i].key = secret[i].key
        /\ secret'[i].parent = secret[i].parent
        /\ secret'[i].sharedWith = secret[i].sharedWith
    BY <2>1, <2>2 DEF TypeOK, Password
  <2>4. pc'[r] = "idle"
    BY <2>1 DEF TypeOK, End, Goto
  <2>5. Rewritten(i)
    BY <2>1, <2>3, <2>4, HiddenIsKnown DEF StoredOK, Existing, Exists, Rewritten
  <2>6. \A j \in Id \ {i} : (Exists(j))' => Rewritten(j)
    BY <2>1 DEF TypeOK, StoredOK, Rewritten, Exists, Existing
  <2>7. QED
    BY <2>1, <2>5, <2>6 DEF TypeOK, Change
<1>3. QED
  BY <1>1, <1>2

LEMMA ChangeRemove ==
    ASSUME TypeOK, StoredOK, NEW i \in Id, Remove(i), UNCHANGED <<born, adopted, freely, lookedFor>>
    PROVE  Change
<1>1. \A j \in Id : (Exists(j))' => secret'[j] = secret[j]
  BY DEF TypeOK, Remove, Exists
<1>2. QED
  BY <1>1 DEF TypeOK, StoredOK, Change, Rewritten, Exists, Existing

LEMMA ChangeStore ==
    ASSUME TypeOK, StoredOK, NEW r \in Req, ReqOK(r), Store(r)
    PROVE  Change
<1>1. pc[r] = "store" /\ job[r].id \in Id /\ JobOK(r)
  BY SecretsAssumption DEF TypeOK, Store, ReqOK, JobOK, Id
<1>2. CASE job[r].op = "update"
  BY <1>1, <1>2, ChangePatch DEF Store
<1>3. CASE job[r].op = "hide"
  BY <1>1, <1>3, ChangeHide DEF Store
<1>4. CASE job[r].op \notin {"update", "hide"}
  BY <1>1, <1>4, ChangeRemove DEF Store, Delete, history
<1>5. QED
  BY <1>2, <1>3, <1>4

LEMMA ChangeStep == IInv /\ [Next]_vars => Change
<1> SUFFICES ASSUME IInv, [Next]_vars PROVE Change
  OBVIOUS
<1>1. TypeOK /\ StoredOK /\ \A r \in Req : ReqOK(r)
  BY DEF IInv
<1>2. ASSUME NEW r \in Req, Step(r)
      PROVE  Change
  <2>1. CASE Insert(r)
    BY <1>1, <2>1, ChangeInsert
  <2>2. CASE Overwrite(r)
    BY <1>1, <2>2, ChangeOverwrite
  <2>3. CASE Store(r)
    BY <1>1, <2>3, ChangeStore
  <2>4. CASE \/ AskCreate(r) \/ AskUpdate(r) \/ AskHide(r) \/ AskDelete(r)
             \/ FindUser(r) \/ FindUpdater(r) \/ ValidateSharingRestrictions(r) \/ CheckParent(r)
             \/ LookUpKey(r) \/ VerifyPasswordExists(r) \/ ReadSecret(r) \/ CheckOwner(r)
    <3>1. UNCHANGED <<secret, born, adopted, freely, lookedFor>>
      BY <2>4
      DEF AskCreate, AskUpdate, AskHide, AskDelete, Arrive, FindUser, FindUpdater, Admit,
          CheckParent,
          ValidateSharingRestrictions, LookUpKey, VerifyPasswordExists, ReadSecret, CheckOwner,
          Refuse, stored, history
    <3>2. QED
      BY <1>1, <3>1, SameCollection
  <2>5. QED
    BY <1>2, <2>1, <2>2, <2>3, <2>4 DEF Step
<1>3. ASSUME NEW i \in Id, DeleteById(i)
      PROVE  Change
  BY <1>1, <1>3, ChangeRemove DEF DeleteById, history
<1>4. ASSUME NEW u \in User, Administer(u)
      PROVE  Change
  BY <1>1, <1>4, SameCollection DEF Administer, stored, history
<1>5. CASE UNCHANGED vars \/ AllAnswered
  BY <1>1, <1>5, SameCollection DEF AllAnswered, vars, stored, history
<1>6. QED
  BY <1>2, <1>3, <1>4, <1>5 DEF Next

------------------------------------------------------------------------------
(* What holds of the collection. *)

LEMMA OldAndNew ==
    ASSUME TypeOK, StoredOK, Change, NEW i \in Id, (Exists(i))'
    PROVE  /\ i <= born => Rewritten(i)
           /\ i > born => Inserted(i)
  BY DEF TypeOK, StoredOK, Change, Rewritten, Inserted, Existing, Exists, Id

LEMMA StoredStep ==
    ASSUME TypeOK, StoredOK, Change
    PROVE  StoredOK'
<1>1. born \in Nat /\ born' \in Nat /\ born <= born'
  BY SecretsAssumption DEF TypeOK, Change
<1>2. ASSUME NEW i \in Id, (Exists(i))'
      PROVE  i <= born' /\ secret'[i].parent \in 1..born' \cup {None}
  BY <1>1, <1>2, OldAndNew DEF StoredOK, Rewritten, Inserted, Existing, Exists, Id
<1>3. QED
  BY <1>2 DEF StoredOK, Existing, Exists

LEMMA NestedStep ==
    ASSUME TypeOK, StoredOK, Change, NestedOnlyByUpdates
    PROVE  NestedOnlyByUpdates'
<1>1. SUFFICES ASSUME NEW c \in Id, NEW p \in Id, (Exists(c))', (Exists(p))',
                      secret'[c].parent = p, secret'[p].parent # None
               PROVE  {c, p} \cap adopted' # {}
  BY DEF NestedOnlyByUpdates, Existing, Exists
<1>2. adopted \subseteq adopted' /\ p # None
  BY SecretsAssumption DEF Change, Id
<1>3. p <= born
  <2>1. secret'[c].parent \in 1..born \cup {None}
    BY <1>1 DEF Change, Rewritten, Inserted
  <2>2. QED
    BY <1>1, <1>2, <2>1, SecretsAssumption DEF TypeOK
<1>4. /\ Exists(p)
      /\ secret[p].parent # None \/ p \in adopted'
  BY <1>1, <1>3, OldAndNew DEF Rewritten
<1>5. CASE c <= born
  <2>1. Exists(c) /\ (secret[c].parent = p \/ c \in adopted')
    BY <1>1, <1>2, <1>5, OldAndNew DEF Rewritten
  <2>2. QED
    BY <1>2, <1>4, <2>1 DEF NestedOnlyByUpdates, Existing, Exists
<1>6. CASE c > born
  <2>1. Inserted(c)
    BY <1>1, <1>6, OldAndNew
  <2>2. QED
    BY <1>1, <1>2, <1>4, <2>1 DEF Inserted, Existing, Exists
<1>7. QED
  BY <1>5, <1>6, SecretsAssumption DEF TypeOK, Id

LEMMA DuplicatesStep ==
    ASSUME TypeOK, StoredOK, Change, DuplicatesRaced, TypeOK'
    PROVE  DuplicatesRaced'
<1>1. SUFFICES ASSUME NEW i \in Id, NEW j \in Id, (Exists(i))', (Exists(j))', i < j,
                      secret'[i].owner = secret'[j].owner, secret'[i].key = secret'[j].key
               PROVE  lookedFor'[j] < i
  BY DEF DuplicatesRaced, Existing, Exists
<1>2. born \in Nat /\ i \in Nat /\ j \in Nat /\ lookedFor'[j] \in Nat
  BY SecretsAssumption DEF TypeOK, Id
<1>3. i <= born
  BY <1>1, <1>2, OldAndNew DEF Inserted
<1>4. Rewritten(i)
  BY <1>1, <1>3, OldAndNew
<1>5. CASE j <= born
  BY <1>1, <1>4, <1>5, OldAndNew DEF DuplicatesRaced, Rewritten, Existing, Exists
<1>6. CASE j > born
  <2>1. Inserted(j) /\ i \in Existing
    BY <1>1, <1>4, <1>6, OldAndNew DEF Rewritten, Existing, Exists
  <2>2. ~(i <= lookedFor'[j])
    BY <1>1, <1>4, <2>1 DEF Rewritten, Inserted
  <2>3. QED
    BY <1>2, <2>2
<1>7. QED
  BY <1>2, <1>5, <1>6

LEMMA SharingStep ==
    ASSUME TypeOK, StoredOK, Change, SharingBeginsFreely
    PROVE  SharingBeginsFreely'
<1>1. SUFFICES ASSUME NEW i \in Id, (Exists(i))'
               PROVE  Pairs(secret'[i].owner, secret'[i].sharedWith) \subseteq freely'
  BY DEF SharingBeginsFreely, Existing, Exists, Pairs
<1>2. CASE Inserted(i)
  BY <1>2 DEF Inserted
<1>3. CASE Rewritten(i)
  BY <1>1, <1>3 DEF Rewritten, Change, SharingBeginsFreely, Existing, Exists
<1>4. QED
  BY <1>1, <1>2, <1>3 DEF Change

------------------------------------------------------------------------------
(* What requests know. *)

Untouched(q) ==
    /\ pc'[q] = pc[q] /\ job'[q] = job[q] /\ free'[q] = free[q] /\ saw'[q] = saw[q]
    /\ found'[q] = found[q] /\ looked'[q] = looked[q]
    /\ q \in late => q \in late'

Ended(q) == pc'[q] = "idle" /\ job'[q] = NoJob /\ saw'[q] = None /\ looked'[q] = 0

LEMMA EndedOK ==
    ASSUME NEW q, Ended(q), born' \in Nat
    PROVE  ReqOK(q)'
  BY DEF Ended, NoJob, ReqOK, JobOK, OwnerOK, NestOK, KeyOK, ShareOK, LateOK, Creating

\* Whatever a step writes, it spoils nothing for the requests that do not take it.
LEMMA OthersKnow ==
    ASSUME TypeOK, StoredOK, Change, NEW q \in Req, ReqOK(q), Untouched(q)
    PROVE  ReqOK(q)'
<1>1. born \in Nat /\ born' \in Nat /\ born <= born' /\ looked[q] \in Nat /\ JobOK(q)
  BY SecretsAssumption DEF TypeOK, Change, ReqOK
<1>2. JobOK(q)'
  BY <1>1 DEF Untouched, JobOK
<1>3. ASSUME NEW i \in 1..born, secret'[i] # None
      PROVE  Rewritten(i)
  <2>1. i \in Id /\ i <= born
    BY SecretsAssumption DEF TypeOK, Id
  <2>2. QED
    BY <1>3, <2>1, OldAndNew DEF Exists
<1>4. OwnerOK(q)'
  <2>1. ASSUME pc[q] \in {"exists", "overwrite"}, secret'[found[q]] # None
        PROVE  /\ secret'[found[q]].owner = job[q].user
               /\ secret'[found[q]].key = job[q].key
    BY <2>1, <1>1, <1>3 DEF Rewritten, ReqOK, OwnerOK, JobOK
  <2>2. QED
    BY <1>1, <1>3, <2>1 DEF Untouched, ReqOK, OwnerOK, JobOK, Rewritten, Exists
<1>5. NestOK(q)'
  BY <1>1, <1>3 DEF Untouched, ReqOK, NestOK, JobOK, Creating, Rewritten, Exists, Change
<1>6. KeyOK(q)'
  <2>1. SUFFICES ASSUME pc[q] = "insert", NEW i \in Id, (Exists(i))', i <= looked[q]
                 PROVE  ~(secret'[i].owner = job[q].user /\ secret'[i].key = job[q].key)
    BY DEF Untouched, KeyOK, Existing, Exists
  <2>2. Rewritten(i)
    BY <1>1, <1>3, <2>1 DEF Exists, Id, JobOK
  <2>3. QED
    BY <2>1, <2>2 DEF ReqOK, KeyOK, Rewritten, Existing, Exists
<1>7. ShareOK(q)'
  BY DEF Untouched, ReqOK, ShareOK, Targets, Pairs, Change
<1>8. LateOK(q)'
  <2>1. SUFFICES ASSUME saw[q] # None, ~saw[q].hidden, secret'[job[q].id] # None,
                        secret'[job[q].id].hidden
                 PROVE  q \in late'
    BY DEF Untouched, LateOK, Exists
  <2>2. Rewritten(job[q].id)
    BY <1>1, <1>3, <2>1 DEF JobOK
  <2>3. q \in HoldersOf(job[q].id) /\ pc'[q] # "idle"
    BY <1>1, <2>1 DEF HoldersOf, Untouched, JobOK
  <2>4. QED
    BY <2>1, <2>2, <2>3 DEF Rewritten, Untouched, ReqOK, LateOK, Exists
<1>9. QED
  BY <1>2, <1>4, <1>5, <1>6, <1>7, <1>8 DEF ReqOK

\* What the request that takes the step knows afterwards.

LEMMA EndKnows ==
    ASSUME TypeOK, NEW r \in Req, End(r), born' \in Nat
    PROVE  ReqOK(r)'
<1>1. Ended(r)
  BY DEF TypeOK, End, Goto, Ended
<1>2. QED
  BY <1>1, EndedOK

LEMMA ArriveKnows ==
    ASSUME TypeOK, NEW r \in Req, ReqOK(r), NEW what, NEW first \in {"user", "read"},
           Arrive(r, what, first),
           what.user \in User, what.op \in {"create", "update", "hide", "delete"},
           first = "read" <=> what.op = "update",
           what.op = "create" => what.key \in Key /\ what.parent \in 1..born \cup {None},
           what.op # "create" => what.id \in 1..born,
           what.op = "update" => what.parent \in 1..born \cup {None, Unset}
    PROVE  ReqOK(r)'
<1>1. /\ pc'[r] = first /\ job'[r] = what /\ saw'[r] = None
      /\ UNCHANGED <<born, looked>> /\ looked[r] <= born
  BY DEF TypeOK, Arrive, ReqOK, JobOK, local, stored
<1>2. QED
  BY <1>1 DEF ReqOK, JobOK, OwnerOK, NestOK, KeyOK, ShareOK, LateOK, Creating

LEMMA AskKnows ==
    ASSUME TypeOK, NEW r \in Req, ReqOK(r),
           AskCreate(r) \/ AskUpdate(r) \/ AskHide(r) \/ AskDelete(r)
    PROVE  ReqOK(r)'
<1>1. CASE AskCreate(r)
  <2>1. PICK u \in User, k \in Key, p \in 1..born \cup {None}, list \in Wanted :
          Arrive(r, [NoJob EXCEPT !.op = "create", !.user = u, !.key = k, !.parent = p,
                                  !.lists = TRUE, !.sharedWith = list], "user")
    BY <1>1 DEF AskCreate
  <2>2. QED
    BY <2>1, ArriveKnows DEF NoJob
<1>2. CASE AskUpdate(r)
  <2>1. PICK u \in User, i \in 1..born, p \in 1..born \cup {None, Unset},
             h \in {"unset", "yes", "no"}, lists \in BOOLEAN :
          \E list \in IF lists THEN Wanted ELSE {{}}, telegram \in {FALSE, (u \in Telegram)} :
            Arrive(r, [NoJob EXCEPT !.op = "update", !.user = u, !.id = i, !.parent = p,
                                    !.hidden = h, !.lists = lists, !.sharedWith = list,
                                    !.byTelegram = telegram], "read")
    BY <1>2 DEF AskUpdate
  <2>2. QED
    BY <2>1, ArriveKnows DEF NoJob
<1>3. CASE AskHide(r) \/ AskDelete(r)
  <2>1. PICK op \in {"hide", "delete"}, u \in User, i \in 1..born :
          Arrive(r, [NoJob EXCEPT !.op = op, !.user = u, !.id = i], "user")
    BY <1>3 DEF AskHide, AskDelete
  <2>2. QED
    BY <2>1, ArriveKnows DEF NoJob
<1>4. QED
  BY <1>1, <1>2, <1>3

\* The steps between the checks change nothing that other facts depend on.
LEMMA FindUserKnows ==
    ASSUME TypeOK, NEW r \in Req, ReqOK(r), FindUser(r)
    PROVE  ReqOK(r)'
<1>1. born \in Nat
  BY DEF TypeOK
<1>2. CASE Refuse(r)
  BY <1>1, <1>2, EndKnows DEF Refuse, stored
<1>3. CASE ~Refuse(r)
  <2>1. /\ pc[r] = "user" /\ job[r].op # "update"
        /\ UNCHANGED <<stored, job, saw, found, looked, history>>
    BY <1>3 DEF FindUser, Admit, local
  <2>2. \/ job[r].op \in {"hide", "delete"} /\ pc'[r] = "own"
        \/ job[r].op = "create" /\ pc'[r] = "validate"
        \/ job[r].op = "create" /\ job[r].parent # None /\ pc'[r] = "parent"
             /\ (free'[r] \/ Targets(r) = {})
        \/ job[r].op = "create" /\ job[r].parent = None /\ pc'[r] = "lookup"
             /\ (free'[r] \/ Targets(r) = {})
    BY <1>3 DEF TypeOK, FindUser, Admit, Goto, AfterShares
  <2>3. JobOK(r)' /\ OwnerOK(r)'
    BY <2>1, <2>2 DEF ReqOK, JobOK, OwnerOK, Creating, Exists, stored
  <2>4. NestOK(r)' /\ KeyOK(r)' /\ LateOK(r)'
    BY <2>1, <2>2 DEF ReqOK, NestOK, KeyOK, LateOK, Exists, stored, history
  <2>5. ShareOK(r)'
    BY <2>1, <2>2 DEF ShareOK, Targets, Pairs, Creating
  <2>6. QED
    BY <2>3, <2>4, <2>5 DEF ReqOK
<1>4. QED
  BY <1>2, <1>3

LEMMA FindUpdaterKnows ==
    ASSUME TypeOK, NEW r \in Req, ReqOK(r), FindUpdater(r)
    PROVE  ReqOK(r)'
<1>1. born \in Nat
  BY DEF TypeOK
<1>2. CASE Refuse(r)
  BY <1>1, <1>2, EndKnows DEF Refuse, stored
<1>3. CASE ~Refuse(r)
  <2>1. /\ pc[r] = "user" /\ job[r].op = "update"
        /\ job[r].byTelegram \/ saw[r].owner = job[r].user
        /\ UNCHANGED <<stored, job, saw, found, looked, history>>
    BY <1>3 DEF FindUpdater, Admit
  <2>2. \/ pc'[r] = "validate"
        \/ pc'[r] = "store" /\ (free'[r] \/ Targets(r) = {})
    BY <1>3, <2>1 DEF TypeOK, FindUpdater, Admit, Goto, AfterShares
  <2>3. JobOK(r)' /\ OwnerOK(r)'
    BY <2>1, <2>2 DEF ReqOK, JobOK, OwnerOK, Creating, Exists, stored
  <2>4. NestOK(r)' /\ KeyOK(r)' /\ LateOK(r)'
    BY <2>1, <2>2 DEF ReqOK, NestOK, KeyOK, LateOK, Exists, stored, history
  <2>5. ShareOK(r)'
    BY <2>1, <2>2 DEF ShareOK, Targets, Pairs, Creating
  <2>6. QED
    BY <2>3, <2>4, <2>5 DEF ReqOK
<1>4. QED
  BY <1>2, <1>3

\* Everyone a restricted user may share with shares with it.
LEMMA MayShareIsOpen ==
    ASSUME SharingBeginsFreely, NEW u, NEW targets, MayShare(u, targets)
    PROVE  Pairs(u, targets) \subseteq freely
<1>1. SUFFICES ASSUME NEW w \in targets
               PROVE  {u, w} \in freely
  BY DEF Pairs
<1>2. PICK i \in Existing : u \in secret[i].sharedWith /\ w = secret[i].owner
  BY DEF MayShare, SharersWith
<1>3. {w, u} \in freely
  BY <1>2 DEF SharingBeginsFreely, Pairs
<1>4. {w, u} = {u, w}
  OBVIOUS
<1>5. QED
  BY <1>3, <1>4

LEMMA ValidateKnows ==
    ASSUME TypeOK, SharingBeginsFreely, NEW r \in Req, ReqOK(r), ValidateSharingRestrictions(r)
    PROVE  ReqOK(r)'
<1>1. born \in Nat
  BY DEF TypeOK
<1>2. CASE Refuse(r)
  BY <1>1, <1>2, EndKnows DEF Refuse, stored
<1>3. CASE ~Refuse(r)
  <2>1. /\ pc[r] = "validate" /\ MayShare(job[r].user, Targets(r))
        /\ UNCHANGED <<stored, job, local, history>>
    BY <1>3 DEF ValidateSharingRestrictions
  <2>2. \/ job[r].op = "update" /\ pc'[r] = "store"
        \/ job[r].op = "create" /\ job[r].parent # None /\ pc'[r] = "parent"
        \/ job[r].op = "create" /\ job[r].parent = None /\ pc'[r] = "lookup"
    BY <1>3 DEF TypeOK, ValidateSharingRestrictions, Goto, AfterShares, ReqOK, JobOK
  <2>3. JobOK(r)' /\ OwnerOK(r)'
    BY <2>1, <2>2 DEF ReqOK, JobOK, OwnerOK, Creating, Exists, stored, local
  <2>4. NestOK(r)' /\ KeyOK(r)' /\ LateOK(r)'
    BY <2>1, <2>2 DEF ReqOK, NestOK, KeyOK, LateOK, Exists, stored, local, history
  <2>5. ShareOK(r)'
    BY <2>1, MayShareIsOpen DEF ShareOK, Targets, Pairs, history
  <2>6. QED
    BY <2>3, <2>4, <2>5 DEF ReqOK
<1>4. QED
  BY <1>2, <1>3

LEMMA CheckParentKnows ==
    ASSUME TypeOK, NEW r \in Req, ReqOK(r), CheckParent(r)
    PROVE  ReqOK(r)'
<1>1. born \in Nat
  BY DEF TypeOK
<1>2. CASE Refuse(r)
  BY <1>1, <1>2, EndKnows DEF Refuse, stored
<1>3. CASE ~Refuse(r)
  <2>1. /\ pc[r] = "parent" /\ pc'[r] = "lookup" /\ IsTop(job[r].parent)
        /\ UNCHANGED <<stored, job, local, history>>
    BY <1>3 DEF TypeOK, CheckParent, Goto
  <2>2. JobOK(r)' /\ OwnerOK(r)' /\ KeyOK(r)'
    BY <2>1 DEF ReqOK, JobOK, OwnerOK, KeyOK, Creating, Exists, stored, local
  <2>3. NestOK(r)'
    BY <2>1 DEF NestOK, IsTop, stored
  <2>4. LateOK(r)' /\ ShareOK(r)'
    BY <2>1 DEF ReqOK, LateOK, ShareOK, Exists, Targets, Pairs, Creating, stored, local, history
  <2>5. QED
    BY <2>2, <2>3, <2>4 DEF ReqOK
<1>4. QED
  BY <1>2, <1>3

LEMMA LookUpKnows ==
    ASSUME TypeOK, StoredOK, NEW r \in Req, ReqOK(r), LookUpKey(r)
    PROVE  ReqOK(r)'
<1> DEFINE same == Keyed(job[r].user, job[r].key)
<1>1. /\ pc[r] = "lookup" /\ looked'[r] = born /\ born \in Nat
      /\ UNCHANGED <<stored, job, free, saw, history>>
  BY DEF TypeOK, LookUpKey
<1>2. LateOK(r)' /\ ShareOK(r)'
  BY <1>1 DEF ReqOK, JobOK, LateOK, ShareOK, Exists, Targets, Pairs, Creating, stored, history
<1>3. saw[r] = None
  BY <1>1 DEF ReqOK, JobOK
<1>4. CASE same = {} /\ pc'[r] = "insert"
  <2>1. JobOK(r)' /\ OwnerOK(r)' /\ NestOK(r)'
    BY <1>1, <1>3, <1>4 DEF ReqOK, JobOK, OwnerOK, NestOK, Creating, Exists, stored, history
  <2>2. KeyOK(r)'
    BY <1>1, <1>4 DEF KeyOK, Keyed, Existing, stored
  <2>3. QED
    BY <1>2, <2>1, <2>2 DEF ReqOK
<1>5. CASE \E i \in same : found'[r] = i /\ pc'[r] = "exists"
  <2>1. PICK i \in same : found'[r] = i /\ pc'[r] = "exists"
    BY <1>5
  <2>2. i \in Existing /\ secret[i].owner = job[r].user /\ secret[i].key = job[r].key
    BY DEF Keyed
  <2>3. i \in 1..born
    BY <1>1, <2>2, SecretsAssumption DEF StoredOK, Existing, Id
  <2>4. JobOK(r)' /\ OwnerOK(r)' /\ NestOK(r)' /\ KeyOK(r)'
    BY <1>1, <1>3, <2>1, <2>2, <2>3
    DEF ReqOK, JobOK, OwnerOK, NestOK, KeyOK, Creating, Exists, stored, history
  <2>5. QED
    BY <1>2, <2>4 DEF ReqOK
<1>6. QED
  BY <1>4, <1>5 DEF TypeOK, LookUpKey, Goto

LEMMA VerifyKnows ==
    ASSUME TypeOK, NEW r \in Req, ReqOK(r), VerifyPasswordExists(r)
    PROVE  ReqOK(r)'
<1>1. born \in Nat
  BY DEF TypeOK
<1>2. CASE Refuse(r)
  BY <1>1, <1>2, EndKnows DEF Refuse, stored
<1>3. CASE ~Refuse(r)
  <2>1. /\ pc[r] = "exists" /\ pc'[r] = "overwrite"
        /\ UNCHANGED <<stored, job, local, history>>
    BY <1>3 DEF TypeOK, VerifyPasswordExists, Goto
  <2>2. JobOK(r)' /\ OwnerOK(r)' /\ KeyOK(r)' /\ NestOK(r)'
    BY <2>1
    DEF ReqOK, JobOK, OwnerOK, KeyOK, NestOK, Creating, Exists, stored, local, history
  <2>3. LateOK(r)' /\ ShareOK(r)'
    BY <2>1 DEF ReqOK, LateOK, ShareOK, Exists, Targets, Pairs, Creating, stored, local, history
  <2>4. QED
    BY <2>2, <2>3 DEF ReqOK
<1>4. QED
  BY <1>2, <1>3

LEMMA ReadKnows ==
    ASSUME TypeOK, NEW r \in Req, ReqOK(r), ReadSecret(r)
    PROVE  ReqOK(r)'
<1>1. born \in Nat
  BY DEF TypeOK
<1>2. CASE Refuse(r)
  BY <1>1, <1>2, EndKnows DEF Refuse, stored
<1>3. CASE ~Refuse(r)
  <2>1. /\ pc[r] = "read" /\ pc'[r] = "user"
        /\ saw'[r] = [owner |-> secret[job[r].id].owner, hidden |-> secret[job[r].id].hidden]
        /\ UNCHANGED <<stored, job, free, found, looked, history>>
    BY <1>3 DEF TypeOK, ReadSecret, Goto
  <2>2. saw'[r] # None
    <3>1. job[r].id \in Id /\ Exists(job[r].id)
      BY <1>3, SecretsAssumption DEF ReadSecret, TypeOK, Id, ReqOK, JobOK
    <3>2. saw'[r] \in [owner : User, hidden : BOOLEAN]
      BY <2>1, <3>1 DEF TypeOK, Password, Exists
    <3>3. QED
      BY <3>2, SecretsAssumption
  <2>3. JobOK(r)'
    BY <2>1, <2>2 DEF ReqOK, JobOK, Creating, stored
  <2>4. OwnerOK(r)' /\ KeyOK(r)' /\ NestOK(r)' /\ LateOK(r)' /\ ShareOK(r)'
    BY <2>1 DEF OwnerOK, KeyOK, NestOK, LateOK, ShareOK, Creating, Exists, stored
  <2>5. QED
    BY <2>3, <2>4 DEF ReqOK
<1>4. QED
  BY <1>2, <1>3

LEMMA CheckOwnerKnows ==
    ASSUME TypeOK, NEW r \in Req, ReqOK(r), CheckOwner(r)
    PROVE  ReqOK(r)'
<1>1. born \in Nat
  BY DEF TypeOK
<1>2. CASE Refuse(r)
  BY <1>1, <1>2, EndKnows DEF Refuse, stored
<1>3. CASE ~Refuse(r)
  <2>1. /\ pc[r] = "own" /\ pc'[r] = "store"
        /\ UNCHANGED <<stored, job, local, history>>
    BY <1>3 DEF TypeOK, CheckOwner, Goto
  <2>2. QED
    BY <2>1
    DEF ReqOK, JobOK, OwnerOK, KeyOK, NestOK, LateOK, ShareOK, Creating, Exists, stored, local,
        history
<1>4. QED
  BY <1>2, <1>3

LEMMA StoresEnd ==
    ASSUME NEW r \in Req, Insert(r) \/ Overwrite(r) \/ Store(r)
    PROVE  End(r)
  BY DEF Insert, Overwrite, Store, Patch, Hide, Delete, Refuse

LEMMA ActorKnows ==
    ASSUME IInv, Change, NEW r \in Req, Step(r)
    PROVE  ReqOK(r)'
<1>1. TypeOK /\ StoredOK /\ SharingBeginsFreely /\ ReqOK(r) /\ born' \in Nat
  BY DEF IInv, Change
<1>2. CASE Insert(r) \/ Overwrite(r) \/ Store(r)
  BY <1>1, <1>2, StoresEnd, EndKnows
<1>3. CASE ~(Insert(r) \/ Overwrite(r) \/ Store(r))
  BY <1>1, <1>3, AskKnows, FindUserKnows, FindUpdaterKnows, ValidateKnows, CheckParentKnows,
     LookUpKnows,
     VerifyKnows, ReadKnows, CheckOwnerKnows DEF Step
<1>4. QED
  BY <1>2, <1>3

\* A request that does not take the step keeps its state.
LEMMA OthersUntouched ==
    ASSUME TypeOK, NEW r \in Req, Step(r), NEW q \in Req, q # r
    PROVE  Untouched(q)
<1>1. CASE AskCreate(r) \/ AskUpdate(r) \/ AskHide(r) \/ AskDelete(r)
  <2>1. PICK what, first : Arrive(r, what, first)
    BY <1>1 DEF AskCreate, AskUpdate, AskHide, AskDelete
  <2>2. QED
    BY <2>1 DEF TypeOK, Arrive, Untouched, local
<1>2. CASE End(r) /\ ~(AskCreate(r) \/ AskUpdate(r) \/ AskHide(r) \/ AskDelete(r))
  <2>1. CASE Insert(r) \/ Overwrite(r) \/ Store(r)
    <3>1. late \subseteq late'
      BY <2>1 DEF Insert, Overwrite, Store, Patch, Hide, Delete, Refuse, Hidden, history
    <3>2. QED
      BY <1>2, <3>1 DEF TypeOK, End, Goto, Untouched
  <2>2. CASE ~(Insert(r) \/ Overwrite(r) \/ Store(r))
    <3>1. UNCHANGED history
      BY <1>2, <2>2
      DEF Step, FindUser, FindUpdater, Admit, ValidateSharingRestrictions, CheckParent, LookUpKey,
          VerifyPasswordExists, ReadSecret, CheckOwner, Refuse
    <3>2. QED
      BY <1>2, <3>1 DEF TypeOK, End, Goto, Untouched, history
  <2>3. QED
    BY <2>1, <2>2
<1>3. CASE ~End(r) /\ ~(AskCreate(r) \/ AskUpdate(r) \/ AskHide(r) \/ AskDelete(r))
  <2>1. \/ FindUser(r) \/ FindUpdater(r) \/ ValidateSharingRestrictions(r) \/ CheckParent(r)
        \/ LookUpKey(r)
        \/ VerifyPasswordExists(r) \/ ReadSecret(r) \/ CheckOwner(r)
    BY <1>3, StoresEnd DEF Step
  <2>2. pc'[q] = pc[q] /\ UNCHANGED <<job, history>>
    BY <1>3, <2>1
    DEF TypeOK, Goto, Refuse, FindUser, FindUpdater, Admit, ValidateSharingRestrictions,
        CheckParent, LookUpKey,
        VerifyPasswordExists, ReadSecret, CheckOwner
  <2>3. free'[q] = free[q] /\ saw'[q] = saw[q] /\ looked'[q] = looked[q]
    BY <1>3, <2>1
    DEF TypeOK, Refuse, FindUser, FindUpdater, Admit, ValidateSharingRestrictions, CheckParent,
        LookUpKey,
        VerifyPasswordExists, ReadSecret, CheckOwner, local
  <2>4. found'[q] = found[q]
    BY <1>3, <2>1
    DEF TypeOK, Refuse, FindUser, FindUpdater, Admit, ValidateSharingRestrictions, CheckParent,
        LookUpKey,
        VerifyPasswordExists, ReadSecret, CheckOwner, local
  <2>5. QED
    BY <2>2, <2>3, <2>4 DEF Untouched, history
<1>4. QED
  BY <1>1, <1>2, <1>3

LEMMA RequestsStep == IInv /\ [Next]_vars => \A q \in Req : ReqOK(q)'
<1> SUFFICES ASSUME IInv, [Next]_vars, NEW q \in Req
             PROVE  ReqOK(q)'
  OBVIOUS
<1>1. TypeOK /\ StoredOK /\ ReqOK(q) /\ Change
  BY ChangeStep DEF IInv
<1>2. ASSUME NEW r \in Req, Step(r)
      PROVE  ReqOK(q)'
  BY <1>1, <1>2, ActorKnows, OthersUntouched, OthersKnow
<1>3. CASE \/ \E i \in Id : DeleteById(i)
           \/ \E u \in User : Administer(u)
           \/ UNCHANGED vars \/ AllAnswered
  <2>1. Untouched(q)
    BY <1>3 DEF AllAnswered, DeleteById, Administer, vars, local, history, Untouched
  <2>2. QED
    BY <1>1, <2>1, OthersKnow
<1>4. QED
  BY <1>2, <1>3 DEF Next

------------------------------------------------------------------------------
(* Theorems. *)

\* Everything together: what requests know of secrets and recipients holds until they store.
THEOREM SecretsInvariant == Spec => []IInv
<1>1. IInv /\ [Next]_vars => IInv'
  <2> SUFFICES ASSUME IInv, [Next]_vars PROVE IInv'
    OBVIOUS
  <2>1. TypeOK' /\ Change /\ \A q \in Req : ReqOK(q)'
    BY TypeStep, ChangeStep, RequestsStep
  <2>2. StoredOK' /\ NestedOnlyByUpdates' /\ DuplicatesRaced' /\ SharingBeginsFreely'
    BY <2>1, StoredStep, NestedStep, DuplicatesStep, SharingStep DEF IInv
  <2>3. QED
    BY <2>1, <2>2 DEF IInv
<1>2. QED
  BY <1>1, InitIInv, PTL DEF Spec

\* Every variable keeps its type.
THEOREM TypeCorrect == Spec => []TypeOK
<1>1. IInv => TypeOK
  BY DEF IInv
<1>2. QED
  BY <1>1, SecretsInvariant, PTL

\* For any number of users, secrets and requests, a secret three levels deep is the work of an
\* update: POST checks its parent, and no interleaving defeats the check.
THEOREM NestedOnlyByUpdatesHolds == Spec => []NestedOnlyByUpdates
<1>1. IInv => NestedOnlyByUpdates
  BY DEF IInv
<1>2. QED
  BY <1>1, SecretsInvariant, PTL

\* Two secrets of a user share a key only if their creations overlapped.
THEOREM DuplicatesRacedHolds == Spec => []DuplicatesRaced
<1>1. IInv => DuplicatesRaced
  BY DEF IInv
<1>2. QED
  BY <1>1, SecretsInvariant, PTL

\* Whoever shares with whom, it was begun by the secret's owner, unrestricted at the time, or by
\* an update of somebody else who came by Telegram.
THEOREM SharingBeginsFreelyHolds == Spec => []SharingBeginsFreely
<1>1. IInv => SharingBeginsFreely
  BY DEF IInv
<1>2. QED
  BY <1>1, SecretsInvariant, PTL

\* No update or hide, however late, brings a deleted secret back.
THEOREM DeletedStaysDeletedHolds == Spec => DeletedStaysDeleted
<1>1. IInv /\ [Next]_vars => [\A i \in 1..born : ~Exists(i) => ~Exists(i)']_vars
  <2> SUFFICES ASSUME IInv, [Next]_vars, NEW i \in 1..born, ~Exists(i)
               PROVE  ~(Exists(i))'
    OBVIOUS
  <2>1. i \in Id /\ i <= born
    BY SecretsAssumption DEF IInv, TypeOK, Id
  <2>2. TypeOK /\ StoredOK /\ Change
    BY ChangeStep DEF IInv
  <2>3. QED
    BY <2>1, <2>2, OldAndNew DEF Rewritten
<1>2. QED
  BY <1>1, SecretsInvariant, PTL DEF Spec, DeletedStaysDeleted

\* What shows a hidden secret again.
Shows(r, i) ==
    /\ pc[r] \in {"store", "overwrite"} /\ pc'[r] = "idle"
    /\ job[r].user = secret[i].owner \/ job[r].byTelegram
    /\ job[r].op = "create" \/ job[r].hidden = "no" \/ r \in late

LEMMA OverwriteShows ==
    ASSUME TypeOK, NEW r \in Req, ReqOK(r), Overwrite(r), NEW i \in Id, Exists(i),
           secret[i].hidden, (Exists(i))', ~secret'[i].hidden
    PROVE  Shows(r, i)
<1>1. pc[r] = "overwrite" /\ pc'[r] = "idle" /\ job[r].op = "create"
  BY DEF TypeOK, Overwrite, Refuse, End, Goto, ReqOK, JobOK, Creating
<1>2. i = found[r]
  BY DEF TypeOK, Overwrite, Refuse, stored
<1>3. QED
  BY <1>1, <1>2 DEF Shows, ReqOK, OwnerOK

LEMMA PatchShows ==
    ASSUME TypeOK, NEW r \in Req, ReqOK(r), pc[r] = "store", job[r].op = "update", Patch(r),
           NEW i \in Id, Exists(i), secret[i].hidden, (Exists(i))', ~secret'[i].hidden
    PROVE  Shows(r, i)
<1>1. pc'[r] = "idle"
  BY DEF TypeOK, Patch, Refuse, End, Goto
<1>2. i = job[r].id /\ secret' = [secret EXCEPT ![i] = Patched(secret[i], r)]
  BY DEF TypeOK, Patch, Refuse, stored
<1>3. secret[i] \in Password
  BY DEF TypeOK, Exists
<1>4. secret'[i].hidden = HiddenAfter(r)
  BY <1>2, <1>3 DEF TypeOK, Patched, Password
<1>5. saw[r] # None /\ job[r].hidden \in {"unset", "yes", "no"}
  BY DEF TypeOK, ReqOK, JobOK, Job
<1>6. job[r].hidden = "no" \/ ~saw[r].hidden
  BY <1>4, <1>5 DEF HiddenAfter
<1>7. job[r].user = secret[i].owner \/ job[r].byTelegram
  BY <1>2, <1>5 DEF ReqOK, OwnerOK
<1>8. QED
  BY <1>1, <1>2, <1>5, <1>6, <1>7 DEF Shows, ReqOK, LateOK

LEMMA StepShows ==
    ASSUME IInv, [Next]_vars, NEW i \in Existing, secret[i].hidden, (Exists(i))',
           ~secret'[i].hidden
    PROVE  \E r \in Req : Shows(r, i)
<1>1. TypeOK /\ StoredOK /\ (\A r \in Req : ReqOK(r)) /\ i \in Id /\ Exists(i) /\ i <= born
  BY DEF IInv, StoredOK, Existing, Exists
<1>2. secret'[i] # secret[i] /\ secret'[i] # None
  BY DEF Exists
<1>3. ASSUME NEW r \in Req, Step(r)
      PROVE  Shows(r, i)
  <2>1. CASE Overwrite(r)
    BY <1>1, <2>1, OverwriteShows
  <2>2. CASE Insert(r)
    BY <1>1, <1>2, <2>2, SecretsAssumption DEF TypeOK, Insert, Id
  <2>3. CASE Store(r)
    <3>1. pc[r] = "store"
      BY <2>3 DEF Store
    <3>2. CASE job[r].op = "update"
      BY <1>1, <2>3, <3>1, <3>2, PatchShows DEF Store
    <3>3. CASE job[r].op = "hide"
      <4>1. Hide(r)
        BY <2>3, <3>3 DEF Store
      <4>2. secret[i] \in Password
        BY <1>1 DEF TypeOK, Exists
      <4>3. QED
        BY <1>1, <1>2, <4>1, <4>2 DEF TypeOK, Hide, Refuse, stored, Password
    <3>4. CASE job[r].op \notin {"update", "hide"}
      BY <1>1, <1>2, <2>3, <3>4 DEF TypeOK, Store, Delete, Remove
    <3>5. QED
      BY <3>2, <3>3, <3>4
  <2>4. CASE ~(Insert(r) \/ Overwrite(r) \/ Store(r))
    <3>1. secret' = secret
      BY <1>3, <2>4
      DEF Step, AskCreate, AskUpdate, AskHide, AskDelete, Arrive, FindUser, FindUpdater, Admit,
          CheckParent,
          ValidateSharingRestrictions, LookUpKey, VerifyPasswordExists, ReadSecret, CheckOwner,
          Refuse, stored
    <3>2. QED
      BY <1>2, <3>1
  <2>5. QED
    BY <2>1, <2>2, <2>3, <2>4
<1>4. ASSUME \/ \E j \in Id : DeleteById(j)
             \/ \E u \in User : Administer(u)
             \/ UNCHANGED vars \/ AllAnswered
      PROVE  FALSE
  BY <1>1, <1>2, <1>4 DEF AllAnswered, TypeOK, DeleteById, Remove, Administer, vars, stored
<1>5. QED
  BY <1>3, <1>4 DEF Next

\* "Maintain hidden field": an update that read the secret after it was hidden keeps it hidden
\* unless it says otherwise.
THEOREM HiddenIsMaintainedHolds == Spec => HiddenIsMaintained
<1>1. IInv /\ [Next]_vars =>
        [\A i \in Existing : secret[i].hidden /\ Exists(i)' /\ ~secret'[i].hidden =>
            \E r \in Req : /\ pc[r] \in {"store", "overwrite"} /\ pc'[r] = "idle"
                           /\ job[r].user = secret[i].owner \/ job[r].byTelegram
                           /\ \/ job[r].op = "create"
                              \/ job[r].hidden = "no"
                              \/ r \in late]_vars
  BY StepShows DEF Shows
<1>2. QED
  BY <1>1, SecretsInvariant, PTL DEF Spec, HiddenIsMaintained
================================================================================
