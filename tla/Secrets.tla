-------------------------------- MODULE Secrets --------------------------------
(***************************************************************************)
(* The life of a secret: POST /passwords (create, or update by key),       *)
(* PATCH /passwords/:id, PATCH /passwords/hide/:id, DELETE                 *)
(* /passwords/owner/:id and DELETE /passwords/:id, as requests whose       *)
(* database operations interleave.  A name and a wallet stand for the      *)
(* account that has them.                                                  *)
(***************************************************************************)
EXTENDS Naturals, FiniteSets

CONSTANTS
    User,
    Wallet,    \* the address each user signs with, or None
    Telegram,  \* users whose requests may come with Telegram's init data, not a token
    Key,
    Wanted,    \* the lists of recipients a request may carry
    Req,       \* the requests in progress at a time
    MaxSecrets, MaxRequests, MaxAdmin, \* bounds: secrets stored, requests, acts of an admin
    None, Unset

Id == 1..MaxSecrets

ASSUME SecretsAssumption ==
    /\ MaxSecrets \in Nat /\ MaxRequests \in Nat /\ MaxAdmin \in Nat
    /\ None \notin Nat /\ Unset \notin Nat /\ None # Unset
    /\ Wanted \subseteq SUBSET User /\ Telegram \subseteq User
    /\ None \notin User \cup [owner : User, hidden : BOOLEAN]

VARIABLES
    secret,      \* the collection passwords: a document or None for every id
    born,        \* the ids given out are 1..born
    active, restricted, \* users.isActive and users.sharingRestricted
    pc, job,     \* of each request: where it is, and what was asked
    free,        \* the request read its user as unrestricted
    saw,         \* the secret as an update read it, or None
    found,       \* the secret a create found under its key, or None
    looked,      \* born when it looked
    adopted,     \* history: secrets that were given a parent after their creation
    lookedFor,   \* history: looked of the request that created a secret
    freely,      \* history: pairs opened by an unrestricted owner, or by another user
    late,        \* history: updates whose secret was hidden after they read it
    requests, admin \* the bounded counts

stored   == <<secret, born>>
accounts == <<active, restricted>>
local    == <<free, saw, found, looked>>
history  == <<adopted, lookedFor, freely, late>>
bounds   == <<requests, admin>>
vars     == <<stored, accounts, pc, job, local, history, bounds>>

Password == [owner : User, key : Key, parent : Id \cup {None}, hidden : BOOLEAN,
             sharedWith : SUBSET User]
Ops   == {"none", "create", "update", "hide", "delete"}
Steps == {"idle", "user", "validate", "parent", "lookup", "exists", "overwrite", "insert",
          "read", "own", "store"}
Job == [op : Ops, user : User \cup {None}, id : Id \cup {None}, key : Key \cup {None},
        parent : Id \cup {None, Unset}, hidden : {"unset", "yes", "no"},
        lists : BOOLEAN, sharedWith : SUBSET User, \* lists: the body has a field sharedWith
        byTelegram : BOOLEAN]                      \* of an update: or by a token
NoJob == [op |-> "none", user |-> None, id |-> None, key |-> None, parent |-> Unset,
          hidden |-> "unset", lists |-> FALSE, sharedWith |-> {}, byTelegram |-> FALSE]

TypeOK ==
    /\ secret \in [Id -> Password \cup {None}]
    /\ born \in 0..MaxSecrets
    /\ active \in [User -> BOOLEAN] /\ restricted \in [User -> BOOLEAN]
    /\ pc \in [Req -> Steps]
    /\ job \in [Req -> Job]
    /\ free \in [Req -> BOOLEAN]
    /\ saw \in [Req -> [owner : User, hidden : BOOLEAN] \cup {None}]
    /\ found \in [Req -> Id \cup {None}]
    /\ looked \in [Req -> 0..MaxSecrets]
    /\ adopted \subseteq Id
    /\ lookedFor \in [Id -> 0..MaxSecrets]
    /\ freely \subseteq SUBSET User
    /\ late \subseteq Req
    /\ requests \in 0..MaxRequests /\ admin \in 0..MaxAdmin

Init ==
    /\ secret = [i \in Id |-> None]
    /\ born = 0
    /\ active = [u \in User |-> TRUE]
    /\ restricted = [u \in User |-> FALSE]
    /\ pc = [r \in Req |-> "idle"]
    /\ job = [r \in Req |-> NoJob]
    /\ free = [r \in Req |-> FALSE]
    /\ saw = [r \in Req |-> None]
    /\ found = [r \in Req |-> None]
    /\ looked = [r \in Req |-> 0]
    /\ adopted = {}
    /\ lookedFor = [i \in Id |-> 0]
    /\ freely = {}
    /\ late = {}
    /\ requests = 0 /\ admin = 0

Exists(i) == secret[i] # None
Existing == {i \in Id : secret[i] # None}

------------------------------------------------------------------------------
(* Requests arrive. *)

Arrive(r, what, first) ==
    /\ pc[r] = "idle" /\ requests < MaxRequests
    /\ job' = [job EXCEPT ![r] = what]
    /\ pc' = [pc EXCEPT ![r] = first]
    /\ late' = late \ {r}
    /\ requests' = requests + 1
    /\ UNCHANGED <<stored, accounts, local, adopted, lookedFor, freely, admin>>

AskCreate(r) == \E u \in User, k \in Key, p \in 1..born \cup {None}, list \in Wanted :
    Arrive(r, [NoJob EXCEPT !.op = "create", !.user = u, !.key = k, !.parent = p,
                            !.lists = TRUE, !.sharedWith = list], "user")

\* The fields of Partial<Password> the operations here depend on.
AskUpdate(r) == \E u \in User, i \in 1..born, p \in 1..born \cup {None, Unset},
                   h \in {"unset", "yes", "no"}, lists \in BOOLEAN :
  \E list \in IF lists THEN Wanted ELSE {{}}, telegram \in {FALSE, (u \in Telegram)} :
    Arrive(r, [NoJob EXCEPT !.op = "update", !.user = u, !.id = i, !.parent = p,
                            !.hidden = h, !.lists = lists, !.sharedWith = list,
                            !.byTelegram = telegram], "read")

AskHide(r) == \E u \in User, i \in 1..born :
    Arrive(r, [NoJob EXCEPT !.op = "hide", !.user = u, !.id = i], "user")

AskDelete(r) == \E u \in User, i \in 1..born :
    Arrive(r, [NoJob EXCEPT !.op = "delete", !.user = u, !.id = i], "user")

Goto(r, to) == pc' = [pc EXCEPT ![r] = to]

\* A request ends, with an answer or an error; nothing of it is left in memory.
End(r) ==
    /\ Goto(r, "idle")
    /\ job' = [job EXCEPT ![r] = NoJob]
    /\ free' = [free EXCEPT ![r] = FALSE]
    /\ saw' = [saw EXCEPT ![r] = None]
    /\ found' = [found EXCEPT ![r] = None]
    /\ looked' = [looked EXCEPT ![r] = 0]

Refuse(r) ==
    /\ End(r)
    /\ UNCHANGED <<stored, accounts, history, bounds>>

\* The recipients of a request, without its user.
Targets(r) == job[r].sharedWith \ {job[r].user}

\* Where a request goes once its recipients are settled.
AfterShares(r) ==
    CASE job[r].op = "update"  -> "store"
      [] job[r].op = "create" /\ job[r].parent # None -> "parent"
      [] OTHER -> "lookup"

\* The account of the request is found active; the recipients of a restricted user are
\* checked before anything else.
Admit(r) ==
    LET u == job[r].user
    IN  /\ active[u]
        /\ free' = [free EXCEPT ![r] = ~restricted[u]]
        /\ IF restricted[u] /\ Targets(r) # {}
           THEN Goto(r, "validate")
           ELSE Goto(r, AfterShares(r))
        /\ UNCHANGED <<stored, accounts, job, saw, found, looked, history, bounds>>

FindUser(r) ==
    /\ pc[r] = "user"
    /\ \/ /\ job[r].op # "update" /\ ~active[job[r].user]
          /\ Refuse(r)
       \/ /\ job[r].op \in {"hide", "delete"} /\ active[job[r].user]
          /\ Goto(r, "own")
          /\ UNCHANGED <<stored, accounts, job, local, history, bounds>>
       \/ /\ job[r].op = "create"
          /\ Admit(r)

\* An update has read its secret before.  With a token its user must be the owner; whoever
\* comes by Telegram need not be.
FindUpdater(r) ==
    LET mayUpdate == job[r].byTelegram \/ saw[r].owner = job[r].user
    IN  /\ pc[r] = "user" /\ job[r].op = "update"
        /\ \/ /\ ~active[job[r].user] \/ ~mayUpdate
              /\ Refuse(r)
           \/ /\ mayUpdate
              /\ Admit(r)

\* Who has shared a secret with u.
SharersWith(u) == {secret[i].owner : i \in {j \in Existing : u \in secret[j].sharedWith}}
\* Variant: one known recipient is enough.
MayShareWithSome(u, targets) == targets \cap SharersWith(u) # {}
MayShare(u, targets) == targets \subseteq SharersWith(u)

ValidateSharingRestrictions(r) ==
    /\ pc[r] = "validate"
    /\ \/ /\ ~MayShare(job[r].user, Targets(r))
          /\ Refuse(r)
       \/ /\ MayShare(job[r].user, Targets(r))
          /\ Goto(r, AfterShares(r))
          /\ UNCHANGED <<stored, accounts, job, local, history, bounds>>

------------------------------------------------------------------------------
(* POST /passwords. *)

IsTop(i) == Exists(i) /\ secret[i].parent = None

\* Variant: any secret will do as a parent.
CheckParentExists(r) ==
    /\ pc[r] = "parent"
    /\ \/ /\ ~Exists(job[r].parent)
          /\ Refuse(r)
       \/ /\ Exists(job[r].parent)
          /\ Goto(r, "lookup")
          /\ UNCHANGED <<stored, accounts, job, local, history, bounds>>

CheckParent(r) ==
    /\ pc[r] = "parent"
    /\ \/ /\ ~IsTop(job[r].parent)
          /\ Refuse(r)
       \/ /\ IsTop(job[r].parent)
          /\ Goto(r, "lookup")
          /\ UNCHANGED <<stored, accounts, job, local, history, bounds>>

\* Variant: hidden secrets are not looked at.
KeyedAndShown(u, k) ==
    {i \in Existing : secret[i].owner = u /\ secret[i].key = k /\ ~secret[i].hidden}
Keyed(u, k) == {i \in Existing : secret[i].owner = u /\ secret[i].key = k}

\* createOrUpdatePassword looks for the key; any one of several is found.
LookUpKey(r) ==
    LET same == Keyed(job[r].user, job[r].key)
    IN  /\ pc[r] = "lookup"
        /\ looked' = [looked EXCEPT ![r] = born]
        /\ \/ /\ same = {}
              /\ Goto(r, "insert")
              /\ UNCHANGED found
           \/ \E i \in same :
              /\ found' = [found EXCEPT ![r] = i]
              /\ Goto(r, "exists")
        /\ UNCHANGED <<stored, accounts, job, free, saw, history, bounds>>

VerifyPasswordExists(r) ==
    /\ pc[r] = "exists"
    /\ \/ /\ ~Exists(found[r])
          /\ Refuse(r)
       \/ /\ Exists(found[r])
          /\ Goto(r, "overwrite")
          /\ UNCHANGED <<stored, accounts, job, local, history, bounds>>

Pairs(u, targets) == {{u, w} : w \in targets}
\* History: the pairs that the stored request opens for the owner of its secret.
Opened(r, owner) ==
    freely' = freely \cup (IF free[r] \/ owner # job[r].user THEN Pairs(owner, Targets(r)) ELSE {})

Insert(r) ==
    LET i == born + 1
    IN  /\ pc[r] = "insert"
        /\ born < MaxSecrets
        /\ born' = i
        /\ secret' = [secret EXCEPT ![i] =
             [owner |-> job[r].user, key |-> job[r].key, parent |-> job[r].parent,
              hidden |-> FALSE, sharedWith |-> Targets(r)]]
        /\ lookedFor' = [lookedFor EXCEPT ![i] = looked[r]]
        /\ Opened(r, job[r].user)
        /\ End(r)
        /\ UNCHANGED <<accounts, adopted, late, bounds>>

\* A parent that is undefined is left out of the update.
Overwritten(s, r) ==
    [s EXCEPT !.key = job[r].key, !.sharedWith = Targets(r), !.hidden = FALSE,
              !.parent = IF job[r].parent = None THEN @ ELSE job[r].parent]

\* The secret may be gone by now: the update then stores nothing and answers with an error.
Overwrite(r) ==
    LET i == found[r]
    IN  /\ pc[r] = "overwrite"
        /\ \/ /\ ~Exists(i)
              /\ Refuse(r)
           \/ /\ Exists(i)
              /\ secret' = [secret EXCEPT ![i] = Overwritten(@, r)]
              /\ adopted' = IF job[r].parent = None THEN adopted ELSE adopted \cup {i}
              /\ Opened(r, job[r].user)
              /\ End(r)
              /\ UNCHANGED <<born, accounts, lookedFor, late, bounds>>

------------------------------------------------------------------------------
(* PATCH /passwords/:id. *)

ReadSecret(r) ==
    LET i == job[r].id
    IN  /\ pc[r] = "read"
        /\ \/ /\ ~Exists(i)
              /\ Refuse(r)
           \/ /\ Exists(i)
              /\ saw' = [saw EXCEPT ![r] = [owner |-> secret[i].owner, hidden |-> secret[i].hidden]]
              /\ Goto(r, "user")
              /\ UNCHANGED <<stored, accounts, job, free, found, looked, history, bounds>>

\* Variant: without a word on hidden the secret is shown.
HiddenIfAsked(r) == job[r].hidden = "yes"
\* Without a word on hidden, the value read is written back.
HiddenAfter(r) ==
    CASE job[r].hidden = "yes" -> TRUE [] job[r].hidden = "no" -> FALSE [] OTHER -> saw[r].hidden

Patched(s, r) ==
    [s EXCEPT !.parent = IF job[r].parent = Unset THEN @ ELSE job[r].parent,
              !.hidden = HiddenAfter(r),
              !.sharedWith = IF job[r].lists THEN Targets(r) ELSE @]

\* History: the updates of i in progress that have read it.
HoldersOf(i) == {r \in Req : saw[r] # None /\ job[r].id = i}
Hidden(i, r) == late' = IF secret[i].hidden THEN late ELSE late \cup (HoldersOf(i) \ {r})

Patch(r) ==
    LET i == job[r].id
    IN  \/ /\ ~Exists(i)
           /\ Refuse(r)
        \/ /\ Exists(i)
           /\ secret' = [secret EXCEPT ![i] = Patched(@, r)]
           /\ adopted' = IF job[r].parent \in {None, Unset} THEN adopted ELSE adopted \cup {i}
           /\ Opened(r, secret[i].owner)
           /\ IF HiddenAfter(r) THEN Hidden(i, r) ELSE late' = late
           /\ End(r)
           /\ UNCHANGED <<born, accounts, lookedFor, bounds>>

------------------------------------------------------------------------------
(* Hiding and deleting. *)

MayHide(r) == secret[job[r].id].owner = job[r].user
MayDelete(r) ==
    LET owner == secret[job[r].id].owner
    IN  Wallet[owner] # None /\ Wallet[job[r].user] = Wallet[owner]

CheckOwner(r) ==
    LET may == Exists(job[r].id) /\ (IF job[r].op = "hide" THEN MayHide(r) ELSE MayDelete(r))
    IN  /\ pc[r] = "own"
        /\ \/ ~may /\ Refuse(r)
           \/ /\ may
              /\ Goto(r, "store")
              /\ UNCHANGED <<stored, accounts, job, local, history, bounds>>

Hide(r) ==
    LET i == job[r].id
    IN  \/ /\ ~Exists(i)
           /\ Refuse(r)
        \/ /\ Exists(i)
           /\ secret' = [secret EXCEPT ![i].hidden = TRUE]
           /\ Hidden(i, r)
           /\ End(r)
           /\ UNCHANGED <<born, accounts, adopted, lookedFor, freely, bounds>>

Remove(i) == secret' = [secret EXCEPT ![i] = None]

Delete(r) ==
    /\ Remove(job[r].id)
    /\ End(r)
    /\ UNCHANGED <<born, accounts, history, bounds>>

\* DELETE /passwords/:id: one operation, whoever asks.
DeleteById(i) ==
    /\ Exists(i)
    /\ requests < MaxRequests
    /\ requests' = requests + 1
    /\ Remove(i)
    /\ UNCHANGED <<born, accounts, pc, job, local, history, admin>>

Store(r) ==
    /\ pc[r] = "store"
    /\ CASE job[r].op = "update" -> Patch(r)
         [] job[r].op = "hide" -> Hide(r)
         [] OTHER -> Delete(r)

------------------------------------------------------------------------------
(* What an admin, or the reports, do to an account meanwhile. *)

Administer(u) ==
    /\ admin < MaxAdmin
    /\ admin' = admin + 1
    /\ \/ restricted' = [restricted EXCEPT ![u] = ~@] /\ UNCHANGED active
       \/ active' = [active EXCEPT ![u] = FALSE] /\ UNCHANGED restricted
    /\ UNCHANGED <<stored, pc, job, local, history, requests>>

Step(r) ==
    \/ AskCreate(r) \/ AskUpdate(r) \/ AskHide(r) \/ AskDelete(r)
    \/ FindUser(r) \/ FindUpdater(r) \/ ValidateSharingRestrictions(r)
    \/ CheckParent(r)
    \/ LookUpKey(r) \/ VerifyPasswordExists(r) \/ Overwrite(r) \/ Insert(r)
    \/ ReadSecret(r) \/ CheckOwner(r) \/ Store(r)

\* All requests have been answered.
AllAnswered ==
    /\ requests = MaxRequests /\ admin = MaxAdmin
    /\ \A r \in Req : pc[r] = "idle"
    /\ UNCHANGED vars

Next ==
    \/ \E r \in Req : Step(r)
    \/ \E i \in Id : DeleteById(i)
    \/ \E u \in User : Administer(u)
    \/ AllAnswered

Spec == Init /\ [][Next]_vars

(***************************************************************************)
(* Properties.                                                             *)
(***************************************************************************)

\* Secrets nest one level deep as long as updates leave parents alone: between the check of
\* a parent and the insertion of its child the parent does not turn into a child.
NestedOnlyByUpdates ==
    \A c, p \in Existing :
        secret[c].parent = p /\ secret[p].parent # None => {c, p} \cap adopted # {}

\* A user has two secrets with one key only if one was created while the request for the
\* other was between its lookup and its insertion: createOrUpdatePassword finds all others.
DuplicatesRaced ==
    \A i, j \in Existing :
        i < j /\ secret[i].owner = secret[j].owner /\ secret[i].key = secret[j].key
        => lookedFor[j] < i

\* Two users begin to share only by a request of the secret's owner who was unrestricted when it
\* began, or by an update of somebody else who came by Telegram: restricted users give to those
\* they got from, and nothing gets round that through secrets updated, deleted or hidden
\* between the check and the store.
SharingBeginsFreely ==
    \A i \in Existing : Pairs(secret[i].owner, secret[i].sharedWith) \subseteq freely

\* An update or a hide that is overtaken by a deletion does not bring the secret back.
DeletedStaysDeleted == [][\A i \in 1..born : ~Exists(i) => ~Exists(i)']_vars

\* "Maintain hidden field": a hidden secret is shown again only by a request of its owner, or
\* an update that came by Telegram, and only by one that asks for it, creates the key anew, or
\* had read the secret before it was hidden.
HiddenIsMaintained ==
    [][\A i \in Existing : secret[i].hidden /\ Exists(i)' /\ ~secret'[i].hidden =>
        \E r \in Req : /\ pc[r] \in {"store", "overwrite"} /\ pc'[r] = "idle"
                       /\ job[r].user = secret[i].owner \/ job[r].byTelegram
                       /\ \/ job[r].op = "create"
                          \/ job[r].hidden = "no"
                          \/ r \in late]_vars
================================================================================
