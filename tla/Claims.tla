-------------------------------- MODULE Claims --------------------------------
(***************************************************************************)
(* Sharing by wallet address.  An update lists a bare address on a secret; *)
(* whoever logs in with that address is linked to it and claims the entry. *)
(* PATCH /passwords/:id looks the entries up when the list is stored,      *)
(* AuthService.login rewrites the stored lists when the holder turns up,   *)
(* and neither waits for the other: each action is one database operation. *)
(* An account created by a login carries the name of that login.           *)
(***************************************************************************)
EXTENDS Naturals, FiniteSets, Sequences

CONSTANTS
    Login,      \* login requests, and the accounts they create
    Edit,       \* update requests
    Old,        \* the accounts at the beginning
    OldPerson,  \* their Telegram persons, or None
    Person, Address, Secret,
    Owner,      \* the account each secret belongs to
    OldRecord,  \* the address records at the beginning
    Wanted,     \* the lists an update may ask for
    MaxFailures,      \* bound: database errors during a claim
    MaxDeactivations, \* bound: accounts an admin deactivates
    None

Account == Old \cup Login
Entry == [user : Account \cup {None}, address : Address \cup {None}]
Bare(a) == [user |-> None, address |-> a]

ASSUME AccountAssumption ==
    /\ Login \cap Old = {}
    /\ None \notin Account \cup Address \cup Person
    /\ None \notin Seq(Account)
    /\ OldPerson \in [Old -> Person \cup {None}]
    /\ OldRecord \in [Address -> Seq(Old) \cup {None}]
ASSUME SecretAssumption ==
    /\ Owner \in [Secret -> Old]
    /\ Wanted \subseteq SUBSET Entry
    /\ MaxFailures \in Nat /\ MaxDeactivations \in Nat

VARIABLES
    exists, active, person,  \* the accounts: users
    record,      \* publicaddresses.userIds of each address, None without a record
    sharedWith,  \* passwords.sharedWith
    pc,          \* of each login
    with,        \* the address a login brings
    via,         \* the Telegram person whose init data it brings, or None
    seen,        \* the record of the address, as the login read it
    account,     \* the account it logs in to
    mine,        \* the lists that name the address, as the login read them
    todo,        \* the secrets it still has to rewrite
    quiet,       \* history: no list has changed but by this login since it read them
    step,        \* of each update
    updater,     \* whose it is
    target,      \* the secret it is for
    pending,     \* the entries still to look up
    built,       \* the list it will store
    failures, deactivations

users     == <<exists, active, person>>
loginVars == <<pc, with, via, seen, account, mine, todo>>
editVars  == <<step, updater, target, pending, built>>
bounds    == <<failures, deactivations>>
vars      == <<users, record, sharedWith, loginVars, quiet, editVars, bounds>>

LoginSteps == {"idle", "record", "person", "create", "link", "relink", "read", "claim",
               "token", "refused"}
EditSteps  == {"idle", "expand", "filter", "store", "done", "refused"}

Holders(a) == IF record[a] = None THEN {} ELSE {record[a][i] : i \in DOMAIN record[a]}

TypeOK ==
    /\ exists \subseteq Account
    /\ active \in [Account -> BOOLEAN]
    /\ person \in [Account -> Person \cup {None}]
    /\ record \in [Address -> Seq(Account) \cup {None}]
    /\ sharedWith \in [Secret -> SUBSET Entry]
    /\ pc \in [Login -> LoginSteps]
    /\ with \in [Login -> Address \cup {None}]
    /\ via \in [Login -> Person \cup {None}]
    /\ seen \in [Login -> Seq(Account) \cup {None}]
    /\ account \in [Login -> Account \cup {None}]
    /\ mine \in [Login -> [Secret -> SUBSET Entry]]
    /\ todo \in [Login -> SUBSET Secret]
    /\ quiet \in [Login -> BOOLEAN]
    /\ step \in [Edit -> EditSteps]
    /\ updater \in [Edit -> Account \cup {None}]
    /\ target \in [Edit -> Secret \cup {None}]
    /\ pending \in [Edit -> SUBSET Entry]
    /\ built \in [Edit -> SUBSET Entry]
    /\ failures \in 0..MaxFailures
    /\ deactivations \in 0..MaxDeactivations

Init ==
    /\ exists = Old
    /\ active = [u \in Account |-> TRUE]
    /\ person = [u \in Account |-> IF u \in Old THEN OldPerson[u] ELSE None]
    /\ record = OldRecord
    /\ sharedWith = [s \in Secret |-> {}]
    /\ pc = [l \in Login |-> "idle"]
    /\ with = [l \in Login |-> None]
    /\ via = [l \in Login |-> None]
    /\ seen = [l \in Login |-> None]
    /\ account = [l \in Login |-> None]
    /\ mine = [l \in Login |-> [s \in Secret |-> {}]]
    /\ todo = [l \in Login |-> {}]
    /\ quiet = [l \in Login |-> FALSE]
    /\ step = [e \in Edit |-> "idle"]
    /\ updater = [e \in Edit |-> None]
    /\ target = [e \in Edit |-> None]
    /\ pending = [e \in Edit |-> {}]
    /\ built = [e \in Edit |-> {}]
    /\ failures = 0
    /\ deactivations = 0

------------------------------------------------------------------------------
(* Logins. *)

Goto(l, from, to) == pc[l] = from /\ pc' = [pc EXCEPT ![l] = to]

\* The signature of the challenge and the init data have been verified.
Arrive(l, a, p) ==
    /\ Goto(l, "idle", "record")
    /\ with' = [with EXCEPT ![l] = a]
    /\ via' = [via EXCEPT ![l] = p]
    /\ UNCHANGED <<users, record, sharedWith, seen, account, mine, todo, quiet, editVars, bounds>>

FindRecord(l) ==
    /\ pc[l] = "record"
    /\ seen' = [seen EXCEPT ![l] = record[with[l]]]
    /\ \/ via[l] # None /\ Goto(l, "record", "person") /\ UNCHANGED account
       \/ via[l] = None /\ seen'[l] = None /\ Goto(l, "record", "create") /\ UNCHANGED account
       \/ /\ via[l] = None /\ seen'[l] # None
          /\ IF seen'[l] # <<>> /\ active[Head(seen'[l])]
             THEN /\ account' = [account EXCEPT ![l] = Head(seen'[l])]
                  /\ Goto(l, "record", "token")
             ELSE Goto(l, "record", "refused") /\ UNCHANGED account
    /\ UNCHANGED <<users, record, sharedWith, with, via, mine, todo, quiet, editVars, bounds>>

FindPerson(l) ==
    LET found == {u \in exists : person[u] = via[l]}
    IN  /\ \/ /\ found = {}
              /\ Goto(l, "person", "create")
              /\ UNCHANGED account
           \/ \E u \in found :
                 /\ Goto(l, "person", "link")
                 /\ account' = [account EXCEPT ![l] = u]
        /\ UNCHANGED <<users, record, sharedWith, with, via, seen, mine, todo, quiet, editVars,
                       bounds>>

CreateAccount(l) ==
    /\ Goto(l, "create", "link")
    /\ exists' = exists \cup {l}
    /\ person' = [person EXCEPT ![l] = via[l]]
    /\ account' = [account EXCEPT ![l] = l]
    /\ UNCHANGED <<active, record, sharedWith, with, via, seen, mine, todo, quiet, editVars,
                   bounds>>

\* Variant: whoever loses the race for the record goes on without being linked.
LinkOrGoOn(l) ==
    /\ record' = [record EXCEPT ![with[l]] = IF @ = None THEN <<account[l]>> ELSE @]
    /\ Goto(l, "link", "read")
    /\ UNCHANGED <<users, sharedWith, with, via, seen, account, mine, todo, quiet, editVars,
                   bounds>>

\* publicKey is unique.  A wallet login that finds the record taken links itself to it; a
\* Telegram login fails and leaves its account behind.  The record that was found is
\* populated, and comparing its users as strings never finds the account among them.
Link(l) ==
    LET a == with[l]
    IN  /\ pc[l] = "link"
        /\ \/ /\ seen[l] = None /\ record[a] = None
              /\ record' = [record EXCEPT ![a] = <<account[l]>>]
              /\ Goto(l, "link", "read")
           \/ /\ seen[l] = None /\ record[a] # None
              /\ Goto(l, "link", IF via[l] = None THEN "relink" ELSE "refused")
              /\ UNCHANGED record
           \/ /\ seen[l] # None
              /\ record' = [record EXCEPT ![a] = Append(@, account[l])]
              /\ Goto(l, "link", "read")
        /\ UNCHANGED <<users, sharedWith, with, via, seen, account, mine, todo, quiet, editVars,
                       bounds>>

Relink(l) ==
    /\ Goto(l, "relink", "read")
    /\ record' = [record EXCEPT
                    ![with[l]] = IF account[l] \in Holders(with[l]) THEN @
                                 ELSE Append(@, account[l])]
    /\ UNCHANGED <<users, sharedWith, with, via, seen, account, mine, todo, quiet, editVars,
                   bounds>>

Names(list, a) == \E x \in list : x.address = a

ReadShared(l) ==
    LET naming == {s \in Secret : Names(sharedWith[s], with[l])}
    IN  /\ Goto(l, "read", IF naming = {} THEN "token" ELSE "claim")
        /\ mine' = [mine EXCEPT ![l] = [s \in Secret |-> IF s \in naming THEN sharedWith[s]
                                                         ELSE {}]]
        /\ todo' = [todo EXCEPT ![l] = naming]
        /\ quiet' = [quiet EXCEPT ![l] = TRUE]
        /\ UNCHANGED <<users, record, sharedWith, with, via, seen, account, editVars, bounds>>

\* Variant: an entry somebody else has claimed settles the list.
ClaimedOnce(list, a, u) ==
    {{IF x = Bare(a) THEN [x EXCEPT !.user = u] ELSE x : x \in list}}

\* Variant: any unclaimed entry will do.
ClaimedAnywhere(list, a, u) ==
    {(list \ {x}) \cup {[x EXCEPT !.user = u]} : x \in {y \in list : y.user = None}}

\* The lists u's claim of address a may leave.  A second holder gets an entry of its own,
\* spread from a database document, which may or may not keep the address.
Claimed(list, a, u) ==
    IF \E x \in list : x.address = a /\ x.user = u THEN {list}
    ELSE IF Bare(a) \in list THEN {(list \ {Bare(a)}) \cup {[user |-> u, address |-> a]}}
    ELSE {list \cup {[user |-> u, address |-> b]} : b \in {a, None}}

StillQuiet(writer) ==
    quiet' = [l \in Login |-> quiet[l] /\ (l = writer \/ UNCHANGED sharedWith)]

\* The whole list is written as it was read, with the claim in it.
WriteClaim(l, s) ==
    /\ pc[l] = "claim" /\ s \in todo[l]
    /\ \E list \in Claimed(mine[l][s], with[l], account[l]) :
          sharedWith' = [sharedWith EXCEPT ![s] = list]
    /\ todo' = [todo EXCEPT ![l] = @ \ {s}]
    /\ Goto(l, "claim", IF todo'[l] = {} THEN "token" ELSE "claim")
    /\ StillQuiet(l)
    /\ UNCHANGED <<users, record, with, via, seen, account, mine, editVars, bounds>>

\* A database error ends the claim but not the login.
AbandonClaim(l) ==
    /\ Goto(l, "claim", "token")
    /\ failures < MaxFailures
    /\ failures' = failures + 1
    /\ quiet' = [quiet EXCEPT ![l] = FALSE]
    /\ UNCHANGED <<users, record, sharedWith, with, via, seen, account, mine, todo, editVars,
                   deactivations>>

------------------------------------------------------------------------------
(* Updates. *)

Turn(e, from, to) == step[e] = from /\ step' = [step EXCEPT ![e] = to]

\* With a token only the owner may; whoever comes by Telegram may update anybody's secret.
MayUpdate(u, s) == active[u] /\ (u = Owner[s] \/ person[u] # None)

FindSecret(e, u, s, list) ==
    /\ MayUpdate(u, s)
    /\ updater' = [updater EXCEPT ![e] = u]
    /\ Turn(e, "idle", IF list = {} THEN "store" ELSE "expand")
    /\ target' = [target EXCEPT ![e] = s]
    /\ pending' = [pending EXCEPT ![e] = list]
    /\ UNCHANGED <<users, record, sharedWith, loginVars, quiet, built, bounds>>

Latest(u) == LET of == {a \in Address : u \in Holders(a)}
             IN  IF of = {} THEN {None} ELSE of

\* What one entry may expand to: all the active holders of a bare address, or the account,
\* with the address it has used last if none was given.
Found(x) ==
    LET holders == IF x.address = None THEN {} ELSE {u \in Holders(x.address) : active[u]}
        entry(u, a) == [user |-> u, address |-> a]
    IN  IF x.user # None /\ active[x.user]
        THEN {{entry(x.user, a)} : a \in IF x.address # None THEN {x.address}
                                         ELSE Latest(x.user)}
        ELSE IF holders = {} THEN {{entry(None, x.address)}}
        ELSE IF x.user = None THEN {{entry(u, x.address) : u \in holders}}
        ELSE {{entry(u, x.address)} : u \in holders}

Expand(e) ==
    /\ step[e] = "expand"
    /\ \E x \in pending[e] :
          /\ pending' = [pending EXCEPT ![e] = @ \ {x}]
          /\ \E xs \in Found(x) : built' = [built EXCEPT ![e] = @ \cup xs]
    /\ Turn(e, "expand", IF pending'[e] = {} THEN "filter" ELSE "expand")
    /\ UNCHANGED <<users, record, sharedWith, loginVars, quiet, updater, target, bounds>>

\* Nobody shares with himself; who is restricted may be refused.
FilterSelf(e) ==
    LET me == updater[e]
    IN  /\ Turn(e, "filter", "store") \/ Turn(e, "filter", "refused")
        /\ \E a \in Latest(me) :
              built' = [built EXCEPT ![e] =
                          {x \in @ : x.user # me /\ (a = None \/ x.address # a)}]
        /\ UNCHANGED <<users, record, sharedWith, loginVars, quiet, updater, target, pending, bounds>>

Store(e) ==
    /\ Turn(e, "store", "done")
    /\ sharedWith' = [sharedWith EXCEPT ![target[e]] = built[e]]
    /\ StillQuiet(None)
    /\ UNCHANGED <<users, record, loginVars, updater, target, pending, built, bounds>>

------------------------------------------------------------------------------
Deactivate(u) ==
    /\ deactivations < MaxDeactivations
    /\ active' = [active EXCEPT ![u] = FALSE]
    /\ deactivations' = deactivations + 1
    /\ UNCHANGED <<exists, person, record, sharedWith, loginVars, quiet, editVars, failures>>

AllAnswered ==
    /\ \A l \in Login : pc[l] \in {"token", "refused"}
    /\ \A e \in Edit : \/ step[e] \in {"done", "refused"}
                       \/ /\ step[e] = "idle"
                          /\ \A u \in exists, s \in Secret : ~ MayUpdate(u, s)
    /\ UNCHANGED vars

Next ==
    \/ \E l \in Login, a \in Address, p \in Person \cup {None} : Arrive(l, a, p)
    \/ \E l \in Login : \/ FindRecord(l) \/ FindPerson(l) \/ CreateAccount(l) \/ Link(l)
                        \/ Relink(l) \/ ReadShared(l) \/ AbandonClaim(l)
                        \/ \E s \in Secret : WriteClaim(l, s)
    \/ \E e \in Edit, u \in exists, s \in Secret, list \in Wanted : FindSecret(e, u, s, list)
    \/ \E e \in Edit : Expand(e) \/ FilterSelf(e) \/ Store(e)
    \/ \E u \in exists : Deactivate(u)
    \/ AllAnswered

Spec == Init /\ [][Next]_vars

------------------------------------------------------------------------------
\* Safety: whatever logins and updates overlap, an account only stands beside an address it
\* has logged in with, unless an update has put the two together by hand
\* (auth.service.ts:868-905, password-sharing.service.ts:432-450).
SharedWithHolders ==
    \A s \in Secret : \A x \in sharedWith[s] :
        x.user # None /\ x.address # None
            => x.user \in Holders(x.address) \/ x \in UNION Wanted

\* Safety: a login that gives out a token has linked its account to the address the token
\* names, also if two logins with a new address race (auth.service.ts:400-432, 718-752).
TokenMeansLinked ==
    \A l \in Login : pc[l] = "token" => account[l] \in Holders(with[l])

\* Safety: as long as nobody else changes a list after a login has read them, the holder has
\* an entry in every list that names the address (auth.service.ts:832-833).
QuietLoginsClaim ==
    \A l \in Login :
        pc[l] = "token" /\ quiet[l] =>
            \A s \in Secret :
                Names(sharedWith[s], with[l]) => \E x \in sharedWith[s] : x.user = account[l]
==============================================================================
