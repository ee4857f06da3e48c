-------------------------------- MODULE Views --------------------------------
(***************************************************************************)
(* PATCH /passwords/secret-view/:id: PasswordViewsService.recordSecretView *)
(* hands a secret out and records who has seen it, and the statistics of   *)
(* ViewStats read these records.  The handler reads the secret once, then  *)
(* the accounts, and pushes the view at the end: each action is one        *)
(* database operation, and what was read stays in the request's own state. *)
(***************************************************************************)
EXTENDS ViewStats

CONSTANTS
    User, Secret,
    Owner,      \* the account each secret belongs to
    Parent,     \* the secret it answers to, or None
    Telegram,   \* the accounts with a Telegram id; the account stands for the id
    Newcomer,   \* those of them whose account has not been made to begin with
    Address,    \* the wallet address in each account's token, or None
    FirstName,  \* the usernames the accounts start with, or None
    Free,       \* usernames nobody has to begin with
    Lists,      \* the sharedWith lists owners store
    OldViews,   \* the views each secret has to begin with
    Viewing,    \* requests
    MaxEdits    \* bound: changes made by the rest of the system

Usernames == {FirstName[u] : u \in User} \cup Free \cup {None}
Addresses == {Address[u] : u \in User} \cup {None}
Entry == [user : User \cup {None}, name : Usernames, address : Addresses]
View  == [user : User \cup {None}, telegram : Telegram \cup {None},
          name : Usernames, address : Addresses]

ASSUME AccountAssumption ==
    /\ Newcomer \subseteq Telegram /\ Telegram \subseteq User
    /\ Address \in [User -> Addresses]
    /\ FirstName \in [User -> Usernames]
    /\ None \notin User
    /\ \A u, v \in User : FirstName[u] = FirstName[v] => u = v \/ FirstName[u] = None
ASSUME SecretAssumption ==
    /\ Owner \in [Secret -> User \ Newcomer]
    /\ Parent \in [Secret -> Secret \cup {None}]
    /\ Lists \subseteq SUBSET Entry
    /\ OldViews \in [Secret -> Seq(View)]
    /\ MaxEdits \in Nat

\* Whose view it is: the first views had only a Telegram id.
Person(v) == IF v.user # None THEN v.user ELSE v.telegram

\* Old views are of somebody, and those of one person all have the user, or none has; a user
\* in them is an account, and the Telegram id beside it is that account's.
ASSUME OldViewsAssumption ==
    \A s \in Secret : \A i, j \in DOMAIN OldViews[s] :
        LET v == OldViews[s][i]
            w == OldViews[s][j]
        IN  /\ Person(v) # None
            /\ v.user \notin Newcomer
            /\ v.user # None /\ v.telegram # None => v.user = v.telegram
            /\ Person(v) = Person(w) => (v.user = None <=> w.user = None)

VARIABLES
    accounts,     \* the accounts that have been made
    live,         \* the secret has not been deleted
    sharedWith,   \* passwords.sharedWith
    secretViews,  \* passwords.secretViews
    privacyMode,  \* users.privacyMode
    username,     \* users.username
    pc,
    who,          \* the identifiers of a request's user, as the guard read them
    about,        \* the secret a request is for
    read,         \* the views the secret had when the request read it
    shy,          \* the viewer, and later the owner, was read with privacy mode on
    answer,
    open,         \* history: whose privacy mode was off at some moment of the request
    known,        \* history: the viewer had a view of the secret when the request arrived
    amid,         \* history: whose account was made amid a request of theirs on the secret
    edits

userVars    == <<accounts, privacyMode, username>>
secretVars  == <<live, sharedWith>>
requestVars == <<pc, who, about, read, shy, answer, open, known, amid>>
vars        == <<userVars, secretVars, secretViews, requestVars, edits>>

Steps   == {"idle", "secret", "parent", "viewer", "owner", "push", "done"}
Answers == {"none", "empty", "secret", "error"}
Parties == {"viewer", "owner"}

\* Without an account a person comes with the Telegram id and name of the init data alone.
Account(u) == [user |-> IF u \in accounts THEN u ELSE None,
               telegram |-> IF u \in Telegram THEN u ELSE None,
               name |-> username[u],
               address |-> IF u \in accounts THEN Address[u] ELSE None]

TypeOK ==
    /\ accounts \subseteq User
    /\ live \in [Secret -> BOOLEAN]
    /\ sharedWith \in [Secret -> SUBSET Entry]
    /\ secretViews \in [Secret -> Seq(View)]
    /\ privacyMode \in [User -> BOOLEAN]
    /\ username \in [User -> Usernames]
    /\ pc \in [Viewing -> Steps]
    /\ who \in [Viewing -> View \cup {None}]
    /\ about \in [Viewing -> Secret \cup {None}]
    /\ read \in [Viewing -> Seq(View)]
    /\ shy \in [Viewing -> BOOLEAN]
    /\ answer \in [Viewing -> Answers]
    /\ open \in [Viewing -> SUBSET Parties]
    /\ known \in [Viewing -> BOOLEAN]
    /\ amid \in [Secret -> SUBSET User]
    /\ edits \in 0..MaxEdits

\* The lists that can be stored: an entry that names a user names an account.
Storable == {list \in Lists : \A e \in list : e.user \in accounts \cup {None}}

Init ==
    /\ accounts = User \ Newcomer
    /\ live = [s \in Secret |-> TRUE]
    /\ sharedWith \in [Secret -> Storable]
    /\ secretViews = OldViews
    /\ privacyMode \in [User -> BOOLEAN]
    /\ \A u \in Newcomer : ~privacyMode[u]
    /\ username = FirstName
    /\ pc = [q \in Viewing |-> "idle"]
    /\ who = [q \in Viewing |-> None]
    /\ about = [q \in Viewing |-> None]
    /\ read = [q \in Viewing |-> <<>>]
    /\ shy = [q \in Viewing |-> FALSE]
    /\ answer = [q \in Viewing |-> "none"]
    /\ open = [q \in Viewing |-> {}]
    /\ known = [q \in Viewing |-> FALSE]
    /\ amid = [s \in Secret |-> {}]
    /\ edits = 0

------------------------------------------------------------------------------
HasView(u, s) == \E i \in DOMAIN secretViews[s] : Person(secretViews[s][i]) = u

Goto(q, from, to) == pc[q] = from /\ pc' = [pc EXCEPT ![q] = to]

Finish(q, from, a) == Goto(q, from, "done") /\ answer' = [answer EXCEPT ![q] = a]

\* Who asks: the account, or the Telegram id that stands for it.
Viewer(q) == IF who[q].user # None THEN who[q].user ELSE who[q].telegram

\* The guard authenticates u, and the account is read if there is one.
Arrive(q, u, s) ==
    /\ Goto(q, "idle", "secret")
    /\ who' = [who EXCEPT ![q] = Account(u)]
    /\ about' = [about EXCEPT ![q] = s]
    /\ open' = [open EXCEPT ![q] =
                  {p \in Parties : ~privacyMode[IF p = "viewer" THEN u ELSE Owner[s]]}]
    /\ known' = [known EXCEPT ![q] = HasView(u, s)]
    /\ UNCHANGED <<userVars, secretVars, secretViews, read, shy, answer, amid, edits>>

SharedWith(s, me) ==
    \E e \in sharedWith[s] :
        \/ e.user # None /\ e.user = me.user
        \/ e.name # None /\ e.name = me.name
        \/ e.address # None /\ e.address = me.address

FindSecret(q) ==
    LET s == about[q]
    IN  /\ pc[q] = "secret"
        /\ read' = [read EXCEPT ![q] = secretViews[s]]
        /\ IF live[s] /\ (Owner[s] = who[q].user \/ SharedWith(s, who[q]))
           THEN Goto(q, "secret", "viewer") /\ UNCHANGED answer
           ELSE IF live[s] /\ Parent[s] # None /\ who[q].user # None
           THEN Goto(q, "secret", "parent") /\ UNCHANGED answer
           ELSE Finish(q, "secret", "empty")
        /\ UNCHANGED <<userVars, secretVars, secretViews, who, about, shy, open, known, amid,
                       edits>>

\* The owner of the parent may see an answer to it that is not shared with them.
FindParent(q) ==
    LET p == Parent[about[q]]
    IN  /\ pc[q] = "parent"
        /\ IF live[p] /\ Owner[p] = who[q].user
           THEN Goto(q, "parent", "viewer") /\ UNCHANGED answer
           ELSE Finish(q, "parent", "empty")
        /\ UNCHANGED <<userVars, secretVars, secretViews, who, about, read, shy, open, known,
                       amid, edits>>

\* The viewer is looked up by Telegram id first; whoever has no account is not private.
FindViewer(q) ==
    /\ Goto(q, "viewer", "owner")
    /\ shy' = [shy EXCEPT ![q] = Viewer(q) \in accounts /\ privacyMode[Viewer(q)]]
    /\ UNCHANGED <<userVars, secretVars, secretViews, who, about, read, answer, open, known,
                   amid, edits>>

\* Variant: a viewer is only recognised by the username.
ExistingViewByName(q) ==
    \E i \in DOMAIN read[q] : who[q].name # None /\ read[q][i].name = who[q].name

\* Variant: two missing usernames are equal.
ExistingViewByAnyName(q) ==
    \E i \in DOMAIN read[q] :
        LET v  == read[q][i]
            me == who[q]
        IN  \/ me.telegram # None /\ v.telegram = me.telegram
            \/ me.user # None /\ v.user = me.user
            \/ v.name = me.name

ExistingView(q) ==
    \E i \in DOMAIN read[q] :
        LET v  == read[q][i]
            me == who[q]
        IN  \/ me.telegram # None /\ v.telegram = me.telegram
            \/ me.user # None /\ v.user = me.user
            \/ me.name # None /\ v.name = me.name

\* Variant: only the owner's privacy mode counts.
FindOwnerIgnoringViewer(q) ==
    LET owner == Owner[about[q]]
    IN  /\ pc[q] = "owner"
        /\ shy' = [shy EXCEPT ![q] = @ \/ privacyMode[owner]]
        /\ IF owner = Viewer(q) \/ privacyMode[owner] \/ ExistingView(q)
           THEN Finish(q, "owner", "secret")
           ELSE Goto(q, "owner", "push") /\ UNCHANGED answer
        /\ UNCHANGED <<userVars, secretVars, secretViews, who, about, read, open, known, amid,
                       edits>>

FindOwner(q) ==
    LET owner == Owner[about[q]]
    IN  /\ pc[q] = "owner"
        /\ shy' = [shy EXCEPT ![q] = @ \/ privacyMode[owner]]
        /\ IF owner = Viewer(q) \/ shy'[q] \/ ExistingView(q)
           THEN Finish(q, "owner", "secret")
           ELSE Goto(q, "owner", "push") /\ UNCHANGED answer
        /\ UNCHANGED <<userVars, secretVars, secretViews, who, about, read, open, known, amid,
                       edits>>

\* A view without an address gets the account's latest one.  When the secret has been
\* deleted there is nothing to push to; the handler returns null and the controller throws.
Push(q) ==
    LET s == about[q]
    IN  /\ pc[q] = "push"
        /\ \/ /\ live[s]
              /\ \E a \in (IF who[q].address = None THEN Addresses ELSE {who[q].address}) :
                    secretViews' = [secretViews EXCEPT
                                      ![s] = Append(@, [who[q] EXCEPT !.address = a])]
              /\ Finish(q, "push", "secret")
           \/ /\ ~live[s]
              /\ Finish(q, "push", "error")
              /\ UNCHANGED secretViews
        /\ UNCHANGED <<userVars, secretVars, who, about, read, shy, open, known, amid,
                       edits>>

------------------------------------------------------------------------------
\* The rest of the system, as far as the handler reads it.
Edit == edits < MaxEdits /\ edits' = edits + 1

Running(q) == pc[q] \notin {"idle", "done"}

Party(q, p) == IF p = "viewer" THEN Viewer(q) ELSE Owner[about[q]]

\* The first login through Telegram makes the account, perhaps amid requests without one.
Join(u) ==
    /\ Edit
    /\ u \notin accounts
    /\ accounts' = accounts \cup {u}
    /\ amid' = [s \in Secret |->
                  IF \E q \in Viewing : Running(q) /\ about[q] = s /\ Viewer(q) = u
                  THEN amid[s] \cup {u} ELSE amid[s]]
    /\ UNCHANGED <<privacyMode, username, secretVars, secretViews, pc, who, about, read, shy,
                   answer, open, known>>

SwitchPrivacy(u) ==
    /\ Edit
    /\ u \in accounts
    /\ privacyMode' = [privacyMode EXCEPT ![u] = ~@]
    /\ open' = [q \in Viewing |->
                  IF Running(q) /\ privacyMode[u]
                  THEN open[q] \cup {p \in Parties : Party(q, p) = u}
                  ELSE open[q]]
    /\ UNCHANGED <<accounts, username, secretVars, secretViews, pc, who, about, read, shy,
                   answer, known, amid>>

\* A login takes the username over from Telegram, where it may have had another holder.
Rename(u, n) ==
    /\ Edit
    /\ username[u] # n
    /\ username' = [username EXCEPT ![u] = n]
    /\ UNCHANGED <<accounts, privacyMode, secretVars, secretViews, requestVars>>

EditSharing(s, list) ==
    /\ Edit
    /\ live[s]
    /\ list \in Storable
    /\ sharedWith' = [sharedWith EXCEPT ![s] = list]
    /\ UNCHANGED <<userVars, live, secretViews, requestVars>>

DeleteSecret(s) ==
    /\ Edit
    /\ live' = [live EXCEPT ![s] = FALSE]
    /\ UNCHANGED <<userVars, sharedWith, secretViews, requestVars>>

AllAnswered == (\A q \in Viewing : pc[q] = "done") /\ UNCHANGED vars

Next ==
    \/ \E q \in Viewing, u \in User, s \in Secret : Arrive(q, u, s)
    \/ \E q \in Viewing : \/ FindSecret(q) \/ FindParent(q) \/ FindViewer(q)
                          \/ FindOwner(q) \/ Push(q)
    \/ \E u \in User : Join(u) \/ SwitchPrivacy(u)
    \/ \E u \in Telegram, n \in Usernames \ {None} : Rename(u, n)
    \/ \E s \in Secret, list \in Lists : EditSharing(s, list)
    \/ \E s \in Secret : DeleteSecret(s)
    \/ AllAnswered

Spec == Init /\ [][Next]_vars

------------------------------------------------------------------------------
\* Safety: a view is only about to be recorded if the viewer's and the owner's privacy mode
\* have both been off at some moment of the request (password-views.service.ts:178-191).
ViewsRespectPrivacy == \A q \in Viewing : pc[q] = "push" => open[q] = Parties

\* Safety: a viewer who had a view when the request arrived gets no second one, also after a
\* change of username; what repeats views is only requests that overlap
\* (password-views.service.ts:194-202).
NoReturningViewer == \A q \in Viewing : pc[q] = "push" => ~known[q]

\* Action property: concurrent requests never overwrite each other's views
\* (password-views.service.ts:256-262).
NoViewLost ==
    [][\A s \in Secret : secretViews[s] = SubSeq(secretViews'[s], 1, Len(secretViews[s]))]_vars

\* Safety: whoever is given the secret has a view of it from then on, unless he owns it, a
\* privacy mode was read as on, or his username is in somebody else's view; in particular two
\* accounts without a username or without Telegram are not taken for one another
\* (password-views.service.ts:167-202).
ServedIsRecorded ==
    \A q \in Viewing :
        LET s == about[q]
        IN  /\ pc[q] = "done" /\ answer[q] = "secret"
            /\ Viewer(q) # Owner[s] /\ ~shy[q]
            /\ who[q].name # None => \A i \in DOMAIN secretViews[s] :
                  secretViews[s][i].name = who[q].name
                      => Person(secretViews[s][i]) = Viewer(q)
            => HasView(Viewer(q), s)

\* Safety: although overlapping requests record a viewer twice, under different usernames
\* even, or first by Telegram id alone and then by account, the statistics count each person
\* once, unless an account was made amid a request of its owner: then the views before and
\* after may have different keys (password-views.service.ts:117-125, 405-425, 518).
StatsCountPeople ==
    \A s \in Secret :
        LET people == {Person(secretViews[s][i]) : i \in DOMAIN secretViews[s]}
        IN  people \cap amid[s] = {} => UniqueViewers(secretViews[s]) = Cardinality(people)

\* Safety: whoever has a view is told so by the statistics, and never listed among those
\* who have not viewed, also when the view is an old one with only a Telegram id, or the
\* username has changed (password-views.service.ts:391-401, 523-530, 575-647).
ViewersAreTold ==
    \A s \in Secret, u \in accounts :
        HasView(u, s) =>
            /\ HasViewedSecret(Account(u), secretViews[s])
            /\ \A e \in sharedWith[s] :
                  e.user = u => Category(e, secretViews[s], [w \in accounts |-> Account(w)],
                                         privacyMode) = "viewed"
==============================================================================
