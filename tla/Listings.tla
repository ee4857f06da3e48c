------------------------------- MODULE Listings -------------------------------
(***************************************************************************)
(* A reader walks a listing page by page while its documents change.  Every *)
(* page is a request of its own: who the reader is, how many documents      *)
(* match and the rows of the page are read one after the other, and nothing *)
(* is kept from one page to the next but the page number.  Documents are    *)
(* numbered in the order of createdAt.  A behaviour walks one listing, and  *)
(* only what that listing reads changes.                                    *)
(***************************************************************************)
EXTENDS Naturals, Sequences, FiniteSets

CONSTANTS
    Listing,     \* the listings walked
    MaxDocs,     \* bound: documents ever created
    Limit,       \* rows of a page
    Filter,      \* what an admin asks for: a subset of Asks
    Person, Me,
    Owner,       \* whose the documents are
    Telegram,    \* the persons with a Telegram id
    Address,     \* public addresses the reader has had
    Readers,     \* bound: who the reader can be to begin with
    Says,        \* what a document can say of the reader
    Stored,      \* bound: what the documents can say to begin with
    MaxChanges,  \* bound: changes during a walk
    None

Asks    == {"active", "shown", "parents", "ofReader"}
Doc     == 1..MaxDocs
Secrets == {"own", "children", "adminSecrets", "shared", "sharedWhole"}
Kinds   == Secrets \cup {"notifications", "logs", "users", "usersExceptMe", "reports",
                        "adminNotifications", "adminLogs", "reportedUsers",
                        "recipients", "recipientsWhole"}
Pooled    == {"shared", "sharedWhole"}               \* pages are cut in memory
Addressed == Pooled \cup {"own", "notifications"}    \* the reader's address is read
WithViews == Pooled \cup {"children"}                \* secretViews are shown
Whole     == {"sharedWhole", "recipientsWhole", "reportedUsers"}  \* there are no pages
Lists     == {"recipients", "recipientsWhole"}       \* the sharedWith of one key
ByPerson  == WithViews \cup {"reportedUsers"}        \* other accounts are read

ASSUME ListingAssumption ==
    /\ Listing \subseteq Kinds
    /\ MaxDocs \in Nat \ {0} /\ Limit \in Nat \ {0} /\ MaxChanges \in Nat
    /\ Filter \subseteq Asks
ASSUME ReaderAssumption ==
    /\ Me \in Person /\ Owner \in [Doc -> Person] /\ Telegram \subseteq Person
    /\ None \notin Address
    /\ Readers \subseteq [account : BOOLEAN, address : Address \cup {None}]
    /\ Says \subseteq [userId : BOOLEAN, username : BOOLEAN, publicAddress : Address \cup {None}]
    /\ Stored \subseteq [Doc -> Says]

VARIABLES
    listing,
    created,       \* documents created so far
    there,         \* those that are stored
    off,           \* secrets and users not active, reports resolved
    hidden, nested,  \* hidden secrets, secrets with a parent
    says,          \* what each document says of the reader
    parentShared,  \* sharedWith of the children's parent names the reader; of recipients,
                   \* some secret has the key whose list is asked for
    place,         \* of recipients: their order in the list
    latest,        \* the reader, as he would be found now
    private,       \* the persons in privacy mode; of reported users, those not active
    changes,
    page, todo,    \* the page asked for, and the reads left of its request
    as, reserved,  \* the reader and his privacy mode, as read
    counted,       \* the documents counted; the code keeps their number
    rows,          \* the rows the database returned
    found,         \* of a pool: the query that found each document, 0 if none did
    read,          \* and what the document said then
    owners,        \* the owners read to be in privacy mode; of reported users, those
                   \* whose reports are still to be read
    shown,         \* rows answered with their views
    seen, again,   \* documents answered, answered twice
    past           \* history: what the properties compare the answers with

docVars  == <<created, there, off, hidden, nested, says, parentShared, place, latest, private,
              changes>>
readVars == <<as, reserved, counted, rows, found, read, owners>>
seenVars == <<shown, seen, again>>
vars == <<listing, docVars, page, todo, readVars, seenVars, past>>

History == [steady : SUBSET Doc,   \* listed ever since the walk began
            left : SUBSET Doc, came : SUBSET Doc,  \* during the walk
            moved : SUBSET Doc,    \* rewritten, found otherwise or put elsewhere meanwhile
            short : BOOLEAN,       \* a page had more to list than its count
            ever : SUBSET Doc,     \* listed at some moment of the request
            readdressed : BOOLEAN, \* who the reader is found to be changed during the request
            unknown : BOOLEAN,     \* no account had his name at some moment of the request
            open : SUBSET Person]  \* out of privacy mode at some moment of the request

\* What the code knows of the reader: whether an active account has the name he comes with,
\* and the latest address of that account.  Only by name does it look for the readers of
\* shared secrets; those who come with a token always have an account.
Identity == [account : BOOLEAN, address : Address \cup {None}]
Plain    == [account |-> TRUE, address |-> None]
Stranger == [account |-> FALSE, address |-> None]

\* Whoever has no account by his name is read without an address.
Recognised(i) == IF i.account THEN i ELSE Stranger

\* An address can still be found by the Telegram id, but only all shared secrets at once do.
Findable == {i \in Identity : \/ i.account
                              \/ listing = "sharedWhole"
                              \/ listing = "shared" /\ i = Stranger}

Nothing == [userId |-> FALSE, username |-> FALSE, publicAddress |-> None]
TypeOK ==
    /\ listing \in Listing
    /\ created \in 0..MaxDocs
    /\ there \subseteq 1..created
    /\ off \subseteq there /\ hidden \subseteq there /\ nested \subseteq Doc
    /\ says \in [Doc -> Says]
    /\ parentShared \in BOOLEAN
    /\ place \in [Doc -> Doc] /\ \A e, d \in Doc : place[e] = place[d] => e = d
    /\ latest \in Findable /\ as \in Identity
    /\ private \subseteq Person /\ owners \subseteq Person /\ reserved \in BOOLEAN
    /\ changes \in 0..MaxChanges
    /\ page \in 1..(1 + (MaxDocs - 1) \div Limit)
    /\ Len(todo) \in 0..7
    /\ counted \subseteq Doc /\ rows \subseteq Doc
    /\ found \in [Doc -> 0..3] /\ read \in [Doc -> Says \cup {Nothing}]
    /\ shown \subseteq seen /\ again \subseteq seen /\ seen \subseteq 1..created
    /\ past \in History

------------------------------------------------------------------------------
(* What each listing asks the database for; i is the reader.  Each definition stands for    *)
(* its handler: the count, the page and the answer, which the handlers have in common, are  *)
(* the actions below.                                                                       *)

BaseQuery(d) == d \notin off \cup hidden \cup nested

\* By the address if the reader has one, by the account otherwise.
OwnSecret(d, i) ==
    /\ BaseQuery(d)
    /\ IF i.address = None THEN says[d].userId ELSE says[d].publicAddress = i.address

ChildSecret(d) == d \in nested \ (off \cup hidden)

AdminSecret(d) ==
    /\ "active" \in Filter => d \notin off
    /\ "shown" \in Filter => d \notin hidden
    /\ "parents" \in Filter => d \notin nested

MyNotification(d, i) == i.address # None /\ says[d].publicAddress = i.address

MyLog(d) == says[d].userId

AdminUser(d) == "active" \in Filter => d \notin off

AdminNotification(d) == "ofReader" \in Filter => says[d].userId

AdminLog(d) == "ofReader" \in Filter => says[d].userId

OtherUser(d) == Owner[d] # Me

PendingReport(d) == d \notin off

ReportOfUser(d) == "active" \in Filter => d \notin off

\* The entry e names the reader.
Names(e, i) ==
    \/ e.username
    \/ i.account /\ (e.userId \/ (i.address # None /\ e.publicAddress = i.address))

\* Shared by the entry e: every entry that names the reader and has an address must
\* have the latest one.
Shares(e, i) == Names(e, i) /\ e.publicAddress \in {None, i.address}

Asked(d, i) ==
    CASE listing = "own"           -> OwnSecret(d, i)
      [] listing = "children"      -> ChildSecret(d)
      [] listing = "adminSecrets"  -> AdminSecret(d)
      [] listing \in Pooled        -> d \notin off \cup nested /\ Shares(says[d], i)
      [] listing = "notifications" -> MyNotification(d, i)
      [] listing = "logs"          -> MyLog(d)
      [] listing = "users"         -> AdminUser(d)
      [] listing = "usersExceptMe" -> OtherUser(d)
      [] listing = "reports"       -> PendingReport(d)
      [] listing = "adminNotifications" -> AdminNotification(d)
      [] listing = "adminLogs"     -> AdminLog(d)
      [] listing = "reportedUsers" -> ReportOfUser(d)
      [] listing \in Lists -> TRUE

Matching(i) == {d \in there : Asked(d, i)}
Listed == {d \in Matching(latest) : listing = "reportedUsers" => Owner[d] \notin private}

\* The reads of a request, those that run at the same time in one set.
Reads ==
    CASE listing \in {"own", "notifications"}  -> <<{"reader"}, {"count", "find"}>>
      [] listing \in {"logs", "usersExceptMe", "adminNotifications", "adminLogs"} ->
                                <<{"count", "find"}>>
      [] listing \in {"adminSecrets", "users", "reports"} -> <<{"count"}, {"find"}>>
      [] listing = "children" -> <<{"reader"}, {"access"}, {"count"}, {"find"}, {"owners"}>>
      [] listing = "shared"   -> <<{"reader"}, {"userId"}, {"username"}, {"publicAddress"},
                                   {"owners"}>>
      [] listing = "sharedWhole" -> <<{"reader"}, {"account"}, {"userId"}, {"username"},
                                      {"publicAddress"}, {"latest"}, {"owners"}>>
      [] listing = "reportedUsers"   -> <<{"distinct"}, {"users"}, {"reports"}>>
      [] listing = "recipients"      -> <<{"access"}, {"list"}>>
      [] listing = "recipientsWhole" -> <<{"list"}>>

Fresh == [steady |-> {}, left |-> {}, came |-> {}, moved |-> {}, short |-> FALSE,
          ever |-> {}, readdressed |-> FALSE, unknown |-> FALSE, open |-> {}]

Init ==
    /\ listing \in Listing
    /\ created \in 0..MaxDocs
    /\ there = 1..created
    /\ off = {} /\ hidden = {}
    /\ nested = IF listing = "children" THEN Doc ELSE {}
    /\ says \in Stored
    /\ parentShared \in BOOLEAN
    /\ place = [d \in Doc |-> d]
    /\ latest \in Findable \cap (Readers \cup {Plain})
    /\ private \in SUBSET Person
    /\ \* What the listing does not read is as good one way as another.
       /\ listing \notin Addressed \cup {"logs", "adminLogs", "adminNotifications"} =>
             says = CHOOSE s \in Stored : TRUE
       /\ listing # "children" => parentShared
       /\ listing \notin Addressed => latest = Plain
       /\ listing \notin ByPerson => private = {}
       /\ listing = "shared" => private \subseteq {Me}
    /\ changes = 0
    /\ page = 1 /\ todo = Reads
    /\ as = Plain /\ reserved = FALSE
    /\ counted = {} /\ rows = {}
    /\ found = [d \in Doc |-> 0] /\ read = [d \in Doc |-> Nothing]
    /\ owners = {} /\ shown = {} /\ seen = {} /\ again = {}
    /\ past = [Fresh EXCEPT !.steady = Listed]
------------------------------------------------------------------------------
(* The reads. *)

\* The reads of one set run in any order.
Do(r) ==
    /\ todo # <<>>
    /\ r \in Head(todo)
    /\ todo' = IF Head(todo) = {r} THEN Tail(todo) ELSE <<Head(todo) \ {r}>> \o Tail(todo)

\* The request begins with its first read.
Began == IF Len(todo) = Len(Reads) /\ Head(todo) = Head(Reads)
         THEN [past EXCEPT !.ever = Matching(latest), !.readdressed = FALSE,
                           !.unknown = ~ latest.account, !.open = Person \ private]
         ELSE past

Reader ==
    /\ Do("reader")
    /\ as' = Recognised(latest)
    /\ reserved' = (listing \in WithViews /\ latest.account /\ Me \in private)
    /\ past' = Began
    /\ shown' = {}
    /\ UNCHANGED <<listing, docVars, page, counted, rows, found, read, owners, seen, again>>

\* All shared secrets at once are asked for under the account, if one is found by now.
Account ==
    /\ Do("account")
    /\ as' = [as EXCEPT !.account = @ \/ latest.account]
    /\ UNCHANGED <<listing, docVars, page, reserved, counted, rows, found, read, owners, seenVars,
                   past>>

\* Pages of recipients need an active secret with the key, whosever it is.
KeyIsUsed == listing = "recipients" /\ parentShared

\* Children are for those the parent is shared with and those who own an active child.
MayListChildren ==
    /\ listing = "children"
    /\ parentShared \/ \E d \in nested \cap there : d \notin off /\ Owner[d] = Me

MayList == KeyIsUsed \/ MayListChildren

Access ==
    /\ MayList /\ Do("access")
    /\ past' = Began
    /\ UNCHANGED <<listing, docVars, page, readVars, seenVars>>

Denied ==
    /\ todo # <<>> /\ Head(todo) = {"access"} /\ ~ MayList
    /\ todo' = <<{"denied"}>>
    /\ UNCHANGED <<listing, docVars, page, readVars, seenVars, past>>

Count ==
    /\ Do("count")
    /\ counted' = Matching(as)
    /\ past' = Began
    /\ UNCHANGED <<listing, docVars, page, as, reserved, rows, found, read, owners, seenVars>>

\* Newest first; recipients in the order of their list, the users other than the reader in
\* the order they are stored.  Pages of shared secrets keep the order of the queries that
\* found them: createdAt, which the pool is then sorted by, is not among the fields read.
Ahead(e, d) ==
    CASE listing = "usersExceptMe" -> e < d
      [] listing = "recipients" -> place[e] < place[d]
      [] listing = "shared" -> found[e] < found[d] \/ (found[e] = found[d] /\ e > d)
      [] OTHER -> e > d

\* Variant: a page begins one document after the last began.
OnPageByOne(set, p) ==
    {d \in set : Cardinality({e \in set : Ahead(e, d)}) \in (p - 1)..(p + Limit - 2)}

\* Variant: the first page is numbered 0.
OnPageFromZero(set, p) ==
    {d \in set : Cardinality({e \in set : Ahead(e, d)}) \div Limit = p}

\* The documents of set on page p.
OnPage(set, p) ==
    {d \in set : Cardinality({e \in set : Ahead(e, d)}) \div Limit = p - 1}

Find ==
    /\ Do("find")
    /\ rows' = OnPage(Matching(as), page)
    /\ past' = [Began EXCEPT !.short = @ \/ ("count" \notin Head(todo)
                                             /\ ~ Matching(as) \subseteq counted)]
    /\ UNCHANGED <<listing, docVars, page, as, reserved, counted, found, read, owners, seenVars>>

\* The list of recipients is read at once,
WholeList == Matching(as)

\* and its pages are cut in memory.
ReadRecipients ==
    /\ Do("list")
    /\ counted' = WholeList
    /\ rows' = IF listing = "recipients" THEN OnPage(WholeList, page) ELSE WholeList
    /\ past' = Began
    /\ UNCHANGED <<listing, docVars, page, as, reserved, found, read, owners, seenVars>>

\* Of the reports that match, only whom they are about is kept;
Distinct ==
    /\ Do("distinct")
    /\ counted' = Matching(as)
    /\ past' = Began
    /\ UNCHANGED <<listing, docVars, page, as, reserved, rows, found, read, owners, seenVars>>

\* the active ones among them are read,
FindReported ==
    /\ Do("users")
    /\ owners' = {Owner[d] : d \in counted} \ private
    /\ UNCHANGED <<listing, docVars, page, as, reserved, counted, rows, found, read, seenVars,
                   past>>

\* and then the reports about each, at the same time.
ReportsOf(p) ==
    /\ todo # <<>> /\ Head(todo) = {"reports"} /\ p \in owners
    /\ rows' = rows \cup {d \in Matching(as) : Owner[d] = p}
    /\ owners' = owners \ {p}
    /\ UNCHANGED <<listing, docVars, page, todo, as, reserved, counted, found, read, seenVars,
                   past>>

AllReported ==
    /\ owners = {} /\ Do("reports")
    /\ UNCHANGED <<listing, docVars, page, readVars, seenVars, past>>

\* Variant: secrets that are not active are found too.
QueryInactive(by, n, named) ==
    LET new == {d \in named \cap there : d \notin nested /\ found[d] = 0}
    IN  /\ Do(by)
        /\ found' = [d \in Doc |-> IF d \in new THEN n ELSE found[d]]
        /\ read' = [d \in Doc |-> IF d \in new THEN says[d] ELSE read[d]]
        /\ UNCHANGED <<listing, docVars, page, as, reserved, counted, rows, owners, seenVars, past>>

\* One of three queries for a secret's entry; a secret found before is not taken again.
Query(by, n, named) ==
    LET new == {d \in named \cap there : d \notin off \cup nested /\ found[d] = 0}
    IN  /\ Do(by)
        /\ found' = [d \in Doc |-> IF d \in new THEN n ELSE found[d]]
        /\ read' = [d \in Doc |-> IF d \in new THEN says[d] ELSE read[d]]
        /\ UNCHANGED <<listing, docVars, page, as, reserved, counted, rows, owners, seenVars, past>>

ByUserId   == Query("userId", 1, {d \in Doc : as.account /\ says[d].userId})
ByUsername == Query("username", 2, {d \in Doc : says[d].username})
ByAddress  == Query("publicAddress", 3, {d \in Doc : /\ as.address # None
                                                    /\ says[d].publicAddress = as.address})

\* Without an address so far, the latest is looked up again before the secrets are filtered.
Latest ==
    /\ Do("latest")
    /\ as' = IF as.address = None THEN [as EXCEPT !.address = latest.address] ELSE as
    /\ UNCHANGED <<listing, docVars, page, reserved, counted, rows, found, read, owners, seenVars,
                   past>>

\* Variant: an owner counts as private only while the reader is.
ReadOwnersOfPrivate ==
    /\ Do("owners")
    /\ owners' = IF reserved THEN private ELSE {}
    /\ UNCHANGED <<listing, docVars, page, as, reserved, counted, rows, found, read, seenVars,
                   past>>

ReadOwners ==
    /\ Do("owners")
    /\ owners' = private
    /\ UNCHANGED <<listing, docVars, page, as, reserved, counted, rows, found, read, seenVars,
                   past>>
------------------------------------------------------------------------------
(* The answer. *)

PoolOf(i) == {d \in Doc : found[d] # 0 /\ Shares(read[d], i)}
Pool == PoolOf(as)

Answered ==
    CASE listing = "sharedWhole" -> Pool
      [] listing = "shared"      -> OnPage(Pool, page)
      [] OTHER                   -> rows

Total == Cardinality(IF listing \in Pooled THEN Pool ELSE counted)

\* Variant: there is a next page whenever not all fit on one.
HasMoreThanOne == Limit < Total

HasNextPage == listing \notin Whole /\ page * Limit < Total

\* The owner's privacy mode is not part of what the pages of shared secrets know of him,
\* and two persons without a Telegram id have the same.
OpenTo(o) ==
    \/ o \notin owners
    \/ listing = "children" /\ o = Me
    \/ listing = "sharedWhole" /\ (o = Me \/ {o, Me} \cap Telegram = {})
    \/ listing = "shared"

ViewsShown(set) ==
    IF listing \in WithViews /\ ~ reserved THEN {d \in set : OpenTo(Owner[d])} ELSE {}

\* The next request reads who the reader is anew, and documents come and leave with it.
Readdressed ==
    IF HasNextPage
    THEN [past EXCEPT !.left = @ \cup (Matching(as) \ Listed),
                      !.came = @ \cup (Listed \ Matching(as))]
    ELSE past

Answer ==
    LET answered == IF listing = "children" /\ counted = {} THEN {} ELSE Answered
    IN  /\ todo = <<>>
        /\ shown' = ViewsShown(answered)
        /\ seen' = seen \cup answered
        /\ again' = again \cup (seen \cap answered)
        /\ IF HasNextPage
           THEN page' = page + 1 /\ todo' = Reads
           ELSE page' = page /\ todo' = <<{"done"}>>
        /\ as' = Plain /\ reserved' = FALSE
        /\ counted' = {} /\ rows' = {}
        /\ found' = [d \in Doc |-> 0] /\ read' = [d \in Doc |-> Nothing]
        /\ owners' = {}
        /\ past' = Readdressed
        /\ UNCHANGED <<listing, docVars>>

Walk == Reader \/ Account \/ Access \/ Denied \/ Count \/ Find \/ ByUserId \/ ByUsername
        \/ ByAddress \/ Latest \/ ReadOwners \/ ReadRecipients \/ Distinct \/ FindReported
        \/ (\E p \in Person : ReportsOf(p)) \/ AllReported \/ Answer
------------------------------------------------------------------------------
(* What others do meanwhile. *)

Walking == todo \notin {<<{"done"}>>, <<{"denied"}>>}

Create ==
    /\ created < MaxDocs /\ listing \notin Lists
    /\ created' = created + 1 /\ there' = there \cup {created'}
    /\ UNCHANGED <<off, hidden, nested, says, parentShared, place, latest, private>>

DeleteSecret(d) ==
    /\ listing \in Secrets
    /\ there' = there \ {d} /\ off' = off \ {d} /\ hidden' = hidden \ {d}
    /\ UNCHANGED <<created, nested, says, parentShared, place, latest, private>>

Toggled(set, d) == IF d \in set THEN set \ {d} ELSE set \cup {d}

\* An update stores whatever fields it carries, and the address its token was issued for.
Update(d) ==
    /\ listing \in Secrets
    /\ \/ off' = Toggled(off, d) /\ UNCHANGED <<hidden, nested>>
       \/ hidden' = Toggled(hidden, d) /\ UNCHANGED <<off, nested>>
       \/ nested' = Toggled(nested, d) /\ UNCHANGED <<off, hidden>>
       \/ listing = "own" /\ UNCHANGED <<off, hidden, nested>>
    /\ \/ says' = says
       \/ /\ listing = "own"
          /\ \E e \in Says : /\ e.publicAddress # None /\ e.userId = says[d].userId
                             /\ says' = [says EXCEPT ![d] = e]
    /\ UNCHANGED <<created, there, parentShared, place, latest, private>>

Reshare(d) ==
    /\ listing \in Pooled
    /\ \E e \in Says : says' = [says EXCEPT ![d] = e]
    /\ UNCHANGED <<created, there, off, hidden, nested, parentShared, place, latest, private>>

ReshareParent ==
    /\ listing = "children"
    /\ parentShared' = ~ parentShared
    /\ UNCHANGED <<created, there, off, hidden, nested, says, place, latest, private>>

\* The one is not where it was to the other.
Swapped(e, d) == (place'[e] < place'[d]) # (place[e] < place[d])

\* An update puts another list in the place of a key's list: any of the recipients stay, others
\* come anywhere, and those that stay may be in another order.  (Where those are put who left
\* only matters to what has been ahead of whom.)
Rewrite ==
    /\ listing \in Lists
    /\ listing = "recipients" => parentShared
    /\ created' \in created..MaxDocs
    /\ \E kept \in SUBSET there :
          /\ there' = kept \cup (created + 1)..created'
          /\ place' \in [Doc -> Doc]
          /\ \A e, d \in Doc : place'[e] = place'[d] => e = d
          /\ \A d \in Doc : d > created' => place'[d] = d
          /\ listing = "recipientsWhole" => place' = place
          /\ \/ \A e, d \in 1..created : ~ Swapped(e, d)
             \/ \E e, d \in kept : Swapped(e, d)
    /\ UNCHANGED <<off, hidden, nested, says, parentShared, latest, private>>

\* It is deleted with its secret; another secret may have the key.
DeleteList ==
    /\ listing \in Lists
    /\ there' = {}
    /\ parentShared' \in (IF listing = "recipients" THEN BOOLEAN ELSE {parentShared})
    /\ UNCHANGED <<created, off, hidden, nested, says, place, latest, private>>

AddAddress ==
    /\ listing \in Addressed
    /\ latest' \in Findable
    /\ latest'.account = latest.account /\ latest'.address \notin {None, latest.address}
    /\ UNCHANGED <<created, there, off, hidden, nested, says, parentShared, place, private>>

\* The reader's account is renamed, deactivated, or has his name again; a deactivated one has
\* no address to be found by.
SetAccount ==
    /\ listing \in Pooled
    /\ latest' \in Findable
    /\ latest'.account = ~ latest.account
    /\ IF latest.account THEN latest'.address \in {None, latest.address}
                         ELSE latest.address \in {None, latest'.address}
    /\ UNCHANGED <<created, there, off, hidden, nested, says, parentShared, place, private>>

SetPrivacy(o) ==
    /\ listing \in WithViews
    /\ private' = Toggled(private, o)
    /\ UNCHANGED <<created, there, off, hidden, nested, says, parentShared, place, latest>>

SetActivePerson(o) ==
    /\ listing = "reportedUsers"
    /\ private' = Toggled(private, o)
    /\ UNCHANGED <<created, there, off, hidden, nested, says, parentShared, place, latest>>

SetActive(d) ==
    /\ listing \in {"users", "usersExceptMe"}
    /\ off' = Toggled(off, d)
    /\ UNCHANGED <<created, there, hidden, nested, says, parentShared, place, latest, private>>

Resolve(d) ==
    /\ listing \in {"reports", "reportedUsers"} /\ d \notin off
    /\ off' = off \cup {d}
    /\ UNCHANGED <<created, there, hidden, nested, says, parentShared, place, latest, private>>

\* Old notifications go, up to d.
CleanUp(d) ==
    /\ listing \in {"notifications", "adminNotifications"}
    /\ there' = {e \in there : e > d}
    /\ UNCHANGED <<created, off, hidden, nested, says, parentShared, place, latest, private>>

DeleteLog(d) ==
    /\ listing \in {"logs", "adminLogs"}
    /\ there' = there \ {d}
    /\ UNCHANGED <<created, off, hidden, nested, says, parentShared, place, latest, private>>

Change ==
    \/ Create \/ ReshareParent \/ Rewrite \/ DeleteList \/ AddAddress \/ SetAccount
    \/ \E o \in Person : SetPrivacy(o) \/ SetActivePerson(o)
    \/ \E d \in there : \/ DeleteSecret(d) \/ Update(d) \/ Reshare(d)
                        \/ SetActive(d) \/ Resolve(d) \/ CleanUp(d) \/ DeleteLog(d)

\* Documents come and leave for the reader as the request under way has read him, too.
Asking == IF todo = Reads THEN Listed ELSE Matching(as)

\* The query that finds d first, for the reader i.
Class(d, i) == IF i.account /\ says[d].userId THEN 1 ELSE IF says[d].username THEN 2 ELSE 3

Moved == {d \in Doc : \/ listing \in Pooled /\ says'[d] # says[d]
                      \/ listing = "shared" /\ Class(d, latest)' # Class(d, latest)
                      \/ d \in there \cap there' /\ \E e \in there \cap there' : Swapped(e, d)}

Noted == [past EXCEPT
    !.steady = @ \cap Listed',
    !.left = @ \cup (Listed \ Listed') \cup (Asking \ Asking'),
    !.came = @ \cup (Listed' \ Listed) \cup (Asking' \ Asking),
    !.moved = @ \cup Moved,
    !.ever = @ \cup Matching(latest)', !.readdressed = @ \/ latest' # latest,
    !.unknown = @ \/ ~ latest'.account,
    !.open = @ \cup (Person \ private')]

Meanwhile ==
    /\ Walking
    /\ changes < MaxChanges /\ changes' = changes + 1
    /\ UNCHANGED <<listing, page, todo, readVars, seenVars>>
    /\ Change
    /\ past' = Noted

Next == Walk \/ Meanwhile

Spec == Init /\ [][Next]_vars
------------------------------------------------------------------------------
(* Properties. *)

Walked == todo = <<{"done"}>>

\* A document that is listed from the first page asked for to the last answer, and is on
\* none of the pages, was moved up by one ahead of it that left the listing, be it with the
\* reader's address or account, or the walk ended early because a page counted the documents
\* before one came, or the recipients were put in another order.  All shared secrets at once
\* are not told of a secret only if its entry was rewritten between the queries; in pages of
\* them any change of another entry, or of the query that finds one, may hide it.
MissedForACause ==
    Walked => \A d \in past.steady \ seen :
        CASE listing = "sharedWhole" -> d \in past.moved
          [] listing \in Whole \ Pooled -> FALSE
          [] OTHER -> \/ past.short
                      \/ \E e \in past.left : Ahead(e, d)
                      \/ listing = "recipients" /\ past.moved # {}
                      \/ listing = "shared" /\ past.left \cup past.moved # {}

\* A document is answered twice only if one came ahead of it, or the recipients were put in
\* another order, or, in pages of shared secrets, if one came, its entry was rewritten or
\* another query finds it than before.
RepeatedForACause ==
    \A d \in again :
        \/ \E e \in past.came : Ahead(e, d)
        \/ listing = "recipients" /\ past.moved # {}
        \/ listing = "shared" /\ past.came \cup past.moved # {}

\* A page has no row that was not listed at some moment of its request, unless the reader's
\* address or account was replaced while it ran; reports are answered about users active at
\* some moment.
ExtraForACause ==
    todo = <<>> =>
        /\ Answered \subseteq past.ever \/ past.readdressed
        /\ listing = "reportedUsers" => \A d \in Answered : Owner[d] \in past.open

\* Views of a secret are shown only if its owner and the reader were out of privacy mode at
\* some moment of the request, or the secret is the reader's.  Where the code does not see
\* the mode is excused: the reader's while no active account has his name, the owner's in the
\* pages of shared secrets, and between two accounts without Telegram.
ViewsShownForACause ==
    \A d \in shown :
        /\ Me \in past.open \/ past.unknown
        /\ \/ Owner[d] \in past.open \cup {Me}
           \/ listing = "sharedWhole" /\ {Owner[d], Me} \cap Telegram = {}
           \/ listing = "shared"
==============================================================================
