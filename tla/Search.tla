-------------------------------- MODULE Search --------------------------------
(***************************************************************************)
(* Users are searched by name and by address while a list is typed.  A     *)
(* request reads who is asking, then looks for names and for addresses at  *)
(* the same time, merges what both found and cuts the page asked for; a    *)
(* whole address is looked up alone.  Users whom the searcher has shared    *)
(* with come first.  Users are numbered in the order of their names, those  *)
(* without Telegram, whose names are empty, as they are stored.             *)
(***************************************************************************)
EXTENDS Naturals, FiniteSets

CONSTANTS
    Person,      \* users
    Searchers,   \* the users who search
    Telegram,    \* the users with a Telegram id, and so with a name
    Address,
    Queries,     \* what is typed: the names and the addresses it matches
    Active,      \* bound: who may be active to begin with
    Held,        \* bound: the users each address may have to begin with
    Mentions,    \* bound: what lists of recipients may mention to begin with
    Limit,       \* rows of a page
    MaxChanges,  \* bound: changes during a walk
    Nil

Track == {"name", "address"}

ASSUME PersonAssumption ==
    /\ Person \subseteq Nat /\ IsFiniteSet(Person) /\ IsFiniteSet(Address)
    /\ Searchers \subseteq Person /\ Telegram \subseteq Person
    /\ \A u \in Person \ Telegram, v \in Telegram : u < v
    /\ Nil \notin Address /\ Person \cap Address = {}
ASSUME SearchAssumption ==
    /\ Queries \subseteq [whole : BOOLEAN, names : SUBSET Person, addresses : SUBSET Address]
    /\ \A q \in Queries : q.whole => q.names = {}   \* no name is an address
    /\ Active \subseteq SUBSET Person /\ Held \subseteq [Address -> SUBSET Person]
    /\ Mentions \subseteq [Person -> SUBSET (Telegram \cup Address)]
    /\ Limit \in Nat \ {0} /\ MaxChanges \in Nat

VARIABLES
    me, query,   \* who searches for what
    active,      \* users
    recent,      \* the place of each address by its latest update, the latest first
    holders,     \* their users
    mentions,    \* names and addresses in the lists of each owner's active secrets
    changes,
    page, at,    \* the page asked for, and where each part of its request is
    current,     \* the user found to be asking
    saw,         \* what his lists mentioned, as each part read it
    queue,       \* users whose address is still to be looked up, or whose flag is
    records,     \* the addresses found and their users
    byName, byAddress,  \* the users found, each with an address
    flagged,     \* users of a whole address found to be shared with
    seen, again, \* users answered, answered twice
    past         \* history

dataVars == <<me, query, active, recent, holders, mentions, changes>>
readVars == <<current, saw, queue, records, byName, byAddress, flagged>>
seenVars == <<page, seen, again>>
searchVars == <<dataVars, at, readVars, seenVars, past>>

History == [steady : SUBSET Person,           \* matching ever since the walk began
            left : BOOLEAN, came : BOOLEAN,   \* a match, during the walk
            torn : BOOLEAN,                   \* either, while a request was under way
            moved : BOOLEAN,                  \* a list or an address was changed
            active : SUBSET Person,           \* at some moment of the request
            ever : SUBSET (Person \cup Address),  \* mentioned at some moment of the request
            kept : SUBSET (Person \cup Address),  \* mentioned all through it
            failed : BOOLEAN]

Place == 1..Cardinality(Address)
Places == {f \in [Address -> Place] : \A a, b \in Address : f[a] = f[b] => a = b}

SearchTypeOK ==
    /\ me \in Searchers /\ query \in Queries
    /\ active \subseteq Person
    /\ recent \in Places
    /\ holders \in [Address -> SUBSET Person]
    /\ mentions \in [Person -> SUBSET (Telegram \cup Address)]
    /\ changes \in 0..MaxChanges
    /\ page \in 1..(1 + (Cardinality(Person) - 1) \div Limit)
    /\ at \in [Track -> {"who", "shares", "users", "lookups", "records", "populate", "flags",
                         "ready", "done"}]
    /\ current \in Person \cup {Nil}
    /\ saw \in [Track -> SUBSET (Telegram \cup Address)]
    /\ queue \subseteq Person
    /\ records \in [users : [Address -> SUBSET Person], recent : [Address -> Place]]
    /\ byName \in [Person -> Address \cup {Nil}] /\ byAddress \in [Person -> Address \cup {Nil}]
    /\ flagged \subseteq Person
    /\ again \subseteq seen /\ seen \subseteq Person
    /\ past \in History

------------------------------------------------------------------------------
\* Of several addresses the latest updated, in the order in which they were read.
LatestOf(addresses, order) ==
    IF addresses = {} THEN Nil
    ELSE CHOOSE a \in addresses : \A b \in addresses : order[a] <= order[b]

Latest(u) == LatestOf({a \in Address : u \in holders[a]}, recent)

\* The searcher is looked up by his Telegram id, which is empty for all who have none.
Current == IF me \in Telegram THEN me
           ELSE CHOOSE u \in Person \ Telegram : \A v \in Person \ Telegram : u <= v

Matches == {u \in active \ {Current} :
                \/ u \in query.names /\ Latest(u) # Nil
                \/ \E a \in query.addresses : u \in holders[a]}

Fresh == [steady |-> Matches, left |-> FALSE, came |-> FALSE, torn |-> FALSE,
          moved |-> FALSE, active |-> {}, ever |-> {}, kept |-> {}, failed |-> FALSE]

Unread == [u \in Person |-> Nil]
NoRecords == [users |-> [a \in Address |-> {}], recent |-> [a \in Address |-> 1]]

SearchInit ==
    /\ me \in Searchers /\ query \in Queries
    /\ active \in Active
    /\ recent \in Places
    /\ holders \in Held
    /\ mentions \in Mentions
    /\ changes = 0
    /\ page = 1 /\ at = [t \in Track |-> "who"]
    /\ current = Nil /\ saw = [t \in Track |-> {}] /\ queue = {} /\ records = NoRecords
    /\ byName = Unread /\ byAddress = Unread /\ flagged = {}
    /\ seen = {} /\ again = {}
    /\ past = Fresh

------------------------------------------------------------------------------
(* A request. *)

Go(t, from, to) == at[t] = from /\ at' = [at EXCEPT ![t] = to]

\* A whole address is looked up alone; what is typed of none matches no address.
Who ==
    /\ at = [t \in Track |-> "who"]
    /\ current' = Current
    /\ at' = [name |-> IF query.whole THEN "ready" ELSE "shares",
              address |-> IF query.whole THEN "records"
                          ELSE IF query.addresses = {} THEN "ready" ELSE "shares"]
    /\ past' = [past EXCEPT !.active = active, !.ever = mentions[me], !.kept = mentions[me]]
    /\ UNCHANGED <<dataVars, saw, queue, records, byName, byAddress, flagged, seenVars>>

\* Each part reads for itself whom the searcher has shared with.
ReadShares(t) ==
    /\ Go(t, "shares", IF t = "name" THEN "users" ELSE "records")
    /\ saw' = [saw EXCEPT ![t] = mentions[current]]
    /\ UNCHANGED <<dataVars, current, queue, records, byName, byAddress, flagged, seenVars, past>>

ReadUsers ==
    LET found == (active \cap query.names) \ {current}
    IN  /\ Go("name", "users", IF found = {} THEN "ready" ELSE "lookups")
        /\ queue' = found
        /\ UNCHANGED <<dataVars, current, saw, records, byName, byAddress, flagged, seenVars, past>>

\* A user without any address is not an answer.
LookUp ==
    LET u == CHOOSE v \in queue : \A w \in queue : v <= w
    IN  /\ queue # {}
        /\ Go("name", "lookups", IF queue = {u} THEN "ready" ELSE "lookups")
        /\ byName' = [byName EXCEPT ![u] = Latest(u)]
        /\ queue' = queue \ {u}
        /\ UNCHANGED <<dataVars, current, saw, records, byAddress, flagged, seenVars, past>>

ReadRecords ==
    /\ Go("address", "records", "populate")
    /\ records' = [users  |-> [a \in Address |-> IF a \in query.addresses THEN holders[a] ELSE {}],
                   recent |-> recent]
    /\ UNCHANGED <<dataVars, current, saw, queue, byName, byAddress, flagged, seenVars, past>>

\* The first of the addresses read that the user has used.
Record(u) == LatestOf({a \in Address : u \in records.users[a]}, records.recent)

\* Variant: users that are not active are taken, too.
PopulateAll ==
    LET found == [u \in Person |-> IF u = current THEN Nil ELSE Record(u)]
        some == {u \in Person : found[u] # Nil}
    IN  /\ Go("address", "populate", IF query.whole /\ some # {} THEN "flags" ELSE "ready")
        /\ byAddress' = found
        /\ queue' = IF query.whole THEN some ELSE queue
        /\ UNCHANGED <<dataVars, current, saw, records, byName, flagged, seenVars, past>>

\* Each active user is taken with the first of the addresses.
Populate ==
    LET found == [u \in Person |-> IF u \in active \ {current} THEN Record(u) ELSE Nil]
        some == {u \in Person : found[u] # Nil}
    IN  /\ Go("address", "populate", IF query.whole /\ some # {} THEN "flags" ELSE "ready")
        /\ byAddress' = found
        /\ queue' = IF query.whole THEN some ELSE queue
        /\ UNCHANGED <<dataVars, current, saw, records, byName, flagged, seenVars, past>>

\* For a whole address the lists are read anew for each of its users.
ReadFlag(u) ==
    /\ u \in queue
    /\ Go("address", "flags", IF queue = {u} THEN "ready" ELSE "flags")
    /\ queue' = queue \ {u}
    /\ flagged' = IF {u, byAddress[u]} \cap mentions[current] = {} THEN flagged
                  ELSE flagged \cup {u}
    /\ UNCHANGED <<dataVars, current, saw, records, byName, byAddress, seenVars, past>>

\* An error while a whole address is looked up is answered with no users.
Fail ==
    /\ query.whole /\ at["address"] \in {"records", "populate", "flags"}
    /\ at' = [at EXCEPT !["address"] = "ready"]
    /\ byAddress' = Unread /\ flagged' = {} /\ queue' = {}
    /\ past' = [past EXCEPT !.failed = TRUE]
    /\ UNCHANGED <<dataVars, current, saw, records, byName, seenVars>>

------------------------------------------------------------------------------
(* The answer. *)

Ready == at = [t \in Track |-> "ready"]
Found == {u \in Person : byName[u] # Nil \/ byAddress[u] # Nil}

\* Variant: whoever is found by name keeps what the address says of him.
SharedByAnyMeans(u) ==
    {u, byName[u], byAddress[u]} \cap (flagged \cup saw["name"] \cup saw["address"]) # {}

\* Who is found by name is taken as found by name.
PreviouslyShared(u) ==
    CASE query.whole       -> u \in flagged
      [] byName[u] # Nil   -> u \in saw["name"]
      [] OTHER             -> {u, byAddress[u]} \cap saw["address"] # {}

Ahead(v, u) ==
    IF PreviouslyShared(v) = PreviouslyShared(u) THEN v < u ELSE PreviouslyShared(v)

\* Variant: pages are counted from 0.
OnPageFromZero(p) == {u \in Found : Cardinality({v \in Found : Ahead(v, u)}) \div Limit = p}

OnPage(p) == {u \in Found : Cardinality({v \in Found : Ahead(v, u)}) \div Limit = p - 1}

\* Variant: there is a next page whenever not all fit on one.
HasMoreThanOne == Limit < Cardinality(Found)

HasNextPage == ~ query.whole /\ page * Limit < Cardinality(Found)

Answer ==
    LET answered == IF query.whole THEN Found ELSE OnPage(page)
    IN  /\ Ready
        /\ seen' = seen \cup answered /\ again' = again \cup (seen \cap answered)
        /\ page' = IF HasNextPage THEN page + 1 ELSE page
        /\ at' = [t \in Track |-> IF HasNextPage THEN "who" ELSE "done"]
        /\ current' = Nil /\ saw' = [t \in Track |-> {}] /\ queue' = {} /\ records' = NoRecords
        /\ byName' = Unread /\ byAddress' = Unread /\ flagged' = {}
        /\ UNCHANGED <<dataVars, past>>

Walk == Who \/ (\E t \in Track : ReadShares(t)) \/ ReadUsers \/ LookUp \/ ReadRecords \/ Populate
        \/ (\E u \in Person : ReadFlag(u)) \/ Fail \/ Answer

------------------------------------------------------------------------------
(* What others do meanwhile. *)

SetActive(u) ==
    /\ active' \in {active \cup {u}, active \ {u}} \ {active}
    /\ UNCHANGED <<recent, holders, mentions>>

\* A user links an address, or names it again; it becomes the latest updated.
LinkAddress(u, a) ==
    /\ holders' = [holders EXCEPT ![a] = @ \cup {u}]
    /\ recent' = [b \in Address |-> CASE b = a -> 1
                                       [] recent[b] < recent[a] -> recent[b] + 1
                                       [] OTHER -> recent[b]]
    /\ UNCHANGED <<active, mentions>>

Share(o, x) ==
    /\ \/ mentions' = [mentions EXCEPT ![o] = @ \cup {x}]
       \/ mentions' = [mentions EXCEPT ![o] = @ \ {x}]
    /\ UNCHANGED <<active, recent, holders>>

Noted == [past EXCEPT
    !.steady = @ \cap Matches',
    !.left = @ \/ ~ Matches \subseteq Matches', !.came = @ \/ ~ Matches' \subseteq Matches,
    !.torn = @ \/ (Matches' # Matches /\ at # [t \in Track |-> "who"]),
    !.moved = @ \/ mentions' # mentions \/ holders' # holders \/ recent' # recent,
    !.active = @ \cup active', !.ever = @ \cup mentions'[me], !.kept = @ \cap mentions'[me]]

Meanwhile ==
    /\ at # [t \in Track |-> "done"]
    /\ changes < MaxChanges /\ changes' = changes + 1
    /\ \/ \E u \in Person : SetActive(u)
       \/ \E u \in Person, a \in Address : LinkAddress(u, a)
       \/ \E o \in {me, Current}, x \in Telegram \cup Address : Share(o, x)
    /\ UNCHANGED <<me, query, at, readVars, seenVars>>
    /\ past' = Noted

SearchNext == Walk \/ Meanwhile

SearchSpec == SearchInit /\ [][SearchNext]_searchVars
------------------------------------------------------------------------------
(* Properties. *)

\* Who is found was active at some moment of the request, matches what was typed, and has
\* the address he is shown with (users.service.ts:719-1074).
FoundForACause ==
    Ready => \A u \in Found :
        /\ u # current /\ u \in past.active
        /\ \/ byName[u] # Nil /\ u \in query.names /\ u \in holders[byName[u]]
           \/ byAddress[u] \in query.addresses /\ u \in holders[byAddress[u]]

\* Previously shared is who the searcher's lists mentioned at some moment of the request;
\* who is not so called was not mentioned all through it, by the name if found by name.
\* A searcher without Telegram may be taken for another (users.service.ts:666).
FlaggedForACause ==
    Ready /\ current = me => \A u \in Found :
        IF PreviouslyShared(u)
        THEN u \in past.ever \/ (byName[u] = Nil /\ byAddress[u] \in past.ever)
        ELSE u \notin past.kept /\ (byName[u] = Nil => byAddress[u] \notin past.kept)

\* A user who matches all through the walk and is on none of its pages was moved by one who
\* left or by a change of lists or addresses, or the lookup failed; one who is on two was
\* moved by one who came or by such a change. Either may also be moved by one who came or
\* left between the two parts of a request: he is then found by one part only, which may
\* say otherwise whether he was shared with (users.service.ts:683-709).
PagesForACause ==
    /\ at = [t \in Track |-> "done"] /\ past.steady \ seen # {} =>
          past.left \/ past.torn \/ past.moved \/ past.failed
    /\ again # {} => past.came \/ past.torn \/ past.moved
==============================================================================
