------------------------------ MODULE ViewStats ------------------------------
(***************************************************************************)
(* PasswordViewsService.getSecretViewStats as operators on one secret: its *)
(* views, the entries of its sharedWith and the accounts as they are now.  *)
(* An identifier is a pair of a kind and a value; None stands for a field  *)
(* that is missing or empty.                                               *)
(***************************************************************************)
EXTENDS Naturals, FiniteSets, Sequences

CONSTANT None

Identifiers(x) ==
    {i \in {<<"user", x.user>>, <<"telegram", x.telegram>>, <<"name", x.name>>,
            <<"address", x.address>>} : i[2] # None}

\* Variant: the username is taken for the most reliable identifier.
PrimaryKeyByName(v) ==
    IF v.name # None THEN <<"name", v.name>>
    ELSE IF v.user # None THEN <<"user", v.user>> ELSE <<"telegram", v.telegram>>

PrimaryKey(v) ==
    IF v.user # None THEN <<"user", v.user>>
    ELSE IF v.telegram # None THEN <<"telegram", v.telegram>>
    ELSE IF v.name # None THEN <<"name", v.name>> ELSE <<"address", v.address>>

\* The views that are counted: the first one under each key.  A later view replaces the
\* first only if it has a user and the first has none, and then their keys differ.
Deduplicated(views) ==
    {i \in DOMAIN views : \A j \in 1..(i - 1) : PrimaryKey(views[j]) # PrimaryKey(views[i])}

UniqueViewers(views) == Cardinality(Deduplicated(views))

ViewedIdentifiers(views) == UNION {Identifiers(views[i]) : i \in Deduplicated(views)}

\* Variant: the requesting user is recognised by the names the views were made under.
HasViewedSecretByName(me, views) ==
    \E i \in DOMAIN views :
        \/ views[i].name # None /\ views[i].name = me.name
        \/ views[i].address # None /\ views[i].address = me.address

\* Has the requesting user viewed the secret?  The comparisons of telegramId and userId also
\* succeed when both sides are empty.
HasViewedSecret(me, views) ==
    \E i \in DOMAIN views :
        LET v == views[i]
        IN  \/ v.telegram = me.telegram
            \/ v.user = me.user
            \/ v.name # None /\ v.name = me.name
            \/ v.address # None /\ v.address = me.address

\* Where the statistics list an entry e of sharedWith.  accounts maps a user to its
\* identifiers; an account found by its username is read without its username, and then
\* fails the test whether it matches the entry.
Category(e, views, accounts, privacyMode) ==
    LET byName  == {u \in DOMAIN accounts : accounts[u].name = e.name}
        viewed  == ViewedIdentifiers(views)
        account == accounts[e.user]
        seen    == {<<"user", e.user>>, <<"telegram", account.telegram>>,
                    <<"name", account.name>>} \cap viewed # {}
    IN  IF e.user # None
        THEN IF seen THEN "viewed"
             ELSE IF privacyMode[e.user] THEN "unknown" ELSE "notViewed"
        ELSE IF e.name # None /\ byName # {} THEN "dropped"
        ELSE IF e.address # None /\ <<"address", e.address>> \in viewed THEN "viewed"
        ELSE IF e.name # None \/ e.address # None THEN "notViewed" ELSE "dropped"
==============================================================================
