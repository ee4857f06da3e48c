----------------------------- MODULE ClaimsProofs -----------------------------
(***************************************************************************)
(* Proofs about Claims, for any accounts, secrets, logins and updates.     *)
(* Two facts carry them.  Address records only grow, so who stands beside  *)
(* an address in any list, stored or held by a request, stays a holder.    *)
(* And a list a quiet login has still to rewrite is the list it has read.  *)
(***************************************************************************)
EXTENDS Claims, TLAPS

Linked == {"read", "claim", "token"}

Paired(x) ==
    x.user # None /\ x.address # None
        => x.user \in Holders(x.address) \/ x \in UNION Wanted

LoginOK(l) ==
    /\ pc[l] # "idle" => with[l] \in Address
    /\ pc[l] \in {"link", "relink"} => account[l] \in Account
    /\ pc[l] \in Linked => account[l] \in Holders(with[l])
    /\ pc[l] = "relink" => record[with[l]] # None
    /\ pc[l] \in {"person", "create", "link"} /\ seen[l] # None => record[with[l]] # None

LoginInv == \A l \in Login : LoginOK(l)

EditInv ==
    \A e \in Edit :
        /\ step[e] # "idle" => target[e] \in Secret
        /\ pending[e] \subseteq UNION Wanted

PairInv ==
    /\ \A s \in Secret : \A x \in sharedWith[s] : Paired(x)
    /\ \A l \in Login, s \in Secret : \A x \in mine[l][s] : Paired(x)
    /\ \A e \in Edit : \A x \in built[e] : Paired(x)

Served(list, l) == Names(list, with[l]) => \E x \in list : x.user = account[l]

QuietOK(l) ==
    quiet[l] =>
        /\ pc[l] \in {"claim", "token"}
        /\ pc[l] = "claim" => \A s \in Secret : IF s \in todo[l] THEN mine[l][s] = sharedWith[s]
                                                ELSE Served(sharedWith[s], l)
        /\ pc[l] = "token" => \A s \in Secret : Served(sharedWith[s], l)

QuietInv == \A l \in Login : QuietOK(l)

IInv == TypeOK /\ LoginInv /\ EditInv /\ PairInv /\ QuietInv

------------------------------------------------------------------------------
LEMMA InitIInv == Init => IInv
<1> SUFFICES ASSUME Init PROVE IInv
  OBVIOUS
<1>1. TypeOK
  <2>1. /\ person \in [Account -> Person \cup {None}]
        /\ record \in [Address -> Seq(Account) \cup {None}]
    BY AccountAssumption DEF Init, Account
  <2>2. /\ exists \subseteq Account
        /\ active \in [Account -> BOOLEAN]
        /\ sharedWith \in [Secret -> SUBSET Entry]
        /\ mine \in [Login -> [Secret -> SUBSET Entry]]
        /\ built \in [Edit -> SUBSET Entry]
    BY DEF Init, Account
  <2>3. /\ pc \in [Login -> LoginSteps]
        /\ step \in [Edit -> EditSteps]
        /\ failures \in 0..MaxFailures /\ deactivations \in 0..MaxDeactivations
    BY SecretAssumption DEF Init, LoginSteps, EditSteps
  <2>4. QED
    BY <2>1, <2>2, <2>3 DEF Init, TypeOK
<1>2. LoginInv /\ EditInv /\ PairInv /\ QuietInv
  BY DEF Init, LoginInv, LoginOK, EditInv, PairInv, QuietInv, QuietOK, Linked
<1>3. QED
  BY <1>1, <1>2 DEF IInv

LEMMA HoldersAreAccounts ==
    ASSUME TypeOK, NEW a \in Address
    PROVE  Holders(a) \subseteq Account
  BY DEF TypeOK, Holders

LEMMA LatestIsAddress ==
    ASSUME NEW u
    PROVE  \A a \in Latest(u) : a = None \/ (a \in Address /\ u \in Holders(a))
  BY DEF Latest

\* What an entry expands to is made of entries, each beside an address of its own or as the
\* owner has asked for it.
LEMMA FoundIsPaired ==
    ASSUME TypeOK, NEW x \in Entry, x \in UNION Wanted, NEW xs \in Found(x), NEW y \in xs
    PROVE  y \in Entry /\ Paired(y)
<1>1. x.user \in Account \cup {None} /\ x.address \in Address \cup {None}
  BY DEF Entry
<1>2. CASE x.user # None /\ active[x.user]
  <2>1. PICK a \in IF x.address # None THEN {x.address} ELSE Latest(x.user) :
             xs = {[user |-> x.user, address |-> a]}
    BY <1>2 DEF Found
  <2>2. y = [user |-> x.user, address |-> a]
    BY <2>1
  <2>3. a \in Address \cup {None}
    BY <1>1, <2>1, LatestIsAddress
  <2>4. y \in Entry
    BY <1>1, <2>2, <2>3 DEF Entry
  <2>5. CASE x.address # None
    <3>1. y = x
      BY <2>1, <2>2, <2>5 DEF Entry
    <3>2. QED
      BY <2>4, <3>1 DEF Paired
  <2>6. CASE x.address = None
    <3>1. a = None \/ x.user \in Holders(a)
      BY <2>1, <2>6, LatestIsAddress
    <3>2. QED
      BY <2>2, <2>4, <3>1 DEF Paired
  <2>7. QED
    BY <2>5, <2>6
<1>3. CASE ~(x.user # None /\ active[x.user])
  <2> DEFINE holders == IF x.address = None THEN {} ELSE {u \in Holders(x.address) : active[u]}
  <2>1. y = [user |-> None, address |-> x.address]
        \/ \E u \in holders : y = [user |-> u, address |-> x.address]
    BY <1>3 DEF Found
  <2>2. CASE y = [user |-> None, address |-> x.address]
    BY <1>1, <2>2 DEF Entry, Paired
  <2>3. ASSUME NEW u \in holders, y = [user |-> u, address |-> x.address]
        PROVE  y \in Entry /\ Paired(y)
    <3>1. x.address \in Address /\ u \in Holders(x.address)
      BY <1>1, <2>3
    <3>2. u \in Account
      BY <3>1, HoldersAreAccounts
    <3>3. QED
      BY <2>3, <3>1, <3>2 DEF Entry, Paired
  <2>4. QED
    BY <2>1, <2>2, <2>3
<1>4. QED
  BY <1>2, <1>3

\* A claim by a holder of the address keeps every entry of the list in its place.
LEMMA ClaimedIsPaired ==
    ASSUME NEW list \in SUBSET Entry, \A x \in list : Paired(x),
           NEW a \in Address, NEW u \in Account, u \in Holders(a),
           NEW new \in Claimed(list, a, u)
    PROVE  /\ new \in SUBSET Entry
           /\ \A x \in new : Paired(x)
           /\ \E x \in new : x.user = u
<1>1. \A b \in {a, None} : /\ [user |-> u, address |-> b] \in Entry
                           /\ Paired([user |-> u, address |-> b])
  BY DEF Entry, Paired
<1>2. \/ new = list /\ \E x \in list : x.address = a /\ x.user = u
      \/ \E b \in {a, None} : /\ new \subseteq list \cup {[user |-> u, address |-> b]}
                              /\ [user |-> u, address |-> b] \in new
  BY DEF Claimed
<1>3. CASE new = list /\ \E x \in list : x.address = a /\ x.user = u
  BY <1>3
<1>4. ASSUME NEW b \in {a, None}, new \subseteq list \cup {[user |-> u, address |-> b]},
             [user |-> u, address |-> b] \in new
      PROVE  /\ new \in SUBSET Entry
             /\ \A x \in new : Paired(x)
             /\ \E x \in new : x.user = u
  <2>1. \E x \in new : x.user = u
    BY <1>4
  <2>2. QED
    BY <1>1, <1>4, <2>1
<1>5. QED
  BY <1>2, <1>3, <1>4

------------------------------------------------------------------------------
LEMMA TypeStep ==
    ASSUME TypeOK, LoginInv, EditInv, PairInv, [Next]_vars
    PROVE  TypeOK'
<1>1. ASSUME NEW l \in Login, NEW a \in Address, NEW p \in Person \cup {None}, Arrive(l, a, p)
      PROVE  TypeOK'
  BY <1>1 DEF TypeOK, Arrive, Goto, LoginSteps, users, editVars, bounds
<1>2. ASSUME NEW l \in Login, FindRecord(l) PROVE TypeOK'
  <2>1. with[l] \in Address /\ record[with[l]] \in Seq(Account) \cup {None}
    BY <1>2 DEF TypeOK, FindRecord, LoginInv, LoginOK
  <2>2. /\ seen' \in [Login -> Seq(Account) \cup {None}]
        /\ seen'[l] = record[with[l]]
    BY <1>2, <2>1 DEF TypeOK, FindRecord
  <2>3. pc' \in [Login -> LoginSteps]
    <3>1. \E to \in {"person", "create", "token", "refused"} : pc' = [pc EXCEPT ![l] = to]
      BY <1>2, Zenon DEF FindRecord, Goto
    <3>2. QED
      BY <3>1 DEF TypeOK, LoginSteps
  <2>4. account' \in [Login -> Account \cup {None}]
    <3>1. CASE UNCHANGED account
      BY <3>1 DEF TypeOK
    <3>2. CASE /\ seen'[l] # None /\ seen'[l] # <<>>
               /\ account' = [account EXCEPT ![l] = Head(seen'[l])]
      <4>1. Head(seen'[l]) \in Account
        BY <2>1, <2>2, <3>2
      <4>2. QED
        BY <3>2, <4>1 DEF TypeOK
    <3>3. QED
      BY <1>2, <3>1, <3>2 DEF FindRecord
  <2>5. QED
    BY <1>2, <2>2, <2>3, <2>4 DEF TypeOK, FindRecord, users, editVars, bounds
<1>3. ASSUME NEW l \in Login, FindPerson(l) PROVE TypeOK'
  <2>1. \E to \in {"create", "link"} : pc' = [pc EXCEPT ![l] = to]
    BY <1>3, Zenon DEF FindPerson, Goto
  <2>2. UNCHANGED account \/ \E u \in exists : account' = [account EXCEPT ![l] = u]
    BY <1>3 DEF FindPerson
  <2>3. pc' \in [Login -> LoginSteps] /\ account' \in [Login -> Account \cup {None}]
    BY <2>1, <2>2 DEF TypeOK, LoginSteps
  <2>4. QED
    BY <1>3, <2>3 DEF TypeOK, FindPerson, users, editVars, bounds
<1>4. ASSUME NEW l \in Login, CreateAccount(l) PROVE TypeOK'
  <2>1. l \in Account /\ via[l] \in Person \cup {None}
    BY DEF TypeOK, Account
  <2>2. QED
    BY <1>4, <2>1 DEF TypeOK, CreateAccount, Goto, LoginSteps, editVars, bounds
<1>5. ASSUME NEW l \in Login, Link(l) \/ Relink(l) PROVE TypeOK'
  <2>1. /\ with[l] \in Address /\ account[l] \in Account
        /\ pc[l] = "link" /\ seen[l] # None => record[with[l]] # None
        /\ pc[l] = "relink" => record[with[l]] # None
    BY <1>5 DEF Link, Relink, Goto, LoginInv, LoginOK
  <2>2. record' \in [Address -> Seq(Account) \cup {None}]
    <3>1. CASE UNCHANGED record
      BY <3>1 DEF TypeOK
    <3>2. CASE record' = [record EXCEPT ![with[l]] = <<account[l]>>]
      BY <2>1, <3>2 DEF TypeOK
    <3>3. CASE /\ record[with[l]] # None
               /\ record' = [record EXCEPT ![with[l]] = Append(@, account[l])]
      <4>1. Append(record[with[l]], account[l]) \in Seq(Account)
        BY <2>1, <3>3 DEF TypeOK
      <4>2. QED
        BY <3>3, <4>1 DEF TypeOK
    <3>4. QED
      BY <1>5, <2>1, <3>1, <3>2, <3>3 DEF Link, Relink, Goto, TypeOK
  <2>3. pc' \in [Login -> LoginSteps]
    BY <1>5 DEF TypeOK, Link, Relink, Goto, LoginSteps
  <2>4. QED
    BY <1>5, <2>2, <2>3 DEF TypeOK, Link, Relink, users, editVars, bounds
<1>6. ASSUME NEW l \in Login, ReadShared(l) PROVE TypeOK'
  <2>1. mine' \in [Login -> [Secret -> SUBSET Entry]]
    <3>1. [s \in Secret |-> IF s \in {t \in Secret : Names(sharedWith[t], with[l])}
                            THEN sharedWith[s] ELSE {}] \in [Secret -> SUBSET Entry]
      BY DEF TypeOK
    <3>2. QED
      BY <1>6, <3>1 DEF TypeOK, ReadShared
  <2>2. /\ pc' \in [Login -> LoginSteps]
        /\ todo' \in [Login -> SUBSET Secret]
        /\ quiet' \in [Login -> BOOLEAN]
    BY <1>6 DEF TypeOK, ReadShared, Goto, LoginSteps
  <2>3. QED
    BY <1>6, <2>1, <2>2 DEF TypeOK, ReadShared, users, editVars, bounds
<1>7. ASSUME NEW l \in Login, NEW s \in Secret, WriteClaim(l, s) PROVE TypeOK'
  <2>1. /\ with[l] \in Address /\ account[l] \in Account /\ account[l] \in Holders(with[l])
    BY <1>7, HoldersAreAccounts DEF WriteClaim, LoginInv, LoginOK, Linked
  <2>2. sharedWith' \in [Secret -> SUBSET Entry]
    <3>1. PICK list \in Claimed(mine[l][s], with[l], account[l]) :
               sharedWith' = [sharedWith EXCEPT ![s] = list]
      BY <1>7 DEF WriteClaim
    <3>2. mine[l][s] \in SUBSET Entry /\ \A x \in mine[l][s] : Paired(x)
      BY DEF TypeOK, PairInv
    <3>3. list \in SUBSET Entry
      BY <2>1, <3>1, <3>2, ClaimedIsPaired
    <3>4. QED
      BY <3>1, <3>3 DEF TypeOK
  <2>3. /\ pc' \in [Login -> LoginSteps]
        /\ todo' \in [Login -> SUBSET Secret]
    BY <1>7 DEF TypeOK, WriteClaim, Goto, LoginSteps
  <2>4. quiet' \in [Login -> BOOLEAN]
    BY <1>7, Zenon DEF WriteClaim, StillQuiet
  <2>5. QED
    BY <1>7, <2>2, <2>3, <2>4 DEF TypeOK, WriteClaim, users, editVars, bounds
<1>8. ASSUME NEW l \in Login, AbandonClaim(l) PROVE TypeOK'
  BY <1>8, SecretAssumption DEF TypeOK, AbandonClaim, Goto, LoginSteps, users, editVars
<1>9. ASSUME NEW e \in Edit, NEW u \in exists, NEW s \in Secret, NEW list \in Wanted,
             FindSecret(e, u, s, list)
      PROVE  TypeOK'
  BY <1>9, SecretAssumption DEF TypeOK, FindSecret, Turn, EditSteps, users, loginVars, bounds
<1>10. ASSUME NEW e \in Edit, Expand(e) PROVE TypeOK'
  <2>1. PICK x \in pending[e] :
             /\ pending' = [pending EXCEPT ![e] = @ \ {x}]
             /\ \E xs \in Found(x) : built' = [built EXCEPT ![e] = @ \cup xs]
    BY <1>10 DEF Expand
  <2>2. x \in Entry /\ x \in UNION Wanted
    BY DEF EditInv, TypeOK
  <2>3. \A xs \in Found(x) : xs \subseteq Entry
    BY <2>2, FoundIsPaired
  <2>4. pending' \in [Edit -> SUBSET Entry] /\ built' \in [Edit -> SUBSET Entry]
    BY <2>1, <2>3 DEF TypeOK
  <2>5. step' \in [Edit -> EditSteps]
    BY <1>10 DEF TypeOK, Expand, Turn, EditSteps
  <2>6. QED
    BY <1>10, <2>4, <2>5 DEF TypeOK, Expand, users, loginVars, bounds
<1>11. ASSUME NEW e \in Edit, FilterSelf(e) PROVE TypeOK'
  BY <1>11 DEF TypeOK, FilterSelf, Turn, EditSteps, users, loginVars, bounds
<1>12. ASSUME NEW e \in Edit, Store(e) PROVE TypeOK'
  <2>1. quiet' \in [Login -> BOOLEAN]
    BY <1>12, Zenon DEF Store, StillQuiet
  <2>2. QED
    BY <1>12, <2>1 DEF TypeOK, Store, Turn, EditSteps, users, loginVars, bounds
<1>13. ASSUME NEW u \in exists, Deactivate(u) PROVE TypeOK'
  BY <1>13, SecretAssumption DEF TypeOK, Deactivate, loginVars, editVars
<1>14. CASE UNCHANGED vars
  BY <1>14 DEF TypeOK, vars, users, loginVars, editVars, bounds
<1>15. QED
  BY <1>1, <1>2, <1>3, <1>4, <1>5, <1>6, <1>7, <1>8, <1>9, <1>10, <1>11, <1>12, <1>13, <1>14
  DEF Next, AllAnswered

------------------------------------------------------------------------------
\* No login unlinks anybody: records are created and appended to.
LEMMA RecordGrows ==
    ASSUME TypeOK, LoginInv, [Next]_vars, NEW a \in Address
    PROVE  /\ Holders(a) \subseteq Holders(a)'
           /\ record[a] # None => record'[a] # None
<1>1. CASE UNCHANGED record
  BY <1>1 DEF Holders
<1>2. ASSUME NEW l \in Login, NEW b \in Address, NEW u \in Account,
             \/ record[b] = None /\ record' = [record EXCEPT ![b] = <<u>>]
             \/ record[b] # None /\ record' = [record EXCEPT ![b] = Append(@, u)]
      PROVE  /\ Holders(a) \subseteq Holders(a)'
             /\ record[a] # None => record'[a] # None
  <2>1. CASE a # b \/ record[a] = None
    BY <1>2, <2>1 DEF TypeOK, Holders
  <2>2. CASE a = b /\ record[a] # None
    <3>1. record[a] \in Seq(Account) /\ record'[a] = Append(record[a], u)
      BY <1>2, <2>2 DEF TypeOK
    <3>2. /\ record'[a] \in Seq(Account)
          /\ \A i \in DOMAIN record[a] : i \in DOMAIN record'[a] /\ record'[a][i] = record[a][i]
      BY <3>1
    <3>3. record'[a] # None
      BY <3>2, AccountAssumption
    <3>4. QED
      BY <2>2, <3>2, <3>3 DEF Holders
  <2>3. QED
    BY <2>1, <2>2
<1>3. ASSUME NEW l \in Login, Link(l) \/ Relink(l)
      PROVE  \/ UNCHANGED record
             \/ \E b \in Address, u \in Account :
                   \/ record[b] = None /\ record' = [record EXCEPT ![b] = <<u>>]
                   \/ record[b] # None /\ record' = [record EXCEPT ![b] = Append(@, u)]
  <2>1. /\ with[l] \in Address /\ account[l] \in Account
        /\ pc[l] = "link" /\ seen[l] # None => record[with[l]] # None
        /\ pc[l] = "relink" => record[with[l]] # None
    BY <1>3 DEF Link, Relink, Goto, LoginInv, LoginOK
  <2>2. CASE Link(l)
    BY <2>1, <2>2 DEF Link
  <2>3. CASE Relink(l)
    <3>1. CASE account[l] \in Holders(with[l])
      BY <2>3, <3>1 DEF Relink, TypeOK
    <3>2. CASE account[l] \notin Holders(with[l])
      BY <2>1, <2>3, <3>2 DEF Relink, Goto
    <3>3. QED
      BY <3>1, <3>2
  <2>4. QED
    BY <1>3, <2>2, <2>3
<1>4. QED
  BY <1>1, <1>2, <1>3
  DEF Next, AllAnswered, Arrive, FindRecord, FindPerson, CreateAccount, ReadShared, WriteClaim,
      AbandonClaim, FindSecret, Expand, FilterSelf, Store, Deactivate, vars

LEMMA LinkLinks ==
    ASSUME TypeOK, LoginInv, NEW l \in Login, Link(l) \/ Relink(l), pc'[l] = "read"
    PROVE  account[l] \in Holders(with[l])'
<1> DEFINE a == with[l]
           u == account[l]
<1>1. a \in Address /\ u \in Account /\ UNCHANGED with
  BY DEF Link, Relink, Goto, LoginInv, LoginOK
<1>2. CASE record' = [record EXCEPT ![a] = <<u>>]
  <2>1. record'[a] = <<u>> /\ record'[a] \in Seq(Account)
    BY <1>1, <1>2 DEF TypeOK
  <2>2. record'[a] # None /\ 1 \in DOMAIN record'[a] /\ record'[a][1] = u
    <3>1. record'[a] # None
      BY <2>1, AccountAssumption
    <3>2. QED
      BY <2>1, <3>1
  <2>3. with'[l] = with[l] /\ record'[with[l]] # None
    BY <1>1, <2>2
  <2>4. QED
    BY <2>2, <2>3 DEF Holders
<1>3. CASE record[a] # None /\ record' = [record EXCEPT ![a] = Append(@, u)]
  <2>1. /\ record[a] \in Seq(Account) /\ record'[a] = Append(record[a], u)
        /\ record'[a] \in Seq(Account)
    BY <1>1, <1>3 DEF TypeOK
  <2>2. /\ record'[a] # None
        /\ Len(record'[a]) \in DOMAIN record'[a] /\ record'[a][Len(record'[a])] = u
    <3>1. record'[a] # None
      BY <2>1, AccountAssumption
    <3>2. QED
      BY <1>1, <2>1, <3>1
  <2>3. with'[l] = with[l] /\ record'[with[l]] # None
    BY <1>1, <2>2
  <2>4. QED
    BY <2>2, <2>3 DEF Holders
<1>4. CASE u \in Holders(a) /\ UNCHANGED record
  BY <1>1, <1>4 DEF Holders
<1>5. CASE Link(l)
  <2>1. pc[l] = "link" /\ (seen[l] # None => record[a] # None)
    BY <1>5 DEF Link, LoginInv, LoginOK
  <2>2. CASE /\ seen[l] = None
             /\ Goto(l, "link", IF via[l] = None THEN "relink" ELSE "refused")
    <3>1. pc'[l] \in {"relink", "refused"}
      BY <2>2 DEF Goto, TypeOK
    <3>2. QED
      BY <3>1
  <2>3. QED
    BY <1>2, <1>3, <1>5, <2>1, <2>2 DEF Link
<1>6. CASE Relink(l)
  <2>1. record[a] # None
    BY <1>6 DEF Relink, Goto, LoginInv, LoginOK
  <2>2. CASE u \in Holders(a)
    <3>1. record' = [record EXCEPT ![a] = record[a]]
      BY <1>6, <2>2 DEF Relink
    <3>2. record' = record
      BY <1>1, <3>1 DEF TypeOK
    <3>3. QED
      BY <1>4, <2>2, <3>2
  <2>3. CASE u \notin Holders(a)
    BY <1>3, <1>6, <2>1, <2>3 DEF Relink
  <2>4. QED
    BY <2>2, <2>3
<1>7. QED
  BY <1>5, <1>6

\* What happens to one login is its own step; the others only see records grow.
LEMMA OtherLogins ==
    ASSUME TypeOK, LoginInv, [Next]_vars, NEW r \in Login,
           UNCHANGED <<pc[r], with[r], account[r], seen[r]>>
    PROVE  LoginOK(r)'
<1>1. pc[r] # "idle" => with[r] \in Address
  BY DEF LoginInv, LoginOK
<1>2. pc[r] # "idle" => /\ Holders(with[r]) \subseteq Holders(with[r])'
                        /\ record[with[r]] # None => record'[with[r]] # None
  <2>1. SUFFICES ASSUME pc[r] # "idle"
                 PROVE  /\ Holders(with[r]) \subseteq Holders(with[r])'
                        /\ record[with[r]] # None => record'[with[r]] # None
    OBVIOUS
  <2>2. PICK a \in Address : a = with[r]
    BY <1>1, <2>1
  <2>3. Holders(a) \subseteq Holders(a)' /\ (record[a] # None => record'[a] # None)
    BY RecordGrows
  <2>4. QED
    BY <2>2, <2>3 DEF Holders
<1>3. QED
  BY <1>1, <1>2 DEF LoginInv, LoginOK, Linked

LEMMA LoginStep ==
    ASSUME TypeOK, LoginInv, [Next]_vars
    PROVE  LoginInv'
<1> SUFFICES ASSUME NEW r \in Login PROVE LoginOK(r)'
  BY DEF LoginInv
<1>1. CASE UNCHANGED <<pc[r], with[r], account[r], seen[r]>>
  BY <1>1, OtherLogins
<1>2. ASSUME NEW a \in Address, NEW p \in Person \cup {None}, Arrive(r, a, p)
      PROVE  LoginOK(r)'
  BY <1>2 DEF TypeOK, Arrive, Goto, LoginOK, Linked
<1>3. CASE FindRecord(r)
  <2>1. /\ with[r] \in Address /\ UNCHANGED <<with, record>> /\ pc[r] = "record"
        /\ record[with[r]] \in Seq(Account) \cup {None}
        /\ seen'[r] = record[with[r]]
    BY <1>3 DEF TypeOK, FindRecord, LoginInv, LoginOK
  <2>2. CASE pc'[r] \in {"person", "create", "refused"}
    BY <2>1, <2>2 DEF LoginOK, Linked
  <2>3. CASE /\ pc'[r] = "token" /\ seen'[r] # None /\ seen'[r] # <<>>
             /\ account' = [account EXCEPT ![r] = Head(seen'[r])]
    <3>1. 1 \in DOMAIN record[with[r]] /\ account'[r] = record[with[r]][1]
      BY <2>1, <2>3 DEF TypeOK
    <3>2. account'[r] \in Holders(with[r])'
      BY <2>1, <2>3, <3>1 DEF Holders
    <3>3. QED
      BY <2>1, <2>3, <3>2 DEF LoginOK, Linked
  <2>4. QED
    <3>1. \A to : Goto(r, "record", to) => pc'[r] = to
      BY DEF Goto, TypeOK
    <3>2. QED
      BY <1>3, <2>2, <2>3, <3>1 DEF FindRecord
<1>4. CASE FindPerson(r)
  <2>1. /\ pc[r] = "person" /\ UNCHANGED <<with, record, seen>>
        /\ pc'[r] \in {"create", "link"}
        /\ pc'[r] = "link" => account'[r] \in Account
    BY <1>4 DEF TypeOK, FindPerson, Goto
  <2>2. QED
    BY <2>1 DEF LoginInv, LoginOK, Linked
<1>5. CASE CreateAccount(r)
  <2>1. /\ pc[r] = "create" /\ pc'[r] = "link" /\ UNCHANGED <<with, record, seen>>
        /\ account'[r] = r /\ r \in Account
    BY <1>5 DEF TypeOK, CreateAccount, Goto, Account
  <2>2. QED
    BY <2>1 DEF LoginInv, LoginOK, Linked
<1>6. CASE Link(r) \/ Relink(r)
  <2>1. /\ pc[r] \in {"link", "relink"} /\ UNCHANGED <<with, account, seen>>
        /\ with[r] \in Address /\ account[r] \in Account
    BY <1>6 DEF Link, Relink, Goto, LoginInv, LoginOK
  <2>2. \/ pc'[r] = "read"
        \/ pc'[r] = "refused"
        \/ pc'[r] = "relink" /\ record[with[r]] # None /\ UNCHANGED record
    BY <1>6 DEF Link, Relink, Goto, TypeOK
  <2>3. CASE pc'[r] = "read"
    BY <1>6, <2>1, <2>3, LinkLinks DEF LoginOK, Linked
  <2>4. CASE pc'[r] # "read"
    BY <2>1, <2>2, <2>4 DEF LoginOK, Linked
  <2>5. QED
    BY <2>3, <2>4
<1>7. CASE ReadShared(r) \/ AbandonClaim(r) \/ \E s \in Secret : WriteClaim(r, s)
  <2>1. /\ pc[r] \in Linked /\ pc'[r] \in Linked
        /\ UNCHANGED <<with, account, record>>
    BY <1>7 DEF TypeOK, ReadShared, AbandonClaim, WriteClaim, Goto, Linked
  <2>2. QED
    BY <2>1 DEF LoginInv, LoginOK, Linked, Holders
<1>8. ASSUME NEW l \in Login, l # r,
             \/ \E a \in Address, p \in Person \cup {None} : Arrive(l, a, p)
             \/ FindRecord(l) \/ FindPerson(l) \/ CreateAccount(l) \/ Link(l) \/ Relink(l)
             \/ ReadShared(l) \/ AbandonClaim(l) \/ \E s \in Secret : WriteClaim(l, s)
      PROVE  UNCHANGED <<pc[r], with[r], account[r], seen[r]>>
  BY <1>8
  DEF TypeOK, Arrive, FindRecord, FindPerson, CreateAccount, Link, Relink, ReadShared,
      AbandonClaim, WriteClaim, Goto
<1>9. CASE UNCHANGED loginVars
  BY <1>1, <1>9 DEF loginVars
<1>10. QED
  BY <1>1, <1>2, <1>3, <1>4, <1>5, <1>6, <1>7, <1>8, <1>9
  DEF Next, AllAnswered, FindSecret, Expand, FilterSelf, Store, Deactivate, vars

LEMMA EditStep ==
    ASSUME TypeOK, EditInv, [Next]_vars
    PROVE  EditInv'
<1>1. ASSUME NEW e \in Edit, NEW u \in exists, NEW s \in Secret, NEW list \in Wanted,
             FindSecret(e, u, s, list)
      PROVE  EditInv'
  BY <1>1 DEF TypeOK, EditInv, FindSecret, Turn
<1>2. ASSUME NEW e \in Edit, Expand(e) \/ FilterSelf(e) \/ Store(e)
      PROVE  EditInv'
  <2>1. /\ step[e] # "idle" /\ UNCHANGED target
        /\ \A f \in Edit \ {e} : step'[f] = step[f]
    BY <1>2 DEF TypeOK, Expand, FilterSelf, Store, Turn
  <2>2. \A f \in Edit : pending'[f] \subseteq pending[f]
    <3>1. UNCHANGED pending \/ \E x \in pending[e] : pending' = [pending EXCEPT ![e] = @ \ {x}]
      BY <1>2 DEF Expand, FilterSelf, Store
    <3>2. QED
      BY <3>1 DEF TypeOK
  <2>3. QED
    BY <2>1, <2>2 DEF EditInv
<1>3. CASE UNCHANGED <<step, target, pending>>
  BY <1>3 DEF EditInv
<1>4. QED
  BY <1>1, <1>2, <1>3
  DEF Next, AllAnswered, Arrive, FindRecord, FindPerson, CreateAccount, Link, Relink,
      ReadShared, WriteClaim, AbandonClaim, Deactivate, vars, editVars

LEMMA PairedStays ==
    ASSUME TypeOK, LoginInv, [Next]_vars, NEW x \in Entry, Paired(x)
    PROVE  Paired(x)'
<1>1. SUFFICES ASSUME x.user # None, x.address # None, x.user \in Holders(x.address)
               PROVE  x.user \in Holders(x.address)'
  BY DEF Paired
<1>2. x.address \in Address
  BY <1>1 DEF Entry
<1>3. QED
  BY <1>1, <1>2, RecordGrows

LEMMA PairStep ==
    ASSUME TypeOK, LoginInv, EditInv, PairInv, [Next]_vars
    PROVE  PairInv'
<1>1. TypeOK'
  BY TypeStep
<1>2. ASSUME NEW s \in Secret, NEW x \in sharedWith'[s] PROVE Paired(x)
  <2>1. CASE UNCHANGED sharedWith
    BY <1>2, <2>1 DEF PairInv
  <2>2. ASSUME NEW l \in Login, NEW t \in Secret, WriteClaim(l, t) PROVE Paired(x)
    <3>1. /\ with[l] \in Address /\ account[l] \in Account /\ account[l] \in Holders(with[l])
      BY <2>2, HoldersAreAccounts DEF WriteClaim, LoginInv, LoginOK, Linked
    <3>2. PICK list \in Claimed(mine[l][t], with[l], account[l]) :
               sharedWith' = [sharedWith EXCEPT ![t] = list]
      BY <2>2 DEF WriteClaim
    <3>3. mine[l][t] \in SUBSET Entry /\ \A y \in mine[l][t] : Paired(y)
      BY DEF TypeOK, PairInv
    <3>4. \A y \in list : Paired(y)
      BY <3>1, <3>2, <3>3, ClaimedIsPaired
    <3>5. QED
      BY <1>2, <3>2, <3>4 DEF TypeOK, PairInv
  <2>3. ASSUME NEW e \in Edit, Store(e) PROVE Paired(x)
    <3>1. sharedWith' = [sharedWith EXCEPT ![target[e]] = built[e]]
      BY <2>3 DEF Store
    <3>2. QED
      BY <1>2, <3>1 DEF TypeOK, PairInv
  <2>4. QED
    BY <2>1, <2>2, <2>3
    DEF Next, AllAnswered, Arrive, FindRecord, FindPerson, CreateAccount, Link, Relink,
        ReadShared, AbandonClaim, FindSecret, Expand, FilterSelf, Deactivate, vars
<1>3. ASSUME NEW l \in Login, NEW s \in Secret, NEW x \in mine'[l][s] PROVE Paired(x)
  <2>1. CASE UNCHANGED mine
    BY <1>3, <2>1 DEF PairInv
  <2>2. ASSUME NEW r \in Login, ReadShared(r) PROVE Paired(x)
    <3>1. mine'[l] = mine[l] \/ mine'[l][s] \subseteq sharedWith[s]
      BY <2>2 DEF ReadShared, TypeOK
    <3>2. QED
      BY <1>3, <3>1 DEF PairInv
  <2>3. QED
    BY <2>1, <2>2
    DEF Next, AllAnswered, Arrive, FindRecord, FindPerson, CreateAccount, Link, Relink,
        WriteClaim, AbandonClaim, FindSecret, Expand, FilterSelf, Store, Deactivate, vars,
        loginVars
<1>4. ASSUME NEW e \in Edit, NEW x \in built'[e] PROVE Paired(x)
  <2>1. CASE UNCHANGED built
    BY <1>4, <2>1 DEF PairInv
  <2>2. ASSUME NEW f \in Edit, Expand(f) PROVE Paired(x)
    <3>1. PICK y \in pending[f] :
               \E xs \in Found(y) : built' = [built EXCEPT ![f] = @ \cup xs]
      BY <2>2 DEF Expand
    <3>2. y \in Entry /\ y \in UNION Wanted
      BY DEF EditInv, TypeOK
    <3>3. \A xs \in Found(y) : \A z \in xs : Paired(z)
      BY <3>2, FoundIsPaired
    <3>4. QED
      BY <1>4, <3>1, <3>3 DEF TypeOK, PairInv
  <2>3. ASSUME NEW f \in Edit, FilterSelf(f) PROVE Paired(x)
    <3>1. built'[e] \subseteq built[e]
      BY <2>3 DEF FilterSelf, TypeOK
    <3>2. QED
      BY <1>4, <3>1 DEF PairInv
  <2>4. QED
    BY <2>1, <2>2, <2>3
    DEF Next, AllAnswered, Arrive, FindRecord, FindPerson, CreateAccount, Link, Relink,
        ReadShared, WriteClaim, AbandonClaim, FindSecret, Store, Deactivate, vars, editVars
<1>5. QED
  <2>1. \A s \in Secret : sharedWith'[s] \subseteq Entry
    BY <1>1 DEF TypeOK
  <2>2. \A l \in Login, s \in Secret : mine'[l][s] \subseteq Entry
    BY <1>1 DEF TypeOK
  <2>3. \A e \in Edit : built'[e] \subseteq Entry
    BY <1>1 DEF TypeOK
  <2>4. QED
    BY <1>2, <1>3, <1>4, <2>1, <2>2, <2>3, PairedStays DEF PairInv

------------------------------------------------------------------------------
\* What a write of somebody else leaves of a login's quiet.
LEMMA WritersDisturb ==
    ASSUME TypeOK, [Next]_vars, NEW r \in Login, quiet'[r],
           \A s \in Secret : ~WriteClaim(r, s), ~ReadShared(r)
    PROVE  quiet[r] /\ UNCHANGED sharedWith
<1>1. CASE UNCHANGED <<sharedWith, quiet>>
  BY <1>1
<1>2. ASSUME NEW w, w # r, StillQuiet(w) PROVE quiet[r] /\ UNCHANGED sharedWith
  <2>1. quiet'[r] = (quiet[r] /\ (r = w \/ UNCHANGED sharedWith))
    BY <1>2, Zenon DEF StillQuiet
  <2>2. QED
    BY <1>2, <2>1
<1>3. ASSUME NEW l \in Login, NEW s \in Secret, WriteClaim(l, s)
      PROVE  quiet[r] /\ UNCHANGED sharedWith
  BY <1>2, <1>3 DEF WriteClaim
<1>4. ASSUME NEW e \in Edit, Store(e) PROVE quiet[r] /\ UNCHANGED sharedWith
  BY <1>2, <1>4, AccountAssumption DEF Store, Account
<1>5. ASSUME NEW l \in Login, ReadShared(l) \/ AbandonClaim(l)
      PROVE  quiet[r] /\ UNCHANGED sharedWith
  BY <1>5 DEF ReadShared, AbandonClaim, TypeOK
<1>6. QED
  BY <1>1, <1>3, <1>4, <1>5
  DEF Next, AllAnswered, Arrive, FindRecord, FindPerson, CreateAccount, Link, Relink,
      FindSecret, Expand, FilterSelf, Deactivate, vars

LEMMA QuietStep ==
    ASSUME TypeOK, LoginInv, PairInv, QuietInv, [Next]_vars
    PROVE  QuietInv'
<1> SUFFICES ASSUME NEW r \in Login, quiet'[r] PROVE QuietOK(r)'
  BY DEF QuietInv, QuietOK
<1>1. CASE ReadShared(r)
  <2> DEFINE naming == {s \in Secret : Names(sharedWith[s], with[r])}
  <2>1. /\ pc'[r] = (IF naming = {} THEN "token" ELSE "claim")
        /\ todo'[r] = naming
        /\ \A s \in naming : mine'[r][s] = sharedWith[s]
        /\ UNCHANGED <<sharedWith, with, account>>
    BY <1>1 DEF TypeOK, ReadShared, Goto
  <2>2. \A s \in Secret \ naming : ~Names(sharedWith[s], with[r])
    OBVIOUS
  <2>3. QED
    BY <2>1, <2>2 DEF QuietOK, Served, Names
<1>2. ASSUME NEW t \in Secret, WriteClaim(r, t) PROVE QuietOK(r)'
  <2>1. /\ pc[r] = "claim" /\ t \in todo[r]
        /\ with[r] \in Address /\ account[r] \in Account /\ account[r] \in Holders(with[r])
    BY <1>2, HoldersAreAccounts DEF WriteClaim, LoginInv, LoginOK, Linked
  <2>2. quiet[r]
    <3>1. quiet'[r] = (quiet[r] /\ (r = r \/ UNCHANGED sharedWith))
      BY <1>2, Zenon DEF WriteClaim, StillQuiet
    <3>2. QED
      BY <3>1
  <2>3. PICK list \in Claimed(mine[r][t], with[r], account[r]) :
             sharedWith' = [sharedWith EXCEPT ![t] = list]
    BY <1>2 DEF WriteClaim
  <2>4. mine[r][t] \in SUBSET Entry /\ \A y \in mine[r][t] : Paired(y)
    BY DEF TypeOK, PairInv
  <2>5. \E x \in list : x.user = account[r]
    BY <2>1, <2>3, <2>4, ClaimedIsPaired
  <2>6. /\ todo'[r] = todo[r] \ {t} /\ UNCHANGED <<with, account, mine>>
        /\ pc'[r] = (IF todo'[r] = {} THEN "token" ELSE "claim")
    BY <1>2 DEF TypeOK, WriteClaim, Goto
  <2>7. \A s \in Secret : sharedWith'[s] = IF s = t THEN list ELSE sharedWith[s]
    BY <2>3 DEF TypeOK
  <2>8. \A s \in Secret \ todo'[r] : Served(sharedWith[s], r)'
    <3>1. ASSUME NEW s \in Secret, s \notin todo'[r] PROVE Served(sharedWith[s], r)'
      <4>1. CASE s = t
        BY <2>5, <2>6, <2>7, <4>1 DEF Served
      <4>2. CASE s # t
        <5>1. s \notin todo[r] /\ sharedWith'[s] = sharedWith[s]
          BY <2>6, <2>7, <3>1, <4>2
        <5>2. Served(sharedWith[s], r)
          BY <2>1, <2>2, <5>1 DEF QuietInv, QuietOK
        <5>3. QED
          BY <2>6, <5>1, <5>2 DEF Served, Names
      <4>3. QED
        BY <4>1, <4>2
    <3>2. QED
      BY <3>1
  <2>9. \A s \in todo'[r] : mine'[r][s] = sharedWith'[s]
    BY <2>1, <2>2, <2>6, <2>7 DEF QuietInv, QuietOK, TypeOK
  <2>10. QED
    BY <2>6, <2>8, <2>9 DEF QuietOK
<1>3. ASSUME ~ReadShared(r), \A s \in Secret : ~WriteClaim(r, s) PROVE QuietOK(r)'
  <2>1. quiet[r] /\ UNCHANGED sharedWith
    BY <1>3, WritersDisturb
  <2>2. pc[r] \in {"claim", "token"}
    BY <2>1 DEF QuietInv, QuietOK
  <2>3. ~AbandonClaim(r)
    BY <2>1 DEF AbandonClaim, TypeOK
  <2>4. UNCHANGED <<pc[r], with[r], account[r], mine[r], todo[r]>>
    <3>1. ASSUME NEW l \in Login,
                 \/ \E a \in Address, p \in Person \cup {None} : Arrive(l, a, p)
                 \/ FindRecord(l) \/ FindPerson(l) \/ CreateAccount(l) \/ Link(l) \/ Relink(l)
                 \/ ReadShared(l) \/ AbandonClaim(l) \/ \E s \in Secret : WriteClaim(l, s)
          PROVE  UNCHANGED <<pc[r], with[r], account[r], mine[r], todo[r]>>
      <4>1. l # r
        BY <1>3, <2>2, <2>3, <3>1
        DEF Arrive, FindRecord, FindPerson, CreateAccount, Link, Relink, Goto
      <4>2. QED
        BY <3>1, <4>1
        DEF TypeOK, Arrive, FindRecord, FindPerson, CreateAccount, Link, Relink, ReadShared,
            AbandonClaim, WriteClaim, Goto
    <3>2. CASE UNCHANGED loginVars
      BY <3>2 DEF loginVars
    <3>3. QED
      BY <3>1, <3>2
      DEF Next, AllAnswered, FindSecret, Expand, FilterSelf, Store, Deactivate, vars
  <2>5. QED
    BY <2>1, <2>4 DEF QuietInv, QuietOK, Served, Names
<1>4. QED
  BY <1>1, <1>2, <1>3

------------------------------------------------------------------------------
\* The inductive invariant of logins and updates: who is linked stays linked, every list in
\* the store or in a request pairs accounts with addresses of theirs, and a quiet login's
\* copies are what is stored.
THEOREM ClaimsInvariant == Spec => []IInv
<1>1. IInv /\ [Next]_vars => IInv'
  BY TypeStep, LoginStep, EditStep, PairStep, QuietStep DEF IInv
<1>2. QED
  BY <1>1, InitIInv, PTL DEF Spec

\* The accounts, records, lists and requests keep their types.
THEOREM TypeCorrect == Spec => []TypeOK
<1>1. IInv => TypeOK
  BY DEF IInv
<1>2. QED
  BY <1>1, ClaimsInvariant, PTL

\* An account only stands beside an address it has logged in with, or as an owner put it
\* (auth.service.ts:868-905, password-sharing.service.ts:432-450).
THEOREM SharedWithHoldersHolds == Spec => []SharedWithHolders
<1>1. IInv => SharedWithHolders
  BY DEF IInv, PairInv, Paired, SharedWithHolders
<1>2. QED
  BY <1>1, ClaimsInvariant, PTL

\* A token names an address its account is linked to (auth.service.ts:400-432, 718-752).
THEOREM TokenMeansLinkedHolds == Spec => []TokenMeansLinked
<1>1. IInv => TokenMeansLinked
  BY DEF IInv, LoginInv, LoginOK, Linked, TokenMeansLinked
<1>2. QED
  BY <1>1, ClaimsInvariant, PTL

\* A login nobody disturbs has its entry in every list that names the address
\* (auth.service.ts:832-833).
THEOREM QuietLoginsClaimHolds == Spec => []QuietLoginsClaim
<1>1. IInv => QuietLoginsClaim
  BY DEF IInv, QuietInv, QuietOK, Served, QuietLoginsClaim
<1>2. QED
  BY <1>1, ClaimsInvariant, PTL
===============================================================================
