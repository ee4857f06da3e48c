----------------------------- MODULE ViewsProofs -----------------------------
(***************************************************************************)
(* Proofs about Views, for any accounts, secrets, requests and edits.      *)
(* PrivacyInv ties the privacy modes a request has read to its history.    *)
(* KnownInv says a view the request had to find is in the list it has      *)
(* read, because lists only grow.  ServedInv says who has been answered    *)
(* has a view.  PeopleInv says that the views of one person are all under  *)
(* one key, unless the account was made amid a request of that person.     *)
(***************************************************************************)
EXTENDS Views, SequenceTheorems, FiniteSetTheorems, WellFoundedInduction, TLAPS

PrivacyInv ==
    /\ \A u \in User \ accounts : ~privacyMode[u]
    /\ \A q \in Viewing :
          /\ Running(q) => \A p \in Parties : ~privacyMode[Party(q, p)] => p \in open[q]
          /\ pc[q] = "owner" /\ ~shy[q] => "viewer" \in open[q]
          /\ pc[q] = "push" => open[q] = Parties

\* A view names the user of a request by the account or by the Telegram id.
Names(v, q) ==
    \/ v.user # None /\ v.user = who[q].user
    \/ v.telegram # None /\ v.telegram = who[q].telegram

KnownInv ==
    \A q \in Viewing :
        /\ known[q] /\ pc[q] = "secret"
              => \E i \in DOMAIN secretViews[about[q]] : Names(secretViews[about[q]][i], q)
        /\ known[q] /\ pc[q] \in {"parent", "viewer", "owner"}
              => \E i \in DOMAIN read[q] : Names(read[q][i], q)
        /\ known[q] => pc[q] # "push"

\* A request's user is an account or a Telegram user, and known by no other ids.
IdentityInv ==
    /\ User \ Newcomer \subseteq accounts
    /\ \A q \in Viewing : pc[q] # "idle" =>
          /\ about[q] \in Secret
          /\ who[q] \in View
          /\ Viewer(q) \in User
          /\ who[q].user \in accounts \cup {None}
          /\ who[q].telegram \in {Viewer(q), None}
          /\ Viewer(q) \in Telegram => who[q].telegram = Viewer(q)

\* Every view is of somebody, and what it says of him fits.
OwnViewsInv ==
    \A s \in Secret : \A i \in DOMAIN secretViews[s] :
        LET v == secretViews[s][i]
        IN  /\ Person(v) # None
            /\ v.user \in accounts \cup {None}
            /\ v.user # None /\ v.telegram # None => v.user = v.telegram

\* What a request has read is still there.
ReadInv ==
    \A q \in Viewing : pc[q] \in {"parent", "viewer", "owner"} =>
        \A i \in DOMAIN read[q] :
            \E j \in DOMAIN secretViews[about[q]] : secretViews[about[q]][j] = read[q][i]

IInv == TypeOK /\ IdentityInv /\ PrivacyInv /\ OwnViewsInv /\ KnownInv /\ ReadInv

LEMMA AccountIsView ==
    ASSUME TypeOK, IdentityInv, NEW u \in User
    PROVE  /\ Account(u) \in View
           /\ (IF Account(u).user # None THEN Account(u).user ELSE Account(u).telegram) = u
           /\ Account(u).user = IF u \in accounts THEN u ELSE None
           /\ Account(u).telegram \in {u, None}
           /\ u \in Telegram => Account(u).telegram = u
  BY AccountAssumption DEF TypeOK, IdentityInv, Account, View, Addresses

LEMMA InitIInv == Init => IInv
<1> SUFFICES ASSUME Init PROVE IInv
  OBVIOUS
<1>1. TypeOK
  <2>1. sharedWith \in [Secret -> SUBSET Entry]
    BY SecretAssumption DEF Init, Storable
  <2>2. secretViews \in [Secret -> Seq(View)] /\ username \in [User -> Usernames]
    BY SecretAssumption, AccountAssumption DEF Init
  <2>3. open \in [Viewing -> SUBSET Parties]
    BY DEF Init
  <2>4. /\ read \in [Viewing -> Seq(View)]
        /\ who \in [Viewing -> View \cup {None}]
        /\ about \in [Viewing -> Secret \cup {None}]
    BY DEF Init
  <2>5. /\ live \in [Secret -> BOOLEAN]
        /\ shy \in [Viewing -> BOOLEAN]
        /\ known \in [Viewing -> BOOLEAN]
        /\ privacyMode \in [User -> BOOLEAN]
        /\ accounts \subseteq User
        /\ amid \in [Secret -> SUBSET User]
    BY DEF Init
  <2>6. /\ pc \in [Viewing -> Steps]
        /\ answer \in [Viewing -> Answers]
        /\ edits \in 0..MaxEdits
    BY SecretAssumption DEF Init, Steps, Answers
  <2>7. QED
    BY <2>1, <2>2, <2>3, <2>4, <2>5, <2>6 DEF TypeOK
<1>2. IdentityInv /\ PrivacyInv /\ KnownInv /\ ReadInv
  BY AccountAssumption DEF Init, IdentityInv, PrivacyInv, KnownInv, ReadInv, Running
<1>3. OwnViewsInv
  <2> SUFFICES ASSUME NEW s \in Secret, NEW i \in DOMAIN OldViews[s]
               PROVE  LET v == OldViews[s][i]
                      IN  /\ Person(v) # None
                          /\ v.user \in (User \ Newcomer) \cup {None}
                          /\ v.user # None /\ v.telegram # None => v.user = v.telegram
    BY DEF Init, OwnViewsInv
  <2>1. OldViews[s][i] \in View
    BY SecretAssumption
  <2>2. QED
    BY <2>1, OldViewsAssumption DEF View
<1>4. QED
  BY <1>1, <1>2, <1>3 DEF IInv

LEMMA TypeStep ==
    ASSUME TypeOK, IdentityInv, [Next]_vars
    PROVE  TypeOK'
<1>1. ASSUME NEW q \in Viewing, NEW u \in User, NEW s \in Secret, Arrive(q, u, s)
      PROVE  TypeOK'
  <2>1. Account(u) \in View
    BY AccountIsView
  <2>3. HasView(u, s) \in BOOLEAN
    BY DEF HasView
  <2>4. /\ pc' \in [Viewing -> Steps]
        /\ who' \in [Viewing -> View \cup {None}]
        /\ about' \in [Viewing -> Secret \cup {None}]
    BY <1>1, <2>1 DEF TypeOK, Arrive, Goto, Steps
  <2>5. open' \in [Viewing -> SUBSET Parties]
    BY <1>1 DEF TypeOK, Arrive
  <2>6. known' \in [Viewing -> BOOLEAN]
    BY <1>1, <2>3 DEF TypeOK, Arrive
  <2>7. QED
    BY <1>1, <2>4, <2>5, <2>6 DEF TypeOK, Arrive, userVars, secretVars
<1>2. ASSUME NEW q \in Viewing, FindSecret(q) PROVE TypeOK'
  <2>1. about[q] \in Secret /\ pc[q] = "secret"
    BY <1>2 DEF FindSecret, IdentityInv
  <2>2. read' \in [Viewing -> Seq(View)]
    BY <1>2, <2>1 DEF TypeOK, FindSecret
  <2>3. pc' \in [Viewing -> Steps] /\ answer' \in [Viewing -> Answers]
    BY <1>2 DEF TypeOK, FindSecret, Finish, Goto, Steps, Answers
  <2>4. QED
    BY <1>2, <2>2, <2>3 DEF TypeOK, FindSecret, userVars, secretVars
<1>3. ASSUME NEW q \in Viewing, FindParent(q) PROVE TypeOK'
  BY <1>3 DEF TypeOK, FindParent, Finish, Goto, Steps, Answers, userVars, secretVars
<1>4. ASSUME NEW q \in Viewing, FindViewer(q) PROVE TypeOK'
  <2>1. Viewer(q) \in User
    BY <1>4 DEF FindViewer, Goto, IdentityInv
  <2>2. (Viewer(q) \in accounts /\ privacyMode[Viewer(q)]) \in BOOLEAN
    BY <2>1 DEF TypeOK
  <2>3. pc' \in [Viewing -> Steps] /\ shy' \in [Viewing -> BOOLEAN]
    BY <1>4, <2>2 DEF TypeOK, FindViewer, Goto, Steps
  <2>4. QED
    BY <1>4, <2>3 DEF TypeOK, FindViewer, userVars, secretVars
<1>5. ASSUME NEW q \in Viewing, FindOwner(q) PROVE TypeOK'
  <2>1. shy' \in [Viewing -> BOOLEAN]
    BY <1>5, Zenon DEF TypeOK, FindOwner
  <2>2. pc' \in [Viewing -> Steps] /\ answer' \in [Viewing -> Answers]
    BY <1>5 DEF TypeOK, FindOwner, Finish, Goto, Steps, Answers
  <2>3. QED
    BY <1>5, <2>1, <2>2 DEF TypeOK, FindOwner, userVars, secretVars
<1>6. ASSUME NEW q \in Viewing, Push(q) PROVE TypeOK'
  <2>1. pc' \in [Viewing -> Steps] /\ answer' \in [Viewing -> Answers]
    BY <1>6 DEF TypeOK, Push, Finish, Goto, Steps, Answers
  <2>2. secretViews' \in [Secret -> Seq(View)]
    <3>1. CASE UNCHANGED secretViews
      BY <3>1 DEF TypeOK
    <3>2. ASSUME NEW a \in Addresses,
                 secretViews' = [secretViews EXCEPT
                                   ![about[q]] = Append(@, [who[q] EXCEPT !.address = a])]
          PROVE  secretViews' \in [Secret -> Seq(View)]
      <4>1. who[q] \in View /\ about[q] \in Secret
        BY <1>6 DEF Push, IdentityInv
      <4>2. [who[q] EXCEPT !.address = a] \in View
        BY <4>1 DEF View
      <4>3. QED
        BY <3>2, <4>1, <4>2 DEF TypeOK
    <3>3. who[q].address \in Addresses
      BY <1>6 DEF Push, IdentityInv, View
    <3>4. QED
      BY <1>6, <3>1, <3>2, <3>3 DEF Push
  <2>3. QED
    BY <1>6, <2>1, <2>2 DEF TypeOK, Push, userVars, secretVars
<1>7. ASSUME NEW u \in User, SwitchPrivacy(u) PROVE TypeOK'
  <2>1. privacyMode' \in [User -> BOOLEAN] /\ edits' \in 0..MaxEdits
    BY <1>7, SecretAssumption DEF TypeOK, SwitchPrivacy, Edit
  <2>2. open' \in [Viewing -> SUBSET Parties]
    <3>1. ASSUME NEW q \in Viewing
          PROVE  open'[q] \in SUBSET Parties
      BY <1>7 DEF TypeOK, SwitchPrivacy
    <3>2. QED
      BY <1>7, <3>1, Zenon DEF SwitchPrivacy
  <2>3. QED
    BY <1>7, <2>1, <2>2 DEF TypeOK, SwitchPrivacy, secretVars
<1>8. ASSUME NEW u \in Telegram, NEW n \in Usernames \ {None}, Rename(u, n) PROVE TypeOK'
  BY <1>8, AccountAssumption, SecretAssumption
  DEF TypeOK, Rename, Edit, secretVars, requestVars
<1>13. ASSUME NEW u \in User, Join(u) PROVE TypeOK'
  <2>1. accounts' \subseteq User /\ edits' \in 0..MaxEdits
    BY <1>13, SecretAssumption DEF TypeOK, Join, Edit
  <2>2. amid' \in [Secret -> SUBSET User]
    BY <1>13 DEF TypeOK, Join
  <2>3. QED
    BY <1>13, <2>1, <2>2 DEF TypeOK, Join, secretVars
<1>9. ASSUME NEW s \in Secret, NEW list \in Lists, EditSharing(s, list) PROVE TypeOK'
  BY <1>9, SecretAssumption DEF TypeOK, EditSharing, Edit, userVars, requestVars
<1>10. ASSUME NEW s \in Secret, DeleteSecret(s) PROVE TypeOK'
  BY <1>10, SecretAssumption DEF TypeOK, DeleteSecret, Edit, userVars, requestVars
<1>11. CASE UNCHANGED vars
  BY <1>11 DEF TypeOK, vars, userVars, secretVars, requestVars
<1>12. QED
  BY <1>1, <1>2, <1>3, <1>4, <1>5, <1>6, <1>7, <1>8, <1>9, <1>10, <1>11, <1>13
  DEF Next, AllAnswered

\* What a request is for and by whom is fixed when it arrives.
LEMMA IdentityStep ==
    ASSUME TypeOK, IdentityInv, [Next]_vars
    PROVE  IdentityInv'
<1>1. ASSUME NEW q \in Viewing, NEW u \in User, NEW s \in Secret, Arrive(q, u, s)
      PROVE  IdentityInv'
  <2>1. /\ Account(u) \in View
        /\ (IF Account(u).user # None THEN Account(u).user ELSE Account(u).telegram) = u
        /\ Account(u).user = IF u \in accounts THEN u ELSE None
        /\ Account(u).telegram \in {u, None}
        /\ u \in Telegram => Account(u).telegram = u
    BY AccountIsView
  <2>2. /\ who'[q] = Account(u) /\ about'[q] = s /\ UNCHANGED accounts
        /\ \A r \in Viewing \ {q} : pc'[r] = pc[r] /\ who'[r] = who[r] /\ about'[r] = about[r]
    BY <1>1 DEF TypeOK, Arrive, Goto, userVars
  <2>3. \A r \in Viewing \ {q} : Viewer(r)' = Viewer(r)
    BY <2>2 DEF Viewer
  <2>4. Viewer(q)' = u
    BY <2>1, <2>2 DEF Viewer
  <2>5. QED
    BY <2>1, <2>2, <2>3, <2>4 DEF IdentityInv
<1>2. ASSUME NEW q \in Viewing,
             \/ FindSecret(q) \/ FindParent(q) \/ FindViewer(q) \/ FindOwner(q) \/ Push(q)
      PROVE  IdentityInv'
  <2>1. UNCHANGED <<who, about, accounts>> /\ pc[q] # "idle"
    BY <1>2 DEF FindSecret, FindParent, FindViewer, FindOwner, Push, Goto, userVars
  <2>2. \A r \in Viewing \ {q} : pc'[r] = pc[r]
    BY <1>2
    DEF TypeOK, FindSecret, FindParent, FindViewer, FindOwner, Push, Goto, Finish
  <2>3. QED
    BY <2>1, <2>2 DEF IdentityInv, Viewer
<1>3. CASE UNCHANGED <<pc, who, about>> /\ accounts \subseteq accounts'
  BY <1>3 DEF IdentityInv, Viewer
<1>4. QED
  BY <1>1, <1>2, <1>3
  DEF Next, AllAnswered, Join, SwitchPrivacy, Rename, EditSharing, DeleteSecret, vars,
      userVars, requestVars

\* A request that has read a privacy mode as off has that moment in its history, and the
\* history never forgets.
LEMMA PrivacyStep ==
    ASSUME TypeOK, IdentityInv, PrivacyInv, [Next]_vars
    PROVE  PrivacyInv'
<1>1. ASSUME NEW q \in Viewing, NEW u \in User, NEW s \in Secret, Arrive(q, u, s)
      PROVE  PrivacyInv'
  <2>1. /\ pc'[q] = "secret" /\ UNCHANGED <<shy, privacyMode, accounts>>
        /\ who'[q] = Account(u) /\ about'[q] = s
        /\ open'[q] = {p \in Parties : ~privacyMode[IF p = "viewer" THEN u ELSE Owner[s]]}
        /\ \A r \in Viewing \ {q} :
              pc'[r] = pc[r] /\ open'[r] = open[r] /\ who'[r] = who[r] /\ about'[r] = about[r]
    BY <1>1 DEF TypeOK, Arrive, Goto, userVars
  <2>2. Viewer(q)' = u /\ \A r \in Viewing \ {q} : Viewer(r)' = Viewer(r)
    BY <2>1, AccountIsView DEF Viewer
  <2>3. QED
    BY <2>1, <2>2 DEF PrivacyInv, Running, Party, Viewer
<1>2. ASSUME NEW q \in Viewing, FindSecret(q) \/ FindParent(q) \/ Push(q) PROVE PrivacyInv'
  <2>1. /\ pc'[q] \notin {"owner", "push"} /\ Running(q)
        /\ UNCHANGED <<shy, open, privacyMode, who, about, accounts>>
        /\ \A r \in Viewing \ {q} : pc'[r] = pc[r]
    BY <1>2 DEF TypeOK, FindSecret, FindParent, Push, Goto, Finish, userVars, Running
  <2>2. QED
    BY <2>1 DEF PrivacyInv, Running, Party, Viewer
<1>3. ASSUME NEW q \in Viewing, FindViewer(q) PROVE PrivacyInv'
  <2>1. /\ pc[q] = "viewer" /\ pc'[q] = "owner"
        /\ shy'[q] = (Viewer(q) \in accounts /\ privacyMode[Viewer(q)])
        /\ Viewer(q) \in User
        /\ UNCHANGED <<open, privacyMode, who, about, accounts>>
        /\ \A r \in Viewing \ {q} : pc'[r] = pc[r] /\ shy'[r] = shy[r]
    BY <1>3 DEF TypeOK, FindViewer, Goto, userVars, IdentityInv
  <2>2. QED
    BY <2>1 DEF PrivacyInv, Running, Party, Viewer, Parties
<1>4. ASSUME NEW q \in Viewing, FindOwner(q) PROVE PrivacyInv'
  <2>1. /\ pc[q] = "owner" /\ pc'[q] \in {"push", "done"}
        /\ UNCHANGED <<open, privacyMode, who, about, accounts>>
        /\ \A r \in Viewing \ {q} : pc'[r] = pc[r] /\ shy'[r] = shy[r]
    BY <1>4 DEF TypeOK, FindOwner, Goto, Finish, userVars
  <2>2. ASSUME pc'[q] = "push"
        PROVE  ~shy[q] /\ ~privacyMode[Owner[about[q]]]
    <3>1. ~shy'[q]
      BY <1>4, <2>2 DEF TypeOK, FindOwner, Goto, Finish
    <3>2. shy'[q] = (shy[q] \/ privacyMode[Owner[about[q]]])
      BY <1>4, Zenon DEF TypeOK, FindOwner
    <3>3. QED
      BY <3>1, <3>2
  <2>3. ASSUME pc'[q] = "push" PROVE open[q] = Parties
    BY <2>1, <2>2, <2>3 DEF PrivacyInv, Running, Party, Viewer, Parties, TypeOK
  <2>4. QED
    BY <2>1, <2>3 DEF PrivacyInv, Running, Party, Viewer
<1>5. ASSUME NEW u \in User, SwitchPrivacy(u) PROVE PrivacyInv'
  <2>1. UNCHANGED <<pc, who, about, shy, accounts>> /\ u \in accounts
    BY <1>5 DEF SwitchPrivacy
  <2>2. ASSUME NEW q \in Viewing
        PROVE  /\ open[q] \subseteq open'[q]
               /\ open'[q] \subseteq Parties
               /\ Running(q) /\ privacyMode[u] => {p \in Parties : Party(q, p) = u} \subseteq open'[q]
    BY <1>5 DEF SwitchPrivacy, TypeOK
  <2>3. ASSUME NEW v \in User PROVE ~privacyMode'[v] => ~privacyMode[v] \/ (v = u /\ privacyMode[u])
    BY <1>5 DEF SwitchPrivacy, TypeOK
  <2>4. ASSUME NEW q \in Viewing, Running(q), NEW p \in Parties
        PROVE  Party(q, p) \in User /\ Party(q, p)' = Party(q, p)
    BY <2>1, <2>4, SecretAssumption DEF IdentityInv, Running, Party, Viewer
  <2>5. ASSUME NEW q \in Viewing, Running(q), NEW p \in Parties, ~privacyMode'[Party(q, p)]
        PROVE  p \in open'[q]
    BY <2>2, <2>3, <2>4, <2>5 DEF PrivacyInv
  <2>6. \A v \in User \ {u} : privacyMode'[v] = privacyMode[v]
    BY <1>5 DEF SwitchPrivacy, TypeOK
  <2>7. \A v \in User \ accounts' : ~privacyMode'[v]
    BY <2>1, <2>6 DEF PrivacyInv
  <2>8. QED
    BY <2>1, <2>2, <2>4, <2>5, <2>7 DEF PrivacyInv, Running
<1>6. CASE UNCHANGED <<pc, who, about, shy, open, privacyMode>> /\ accounts \subseteq accounts'
  BY <1>6 DEF PrivacyInv, Running, Party, Viewer
<1>7. QED
  BY <1>1, <1>2, <1>3, <1>4, <1>5, <1>6
  DEF Next, AllAnswered, Join, Rename, EditSharing, DeleteSecret, vars, userVars, requestVars

\* Views are only ever added, so who has one keeps it.
LEMMA ViewsGrow ==
    ASSUME TypeOK, IdentityInv, [Next]_vars, NEW s \in Secret
    PROVE  /\ Len(secretViews[s]) <= Len(secretViews'[s])
           /\ \A i \in 1..Len(secretViews[s]) : secretViews'[s][i] = secretViews[s][i]
<1>1. ASSUME NEW q \in Viewing, NEW v \in View,
             secretViews' = [secretViews EXCEPT ![about[q]] = Append(@, v)]
      PROVE  /\ Len(secretViews[s]) <= Len(secretViews'[s])
             /\ \A i \in 1..Len(secretViews[s]) : secretViews'[s][i] = secretViews[s][i]
  <2>1. secretViews[s] \in Seq(View)
    BY DEF TypeOK
  <2>2. CASE about[q] = s
    <3>1. secretViews'[s] = Append(secretViews[s], v)
      BY <1>1, <2>2 DEF TypeOK
    <3>2. QED
      BY <2>1, <3>1
  <2>3. CASE about[q] # s
    <3>1. secretViews'[s] = secretViews[s]
      BY <1>1, <2>3 DEF TypeOK
    <3>2. QED
      BY <2>1, <3>1
  <2>4. QED
    BY <2>2, <2>3
<1>2. CASE UNCHANGED secretViews
  <2>1. secretViews[s] \in Seq(View)
    BY DEF TypeOK
  <2>2. QED
    BY <1>2, <2>1
<1>3. ASSUME NEW q \in Viewing, Push(q)
      PROVE  \/ UNCHANGED secretViews
             \/ \E v \in View : secretViews' = [secretViews EXCEPT ![about[q]] = Append(@, v)]
  <2>1. who[q] \in View
    BY <1>3 DEF Push, IdentityInv
  <2>2. \A a \in Addresses : [who[q] EXCEPT !.address = a] \in View
    BY <2>1 DEF View
  <2>3. who[q].address \in Addresses
    BY <2>1 DEF View
  <2>4. QED
    BY <1>3, <2>2, <2>3 DEF Push
<1>4. QED
  BY <1>1, <1>2, <1>3
  DEF Next, AllAnswered, Arrive, FindSecret, FindParent, FindViewer, FindOwner,
      Join, SwitchPrivacy, Rename, EditSharing, DeleteSecret, vars

LEMMA HasViewStays ==
    ASSUME TypeOK, IdentityInv, [Next]_vars, NEW s \in Secret, NEW u \in User, HasView(u, s)
    PROVE  HasView(u, s)'
<1>1. secretViews[s] \in Seq(View) /\ secretViews'[s] \in Seq(View)
  BY TypeStep DEF TypeOK
<1>2. PICK i \in 1..Len(secretViews[s]) : Person(secretViews[s][i]) = u
  BY <1>1 DEF HasView
<1>3. i \in DOMAIN secretViews'[s] /\ secretViews'[s][i] = secretViews[s][i]
  BY <1>1, ViewsGrow
<1>4. QED
  BY <1>2, <1>3 DEF HasView, Person

\* What a push leaves of the views.
LEMMA PushAppends ==
    ASSUME TypeOK, IdentityInv, NEW q \in Viewing, Push(q)
    PROVE  /\ about[q] \in Secret
           /\ \/ UNCHANGED secretViews /\ ~live[about[q]]
              \/ /\ live[about[q]]
                 /\ \E v \in View :
                       /\ v.user = who[q].user /\ v.telegram = who[q].telegram
                       /\ secretViews' = [secretViews EXCEPT ![about[q]] = Append(@, v)]
<1>1. who[q] \in View /\ about[q] \in Secret
  BY DEF Push, IdentityInv
<1>2. \A a \in Addresses : /\ [who[q] EXCEPT !.address = a] \in View
                           /\ [who[q] EXCEPT !.address = a].user = who[q].user
                           /\ [who[q] EXCEPT !.address = a].telegram = who[q].telegram
  BY <1>1 DEF View
<1>3. who[q].address \in Addresses
  BY <1>1 DEF View
<1>4. QED
  BY <1>1, <1>2, <1>3 DEF Push

\* What a secret's views are after one has been appended.
LEMMA Appended ==
    ASSUME TypeOK, NEW s \in Secret, NEW v \in View,
           secretViews' = [secretViews EXCEPT ![s] = Append(@, v)]
    PROVE  /\ Len(secretViews[s]) \in Nat
           /\ DOMAIN secretViews[s] = 1..Len(secretViews[s])
           /\ DOMAIN secretViews'[s] = 1..(Len(secretViews[s]) + 1)
           /\ secretViews'[s][Len(secretViews[s]) + 1] = v
           /\ \A i \in 1..Len(secretViews[s]) : secretViews'[s][i] = secretViews[s][i]
           /\ \A t \in Secret \ {s} : secretViews'[t] = secretViews[t]
<1>1. secretViews[s] \in Seq(View)
  BY DEF TypeOK
<1>2. QED
  BY <1>1 DEF TypeOK

LEMMA OwnViewsStep ==
    ASSUME TypeOK, IdentityInv, OwnViewsInv, [Next]_vars
    PROVE  OwnViewsInv'
<1>1. ASSUME NEW q \in Viewing, Push(q), NEW v \in View,
             v.user = who[q].user, v.telegram = who[q].telegram,
             secretViews' = [secretViews EXCEPT ![about[q]] = Append(@, v)]
      PROVE  OwnViewsInv'
  <2>1. /\ about[q] \in Secret /\ Person(v) # None
        /\ v.user \in accounts \cup {None}
        /\ v.user # None /\ v.telegram # None => v.user = v.telegram
    BY <1>1, AccountAssumption DEF Push, IdentityInv, Viewer, Person
  <2>2. accounts' = accounts
    BY <1>1 DEF Push, userVars
  <2>3. PICK s \in Secret : s = about[q]
    BY <2>1
  <2>4. QED
    BY <1>1, <2>1, <2>2, <2>3, Appended DEF OwnViewsInv, Person
<1>2. CASE UNCHANGED secretViews /\ accounts \subseteq accounts'
  BY <1>2 DEF OwnViewsInv, Person
<1>3. ASSUME NEW q \in Viewing, Push(q) PROVE OwnViewsInv'
  BY <1>1, <1>2, <1>3, PushAppends DEF Push, userVars
<1>4. QED
  BY <1>2, <1>3
  DEF Next, AllAnswered, Arrive, FindSecret, FindParent, FindViewer, FindOwner, Join,
      SwitchPrivacy, Rename, EditSharing, DeleteSecret, vars, userVars

\* What a request has read stays there, for lists only grow.
LEMMA ReadStep ==
    ASSUME TypeOK, IdentityInv, ReadInv, [Next]_vars
    PROVE  ReadInv'
<1>1. ASSUME NEW s \in Secret, NEW i \in DOMAIN secretViews[s]
      PROVE  i \in DOMAIN secretViews'[s] /\ secretViews'[s][i] = secretViews[s][i]
  <2>1. secretViews[s] \in Seq(View) /\ secretViews'[s] \in Seq(View)
    BY TypeStep DEF TypeOK
  <2>2. QED
    BY <1>1, <2>1, ViewsGrow
<1>2. ASSUME NEW q \in Viewing, pc'[q] \in {"parent", "viewer", "owner"},
             pc[q] \in {"parent", "viewer", "owner"}, read'[q] = read[q], about'[q] = about[q]
      PROVE  \A i \in DOMAIN read'[q] :
                \E j \in DOMAIN secretViews'[about'[q]] :
                   secretViews'[about'[q]][j] = read'[q][i]
  BY <1>1, <1>2 DEF ReadInv, IdentityInv
<1>3. ASSUME NEW q \in Viewing, FindSecret(q) PROVE ReadInv'
  <2>1. /\ read'[q] = secretViews[about[q]] /\ UNCHANGED <<about, secretViews>>
        /\ \A r \in Viewing \ {q} : pc'[r] = pc[r] /\ read'[r] = read[r]
    BY <1>3 DEF TypeOK, FindSecret, Goto, Finish
  <2>2. QED
    BY <1>2, <2>1 DEF ReadInv
<1>4. ASSUME NEW q \in Viewing, NEW u \in User, NEW s \in Secret, Arrive(q, u, s)
      PROVE  ReadInv'
  <2>1. /\ pc'[q] = "secret" /\ UNCHANGED read
        /\ \A r \in Viewing \ {q} : pc'[r] = pc[r] /\ about'[r] = about[r]
    BY <1>4 DEF TypeOK, Arrive, Goto
  <2>2. QED
    BY <1>2, <2>1 DEF ReadInv
<1>5. ASSUME NEW q \in Viewing, FindParent(q) \/ FindViewer(q) \/ FindOwner(q) \/ Push(q)
      PROVE  ReadInv'
  <2>1. /\ UNCHANGED <<read, about>>
        /\ pc'[q] \in {"parent", "viewer", "owner"} => pc[q] \in {"parent", "viewer", "owner"}
        /\ \A r \in Viewing \ {q} : pc'[r] = pc[r]
    BY <1>5 DEF TypeOK, FindParent, FindViewer, FindOwner, Push, Goto, Finish
  <2>2. QED
    BY <1>2, <2>1 DEF ReadInv
<1>6. CASE UNCHANGED <<pc, read, about>>
  BY <1>2, <1>6 DEF ReadInv
<1>7. QED
  BY <1>3, <1>4, <1>5, <1>6
  DEF Next, AllAnswered, Join, SwitchPrivacy, Rename, EditSharing, DeleteSecret, vars,
      requestVars

LEMMA KnownStep ==
    ASSUME TypeOK, IdentityInv, OwnViewsInv, KnownInv, [Next]_vars
    PROVE  KnownInv'
<1>1. ASSUME NEW q \in Viewing, NEW u \in User, NEW s \in Secret, Arrive(q, u, s)
      PROVE  KnownInv'
  <2>1. /\ pc'[q] = "secret" /\ UNCHANGED <<read, secretViews>>
        /\ who'[q] = Account(u) /\ about'[q] = s /\ known'[q] = HasView(u, s)
        /\ \A r \in Viewing \ {q} :
              pc'[r] = pc[r] /\ known'[r] = known[r] /\ who'[r] = who[r] /\ about'[r] = about[r]
    BY <1>1 DEF TypeOK, Arrive, Goto
  <2>2. /\ Account(u).user = IF u \in accounts THEN u ELSE None
        /\ u \in Telegram => Account(u).telegram = u
    BY AccountIsView
  <2>3. ASSUME HasView(u, s)
        PROVE  \E i \in DOMAIN secretViews[s] : Names(secretViews[s][i], q)'
    <3>1. PICK i \in DOMAIN secretViews[s] : Person(secretViews[s][i]) = u
      BY <2>3 DEF HasView
    <3>2. secretViews[s][i] \in View
      BY <3>1 DEF TypeOK
    <3>3. Names(secretViews[s][i], q)'
      BY <2>1, <2>2, <3>1, <3>2, AccountAssumption DEF Names, Person, OwnViewsInv, View
    <3>4. QED
      BY <3>3
  <2>4. \A r \in Viewing \ {q}, v \in View : Names(v, r)' = Names(v, r)
    BY <2>1 DEF Names
  <2>5. QED
    BY <2>1, <2>3 DEF KnownInv, Names
<1>2. ASSUME NEW q \in Viewing, FindSecret(q) PROVE KnownInv'
  <2>1. /\ pc[q] = "secret" /\ pc'[q] \in {"viewer", "parent", "done"}
        /\ read'[q] = secretViews[about[q]]
        /\ UNCHANGED <<known, who, about, secretViews>>
        /\ \A r \in Viewing \ {q} : pc'[r] = pc[r] /\ read'[r] = read[r]
    BY <1>2 DEF TypeOK, FindSecret, Goto, Finish
  <2>2. QED
    BY <2>1 DEF KnownInv, Names
<1>3. ASSUME NEW q \in Viewing, FindParent(q) \/ FindViewer(q) PROVE KnownInv'
  <2>1. /\ pc[q] \in {"parent", "viewer"} /\ pc'[q] \in {"viewer", "owner", "done"}
        /\ UNCHANGED <<known, who, about, read, secretViews>>
        /\ \A r \in Viewing \ {q} : pc'[r] = pc[r]
    BY <1>3 DEF TypeOK, FindParent, FindViewer, Goto, Finish
  <2>2. QED
    BY <2>1 DEF KnownInv, Names
<1>4. ASSUME NEW q \in Viewing, FindOwner(q) PROVE KnownInv'
  <2>1. /\ pc[q] = "owner" /\ pc'[q] \in {"push", "done"}
        /\ pc'[q] = "push" => ~ExistingView(q)
        /\ UNCHANGED <<known, who, about, read, secretViews>>
        /\ \A r \in Viewing \ {q} : pc'[r] = pc[r]
    BY <1>4 DEF TypeOK, FindOwner, Goto, Finish
  <2>2. known[q] => ExistingView(q)
    BY <2>1 DEF KnownInv, Names, ExistingView
  <2>3. QED
    BY <2>1, <2>2 DEF KnownInv, Names
<1>5. ASSUME NEW q \in Viewing, Push(q) PROVE KnownInv'
  <2>1. /\ pc'[q] = "done" /\ UNCHANGED <<known, who, about, read>>
        /\ \A r \in Viewing \ {q} : pc'[r] = pc[r]
    BY <1>5 DEF TypeOK, Push, Goto, Finish
  <2>2. ASSUME NEW r \in Viewing, known'[r], pc'[r] = "secret"
        PROVE  \E i \in DOMAIN secretViews'[about[r]] : Names(secretViews'[about[r]][i], r)
    <3>1. about[r] \in Secret
      BY <2>1, <2>2 DEF IdentityInv
    <3>2. PICK i \in DOMAIN secretViews[about[r]] : Names(secretViews[about[r]][i], r)
      BY <2>1, <2>2 DEF KnownInv
    <3>3. secretViews[about[r]] \in Seq(View) /\ secretViews'[about[r]] \in Seq(View)
      BY <3>1, TypeStep DEF TypeOK
    <3>4. i \in DOMAIN secretViews'[about[r]]
          /\ secretViews'[about[r]][i] = secretViews[about[r]][i]
      BY <3>1, <3>2, <3>3, ViewsGrow
    <3>5. QED
      BY <3>2, <3>4
  <2>3. QED
    BY <2>1, <2>2 DEF KnownInv, Names
<1>6. CASE UNCHANGED <<pc, who, about, read, known, secretViews>>
  BY <1>6 DEF KnownInv, Names
<1>7. QED
  BY <1>1, <1>2, <1>3, <1>4, <1>5, <1>6
  DEF Next, AllAnswered, Join, SwitchPrivacy, Rename, EditSharing, DeleteSecret, vars,
      requestVars

\* The inductive invariant of recordSecretView: what a request has read is covered by its
\* history, and the list it has read still names whoever had a view when it arrived.
THEOREM ViewsInvariant == Spec => []IInv
<1>1. IInv /\ [Next]_vars => IInv'
  BY TypeStep, IdentityStep, PrivacyStep, OwnViewsStep, KnownStep, ReadStep DEF IInv
<1>2. QED
  BY <1>1, InitIInv, PTL DEF Spec

\* The views, the accounts and the state of each request keep their types.
THEOREM TypeCorrect == Spec => []TypeOK
<1>1. IInv => TypeOK
  BY DEF IInv
<1>2. QED
  BY <1>1, ViewsInvariant, PTL

\* A view is only about to be recorded if the privacy modes of the viewer and of the owner
\* have both been off at some moment of the request (password-views.service.ts:178-191).
THEOREM ViewsRespectPrivacyHolds == Spec => []ViewsRespectPrivacy
<1>1. IInv => ViewsRespectPrivacy
  BY DEF IInv, PrivacyInv, ViewsRespectPrivacy
<1>2. QED
  BY <1>1, ViewsInvariant, PTL

\* A viewer who had a view when the request arrived gets no second one
\* (password-views.service.ts:194-202).
THEOREM NoReturningViewerHolds == Spec => []NoReturningViewer
<1>1. IInv => NoReturningViewer
  BY DEF IInv, KnownInv, NoReturningViewer
<1>2. QED
  BY <1>1, ViewsInvariant, PTL

\* Who was given the secret, and had no reason to leave no view.
Served(q) ==
    /\ pc[q] = "done" /\ answer[q] = "secret"
    /\ Viewer(q) # Owner[about[q]] /\ ~shy[q]
    /\ who[q].name # None => \A i \in DOMAIN secretViews[about[q]] :
          secretViews[about[q]][i].name = who[q].name
              => Person(secretViews[about[q]][i]) = Viewer(q)

\* The name was nobody else's in a longer list, so it is in a shorter one.
LEMMA ServedBefore ==
    ASSUME TypeOK, IdentityInv, [Next]_vars, NEW q \in Viewing, Served(q)',
           pc[q] = "done", answer'[q] = answer[q], shy'[q] = shy[q],
           who'[q] = who[q], about'[q] = about[q]
    PROVE  Served(q)
<1>1. PICK s \in Secret : s = about[q]
  BY DEF IdentityInv
<1>2. secretViews[s] \in Seq(View) /\ secretViews'[s] \in Seq(View)
  BY TypeStep DEF TypeOK
<1>3. ASSUME NEW i \in DOMAIN secretViews[s]
      PROVE  i \in DOMAIN secretViews'[s] /\ secretViews'[s][i] = secretViews[s][i]
  BY <1>2, <1>3, ViewsGrow
<1>4. Viewer(q)' = Viewer(q)
  BY DEF Viewer
<1>5. QED
  BY <1>1, <1>3, <1>4 DEF Served, Person

\* A request that ends with the secret leaves a view of its user, or has found one.
LEMMA ServedStep ==
    ASSUME IInv, \A q \in Viewing : Served(q) => HasView(Viewer(q), about[q]), [Next]_vars
    PROVE  \A q \in Viewing : Served(q)' => HasView(Viewer(q), about[q])'
<1>0. TypeOK /\ IdentityInv /\ OwnViewsInv /\ ReadInv /\ TypeOK'
  BY TypeStep DEF IInv
<1>1. ASSUME NEW q \in Viewing, Served(q)', pc[q] = "done", answer'[q] = answer[q],
             shy'[q] = shy[q], who'[q] = who[q], about'[q] = about[q]
      PROVE  HasView(Viewer(q), about[q])'
  <2>1. HasView(Viewer(q), about[q])
    BY <1>0, <1>1, ServedBefore
  <2>2. PICK u \in User, s \in Secret : u = Viewer(q) /\ s = about[q]
    BY <1>0, <1>1 DEF IdentityInv
  <2>3. HasView(u, s)'
    BY <1>0, <2>1, <2>2, HasViewStays
  <2>4. Viewer(q)' = u /\ about'[q] = s
    BY <1>1, <2>2 DEF Viewer
  <2>5. QED
    BY <2>3, <2>4 DEF HasView
<1>2. ASSUME NEW q \in Viewing, FindOwner(q), Served(q)' PROVE HasView(Viewer(q), about[q])'
  <2>1. /\ pc[q] = "owner" /\ UNCHANGED <<who, about, secretViews>>
        /\ pc'[q] = "done" /\ ~shy'[q]
    BY <1>0, <1>2 DEF FindOwner, Served
  <2>2. Viewer(q)' = Viewer(q) /\ Viewer(q) # Owner[about[q]]
    BY <1>2, <2>1 DEF Viewer, Served
  <2>3. ExistingView(q)
    BY <1>0, <1>2, <2>1, <2>2 DEF FindOwner, Goto, TypeOK
  <2>4. PICK i \in DOMAIN read[q] :
            \/ who[q].telegram # None /\ read[q][i].telegram = who[q].telegram
            \/ who[q].user # None /\ read[q][i].user = who[q].user
            \/ who[q].name # None /\ read[q][i].name = who[q].name
    BY <2>3 DEF ExistingView
  <2>5. PICK s \in Secret : s = about[q]
    BY <1>0, <2>1 DEF IdentityInv
  <2>6. PICK j \in DOMAIN secretViews[s] : secretViews[s][j] = read[q][i]
    BY <1>0, <2>1, <2>4, <2>5 DEF ReadInv
  <2>7. secretViews[s][j] \in View
    BY <1>0, <2>6 DEF TypeOK
  <2>8. Person(secretViews[s][j]) = Viewer(q)
    <3>1. CASE who[q].name # None /\ read[q][i].name = who[q].name
      BY <1>2, <2>1, <2>2, <2>5, <2>6, <3>1 DEF Served, Person
    <3>2. CASE who[q].user # None /\ read[q][i].user = who[q].user
      BY <2>6, <3>2 DEF Person, Viewer
    <3>3. CASE who[q].telegram # None /\ read[q][i].telegram = who[q].telegram
      <4>1. who[q].telegram = Viewer(q)
        BY <1>0, <2>1, <3>3 DEF IdentityInv
      <4>2. QED
        BY <1>0, <2>6, <3>3, <4>1 DEF OwnViewsInv, Person
    <3>4. QED
      BY <2>4, <3>1, <3>2, <3>3
  <2>9. QED
    BY <2>1, <2>2, <2>5, <2>6, <2>8 DEF HasView, Person
<1>3. ASSUME NEW q \in Viewing, Push(q), Served(q)' PROVE HasView(Viewer(q), about[q])'
  <2>1. UNCHANGED <<who, about>> /\ live[about[q]] /\ pc[q] = "push"
    BY <1>0, <1>3 DEF Push, Finish, Goto, Served, TypeOK
  <2>2. PICK s \in Secret : s = about[q]
    BY <1>0, <2>1 DEF IdentityInv
  <2>3. PICK v \in View : /\ v.user = who[q].user /\ v.telegram = who[q].telegram
                          /\ secretViews' = [secretViews EXCEPT ![s] = Append(@, v)]
    BY <1>0, <1>3, <2>1, <2>2, PushAppends
  <2>4. Person(v) = Viewer(q) /\ Viewer(q)' = Viewer(q)
    BY <2>1, <2>3 DEF Person, Viewer
  <2>5. Len(secretViews[s]) + 1 \in DOMAIN secretViews'[s]
        /\ secretViews'[s][Len(secretViews[s]) + 1] = v
    <3>1. /\ Len(secretViews[s]) \in Nat
          /\ DOMAIN secretViews'[s] = 1..(Len(secretViews[s]) + 1)
          /\ secretViews'[s][Len(secretViews[s]) + 1] = v
      BY <1>0, <2>3, Appended
    <3>2. QED
      BY <3>1
  <2>6. QED
    BY <2>1, <2>2, <2>4, <2>5 DEF HasView, Person
<1>4. ASSUME NEW q \in Viewing, FindSecret(q) \/ FindParent(q) \/ FindViewer(q) \/ FindOwner(q)
                               \/ Push(q),
             NEW r \in Viewing \ {q}, Served(r)'
      PROVE  HasView(Viewer(r), about[r])'
  <2>1. /\ pc'[r] = pc[r] /\ answer'[r] = answer[r] /\ shy'[r] = shy[r]
        /\ who'[r] = who[r] /\ about'[r] = about[r]
    BY <1>0, <1>4 DEF TypeOK, FindSecret, FindParent, FindViewer, FindOwner, Push, Goto, Finish
  <2>2. QED
    BY <1>1, <1>4, <2>1 DEF Served
<1>5. ASSUME NEW q \in Viewing, FindSecret(q) \/ FindParent(q) \/ FindViewer(q)
      PROVE  ~Served(q)'
  BY <1>0, <1>5 DEF TypeOK, FindSecret, FindParent, FindViewer, Goto, Finish, Served
<1>6. ASSUME NEW q \in Viewing, NEW u \in User, NEW s \in Secret, Arrive(q, u, s),
             NEW r \in Viewing, Served(r)'
      PROVE  HasView(Viewer(r), about[r])'
  <2>1. r # q /\ pc'[r] = pc[r] /\ answer'[r] = answer[r] /\ shy'[r] = shy[r]
        /\ who'[r] = who[r] /\ about'[r] = about[r]
    BY <1>0, <1>6 DEF TypeOK, Arrive, Goto, Served
  <2>2. QED
    BY <1>1, <1>6, <2>1 DEF Served
<1>7. CASE UNCHANGED <<pc, answer, shy, who, about>>
  BY <1>1, <1>7 DEF Served
<1>8. QED
  BY <1>2, <1>3, <1>4, <1>5, <1>6, <1>7
  DEF Next, AllAnswered, Join, SwitchPrivacy, Rename, EditSharing, DeleteSecret, vars,
      requestVars

\* Whoever is given a secret has a view of it, unless he owns it, is private, or bears a name
\* that is in somebody else's view (password-views.service.ts:167-202).
THEOREM ServedIsRecordedHolds == Spec => []ServedIsRecorded
<1> DEFINE Inv == \A q \in Viewing : Served(q) => HasView(Viewer(q), about[q])
<1>1. Init => Inv
  BY DEF Init, Served
<1>2. IInv /\ Inv /\ [Next]_vars => Inv'
  BY ServedStep
<1>3. Inv => ServedIsRecorded
  BY DEF ServedIsRecorded, Served
<1>4. QED
  BY <1>1, <1>2, <1>3, ViewsInvariant, PTL DEF Spec

\* No step of any request or of the rest of the system removes or overwrites a stored view
\* (password-views.service.ts:256-262).
THEOREM NoViewLostHolds == Spec => NoViewLost
<1>1. IInv /\ [Next]_vars =>
        \A s \in Secret : secretViews[s] = SubSeq(secretViews'[s], 1, Len(secretViews[s]))
  <2> SUFFICES ASSUME IInv, [Next]_vars, NEW s \in Secret
                 PROVE  secretViews[s] = SubSeq(secretViews'[s], 1, Len(secretViews[s]))
    OBVIOUS
  <2>2. TypeOK /\ IdentityInv
    BY DEF IInv
  <2>3. secretViews[s] \in Seq(View) /\ secretViews'[s] \in Seq(View)
    BY <2>2, TypeStep DEF TypeOK
  <2>4. /\ Len(secretViews[s]) <= Len(secretViews'[s])
        /\ \A i \in 1..Len(secretViews[s]) : secretViews'[s][i] = secretViews[s][i]
    BY <2>2, ViewsGrow
  <2>5. /\ SubSeq(secretViews'[s], 1, Len(secretViews[s])) \in Seq(View)
        /\ Len(SubSeq(secretViews'[s], 1, Len(secretViews[s]))) = Len(secretViews[s])
        /\ \A i \in 1..Len(secretViews[s]) :
              SubSeq(secretViews'[s], 1, Len(secretViews[s]))[i] = secretViews[s][i]
    BY <2>3, <2>4
  <2>6. QED
    BY <2>3, <2>5, SeqEqual
<1>2. QED
  BY <1>1, ViewsInvariant, PTL DEF Spec, NoViewLost

------------------------------------------------------------------------------
(* The statistics.                                                         *)

\* The views of one person on a secret are all under the same key, or the account was made
\* amid a request of the person.
OneKey ==
    \A s \in Secret : \A i, j \in DOMAIN secretViews[s] :
        LET v == secretViews[s][i]
            w == secretViews[s][j]
        IN  Person(v) = Person(w) /\ Person(v) \notin amid[s] => (v.user = None <=> w.user = None)

\* A view without a user is older than any request of the account, with the same exception.
OldOnesKnown ==
    \A q \in Viewing : pc[q] # "idle" /\ who[q].user # None =>
        \A i \in DOMAIN secretViews[about[q]] :
            LET v == secretViews[about[q]][i]
            IN  v.user = None /\ v.telegram = who[q].user
                    => known[q] \/ who[q].user \in amid[about[q]]

\* A request goes on without an account its user has only if the account was made amid it.
AmidInv ==
    \A q \in Viewing : Running(q) /\ who[q].user = None /\ Viewer(q) \in accounts =>
        Viewer(q) \in amid[about[q]]

PeopleInv == OneKey /\ OldOnesKnown /\ AmidInv

LEMMA InitPeople == Init => PeopleInv
<1> SUFFICES ASSUME Init PROVE PeopleInv
  OBVIOUS
<1>1. OneKey
  BY OldViewsAssumption DEF Init, OneKey
<1>2. OldOnesKnown /\ AmidInv
  BY DEF Init, OldOnesKnown, AmidInv, Running
<1>3. QED
  BY <1>1, <1>2 DEF PeopleInv

\* A view that is pushed keeps to the key of its person.
LEMMA PushKeepsKeys ==
    ASSUME IInv, PeopleInv, NEW q \in Viewing, Push(q), NEW v \in View,
           v.user = who[q].user, v.telegram = who[q].telegram,
           secretViews' = [secretViews EXCEPT ![about[q]] = Append(@, v)]
    PROVE  OneKey' /\ OldOnesKnown'
<1>0. TypeOK /\ IdentityInv /\ KnownInv /\ OwnViewsInv /\ OneKey /\ OldOnesKnown /\ AmidInv
  BY DEF IInv, PeopleInv
<1>1. /\ pc[q] = "push" /\ UNCHANGED <<who, about, known, amid>>
      /\ Running(q) /\ ~known[q]
      /\ \A r \in Viewing : pc[r] # "idle" <=> pc'[r] # "idle"
  BY <1>0 DEF TypeOK, Push, Goto, Finish, KnownInv, Running
<1>2. PICK s \in Secret : s = about[q]
  BY <1>0, <1>1 DEF IdentityInv
<1> DEFINE n == Len(secretViews[s])
<1>3. /\ n \in Nat
      /\ DOMAIN secretViews[s] = 1..n
      /\ DOMAIN secretViews'[s] = 1..(n + 1)
      /\ secretViews'[s][n + 1] = v
      /\ \A i \in 1..n : secretViews'[s][i] = secretViews[s][i]
      /\ \A t \in Secret \ {s} : secretViews'[t] = secretViews[t]
  BY <1>0, <1>2, Appended
<1>4. Person(v) = Viewer(q) /\ Viewer(q) \in User /\ Viewer(q) # None
  BY <1>0, <1>1, AccountAssumption DEF Person, Viewer, IdentityInv
<1>5. ASSUME NEW i \in 1..n, Person(secretViews[s][i]) = Person(v), Person(v) \notin amid[s]
      PROVE  secretViews[s][i].user = None <=> v.user = None
  <2>1. CASE v.user # None
    <3>1. ASSUME secretViews[s][i].user = None PROVE FALSE
      <4>1. secretViews[s][i].telegram = who[q].user
        BY <1>4, <1>5, <2>1, <3>1 DEF Person, Viewer
      <4>2. QED
        BY <1>0, <1>1, <1>2, <1>3, <1>4, <1>5, <2>1, <3>1, <4>1 DEF OldOnesKnown, Viewer
    <3>2. QED
      BY <2>1, <3>1
  <2>2. CASE v.user = None
    <3>1. ASSUME secretViews[s][i].user # None PROVE FALSE
      <4>1. Viewer(q) \in accounts
        BY <1>0, <1>3, <1>4, <1>5, <3>1 DEF OwnViewsInv, Person
      <4>2. QED
        BY <1>0, <1>1, <1>2, <1>4, <1>5, <2>2, <4>1 DEF AmidInv
    <3>2. QED
      BY <2>2, <3>1
  <2>3. QED
    BY <2>1, <2>2
<1>6. OneKey'
  <2>1. ASSUME NEW i \in 1..(n + 1), NEW j \in 1..(n + 1),
               Person(secretViews'[s][i]) = Person(secretViews'[s][j]),
               Person(secretViews'[s][i]) \notin amid[s]
        PROVE  secretViews'[s][i].user = None <=> secretViews'[s][j].user = None
    <3>1. CASE i \in 1..n /\ j \in 1..n
      BY <1>0, <1>3, <2>1, <3>1 DEF OneKey
    <3>2. CASE i = n + 1 /\ j \in 1..n
      BY <1>3, <1>5, <2>1, <3>2
    <3>3. CASE i \in 1..n /\ j = n + 1
      BY <1>3, <1>5, <2>1, <3>3
    <3>4. CASE i = n + 1 /\ j = n + 1
      BY <3>4
    <3>5. QED
      BY <1>3, <3>1, <3>2, <3>3, <3>4
  <2>2. ASSUME NEW t \in Secret, NEW i \in DOMAIN secretViews'[t],
               NEW j \in DOMAIN secretViews'[t],
               Person(secretViews'[t][i]) = Person(secretViews'[t][j]),
               Person(secretViews'[t][i]) \notin amid[t]
        PROVE  secretViews'[t][i].user = None <=> secretViews'[t][j].user = None
    <3>1. CASE t = s
      BY <1>3, <2>1, <2>2, <3>1
    <3>2. CASE t # s
      BY <1>0, <1>3, <2>2, <3>2 DEF OneKey
    <3>3. QED
      BY <3>1, <3>2
  <2>3. QED
    BY <1>1, <2>2 DEF OneKey, Person
<1>7. OldOnesKnown'
  <2>1. ASSUME NEW r \in Viewing, pc[r] # "idle", who[r].user # None, about[r] = s,
               NEW i \in 1..(n + 1),
               secretViews'[s][i].user = None, secretViews'[s][i].telegram = who[r].user
        PROVE  known[r] \/ who[r].user \in amid[s]
    <3>1. CASE i \in 1..n
      BY <1>0, <1>3, <2>1, <3>1 DEF OldOnesKnown
    <3>2. CASE i = n + 1
      <4>1. who[q].user = None /\ Viewer(q) = who[r].user
        BY <1>3, <2>1, <3>2 DEF Viewer
      <4>2. who[r].user \in accounts
        BY <1>0, <2>1 DEF IdentityInv
      <4>3. QED
        BY <1>0, <1>1, <1>2, <4>1, <4>2 DEF AmidInv
    <3>3. QED
      BY <1>3, <3>1, <3>2
  <2>2. ASSUME NEW r \in Viewing, pc'[r] # "idle", who[r].user # None,
               NEW i \in DOMAIN secretViews'[about[r]],
               secretViews'[about[r]][i].user = None,
               secretViews'[about[r]][i].telegram = who[r].user
        PROVE  known[r] \/ who[r].user \in amid[about[r]]
    <3>1. about[r] \in Secret /\ pc[r] # "idle"
      BY <1>0, <1>1, <2>2 DEF IdentityInv
    <3>2. CASE about[r] = s
      BY <1>3, <2>1, <2>2, <3>1, <3>2
    <3>3. CASE about[r] # s
      BY <1>0, <1>3, <2>2, <3>1, <3>3 DEF OldOnesKnown
    <3>4. QED
      BY <3>2, <3>3
  <2>3. QED
    BY <1>1, <2>2 DEF OldOnesKnown
<1>8. QED
  BY <1>6, <1>7

LEMMA PeopleStep ==
    ASSUME IInv, PeopleInv, [Next]_vars
    PROVE  PeopleInv'
<1>0. /\ TypeOK /\ IdentityInv /\ KnownInv /\ TypeOK' /\ OneKey /\ OldOnesKnown /\ AmidInv
  BY TypeStep DEF IInv, PeopleInv
<1>1. ASSUME NEW q \in Viewing, NEW u \in User, NEW s \in Secret, Arrive(q, u, s)
      PROVE  PeopleInv'
  <2>1. /\ UNCHANGED <<secretViews, accounts, amid>>
        /\ who'[q] = Account(u) /\ about'[q] = s /\ known'[q] = HasView(u, s)
        /\ \A r \in Viewing \ {q} :
              pc'[r] = pc[r] /\ known'[r] = known[r] /\ who'[r] = who[r] /\ about'[r] = about[r]
    BY <1>0, <1>1 DEF TypeOK, Arrive, Goto, userVars
  <2>2. /\ (IF Account(u).user # None THEN Account(u).user ELSE Account(u).telegram) = u
        /\ Account(u).user = IF u \in accounts THEN u ELSE None
    BY <1>0, AccountIsView
  <2>3. ASSUME NEW i \in DOMAIN secretViews[s], secretViews[s][i].user = None,
               secretViews[s][i].telegram = u
        PROVE  known'[q]
    BY <2>1, <2>3 DEF HasView, Person
  <2>4. OneKey'
    BY <1>0, <2>1 DEF OneKey, Person
  <2>5. OldOnesKnown'
    BY <1>0, <2>1, <2>2, <2>3 DEF OldOnesKnown
  <2>6. Viewer(q)' = u /\ \A r \in Viewing \ {q} : Viewer(r)' = Viewer(r)
    BY <2>1, <2>2 DEF Viewer
  <2>7. AmidInv'
    BY <1>0, <2>1, <2>2, <2>6, AccountAssumption DEF AmidInv, Running
  <2>8. QED
    BY <2>4, <2>5, <2>7 DEF PeopleInv
<1>2. ASSUME NEW q \in Viewing,
             FindSecret(q) \/ FindParent(q) \/ FindViewer(q) \/ FindOwner(q) \/ Push(q)
      PROVE  PeopleInv'
  <2>1. /\ UNCHANGED <<who, about, known, accounts, amid>> /\ Running(q)
        /\ \A r \in Viewing \ {q} : pc[r] = pc'[r]
        /\ pc'[q] # "idle"
    BY <1>0, <1>2
    DEF TypeOK, FindSecret, FindParent, FindViewer, FindOwner, Push, Goto, Finish, userVars,
        Running
  <2>2. AmidInv'
    BY <1>0, <2>1 DEF AmidInv, Running, Viewer
  <2>3. CASE UNCHANGED secretViews
    <3>1. OneKey' /\ OldOnesKnown'
      BY <1>0, <2>1, <2>3 DEF OneKey, OldOnesKnown, Person, Running
    <3>2. QED
      BY <2>2, <3>1 DEF PeopleInv
  <2>4. CASE Push(q)
    BY <1>0, <2>2, <2>3, <2>4, PushAppends, PushKeepsKeys DEF PeopleInv
  <2>5. QED
    BY <1>2, <2>3, <2>4 DEF FindSecret, FindParent, FindViewer, FindOwner
<1>3. ASSUME NEW u \in User, Join(u) PROVE PeopleInv'
  <2>1. /\ UNCHANGED <<pc, who, about, known, secretViews>> /\ accounts' = accounts \cup {u}
        /\ \A s \in Secret : amid[s] \subseteq amid'[s]
        /\ \A q \in Viewing : Running(q) /\ about[q] \in Secret /\ Viewer(q) = u
              => u \in amid'[about[q]]
    BY <1>0, <1>3 DEF TypeOK, Join
  <2>2. OneKey'
    BY <1>0, <2>1 DEF OneKey, Person
  <2>3. \A q \in Viewing : pc[q] # "idle" => about[q] \in Secret
    BY <1>0 DEF IdentityInv
  <2>4. OldOnesKnown'
    BY <1>0, <2>1, <2>3 DEF OldOnesKnown
  <2>5. AmidInv'
    BY <1>0, <2>1, <2>3 DEF AmidInv, Running, Viewer
  <2>6. QED
    BY <2>2, <2>4, <2>5 DEF PeopleInv
<1>4. CASE UNCHANGED <<pc, who, about, known, secretViews, accounts, amid>>
  BY <1>0, <1>4 DEF PeopleInv, OneKey, OldOnesKnown, AmidInv, Person, Running, Viewer
<1>5. QED
  BY <1>1, <1>2, <1>3, <1>4
  DEF Next, AllAnswered, SwitchPrivacy, Rename, EditSharing, DeleteSecret, vars, userVars,
      requestVars

\* The views of one person are all under one key, unless the person's account was made amid
\* a request of theirs: a request with an account stores none beside views without one, and a
\* request without one none beside views of the account.
THEOREM PeopleInvariant == Spec => []PeopleInv
<1>1. IInv /\ PeopleInv /\ [Next]_vars => PeopleInv'
  BY PeopleStep
<1>2. QED
  BY <1>1, InitPeople, ViewsInvariant, PTL DEF Spec

\* Views under one key are of one person, and those of one person are under one key unless
\* the account was made amid a request.
LEMMA KeysArePeople ==
    ASSUME OwnViewsInv, OneKey, NEW s \in Secret,
           NEW i \in DOMAIN secretViews[s], NEW j \in DOMAIN secretViews[s]
    PROVE  /\ PrimaryKey(secretViews[s][i]) = PrimaryKey(secretViews[s][j])
                => Person(secretViews[s][i]) = Person(secretViews[s][j])
           /\ Person(secretViews[s][i]) = Person(secretViews[s][j])
                => \/ Person(secretViews[s][i]) \in amid[s]
                   \/ PrimaryKey(secretViews[s][i]) = PrimaryKey(secretViews[s][j])
<1>1. ASSUME NEW k \in DOMAIN secretViews[s]
      PROVE  /\ Person(secretViews[s][k]) # None
             /\ secretViews[s][k].user # None
                   => PrimaryKey(secretViews[s][k]) = <<"user", Person(secretViews[s][k])>>
             /\ secretViews[s][k].user = None
                   => PrimaryKey(secretViews[s][k]) = <<"telegram", Person(secretViews[s][k])>>
  BY <1>1 DEF OwnViewsInv, PrimaryKey, Person
<1>2. \A x, y, k, l : <<k, x>> = <<l, y>> => k = l /\ x = y
  OBVIOUS
<1>3. PrimaryKey(secretViews[s][i]) = PrimaryKey(secretViews[s][j])
        => Person(secretViews[s][i]) = Person(secretViews[s][j])
  <2>1. PICK k : PrimaryKey(secretViews[s][i]) = <<k, Person(secretViews[s][i])>>
    BY <1>1, Zenon
  <2>2. PICK l : PrimaryKey(secretViews[s][j]) = <<l, Person(secretViews[s][j])>>
    BY <1>1, Zenon
  <2>3. QED
    BY <1>2, <2>1, <2>2, Zenon
<1>4. Person(secretViews[s][i]) = Person(secretViews[s][j])
          /\ Person(secretViews[s][i]) \notin amid[s]
        => (secretViews[s][i].user = None <=> secretViews[s][j].user = None)
  BY DEF OneKey
<1>5. QED
  BY <1>1, <1>3, <1>4, Zenon

\* A set of numbers that has one has a least one.
LEMMA LeastNumber ==
    ASSUME NEW T \in SUBSET Nat, T # {}
    PROVE  \E x \in T : \A y \in T : x <= y
<1> DEFINE R == {p \in Nat \X Nat : p[1] < p[2]}
<1>1. IsWellFoundedOn(R, Nat)
  BY NatLessThanWellFounded DEF OpToRel
<1>2. \A x, y \in Nat : <<y, x>> \in R <=> y < x
  OBVIOUS
<1> HIDE DEF R
<1>3. PICK x \in T : \A y \in T : ~ (<<y, x>> \in R)
  BY <1>1, WFMin
<1>4. ASSUME NEW y \in T PROVE x <= y
  <2>1. x \in Nat /\ y \in Nat
    OBVIOUS
  <2>2. ~(y < x)
    BY <1>2, <1>3, <2>1
  <2>3. QED
    BY <2>1, <2>2
<1>5. QED
  BY <1>4

\* Every view has a first one of its person, which is counted.
LEMMA FirstIsCounted ==
    ASSUME TypeOK, OwnViewsInv, OneKey, NEW s \in Secret, NEW i \in DOMAIN secretViews[s]
    PROVE  \E j \in Deduplicated(secretViews[s]) :
              Person(secretViews[s][j]) = Person(secretViews[s][i])
<1> DEFINE views == secretViews[s]
           same  == {n \in DOMAIN views : PrimaryKey(views[n]) = PrimaryKey(views[i])}
<1>1. DOMAIN views = 1..Len(views) /\ Len(views) \in Nat
  BY DEF TypeOK
<1>2. i \in same /\ same \in SUBSET Nat
  BY <1>1
<1>3. PICK m \in same : \A k \in same : m <= k
  BY <1>2, LeastNumber
<1>4. m \in DOMAIN views /\ PrimaryKey(views[m]) = PrimaryKey(views[i])
  BY <1>3
<1>5. \A k \in 1..(m - 1) : PrimaryKey(views[k]) # PrimaryKey(views[m])
  BY <1>1, <1>3, <1>4
<1>6. m \in Deduplicated(views)
  BY <1>4, <1>5 DEF Deduplicated
<1>7. Person(views[m]) = Person(views[i])
  BY <1>4, KeysArePeople
<1>8. QED
  BY <1>6, <1>7

LEMMA CountedPeople ==
    ASSUME TypeOK, OwnViewsInv, OneKey, NEW s \in Secret,
           {Person(secretViews[s][i]) : i \in DOMAIN secretViews[s]} \cap amid[s] = {}
    PROVE  UniqueViewers(secretViews[s])
             = Cardinality({Person(secretViews[s][i]) : i \in DOMAIN secretViews[s]})
<1> DEFINE views  == secretViews[s]
           people == {Person(views[i]) : i \in DOMAIN views}
           counted == Deduplicated(views)
           f == [i \in counted |-> Person(views[i])]
<1>1. DOMAIN views = 1..Len(views) /\ Len(views) \in Nat
  BY DEF TypeOK
<1>2. counted \subseteq DOMAIN views
  BY DEF Deduplicated
<1>3. IsFiniteSet(counted)
  <2>1. IsFiniteSet(1..Len(views))
    <3>1. 1 \in Int /\ Len(views) \in Int
      BY <1>1
    <3>2. QED
      BY <3>1, FS_Interval
  <2>2. QED
    BY <1>1, <1>2, <2>1, FS_Subset
<1>4. f \in [counted -> people]
  BY <1>2
<1>5. ASSUME NEW i \in counted, NEW j \in counted, f[i] = f[j] PROVE i = j
  <2>1. PrimaryKey(views[i]) = PrimaryKey(views[j])
    BY <1>2, <1>5, KeysArePeople
  <2>2. ~(i < j) /\ ~(j < i)
    BY <1>1, <1>2, <2>1 DEF Deduplicated
  <2>3. QED
    BY <1>1, <1>2, <2>2
<1>6. ASSUME NEW p \in people PROVE \E i \in counted : f[i] = p
  <2>1. PICK i \in DOMAIN views : p = Person(views[i])
    BY <1>6
  <2>2. QED
    BY <2>1, FirstIsCounted
<1>7. f \in Bijection(counted, people)
  BY <1>4, <1>5, <1>6 DEF Bijection, Injection, Surjection, IsInjective
<1>8. ExistsBijection(counted, people)
  BY <1>7 DEF ExistsBijection
<1>9. QED
  BY <1>3, <1>8, FS_Bijection DEF UniqueViewers

\* The statistics count each person once, however requests overlap and whatever names the
\* views were made under, where no viewer's account was made amid a request
\* (password-views.service.ts:117-125, 405-425, 518).
THEOREM StatsCountPeopleHolds == Spec => []StatsCountPeople
<1>1. IInv /\ PeopleInv => StatsCountPeople
  BY CountedPeople DEF IInv, PeopleInv, StatsCountPeople
<1>2. QED
  BY <1>1, ViewsInvariant, PeopleInvariant, PTL

\* The identifiers of a person's first view name the person, as the account is now.
LEMMA ViewerIsTold ==
    ASSUME TypeOK, IdentityInv, OwnViewsInv, OneKey, NEW s \in Secret, NEW u \in accounts,
           HasView(u, s)
    PROVE  /\ HasViewedSecret(Account(u), secretViews[s])
           /\ \A e \in sharedWith[s] :
                 e.user = u => Category(e, secretViews[s], [w \in accounts |-> Account(w)],
                                        privacyMode) = "viewed"
<1> DEFINE views == secretViews[s]
<1>1. PICK i \in DOMAIN views : Person(views[i]) = u
  BY DEF HasView
<1>2. \A j \in DOMAIN views : views[j] \in View
  BY DEF TypeOK
<1>3. u # None /\ u \in User
  BY AccountAssumption DEF TypeOK
<1>4. PICK j \in Deduplicated(views) : Person(views[j]) = u
  BY <1>1, FirstIsCounted
<1>5. ASSUME NEW k \in DOMAIN views, Person(views[k]) = u
      PROVE  \/ views[k].user = u
             \/ views[k].telegram = u /\ u \in Telegram
  BY <1>2, <1>3, <1>5 DEF Person, View
<1>6. /\ Account(u).user = u
      /\ u \in Telegram => Account(u).telegram = u
  BY <1>3, AccountIsView
<1>7. HasViewedSecret(Account(u), views)
  BY <1>1, <1>5, <1>6 DEF HasViewedSecret
<1>8. ASSUME NEW e \in sharedWith[s], e.user = u
      PROVE  Category(e, views, [w \in accounts |-> Account(w)], privacyMode) = "viewed"
  <2> DEFINE id == IF views[j].user = u THEN <<"user", u>> ELSE <<"telegram", u>>
  <2>1. j \in DOMAIN views
    BY <1>4 DEF Deduplicated
  <2>2. id \in Identifiers(views[j])
    BY <1>3, <1>4, <1>5, <2>1 DEF Identifiers
  <2>3. id \in ViewedIdentifiers(views)
    BY <1>4, <2>2 DEF ViewedIdentifiers
  <2>4. [w \in accounts |-> Account(w)][u] = Account(u)
    OBVIOUS
  <2>5. id \in {<<"user", e.user>>, <<"telegram", Account(u).telegram>>,
                <<"name", Account(u).name>>}
    BY <1>4, <1>5, <1>6, <1>8, <2>1
  <2>6. QED
    BY <1>3, <1>8, <2>3, <2>4, <2>5 DEF Category
<1>9. QED
  BY <1>7, <1>8

\* Whoever has a view is told so, and is listed as a viewer where the secret is shared with
\* the account (password-views.service.ts:391-401, 523-530, 575-647).
THEOREM ViewersAreToldHolds == Spec => []ViewersAreTold
<1>1. IInv /\ PeopleInv => ViewersAreTold
  BY ViewerIsTold DEF IInv, PeopleInv, ViewersAreTold
<1>2. QED
  BY <1>1, ViewsInvariant, PeopleInvariant, PTL
==============================================================================
