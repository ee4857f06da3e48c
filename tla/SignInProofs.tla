----------------------------- MODULE SignInProofs -----------------------------
(* Proofs about SignIn, for any requests, accounts and addresses. *)
EXTENDS SignIn, TLAPS

\* Where a request stands while its own account is being made, and before.
NoAccountYet == {"idle", "find", "create", "verify", "expire", "lookup", "link"}
Making       == {"record", "undo", "relink"}

\* What a request is about where it stands; who pushes an account onto a record has read it.
OnItsWay(r) ==
    /\ pc[r] = "find" => kind[r] \in {"challenge", "plainChallenge"}
    /\ pc[r] = "create" => kind[r] \in {"challenge", "login"}
    /\ pc[r] = "record" => kind[r] \in {"challenge", "plainChallenge", "login"}
    /\ pc[r] = "undo" => kind[r] = "challenge"
    /\ pc[r] = "verify" => kind[r] \in {"login", "add"}
    /\ pc[r] \in {"lookup", "relink", "token"} => kind[r] = "login"
    /\ pc[r] = "link" => kind[r] = "add"
    /\ kind[r] = "add" \/ pc[r] \in {"relink", "token"} => user[r] \in Account
    /\ pc[r] = "record" /\ kind[r] # "plainChallenge" => user[r] = r
    /\ pc[r] \in {"undo", "relink"} => user[r] = r
    /\ pc[r] \in {"relink", "link"} \/ kind[r] = "add" => record[text[r]] # None

AllOnTheirWay == \A r \in Request : OnItsWay(r)

\* A login let in by a record was let in as the account at its head.
HeadsLetIn ==
    \A r \in Request :
        kind[r] = "login" /\ pc[r] = "token" /\ user[r] # r
            => record[text[r]] \notin {None, <<>>} /\ user[r] = Head(record[text[r]])

\* A challenge is its address's own, and lives until it is dead.
ChallengesAreOwn ==
    /\ \A t \in Text :
          /\ challenge[t] # None => pc[challenge[t]] = "issued" /\ text[challenge[t]] = t
          /\ live[t] => challenge[t] # None /\ challenge[t] \notin dead
    /\ \A q \in Request :
          /\ q \in dead => pc[q] = "issued"
          /\ pc[q] = "issued" /\ q \notin dead => challenge[text[q]] = q /\ live[text[q]]

\* Whoever brings a signature brings that of a challenge for his address.
ProofsAreIssued ==
    \A r \in Request :
        proof[r] # None /\ pc[r] # "idle"
            => pc[proof[r]] = "issued" /\ text[proof[r]] = Trim[text[r]]

\* What becomes of a signature that was stale on arrival.
StaleAt(r) ==
    /\ pc[r] # "idle"
    /\ proof[r] \in dead
    /\ kind[r] \in {"login", "add"} /\ Trim[text[r]] \in Ethereum
          => pc[r] \in {"verify", "expire", "refused"}
    /\ kind[r] \notin {"login", "add"}
          => kind[r] = "plainChallenge" /\ pc[r] \in {"find", "record", "issue", "issued"}

StaleStays == \A r \in stale : StaleAt(r)

CauseKnown ==
    \A r \in Request :
        pc[r] \in {"expire", "refused"} /\ proof[r] # None => proof[r] \in dead \/ r \in spoilt

\* An account that a request makes is on its way to the record, on it, or gone.
MadeAt(r) ==
    /\ pc[r] \in NoAccountYet => r \notin exists
    /\ r \in exists /\ pc[r] \notin Making \cup {"failed"}
          => r \in Holders(text[r]) \cup spared
    /\ kind[r] \in {"plainChallenge", "add"} => r \notin exists

AccountsAreMade == \A r \in Request : MadeAt(r)

Inv == /\ TypeOK
       /\ AllOnTheirWay
       /\ HeadsLetIn
       /\ ChallengesAreOwn
       /\ ProofsAreIssued
       /\ StaleStays
       /\ CauseKnown
       /\ AccountsAreMade

------------------------------------------------------------------------------
(* Records only grow, at their end. *)

Grown ==
    /\ record' = [t \in Text |-> record'[t]]
    /\ \A t \in Text :
          \/ record'[t] = record[t]
          \/ record[t] = None /\ record'[t] \in Seq(Account)
          \/ record[t] # None /\ \E u \in Account : record'[t] = Append(record[t], u)

LEMMA Appending ==
    ASSUME NEW s \in Seq(Account), NEW u \in Account
    PROVE  /\ Append(s, u) \in Seq(Account)
           /\ s # <<>> => Append(s, u) # <<>> /\ Head(Append(s, u)) = Head(s)
           /\ \A i \in DOMAIN s : i \in DOMAIN Append(s, u) /\ Append(s, u)[i] = s[i]
           /\ \E i \in DOMAIN Append(s, u) : Append(s, u)[i] = u
<1>1. Append(s, u) \in Seq(Account) /\ Len(Append(s, u)) = Len(s) + 1
  OBVIOUS
<1>2. \A i \in 1..Len(s) : Append(s, u)[i] = s[i]
  OBVIOUS
<1>3. Append(s, u)[Len(s) + 1] = u
  OBVIOUS
<1>4. DOMAIN s = 1..Len(s) /\ DOMAIN Append(s, u) = 1..(Len(s) + 1) /\ Len(s) \in Nat
  BY <1>1
<1>5. s # <<>> => Append(s, u) # <<>> /\ Head(Append(s, u)) = Head(s)
  BY <1>1, <1>2
<1> QED
  BY <1>1, <1>2, <1>3, <1>4, <1>5

LEMMA RecordsGrow ==
    ASSUME TypeOK, AllOnTheirWay, Next
    PROVE  Grown
<1> USE DEF TypeOK, Grown, Account, AllOnTheirWay, OnItsWay
<1>1. ASSUME NEW r \in Request, NEW t \in Text, NEW what, Ask(r, what, t) PROVE Grown
  BY <1>1 DEF Ask, Arrive
<1>2. ASSUME NEW r \in Request, NEW t \in Text, NEW n, Login(r, t, n) PROVE Grown
  BY <1>2 DEF Login, Arrive
<1>3. ASSUME NEW r \in Request, NEW t \in Text, NEW n, NEW u \in Old, Add(r, u, t, n)
      PROVE  Grown
  BY <1>3 DEF Add, Arrive
<1>4. ASSUME NEW r \in Request, SaveRecord(r) PROVE Grown
  <2> USE DEF Goto
  <2> DEFINE made == IF kind[r] = "plainChallenge" THEN <<>> ELSE <<user[r]>>
  <2>0. kind[r] # "plainChallenge" => user[r] \in Account
    BY <1>4 DEF SaveRecord
  <2>1. made \in Seq(Account)
    <3>1. CASE kind[r] = "plainChallenge"
      BY <3>1
    <3>2. CASE kind[r] # "plainChallenge"
      BY <3>2, <2>0
    <3> QED
      BY <3>1, <3>2
  <2>2. record' = [record EXCEPT ![text[r]] = IF record[text[r]] = None THEN made ELSE @]
    BY <1>4 DEF SaveRecord
  <2>3. text[r] \in Text
    BY <1>4 DEF SaveRecord
  <2> HIDE DEF made
  <2> QED
    BY <2>1, <2>2, <2>3
<1>5. ASSUME NEW r \in Request, Relink(r) PROVE Grown
  <2>1. user[r] \in Account /\ text[r] \in Text /\ record[text[r]] # None
    BY <1>5 DEF Relink, Goto
  <2> QED
    BY <1>5, <2>1 DEF Relink, Holders
<1>6. ASSUME NEW r \in Request, Link(r) PROVE Grown
  <2>1. user[r] \in Account /\ text[r] \in Text /\ record[text[r]] # None
    BY <1>6 DEF Link, Goto
  <2> QED
    BY <1>6, <2>1 DEF Link
<1>7. ASSUME UNCHANGED record PROVE Grown
  BY <1>7
<1> QED
  BY <1>1, <1>2, <1>3, <1>4, <1>5, <1>6, <1>7 DEF Next, FindRecord, CreateUser, UndoUser,
     Issue, Verify, Active, VerifyFails, ExpireChallenge, Expired, Lookup, Fail, TimeOut, Deactivate

LEMMA RecordsStay ==
    ASSUME TypeOK, Grown
    PROVE  /\ \A t \in Text : record'[t] \in Seq(Account) \cup {None}
           /\ \A t \in Text : record[t] # None => record'[t] # None
           /\ \A t \in Text : record[t] \notin {None, <<>>}
                 => record'[t] \notin {None, <<>>} /\ Head(record'[t]) = Head(record[t])
           /\ \A t \in Text : Holders(t) \subseteq Holders(t)'
<1> SUFFICES ASSUME NEW t \in Text
             PROVE  /\ record'[t] \in Seq(Account) \cup {None}
                    /\ record[t] # None => record'[t] # None
                    /\ record[t] \notin {None, <<>>}
                          => record'[t] \notin {None, <<>>}
                             /\ Head(record'[t]) = Head(record[t])
                    /\ Holders(t) \subseteq Holders(t)'
  OBVIOUS
<1>1. record[t] \in Seq(Account) \cup {None}
  BY DEF TypeOK
<1>2. CASE record'[t] = record[t]
  BY <1>1, <1>2 DEF Holders
<1>3. CASE record[t] = None /\ record'[t] \in Seq(Account)
  BY <1>3, NameAssumption DEF Holders
<1>4. CASE record[t] # None /\ \E u \in Account : record'[t] = Append(record[t], u)
  <2> PICK u \in Account : record'[t] = Append(record[t], u)
    BY <1>4
  <2>1. record[t] \in Seq(Account)
    BY <1>1, <1>4
  <2>2. Append(record[t], u) \in Seq(Account) /\ Append(record[t], u) # None
    BY <2>1, Appending, NameAssumption
  <2>3. record[t] # <<>>
          => record'[t] # <<>> /\ Head(record'[t]) = Head(record[t])
    BY <2>1, Appending
  <2>4. \A i \in DOMAIN record[t] : i \in DOMAIN record'[t] /\ record'[t][i] = record[t][i]
    BY <2>1, Appending
  <2>5. Holders(t) \subseteq Holders(t)'
    BY <1>4, <2>2, <2>4 DEF Holders
  <2> QED
    BY <1>4, <2>2, <2>3, <2>5
<1> QED
  BY <1>2, <1>3, <1>4 DEF Grown

------------------------------------------------------------------------------
(* Types. *)

LEMMA TypeInit == Init => TypeOK
BY NameAssumption DEF Init, TypeOK, Account, Steps, Ended, Kinds

LEMMA TypeNext ==
    ASSUME TypeOK, AllOnTheirWay, Next
    PROVE  TypeOK'
<1> USE DEF TypeOK, AllOnTheirWay, OnItsWay, Account, Steps, Ended, Kinds, accountVars, challengeVars, localVars, history,
            Goto
<1>0. record' \in [Text -> Seq(Account) \cup {None}]
  <2>1. \A t \in Text : record'[t] \in Seq(Account) \cup {None}
    BY RecordsGrow, RecordsStay
  <2>2. record' = [t \in Text |-> record'[t]]
    BY RecordsGrow DEF Grown
  <2> QED
    BY <2>1, <2>2
<1>1. ASSUME NEW r \in Request, NEW t \in Text, NEW what \in {"challenge", "plainChallenge"},
             Ask(r, what, t)
      PROVE  TypeOK'
  BY <1>1, <1>0, TextAssumption DEF Ask, Arrive
<1>2. ASSUME NEW r \in Request, NEW t \in Text, NEW n \in Request \cup {None}, Login(r, t, n)
      PROVE  TypeOK'
  BY <1>2, <1>0, TextAssumption DEF Login, Arrive
<1>3. ASSUME NEW r \in Request, NEW t \in Text, NEW n \in Request \cup {None}, NEW u \in Old,
             Add(r, u, t, n)
      PROVE  TypeOK'
  <2> DEFINE there == record[Trim[t]] # None
  <2>1. /\ pc' = [pc EXCEPT ![r] = IF ~there THEN "find"
                                   ELSE IF Trim[t] \in Ethereum THEN "verify" ELSE "link"]
        /\ kind' = [kind EXCEPT ![r] = IF there THEN "add" ELSE "plainChallenge"]
    BY <1>3 DEF Add, Arrive
  <2>2. (u \in Holders(Trim[t])) \in BOOLEAN
    OBVIOUS
  <2> HIDE DEF there
  <2>3. pc' \in [Request -> {"idle"} \cup Steps \cup Ended] /\ kind' \in [Request -> Kinds \cup {None}]
    BY <2>1
  <2> QED
    BY <1>3, <1>0, <2>1, <2>2, <2>3, TextAssumption DEF Add, Arrive
<1>4. ASSUME NEW r \in Request, FindRecord(r) PROVE TypeOK'
  <2>1. PICK s \in {"issue", "create", "record"} : Goto(r, "find", s)
    BY <1>4 DEF FindRecord
  <2> QED
    BY <1>4, <1>0, <2>1 DEF FindRecord
<1>5. ASSUME NEW r \in Request, CreateUser(r) PROVE TypeOK'
  BY <1>5, <1>0 DEF CreateUser
<1>6. ASSUME NEW r \in Request, SaveRecord(r) PROVE TypeOK'
  BY <1>6, <1>0 DEF SaveRecord
<1>7. ASSUME NEW r \in Request, UndoUser(r) PROVE TypeOK'
  BY <1>7, <1>0 DEF UndoUser
<1>8. ASSUME NEW r \in Request, Relink(r) PROVE TypeOK'
  BY <1>8, <1>0 DEF Relink
<1>9. ASSUME NEW r \in Request, Issue(r) PROVE TypeOK'
  BY <1>9, <1>0 DEF Issue
<1>17. ASSUME NEW r \in Request, VerifyFails(r) PROVE TypeOK'
    BY <1>17 DEF VerifyFails
<1>10. ASSUME NEW r \in Request, Verify(r) PROVE TypeOK'
  <2>1. PICK s \in {"refused", "expire", "lookup", "link"} : Goto(r, "verify", s)
    BY <1>10 DEF Verify, Active
  <2> QED
    BY <1>10, <1>0, <2>1 DEF Verify, Active
<1>11. ASSUME NEW r \in Request, ExpireChallenge(r) PROVE TypeOK'
  <2>1. CASE Expired(Trim[text[r]])
    <3>1. pc[r] = "expire"
      BY <1>11 DEF ExpireChallenge
    <3>2. Trim[text[r]] \in Text
      BY <3>1, TextAssumption
    <3>3. challenge[Trim[text[r]]] \in Request
      BY <2>1, <3>2 DEF Expired
    <3> QED
      BY <1>11, <1>0, <2>1, <3>3 DEF ExpireChallenge, Expired
  <2>2. CASE UNCHANGED <<accountVars, record, challengeVars, localVars, history>>
    BY <1>11, <1>0, <2>2 DEF ExpireChallenge
  <2> QED
    BY <1>11, <2>1, <2>2 DEF ExpireChallenge
<1>12. ASSUME NEW r \in Request, Lookup(r) PROVE TypeOK'
  <2>1. record[text[r]] \in Seq(Account) \cup {None}
    BY <1>12 DEF Lookup
  <2>2. record[text[r]] \notin {None, <<>>} => Head(record[text[r]]) \in Account
    BY <2>1
  <2>3. user' \in [Request -> Account \cup {None}]
    BY <1>12, <2>2 DEF Lookup
  <2>4. PICK s \in {"create", "token", "denied"} : Goto(r, "lookup", s)
    BY <1>12 DEF Lookup
  <2> QED
    BY <1>12, <1>0, <2>3, <2>4 DEF Lookup
<1>13. ASSUME NEW r \in Request, Link(r) PROVE TypeOK'
  BY <1>13, <1>0 DEF Link
<1>14. ASSUME NEW r \in Request, Fail(r) PROVE TypeOK'
  BY <1>14, <1>0, NameAssumption DEF Fail
<1>15. ASSUME NEW t \in Text, TimeOut(t) PROVE TypeOK'
  BY <1>15, <1>0 DEF TimeOut, Expired
<1>16. ASSUME NEW u \in Account, Deactivate(u) PROVE TypeOK'
  BY <1>16, <1>0 DEF Deactivate
<1> HIDE DEF TypeOK, AllOnTheirWay, OnItsWay, Account
<1> QED
  BY <1>1, <1>2, <1>3, <1>4, <1>5, <1>6, <1>7, <1>8, <1>9, <1>10, <1>11, <1>12, <1>13, <1>14,
     <1>15, <1>16, <1>17 DEF Next

------------------------------------------------------------------------------
(* Control. *)

LEMMA OnItsWayNext ==
    ASSUME TypeOK, AllOnTheirWay, Next, NEW q \in Request
    PROVE  OnItsWay(q)'
<1>0. \A t \in Text : record[t] # None => record'[t] # None
  BY RecordsGrow, RecordsStay
<1> USE DEF TypeOK, AllOnTheirWay, OnItsWay, Account, Steps, Ended, Kinds, localVars, Goto
<1>1. ASSUME NEW r \in Request, NEW t \in Text, NEW what \in {"challenge", "plainChallenge"},
             Ask(r, what, t)
      PROVE  OnItsWay(q)'
  BY <1>1, <1>0 DEF Ask, Arrive
<1>2. ASSUME NEW r \in Request, NEW t \in Text, NEW n \in Request \cup {None}, Login(r, t, n)
      PROVE  OnItsWay(q)'
  BY <1>2, <1>0 DEF Login, Arrive
<1>3. ASSUME NEW r \in Request, NEW t \in Text, NEW n \in Request \cup {None}, NEW u \in Old,
             Add(r, u, t, n)
      PROVE  OnItsWay(q)'
  BY <1>3, <1>0, TextAssumption DEF Add, Arrive
<1>4. ASSUME NEW r \in Request, FindRecord(r) PROVE OnItsWay(q)'
  BY <1>4, <1>0 DEF FindRecord
<1>5. ASSUME NEW r \in Request, CreateUser(r) PROVE OnItsWay(q)'
  BY <1>5, <1>0 DEF CreateUser
<1>6. ASSUME NEW r \in Request, SaveRecord(r) PROVE OnItsWay(q)'
  BY <1>6, <1>0 DEF SaveRecord
<1>7. ASSUME NEW r \in Request, UndoUser(r) PROVE OnItsWay(q)'
  BY <1>7, <1>0 DEF UndoUser
<1>8. ASSUME NEW r \in Request, Relink(r) PROVE OnItsWay(q)'
  BY <1>8, <1>0 DEF Relink
<1>9. ASSUME NEW r \in Request, Issue(r) PROVE OnItsWay(q)'
  BY <1>9, <1>0 DEF Issue
<1>17. ASSUME NEW r \in Request, VerifyFails(r) PROVE OnItsWay(q)'
  BY <1>17, <1>0 DEF VerifyFails
<1>10. ASSUME NEW r \in Request, Verify(r) PROVE OnItsWay(q)'
  BY <1>10, <1>0 DEF Verify, Active
<1>11. ASSUME NEW r \in Request, ExpireChallenge(r) PROVE OnItsWay(q)'
  BY <1>11, <1>0 DEF ExpireChallenge, Expired
<1>12. ASSUME NEW r \in Request, Lookup(r) PROVE OnItsWay(q)'
  BY <1>12, <1>0 DEF Lookup
<1>13. ASSUME NEW r \in Request, Link(r) PROVE OnItsWay(q)'
  BY <1>13, <1>0 DEF Link
<1>14. ASSUME NEW r \in Request, Fail(r) PROVE OnItsWay(q)'
  BY <1>14, <1>0, NameAssumption DEF Fail
<1>15. ASSUME NEW t \in Text, TimeOut(t) PROVE OnItsWay(q)'
  BY <1>15, <1>0 DEF TimeOut, Expired
<1>16. ASSUME NEW u \in Account, Deactivate(u) PROVE OnItsWay(q)'
  BY <1>16, <1>0 DEF Deactivate
<1> HIDE DEF TypeOK, AllOnTheirWay, OnItsWay, Account
<1> QED
  BY <1>1, <1>2, <1>3, <1>4, <1>5, <1>6, <1>7, <1>8, <1>9, <1>10, <1>11, <1>12, <1>13, <1>14,
     <1>15, <1>16, <1>17 DEF Next

------------------------------------------------------------------------------
(* Heads. *)

LEMMA HeadsNext ==
    ASSUME TypeOK, AllOnTheirWay, HeadsLetIn, Next
    PROVE  HeadsLetIn'
<1>0. \A t \in Text : record[t] \notin {None, <<>>}
         => record'[t] \notin {None, <<>>} /\ Head(record'[t]) = Head(record[t])
  BY RecordsGrow, RecordsStay
<1> SUFFICES ASSUME NEW q \in Request,
                    kind'[q] = "login", pc'[q] = "token", user'[q] # q
             PROVE  record'[text'[q]] \notin {None, <<>>} /\ user'[q] = Head(record'[text'[q]])
  BY DEF HeadsLetIn
<1> DEFINE Goal == record'[text'[q]] \notin {None, <<>>} /\ user'[q] = Head(record'[text'[q]])
<1>00. text'[q] \in Text
  BY TypeNext DEF TypeOK
<1> USE DEF TypeOK, HeadsLetIn, localVars, Goto
<1>1. ASSUME NEW r \in Request, NEW t \in Text, NEW what \in {"challenge", "plainChallenge"},
             Ask(r, what, t)
      PROVE  Goal
  BY <1>1, <1>0, <1>00 DEF Ask, Arrive
<1>2. ASSUME NEW r \in Request, NEW t \in Text, NEW n \in Request \cup {None}, Login(r, t, n)
      PROVE  Goal
  BY <1>2, <1>0, <1>00 DEF Login, Arrive
<1>3. ASSUME NEW r \in Request, NEW t \in Text, NEW n \in Request \cup {None}, NEW u \in Old,
             Add(r, u, t, n)
      PROVE  Goal
  BY <1>3, <1>0, <1>00 DEF Add, Arrive
<1>4. ASSUME NEW r \in Request, FindRecord(r) PROVE Goal
  BY <1>4, <1>0, <1>00 DEF FindRecord
<1>5. ASSUME NEW r \in Request, CreateUser(r) PROVE Goal
  BY <1>5, <1>0, <1>00 DEF CreateUser
<1>6. ASSUME NEW r \in Request, SaveRecord(r) PROVE Goal
  <2>1. CASE q = r
    <3>1. user[r] = r
      BY <1>6, <2>1 DEF SaveRecord, AllOnTheirWay, OnItsWay
    <3> QED
      BY <1>6, <2>1, <3>1 DEF SaveRecord
  <2>2. CASE q # r
    BY <1>6, <1>0, <1>00, <2>2 DEF SaveRecord
  <2> QED
    BY <2>1, <2>2
<1>7. ASSUME NEW r \in Request, UndoUser(r) PROVE Goal
  BY <1>7, <1>0, <1>00 DEF UndoUser
<1>8. ASSUME NEW r \in Request, Relink(r) PROVE Goal
  BY <1>8, <1>0, <1>00 DEF Relink, AllOnTheirWay, OnItsWay
<1>9. ASSUME NEW r \in Request, Issue(r) PROVE Goal
  BY <1>9, <1>0, <1>00 DEF Issue
<1>17. ASSUME NEW r \in Request, VerifyFails(r) PROVE Goal
  BY <1>17, <1>0, <1>00 DEF VerifyFails
<1>10. ASSUME NEW r \in Request, Verify(r) PROVE Goal
  BY <1>10, <1>0, <1>00 DEF Verify, Active
<1>11. ASSUME NEW r \in Request, ExpireChallenge(r) PROVE Goal
  BY <1>11, <1>0, <1>00 DEF ExpireChallenge, Expired
<1>12. ASSUME NEW r \in Request, Lookup(r) PROVE Goal
  BY <1>12, <1>0, <1>00 DEF Lookup
<1>13. ASSUME NEW r \in Request, Link(r) PROVE Goal
  BY <1>13, <1>0, <1>00 DEF Link
<1>14. ASSUME NEW r \in Request, Fail(r) PROVE Goal
  BY <1>14, <1>0, <1>00 DEF Fail
<1>15. ASSUME NEW t \in Text, TimeOut(t) PROVE Goal
  BY <1>15, <1>0, <1>00 DEF TimeOut, Expired
<1>16. ASSUME NEW u \in Account, Deactivate(u) PROVE Goal
  BY <1>16, <1>0, <1>00 DEF Deactivate
<1> HIDE DEF TypeOK, HeadsLetIn
<1> QED
  BY <1>1, <1>2, <1>3, <1>4, <1>5, <1>6, <1>7, <1>8, <1>9, <1>10, <1>11, <1>12, <1>13, <1>14,
     <1>15, <1>16, <1>17 DEF Next

------------------------------------------------------------------------------
(* Challenges and the signatures over them. *)

LEMMA TrimmedIsText ==
    ASSUME TypeOK, NEW r \in Request, pc[r] \in Steps
    PROVE  text[r] \in Text /\ Trim[text[r]] \in Text
BY TextAssumption DEF TypeOK, Steps

LEMMA ChallengesNext ==
    ASSUME TypeOK, ChallengesAreOwn, Next
    PROVE  ChallengesAreOwn'
<1> USE TrimmedIsText DEF TypeOK, ChallengesAreOwn, Steps, Ended, challengeVars, localVars, history,
    Goto
<1>1. ASSUME NEW r \in Request, NEW t \in Text, NEW what \in {"challenge", "plainChallenge"},
             Ask(r, what, t)
      PROVE  ChallengesAreOwn'
  BY <1>1 DEF Ask, Arrive
<1>2. ASSUME NEW r \in Request, NEW t \in Text, NEW n \in Request \cup {None}, Login(r, t, n)
      PROVE  ChallengesAreOwn'
  BY <1>2 DEF Login, Arrive
<1>3. ASSUME NEW r \in Request, NEW t \in Text, NEW n \in Request \cup {None}, NEW u \in Old,
             Add(r, u, t, n)
      PROVE  ChallengesAreOwn'
  BY <1>3 DEF Add, Arrive
<1>4. ASSUME NEW r \in Request, FindRecord(r) PROVE ChallengesAreOwn'
  BY <1>4 DEF FindRecord
<1>5. ASSUME NEW r \in Request, CreateUser(r) PROVE ChallengesAreOwn'
  BY <1>5 DEF CreateUser
<1>6. ASSUME NEW r \in Request, SaveRecord(r) PROVE ChallengesAreOwn'
  BY <1>6 DEF SaveRecord
<1>7. ASSUME NEW r \in Request, UndoUser(r) PROVE ChallengesAreOwn'
  BY <1>7 DEF UndoUser
<1>8. ASSUME NEW r \in Request, Relink(r) PROVE ChallengesAreOwn'
  BY <1>8 DEF Relink
<1>9. ASSUME NEW r \in Request, Issue(r) PROVE ChallengesAreOwn'
  <2> DEFINE t == text[r]
  <2>0. r # None
    BY NameAssumption DEF Account
  <2>1. t \in Text /\ r \notin dead /\ r # challenge[t]
    BY <1>9, <2>0 DEF Issue
  <2>2. /\ challenge' = [challenge EXCEPT ![t] = r] /\ live' = [live EXCEPT ![t] = TRUE]
        /\ dead' = dead \cup ({challenge[t]} \ {None})
        /\ pc' = [pc EXCEPT ![r] = "issued"] /\ text' = text /\ pc[r] = "issue"
    BY <1>9 DEF Issue
  <2>3. r # None
    BY NameAssumption DEF Account
  <2>4. ASSUME NEW v \in Text
        PROVE  /\ challenge'[v] # None
                     => pc'[challenge'[v]] = "issued" /\ text'[challenge'[v]] = v
               /\ live'[v] => challenge'[v] # None /\ challenge'[v] \notin dead'
    <3>1. CASE v = t
      BY <2>1, <2>2, <2>3, <3>1
    <3>2. CASE v # t
      BY <2>1, <2>2, <3>2
    <3> QED
      BY <3>1, <3>2
  <2>5. ASSUME NEW q \in Request
        PROVE  /\ q \in dead' => pc'[q] = "issued"
               /\ pc'[q] = "issued" /\ q \notin dead'
                     => challenge'[text'[q]] = q /\ live'[text'[q]]
    <3>1. CASE q = r
      BY <2>1, <2>2, <3>1
    <3>2. CASE q # r
      <4>1. pc[q] = "issued" => text[q] \in Text
        OBVIOUS
      <4> QED
        BY <2>1, <2>2, <3>2, <4>1
    <3> QED
      BY <3>1, <3>2
  <2> QED
    BY <2>4, <2>5
<1>17. ASSUME NEW r \in Request, VerifyFails(r) PROVE ChallengesAreOwn'
  BY <1>17 DEF VerifyFails
<1>10. ASSUME NEW r \in Request, Verify(r) PROVE ChallengesAreOwn'
  BY <1>10 DEF Verify, Active
<1>11. ASSUME NEW r \in Request, ExpireChallenge(r) PROVE ChallengesAreOwn'
  BY <1>11 DEF ExpireChallenge, Expired
<1>12. ASSUME NEW r \in Request, Lookup(r) PROVE ChallengesAreOwn'
  BY <1>12 DEF Lookup
<1>13. ASSUME NEW r \in Request, Link(r) PROVE ChallengesAreOwn'
  BY <1>13 DEF Link
<1>14. ASSUME NEW r \in Request, Fail(r) PROVE ChallengesAreOwn'
  BY <1>14 DEF Fail
<1>15. ASSUME NEW t \in Text, TimeOut(t) PROVE ChallengesAreOwn'
  BY <1>15 DEF TimeOut, Expired
<1>16. ASSUME NEW u \in Account, Deactivate(u) PROVE ChallengesAreOwn'
  BY <1>16 DEF Deactivate
<1> HIDE DEF TypeOK, ChallengesAreOwn
<1> QED
  BY <1>1, <1>2, <1>3, <1>4, <1>5, <1>6, <1>7, <1>8, <1>9, <1>10, <1>11, <1>12, <1>13, <1>14,
     <1>15, <1>16, <1>17 DEF Next

LEMMA ProofsNext ==
    ASSUME TypeOK, ProofsAreIssued, Next
    PROVE  ProofsAreIssued'
<1> SUFFICES ASSUME NEW q \in Request, proof'[q] # None, pc'[q] # "idle"
             PROVE  pc'[proof'[q]] = "issued" /\ text'[proof'[q]] = Trim[text'[q]]
  BY DEF ProofsAreIssued
<1> DEFINE Goal == pc'[proof'[q]] = "issued" /\ text'[proof'[q]] = Trim[text'[q]]
<1> USE TextAssumption DEF TypeOK, ProofsAreIssued, Steps, Ended, localVars, Goto, Signable
<1>1. ASSUME NEW r \in Request, NEW t \in Text, NEW what \in {"challenge", "plainChallenge"},
             Ask(r, what, t)
      PROVE  Goal
  BY <1>1 DEF Ask, Arrive
<1>2. ASSUME NEW r \in Request, NEW t \in Text, NEW n \in Request \cup {None}, Login(r, t, n)
      PROVE  Goal
  BY <1>2 DEF Login, Arrive
<1>3. ASSUME NEW r \in Request, NEW t \in Text, NEW n \in Request \cup {None}, NEW u \in Old,
             Add(r, u, t, n)
      PROVE  Goal
  BY <1>3 DEF Add, Arrive
<1>4. ASSUME NEW r \in Request, FindRecord(r) PROVE Goal
  BY <1>4 DEF FindRecord
<1>5. ASSUME NEW r \in Request, CreateUser(r) PROVE Goal
  BY <1>5 DEF CreateUser
<1>6. ASSUME NEW r \in Request, SaveRecord(r) PROVE Goal
  BY <1>6 DEF SaveRecord
<1>7. ASSUME NEW r \in Request, UndoUser(r) PROVE Goal
  BY <1>7 DEF UndoUser
<1>8. ASSUME NEW r \in Request, Relink(r) PROVE Goal
  BY <1>8 DEF Relink
<1>9. ASSUME NEW r \in Request, Issue(r) PROVE Goal
  BY <1>9 DEF Issue
<1>17. ASSUME NEW r \in Request, VerifyFails(r) PROVE Goal
  BY <1>17 DEF VerifyFails
<1>10. ASSUME NEW r \in Request, Verify(r) PROVE Goal
  BY <1>10 DEF Verify, Active
<1>11. ASSUME NEW r \in Request, ExpireChallenge(r) PROVE Goal
  BY <1>11 DEF ExpireChallenge, Expired
<1>12. ASSUME NEW r \in Request, Lookup(r) PROVE Goal
  BY <1>12 DEF Lookup
<1>13. ASSUME NEW r \in Request, Link(r) PROVE Goal
  BY <1>13 DEF Link
<1>14. ASSUME NEW r \in Request, Fail(r) PROVE Goal
  BY <1>14 DEF Fail
<1>15. ASSUME NEW t \in Text, TimeOut(t) PROVE Goal
  BY <1>15 DEF TimeOut, Expired
<1>16. ASSUME NEW u \in Account, Deactivate(u) PROVE Goal
  BY <1>16 DEF Deactivate
<1> HIDE DEF TypeOK, ProofsAreIssued
<1> QED
  BY <1>1, <1>2, <1>3, <1>4, <1>5, <1>6, <1>7, <1>8, <1>9, <1>10, <1>11, <1>12, <1>13, <1>14,
     <1>15, <1>16, <1>17 DEF Next

\* Why a signature was turned down.
CauseOf(r) == proof[r] \in dead \/ r \in spoilt

LEMMA CausesNext ==
    ASSUME TypeOK, AllOnTheirWay, ChallengesAreOwn, ProofsAreIssued, CauseKnown, Next
    PROVE  CauseKnown'
<1> SUFFICES ASSUME NEW q \in Request, pc'[q] \in {"expire", "refused"}, proof'[q] # None
             PROVE  CauseOf(q)'
  BY DEF CauseKnown, CauseOf
<1> USE TrimmedIsText DEF CauseOf, TypeOK, CauseKnown, Steps, Ended, localVars, history, Goto
<1>1. ASSUME NEW r \in Request, NEW t \in Text, NEW what \in {"challenge", "plainChallenge"},
             Ask(r, what, t)
      PROVE  CauseOf(q)'
  BY <1>1 DEF Ask, Arrive
<1>2. ASSUME NEW r \in Request, NEW t \in Text, NEW n \in Request \cup {None}, Login(r, t, n)
      PROVE  CauseOf(q)'
  BY <1>2 DEF Login, Arrive
<1>3. ASSUME NEW r \in Request, NEW t \in Text, NEW n \in Request \cup {None}, NEW u \in Old,
             Add(r, u, t, n)
      PROVE  CauseOf(q)'
  BY <1>3 DEF Add, Arrive
<1>4. ASSUME NEW r \in Request, FindRecord(r) PROVE CauseOf(q)'
  BY <1>4 DEF FindRecord
<1>5. ASSUME NEW r \in Request, CreateUser(r) PROVE CauseOf(q)'
  BY <1>5 DEF CreateUser
<1>6. ASSUME NEW r \in Request, SaveRecord(r) PROVE CauseOf(q)'
  BY <1>6 DEF SaveRecord
<1>7. ASSUME NEW r \in Request, UndoUser(r) PROVE CauseOf(q)'
  BY <1>7 DEF UndoUser
<1>8. ASSUME NEW r \in Request, Relink(r) PROVE CauseOf(q)'
  BY <1>8 DEF Relink
<1>9. ASSUME NEW r \in Request, Issue(r) PROVE CauseOf(q)'
  BY <1>9 DEF Issue
<1>17. ASSUME NEW r \in Request, VerifyFails(r) PROVE CauseOf(q)'
  BY <1>17 DEF VerifyFails, ChallengesAreOwn, ProofsAreIssued
<1>10. ASSUME NEW r \in Request, Verify(r) PROVE CauseOf(q)'
  BY <1>10 DEF Verify, Active, ChallengesAreOwn, ProofsAreIssued
<1>11. ASSUME NEW r \in Request, ExpireChallenge(r) PROVE CauseOf(q)'
  BY <1>11 DEF ExpireChallenge, Expired
<1>12. ASSUME NEW r \in Request, Lookup(r) PROVE CauseOf(q)'
  BY <1>12 DEF Lookup
<1>13. ASSUME NEW r \in Request, Link(r) PROVE CauseOf(q)'
  BY <1>13 DEF Link
<1>14. ASSUME NEW r \in Request, Fail(r) PROVE CauseOf(q)'
  BY <1>14 DEF Fail
<1>15. ASSUME NEW t \in Text, TimeOut(t) PROVE CauseOf(q)'
  BY <1>15 DEF TimeOut, Expired
<1>16. ASSUME NEW u \in Account, Deactivate(u) PROVE CauseOf(q)'
  BY <1>16 DEF Deactivate
<1> HIDE DEF TypeOK, CauseKnown, CauseOf
<1> QED
  BY <1>1, <1>2, <1>3, <1>4, <1>5, <1>6, <1>7, <1>8, <1>9, <1>10, <1>11, <1>12, <1>13, <1>14,
     <1>15, <1>16, <1>17 DEF Next

LEMMA StaleNext ==
    ASSUME TypeOK, AllOnTheirWay, ChallengesAreOwn, ProofsAreIssued, StaleStays, Next
    PROVE  StaleStays'
<1> USE DEF StaleAt
<1> SUFFICES ASSUME NEW q \in stale' PROVE StaleAt(q)'
  BY DEF StaleStays
<1>0. q \in Request
  BY TypeNext DEF TypeOK
<1> USE TrimmedIsText, <1>0 DEF TypeOK, StaleStays, Steps, Ended, Kinds, localVars, history, Goto
<1>1. ASSUME NEW r \in Request, NEW t \in Text, NEW what \in {"challenge", "plainChallenge"},
             Ask(r, what, t)
      PROVE  StaleAt(q)'
  BY <1>1, NameAssumption DEF Ask, Arrive, Account
<1>2. ASSUME NEW r \in Request, NEW t \in Text, NEW n \in Request \cup {None}, Login(r, t, n)
      PROVE  StaleAt(q)'
  BY <1>2 DEF Login, Arrive
<1>3. ASSUME NEW r \in Request, NEW t \in Text, NEW n \in Request \cup {None}, NEW u \in Old,
             Add(r, u, t, n)
      PROVE  StaleAt(q)'
  BY <1>3, TextAssumption DEF Add, Arrive
<1>4. ASSUME NEW r \in Request, FindRecord(r) PROVE StaleAt(q)'
  BY <1>4 DEF FindRecord
<1>5. ASSUME NEW r \in Request, CreateUser(r) PROVE StaleAt(q)'
  BY <1>5 DEF CreateUser
<1>6. ASSUME NEW r \in Request, SaveRecord(r) PROVE StaleAt(q)'
  BY <1>6 DEF SaveRecord
<1>7. ASSUME NEW r \in Request, UndoUser(r) PROVE StaleAt(q)'
  BY <1>7 DEF UndoUser
<1>8. ASSUME NEW r \in Request, Relink(r) PROVE StaleAt(q)'
  BY <1>8 DEF Relink
<1>9. ASSUME NEW r \in Request, Issue(r) PROVE StaleAt(q)'
  BY <1>9 DEF Issue
<1>17. ASSUME NEW r \in Request, VerifyFails(r) PROVE StaleAt(q)'
  BY <1>17 DEF VerifyFails, ChallengesAreOwn, ProofsAreIssued, AllOnTheirWay, OnItsWay
<1>10. ASSUME NEW r \in Request, Verify(r) PROVE StaleAt(q)'
  BY <1>10 DEF Verify, Active, ChallengesAreOwn, ProofsAreIssued, AllOnTheirWay, OnItsWay
<1>11. ASSUME NEW r \in Request, ExpireChallenge(r) PROVE StaleAt(q)'
  BY <1>11 DEF ExpireChallenge, Expired
<1>12. ASSUME NEW r \in Request, Lookup(r) PROVE StaleAt(q)'
  BY <1>12 DEF Lookup
<1>13. ASSUME NEW r \in Request, Link(r) PROVE StaleAt(q)'
  BY <1>13 DEF Link
<1>14. ASSUME NEW r \in Request, Fail(r) PROVE StaleAt(q)'
  BY <1>14 DEF Fail
<1>15. ASSUME NEW t \in Text, TimeOut(t) PROVE StaleAt(q)'
  BY <1>15 DEF TimeOut, Expired
<1>16. ASSUME NEW u \in Account, Deactivate(u) PROVE StaleAt(q)'
  BY <1>16 DEF Deactivate
<1> HIDE DEF TypeOK, StaleStays, StaleAt
<1> QED
  BY <1>1, <1>2, <1>3, <1>4, <1>5, <1>6, <1>7, <1>8, <1>9, <1>10, <1>11, <1>12, <1>13, <1>14,
     <1>15, <1>16, <1>17 DEF Next

------------------------------------------------------------------------------
(* Accounts. *)

LEMMA AccountsNext ==
    ASSUME TypeOK, AllOnTheirWay, AccountsAreMade, Next
    PROVE  AccountsAreMade'
<1>0. \A t \in Text : Holders(t) \subseteq Holders(t)'
  BY RecordsGrow, RecordsStay
<1> SUFFICES ASSUME NEW q \in Request PROVE MadeAt(q)'
  BY DEF AccountsAreMade
<1> USE DEF TypeOK, AccountsAreMade, MadeAt, NoAccountYet, Making, Steps, Ended, Kinds, accountVars,
    localVars, history, Goto
<1>1. ASSUME NEW r \in Request, NEW t \in Text, NEW what \in {"challenge", "plainChallenge"},
             Ask(r, what, t)
      PROVE  MadeAt(q)'
  BY <1>1, <1>0 DEF Ask, Arrive
<1>2. ASSUME NEW r \in Request, NEW t \in Text, NEW n \in Request \cup {None}, Login(r, t, n)
      PROVE  MadeAt(q)'
  BY <1>2, <1>0 DEF Login, Arrive
<1>3. ASSUME NEW r \in Request, NEW t \in Text, NEW n \in Request \cup {None}, NEW u \in Old,
             Add(r, u, t, n)
      PROVE  MadeAt(q)'
  BY <1>3, <1>0 DEF Add, Arrive
<1>4. ASSUME NEW r \in Request, FindRecord(r) PROVE MadeAt(q)'
  BY <1>4, <1>0 DEF FindRecord
<1>5. ASSUME NEW r \in Request, CreateUser(r) PROVE MadeAt(q)'
  BY <1>5, <1>0 DEF CreateUser, AllOnTheirWay, OnItsWay
<1>6. ASSUME NEW r \in Request, SaveRecord(r) PROVE MadeAt(q)'
  <2>1. CASE q = r
    <3>1. ASSUME kind[r] # "plainChallenge", record[text[r]] = None
          PROVE  r \in Holders(text[r])'
      <4>1. text[r] \in Text /\ user[r] = r
        BY <1>6, <3>1 DEF SaveRecord, AllOnTheirWay, OnItsWay
      <4>2. record'[text[r]] = <<r>> /\ text' = text
        BY <1>6, <3>1, <4>1 DEF SaveRecord
      <4>3. <<r>> \in Seq(Account)
        BY DEF Account
      <4> DEFINE alone == <<r>>
      <4>4. \E i \in DOMAIN alone : alone[i] = r
        OBVIOUS
      <4>5. record'[text[r]] = alone /\ alone \in Seq(Account)
        BY <4>2, <4>3
      <4> HIDE DEF alone
      <4>6. alone # None
        BY <4>5, NameAssumption
      <4> QED
        BY <4>2, <4>4, <4>5, <4>6 DEF Holders
    <3> QED
      BY <1>6, <2>1, <3>1 DEF SaveRecord
  <2>2. CASE q # r
    BY <1>6, <1>0, <2>2 DEF SaveRecord
  <2> QED
    BY <2>1, <2>2
<1>7. ASSUME NEW r \in Request, UndoUser(r) PROVE MadeAt(q)'
  BY <1>7, <1>0 DEF UndoUser
<1>8. ASSUME NEW r \in Request, Relink(r) PROVE MadeAt(q)'
  <2>1. CASE q = r
    <3>1. text[r] \in Text /\ user[r] = r /\ record[text[r]] \in Seq(Account)
      BY <1>8 DEF Relink, AllOnTheirWay, OnItsWay
    <3>2. CASE r \in Holders(text[r])
      BY <1>8, <2>1, <3>1, <3>2, <1>0 DEF Relink
    <3>3. CASE r \notin Holders(text[r])
      <4>1. record'[text[r]] = Append(record[text[r]], r) /\ text' = text
        BY <1>8, <3>1, <3>3 DEF Relink
      <4>2. r \in Account
        BY DEF Account
      <4> DEFINE longer == Append(record[text[r]], r)
      <4>3. longer \in Seq(Account) /\ \E i \in DOMAIN longer : longer[i] = r
        BY <3>1, <4>2, Appending
      <4> HIDE DEF longer
      <4>5. longer # None
        BY <4>3, NameAssumption
      <4> USE DEF longer
      <4>4. r \in Holders(text[r])'
        BY <4>1, <4>3, <4>5 DEF Holders
      <4> QED
        BY <1>8, <2>1, <4>4 DEF Relink
    <3> QED
      BY <3>2, <3>3
  <2>2. CASE q # r
    BY <1>8, <1>0, <2>2 DEF Relink
  <2> QED
    BY <2>1, <2>2
<1>9. ASSUME NEW r \in Request, Issue(r) PROVE MadeAt(q)'
  BY <1>9, <1>0 DEF Issue
<1>17. ASSUME NEW r \in Request, VerifyFails(r) PROVE MadeAt(q)'
  BY <1>17, <1>0 DEF VerifyFails
<1>10. ASSUME NEW r \in Request, Verify(r) PROVE MadeAt(q)'
  BY <1>10, <1>0 DEF Verify, Active
<1>11. ASSUME NEW r \in Request, ExpireChallenge(r) PROVE MadeAt(q)'
  BY <1>11, <1>0 DEF ExpireChallenge, Expired
<1>12. ASSUME NEW r \in Request, Lookup(r) PROVE MadeAt(q)'
  BY <1>12, <1>0 DEF Lookup
<1>13. ASSUME NEW r \in Request, Link(r) PROVE MadeAt(q)'
  BY <1>13, <1>0 DEF Link
<1>14. ASSUME NEW r \in Request, Fail(r) PROVE MadeAt(q)'
  BY <1>14, <1>0, NameAssumption DEF Fail
<1>15. ASSUME NEW t \in Text, TimeOut(t) PROVE MadeAt(q)'
  BY <1>15, <1>0 DEF TimeOut, Expired
<1>16. ASSUME NEW u \in Account, Deactivate(u) PROVE MadeAt(q)'
  BY <1>16, <1>0 DEF Deactivate
<1> HIDE DEF TypeOK, AccountsAreMade, MadeAt
<1> QED
  BY <1>1, <1>2, <1>3, <1>4, <1>5, <1>6, <1>7, <1>8, <1>9, <1>10, <1>11, <1>12, <1>13, <1>14,
     <1>15, <1>16, <1>17 DEF Next

------------------------------------------------------------------------------
(* The invariant and what follows from it. *)

LEMMA InvInit == Init => Inv
<1> SUFFICES ASSUME Init PROVE Inv
  OBVIOUS
<1>1. TypeOK
  BY TypeInit
<1>2. AllOnTheirWay
  BY NameAssumption DEF Init, AllOnTheirWay, OnItsWay, Kinds
<1>3. HeadsLetIn /\ ChallengesAreOwn /\ ProofsAreIssued /\ StaleStays /\ CauseKnown
  BY DEF Init, HeadsLetIn, ChallengesAreOwn, ProofsAreIssued, StaleStays, CauseKnown
<1>4. AccountsAreMade
  BY NameAssumption DEF Init, AccountsAreMade, MadeAt, NoAccountYet, Making, Account
<1> QED
  BY <1>1, <1>2, <1>3, <1>4 DEF Inv

LEMMA InvNext == Inv /\ [Next]_vars => Inv'
<1> SUFFICES ASSUME Inv, [Next]_vars PROVE Inv'
  OBVIOUS
<1>1. CASE Next
  <2>1. AllOnTheirWay'
    BY <1>1, OnItsWayNext DEF Inv, AllOnTheirWay
  <2> QED
    BY <1>1, <2>1, TypeNext, HeadsNext, ChallengesNext, ProofsNext, CausesNext, StaleNext,
       AccountsNext DEF Inv
<1>2. CASE UNCHANGED vars
  BY <1>2 DEF vars, accountVars, challengeVars, localVars, history, Inv, TypeOK, AllOnTheirWay,
     OnItsWay, HeadsLetIn, ChallengesAreOwn, ProofsAreIssued, StaleStays, StaleAt, CauseKnown,
     AccountsAreMade, MadeAt, Holders
<1> QED
  BY <1>1, <1>2

\* The inductive invariant: what a request is about where it stands, the accounts at the heads of
\* the records, whose challenge lives, and what becomes of stale signatures and of accounts.
THEOREM SignInInvariant == Spec => []Inv
BY InvInit, InvNext, PTL DEF Spec

\* Every variable keeps its type, for any requests, accounts and addresses.
THEOREM TypeCorrect == Spec => []TypeOK
<1>1. Inv => TypeOK
  BY DEF Inv
<1> QED
  BY <1>1, SignInInvariant, PTL

\* The logins a record lets in are logins to one account (auth.service.ts:455-458).
THEOREM FoundAccountsAgreeHolds == Spec => []FoundAccountsAgree
<1>1. Inv => FoundAccountsAgree
  BY DEF Inv, HeadsLetIn, FoundAccountsAgree
<1> QED
  BY <1>1, SignInInvariant, PTL

\* A signature over a challenge that no longer stands lets nobody in (login.dto.ts:13).
THEOREM StaleIsRefusedHolds == Spec => []StaleIsRefused
<1>1. Inv => StaleIsRefused
  BY DEF Inv, TypeOK, StaleStays, StaleAt, StaleIsRefused
<1> QED
  BY <1>1, SignInInvariant, PTL

\* A signature is only turned down for a challenge that no longer stands
\* (auth.service.ts:205, 283-309).
THEOREM RefusedForACauseHolds == Spec => []RefusedForACause
<1>1. Inv => RefusedForACause
  BY DEF Inv, CauseKnown, RefusedForACause
<1> QED
  BY <1>1, SignInInvariant, PTL

\* An account made for an address holds it, is gone, or could not be removed
\* (auth.service.ts:104-121).
THEOREM OrphansHaveACauseHolds == Spec => []OrphansHaveACause
<1>1. Inv => OrphansHaveACause
  BY DEF Inv, AccountsAreMade, MadeAt, OrphansHaveACause, Making, Ended
<1> QED
  BY <1>1, SignInInvariant, PTL
==============================================================================
