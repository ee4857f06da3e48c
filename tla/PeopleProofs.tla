----------------------------- MODULE PeopleProofs -----------------------------
(***************************************************************************)
(* Proofs about where people are found: the contacts of a Telegram client  *)
(* (TelegramClient), for any users, requests and failures, and the users a *)
(* search answers (Search), for any users, addresses, pages and changes.   *)
(*                                                                         *)
(* Three facts carry the first.  A client belongs to the user who asked    *)
(* for it, so no request touches what another user's maps hold.  What has  *)
(* been sent or signed stays so (Persists).  And a client that a logout    *)
(* has forgotten has been disconnected, so that no verification can bring  *)
(* it back, unless it has outlived its disconnect (lingering).             *)
(*                                                                         *)
(* Two invariants carry the second.  SearchCausesInv says that what a      *)
(* request has read was there at some moment of it.  SearchPagesInv adds   *)
(* that, while nothing it reads is changed, it finds exactly those who     *)
(* match in an order all requests share, so that pages fit together.       *)
(***************************************************************************)
EXTENDS TelegramClient, Search, WellFoundedInduction, FiniteSetTheorems, TLAPS

(* Contacts. *)

Sent(s, u) == s \in Send /\ pc[s] = "sent" /\ who[s] = u

HasSignedIn(u, s) == \E v \in Verify : pc[v] = "signed" /\ who[v] = u /\ using[v] = s

HasContacts(u, a) ==
    \E v \in Verify : pc[v] = "signed" /\ who[v] = u /\ account[using[v]] = a

\* Whose client a map or a request holds.
Owned ==
    /\ \A s \in Send : pc[s] = "sending" => s \in connected
    /\ \A s \in Send \cap lingering : pc[s] = "sent"
    /\ \A u \in User : authSessions[u] # None => Sent(authSessions[u], u)
    /\ \A u \in User : sessions[u] # None => HasSignedIn(u, sessions[u])
    /\ \A v \in Verify : pc[v] \in {"signing", "signed"} => Sent(using[v], who[v])
    /\ \A l \in Logout : pc[l] = "leaving" => Sent(using[l], who[l])

Contacts ==
    /\ \A f \in Fetch : pc[f] = "fetching" => HasSignedIn(who[f], using[f])
    /\ \A f \in Fetch : pc[f] = "caching" => HasContacts(who[f], got[f])
    /\ ContactsAreOwn

\* What a logout has forgotten is nowhere a client could return from that was disconnected.
Forgotten ==
    \A l \in Logout :
        /\ \A s \in gone[l] : Sent(s, who[l])
        /\ pc[l] \notin {"dropping", "done"} => gone[l] = {}
        /\ \A v \in Verify : pc[v] = "signing" => using[v] \notin gone[l] \cap Open
        /\ \A u \in User : /\ sessions[u] \notin gone[l] \ lingering
                           /\ authSessions[u] \in gone[l] =>
                                 pc[l] = "dropping" /\ authSessions[u] \notin Open

IInv ==
    TypeOK /\ Owned /\ Contacts /\ PendingClientsLive /\ SavedSessionsAccepted /\ Forgotten

------------------------------------------------------------------------------
LEMMA Kinds ==
    /\ Send \subseteq Request /\ Verify \subseteq Request
    /\ Logout \subseteq Request /\ Fetch \subseteq Request
    /\ None \notin Send /\ None \notin User /\ None \notin Account
    /\ \A s \in Send : s \notin Verify /\ s \notin Logout /\ s \notin Fetch
    /\ \A v \in Verify : v \notin Logout /\ v \notin Fetch
    /\ \A l \in Logout : l \notin Fetch
    /\ MaxFailures \in Nat
  BY RequestAssumption DEF Request

LEMMA InitIInv == Init => IInv
<1> SUFFICES ASSUME Init PROVE IInv
  OBVIOUS
<1>1. TypeOK
  BY Kinds DEF Init, TypeOK, Steps, Client
<1>2. /\ Owned /\ Contacts /\ PendingClientsLive /\ SavedSessionsAccepted /\ Forgotten
  BY Kinds DEF Init, Owned, Contacts, ContactsAreOwn, PendingClientsLive,
               SavedSessionsAccepted, Forgotten, Open
<1>3. QED
  BY <1>1, <1>2 DEF IInv

------------------------------------------------------------------------------
\* Steps leave alone whatever has been sent or signed.
Kept ==
    /\ \A r \in Request : pc[r] \in {"sent", "signed"} =>
          pc'[r] = pc[r] /\ who'[r] = who[r] /\ using'[r] = using[r]
    /\ \A s \in Send : pc[s] = "sent" => account'[s] = account[s]

LEMMA StepKeeps == ASSUME TypeOK, Next PROVE Kept
<1> USE Kinds DEF Kept, TypeOK, request
<1>1. ASSUME NEW s \in Send, NEW u \in User, NEW a \in Account, SendCode(s, u, a)
      PROVE  Kept
  BY <1>1 DEF SendCode, Arrive, Goto
<1>2. ASSUME NEW s \in Send, CodeSent(s) \/ CodeNotSent(s) \/ Expire(s)
      PROVE  Kept
  BY <1>2 DEF CodeSent, CodeNotSent, Expire, Goto
<1>3. ASSUME NEW v \in Verify, NEW u \in User, NEW h \in Send, VerifyCode(v, u, h)
      PROVE  Kept
  BY <1>3 DEF VerifyCode, Arrive, Goto, Disconnect
<1>4. ASSUME NEW v \in Verify, SignedIn(v) \/ SignInFails(v)
      PROVE  Kept
  BY <1>4 DEF SignedIn, SignInFails, Goto, Disconnect
<1>5. ASSUME NEW l \in Logout, NEW u \in User, BeginLogout(l, u)
      PROVE  Kept
  BY <1>5 DEF BeginLogout, Forget, Goto, Disconnect
<1>6. ASSUME NEW l \in Logout, LogOut(l) \/ FinishLogout(l) \/ Drop(l)
      PROVE  Kept
  BY <1>6 DEF LogOut, FinishLogout, Forget, Drop, Goto, Disconnect
<1>7. ASSUME NEW f \in Fetch, NEW u \in User, GetContacts(f, u) \/ SyncContacts(f, u)
      PROVE  Kept
  BY <1>7 DEF GetContacts, SyncContacts, BeginFetch, Arrive, Goto
<1>8. ASSUME NEW f \in Fetch, ReceiveContacts(f) \/ CacheContacts(f)
      PROVE  Kept
  BY <1>8 DEF ReceiveContacts, CacheContacts, Goto, Disconnect
<1>9. ASSUME NEW u \in User, CacheTimesOut(u)
      PROVE  Kept
  BY <1>9 DEF CacheTimesOut
<1>10. CASE AllAnswered
  BY <1>10 DEF AllAnswered, vars
<1>11. ASSUME NEW c, DisconnectLate(c) \/ Revoke(c)
      PROVE  Kept
  BY <1>11 DEF DisconnectLate, Revoke
<1>12. QED
  BY <1>1, <1>2, <1>3, <1>4, <1>5, <1>6, <1>7, <1>8, <1>9, <1>10,
     <1>11 DEF Next

Persists ==
    /\ \A s, u : Sent(s, u) => Sent(s, u)'
    /\ \A u, s : HasSignedIn(u, s) => HasSignedIn(u, s)'
    /\ \A u, a : HasContacts(u, a) => HasContacts(u, a)'

LEMMA SavedAreSent ==
    ASSUME Owned
    PROVE  \A u \in User : sessions[u] # None => Sent(sessions[u], u)
  BY DEF Owned, HasSignedIn, Sent

LEMMA StepPersists == ASSUME TypeOK, Owned, Next PROVE Persists
<1>1. Kept
  BY StepKeeps
<1>2. \A s, u : Sent(s, u) => Sent(s, u)'
  BY <1>1, Kinds DEF Kept, Sent
<1>3. \A u, s : HasSignedIn(u, s) => HasSignedIn(u, s)'
  BY <1>1, Kinds DEF Kept, HasSignedIn
<1>4. \A u, a : HasContacts(u, a) => HasContacts(u, a)'
  <2> SUFFICES ASSUME NEW u, NEW a,
                      NEW v \in Verify, pc[v] = "signed", who[v] = u, account[using[v]] = a
               PROVE  pc'[v] = "signed" /\ who'[v] = u /\ account'[using'[v]] = a
    BY DEF HasContacts
  <2>1. pc'[v] = "signed" /\ who'[v] = u /\ using'[v] = using[v]
    BY <1>1, Kinds DEF Kept
  <2>2. using[v] \in Send /\ pc[using[v]] = "sent"
    BY DEF Owned, Sent
  <2>3. QED
    BY <1>1, <2>1, <2>2 DEF Kept
<1>5. QED
  BY <1>2, <1>3, <1>4 DEF Persists

------------------------------------------------------------------------------

LEMMA SendCodeStep ==
    ASSUME IInv, Persists, NEW s \in Send, NEW u \in User, NEW a \in Account, SendCode(s, u, a)
    PROVE  IInv'
<1> USE Kinds DEF IInv, maps, telegram, request, history
<1>1. TypeOK'
  BY DEF TypeOK, Steps, Client, SendCode, Arrive, Goto, Fails
<1>2. Owned'
  BY DEF Owned, Persists, Sent, TypeOK, SendCode, Arrive, Goto, Fails
<1>3. Contacts'
  <2>1. /\ \A g \in Fetch : pc'[g] = pc[g] /\ who'[g] = who[g]
        /\ UNCHANGED <<using, got, contactsCache>>
    BY DEF TypeOK, SendCode, Arrive, Goto
  <2>2. (\A g \in Fetch : pc[g] = "fetching" => HasSignedIn(who[g], using[g]))'
    BY <2>1 DEF Contacts, HasSignedIn, Persists
  <2>3. \A w \in User : contactsCache[w] # None => HasContacts(w, contactsCache[w])'
    BY <2>1 DEF Contacts, ContactsAreOwn, HasContacts, Persists
  <2>4. ContactsAreOwn'
    BY <2>1, <2>3 DEF ContactsAreOwn, HasContacts
  <2>5. (\A g \in Fetch : pc[g] = "caching" => HasContacts(who[g], got[g]))'
    <3>1. SUFFICES ASSUME NEW g \in Fetch, pc[g] = "caching"
                   PROVE  HasContacts(who[g], got[g])'
      BY <2>1
    <3>2. HasContacts(who[g], got[g])
      BY <3>1 DEF Contacts
    <3>3. QED
      BY <2>1, <3>2 DEF Persists, HasContacts
  <2>6. QED
    BY <2>2, <2>4, <2>5 DEF Contacts
<1>4. PendingClientsLive'
  BY DEF PendingClientsLive, Owned, Sent, TypeOK, Client, SendCode, Arrive, Goto, Fails, Open
<1>5. SavedSessionsAccepted'
  BY DEF SavedSessionsAccepted, Owned, Sent, HasSignedIn, TypeOK, SendCode, Arrive, Goto, Fails
<1>6. Forgotten'
  BY DEF Forgotten, Owned, Persists, Sent, HasSignedIn, TypeOK, SendCode, Arrive, Goto, Fails, Open
<1>7. QED
  BY <1>1, <1>2, <1>3, <1>4, <1>5, <1>6

LEMMA CodeSentStep ==
    ASSUME IInv, Persists, NEW s \in Send, CodeSent(s)
    PROVE  IInv'
<1> USE Kinds DEF IInv, maps, telegram, request, history
<1>1. TypeOK'
  BY DEF TypeOK, Steps, Client, CodeSent, Goto
<1>2. Owned'
  BY DEF Owned, Persists, Sent, TypeOK, CodeSent, Goto
<1>3. Contacts'
  BY DEF Contacts, ContactsAreOwn, Persists, TypeOK, CodeSent, Goto
<1>4. PendingClientsLive'
  BY DEF PendingClientsLive, Owned, Sent, TypeOK, Client, CodeSent, Goto, Open
<1>5. SavedSessionsAccepted'
  BY DEF SavedSessionsAccepted, Owned, Sent, HasSignedIn, TypeOK, CodeSent, Goto
<1>6. Forgotten'
  BY DEF Forgotten, Owned, Persists, Sent, HasSignedIn, TypeOK, CodeSent, Goto, Open
<1>7. QED
  BY <1>1, <1>2, <1>3, <1>4, <1>5, <1>6

LEMMA NoCodeSentStep ==
    ASSUME IInv, Persists, NEW s \in Send, CodeNotSent(s) \/ Expire(s)
    PROVE  IInv'
<1> USE Kinds DEF IInv, maps, telegram, request, history
<1>1. TypeOK'
  BY DEF TypeOK, Steps, Client, CodeNotSent, Expire, Goto, Fails
<1>2. Owned'
  BY DEF Owned, Persists, Sent, TypeOK, CodeNotSent, Expire, Goto, Fails
<1>3. Contacts'
  BY DEF Contacts, ContactsAreOwn, Persists, TypeOK, CodeNotSent, Expire, Goto, Fails
<1>4. PendingClientsLive'
  BY DEF PendingClientsLive, Owned, Sent, TypeOK, Client, CodeNotSent, Expire, Goto, Fails, Open
<1>5. SavedSessionsAccepted'
  BY DEF SavedSessionsAccepted, Owned, Sent, HasSignedIn, TypeOK, CodeNotSent, Expire, Goto, Fails
<1>6. Forgotten'
  BY DEF Forgotten, Owned, Persists, Sent, HasSignedIn, TypeOK, CodeNotSent, Expire, Goto, Fails,
         Open
<1>7. QED
  BY <1>1, <1>2, <1>3, <1>4, <1>5, <1>6

LEMMA VerifyCodeStep ==
    ASSUME IInv, Persists, NEW v \in Verify, NEW u \in User, NEW h \in Send, VerifyCode(v, u, h)
    PROVE  IInv'
<1> USE Kinds DEF IInv, maps, telegram, request, history
<1>1. TypeOK'
  BY DEF TypeOK, Steps, Client, VerifyCode, Arrive, Goto, Disconnect
<1>2. Owned'
  BY DEF Owned, Persists, Sent, TypeOK, VerifyCode, Arrive, Goto, Disconnect
<1>3. Contacts'
  BY DEF Contacts, ContactsAreOwn, Persists, TypeOK, VerifyCode, Arrive, Goto, Disconnect
<1>4. PendingClientsLive'
  BY DEF PendingClientsLive, Owned, Sent, TypeOK, Client, VerifyCode, Arrive, Goto, Disconnect, Open
<1>5. SavedSessionsAccepted'
  BY DEF SavedSessionsAccepted, Owned, Sent, HasSignedIn, TypeOK, VerifyCode, Arrive, Goto,
         Disconnect
<1>6. Forgotten'
  BY DEF Forgotten, Owned, Persists, Sent, HasSignedIn, TypeOK, VerifyCode, Arrive, Goto,
         Disconnect, Open
<1>7. QED
  BY <1>1, <1>2, <1>3, <1>4, <1>5, <1>6

LEMMA SignedInStep ==
    ASSUME IInv, Persists, NEW v \in Verify, SignedIn(v)
    PROVE  IInv'
<1> USE Kinds DEF IInv, maps, telegram, request, history
<1>1. TypeOK'
  <2>1. using[v] \in Send
    BY DEF Owned, Sent, SignedIn, Goto
  <2>2. QED
    BY <2>1 DEF TypeOK, Steps, SignedIn, Goto
<1>2. Owned'
  <2>1. pc'[v] = "signed" /\ who'[v] = who[v] /\ using'[v] = using[v]
    BY DEF TypeOK, SignedIn, Goto
  <2>2. HasSignedIn(who[v], using[v])'
    BY <2>1 DEF HasSignedIn
  <2>3. (\A u \in User : sessions[u] # None => HasSignedIn(u, sessions[u]))'
    BY <2>2 DEF Owned, Persists, TypeOK, SignedIn
  <2>4. QED
    BY <2>3 DEF Owned, Persists, Sent, TypeOK, SignedIn, Goto
<1>3. Contacts'
  BY DEF Contacts, ContactsAreOwn, Persists, TypeOK, SignedIn, Goto
<1>4. PendingClientsLive'
  BY DEF PendingClientsLive, Owned, Sent, TypeOK, Client, SignedIn, Goto, Open
<1>5. SavedSessionsAccepted'
  BY DEF SavedSessionsAccepted, Owned, Sent, HasSignedIn, TypeOK, SignedIn, Goto
<1>6. Forgotten'
  BY DEF Forgotten, Owned, Persists, Sent, HasSignedIn, TypeOK, SignedIn, Goto, Open
<1>7. QED
  BY <1>1, <1>2, <1>3, <1>4, <1>5, <1>6

LEMMA SignInFailsStep ==
    ASSUME IInv, Persists, NEW v \in Verify, SignInFails(v)
    PROVE  IInv'
<1> USE Kinds DEF IInv, maps, telegram, request, history
<1>1. TypeOK'
  <2>1. using[v] \in Send
    BY DEF Owned, Sent, SignInFails, Goto, Disconnect
  <2>2. QED
    BY <2>1 DEF TypeOK, Steps, SignInFails, Goto, Disconnect
<1>2. Owned'
  BY DEF Owned, Persists, Sent, TypeOK, SignInFails, Goto, Disconnect
<1>3. Contacts'
  BY DEF Contacts, ContactsAreOwn, Persists, TypeOK, SignInFails, Goto, Disconnect
<1>4. PendingClientsLive'
  BY DEF PendingClientsLive, Owned, Sent, TypeOK, Client, SignInFails, Goto, Disconnect, Open
<1>5. SavedSessionsAccepted'
  BY DEF SavedSessionsAccepted, Owned, Sent, HasSignedIn, TypeOK, SignInFails, Goto, Disconnect
<1>6. Forgotten'
  BY DEF Forgotten, Owned, Persists, Sent, HasSignedIn, TypeOK, SignInFails, Goto, Disconnect, Open
<1>7. QED
  BY <1>1, <1>2, <1>3, <1>4, <1>5, <1>6

LEMMA BeginLogoutStep ==
    ASSUME IInv, Persists, NEW l \in Logout, NEW u \in User, BeginLogout(l, u)
    PROVE  IInv'
<1> USE Kinds DEF IInv, maps, telegram, request, history
<1>1. TypeOK'
  BY DEF TypeOK, Steps, Client, BeginLogout, Forget, Forgettable, Goto, Fails, Disconnect
<1>2. Owned'
  <2>1. (pc[l] = "leaving" => Sent(using[l], who[l]))'
    <3>1. ASSUME pc'[l] = "leaving"
          PROVE  Sent(sessions[u], u)
      BY <3>1, SavedAreSent DEF TypeOK, BeginLogout, Forget, Goto, Disconnect
    <3>2. using'[l] = sessions[u] /\ who'[l] = u
      BY DEF TypeOK, BeginLogout, Disconnect
    <3>3. QED
      BY <3>1, <3>2 DEF Persists, Sent
  <2>2. QED
    BY <2>1 DEF Owned, Persists, Sent, TypeOK, BeginLogout, Forget, Goto, Fails, Disconnect
<1>3. Contacts'
  BY DEF Contacts, ContactsAreOwn, Persists, TypeOK, BeginLogout, Forget, Forgettable, Goto,
         Fails, Disconnect
<1>4. PendingClientsLive'
  BY DEF PendingClientsLive, Owned, Sent, TypeOK, Client, BeginLogout, Forget, Forgettable,
         Goto, Fails, Disconnect, Open
<1>5. SavedSessionsAccepted'
  BY DEF SavedSessionsAccepted, Owned, Sent, HasSignedIn, TypeOK, BeginLogout, Forget,
         Forgettable, Goto, Fails, Disconnect
<1>6. Forgotten'
  BY DEF Forgotten, Owned, Persists, Sent, HasSignedIn, TypeOK, BeginLogout, Forget,
         Forgettable, Goto, Fails, Disconnect, Open
<1>7. QED
  BY <1>1, <1>2, <1>3, <1>4, <1>5, <1>6

LEMMA LogOutStep ==
    ASSUME IInv, Persists, NEW l \in Logout, LogOut(l)
    PROVE  IInv'
<1> USE Kinds DEF IInv, maps, telegram, request, history
<1>1. TypeOK'
  BY DEF TypeOK, Steps, Client, LogOut, Goto, Fails, Disconnect
<1>2. Owned'
  BY DEF Owned, Persists, Sent, TypeOK, LogOut, Goto, Fails, Disconnect
<1>3. Contacts'
  BY DEF Contacts, ContactsAreOwn, Persists, TypeOK, LogOut, Goto, Fails, Disconnect
<1>4. PendingClientsLive'
  BY DEF PendingClientsLive, Owned, Sent, TypeOK, Client, LogOut, Goto, Fails, Disconnect, Open
<1>5. SavedSessionsAccepted'
  BY DEF SavedSessionsAccepted, Owned, Sent, HasSignedIn, TypeOK, LogOut, Goto, Fails, Disconnect
<1>6. Forgotten'
  BY DEF Forgotten, Owned, Persists, Sent, HasSignedIn, TypeOK, LogOut, Goto, Fails, Disconnect,
         Open
<1>7. QED
  BY <1>1, <1>2, <1>3, <1>4, <1>5, <1>6

LEMMA FinishLogoutStep ==
    ASSUME IInv, Persists, NEW l \in Logout, FinishLogout(l)
    PROVE  IInv'
<1> USE Kinds DEF IInv, maps, telegram, request, history
<1>1. TypeOK'
  BY DEF TypeOK, Steps, Client, FinishLogout, Forget, Forgettable, Goto, Disconnect
<1>2. Owned'
  BY DEF Owned, Persists, Sent, TypeOK, FinishLogout, Forget, Forgettable, Goto, Disconnect
<1>3. Contacts'
  BY DEF Contacts, ContactsAreOwn, Persists, TypeOK, FinishLogout, Forget, Forgettable, Goto,
         Disconnect
<1>4. PendingClientsLive'
  BY DEF PendingClientsLive, Owned, Sent, TypeOK, Client, FinishLogout, Forget, Forgettable, Goto,
         Disconnect, Open
<1>5. SavedSessionsAccepted'
  BY DEF SavedSessionsAccepted, Owned, Sent, HasSignedIn, TypeOK, FinishLogout, Forget,
         Forgettable, Goto, Disconnect
<1>6. Forgotten'
  BY DEF Forgotten, Owned, Persists, Sent, HasSignedIn, TypeOK, FinishLogout, Forget,
         Forgettable, Goto, Disconnect, Open
<1>7. QED
  BY <1>1, <1>2, <1>3, <1>4, <1>5, <1>6

LEMMA DropStep ==
    ASSUME IInv, Persists, NEW l \in Logout, Drop(l)
    PROVE  IInv'
<1> USE Kinds DEF IInv, maps, telegram, request, history
<1>1. TypeOK'
  BY DEF TypeOK, Steps, Client, Drop, Goto
<1>2. Owned'
  BY DEF Owned, Persists, Sent, TypeOK, Drop, Goto
<1>3. Contacts'
  BY DEF Contacts, ContactsAreOwn, Persists, TypeOK, Drop, Goto
<1>4. PendingClientsLive'
  BY DEF PendingClientsLive, Owned, Sent, TypeOK, Client, Drop, Goto, Open
<1>5. SavedSessionsAccepted'
  BY DEF SavedSessionsAccepted, Owned, Sent, HasSignedIn, TypeOK, Drop, Goto
<1>6. Forgotten'
  BY DEF Forgotten, Owned, Persists, Sent, HasSignedIn, TypeOK, Drop, Goto, Open
<1>7. QED
  BY <1>1, <1>2, <1>3, <1>4, <1>5, <1>6

LEMMA BeginContactsStep ==
    ASSUME IInv, Persists, NEW f \in Fetch, NEW u \in User, GetContacts(f, u) \/ SyncContacts(f, u)
    PROVE  IInv'
<1> USE Kinds DEF IInv, maps, telegram, request, history
<1>1. TypeOK'
  BY DEF TypeOK, Steps, Client, GetContacts, SyncContacts, BeginFetch, Arrive, Goto, Fails
<1>2. Owned'
  BY DEF Owned, Persists, Sent, TypeOK, GetContacts, SyncContacts, BeginFetch, Arrive, Goto, Fails
<1>3. Contacts'
  <2>1. (\A g \in Fetch : pc[g] = "fetching" => HasSignedIn(who[g], using[g]))'
    BY DEF Contacts, Owned, HasSignedIn, Persists, TypeOK, GetContacts, SyncContacts,
           BeginFetch, Arrive, Goto
  <2>2. (\A g \in Fetch : pc[g] = "caching" => HasContacts(who[g], got[g]))'
    BY DEF Contacts, HasSignedIn, HasContacts, Persists, TypeOK, GetContacts, SyncContacts,
           BeginFetch, Arrive, Goto
  <2>3. ContactsAreOwn'
    <3>1. (\A w \in User : contactsCache[w] # None => HasContacts(w, contactsCache[w]))'
      BY DEF Contacts, ContactsAreOwn, HasContacts, Persists, TypeOK, GetContacts, SyncContacts,
             BeginFetch, Arrive, Goto
    <3>2. QED
      BY <3>1 DEF ContactsAreOwn, HasContacts
  <2>4. QED
    BY <2>1, <2>2, <2>3 DEF Contacts
<1>4. PendingClientsLive'
  BY DEF PendingClientsLive, Owned, Sent, TypeOK, Client, GetContacts, SyncContacts, BeginFetch,
         Arrive, Goto, Fails, Open
<1>5. SavedSessionsAccepted'
  BY DEF SavedSessionsAccepted, Owned, Sent, HasSignedIn, TypeOK, GetContacts, SyncContacts,
         BeginFetch, Arrive, Goto, Fails
<1>6. Forgotten'
  BY DEF Forgotten, Owned, Persists, Sent, HasSignedIn, TypeOK, GetContacts, SyncContacts,
         BeginFetch, Arrive, Goto, Fails, Open
<1>7. QED
  BY <1>1, <1>2, <1>3, <1>4, <1>5, <1>6

LEMMA ContactsStep ==
    ASSUME IInv, Persists, NEW f \in Fetch, ReceiveContacts(f) \/ CacheContacts(f)
    PROVE  IInv'
<1> USE Kinds DEF IInv, maps, telegram, request, history
<1>1. TypeOK'
  BY DEF TypeOK, Steps, Client, ReceiveContacts, CacheContacts, Goto, Fails, Disconnect
<1>2. Owned'
  BY DEF Owned, Persists, Sent, TypeOK, ReceiveContacts, CacheContacts, Goto, Fails, Disconnect
<1>3. Contacts'
  <2>1. (\A g \in Fetch : pc[g] = "fetching" => HasSignedIn(who[g], using[g]))'
    BY DEF Contacts, HasSignedIn, HasContacts, Persists, TypeOK, ReceiveContacts, CacheContacts,
           Goto, Disconnect
  <2>2. (\A g \in Fetch : pc[g] = "caching" => HasContacts(who[g], got[g]))'
    BY DEF Contacts, HasSignedIn, HasContacts, Persists, TypeOK, ReceiveContacts, CacheContacts,
           Goto, Disconnect
  <2>3. ContactsAreOwn'
    <3>1. (\A w \in User : contactsCache[w] # None => HasContacts(w, contactsCache[w]))'
      BY DEF Contacts, ContactsAreOwn, HasContacts, Persists, TypeOK, ReceiveContacts,
             CacheContacts, Goto, Disconnect
    <3>2. QED
      BY <3>1 DEF ContactsAreOwn, HasContacts
  <2>4. QED
    BY <2>1, <2>2, <2>3 DEF Contacts
<1>4. PendingClientsLive'
  BY DEF PendingClientsLive, Owned, Sent, TypeOK, Client, ReceiveContacts, CacheContacts, Goto,
         Fails, Disconnect, Open
<1>5. SavedSessionsAccepted'
  BY DEF SavedSessionsAccepted, Owned, Sent, HasSignedIn, TypeOK, ReceiveContacts,
         CacheContacts, Goto, Fails, Disconnect
<1>6. Forgotten'
  BY DEF Forgotten, Owned, Persists, Sent, HasSignedIn, TypeOK, ReceiveContacts, CacheContacts,
         Goto, Fails, Disconnect, Open
<1>7. QED
  BY <1>1, <1>2, <1>3, <1>4, <1>5, <1>6

LEMMA CacheTimesOutStep ==
    ASSUME IInv, Persists, NEW u \in User, CacheTimesOut(u)
    PROVE  IInv'
<1> USE Kinds DEF IInv, maps, telegram, request, history
<1>1. TypeOK'
  BY DEF TypeOK, Steps, Client, CacheTimesOut
<1>2. Owned'
  BY DEF Owned, Persists, Sent, TypeOK, CacheTimesOut
<1>3. Contacts'
  BY DEF Contacts, ContactsAreOwn, Persists, TypeOK, CacheTimesOut
<1>4. PendingClientsLive'
  BY DEF PendingClientsLive, Owned, Sent, TypeOK, Client, CacheTimesOut, Open
<1>5. SavedSessionsAccepted'
  BY DEF SavedSessionsAccepted, Owned, Sent, HasSignedIn, TypeOK, CacheTimesOut
<1>6. Forgotten'
  BY DEF Forgotten, Owned, Persists, Sent, HasSignedIn, TypeOK, CacheTimesOut, Open
<1>7. QED
  BY <1>1, <1>2, <1>3, <1>4, <1>5, <1>6

LEMMA DisconnectLateStep ==
    ASSUME IInv, Persists, NEW c \in Client, DisconnectLate(c)
    PROVE  IInv'
<1> USE Kinds DEF IInv, maps, telegram, request, history
<1>1. TypeOK'
  BY DEF TypeOK, DisconnectLate
<1>2. Owned'
  BY DEF Owned, Persists, Sent, TypeOK, DisconnectLate
<1>3. Contacts'
  BY DEF Contacts, ContactsAreOwn, Persists, TypeOK, DisconnectLate
<1>4. PendingClientsLive'
  BY DEF PendingClientsLive, TypeOK, DisconnectLate, Open
<1>5. SavedSessionsAccepted'
  BY DEF SavedSessionsAccepted, TypeOK, DisconnectLate
<1>6. Forgotten'
  BY DEF Forgotten, Persists, Sent, TypeOK, DisconnectLate, Open
<1>7. QED
  BY <1>1, <1>2, <1>3, <1>4, <1>5, <1>6

LEMMA RevokeStep ==
    ASSUME IInv, Persists, NEW s \in Send, Revoke(s)
    PROVE  IInv'
<1> USE Kinds DEF IInv, maps, telegram, request, history
<1>1. TypeOK'
  BY DEF TypeOK, Revoke
<1>2. Owned'
  BY DEF Owned, Persists, Sent, TypeOK, Revoke
<1>3. Contacts'
  BY DEF Contacts, ContactsAreOwn, Persists, TypeOK, Revoke
<1>4. PendingClientsLive'
  BY DEF PendingClientsLive, TypeOK, Revoke, Open
<1>5. SavedSessionsAccepted'
  BY DEF SavedSessionsAccepted, TypeOK, Revoke
<1>6. Forgotten'
  BY DEF Forgotten, Persists, Sent, TypeOK, Revoke, Open
<1>7. QED
  BY <1>1, <1>2, <1>3, <1>4, <1>5, <1>6

LEMMA StepIInv == IInv /\ [Next]_vars => IInv'
<1> SUFFICES ASSUME IInv, [Next]_vars PROVE IInv'
  OBVIOUS
<1>1. CASE UNCHANGED vars
  BY <1>1 DEF IInv, TypeOK, Owned, Sent, HasSignedIn, Contacts, HasContacts, ContactsAreOwn,
              PendingClientsLive, SavedSessionsAccepted, Forgotten,
              vars, maps, telegram, request, history, Open
<1>2. CASE Next
  <2>1. Persists
    BY <1>2, StepPersists DEF IInv
  <2>2. CASE AllAnswered
    BY <1>1, <2>2 DEF AllAnswered
  <2>3. CASE \E s \in Send, u \in User, a \in Account : SendCode(s, u, a)
    BY <2>1, <2>3, SendCodeStep
  <2>4. CASE \E s \in Send : CodeSent(s) \/ CodeNotSent(s) \/ Expire(s)
    BY <2>1, <2>4, CodeSentStep, NoCodeSentStep
  <2>5. CASE \E v \in Verify, u \in User, h \in Send : VerifyCode(v, u, h)
    BY <2>1, <2>5, VerifyCodeStep
  <2>6. CASE \E v \in Verify : SignedIn(v) \/ SignInFails(v)
    BY <2>1, <2>6, SignedInStep, SignInFailsStep
  <2>7. CASE \E l \in Logout, u \in User : BeginLogout(l, u)
    BY <2>1, <2>7, BeginLogoutStep
  <2>8. CASE \E l \in Logout : LogOut(l) \/ FinishLogout(l) \/ Drop(l)
    BY <2>1, <2>8, LogOutStep, FinishLogoutStep, DropStep
  <2>9. CASE \E f \in Fetch, u \in User : GetContacts(f, u) \/ SyncContacts(f, u)
    BY <2>1, <2>9, BeginContactsStep
  <2>10. CASE \E f \in Fetch : ReceiveContacts(f) \/ CacheContacts(f)
    BY <2>1, <2>10, ContactsStep
  <2>11. CASE \E u \in User : CacheTimesOut(u)
    BY <2>1, <2>11, CacheTimesOutStep
  <2>12. CASE \E c \in Client : DisconnectLate(c)
    BY <2>1, <2>12, DisconnectLateStep
  <2>13. CASE \E s \in Send : Revoke(s)
    BY <2>1, <2>13, RevokeStep
  <2>14. QED
    BY <1>2, <2>2, <2>3, <2>4, <2>5, <2>6, <2>7, <2>8, <2>9, <2>10, <2>11, <2>12, <2>13
    DEF Next
<1>3. QED
  BY <1>1, <1>2

------------------------------------------------------------------------------
\* The maps, the requests in flight and what logouts have forgotten are related as IInv says,
\* in every state (telegram-client/).
THEOREM ClientInvariant == Spec => []IInv
<1>1. QED
  BY InitIInv, StepIInv, PTL DEF Spec

\* Every variable keeps its type (telegram-client/).
THEOREM TypeCorrect == Spec => []TypeOK
<1>1. IInv => TypeOK
  BY DEF IInv
<1>2. QED
  BY <1>1, ClientInvariant, PTL

\* A pending sign-in has a connected client, whoever else signs in, verifies or logs out
\* meanwhile (services/auth.service.ts:104-108, 153-155, 221-225).
THEOREM PendingClientsLiveHolds == Spec => []PendingClientsLive
<1>1. IInv => PendingClientsLive
  BY DEF IInv
<1>2. QED
  BY <1>1, ClientInvariant, PTL

\* A saved session is accepted by Telegram, except while its logout closes
\* (services/auth.service.ts:129-133, 204-218).
THEOREM SavedSessionsAcceptedHolds == Spec => []SavedSessionsAccepted
<1>1. IInv => SavedSessionsAccepted
  BY DEF IInv
<1>2. QED
  BY <1>1, ClientInvariant, PTL

\* Nothing a logout has forgotten comes back (services/auth.service.ts:217-225).
THEOREM LogoutIsFinalHolds == Spec => []LogoutIsFinal
<1>1. IInv => LogoutIsFinal
  <2> SUFFICES ASSUME IInv, NEW l \in Logout, pc[l] = "done"
               PROVE  /\ authSessions[who[l]] \notin gone[l]
                      /\ sessions[who[l]] \notin gone[l] \ lingering
    BY DEF LogoutIsFinal
  <2>1. who[l] \in User
    BY Kinds DEF IInv, TypeOK
  <2>2. QED
    BY <2>1 DEF IInv, Forgotten, Open
<1>2. QED
  BY <1>1, ClientInvariant, PTL

\* Cached contacts are those of an account the user has signed in to
\* (services/contacts.service.ts:217-229, 391-399).
THEOREM ContactsAreOwnHolds == Spec => []ContactsAreOwn
<1>1. IInv => ContactsAreOwn
  BY DEF IInv, Contacts
<1>2. QED
  BY <1>1, ClientInvariant, PTL
------------------------------------------------------------------------------
(* Clients left connected. *)

\* Of u's codes, h is pending, has signed in or was to be disconnected.
Accounted(u, h) ==
    Sent(h, u) /\ (authSessions[u] = h \/ HasSignedIn(u, h) \/ h \notin Open)

\* Of all codes sent to a user one is accounted for; a logout about to remove an entry has
\* disconnected one.
LeftInv ==
    /\ \A c \in Open \ Send : pc[c] \in {"leaving", "fetching"}
    /\ \A u \in User : (\E s \in Send : Sent(s, u)) => \E h \in Send : Accounted(u, h)
    /\ \A l \in Logout : pc[l] = "dropping" => \E h \in Send : Sent(h, who[l]) /\ h \notin Open

LEMMA InitLeft == Init => LeftInv
  BY Kinds DEF Init, LeftInv, Sent, Open

\* A client only connects when its request begins.
LEMMA NoReconnection ==
    ASSUME TypeOK, Next
    PROVE  \A c \in Client : c \in Open' => c \in Open \/ pc[c] = "idle"
<1> USE Kinds DEF TypeOK, telegram, request, history, Open, Disconnect
<1>1. ASSUME NEW s \in Send, NEW u \in User, NEW a \in Account, SendCode(s, u, a)
      PROVE  Open' \subseteq Open \cup {s} /\ pc[s] = "idle"
  BY <1>1 DEF SendCode, Arrive, Goto
<1>2. ASSUME NEW s \in Send, CodeSent(s) \/ CodeNotSent(s) \/ Expire(s)
      PROVE  Open' = Open
  BY <1>2 DEF CodeSent, CodeNotSent, Expire
<1>3. ASSUME NEW v \in Verify, NEW u \in User, NEW h \in Send, VerifyCode(v, u, h)
      PROVE  Open' \subseteq Open
  BY <1>3 DEF VerifyCode, Disconnect
<1>4. ASSUME NEW v \in Verify, SignedIn(v) \/ SignInFails(v)
      PROVE  Open' \subseteq Open
  BY <1>4 DEF SignedIn, SignInFails, Disconnect
<1>5. ASSUME NEW l \in Logout, NEW u \in User, BeginLogout(l, u)
      PROVE  Open' \subseteq Open \cup {l} /\ pc[l] = "idle"
  BY <1>5 DEF BeginLogout, Forget, Goto, Disconnect
<1>6. ASSUME NEW l \in Logout, LogOut(l) \/ FinishLogout(l) \/ Drop(l)
      PROVE  Open' \subseteq Open
  BY <1>6 DEF LogOut, FinishLogout, Forget, Drop, Disconnect
<1>7. ASSUME NEW f \in Fetch, NEW u \in User, GetContacts(f, u) \/ SyncContacts(f, u)
      PROVE  Open' \subseteq Open \cup {f} /\ pc[f] = "idle"
  BY <1>7 DEF GetContacts, SyncContacts, BeginFetch, Arrive, Goto
<1>8. ASSUME NEW f \in Fetch, ReceiveContacts(f) \/ CacheContacts(f)
      PROVE  Open' \subseteq Open
  BY <1>8 DEF ReceiveContacts, CacheContacts, Disconnect
<1>9. ASSUME \/ \E u \in User : CacheTimesOut(u)
             \/ \E c \in Client : DisconnectLate(c)
             \/ \E s \in Send : Revoke(s)
             \/ AllAnswered
      PROVE  Open' = Open
  BY <1>9 DEF CacheTimesOut, DisconnectLate, Revoke, AllAnswered, vars
<1>10. QED
  BY <1>1, <1>2, <1>3, <1>4, <1>5, <1>6, <1>7, <1>8, <1>9 DEF Next

\* A logout and a reading of contacts disconnect when they leave their call.
LEMMA CallsDisconnect ==
    ASSUME TypeOK, LeftInv, Next
    PROVE  \A c \in Open' \ Send : pc'[c] \in {"leaving", "fetching"}
<1> USE Kinds DEF TypeOK, LeftInv, Client, telegram, request, history, Open, Disconnect
<1>1. ASSUME NEW s \in Send, NEW u \in User, NEW a \in Account, SendCode(s, u, a)
      PROVE  \A c \in Open' \ Send : pc'[c] \in {"leaving", "fetching"}
  BY <1>1 DEF SendCode, Arrive, Goto
<1>2. ASSUME NEW s \in Send, CodeSent(s) \/ CodeNotSent(s) \/ Expire(s)
      PROVE  \A c \in Open' \ Send : pc'[c] \in {"leaving", "fetching"}
  BY <1>2 DEF CodeSent, CodeNotSent, Expire, Goto
<1>3. ASSUME NEW v \in Verify, NEW u \in User, NEW h \in Send, VerifyCode(v, u, h)
      PROVE  \A c \in Open' \ Send : pc'[c] \in {"leaving", "fetching"}
  BY <1>3 DEF VerifyCode, Arrive, Goto, Disconnect
<1>4. ASSUME NEW v \in Verify, SignedIn(v) \/ SignInFails(v)
      PROVE  \A c \in Open' \ Send : pc'[c] \in {"leaving", "fetching"}
  BY <1>4 DEF SignedIn, SignInFails, Goto, Disconnect
<1>5. ASSUME NEW l \in Logout, NEW u \in User, BeginLogout(l, u)
      PROVE  \A c \in Open' \ Send : pc'[c] \in {"leaving", "fetching"}
  BY <1>5 DEF BeginLogout, Forget, Goto, Disconnect
<1>6. ASSUME NEW l \in Logout, LogOut(l) \/ FinishLogout(l) \/ Drop(l)
      PROVE  \A c \in Open' \ Send : pc'[c] \in {"leaving", "fetching"}
  BY <1>6 DEF LogOut, FinishLogout, Forget, Drop, Goto, Disconnect
<1>7. ASSUME NEW f \in Fetch, NEW u \in User, GetContacts(f, u) \/ SyncContacts(f, u)
      PROVE  \A c \in Open' \ Send : pc'[c] \in {"leaving", "fetching"}
  BY <1>7 DEF GetContacts, SyncContacts, BeginFetch, Arrive, Goto
<1>8. ASSUME NEW f \in Fetch, ReceiveContacts(f) \/ CacheContacts(f)
      PROVE  \A c \in Open' \ Send : pc'[c] \in {"leaving", "fetching"}
  BY <1>8 DEF ReceiveContacts, CacheContacts, Goto, Disconnect
<1>9. ASSUME \/ \E u \in User : CacheTimesOut(u)
             \/ \E c \in Client : DisconnectLate(c)
             \/ \E s \in Send : Revoke(s)
             \/ AllAnswered
      PROVE  \A c \in Open' \ Send : pc'[c] \in {"leaving", "fetching"}
  BY <1>9 DEF CacheTimesOut, DisconnectLate, Revoke, AllAnswered, vars
<1>10. QED
  BY <1>1, <1>2, <1>3, <1>4, <1>5, <1>6, <1>7, <1>8, <1>9 DEF Next

\* Whatever removes or replaces the pending sign-in of a user leaves one that is accounted for.
LEMMA EntryStays ==
    ASSUME IInv, LeftInv, Persists, Next, NEW u \in User
    PROVE  \/ authSessions'[u] = authSessions[u]
           \/ \E h \in Send : Accounted(u, h)'
<1> USE Kinds DEF IInv, TypeOK, maps, telegram, request, history
<1>1. ASSUME NEW s \in Send, CodeSent(s), u = who[s]
      PROVE  Accounted(u, s)'
  BY <1>1 DEF CodeSent, Goto, Accounted, Sent, Open
<1>2. ASSUME NEW v \in Verify, NEW w \in User, NEW h \in Send, VerifyCode(v, w, h)
      PROVE  authSessions' = authSessions \/
                (authSessions' = [authSessions EXCEPT ![w] = None]
                 /\ \E g \in Send : Accounted(w, g)')
  <2>1. CASE authSessions[w] # None /\ authSessions' = [authSessions EXCEPT ![w] = None]
                /\ Open' = Open \ {authSessions[w]}
    <3>1. PICK g \in Send : g = authSessions[w] /\ Sent(g, w)
      BY <2>1 DEF Owned, Sent
    <3>2. Sent(g, w)'
      BY <3>1 DEF Persists
    <3>3. Accounted(w, g)'
      BY <2>1, <3>1, <3>2 DEF Accounted, Open
    <3>4. QED
      BY <2>1, <3>3
  <2>2. QED
    BY <1>2, <2>1 DEF VerifyCode, Disconnect, Open
<1>3. ASSUME NEW v \in Verify, SignedIn(v) \/ SignInFails(v), u = who[v]
      PROVE  \E h \in Send : Accounted(u, h)'
  <2>1. PICK h \in Send : h = using[v] /\ Sent(h, u)
    BY <1>3 DEF SignedIn, SignInFails, Goto, Owned, Sent, Disconnect
  <2>2. Sent(h, u)'
    BY <2>1 DEF Persists
  <2>3. CASE SignedIn(v)
    <3>1. pc'[v] = "signed" /\ who'[v] = u /\ using'[v] = h
      BY <1>3, <2>1, <2>3 DEF SignedIn, Goto
    <3>2. HasSignedIn(u, h)'
      BY <3>1 DEF HasSignedIn
    <3>3. Accounted(u, h)'
      BY <2>2, <3>2 DEF Accounted, Open
    <3>4. QED
      BY <3>3
  <2>4. CASE SignInFails(v)
    <3>1. h \notin Open'
      BY <2>1, <2>4 DEF SignInFails, Disconnect, Open
    <3>2. Accounted(u, h)'
      BY <2>2, <3>1 DEF Accounted, Open
    <3>3. QED
      BY <3>2
  <2>5. QED
    BY <1>3, <2>3, <2>4
<1>4. ASSUME NEW l \in Logout, Drop(l), u = who[l]
      PROVE  \E h \in Send : Accounted(u, h)'
  <2>1. PICK h \in Send : Sent(h, u) /\ h \notin Open
    BY <1>4 DEF LeftInv, Drop, Goto, Open
  <2>2. Accounted(u, h)'
    BY <1>4, <2>1 DEF Drop, Persists, Accounted, Open
  <2>3. QED
    BY <2>2
<1>5. ASSUME NEW s \in Send, CodeSent(s), u # who[s]
      PROVE  authSessions'[u] = authSessions[u]
  BY <1>5 DEF CodeSent
<1>6. ASSUME NEW v \in Verify, SignedIn(v) \/ SignInFails(v), u # who[v]
      PROVE  authSessions'[u] = authSessions[u]
  BY <1>6 DEF SignedIn, SignInFails, Disconnect
<1>7. ASSUME NEW l \in Logout, Drop(l), u # who[l]
      PROVE  authSessions'[u] = authSessions[u]
  BY <1>7 DEF Drop
<1>8. ASSUME \/ \E s \in Send, w \in User, a \in Account : SendCode(s, w, a)
             \/ \E s \in Send : CodeNotSent(s) \/ Expire(s)
             \/ \E l \in Logout, w \in User : BeginLogout(l, w)
             \/ \E l \in Logout : LogOut(l) \/ FinishLogout(l)
             \/ \E f \in Fetch, w \in User : GetContacts(f, w) \/ SyncContacts(f, w)
             \/ \E f \in Fetch : ReceiveContacts(f) \/ CacheContacts(f)
             \/ \E w \in User : CacheTimesOut(w)
             \/ \E c \in Client : DisconnectLate(c)
             \/ \E s \in Send : Revoke(s)
             \/ AllAnswered
      PROVE  authSessions' = authSessions
  BY <1>8 DEF SendCode, CodeNotSent, Expire, BeginLogout, LogOut, FinishLogout, GetContacts,
              SyncContacts, BeginFetch, ReceiveContacts, CacheContacts, CacheTimesOut,
              DisconnectLate, Revoke, AllAnswered, vars, Disconnect
<1>9. ASSUME NEW v \in Verify, NEW w \in User, NEW h \in Send, VerifyCode(v, w, h)
      PROVE  authSessions'[u] = authSessions[u] \/ \E g \in Send : Accounted(u, g)'
  <2>1. CASE u = w
    BY <1>2, <1>9, <2>1
  <2>2. CASE u # w
    BY <1>2, <1>9, <2>2
  <2>3. QED
    BY <2>1, <2>2
<1>10. CASE \E s \in Send : CodeSent(s)
  BY <1>1, <1>5, <1>10
<1>11. CASE \E v \in Verify : SignedIn(v) \/ SignInFails(v)
  BY <1>3, <1>6, <1>11
<1>12. CASE \E l \in Logout : Drop(l)
  BY <1>4, <1>7, <1>12
<1>13. CASE \E v \in Verify, w \in User, h \in Send : VerifyCode(v, w, h)
  BY <1>9, <1>13
<1>14. QED
  BY <1>8, <1>10, <1>11, <1>12, <1>13 DEF Next

\* Only a code that has just been sent is new.
LEMMA SentIsNew ==
    ASSUME TypeOK, Next, NEW s \in Send, NEW u \in User, Sent(s, u)'
    PROVE  Sent(s, u) \/ Accounted(u, s)'
<1> USE Kinds DEF TypeOK, telegram, request, history
<1>1. ASSUME NEW x \in Send, NEW w \in User, NEW a \in Account, SendCode(x, w, a)
      PROVE  Sent(s, u)
  BY <1>1 DEF SendCode, Arrive, Goto, Sent
<1>2. ASSUME NEW x \in Send, CodeSent(x)
      PROVE  Sent(s, u) \/ Accounted(u, s)'
  BY <1>2 DEF CodeSent, Goto, Sent, Accounted, Open
<1>3. ASSUME NEW x \in Send, CodeNotSent(x) \/ Expire(x)
      PROVE  Sent(s, u)
  BY <1>3 DEF CodeNotSent, Expire, Goto, Sent
<1>4. ASSUME NEW v \in Verify, NEW w \in User, NEW h \in Send, VerifyCode(v, w, h)
      PROVE  Sent(s, u)
  BY <1>4 DEF VerifyCode, Arrive, Goto, Sent, Disconnect
<1>5. ASSUME NEW v \in Verify, SignedIn(v) \/ SignInFails(v)
      PROVE  Sent(s, u)
  BY <1>5 DEF SignedIn, SignInFails, Goto, Sent, Disconnect
<1>6. ASSUME NEW l \in Logout, NEW w \in User, BeginLogout(l, w)
      PROVE  Sent(s, u)
  BY <1>6 DEF BeginLogout, Forget, Goto, Sent, Disconnect
<1>7. ASSUME NEW l \in Logout, LogOut(l) \/ FinishLogout(l) \/ Drop(l)
      PROVE  Sent(s, u)
  BY <1>7 DEF LogOut, FinishLogout, Forget, Drop, Goto, Sent, Disconnect
<1>8. ASSUME NEW f \in Fetch, NEW w \in User, GetContacts(f, w) \/ SyncContacts(f, w)
      PROVE  Sent(s, u)
  BY <1>8 DEF GetContacts, SyncContacts, BeginFetch, Arrive, Goto, Sent
<1>9. ASSUME NEW f \in Fetch, ReceiveContacts(f) \/ CacheContacts(f)
      PROVE  Sent(s, u)
  BY <1>9 DEF ReceiveContacts, CacheContacts, Goto, Sent, Disconnect
<1>10. ASSUME \/ \E w \in User : CacheTimesOut(w)
             \/ AllAnswered
      PROVE  Sent(s, u)
  BY <1>10 DEF CacheTimesOut, AllAnswered, vars, Sent
<1>11. ASSUME \/ \E c \in Client : DisconnectLate(c)
             \/ \E x \in Send : Revoke(x)
      PROVE  Sent(s, u)
  BY <1>11 DEF DisconnectLate, Revoke, Sent
<1>12. QED
  BY <1>1, <1>2, <1>3, <1>4, <1>5, <1>6, <1>7, <1>8, <1>9, <1>10, <1>11 DEF Next

\* A logout that goes on to remove an entry has disconnected its client.
LEMMA DroppingIsNew ==
    ASSUME IInv, Persists, Next, NEW l \in Logout, pc'[l] = "dropping"
    PROVE  \/ pc[l] = "dropping" /\ who'[l] = who[l]
           \/ \E h \in Send : (Sent(h, who[l]) /\ h \notin Open)'
<1> USE Kinds DEF IInv, TypeOK, telegram, request, history
<1>1. ASSUME NEW k \in Logout, NEW u \in User, NEW from \in {"idle", "closing"},
             Forget(k, u, from), who'[k] = u, authSessions' = authSessions,
             k # l => who'[l] = who[l]
      PROVE  \/ pc[l] = "dropping" /\ who'[l] = who[l]
             \/ \E h \in Send : (Sent(h, who[l]) /\ h \notin Open)'
  <2>1. CASE k = l
    <3>1. authSessions[u] # None
      BY <1>1, <2>1 DEF Forget, Goto, Disconnect
    <3>2. Sent(authSessions[u], u) /\ authSessions[u] \in Send
      BY <3>1 DEF Owned, Sent
    <3>3. (Sent(authSessions[u], who[l]) /\ authSessions[u] \notin Open)'
      BY <1>1, <2>1, <3>2 DEF Forget, Persists, Sent, Disconnect, Open
    <3>4. QED
      BY <1>1, <3>2, <3>3
  <2>2. CASE k # l
    BY <1>1, <2>2 DEF Forget, Goto, Disconnect
  <2>3. QED
    BY <2>1, <2>2
<1>2. ASSUME NEW k \in Logout, NEW u \in User, BeginLogout(k, u)
      PROVE  \/ pc[l] = "dropping" /\ who'[l] = who[l]
             \/ \E h \in Send : (Sent(h, who[l]) /\ h \notin Open)'
  <2>1. who'[k] = u /\ authSessions' = authSessions /\ (k # l => who'[l] = who[l])
    BY <1>2 DEF BeginLogout, Disconnect
  <2>2. CASE Forget(k, u, "idle")
    BY <1>1, <2>1, <2>2
  <2>3. CASE Goto(k, "idle", "leaving") \/ Goto(k, "idle", "failed")
    BY <2>1, <2>3 DEF Goto
  <2>4. QED
    BY <1>2, <2>2, <2>3 DEF BeginLogout, Disconnect
<1>3. ASSUME NEW k \in Logout, FinishLogout(k)
      PROVE  \/ pc[l] = "dropping" /\ who'[l] = who[l]
             \/ \E h \in Send : (Sent(h, who[l]) /\ h \notin Open)'
  <2>1. who[k] \in User /\ who' = who /\ authSessions' = authSessions
    BY <1>3 DEF FinishLogout, Disconnect
  <2>2. QED
    BY <1>1, <1>3, <2>1 DEF FinishLogout, Disconnect
<1>4. ASSUME \/ \E s \in Send, w \in User, a \in Account : SendCode(s, w, a)
             \/ \E s \in Send : CodeSent(s) \/ CodeNotSent(s) \/ Expire(s)
      PROVE  pc[l] = "dropping" /\ who'[l] = who[l]
  BY <1>4 DEF SendCode, CodeSent, CodeNotSent, Expire, Arrive, Goto
<1>5. ASSUME \/ \E v \in Verify, w \in User, h \in Send : VerifyCode(v, w, h)
             \/ \E v \in Verify : SignedIn(v) \/ SignInFails(v)
      PROVE  pc[l] = "dropping" /\ who'[l] = who[l]
  BY <1>5 DEF VerifyCode, SignedIn, SignInFails, Arrive, Goto, Disconnect
<1>6. ASSUME NEW k \in Logout, LogOut(k) \/ Drop(k)
      PROVE  pc[l] = "dropping" /\ who'[l] = who[l]
  BY <1>6 DEF LogOut, Drop, Goto, Disconnect
<1>7. ASSUME \/ \E f \in Fetch, w \in User : GetContacts(f, w) \/ SyncContacts(f, w)
             \/ \E f \in Fetch : ReceiveContacts(f) \/ CacheContacts(f)
      PROVE  pc[l] = "dropping" /\ who'[l] = who[l]
  BY <1>7 DEF GetContacts, SyncContacts, BeginFetch, ReceiveContacts, CacheContacts, Arrive, Goto,
              Disconnect
<1>8. ASSUME \/ \E w \in User : CacheTimesOut(w)
             \/ \E c \in Client : DisconnectLate(c)
             \/ \E x \in Send : Revoke(x)
             \/ AllAnswered
      PROVE  pc[l] = "dropping" /\ who'[l] = who[l]
  BY <1>8 DEF CacheTimesOut, DisconnectLate, Revoke, AllAnswered, vars
<1>9. QED
  BY <1>2, <1>3, <1>4, <1>5, <1>6, <1>7, <1>8 DEF Next

LEMMA LeftStep == IInv /\ LeftInv /\ [Next]_vars => LeftInv'
<1> SUFFICES ASSUME IInv, LeftInv, [Next]_vars PROVE LeftInv'
  OBVIOUS
<1>1. CASE UNCHANGED vars
  BY <1>1 DEF LeftInv, Accounted, Sent, HasSignedIn, vars, maps, telegram, request, history, Open
<1>2. CASE Next
  <2>1. Persists
    BY <1>2, StepPersists DEF IInv
  <2>2. \A s, u : Sent(s, u) /\ s \notin Open => (Sent(s, u) /\ s \notin Open)'
    <3> SUFFICES ASSUME NEW s, NEW u, Sent(s, u), s \notin Open
                 PROVE  (Sent(s, u) /\ s \notin Open)'
      OBVIOUS
    <3>1. s \in Client /\ pc[s] # "idle"
      BY DEF Sent, Client
    <3>2. QED
      BY <1>2, <2>1, <3>1, NoReconnection DEF IInv, Persists
  <2>3. \A c \in Open' \ Send : pc'[c] \in {"leaving", "fetching"}
    BY <1>2, CallsDisconnect DEF IInv
  <2>4. ASSUME NEW u \in User, NEW s \in Send, Sent(s, u)'
        PROVE  \E h \in Send : Accounted(u, h)'
    <3>1. CASE \E h \in Send : Accounted(u, h)
      <4>1. PICK h \in Send : Accounted(u, h)
        BY <3>1
      <4>2. CASE authSessions'[u] = authSessions[u]
        BY <2>1, <2>2, <4>1, <4>2 DEF Accounted, Persists, Open
      <4>3. QED
        BY <1>2, <2>1, <4>2, EntryStays
    <3>2. CASE ~ \E h \in Send : Accounted(u, h)
      BY <1>2, <2>4, <3>2, SentIsNew DEF IInv, LeftInv, Open
    <3>3. QED
      BY <3>1, <3>2
  <2>5. ASSUME NEW l \in Logout, pc'[l] = "dropping"
        PROVE  \E h \in Send : (Sent(h, who[l]) /\ h \notin Open)'
    <3>1. CASE pc[l] = "dropping" /\ who'[l] = who[l]
      BY <2>2, <3>1 DEF LeftInv, Sent, Open
    <3>2. QED
      BY <1>2, <2>1, <2>5, <3>1, DroppingIsNew
  <2>6. QED
    BY <2>3, <2>4, <2>5 DEF LeftInv, Open
<1>3. QED
  BY <1>1, <1>2

\* Clients whose code was sent are only left behind by codes sent one over another
\* (services/auth.service.ts:65-70, 103-108, 133, 150-155, 208-225).
THEOREM ClientsLeftForACauseHolds == Spec => []ClientsLeftForACause
<1>1. IInv /\ LeftInv => ClientsLeftForACause
  <2> SUFFICES ASSUME IInv, LeftInv PROVE ClientsLeftForACause
    OBVIOUS
  <2>1. ASSUME NEW u \in User, NEW s \in LeftBehind(u)
        PROVE  \E h \in Send \ LeftBehind(u) : pc[h] = "sent" /\ who[h] = u
    <3>1. Sent(s, u) /\ s \in Send
      BY <2>1 DEF LeftBehind, Sent, Open
    <3>2. PICK h \in Send : Accounted(u, h)
      BY <3>1 DEF LeftInv, Open
    <3>3. h \notin LeftBehind(u)
      BY <3>2 DEF Accounted, HasSignedIn, LeftBehind, Open
    <3>4. QED
      BY <3>2, <3>3 DEF Accounted, Sent, Open
  <2>2. QED
    BY <2>1 DEF LeftInv, ClientsLeftForACause, Open
<1>2. Spec => [](IInv /\ LeftInv)
  BY InitIInv, InitLeft, StepIInv, LeftStep, PTL DEF Spec
<1>3. QED
  BY <1>1, <1>2, PTL
------------------------------------------------------------------------------
(* Searches. *)

\* Where the two parts of a request may be, and what is there before it has been read.
Running == \A t \in Track : at[t] \notin {"who", "done"}

SearchPhases ==
    /\ ~ Running => at = [t \in Track |-> "who"] \/ at = [t \in Track |-> "done"]
    /\ Running => current = Current
    /\ ~ Running => byName = Unread /\ byAddress = Unread /\ flagged = {} /\ queue = {}
                    /\ records = NoRecords /\ saw = [t \in Track |-> {}]
    /\ Running => at["name"] \in {"shares", "users", "lookups", "ready"}
    /\ Running => at["address"] \in {"shares", "records", "populate", "flags", "ready"}
    /\ Running /\ query.whole => at["name"] = "ready" /\ at["address"] # "shares"
    /\ Running /\ query.addresses = {} /\ ~ query.whole =>
          at["address"] = "ready" /\ byAddress = Unread
    /\ at["address"] = "flags" => query.whole
    /\ at["name"] \in {"shares", "users"} => byName = Unread
    /\ at["address"] \in {"shares", "records", "populate"} => byAddress = Unread /\ flagged = {}
    /\ query.whole => byName = Unread
    /\ ~ query.whole => flagged = {} /\ ~ past.failed
    /\ queue # {} => at["name"] = "lookups" \/ at["address"] = "flags"

\* What a request has read held at some moment of it.
SearchCauses ==
    /\ Running => active \subseteq past.active /\ mentions[me] \subseteq past.ever
                  /\ past.kept \subseteq mentions[me]
    /\ ~ query.whole => queue \subseteq (past.active \cap query.names) \ {Current}
    /\ \A u \in Person : byName[u] # Nil =>
          u \in (past.active \cap query.names) \ {Current} /\ u \in holders[byName[u]]
    /\ \A u \in Person : byAddress[u] # Nil =>
          /\ u \in past.active \ {Current}
          /\ byAddress[u] \in query.addresses /\ u \in holders[byAddress[u]]
    /\ \A a \in Address : records.users[a] # {} =>
          a \in query.addresses /\ records.users[a] \subseteq holders[a]

\* What it has read of the lists, if they are the searcher's.
ReadOwn ==
    Running /\ Current = me =>
        /\ \A t \in Track : saw[t] \subseteq past.ever
        /\ ~ query.whole /\ at["name"] # "shares" => past.kept \subseteq saw["name"]
        /\ ~ query.whole /\ query.addresses # {} /\ at["address"] # "shares" =>
              past.kept \subseteq saw["address"]
        /\ \A u \in flagged : {u, byAddress[u]} \cap past.ever # {}
        /\ query.whole => \A u \in Person : byAddress[u] # Nil /\ u \notin queue \cup flagged =>
              {u, byAddress[u]} \cap past.kept = {}

SearchCausesInv == SearchTypeOK /\ SearchPhases /\ SearchCauses /\ ReadOwn

------------------------------------------------------------------------------
\* While nothing a request reads is changed, what it finds follows from what is stored.
Still == ~ past.torn /\ ~ past.moved

\* Those found by name, and the address found for one.
Named == {u \in Matches : u \in query.names /\ Latest(u) # Nil}

Addressed(u) == LatestOf({a \in query.addresses : u \in holders[a]}, recent)

\* The addresses read are those stored, and each part has read what is stored.
RecordsStill ==
    records = [users  |-> [a \in Address |-> IF a \in query.addresses THEN holders[a] ELSE {}],
               recent |-> recent]

ReadStill ==
    Running /\ Still =>
        /\ ~ query.whole /\ at["name"] # "shares" => saw["name"] = mentions[Current]
        /\ ~ query.whole /\ query.addresses # {} /\ at["address"] # "shares" =>
              saw["address"] = mentions[Current]
        /\ \A u \in Person : byName[u] # Nil => u \in Named /\ byName[u] = Latest(u)
        /\ at["name"] \in {"lookups", "ready"} =>
              \A u \in Named : u \in queue \/ byName[u] # Nil
        /\ ~ query.whole => \A u \in queue : Latest(u) # Nil => u \in Named
        /\ at["address"] = "populate" => RecordsStill
        /\ at["address"] \in {"flags", "ready"} /\ ~ past.failed =>
              \A u \in Person : byAddress[u] = IF u \in Matches THEN Addressed(u) ELSE Nil

\* The order in which all pages list those who match.
SharedWith(u) ==
    IF u \in query.names /\ Latest(u) # Nil THEN u \in mentions[Current]
    ELSE {u, Addressed(u)} \cap mentions[Current] # {}

Before(v, u) == IF SharedWith(v) = SharedWith(u) THEN v < u ELSE SharedWith(v)

\* How many are ahead of one.
Standing(u) == Cardinality({v \in Matches : Before(v, u)})

\* Until answered, whoever matches all through the walk stands on the page asked for or after.
MissedBySearch ==
    ~ past.left /\ Still /\ ~ past.failed =>
        IF at = [t \in Track |-> "done"] THEN past.steady \subseteq seen
        ELSE ~ query.whole =>
                \A u \in past.steady \ seen : (page - 1) * Limit <= Standing(u)

\* Whoever has been answered stands before the page asked for.
RepeatedBySearch ==
    ~ past.came /\ Still =>
        /\ again = {}
        /\ at # [t \in Track |-> "done"] /\ ~ query.whole =>
              \A u \in seen \cap Matches : Standing(u) < (page - 1) * Limit

------------------------------------------------------------------------------
LEMMA SearchConstants ==
    /\ Person \subseteq Nat /\ IsFiniteSet(Person) /\ Searchers \subseteq Person
    /\ Telegram \subseteq Person /\ Nil \notin Address /\ Person \cap Address = {}
    /\ IsFiniteSet(Address) /\ Cardinality(Address) \in Nat
    /\ Limit \in Nat \ {0} /\ MaxChanges \in Nat
    /\ \A q \in Queries : /\ q.whole \in BOOLEAN
                          /\ q.names \subseteq Person /\ q.addresses \subseteq Address
                          /\ q.whole => q.names = {}
<1>1. Cardinality(Address) \in Nat
  BY PersonAssumption, FS_CardinalityType
<1>2. QED
  BY <1>1, PersonAssumption, SearchAssumption

\* A set of numbers that has one has a least one.
LEMMA LeastNumber ==
    ASSUME NEW T \in SUBSET Nat, T # {}
    PROVE  \E x \in T : \A y \in T : x <= y
<1> DEFINE R == {p \in Nat \X Nat : p[1] < p[2]}
<1>1. IsWellFoundedOn(R, Nat)
  BY NatLessThanWellFounded DEF OpToRel
<1>2. \A x, y \in Nat : <<y, x>> \in R <=> y < x
  OBVIOUS
<1> HIDE DEF R
<1>3. PICK x \in T : \A y \in T : ~ (<<y, x>> \in R)
  BY <1>1, WFMin
<1>4. \A y \in T : ~ (y < x)
  BY <1>2, <1>3
<1>5. QED
  BY <1>4

\* The latest of some addresses is one of them; there is none only if they are none.
LEMMA LatestIsOne ==
    ASSUME NEW S \in SUBSET Address, NEW order \in [Address -> Place]
    PROVE  IF S = {} THEN LatestOf(S, order) = Nil ELSE LatestOf(S, order) \in S
<1> SUFFICES ASSUME S # {} PROVE LatestOf(S, order) \in S
  BY DEF LatestOf
<1> DEFINE T == {order[a] : a \in S}
<1>1. T \in SUBSET Nat /\ T # {}
  BY DEF Place
<1>2. PICK x \in T : \A y \in T : x <= y
  BY <1>1, LeastNumber
<1>3. PICK a \in S : order[a] = x
  BY <1>2
<1>4. \A b \in S : order[a] <= order[b]
  BY <1>2, <1>3
<1>5. QED
  BY <1>4 DEF LatestOf

\* Who is taken to be asking is a user.
LEMMA CurrentIsOne ==
    ASSUME me \in Searchers
    PROVE  Current \in Person
<1>1. CASE me \in Telegram
  BY <1>1, SearchConstants DEF Current
<1>2. CASE me \notin Telegram
  <2>1. Person \ Telegram \in SUBSET Nat /\ Person \ Telegram # {}
    BY <1>2, SearchConstants
  <2>2. \E u \in Person \ Telegram : \A v \in Person \ Telegram : u <= v
    BY <2>1, LeastNumber
  <2>3. QED
    BY <1>2, <2>2 DEF Current
<1>3. QED
  BY <1>1, <1>2

\* What the addresses of a user give, as they are stored and as they were read.
LEMMA LatestIsHis ==
    ASSUME SearchTypeOK, NEW u
    PROVE  /\ Latest(u) \in Address \cup {Nil}
           /\ Latest(u) # Nil => u \in holders[Latest(u)]
           /\ Record(u) \in Address \cup {Nil}
           /\ Record(u) # Nil => u \in records.users[Record(u)]
<1>1. recent \in [Address -> Place] /\ records.recent \in [Address -> Place]
  BY DEF SearchTypeOK, Places
<1>2. Latest(u) \in {a \in Address : u \in holders[a]} \cup {Nil}
  BY <1>1, LatestIsOne DEF Latest
<1>3. Record(u) \in {a \in Address : u \in records.users[a]} \cup {Nil}
  BY <1>1, LatestIsOne DEF Record
<1>4. QED
  BY <1>2, <1>3

\* Who is looked up next is one of the queue.
LEMMA NextInQueue ==
    ASSUME SearchTypeOK, queue # {}
    PROVE  (CHOOSE v \in queue : \A w \in queue : v <= w) \in queue
<1>1. \E v \in queue : \A w \in queue : v <= w
  BY SearchConstants, LeastNumber DEF SearchTypeOK
<1>2. QED
  BY <1>1

------------------------------------------------------------------------------
\* Division, as the pages use it.
LEMMA Divides ==
    ASSUME NEW k \in Nat, NEW m \in Nat, NEW l \in Nat \ {0}
    PROVE  /\ m \div l \in Nat
           /\ k * l <= m <=> k <= m \div l
<1> DEFINE q == m \div l
<1>1. q \in Nat /\ q * l <= m /\ m < (q + 1) * l
  OBVIOUS
<1> HIDE DEF q
<1>2. ASSUME k <= q PROVE k * l <= m
  <2>1. k * l <= q * l
    BY <1>1, <1>2
  <2>2. QED
    BY <1>1, <2>1
<1>3. ASSUME q + 1 <= k PROVE m < k * l
  <2>1. (q + 1) * l <= k * l
    BY <1>1, <1>3
  <2>2. QED
    BY <1>1, <2>1
<1>4. k * l \in Nat
  OBVIOUS
<1>5. k * l <= m <=> k <= q
  BY <1>1, <1>2, <1>3, <1>4
<1>6. QED
  BY <1>1, <1>5 DEF q

\* Those with k ahead of them are on page p if k is among its Limit numbers.
LEMMA PageWindow ==
    ASSUME NEW k \in Nat, NEW p \in Nat \ {0}
    PROVE  k \div Limit = p - 1 <=> (p - 1) * Limit <= k /\ k < p * Limit
<1>1. Limit \in Nat \ {0} /\ p - 1 \in Nat
  BY SearchConstants
<1>2. (p - 1) * Limit <= k <=> p - 1 <= k \div Limit
  BY <1>1, Divides
<1>3. p * Limit <= k <=> p <= k \div Limit
  BY <1>1, Divides
<1>4. k \div Limit \in Nat /\ p * Limit \in Nat
  BY <1>1, Divides
<1>5. QED
  BY <1>1, <1>2, <1>3, <1>4

\* There are finitely many users.
LEMMA PersonsFinite ==
    ASSUME NEW S \in SUBSET Person
    PROVE  /\ IsFiniteSet(S) /\ Cardinality(S) \in Nat /\ Cardinality(Person) \in Nat
           /\ Cardinality(S) <= Cardinality(Person)
<1>1. IsFiniteSet(S) /\ Cardinality(S) <= Cardinality(Person)
  BY SearchConstants, FS_Subset
<1>2. QED
  BY <1>1, SearchConstants, FS_CardinalityType

\* There is a next page only while there are users left for it.
LEMMA NextPageBound ==
    ASSUME SearchTypeOK, HasNextPage
    PROVE  page + 1 \in 1..(1 + (Cardinality(Person) - 1) \div Limit)
<1> DEFINE n == Cardinality(Person)
           f == Cardinality(Found)
<1>1. Found \in SUBSET Person
  BY DEF Found
<1>2. f \in Nat /\ n \in Nat /\ f <= n
  BY <1>1, PersonsFinite
<1> HIDE DEF n, f
<1>3. page \in Nat /\ page >= 1 /\ Limit \in Nat \ {0}
  BY SearchConstants DEF SearchTypeOK
<1>4. page * Limit \in Nat
  BY <1>3
<1>5. page * Limit < f
  BY DEF HasNextPage, f
<1>6. page * Limit <= n - 1 /\ n - 1 \in Nat
  BY <1>2, <1>4, <1>5
<1>7. page <= (n - 1) \div Limit /\ (n - 1) \div Limit \in Nat
  BY <1>3, <1>6, Divides
<1>8. QED
  BY <1>3, <1>7 DEF n

------------------------------------------------------------------------------
(* Types. *)

\* An address linked anew is the latest, and no two have the same place.
LEMMA RecentStaysAnOrder ==
    ASSUME NEW a \in Address, NEW f \in Places
    PROVE  [b \in Address |-> CASE b = a -> 1
                                [] f[b] < f[a] -> f[b] + 1
                                [] OTHER -> f[b]] \in Places
<1> DEFINE g == [b \in Address |-> CASE b = a -> 1
                                     [] f[b] < f[a] -> f[b] + 1
                                     [] OTHER -> f[b]]
<1>1. \A b \in Address : f[b] \in Place
  BY DEF Places
<1>2. \A b \in Address : /\ b = a => g[b] = 1
                         /\ b # a /\ f[b] < f[a] => g[b] = f[b] + 1
                         /\ b # a /\ ~ (f[b] < f[a]) => g[b] = f[b]
  <2>1. \A b \in Address : f[b] \in Int
    BY <1>1, SearchConstants DEF Place
  <2>2. QED
    BY <2>1
<1>3. \A b, c \in Address : f[b] = f[c] => b = c
  BY DEF Places
<1>4. DOMAIN g = Address /\ g = [b \in Address |-> g[b]]
  OBVIOUS
<1> HIDE DEF g
<1>5. ASSUME NEW b \in Address PROVE g[b] \in Place
  BY <1>1, <1>2, SearchConstants DEF Place
<1>6. ASSUME NEW b \in Address, NEW c \in Address, g[b] = g[c] PROVE b = c
  <2>1. f[a] \in Nat /\ f[b] \in Nat /\ f[c] \in Nat /\ f[b] >= 1 /\ f[c] >= 1 /\ f[a] >= 1
    BY <1>1, SearchConstants DEF Place
  <2>2. f[b] = f[a] => b = a
    BY <1>3
  <2>3. f[c] = f[a] => c = a
    BY <1>3
  <2>4. f[b] = f[c] => b = c
    BY <1>3
  <2>5. QED
    BY <1>2, <1>6, <2>1, <2>2, <2>3, <2>4
<1>7. g \in [Address -> Place]
  BY <1>4, <1>5
<1>8. g \in Places
  BY <1>6, <1>7 DEF Places
<1>9. QED
  BY <1>8 DEF g
------------------------------------------------------------------------------
\* What a request holds before it has read anything has its types.
LEMMA NothingRead ==
    /\ Unread \in [Person -> Address \cup {Nil}]
    /\ NoRecords \in [users : [Address -> SUBSET Person], recent : [Address -> Place]]
    /\ [t \in Track |-> {}] \in [Track -> SUBSET (Telegram \cup Address)]
<1>1. [a \in Address |-> 1] \in [Address -> Place]
  <2>1. ASSUME NEW a \in Address PROVE 1 \in Place
    <3>1. Cardinality(Address) # 0
      BY SearchConstants, FS_EmptySet
    <3>2. QED
      BY <3>1, SearchConstants DEF Place
  <2>2. QED
    BY <2>1
<1>2. QED
  BY <1>1 DEF Unread, NoRecords

LEMMA MatchesAreUsers ==
    SearchTypeOK => Matches \subseteq Person
  BY DEF Matches, SearchTypeOK

LEMMA InitSearchType == SearchInit => SearchTypeOK
<1> SUFFICES ASSUME SearchInit PROVE SearchTypeOK
  OBVIOUS
<1>1. 1 \in 1..(1 + (Cardinality(Person) - 1) \div Limit)
  <2>1. Person # {}
    BY SearchConstants DEF SearchInit
  <2>2. Cardinality(Person) \in Nat /\ Cardinality(Person) # 0
    BY <2>1, SearchConstants, FS_EmptySet, FS_CardinalityType
  <2>3. 0 <= (Cardinality(Person) - 1) \div Limit /\ (Cardinality(Person) - 1) \div Limit \in Nat
    BY <2>2, SearchConstants, Divides
  <2>4. QED
    BY <2>3
<1>2. past \in History
  BY SearchAssumption DEF SearchInit, Fresh, History, Matches
<1>3. at \in [Track -> {"who", "shares", "users", "lookups", "records", "populate", "flags",
                        "ready", "done"}]
  BY DEF SearchInit
<1>4. /\ active \subseteq Person /\ holders \in [Address -> SUBSET Person]
      /\ mentions \in [Person -> SUBSET (Telegram \cup Address)]
  BY SearchAssumption DEF SearchInit
<1>5. changes \in 0..MaxChanges
  BY SearchConstants DEF SearchInit
<1>6. QED
  BY <1>1, <1>2, <1>3, <1>4, <1>5, NothingRead DEF SearchInit, SearchTypeOK

LEMMA SearchTypeStep == SearchTypeOK /\ SearchPhases /\ [SearchNext]_searchVars => SearchTypeOK'
<1> SUFFICES ASSUME SearchTypeOK, SearchPhases, [SearchNext]_searchVars PROVE SearchTypeOK'
  OBVIOUS
<1> USE DEF SearchTypeOK
<1>0. mentions[me] \in SUBSET (Telegram \cup Address) /\ me \in Person /\ Current \in Person
  BY SearchConstants, CurrentIsOne
<1>1. CASE Who
  <2>1. past' \in History
    BY <1>0, <1>1, SearchConstants DEF Who, History
  <2>2. at' \in [Track -> {"who", "shares", "users", "lookups", "records", "populate", "flags",
                           "ready", "done"}]
    BY <1>1 DEF Who, Track
  <2>3. QED
    BY <1>0, <1>1, <2>1, <2>2 DEF Who, dataVars, seenVars
<1>2. ASSUME NEW t \in Track, ReadShares(t) PROVE SearchTypeOK'
  <2>1. current \in Person
    BY <1>0, <1>2 DEF ReadShares, Go, SearchPhases, Running, Track
  <2>2. QED
    BY <1>2, <2>1 DEF ReadShares, Go, Track, dataVars, seenVars
<1>3. CASE ReadUsers
  BY <1>3 DEF ReadUsers, Go, Track, dataVars, seenVars
<1>4. CASE LookUp
  <2>1. (CHOOSE v \in queue : \A w \in queue : v <= w) \in queue
    BY <1>4, NextInQueue DEF LookUp
  <2>2. QED
    BY <1>4, <2>1, LatestIsHis DEF LookUp, Go, Track, dataVars, seenVars
<1>5. CASE ReadRecords
  <2>1. records' \in [users : [Address -> SUBSET Person], recent : [Address -> Place]]
    BY <1>5 DEF ReadRecords, Places
  <2>2. QED
    BY <1>5, <2>1 DEF ReadRecords, Go, Track, dataVars, seenVars
<1>6. CASE Populate
  <2>1. byAddress' \in [Person -> Address \cup {Nil}]
    BY <1>6, LatestIsHis DEF Populate
  <2>2. QED
    BY <1>6, <2>1 DEF Populate, Go, Track, dataVars, seenVars
<1>7. ASSUME NEW u \in Person, ReadFlag(u) PROVE SearchTypeOK'
  BY <1>7 DEF ReadFlag, Go, Track, dataVars, seenVars
<1>8. CASE Fail
  <2>1. past' \in History
    BY <1>8 DEF Fail, History
  <2>2. QED
    BY <1>8, <2>1, NothingRead DEF Fail, Track, dataVars, seenVars
<1>9. CASE Answer
  <2>1. page' \in 1..(1 + (Cardinality(Person) - 1) \div Limit)
    BY <1>9, NextPageBound DEF Answer
  <2>2. at' \in [Track -> {"who", "shares", "users", "lookups", "records", "populate", "flags",
                           "ready", "done"}]
    BY <1>9 DEF Answer
  <2>3. again' \subseteq seen' /\ seen' \subseteq Person
    BY <1>9 DEF Answer, OnPage, Found
  <2>4. QED
    BY <1>9, <2>1, <2>2, <2>3, NothingRead DEF Answer, dataVars
<1>10. CASE Meanwhile
  <2>1. active' \subseteq Person
    BY <1>10 DEF Meanwhile, SetActive, LinkAddress, Share
  <2>2. recent' \in Places
    <3>1. ASSUME NEW u \in Person, NEW a \in Address, LinkAddress(u, a) PROVE recent' \in Places
      BY <3>1, RecentStaysAnOrder DEF LinkAddress
    <3>2. QED
      BY <1>10, <3>1 DEF Meanwhile, SetActive, Share
  <2>3. holders' \in [Address -> SUBSET Person]
    BY <1>10 DEF Meanwhile, SetActive, LinkAddress, Share
  <2>4. mentions' \in [Person -> SUBSET (Telegram \cup Address)]
    BY <1>10 DEF Meanwhile, SetActive, LinkAddress, Share
  <2>5. changes' \in 0..MaxChanges
    BY <1>10, SearchConstants DEF Meanwhile
  <2>6. past' \in History
    <3>1. mentions'[me] \in SUBSET (Telegram \cup Address)
      BY <1>0, <2>4
    <3>2. past.steady \cap Matches' \in SUBSET Person /\ past.active \cup active' \in SUBSET Person
      BY <2>1 DEF History
    <3>3. /\ past.ever \cup mentions'[me] \in SUBSET (Person \cup Address)
          /\ past.kept \cap mentions'[me] \in SUBSET (Person \cup Address)
      BY <3>1, SearchConstants DEF History
    <3>4. QED
      BY <1>10, <3>2, <3>3 DEF Meanwhile, Noted, History
  <2>7. QED
    BY <1>10, <2>1, <2>2, <2>3, <2>4, <2>5, <2>6 DEF Meanwhile, readVars, seenVars
<1>11. CASE UNCHANGED searchVars
  BY <1>11 DEF searchVars, dataVars, readVars, seenVars
<1>12. QED
  BY <1>1, <1>2, <1>3, <1>4, <1>5, <1>6, <1>7, <1>8, <1>9, <1>10, <1>11 DEF SearchNext, Walk
------------------------------------------------------------------------------
(* Where a request is, and what it has read. *)

\* Both parts of a request together.
LEMMA BothParts ==
    ASSUME SearchTypeOK
    PROVE  /\ \A x : at = [t \in Track |-> x] <=> at["name"] = x /\ at["address"] = x
           /\ Running <=> /\ at["name"] \notin {"who", "done"}
                          /\ at["address"] \notin {"who", "done"}
           /\ "name" \in Track /\ "address" \in Track
           /\ query.names \subseteq Person /\ query.addresses \subseteq Address
           /\ query.whole \in BOOLEAN /\ (query.whole => query.names = {})
<1>1. /\ "name" \in Track /\ "address" \in Track
      /\ \A t \in Track : t = "name" \/ t = "address"
  BY DEF Track
<1>2. DOMAIN at = Track /\ at = [t \in Track |-> at[t]]
  BY DEF SearchTypeOK
<1>3. \A x : at = [t \in Track |-> x] <=> at["name"] = x /\ at["address"] = x
  BY <1>1, <1>2
<1>4. QED
  BY <1>1, <1>3, SearchConstants DEF Running, SearchTypeOK

\* A step of one part leaves the other where it was.
LEMMA OnePart ==
    ASSUME SearchTypeOK, NEW t \in Track, NEW from, NEW to, Go(t, from, to)
    PROVE  /\ at[t] = from /\ at'[t] = to
           /\ \A s \in Track : s # t => at'[s] = at[s]
  BY DEF Go, SearchTypeOK

LEMMA InitPhases == SearchInit => SearchPhases
<1> SUFFICES ASSUME SearchInit PROVE SearchPhases
  OBVIOUS
<1>1. at["name"] = "who" /\ at["address"] = "who" /\ ~ Running
  BY DEF SearchInit, Running, Track
<1>2. past.failed = FALSE
  BY DEF SearchInit, Fresh
<1>3. QED
  BY <1>1, <1>2 DEF SearchInit, SearchPhases

\* A request changes nothing of what is stored.
LEMMA WalkKeeps ==
    ASSUME Walk \/ UNCHANGED searchVars
    PROVE  /\ UNCHANGED dataVars
           /\ Current' = Current /\ Matches' = Matches
           /\ \A u : Latest(u)' = Latest(u)
<1>1. UNCHANGED dataVars
  BY DEF Walk, Who, ReadShares, ReadUsers, LookUp, ReadRecords, Populate, ReadFlag, Fail, Answer,
         searchVars
<1>2. Current' = Current
  BY <1>1 DEF dataVars, Current
<1>3. \A u : Latest(u)' = Latest(u)
  BY <1>1 DEF dataVars, Latest
<1>4. QED
  BY <1>1, <1>2, <1>3 DEF dataVars, Matches

LEMMA PhasesStep ==
    SearchTypeOK /\ SearchPhases /\ [SearchNext]_searchVars => SearchPhases'
<1> SUFFICES ASSUME SearchTypeOK, SearchPhases, [SearchNext]_searchVars PROVE SearchPhases'
  OBVIOUS
<1>0. /\ past.failed \in BOOLEAN
      /\ \A t \in Track : t \in {"name", "address"}
  BY DEF SearchTypeOK, History, Track
<1>1. CASE Who
  <2>1. /\ at'["name"] = IF query.whole THEN "ready" ELSE "shares"
        /\ at'["address"] = IF query.whole THEN "records"
                            ELSE IF query.addresses = {} THEN "ready" ELSE "shares"
        /\ at["name"] = "who" /\ at["address"] = "who"
    BY <1>1, BothParts DEF Who
  <2>2. Current' = Current /\ current' = Current /\ past'.failed = past.failed
        /\ UNCHANGED query
    BY <1>1, WalkKeeps DEF Who, Walk, SearchTypeOK, History, dataVars
  <2>3. ~ Running /\ Running'
    BY <2>1 DEF Running, Track
  <2>4. QED
    BY <1>1, <2>1, <2>2, <2>3 DEF Who, SearchPhases, dataVars, seenVars
<1>2. ASSUME NEW t \in Track, NEW from, NEW to, Go(t, from, to),
             from \notin {"who", "done"}, to \notin {"who", "done"}
      PROVE  Running /\ Running'
  BY <1>2, OnePart, BothParts DEF Running, SearchPhases
<1>3. ASSUME NEW t \in Track, ReadShares(t) PROVE SearchPhases'
  <2>1. Running /\ Running'
    BY <1>2, <1>3 DEF ReadShares
  <2>2. /\ at[t] = "shares" /\ at'[t] = IF t = "name" THEN "users" ELSE "records"
        /\ \A s \in Track : s # t => at'[s] = at[s]
    BY <1>3, OnePart DEF ReadShares
  <2>3. UNCHANGED <<query, current, Current, queue, byName, byAddress, flagged, past>>
    BY <1>3, WalkKeeps DEF ReadShares, Walk, dataVars
  <2>4. QED
    BY <1>0, <2>1, <2>2, <2>3, BothParts DEF SearchPhases, Unread
<1>4. CASE ReadUsers
  <2>1. Running /\ Running'
    BY <1>2, <1>4, BothParts DEF ReadUsers
  <2>2. /\ at["name"] = "users" /\ at'["name"] = IF queue' = {} THEN "ready" ELSE "lookups"
        /\ at'["address"] = at["address"]
    BY <1>4, OnePart, BothParts DEF ReadUsers
  <2>3. UNCHANGED <<query, current, Current, byName, byAddress, flagged, past>>
    BY <1>4, WalkKeeps DEF ReadUsers, Walk, dataVars
  <2>4. QED
    BY <1>0, <2>1, <2>2, <2>3 DEF SearchPhases, Unread
<1>5. CASE LookUp
  <2>1. Running /\ Running'
    BY <1>2, <1>5, BothParts DEF LookUp
  <2>2. /\ at["name"] = "lookups" /\ at'["name"] = IF queue' = {} THEN "ready" ELSE "lookups"
        /\ at'["address"] = at["address"]
    <3> DEFINE u == CHOOSE v \in queue : \A w \in queue : v <= w
    <3>1. u \in queue
      BY <1>5, NextInQueue DEF LookUp
    <3>2. queue' = queue \ {u} /\ Go("name", "lookups", IF queue = {u} THEN "ready" ELSE "lookups")
      BY <1>5 DEF LookUp
    <3> HIDE DEF u
    <3>3. queue = {u} <=> queue' = {}
      BY <3>1, <3>2
    <3>4. QED
      BY <3>2, <3>3, OnePart, BothParts
  <2>3. UNCHANGED <<query, current, Current, byAddress, flagged, past>>
    BY <1>5, WalkKeeps DEF LookUp, Walk, dataVars
  <2>4. QED
    BY <1>0, <2>1, <2>2, <2>3 DEF SearchPhases, Unread
<1>6. CASE ReadRecords
  <2>1. Running /\ Running'
    BY <1>2, <1>6, BothParts DEF ReadRecords
  <2>2. /\ at["address"] = "records" /\ at'["address"] = "populate"
        /\ at'["name"] = at["name"]
    BY <1>6, OnePart, BothParts DEF ReadRecords
  <2>3. UNCHANGED <<query, current, Current, queue, byName, byAddress, flagged, past>>
    BY <1>6, WalkKeeps DEF ReadRecords, Walk, dataVars
  <2>4. QED
    BY <1>0, <2>1, <2>2, <2>3 DEF SearchPhases, Unread
<1>7. CASE Populate
  <2>1. Running /\ Running'
    BY <1>2, <1>7, BothParts DEF Populate
  <2>2. /\ at["address"] = "populate" /\ at'["name"] = at["name"]
        /\ at'["address"] = IF query.whole /\ queue' # {} THEN "flags" ELSE "ready"
    BY <1>7, OnePart, BothParts DEF Populate
  <2>3. UNCHANGED <<query, current, Current, byName, flagged, past>>
    BY <1>7, WalkKeeps DEF Populate, Walk, dataVars
  <2>4. ~ query.whole => queue' = queue
    BY <1>7 DEF Populate
  <2>5. QED
    BY <1>0, <2>1, <2>2, <2>3, <2>4 DEF SearchPhases, Unread
<1>8. ASSUME NEW u \in Person, ReadFlag(u) PROVE SearchPhases'
  <2>1. Running /\ Running'
    BY <1>2, <1>8, BothParts DEF ReadFlag
  <2>2. /\ at["address"] = "flags" /\ at'["name"] = at["name"]
        /\ at'["address"] = IF queue' = {} THEN "ready" ELSE "flags"
    BY <1>8, OnePart, BothParts DEF ReadFlag
  <2>3. UNCHANGED <<query, current, Current, byName, byAddress, past>>
    BY <1>8, WalkKeeps DEF ReadFlag, Walk, dataVars
  <2>4. QED
    BY <1>0, <2>1, <2>2, <2>3 DEF SearchPhases, Unread
<1>9. CASE Fail
  <2>1. /\ at'["address"] = "ready" /\ at'["name"] = at["name"]
        /\ at["address"] \in {"records", "populate", "flags"} /\ query.whole
    BY <1>9, BothParts DEF Fail, SearchTypeOK
  <2>2. Running /\ Running'
    BY <2>1, BothParts DEF SearchPhases, Running, Track
  <2>3. UNCHANGED <<query, current, Current, byName>>
    BY <1>9, WalkKeeps DEF Fail, Walk, dataVars
  <2>4. QED
    BY <1>9, <2>1, <2>2, <2>3 DEF SearchPhases, Fail, Unread
<1>10. CASE Answer
  <2>1. /\ at'["name"] \in {"who", "done"} /\ at'["address"] = at'["name"]
        /\ at' = [t \in Track |-> "who"] \/ at' = [t \in Track |-> "done"]
    BY <1>10, BothParts DEF Answer
  <2>2. ~ Running'
    BY <2>1 DEF Running, Track
  <2>3. UNCHANGED <<query, past, Current>>
    BY <1>10, WalkKeeps DEF Answer, Walk, dataVars
  <2>4. byName' = Unread /\ byAddress' = Unread /\ flagged' = {} /\ queue' = {}
        /\ records' = NoRecords /\ saw' = [t \in Track |-> {}]
    BY <1>10 DEF Answer
  <2>5. NoRecords' = NoRecords /\ Unread' = Unread
    BY DEF NoRecords, Unread
  <2>6. QED
    BY <2>1, <2>2, <2>3, <2>4, <2>5 DEF SearchPhases
<1>11. CASE Meanwhile \/ UNCHANGED searchVars
  <2>1. UNCHANGED <<me, query, at, readVars>>
    BY <1>11 DEF Meanwhile, searchVars, dataVars
  <2>2. past'.failed = past.failed
    BY <1>11 DEF Meanwhile, Noted, SearchTypeOK, History, searchVars
  <2>3. Current' = Current /\ NoRecords' = NoRecords /\ Unread' = Unread
    BY <2>1 DEF Current, NoRecords, Unread
  <2>4. Running' <=> Running
    BY <2>1 DEF Running
  <2>5. QED
    BY <2>1, <2>2, <2>3, <2>4 DEF SearchPhases, readVars
<1>12. QED
  BY <1>1, <1>3, <1>4, <1>5, <1>6, <1>7, <1>8, <1>9, <1>10, <1>11 DEF SearchNext, Walk
------------------------------------------------------------------------------
LEMMA InitCauses == SearchInit => SearchCauses /\ ReadOwn
<1> SUFFICES ASSUME SearchInit PROVE SearchCauses /\ ReadOwn
  OBVIOUS
<1>1. ~ Running
  BY DEF SearchInit, Running, Track
<1>2. QED
  BY <1>1 DEF SearchInit, SearchCauses, ReadOwn, Unread, NoRecords

\* What has been read of users and addresses stays so: addresses keep their users, and who
\* was active at some moment of the request remains so.
LEMMA CausesStep ==
    SearchTypeOK /\ SearchPhases /\ SearchCauses /\ [SearchNext]_searchVars => SearchCauses'
<1> SUFFICES ASSUME SearchTypeOK, SearchPhases, SearchCauses, [SearchNext]_searchVars
             PROVE  SearchCauses'
  OBVIOUS
<1>0. /\ past \in History /\ me \in Person
      /\ byName \in [Person -> Address \cup {Nil}] /\ byAddress \in [Person -> Address \cup {Nil}]
      /\ holders \in [Address -> SUBSET Person] /\ Nil \notin Address
  BY SearchConstants DEF SearchTypeOK
<1>1. CASE Who
  <2>1. ~ Running
    BY <1>1 DEF Who, Running, Track
  <2>2. past'.active = active /\ past'.ever = mentions[me] /\ past'.kept = mentions[me]
    BY <1>0, <1>1 DEF Who, History
  <2>3. byName = Unread /\ byAddress = Unread /\ queue = {} /\ records = NoRecords
    BY <2>1 DEF SearchPhases
  <2>4. UNCHANGED <<dataVars, queue, records, byName, byAddress>>
    BY <1>1 DEF Who
  <2>5. QED
    BY <2>2, <2>3, <2>4 DEF SearchCauses, Unread, NoRecords, dataVars
<1>2. ASSUME NEW t \in Track, ReadShares(t) PROVE SearchCauses'
  <2>1. Running
    BY <1>2, BothParts DEF ReadShares, Go, SearchPhases
  <2>2. UNCHANGED <<dataVars, queue, records, byName, byAddress, past>> /\ Current' = Current
    BY <1>2, WalkKeeps DEF ReadShares, Walk
  <2>3. QED
    BY <2>1, <2>2 DEF SearchCauses, dataVars
<1>3. CASE ReadUsers
  <2>1. Running /\ ~ query.whole
    BY <1>3, BothParts DEF ReadUsers, Go, SearchPhases
  <2>2. UNCHANGED <<dataVars, records, byName, byAddress, past>> /\ Current' = Current
    BY <1>3, WalkKeeps DEF ReadUsers, Walk
  <2>3. queue' = (active \cap query.names) \ {Current}
    BY <1>3, <2>1 DEF ReadUsers, SearchPhases
  <2>4. QED
    BY <2>1, <2>2, <2>3 DEF SearchCauses, dataVars
<1>4. CASE LookUp
  <2> DEFINE u == CHOOSE v \in queue : \A w \in queue : v <= w
  <2>1. Running /\ ~ query.whole
    BY <1>4, BothParts DEF LookUp, Go, SearchPhases
  <2>2. u \in queue /\ u \in Person
    BY <1>4, NextInQueue DEF LookUp, SearchTypeOK
  <2>3. queue' = queue \ {u} /\ byName' = [byName EXCEPT ![u] = Latest(u)]
    BY <1>4 DEF LookUp
  <2> HIDE DEF u
  <2>4. UNCHANGED <<dataVars, records, byAddress, past>> /\ Current' = Current
    BY <1>4, WalkKeeps DEF LookUp, Walk
  <2>5. Latest(u) # Nil => u \in holders[Latest(u)]
    BY LatestIsHis
  <2>6. \A v \in Person : byName'[v] = IF v = u THEN Latest(u) ELSE byName[v]
    BY <1>0, <2>3
  <2>7. QED
    BY <2>1, <2>2, <2>3, <2>4, <2>5, <2>6 DEF SearchCauses, dataVars
<1>5. CASE ReadRecords
  <2>1. Running
    BY <1>5, BothParts DEF ReadRecords, Go, SearchPhases
  <2>2. UNCHANGED <<dataVars, queue, byName, byAddress, past>> /\ Current' = Current
    BY <1>5, WalkKeeps DEF ReadRecords, Walk
  <2>3. \A a \in Address : records'.users[a] = IF a \in query.addresses THEN holders[a] ELSE {}
    BY <1>5 DEF ReadRecords
  <2>4. QED
    BY <2>1, <2>2, <2>3 DEF SearchCauses, dataVars
<1>6. CASE Populate
  <2>1. Running /\ current = Current
    BY <1>6, BothParts DEF Populate, Go, SearchPhases
  <2>2. UNCHANGED <<dataVars, records, byName, past>> /\ Current' = Current
    BY <1>6, WalkKeeps DEF Populate, Walk
  <2>3. /\ \A u \in Person : byAddress'[u] = IF u \in active \ {Current} THEN Record(u) ELSE Nil
        /\ ~ query.whole => queue' = queue
    BY <1>6, <2>1 DEF Populate
  <2>4. ASSUME NEW u \in Person, byAddress'[u] # Nil
        PROVE  /\ u \in active \ {Current} /\ byAddress'[u] \in Address
               /\ byAddress'[u] \in query.addresses /\ u \in holders[byAddress'[u]]
    <3>1. u \in active \ {Current} /\ byAddress'[u] = Record(u)
      BY <2>3, <2>4
    <3>2. Record(u) \in Address /\ u \in records.users[Record(u)]
      BY <2>4, <3>1, LatestIsHis
    <3>3. QED
      BY <3>1, <3>2 DEF SearchCauses
  <2>5. QED
    BY <2>1, <2>2, <2>3, <2>4 DEF SearchCauses, dataVars
<1>7. ASSUME NEW u \in Person, ReadFlag(u) PROVE SearchCauses'
  <2>1. Running /\ query.whole
    BY <1>7, BothParts DEF ReadFlag, Go, SearchPhases
  <2>2. UNCHANGED <<dataVars, records, byName, byAddress, past>> /\ Current' = Current
    BY <1>7, WalkKeeps DEF ReadFlag, Walk
  <2>3. QED
    BY <2>1, <2>2 DEF SearchCauses, dataVars
<1>8. CASE Fail
  <2>1. Running
    BY <1>8, BothParts DEF Fail, SearchPhases
  <2>2. UNCHANGED <<dataVars, records, byName>> /\ Current' = Current
    BY <1>8, WalkKeeps DEF Fail, Walk
  <2>3. past'.active = past.active /\ past'.ever = past.ever /\ past'.kept = past.kept
    BY <1>0, <1>8 DEF Fail, History
  <2>4. queue' = {} /\ \A u \in Person : byAddress'[u] = Nil
    BY <1>8 DEF Fail, Unread
  <2>5. QED
    BY <2>1, <2>2, <2>3, <2>4 DEF SearchCauses, dataVars
<1>9. CASE Answer
  <2>1. ~ Running'
    BY <1>9 DEF Answer, Running, Track
  <2>2. byName' = Unread /\ byAddress' = Unread /\ queue' = {} /\ records' = NoRecords
    BY <1>9 DEF Answer
  <2>3. QED
    BY <2>1, <2>2 DEF SearchCauses, Unread, NoRecords
<1>10. CASE Meanwhile
  <2>1. UNCHANGED <<me, query, at, readVars>> /\ Current' = Current /\ (Running' <=> Running)
    BY <1>10 DEF Meanwhile, Current, Running
  <2>2. /\ past'.active = past.active \cup active'
        /\ past'.ever = past.ever \cup mentions'[me]
        /\ past'.kept = past.kept \cap mentions'[me]
    BY <1>0, <1>10 DEF Meanwhile, Noted, History
  <2>3. \A a \in Address : holders[a] \subseteq holders'[a]
    BY <1>0, <1>10 DEF Meanwhile, SetActive, LinkAddress, Share
  <2>4. \A u \in Person : byName[u] \in Address \cup {Nil} /\ byAddress[u] \in Address \cup {Nil}
    BY <1>0
  <2>5. QED
    BY <2>1, <2>2, <2>3, <2>4 DEF SearchCauses, readVars
<1>11. CASE UNCHANGED searchVars
  <2>1. Current' = Current /\ (Running' <=> Running)
    BY <1>11 DEF searchVars, dataVars, Current, Running
  <2>2. QED
    BY <1>11, <2>1 DEF SearchCauses, searchVars, dataVars, readVars
<1>12. QED
  BY <1>1, <1>2, <1>3, <1>4, <1>5, <1>6, <1>7, <1>8, <1>9, <1>10, <1>11 DEF SearchNext, Walk

\* The lists read are between those mentioned all through and those mentioned at some moment.
LEMMA ReadOwnStep ==
    SearchCausesInv /\ [SearchNext]_searchVars => ReadOwn'
<1> SUFFICES ASSUME SearchTypeOK, SearchPhases, SearchCauses, ReadOwn, [SearchNext]_searchVars,
                    Running', Current' = me'
             PROVE  /\ \A t \in Track : saw'[t] \subseteq past'.ever
                    /\ ~ query'.whole /\ at'["name"] # "shares" => past'.kept \subseteq saw'["name"]
                    /\ ~ query'.whole /\ query'.addresses # {} /\ at'["address"] # "shares" =>
                          past'.kept \subseteq saw'["address"]
                    /\ \A u \in flagged' : {u, byAddress'[u]} \cap past'.ever # {}
                    /\ query'.whole => \A u \in Person :
                          byAddress'[u] # Nil /\ u \notin queue' \cup flagged' =>
                              {u, byAddress'[u]} \cap past'.kept = {}
  BY DEF SearchCausesInv, ReadOwn
<1>0. /\ past \in History /\ me \in Person
      /\ saw \in [Track -> SUBSET (Telegram \cup Address)]
      /\ byAddress \in [Person -> Address \cup {Nil}]
  BY SearchConstants DEF SearchTypeOK
<1>1. CASE Who
  <2>1. ~ Running
    BY <1>1 DEF Who, Running, Track
  <2>2. saw = [t \in Track |-> {}] /\ flagged = {} /\ byAddress = Unread
    BY <2>1 DEF SearchPhases
  <2>3. UNCHANGED <<query, saw, flagged, byAddress>>
    BY <1>1 DEF Who, dataVars
  <2>4. /\ ~ query.whole => at'["name"] = "shares"
        /\ ~ query.whole /\ query.addresses # {} => at'["address"] = "shares"
    BY <1>1 DEF Who
  <2>5. QED
    BY <2>2, <2>3, <2>4 DEF Unread
<1>2. CASE Walk /\ ~ Who
  <2>1. Running /\ current = me /\ Current = me
    <3>1. Current' = Current /\ UNCHANGED me
      BY <1>2, WalkKeeps DEF dataVars
    <3>2. Running
      BY <1>2, BothParts DEF Walk, ReadShares, ReadUsers, LookUp, ReadRecords, Populate, ReadFlag,
                             Fail, Answer, Ready, Go, SearchPhases
    <3>3. QED
      BY <3>1, <3>2 DEF SearchPhases
  <2>2. /\ UNCHANGED dataVars
        /\ past'.ever = past.ever /\ past'.kept = past.kept
    BY <1>0, <1>2, WalkKeeps DEF Walk, ReadShares, ReadUsers, LookUp, ReadRecords, Populate,
                                 ReadFlag, Fail, Answer, History
  <2>3. past.kept \subseteq mentions[me] /\ mentions[me] \subseteq past.ever
    BY <2>1 DEF SearchCauses
  <2>4. ASSUME NEW t \in Track, ReadShares(t)
        PROVE  /\ \A s \in Track : saw'[s] \subseteq past.ever
               /\ ~ query.whole /\ at'["name"] # "shares" => past.kept \subseteq saw'["name"]
               /\ ~ query.whole /\ query.addresses # {} /\ at'["address"] # "shares" =>
                     past.kept \subseteq saw'["address"]
    <3>1. \A s \in Track : saw'[s] = IF s = t THEN mentions[me] ELSE saw[s]
      BY <1>0, <2>1, <2>4 DEF ReadShares
    <3>2. \A s \in Track : s # t => at'[s] = at[s]
      BY <2>4, OnePart DEF ReadShares
    <3>3. QED
      BY <2>1, <2>3, <3>1, <3>2, BothParts DEF ReadOwn
  <2>5. CASE \E t \in Track : ReadShares(t)
    BY <2>1, <2>2, <2>4, <2>5 DEF ReadOwn, ReadShares, dataVars
  <2>6. CASE ReadUsers \/ LookUp
    <3>1. at["name"] \in {"users", "lookups"} /\ at'["address"] = at["address"]
      BY <2>6, OnePart, BothParts DEF ReadUsers, LookUp
    <3>2. UNCHANGED <<saw, flagged, byAddress>> /\ ~ query.whole
      BY <2>1, <2>6, <3>1 DEF ReadUsers, LookUp, SearchPhases
    <3>3. QED
      BY <2>1, <2>2, <3>1, <3>2 DEF ReadOwn, dataVars
  <2>7. CASE ReadRecords
    <3>1. at["address"] = "records" /\ at'["name"] = at["name"]
      BY <2>7, OnePart, BothParts DEF ReadRecords
    <3>2. UNCHANGED <<saw, flagged, byAddress, queue>>
      BY <2>7 DEF ReadRecords
    <3>3. QED
      BY <2>1, <2>2, <3>1, <3>2 DEF ReadOwn, dataVars
  <2>8. CASE Populate
    <3>1. at["address"] = "populate" /\ at'["name"] = at["name"] /\ flagged = {}
      BY <2>8, OnePart, BothParts DEF Populate, SearchPhases
    <3>2. /\ UNCHANGED <<saw, flagged>>
          /\ query.whole => queue' = {u \in Person : byAddress'[u] # Nil}
      BY <2>8 DEF Populate
    <3>3. QED
      BY <2>1, <2>2, <3>1, <3>2 DEF ReadOwn, dataVars
  <2>9. ASSUME NEW u \in Person, ReadFlag(u)
        PROVE  /\ \A v \in flagged' : {v, byAddress[v]} \cap past.ever # {}
               /\ \A v \in Person :
                     byAddress[v] # Nil /\ v \notin queue' \cup flagged' =>
                         {v, byAddress[v]} \cap past.kept = {}
               /\ query.whole /\ UNCHANGED <<saw, byAddress>>
    <3>1. at["address"] = "flags"
      BY <2>9, OnePart, BothParts DEF ReadFlag
    <3>2. query.whole
      BY <3>1 DEF SearchPhases
    <3>3. /\ queue' = queue \ {u} /\ UNCHANGED <<saw, byAddress>>
          /\ flagged' = IF {u, byAddress[u]} \cap mentions[me] = {} THEN flagged
                        ELSE flagged \cup {u}
      BY <2>1, <2>9 DEF ReadFlag
    <3>4. QED
      BY <2>1, <2>3, <3>2, <3>3 DEF ReadOwn
  <2>10. CASE \E u \in Person : ReadFlag(u)
    BY <2>1, <2>2, <2>9, <2>10 DEF ReadOwn, dataVars
  <2>11. CASE Fail
    <3>1. /\ UNCHANGED saw /\ flagged' = {} /\ query.whole
          /\ \A u \in Person : byAddress'[u] = Nil
      BY <2>11 DEF Fail, Unread
    <3>2. QED
      BY <2>1, <2>2, <3>1 DEF ReadOwn, dataVars
  <2>12. CASE Answer
    BY <2>12 DEF Answer, Running, Track
  <2>13. QED
    BY <1>2, <2>5, <2>6, <2>7, <2>8, <2>10, <2>11, <2>12 DEF Walk
<1>3. CASE Meanwhile
  <2>1. UNCHANGED <<me, query, at, readVars>> /\ Current' = Current /\ (Running' <=> Running)
    BY <1>3 DEF Meanwhile, Current, Running
  <2>2. past.ever \subseteq past'.ever /\ past'.kept \subseteq past.kept
    BY <1>0, <1>3 DEF Meanwhile, Noted, History
  <2>3. QED
    BY <2>1, <2>2 DEF ReadOwn, readVars
<1>4. CASE UNCHANGED searchVars
  <2>1. Current' = Current /\ (Running' <=> Running)
    BY <1>4 DEF searchVars, dataVars, Current, Running
  <2>2. QED
    BY <1>4, <2>1 DEF ReadOwn, searchVars, dataVars, readVars
<1>5. QED
  BY <1>1, <1>2, <1>3, <1>4 DEF SearchNext
------------------------------------------------------------------------------
\* What a request has read was there at some moment of it.
THEOREM SearchCausesInvariant == SearchSpec => []SearchCausesInv
<1>1. SearchInit => SearchCausesInv
  BY InitSearchType, InitPhases, InitCauses DEF SearchCausesInv
<1>2. SearchCausesInv /\ [SearchNext]_searchVars => SearchCausesInv'
  BY SearchTypeStep, PhasesStep, CausesStep, ReadOwnStep DEF SearchCausesInv
<1>3. QED
  BY <1>1, <1>2, PTL DEF SearchSpec

\* Every variable of a search keeps its type.
THEOREM SearchTypeCorrect == SearchSpec => []SearchTypeOK
<1>1. SearchCausesInv => SearchTypeOK
  BY DEF SearchCausesInv
<1>2. QED
  BY <1>1, SearchCausesInvariant, PTL

\* When both parts have ended, the request is under way, of the user taken to be asking.
LEMMA ReadyRuns ==
    ASSUME SearchCausesInv, Ready
    PROVE  /\ Running /\ current = Current /\ at["name"] = "ready" /\ at["address"] = "ready"
           /\ queue = {}
  BY BothParts DEF SearchCausesInv, Ready, SearchPhases

\* Nobody is found without a cause (users.service.ts:719-1074).
THEOREM FoundForACauseHolds == SearchSpec => []FoundForACause
<1>1. ASSUME SearchCausesInv, Ready, NEW u \in Found
      PROVE  /\ u # current /\ u \in past.active
             /\ \/ byName[u] # Nil /\ u \in query.names /\ u \in holders[byName[u]]
                \/ byAddress[u] \in query.addresses /\ u \in holders[byAddress[u]]
  BY <1>1, ReadyRuns DEF SearchCausesInv, SearchCauses, Found
<1>2. SearchCausesInv => FoundForACause
  BY <1>1 DEF FoundForACause
<1>3. QED
  BY <1>2, SearchCausesInvariant, PTL

\* Nobody is called previously shared, or not, without a cause (users.service.ts:666-916).
THEOREM FlaggedForACauseHolds == SearchSpec => []FlaggedForACause
<1>1. ASSUME SearchCausesInv, Ready, current = me, NEW u \in Found
      PROVE  IF PreviouslyShared(u)
             THEN u \in past.ever \/ (byName[u] = Nil /\ byAddress[u] \in past.ever)
             ELSE u \notin past.kept /\ (byName[u] = Nil => byAddress[u] \notin past.kept)
  <2>1. /\ Running /\ Current = me /\ at["name"] = "ready" /\ at["address"] = "ready"
        /\ queue = {} /\ ReadOwn /\ u \in Person
        /\ "name" \in Track /\ "address" \in Track /\ query.whole \in BOOLEAN
    BY <1>1, ReadyRuns, BothParts DEF SearchCausesInv, Found
  <2>2. CASE query.whole
    <3>1. byName[u] = Nil /\ byAddress[u] # Nil
      BY <1>1, <2>2 DEF SearchCausesInv, SearchPhases, Unread, Found
    <3>2. PreviouslyShared(u) <=> u \in flagged
      BY <2>2, <3>1 DEF PreviouslyShared
    <3>3. QED
      BY <2>1, <2>2, <3>1, <3>2 DEF ReadOwn
  <2>3. CASE ~ query.whole /\ byName[u] # Nil
    <3>1. PreviouslyShared(u) <=> u \in saw["name"]
      BY <2>3 DEF PreviouslyShared
    <3>2. saw["name"] \subseteq past.ever /\ past.kept \subseteq saw["name"]
      BY <2>1, <2>3 DEF ReadOwn
    <3>3. QED
      BY <2>3, <3>1, <3>2
  <2>4. CASE ~ query.whole /\ byName[u] = Nil
    <3>1. PreviouslyShared(u) <=> {u, byAddress[u]} \cap saw["address"] # {}
      BY <2>4 DEF PreviouslyShared
    <3>2. query.addresses # {}
      BY <1>1, <2>4, <2>1 DEF SearchCausesInv, SearchCauses, Found
    <3>3. saw["address"] \subseteq past.ever /\ past.kept \subseteq saw["address"]
      BY <2>1, <2>4, <3>2 DEF ReadOwn
    <3>4. QED
      BY <2>4, <3>1, <3>3
  <2>5. QED
    BY <2>2, <2>3, <2>4
<1>2. SearchCausesInv => FlaggedForACause
  BY <1>1 DEF FlaggedForACause
<1>3. QED
  BY <1>2, SearchCausesInvariant, PTL
------------------------------------------------------------------------------
(* Pages. *)

\* As long as what is stored stays as it is but for the users who are active, so does the
\* order of the answers.
LEMMA OrderKept ==
    ASSUME UNCHANGED <<me, query, recent, holders, mentions>>
    PROVE  /\ Current' = Current
           /\ \A u : Latest(u)' = Latest(u) /\ Addressed(u)' = Addressed(u)
           /\ \A u : SharedWith(u)' <=> SharedWith(u)
           /\ \A u, v : Before(v, u)' <=> Before(v, u)
<1>1. Current' = Current
  BY DEF Current
<1>2. \A u : Latest(u)' = Latest(u) /\ Addressed(u)' = Addressed(u)
  BY DEF Latest, Addressed
<1>3. \A u : SharedWith(u)' <=> SharedWith(u)
  BY <1>1, <1>2 DEF SharedWith
<1>4. \A u, v : Before(v, u)' <=> Before(v, u)
  BY <1>3 DEF Before
<1>5. QED
  BY <1>1, <1>2, <1>3, <1>4

\* A change that is neither torn nor moved lets nothing of this be seen but who matches, and
\* that only between two requests.
LEMMA MeanwhileStill ==
    ASSUME SearchTypeOK, Meanwhile, Still'
    PROVE  /\ Still /\ UNCHANGED <<me, query, recent, holders, mentions>>
           /\ at # [t \in Track |-> "who"] => Matches' = Matches
<1>1. past \in History
  BY DEF SearchTypeOK
<1>2. /\ past'.torn = (past.torn \/ (Matches' # Matches /\ at # [t \in Track |-> "who"]))
      /\ past'.moved = (past.moved \/ mentions' # mentions \/ holders' # holders \/ recent' # recent)
  BY <1>1 DEF Meanwhile, Noted, History
<1>3. QED
  BY <1>2 DEF Still, Meanwhile

LEMMA ReadStillStep ==
    SearchCausesInv /\ ReadStill /\ [SearchNext]_searchVars => ReadStill'
<1> SUFFICES ASSUME SearchCausesInv, ReadStill, [SearchNext]_searchVars, Running', Still'
             PROVE  ReadStill'
  BY DEF ReadStill
<1>0. /\ SearchTypeOK /\ SearchPhases /\ SearchCauses
      /\ past \in History /\ me \in Person /\ Nil \notin Address
      /\ saw \in [Track -> SUBSET (Telegram \cup Address)]
      /\ byName \in [Person -> Address \cup {Nil}] /\ byAddress \in [Person -> Address \cup {Nil}]
      /\ "name" \in Track /\ "address" \in Track /\ Named \subseteq Person
      /\ Matches \subseteq active \ {Current} /\ active \subseteq Person
  BY SearchConstants, BothParts DEF SearchCausesInv, SearchTypeOK, Named, Matches
<1>1. CASE Walk
  <2>1. /\ UNCHANGED dataVars /\ Current' = Current /\ Named' = Named /\ Matches' = Matches
        /\ \A u : Latest(u)' = Latest(u) /\ Addressed(u)' = Addressed(u)
    BY <1>1, WalkKeeps, OrderKept DEF dataVars, Named
  <2>2. past'.torn = past.torn /\ past'.moved = past.moved
    BY <1>0, <1>1 DEF Walk, Who, ReadShares, ReadUsers, LookUp, ReadRecords, Populate, ReadFlag,
                      Fail, Answer, History
  <2>3. Still
    BY <2>2 DEF Still
  <2>r. records' = records => (RecordsStill' <=> RecordsStill)
    BY <2>1 DEF RecordsStill, dataVars
  <2> DEFINE Conclusion ==
        /\ ~ query.whole /\ at'["name"] # "shares" => saw'["name"] = mentions[Current]
        /\ ~ query.whole /\ query.addresses # {} /\ at'["address"] # "shares" =>
              saw'["address"] = mentions[Current]
        /\ \A u \in Person : byName'[u] # Nil => u \in Named /\ byName'[u] = Latest(u)
        /\ at'["name"] \in {"lookups", "ready"} =>
              \A u \in Named : u \in queue' \/ byName'[u] # Nil
        /\ ~ query.whole => \A u \in queue' : Latest(u) # Nil => u \in Named
        /\ at'["address"] = "populate" => RecordsStill'
        /\ at'["address"] \in {"flags", "ready"} /\ ~ past'.failed =>
              \A u \in Person : byAddress'[u] = IF u \in Matches THEN Addressed(u) ELSE Nil
  <2>4. Conclusion => ReadStill'
    BY <2>1 DEF ReadStill, dataVars
  <2> HIDE DEF Conclusion
  <2>5. CASE Who
    <3>1. ~ Running
      BY <2>5 DEF Who, Running, Track
    <3>2. byName = Unread /\ byAddress = Unread /\ queue = {}
      BY <1>0, <3>1 DEF SearchPhases
    <3>3. UNCHANGED <<query, saw, queue, byName, byAddress>>
      BY <2>5 DEF Who, dataVars
    <3>4. /\ at'["name"] = IF query.whole THEN "ready" ELSE "shares"
          /\ at'["address"] = IF query.whole THEN "records"
                              ELSE IF query.addresses = {} THEN "ready" ELSE "shares"
      BY <2>5 DEF Who
    <3>5. query.whole => Named = {}
      BY <1>0, BothParts DEF Named
    <3>6. query.addresses = {} => \A u : Addressed(u) = Nil
      BY DEF Addressed, LatestOf
    <3>7. Conclusion
      BY <3>2, <3>3, <3>4, <3>5, <3>6 DEF Conclusion, Unread
    <3>8. QED
      BY <2>4, <3>7
  <2>6. CASE ~ Who
    <3>1. Running /\ current = Current
      <4>1. Running
        BY <1>0, <1>1, <2>6, BothParts
        DEF Walk, ReadShares, ReadUsers, LookUp, ReadRecords, Populate, ReadFlag, Fail, Answer,
            Ready, Go, SearchPhases
      <4>2. QED
        BY <1>0, <4>1 DEF SearchPhases
    <3>2. ASSUME NEW t \in Track, ReadShares(t) PROVE Conclusion
      <4>1. \A s \in Track : saw'[s] = IF s = t THEN mentions[Current] ELSE saw[s]
        BY <1>0, <3>1, <3>2 DEF ReadShares
      <4>2. /\ at[t] = "shares" /\ at'[t] = IF t = "name" THEN "users" ELSE "records"
            /\ \A s \in Track : s # t => at'[s] = at[s]
        BY <1>0, <3>2, OnePart DEF ReadShares
      <4>3. UNCHANGED <<queue, records, byName, byAddress, past>>
        BY <3>2 DEF ReadShares
      <4>4. t = "name" \/ t = "address"
        BY DEF Track
      <4>5. QED
        BY <1>0, <2>3, <2>r, <3>1, <4>1, <4>2, <4>3, <4>4 DEF Conclusion, ReadStill
    <3>3. ASSUME ReadUsers PROVE Conclusion
      <4>1. /\ at["name"] = "users" /\ at'["address"] = at["address"]
            /\ at'["name"] \in {"lookups", "ready"}
        BY <1>0, <3>3, OnePart DEF ReadUsers
      <4>2. /\ byName = Unread /\ ~ query.whole /\ queue' = (active \cap query.names) \ {Current}
            /\ UNCHANGED <<saw, records, byName, byAddress, past>>
        BY <1>0, <3>1, <3>3, <4>1 DEF ReadUsers, SearchPhases
      <4>3. \A u \in Person : Latest(u) # Nil => (u \in queue' <=> u \in Named)
        BY <1>0, <4>2 DEF Named, Matches
      <4>4. \A u \in Named : u \in queue'
        BY <1>0, <4>3 DEF Named
      <4>5. QED
        BY <1>0, <2>3, <2>r, <3>1, <4>1, <4>2, <4>3, <4>4 DEF Conclusion, ReadStill, Unread
    <3>4. ASSUME LookUp PROVE Conclusion
      <4> DEFINE u == CHOOSE v \in queue : \A w \in queue : v <= w
      <4>1. u \in queue /\ u \in Person
        BY <1>0, <3>4, NextInQueue DEF LookUp, SearchTypeOK
      <4>2. /\ queue' = queue \ {u} /\ byName' = [byName EXCEPT ![u] = Latest(u)]
            /\ UNCHANGED <<saw, records, byAddress, past>>
            /\ Go("name", "lookups", IF queue = {u} THEN "ready" ELSE "lookups")
        BY <3>4 DEF LookUp
      <4> HIDE DEF u
      <4>3. at["name"] = "lookups" /\ at'["address"] = at["address"]
        BY <1>0, <4>2, OnePart
      <4>4. ~ query.whole
        BY <1>0, <3>1, <4>3 DEF SearchPhases
      <4>5. \A v \in Person : byName'[v] = IF v = u THEN Latest(u) ELSE byName[v]
        BY <1>0, <4>2
      <4>6. \A v \in Named : Latest(v) # Nil /\ v \in Person
        BY <1>0 DEF Named
      <4>7. QED
        BY <1>0, <2>3, <2>r, <3>1, <4>1, <4>2, <4>3, <4>4, <4>5, <4>6 DEF Conclusion, ReadStill
    <3>5. ASSUME ReadRecords PROVE Conclusion
      <4>1. at["address"] = "records" /\ at'["address"] = "populate" /\ at'["name"] = at["name"]
        BY <1>0, <3>5, OnePart DEF ReadRecords
      <4>2. UNCHANGED <<saw, queue, byName, byAddress, past>>
        BY <3>5 DEF ReadRecords
      <4>3. RecordsStill'
        BY <2>1, <3>5 DEF RecordsStill, ReadRecords, dataVars
      <4>4. QED
        BY <1>0, <2>3, <3>1, <4>1, <4>2, <4>3 DEF Conclusion, ReadStill
    <3>6. ASSUME Populate PROVE Conclusion
      <4>1. /\ at["address"] = "populate" /\ at'["address"] \in {"flags", "ready"}
            /\ at'["name"] = at["name"]
        BY <1>0, <3>6, OnePart DEF Populate
      <4>2. /\ UNCHANGED <<saw, byName, past>>
            /\ \A u \in Person : byAddress'[u] = IF u \in active \ {Current} THEN Record(u) ELSE Nil
            /\ ~ query.whole => queue' = queue
        BY <3>1, <3>6 DEF Populate
      <4>3. ASSUME NEW u \in Person PROVE Record(u) = Addressed(u)
        <5>1. {a \in Address : u \in records.users[a]} = {a \in query.addresses : u \in holders[a]}
          BY <1>0, <2>3, <3>1, <4>1, BothParts DEF ReadStill, RecordsStill
        <5>2. records.recent = recent
          BY <2>3, <3>1, <4>1 DEF ReadStill, RecordsStill
        <5>3. QED
          BY <5>1, <5>2 DEF Record, Addressed
      <4>4. ASSUME NEW u \in Person
            PROVE  byAddress'[u] = IF u \in Matches THEN Addressed(u) ELSE Nil
        <5>1. CASE u \in active \ {Current} /\ u \notin Matches
          <6>1. {a \in query.addresses : u \in holders[a]} = {}
            BY <5>1 DEF Matches
          <6>2. Addressed(u) = Nil
            BY <6>1 DEF Addressed, LatestOf
          <6>3. QED
            BY <4>2, <4>3, <5>1, <6>2
        <5>2. CASE ~ (u \in active \ {Current} /\ u \notin Matches)
          BY <1>0, <4>2, <4>3, <5>2
        <5>3. QED
          BY <5>1, <5>2
      <4>5. query.whole => Named = {} /\ byName = Unread
        BY <1>0, BothParts DEF Named, SearchPhases
      <4>6. QED
        BY <1>0, <2>3, <3>1, <4>1, <4>2, <4>4, <4>5 DEF Conclusion, ReadStill
    <3>7. ASSUME NEW u \in Person, ReadFlag(u) PROVE Conclusion
      <4>1. /\ at["address"] = "flags" /\ at'["address"] \in {"flags", "ready"}
            /\ at'["name"] = at["name"]
        BY <1>0, <3>7, OnePart DEF ReadFlag
      <4>2. query.whole /\ UNCHANGED <<saw, byName, byAddress, past>>
        BY <1>0, <3>7, <4>1 DEF ReadFlag, SearchPhases
      <4>3. Named = {}
        BY <1>0, <4>2, BothParts DEF Named
      <4>4. QED
        BY <1>0, <2>3, <3>1, <4>1, <4>2, <4>3 DEF Conclusion, ReadStill
    <3>8. ASSUME Fail PROVE Conclusion
      <4>1. /\ query.whole /\ UNCHANGED byName /\ past'.failed = TRUE
            /\ at'["address"] = "ready"
        BY <1>0, <3>8 DEF Fail, History, SearchTypeOK
      <4>2. Named = {}
        BY <1>0, <4>1, BothParts DEF Named
      <4>3. QED
        BY <1>0, <2>3, <3>1, <4>1, <4>2 DEF Conclusion, ReadStill
    <3>9. CASE Answer
      BY <3>9 DEF Answer, Running, Track
    <3>10. QED
      BY <1>1, <2>4, <2>6, <3>2, <3>3, <3>4, <3>5, <3>6, <3>7, <3>8, <3>9 DEF Walk
  <2>7. QED
    BY <2>5, <2>6
<1>2. CASE Meanwhile
  <2>1. UNCHANGED <<me, query, at, readVars>> /\ (Running' <=> Running)
    BY <1>2 DEF Meanwhile, Running
  <2>2. Still /\ UNCHANGED <<recent, holders, mentions>>
    BY <1>0, <1>2, MeanwhileStill
  <2>3. Matches' = Matches
    <3>1. at # [t \in Track |-> "who"]
      BY <2>1 DEF Running, Track
    <3>2. QED
      BY <1>0, <1>2, <3>1, MeanwhileStill
  <2>4. /\ Current' = Current /\ \A u : Latest(u)' = Latest(u) /\ Addressed(u)' = Addressed(u)
    BY <2>1, <2>2, OrderKept
  <2>5. Named' = Named
    BY <2>1, <2>3, <2>4 DEF Named
  <2>6. past'.failed = past.failed
    BY <1>0, <1>2 DEF Meanwhile, Noted, History
  <2>7. QED
    BY <2>1, <2>2, <2>3, <2>4, <2>5, <2>6 DEF ReadStill, RecordsStill, readVars
<1>3. CASE UNCHANGED searchVars
  <2>1. UNCHANGED <<me, query, recent, holders, mentions, active, at, readVars, past>>
    BY <1>3 DEF searchVars, dataVars
  <2>2. /\ Current' = Current /\ \A u : Latest(u)' = Latest(u) /\ Addressed(u)' = Addressed(u)
    BY <2>1, OrderKept
  <2>3. Matches' = Matches
    BY <2>1, <2>2 DEF Matches
  <2>4. Named' = Named
    BY <2>1, <2>2, <2>3 DEF Named
  <2>5. (Running' <=> Running) /\ (Still' <=> Still)
    BY <2>1 DEF Running, Still
  <2>6. QED
    BY <2>1, <2>2, <2>3, <2>4, <2>5 DEF ReadStill, RecordsStill, readVars
<1>4. QED
  BY <1>1, <1>2, <1>3 DEF SearchNext
------------------------------------------------------------------------------
\* A number of users ahead of one; fewer than all who match are ahead of one who does.
LEMMA StandingIsOne ==
    ASSUME SearchTypeOK, NEW u
    PROVE  /\ Standing(u) \in Nat /\ Cardinality(Matches) \in Nat
           /\ u \in Matches => Standing(u) < Cardinality(Matches)
<1>1. Matches \in SUBSET Person /\ {v \in Matches : Before(v, u)} \in SUBSET Person
  BY MatchesAreUsers
<1>2. Standing(u) \in Nat /\ Cardinality(Matches) \in Nat /\ IsFiniteSet(Matches)
  BY <1>1, PersonsFinite DEF Standing
<1>3. ASSUME u \in Matches PROVE Standing(u) < Cardinality(Matches)
  <2>1. ~ Before(u, u)
    BY <1>1, <1>3, SearchConstants DEF Before
  <2>2. {v \in Matches : Before(v, u)} \in SUBSET (Matches \ {u})
    BY <2>1
  <2>3. IsFiniteSet(Matches \ {u}) /\ Cardinality(Matches \ {u}) = Cardinality(Matches) - 1
    BY <1>2, <1>3, FS_RemoveElement
  <2>4. Standing(u) <= Cardinality(Matches \ {u})
    BY <2>2, <2>3, FS_Subset DEF Standing
  <2>5. QED
    BY <1>2, <2>3, <2>4
<1>4. QED
  BY <1>2, <1>3

\* If nothing was changed meanwhile, exactly those who match are found, in their order.
LEMMA ReadyFinds ==
    ASSUME SearchCausesInv, ReadStill, Ready, Still, ~ past.failed
    PROVE  /\ Found = Matches
           /\ ~ query.whole => \A u, v \in Matches : Ahead(v, u) <=> Before(v, u)
<1>0. /\ Running /\ at["name"] = "ready" /\ at["address"] = "ready" /\ queue = {}
      /\ SearchTypeOK /\ Nil \notin Address /\ query.addresses \subseteq Address
      /\ Matches \subseteq Person
  BY ReadyRuns, SearchConstants, BothParts, MatchesAreUsers DEF SearchCausesInv
<1>1. /\ \A u \in Person : byName[u] # Nil => u \in Named /\ byName[u] = Latest(u)
      /\ \A u \in Named : byName[u] # Nil
      /\ \A u \in Person : byAddress[u] = IF u \in Matches THEN Addressed(u) ELSE Nil
      /\ ~ query.whole => saw["name"] = mentions[Current]
      /\ ~ query.whole /\ query.addresses # {} => saw["address"] = mentions[Current]
  BY <1>0 DEF ReadStill
<1>2. ASSUME NEW u
      PROVE  /\ Addressed(u) # Nil => query.addresses # {}
             /\ (\E a \in query.addresses : u \in holders[a]) => Addressed(u) # Nil
  <2>1. {a \in query.addresses : u \in holders[a]} \in SUBSET Address
    BY <1>0
  <2>2. recent \in [Address -> Place]
    BY <1>0 DEF SearchTypeOK, Places
  <2>3. QED
    BY <1>0, <2>1, <2>2, LatestIsOne DEF Addressed, LatestOf
<1>3. Found = Matches
  <2>1. ASSUME NEW u \in Found PROVE u \in Matches
    BY <1>1 DEF Found, Named
  <2>2. ASSUME NEW u \in Matches PROVE u \in Found
    <3>1. CASE u \in query.names /\ Latest(u) # Nil
      BY <1>0, <1>1, <3>1 DEF Found, Named
    <3>2. CASE \E a \in query.addresses : u \in holders[a]
      BY <1>0, <1>1, <1>2, <3>2 DEF Found
    <3>3. QED
      BY <3>1, <3>2 DEF Matches
  <2>3. QED
    BY <2>1, <2>2
<1>4. ASSUME ~ query.whole, NEW u \in Matches PROVE PreviouslyShared(u) = SharedWith(u)
  <2>1. CASE byName[u] # Nil
    <3>1. PreviouslyShared(u) = (u \in saw["name"])
      BY <1>4, <2>1 DEF PreviouslyShared
    <3>2. u \in query.names /\ Latest(u) # Nil
      BY <1>0, <1>1, <2>1 DEF Named
    <3>3. QED
      BY <1>1, <1>4, <3>1, <3>2 DEF SharedWith
  <2>2. CASE byName[u] = Nil
    <3>1. PreviouslyShared(u) = ({u, byAddress[u]} \cap saw["address"] # {})
      BY <1>4, <2>2 DEF PreviouslyShared
    <3>2. ~ (u \in query.names /\ Latest(u) # Nil)
      BY <1>1, <2>2 DEF Named
    <3>3. byAddress[u] = Addressed(u) /\ byAddress[u] # Nil
      BY <1>0, <1>1, <1>3, <2>2 DEF Found
    <3>4. saw["address"] = mentions[Current]
      BY <1>1, <1>2, <1>4, <3>3
    <3>5. QED
      BY <3>1, <3>2, <3>3, <3>4 DEF SharedWith
  <2>3. QED
    BY <2>1, <2>2
<1>5. ASSUME ~ query.whole, NEW u \in Matches, NEW v \in Matches
      PROVE  Ahead(v, u) <=> Before(v, u)
  BY <1>4, <1>5 DEF Ahead, Before
<1>6. QED
  BY <1>3, <1>5

\* So those on a page are those with the page's numbers of users ahead of them.
LEMMA PageFound ==
    ASSUME SearchCausesInv, ReadStill, Ready, Still, ~ query.whole, NEW u \in Matches
    PROVE  u \in OnPage(page) <=> (page - 1) * Limit <= Standing(u) /\ Standing(u) < page * Limit
<1>1. ~ past.failed /\ SearchTypeOK
  BY DEF SearchCausesInv, SearchPhases
<1>2. Found = Matches /\ {v \in Found : Ahead(v, u)} = {v \in Matches : Before(v, u)}
  BY <1>1, ReadyFinds
<1>3. u \in OnPage(page) <=> Standing(u) \div Limit = page - 1
  BY <1>2 DEF OnPage, Standing
<1>4. Standing(u) \in Nat /\ page \in Nat \ {0}
  BY <1>1, StandingIsOne DEF SearchTypeOK
<1>5. QED
  BY <1>3, <1>4, PageWindow

\* What a page needs of the walk so far.
SearchPagesInv ==
    /\ SearchCausesInv /\ ReadStill /\ MissedBySearch /\ RepeatedBySearch
    /\ past.steady \subseteq Matches
    /\ query.whole /\ at # [t \in Track |-> "done"] => seen = {}

LEMMA InitSearchPages == SearchInit => SearchPagesInv
<1> SUFFICES ASSUME SearchInit PROVE SearchPagesInv
  OBVIOUS
<1>1. SearchCausesInv
  BY InitSearchType, InitPhases, InitCauses DEF SearchCausesInv
<1>2. ~ Running /\ at # [t \in Track |-> "done"]
  BY DEF SearchInit, Running, Track
<1>3. seen = {} /\ again = {} /\ page = 1 /\ past.steady = Matches
  BY DEF SearchInit, Fresh
<1>4. \A u : (page - 1) * Limit <= Standing(u)
  <2>1. (page - 1) * Limit = 0
    BY <1>3, SearchConstants
  <2>2. QED
    BY <1>1, <2>1, StandingIsOne DEF SearchCausesInv
<1>5. QED
  BY <1>1, <1>2, <1>3, <1>4 DEF SearchPagesInv, ReadStill, MissedBySearch, RepeatedBySearch

\* A step of a request that answers nothing leaves the walk as it is.
LEMMA ReadKeepsPages ==
    ASSUME SearchPagesInv, (Walk /\ ~ Answer) \/ UNCHANGED searchVars
    PROVE  /\ MissedBySearch' /\ RepeatedBySearch' /\ past'.steady \subseteq Matches'
           /\ query'.whole /\ at' # [t \in Track |-> "done"] => seen' = {}
<1>0. SearchTypeOK /\ past \in History
  BY DEF SearchPagesInv, SearchCausesInv, SearchTypeOK
<1>1. UNCHANGED dataVars /\ Matches' = Matches /\ UNCHANGED seenVars
  BY WalkKeeps DEF Walk, Who, ReadShares, ReadUsers, LookUp, ReadRecords, Populate, ReadFlag,
                   Fail,
                   searchVars
<1>2. /\ past'.steady = past.steady /\ past'.left = past.left /\ past'.came = past.came
      /\ past'.torn = past.torn /\ past'.moved = past.moved /\ (past.failed => past'.failed)
  BY <1>0 DEF Walk, Who, ReadShares, ReadUsers, LookUp, ReadRecords, Populate, ReadFlag, Fail,
              searchVars, History
<1>3. at' = [t \in Track |-> "done"] <=> at = [t \in Track |-> "done"]
  <2>1. CASE UNCHANGED searchVars
    BY <2>1 DEF searchVars
  <2>2. ASSUME NEW t \in Track, NEW from, NEW to, Go(t, from, to), from # "done", to # "done"
        PROVE  /\ at # [s \in Track |-> "done"] /\ at' # [s \in Track |-> "done"]
    BY <1>0, <2>2, OnePart
  <2>3. CASE Who
    BY <2>3 DEF Who, Track
  <2>4. CASE Fail
    BY <1>0, <2>4, BothParts DEF Fail, SearchTypeOK, Track
  <2>5. CASE Walk /\ ~ Who /\ ~ Fail /\ ~ Answer
    <3>1. PICK t \in Track, from \in {"shares", "users", "lookups", "records", "populate", "flags"},
               to \in {"users", "lookups", "records", "populate", "flags", "ready"} :
             Go(t, from, to)
      BY <1>0, <2>5, BothParts DEF Walk, ReadShares, ReadUsers, LookUp, ReadRecords, Populate,
                                   ReadFlag
    <3>2. QED
      BY <2>2, <3>1
  <2>6. QED
    BY <2>1, <2>3, <2>4, <2>5
<1>4. \A u : Standing(u)' = Standing(u)
  <2>1. \A u, v : Before(v, u)' <=> Before(v, u)
    BY <1>1, OrderKept DEF dataVars
  <2>2. QED
    BY <1>1, <2>1 DEF Standing
<1>5. QED
  BY <1>1, <1>2, <1>3, <1>4
  DEF SearchPagesInv, MissedBySearch, RepeatedBySearch, Still, dataVars, seenVars

\* Users who come do not lower the number ahead of one; users who leave do not raise it.
LEMMA MeanwhilePages ==
    ASSUME SearchPagesInv, Meanwhile
    PROVE  /\ MissedBySearch' /\ RepeatedBySearch' /\ past'.steady \subseteq Matches'
           /\ query'.whole /\ at' # [t \in Track |-> "done"] => seen' = {}
<1>0. SearchTypeOK /\ past \in History
  BY DEF SearchPagesInv, SearchCausesInv, SearchTypeOK
<1>1. UNCHANGED <<me, query, at, page, seen, again>> /\ at # [t \in Track |-> "done"]
  BY DEF Meanwhile, seenVars
<1>2. /\ past'.steady = past.steady \cap Matches'
      /\ past'.left = (past.left \/ ~ (Matches \subseteq Matches'))
      /\ past'.came = (past.came \/ ~ (Matches' \subseteq Matches))
      /\ past'.failed = past.failed
  BY <1>0 DEF Meanwhile, Noted, History
<1>3. ASSUME Still'
      PROVE  /\ Still
             /\ \A u, v : Before(v, u)' <=> Before(v, u)
    BY <1>0, <1>3, MeanwhileStill, OrderKept
<1>4. Matches \in SUBSET Person /\ Matches' \in SUBSET Person
  <2>1. active' \subseteq Person
    BY <1>0 DEF Meanwhile, SetActive, LinkAddress, Share, SearchTypeOK
  <2>2. QED
    BY <1>0, <2>1, MatchesAreUsers DEF Matches
<1>5. ASSUME Still', Matches \subseteq Matches', NEW u PROVE Standing(u) <= Standing(u)'
  <2>1. {v \in Matches : Before(v, u)} \subseteq {v \in Matches' : Before(v, u)'}
    BY <1>3, <1>5
  <2>2. IsFiniteSet({v \in Matches' : Before(v, u)'})
    BY <1>4, PersonsFinite
  <2>3. QED
    BY <2>1, <2>2, FS_Subset DEF Standing
<1>6. ASSUME Still', Matches' \subseteq Matches, NEW u PROVE Standing(u)' <= Standing(u)
  <2>1. {v \in Matches' : Before(v, u)'} \subseteq {v \in Matches : Before(v, u)}
    BY <1>3, <1>6
  <2>2. IsFiniteSet({v \in Matches : Before(v, u)})
    BY <1>4, PersonsFinite
  <2>3. QED
    BY <2>1, <2>2, FS_Subset DEF Standing
<1>7. /\ (page - 1) * Limit \in Int
      /\ \A u : Standing(u) \in Nat /\ Standing(u)' \in Nat
  <2>1. (page - 1) * Limit \in Int
    BY <1>0, SearchConstants DEF SearchTypeOK
  <2>2. \A u : {v \in Matches' : Before(v, u)'} \in SUBSET Person
    BY <1>4
  <2>3. \A u : Standing(u)' \in Nat
    BY <2>2, PersonsFinite DEF Standing
  <2>4. QED
    BY <1>0, <2>1, <2>3, StandingIsOne
<1>8. MissedBySearch'
  <2> SUFFICES ASSUME ~ past'.left, Still', ~ past'.failed, ~ query.whole,
                      NEW u \in past'.steady \ seen
               PROVE  (page - 1) * Limit <= Standing(u)'
    BY <1>1 DEF MissedBySearch
  <2>1. Matches \subseteq Matches' /\ (page - 1) * Limit <= Standing(u)
    BY <1>1, <1>2, <1>3 DEF SearchPagesInv, MissedBySearch
  <2>2. QED
    BY <1>5, <1>7, <2>1
<1>9. RepeatedBySearch'
  <2> SUFFICES ASSUME ~ past'.came, Still'
               PROVE  /\ again = {}
                      /\ ~ query.whole => \A u \in seen \cap Matches' :
                            Standing(u)' < (page - 1) * Limit
    BY <1>1 DEF RepeatedBySearch
  <2>1. /\ Matches' \subseteq Matches /\ again = {}
        /\ ~ query.whole => \A u \in seen \cap Matches : Standing(u) < (page - 1) * Limit
    BY <1>1, <1>2, <1>3 DEF SearchPagesInv, RepeatedBySearch
  <2>2. ASSUME ~ query.whole, NEW u \in seen \cap Matches'
        PROVE  Standing(u)' < (page - 1) * Limit
    BY <1>6, <1>7, <2>1, <2>2
  <2>3. QED
    BY <2>1, <2>2
<1>10. QED
  BY <1>1, <1>2, <1>8, <1>9 DEF SearchPagesInv
------------------------------------------------------------------------------
\* A page answers those with its numbers of users ahead of them, and only the last of them
\* is not followed by another.
LEMMA AnswerPages ==
    ASSUME SearchPagesInv, Answer
    PROVE  /\ MissedBySearch' /\ RepeatedBySearch' /\ past'.steady \subseteq Matches'
           /\ query'.whole /\ at' # [t \in Track |-> "done"] => seen' = {}
<1>0. /\ SearchCausesInv /\ SearchTypeOK /\ ReadStill /\ Ready
      /\ page \in Nat \ {0} /\ Limit \in Nat \ {0}
      /\ at # [t \in Track |-> "done"]
  BY SearchConstants DEF SearchPagesInv, SearchCausesInv, SearchTypeOK, Answer, Ready, Track
<1>1. /\ UNCHANGED dataVars /\ UNCHANGED past /\ Matches' = Matches
      /\ \A u : Standing(u)' = Standing(u)
  <2>1. UNCHANGED dataVars /\ UNCHANGED past /\ Matches' = Matches
    BY WalkKeeps DEF Walk, Answer
  <2>2. \A u, v : Before(v, u)' <=> Before(v, u)
    BY <2>1, OrderKept DEF dataVars
  <2>3. QED
    BY <2>1, <2>2 DEF Standing
<1> DEFINE answered == IF query.whole THEN Found ELSE OnPage(page)
<1>2. /\ seen' = seen \cup answered /\ again' = again \cup (seen \cap answered)
      /\ page' = IF HasNextPage THEN page + 1 ELSE page
      /\ at' = [t \in Track |-> IF HasNextPage THEN "who" ELSE "done"]
  BY DEF Answer
<1>3. /\ HasNextPage => at' # [t \in Track |-> "done"]
      /\ ~ HasNextPage => at' = [t \in Track |-> "done"]
  BY <1>2 DEF Track
<1>4. query.whole => ~ HasNextPage /\ seen = {}
  BY <1>0 DEF HasNextPage, SearchPagesInv
<1>5. ASSUME Still, ~ query.whole, NEW u \in Matches
      PROVE  u \in answered <=> (page - 1) * Limit <= Standing(u) /\ Standing(u) < page * Limit
  BY <1>0, <1>5, PageFound
<1>6. ASSUME Still, ~ past.failed PROVE Found = Matches
  BY <1>0, <1>6, ReadyFinds
<1>7. ~ query.whole => ~ past.failed
  BY <1>0 DEF SearchCausesInv, SearchPhases
<1>8. \A u : Standing(u) \in Nat
  BY <1>0, StandingIsOne
<1>9. /\ (page - 1) * Limit \in Nat /\ page * Limit \in Nat
      /\ (page - 1) * Limit <= page * Limit
      /\ HasNextPage => (page' - 1) * Limit = page * Limit
  <2>1. page - 1 \in Nat /\ page * Limit = (page - 1) * Limit + Limit
    BY <1>0
  <2>2. (page - 1) * Limit \in Nat /\ page * Limit \in Nat
    BY <1>0, <2>1
  <2>3. HasNextPage => page' - 1 = page
    BY <1>0, <1>2
  <2>4. QED
    BY <1>0, <2>1, <2>2, <2>3
<1> HIDE DEF answered
<1>10. MissedBySearch'
  <2> SUFFICES ASSUME ~ past.left, Still, ~ past.failed
               PROVE  IF at' = [t \in Track |-> "done"] THEN past.steady \subseteq seen'
                      ELSE ~ query.whole => \A u \in past.steady \ seen' :
                               (page' - 1) * Limit <= Standing(u)
    BY <1>1 DEF MissedBySearch, Still, dataVars
  <2>1. past.steady \subseteq Matches /\ Found = Matches
    BY <1>6 DEF SearchPagesInv
  <2>2. CASE query.whole
    BY <1>2, <1>3, <1>4, <2>1, <2>2 DEF answered
  <2>3. CASE ~ query.whole
    <3>1. ASSUME NEW u \in past.steady \ seen'
          PROVE  page * Limit <= Standing(u) /\ u \in Matches
      <4>1. (page - 1) * Limit <= Standing(u) /\ u \in Matches /\ u \notin answered
        BY <1>0, <1>2, <2>1, <2>3, <3>1 DEF SearchPagesInv, MissedBySearch
      <4>2. QED
        BY <1>5, <1>8, <1>9, <2>3, <4>1
    <3>2. ASSUME NEW u \in past.steady \ seen' PROVE HasNextPage
      <4>1. Standing(u) < Cardinality(Matches) /\ Cardinality(Matches) \in Nat
        BY <1>0, <3>1, <3>2, StandingIsOne
      <4>2. page * Limit < Cardinality(Matches)
        BY <1>8, <1>9, <3>1, <3>2, <4>1
      <4>3. QED
        BY <2>1, <2>3, <4>2 DEF HasNextPage
    <3>3. QED
      BY <1>3, <1>9, <3>1, <3>2
  <2>4. QED
    BY <2>2, <2>3
<1>11. RepeatedBySearch'
  <2> SUFFICES ASSUME ~ past.came, Still
               PROVE  /\ again' = {}
                      /\ at' # [t \in Track |-> "done"] /\ ~ query.whole =>
                            \A u \in seen' \cap Matches : Standing(u) < (page' - 1) * Limit
    BY <1>1 DEF RepeatedBySearch, Still, dataVars
  <2>1. again = {}
    BY DEF SearchPagesInv, RepeatedBySearch
  <2>2. CASE query.whole
    BY <1>2, <1>4, <2>1, <2>2
  <2>3. CASE ~ query.whole
    <3>1. \A u \in seen \cap Matches : Standing(u) < (page - 1) * Limit
      BY <1>0, <2>3 DEF SearchPagesInv, RepeatedBySearch
    <3>2. answered \subseteq Matches
      BY <1>6, <1>7, <2>3 DEF answered, OnPage
    <3>3. ASSUME NEW u \in seen \cap answered PROVE FALSE
      BY <1>5, <1>8, <1>9, <2>3, <3>1, <3>2, <3>3
    <3>4. ASSUME NEW u \in seen' \cap Matches PROVE Standing(u) < page * Limit
      BY <1>2, <1>5, <1>8, <1>9, <2>3, <3>1, <3>2, <3>4
    <3>5. QED
      BY <1>2, <1>3, <1>9, <2>1, <3>3, <3>4
  <2>4. QED
    BY <2>2, <2>3
<1>12. QED
  BY <1>1, <1>3, <1>4, <1>10, <1>11 DEF SearchPagesInv, dataVars

\* What a page needs of the walk so far holds at every moment.
THEOREM SearchPagesInvariant == SearchSpec => []SearchPagesInv
<1>1. SearchPagesInv /\ [SearchNext]_searchVars => SearchPagesInv'
  <2> SUFFICES ASSUME SearchPagesInv, [SearchNext]_searchVars PROVE SearchPagesInv'
    OBVIOUS
  <2>1. SearchCausesInv' /\ ReadStill'
    BY SearchTypeStep, PhasesStep, CausesStep, ReadOwnStep, ReadStillStep
    DEF SearchPagesInv, SearchCausesInv
  <2>2. /\ MissedBySearch' /\ RepeatedBySearch' /\ past'.steady \subseteq Matches'
        /\ query'.whole /\ at' # [t \in Track |-> "done"] => seen' = {}
    <3>1. CASE Answer
      BY <3>1, AnswerPages
    <3>2. CASE Meanwhile
      BY <3>2, MeanwhilePages
    <3>3. CASE (Walk /\ ~ Answer) \/ UNCHANGED searchVars
      BY <3>3, ReadKeepsPages
    <3>4. QED
      BY <3>1, <3>2, <3>3 DEF SearchNext
  <2>3. QED
    BY <2>1, <2>2 DEF SearchPagesInv
<1>2. QED
  BY <1>1, InitSearchPages, PTL DEF SearchSpec

\* Nobody is missed or answered twice without a cause (users.service.ts:683-709).
THEOREM PagesForACauseHolds == SearchSpec => []PagesForACause
<1>1. SearchPagesInv => PagesForACause
  BY DEF SearchPagesInv, MissedBySearch, RepeatedBySearch, PagesForACause, Still
<1>2. QED
  BY <1>1, SearchPagesInvariant, PTL
==============================================================================
