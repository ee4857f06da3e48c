---------------------------- MODULE TelegramClient ----------------------------
(***************************************************************************)
(* A user's own Telegram account, as telegram-client/ connects to it: the  *)
(* sign-in by a code, the saved session, the logout and the cached         *)
(* contacts.  All of it lives in three maps in memory, and every request   *)
(* may be overtaken by others while it waits for Telegram.  A client is    *)
(* named after the request that connects it; the session string it may     *)
(* save after signing in, and the hash of its code, are the client itself. *)
(* Telegram may end a session by itself, and a disconnect may fail or take *)
(* its time: its errors are logged and nothing else (disconnectClient).    *)
(***************************************************************************)
EXTENDS Naturals, FiniteSets

CONSTANTS
    User, Account,                \* users of this server, accounts at Telegram
    Send, Verify, Logout, Fetch,  \* requests, by the operation they ask for
    MaxFailures,                  \* bound: connections and calls that fail
    MaxLingering,                 \* bound: clients that outlive a disconnect
    None

Request == Send \cup Verify \cup Logout \cup Fetch
Client  == Send \cup Logout \cup Fetch

ASSUME RequestAssumption ==
    /\ None \notin User \cup Account \cup Send
    /\ Send \cap (Verify \cup Logout \cup Fetch) = {}
    /\ Verify \cap (Logout \cup Fetch) = {}
    /\ Logout \cap Fetch = {}
    /\ MaxFailures \in Nat /\ MaxLingering \in Nat

VARIABLES
    authSessions,   \* the client each user is signing in with
    sessions,       \* the session each user has saved
    contactsCache,  \* whose contacts are cached for each user
    connected,      \* the clients with a connection
    signedIn,       \* the sessions Telegram accepts
    stale,          \* the sign-ins older than SESSION_TIMEOUT
    pc, who,        \* of each request
    account,        \* the account of the number a code is sent to
    using,          \* the client or session a request works with
    got,            \* the contacts a request has received
    gone,           \* history: what a logout has forgotten
    revoked,        \* history: the sessions Telegram has ended
    lingering,      \* history: the clients that outlived a disconnect
    failures

maps     == <<authSessions, sessions, contactsCache>>
telegram == <<connected, signedIn, stale>>
request  == <<pc, who, account, using, got>>
history  == <<gone, revoked, lingering>>
vars     == <<maps, telegram, request, history, failures>>

Steps == {"idle", "sending", "sent", "signing", "signed", "leaving", "closing", "dropping",
          "fetching", "caching", "done", "failed"}

TypeOK ==
    /\ authSessions \in [User -> Send \cup {None}]
    /\ sessions \in [User -> Send \cup {None}]
    /\ contactsCache \in [User -> Account \cup {None}]
    /\ connected \subseteq Client
    /\ signedIn \subseteq Send
    /\ stale \subseteq Send
    /\ pc \in [Request -> Steps]
    /\ who \in [Request -> User \cup {None}]
    /\ \A r \in Request : pc[r] # "idle" => who[r] # None
    /\ account \in [Send -> Account \cup {None}]
    /\ using \in [Request -> Send \cup {None}]
    /\ got \in [Fetch -> Account \cup {None}]
    /\ gone \in [Logout -> SUBSET Send]
    /\ revoked \subseteq Send
    /\ lingering \subseteq Client
    /\ failures \in 0..MaxFailures

Init ==
    /\ authSessions = [u \in User |-> None]
    /\ sessions = [u \in User |-> None]
    /\ contactsCache = [u \in User |-> None]
    /\ connected = {}
    /\ signedIn = {}
    /\ stale = {}
    /\ pc = [r \in Request |-> "idle"]
    /\ who = [r \in Request |-> None]
    /\ account = [s \in Send |-> None]
    /\ using = [r \in Request |-> None]
    /\ got = [f \in Fetch |-> None]
    /\ gone = [l \in Logout |-> {}]
    /\ revoked = {}
    /\ lingering = {}
    /\ failures = 0

Goto(r, from, to) == pc[r] = from /\ pc' = [pc EXCEPT ![r] = to]
Arrive(r, u, to) == Goto(r, "idle", to) /\ who' = [who EXCEPT ![r] = u]
Fails == failures < MaxFailures /\ failures' = failures + 1

\* The clients with a connection that nothing has asked to disconnect.
Open == connected \ lingering

\* A disconnect that fails leaves the client as it is, and its caller does not learn of it;
\* one that takes its time has its effect later (DisconnectLate).
Disconnect(c) ==
    \/ connected' = connected \ {c} /\ UNCHANGED lingering
    \/ /\ c \in connected
       /\ Cardinality(lingering) < MaxLingering
       /\ lingering' = lingering \cup {c}
       /\ UNCHANGED connected

DisconnectLate(c) ==
    /\ c \in lingering
    /\ connected' = connected \ {c}
    /\ UNCHANGED <<maps, signedIn, stale, request, history, failures>>

\* Telegram ends a session: its owner has closed it from another device, or it was unused.
Revoke(s) ==
    /\ s \in signedIn
    /\ signedIn' = signedIn \ {s}
    /\ revoked' = revoked \cup {s}
    /\ UNCHANGED <<maps, connected, stale, request, gone, lingering, failures>>

------------------------------------------------------------------------------
(* sendCode. *)

SendCode(s, u, a) ==
    /\ account' = [account EXCEPT ![s] = a]
    /\ \/ /\ Arrive(s, u, "sending")
          /\ connected' = connected \cup {s}
          /\ UNCHANGED failures
       \/ /\ Arrive(s, u, "failed")
          /\ Fails
          /\ UNCHANGED connected
    /\ UNCHANGED <<maps, signedIn, stale, using, got, history>>

\* A code that was sent before is superseded, and its client left as it is.
CodeSent(s) ==
    /\ Goto(s, "sending", "sent")
    /\ authSessions' = [authSessions EXCEPT ![who[s]] = s]
    /\ UNCHANGED <<sessions, contactsCache, telegram, who, account, using, got, history,
                   failures>>

CodeNotSent(s) ==
    /\ Goto(s, "sending", "failed")
    /\ Fails
    /\ UNCHANGED <<maps, telegram, who, account, using, got, history>>

Expire(s) ==
    /\ pc[s] = "sent"
    /\ stale' = stale \cup {s}
    /\ UNCHANGED <<maps, connected, signedIn, request, history, failures>>

------------------------------------------------------------------------------
(* verifyCode, with the hash of the code that h has sent. *)

VerifyCode(v, u, h) ==
    LET s == authSessions[u]
    IN  /\ pc[h] = "sent"
        /\ \/ /\ s = None \/ (s \notin stale /\ s # h)
              /\ Arrive(v, u, "failed")
              /\ UNCHANGED <<authSessions, connected, lingering, using>>
           \/ /\ s # None /\ s \in stale
              /\ Arrive(v, u, "failed")
              /\ authSessions' = [authSessions EXCEPT ![u] = None]
              /\ Disconnect(s)
              /\ UNCHANGED using
           \/ /\ s = h /\ s \notin stale
              /\ Arrive(v, u, "signing")
              /\ using' = [using EXCEPT ![v] = s]
              /\ UNCHANGED <<authSessions, connected, lingering>>
        /\ UNCHANGED <<sessions, contactsCache, signedIn, stale, account, got, gone, revoked,
                       failures>>

\* Telegram accepts a code once, and a client without a connection gets no answer.
\* Whichever sign-in is pending by now is forgotten.
SignedIn(v) ==
    LET u == who[v]
    IN  /\ Goto(v, "signing", "signed")
        /\ using[v] \in connected \ (signedIn \cup revoked)
        /\ signedIn' = signedIn \cup {using[v]}
        /\ sessions' = [sessions EXCEPT ![u] = using[v]]
        /\ authSessions' = [authSessions EXCEPT ![u] = None]
        /\ UNCHANGED <<contactsCache, connected, stale, who, account, using, got, history,
                       failures>>

\* Variant: after a failure the pending sign-in is kept for another attempt.
SignInFailsKept(v) ==
    /\ Goto(v, "signing", "failed")
    /\ signedIn' \in {signedIn, signedIn \cup {using[v]}}
    /\ Disconnect(using[v])
    /\ UNCHANGED <<maps, stale, who, account, using, got, gone, revoked, failures>>

\* Variant: only the entry is removed, its client stays connected.
SignInFailsConnected(v) ==
    /\ Goto(v, "signing", "failed")
    /\ signedIn' \in {signedIn, signedIn \cup {using[v]}}
    /\ authSessions' = [authSessions EXCEPT ![who[v]] = None]
    /\ UNCHANGED <<sessions, contactsCache, connected, stale, who, account, using, got, history,
                   failures>>

\* A wrong code, a lost connection, or a lost answer to a sign-in that has succeeded.
SignInFails(v) ==
    /\ Goto(v, "signing", "failed")
    /\ signedIn' \in {signedIn, signedIn \cup {using[v]}}
    /\ authSessions' = [authSessions EXCEPT ![who[v]] = None]
    /\ Disconnect(using[v])
    /\ UNCHANGED <<sessions, contactsCache, stale, who, account, using, got, gone, revoked,
                   failures>>

------------------------------------------------------------------------------
(* logout. *)

\* What a verification in flight is using may still come back.
Forgettable(u) ==
    {s \in Send : pc[s] = "sent" /\ who[s] = u}
        \ {using[v] : v \in {w \in Verify : pc[w] = "signing"}}

\* Variant: the entry of the pending sign-in is left behind.
ForgetSession(l, u, from) ==
    /\ Goto(l, from, "done")
    /\ sessions' = [sessions EXCEPT ![u] = None]
    /\ gone' = [gone EXCEPT ![l] = Forgettable(u)]
    /\ Disconnect(authSessions[u])

\* Removes u's session and asks to disconnect the client of a pending sign-in; its entry is
\* only removed when that has been answered.
Forget(l, u, from) ==
    /\ Goto(l, from, IF authSessions[u] = None THEN "done" ELSE "dropping")
    /\ sessions' = [sessions EXCEPT ![u] = None]
    /\ gone' = [gone EXCEPT ![l] = Forgettable(u)]
    /\ Disconnect(authSessions[u])

BeginLogout(l, u) ==
    /\ pc[l] = "idle"
    /\ who' = [who EXCEPT ![l] = u]
    /\ using' = [using EXCEPT ![l] = sessions[u]]
    /\ \/ sessions[u] = None /\ Forget(l, u, "idle") /\ UNCHANGED failures
       \/ /\ sessions[u] # None /\ Goto(l, "idle", "leaving")
          /\ connected' = connected \cup {l}
          /\ UNCHANGED <<sessions, gone, lingering, failures>>
       \/ /\ sessions[u] # None /\ Goto(l, "idle", "failed") /\ Fails
          /\ UNCHANGED <<sessions, connected, gone, lingering>>
    /\ UNCHANGED <<authSessions, contactsCache, signedIn, stale, account, got, revoked>>

\* Variant: the logout ends if Telegram does not answer, whether or not it has logged out.
LogOutOrEnd(l) ==
    /\ \/ Goto(l, "leaving", "closing") /\ UNCHANGED failures
       \/ Goto(l, "leaving", "failed") /\ Fails
    /\ signedIn' = signedIn \ {using[l]}
    /\ Disconnect(l)
    /\ UNCHANGED <<maps, stale, who, account, using, got, gone, revoked>>

\* The logout goes on if Telegram does not answer.
LogOut(l) ==
    /\ Goto(l, "leaving", "closing")
    /\ \/ signedIn' = signedIn \ {using[l]} /\ UNCHANGED failures
       \/ Fails /\ UNCHANGED signedIn
    /\ Disconnect(l)
    /\ UNCHANGED <<maps, stale, who, account, using, got, gone, revoked>>

FinishLogout(l) ==
    /\ pc[l] = "closing"
    /\ Forget(l, who[l], "closing")
    /\ UNCHANGED <<authSessions, contactsCache, signedIn, stale, who, account, using, got,
                   revoked, failures>>

Drop(l) ==
    /\ Goto(l, "dropping", "done")
    /\ authSessions' = [authSessions EXCEPT ![who[l]] = None]
    /\ UNCHANGED <<sessions, contactsCache, telegram, who, account, using, got, history,
                   failures>>

------------------------------------------------------------------------------
(* Contacts. *)

\* fetchContactsFromTelegram up to its connection.
BeginFetch(f, u) ==
    LET s == sessions[u]
    IN  /\ using' = [using EXCEPT ![f] = s]
        /\ \/ s = None /\ Arrive(f, u, "failed") /\ UNCHANGED <<connected, failures>>
           \/ s # None /\ Arrive(f, u, "failed") /\ Fails /\ UNCHANGED connected
           \/ /\ s # None /\ Arrive(f, u, "fetching")
              /\ connected' = connected \cup {f}
              /\ UNCHANGED failures
        /\ UNCHANGED <<authSessions, sessions, signedIn, stale, account, history>>

GetContacts(f, u) ==
    \/ /\ contactsCache[u] # None
       /\ Arrive(f, u, "done")
       /\ got' = [got EXCEPT ![f] = contactsCache[u]]
       /\ UNCHANGED <<maps, telegram, account, using, history, failures>>
    \/ /\ contactsCache[u] = None
       /\ BeginFetch(f, u)
       /\ UNCHANGED <<contactsCache, got>>

SyncContacts(f, u) ==
    /\ contactsCache' = [contactsCache EXCEPT ![u] = None]
    /\ BeginFetch(f, u)
    /\ UNCHANGED got

\* A session that Telegram does not accept any more, or a failed call, ends the request; the
\* session stays saved.
ReceiveContacts(f) ==
    /\ \/ /\ Goto(f, "fetching", "caching")
          /\ using[f] \in signedIn
          /\ got' = [got EXCEPT ![f] = account[using[f]]]
          /\ UNCHANGED failures
       \/ /\ Goto(f, "fetching", "failed")
          /\ \/ using[f] \notin signedIn /\ UNCHANGED failures
             \/ Fails
          /\ UNCHANGED got
    /\ Disconnect(f)
    /\ UNCHANGED <<maps, signedIn, stale, who, account, using, gone, revoked>>

CacheContacts(f) ==
    /\ Goto(f, "caching", "done")
    /\ contactsCache' = [contactsCache EXCEPT ![who[f]] = got[f]]
    /\ UNCHANGED <<authSessions, sessions, telegram, who, account, using, got, history,
                   failures>>

\* CACHE_TTL has passed; the next reader removes the entry.
CacheTimesOut(u) ==
    /\ contactsCache[u] # None
    /\ contactsCache' = [contactsCache EXCEPT ![u] = None]
    /\ UNCHANGED <<authSessions, sessions, telegram, request, history, failures>>

------------------------------------------------------------------------------
\* A verification needs the hash of a code: if every sendCode fails, none arrives.
AllAnswered ==
    /\ \A r \in Request :
          \/ pc[r] \in {"sent", "signed", "done", "failed"}
          \/ r \in Verify /\ pc[r] = "idle" /\ \A s \in Send : pc[s] = "failed"
    /\ UNCHANGED vars

Next ==
    \/ \E s \in Send, u \in User, a \in Account : SendCode(s, u, a)
    \/ \E s \in Send : CodeSent(s) \/ CodeNotSent(s) \/ Expire(s)
    \/ \E v \in Verify, u \in User, h \in Send : VerifyCode(v, u, h)
    \/ \E v \in Verify : SignedIn(v) \/ SignInFails(v)
    \/ \E l \in Logout, u \in User : BeginLogout(l, u)
    \/ \E l \in Logout : LogOut(l) \/ FinishLogout(l) \/ Drop(l)
    \/ \E f \in Fetch, u \in User : GetContacts(f, u) \/ SyncContacts(f, u)
    \/ \E f \in Fetch : ReceiveContacts(f) \/ CacheContacts(f)
    \/ \E u \in User : CacheTimesOut(u)
    \/ \E c \in Client : DisconnectLate(c)
    \/ \E s \in Send : Revoke(s)
    \/ AllAnswered

Spec == Init /\ [][Next]_vars

------------------------------------------------------------------------------
\* Safety: a pending sign-in has a connected client that nothing has disconnected, so that its
\* code can be verified, except while a logout is about to remove it
\* (services/auth.service.ts:104-108, 153-155, 221-225).
PendingClientsLive ==
    \A u \in User :
        authSessions[u] # None =>
            \/ authSessions[u] \in Open
            \/ \E l \in Logout : pc[l] = "dropping" /\ who[l] = u

\* Safety: a saved session is one Telegram accepts, except one that Telegram has ended itself,
\* which stays saved, and while the logout that has ended it is still closing its connection
\* (services/auth.service.ts:129-133, 204-218; services/contacts.service.ts:283-287).
SavedSessionsAccepted ==
    \A u \in User :
        sessions[u] # None =>
            \/ sessions[u] \in signedIn \cup revoked
            \/ \E l \in Logout : pc[l] = "closing" /\ who[l] = u

\* Safety: whatever a logout has forgotten stays forgotten: a pending sign-in from before is not
\* there once it has answered, or ever after, and neither is a session from before, unless its
\* client outlived the disconnect (services/auth.service.ts:217-225;
\* telegram-client.service.ts:140-147).
LogoutIsFinal ==
    \A l \in Logout :
        pc[l] = "done" =>
            /\ authSessions[who[l]] \notin gone[l]
            /\ sessions[who[l]] \notin gone[l] \ lingering

\* Clients of u that stay connected though no sign-in is pending or done with them, and nothing
\* has asked to disconnect them.
LeftBehind(u) ==
    {s \in Send \cap Open :
        /\ pc[s] = "sent" /\ who[s] = u
        /\ authSessions[u] # s
        /\ ~ \E v \in Verify : pc[v] = "signed" /\ using[v] = s}

\* Safety: a client whose code was sent, and which has not signed in, is only left behind by
\* codes sent one over another: of a user's codes one at least is pending, has signed in, or
\* was to be disconnected by its failed or late verification or by a logout.  The clients of a
\* logout and of contacts do not outlive their call unless their disconnect fails or is late
\* (services/auth.service.ts:65-70, 103-108, 133, 150-155, 208-225;
\* services/contacts.service.ts:237-295; telegram-client.service.ts:140-147).
ClientsLeftForACause ==
    /\ \A c \in Open \ Send : pc[c] \in {"leaving", "fetching"}
    /\ \A u \in User :
          LeftBehind(u) # {} =>
              \E s \in Send \ LeftBehind(u) : pc[s] = "sent" /\ who[s] = u

\* Safety: contacts are only ever cached for a user who has signed in to their account
\* (services/contacts.service.ts:217-229, 391-399).
ContactsAreOwn ==
    \A u \in User :
        contactsCache[u] # None =>
            \E v \in Verify :
                pc[v] = "signed" /\ who[v] = u /\ account[using[v]] = contactsCache[u]
==============================================================================
