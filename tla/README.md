# Formal models of tacosec-backend

TLA+ modules that model the core logic of this server, the TLC configurations that check them
on small instances, and proofs of their main properties for every instance, checked by TLAPS.
Paths are relative to the repository's `src/` directory unless they begin with `tla/`.

    tlc -workers 2 -config reports_safety.cfg MCReports.tla     # one run
    tlapm ReportsProofs.tla                                     # the proofs of one module

`PROJECT.json` lists the runs, the source lines every definition models, the hazards the
properties are aimed at, and, for every checked property, a plausible bug (the operators
commented "Variant" in the modules) that makes TLC find it violated.

## 1. The system

The server is a NestJS application that stores encrypted secrets, shares them with other users
by account, username or wallet address, tells recipients over Telegram, records who has viewed
what, and restricts users that are reported. Clients authenticate with Telegram init data, a
token, or a wallet signature of a challenge.

Three facts shape every model.

* **Handlers interleave at every `await`.** One Node process runs many requests, and several
  (serverless) instances may serve one database. Whatever a handler has read may be old when
  it is used.
* **MongoDB operations are atomic on single documents only.** No transaction is opened and no
  lock is kept. Unique indexes exist on `PublicAddress.publicKey` and
  `Challange.publicAddressId`, not on a user's telegramId nor on a secret's (userId, key).
  Users are deactivated, secrets are deleted for good.
* **Calls outside may fail, or succeed unheard.** Telegram's bot API is retried; errors of
  notifications, logs and claims are swallowed where they occur.

So an action of a model is one database operation (or one call outside) with the code up to the
next `await`, and what a handler has read is kept in variables of its own.

### Components

| component | state | operations | interacts with | what makes it correct | module |
|---|---|---|---|---|---|
| reports and moderation (`reports/`) | reports; `reportCount`, `sharingRestricted` of users | report a user, resolve a report, listings | reads secrets and accounts; tells the owner | enough open reports restrict however handlers overlap; a restriction is only lifted on a sufficient ground | `Reports` |
| telegram delivery (`telegram/telegram.service.ts`) | none but the call's | `sendMessage` with retries; messages to all admins, to one, to a user | bot API, account lookup, notification log | bounded copies, `true` means delivered, privacy text, every call ends | `Delivery`, `SendPromise`, `Fanout` |
| notification log (`notifications/`) | notifications | log with result, listings, clean-up | called by delivery, reports | a SENT record stands for a message that arrived; pages miss nothing without a cause | `Delivery`, `Listings` |
| secret views (`password-views.service.ts`) | `secretViews` of a secret | hand a secret out and record the view, statistics | accounts, sharing, parents | privacy mode respected, one view per returning viewer, no view lost, people counted once | `Views`, `ViewStats` |
| sharing by wallet address (`auth.service.ts`, `password-sharing.service.ts`, `user-finder.util.ts`) | `sharedWith` of secrets, `userIds` of address records | login, claim of shared entries, expansion of lists | both ends write the same lists | accounts only stand beside addresses they hold; a login claims what is addressed to it | `Claims` |
| secrets (`password-service.facade.ts`, `password-crud.service.ts`) | secrets | create or update by key, patch, hide, delete, nest | restriction, sharing, notifications | restrictions hold; children are one level deep; deletions and hides are not undone | `Secrets` (and `Claims`) |
| secrets: listings (`password-query.service.ts`, shared-with-me) | none | own, children, shared, recipients, for admins | every writer of secrets, addresses, privacy modes | what is listed throughout a walk is on a page, once; views respect privacy mode | `Listings`, `Secrets` |
| secrets: notification fan-out (`password-notification.service.ts`) | none | tell of a share or a reply, one delivery per recipient | delivery, address records | nobody is left out without a cause, every job ends | `Fanout` |
| secrets: former service (`password.service.ts`) | | provided by its module, injected by nobody | | | not modelled |
| wallet challenges (`auth.service.ts`, `public-addresses.service.ts`) | challenges, address records, accounts | create, verify, expire | login, adding an address | an address belongs to one account; only live challenges count, and a good signature of one gets in | `SignIn` |
| tokens and guards (`auth/`, `guards/`) | none stored | issue, refresh, authenticate | users | stateless | not modelled |
| public addresses (`public-addresses/`) | address records | add one, add several (deprecated), latest | login, sharing | unique address, at least its adder holds it | `SignIn`, `Claims` |
| users (`users/`) | accounts | create from Telegram, privacy mode, deactivate, search, lists | read by everybody | who is found matches, and is told from those shared with | `Search`, `Listings`, and as environment actions |
| telegram client (`telegram-client/`) | pending sign-ins, sessions, cached contacts, all in memory | send code, verify, log out, read and sync contacts | Telegram's MTProto | usable sign-ins, valid sessions, final logouts, own contacts | `TelegramClient` |
| log (`logger/`) | records | write, list, delete | | as other listings | `Listings` |
| init-data validation, encryption, application frame, scripts | none | pure functions, wiring, one-off programs | | | not modelled |

The hard behaviours are, in order of weight: two handlers rewriting what each has read (reports
against resolves, claims against claims and updates), a message delivered and not acknowledged,
accounts changing under a request (privacy mode, username, deactivation), requests overtaken
while they wait for Telegram, and a handler that stops half way.

## 2. The modules

    SendPromise  <-- implemented by --  Delivery        (INSTANCE ... WITH, property KeepsPromise)
    SendPromise  <-- used by ---------  Fanout          (INSTANCE: its calls of sendMessage)
    ViewStats    <-- EXTENDS ---------  Views
    Reports, Secrets, Claims, SignIn, TelegramClient    one component each
    Listings, Search                                    readers that page while others write
    MC*                                                 instances for TLC
    *Proofs                                             theorems, EXTENDS the component and TLAPS
    NotificationProofs                                  of Delivery and Fanout
    PagesProofs                                         of Listings
    PeopleProofs                                        of TelegramClient and Search

### Reports

`reportUser` (`report.service.ts:63-452`) and `resolveReport` (`:620-680`). A request's `pc`
names its next database operation: FindReporter, FindSecret, FindOwner, CheckDuplicate,
SaveReport, then for both kinds of request a count (CountForReport, CountForResolve), WriteCount
(`users.reportCount`), CheckPercentage, and the decision, Impose or Lift. `counted` is what the
count matched, as a set of reports, so that the properties can say what it covers. `Archive`
is the collection before the first request and may hold *legacy* reports, which carry
`reportedTelegramId`; `SameLegacyField` is what the filter of a resolve does with a field that is
missing. A legacy report may name its users by that alone (`byId` false): the counts by user id miss
it, the one by the legacy field finds it, and resolving it ends at its save, since the schema has come
to require the ids, so that the fallback at `:634-645` is not reached. The environment edits shares, deletes secrets and deactivates users (`MaxEdits`); a
handler may fail at any operation (`MaxFailures`). A username on a share is identified with its
account; `Nameless` accounts have none, and their presence may make the scan of the list throw.

Two history variables: `behind` collects, for a resolve that holds a count, the reports saved since;
`overlooked` those that were behind the count of a resolve which lifted their user's restriction.

### Delivery and SendPromise

`TelegramService.sendMessage` (`telegram.service.ts:84-241`) with the two writes to the log.
Begin looks the recipient up once, Post is one HTTP attempt, LogSent the SENT record (inside the
same `try` as the post), Backoff the pause, LogFailed the FAILED record. Post has four
outcomes: accepted, 200 without `ok`, an HTTP error, and silence, after which the message may
have arrived. A save may fail, or succeed unacknowledged; it must fail when the record lacks its
required recipient, or when `errorMessage` is the parsed body of an HTTP error. The request may be
cut off at any step (Stop).

SendPromise is what the callers use: a call ends once, and `true` means delivered, except for a
call whose recipient is its sender. Delivery implements it with
`delivered <- {c : copies[c] > 0}` and `answer <- result`. Delivery's names that Fanout has too
begin with Send (SendInit, SendNext, SendTypeOK and so on), for NotificationProofs extends both.

### Views and ViewStats

`recordSecretView` (`password-views.service.ts:34-306`): Arrive is the guard's read of the
viewer, FindSecret reads the secret with its views once, FindParent the parent, FindViewer and
FindOwner the two privacy modes, and Push appends the view. `read` is the list the decision is
taken on. A `Newcomer` has no account until he logs in through Telegram (Join,
`auth.service.ts:684-709`); until then he comes with the Telegram id and name of the init data
alone, is never private, and leaves a view without a user (`:117-125`). `open` (whose privacy mode
was off at some moment of the request), `known` (the viewer had a view at arrival) and `amid`
(whose account was made amid a request of theirs on the secret) are history. ViewStats holds `getSecretViewStats` as operators:
Deduplicated, HasViewedSecret, Category. An identifier is a pair of a kind and a value; dates,
names and counts that only format the answer are left out.

### Claims

`login` with `updateSharedSecretsForNewUser` (`auth.service.ts:243-472, 665-909`), and updates of
`sharedWith` (`password-service.facade.ts:544-690`, `password-sharing.service.ts:417-529`). A
login finds the record of its address, finds or creates its account, links it, reads all secrets
that name the address (`mine`) and rewrites each (WriteClaim). An update looks its entries up one
by one (Expand), drops whoever updates (FilterSelf) and stores the whole list (Store). With a token
that is the owner; by Telegram anybody may update any secret (MayUpdate). `quiet` is
history: no list has been changed by others since the login read them.

Left out on purpose: entries by username; creation through POST, which expands lists the same
way; the second lookup of an entry whose address is empty; the restriction check, kept as a
refusal that may or may not happen; deletion of secrets. A login begins with its signature
verified; how a challenge asked beforehand creates account and record is module SignIn's.

### SignIn

Challenges and what they lead to (`auth.service.ts:71-530`, `public-addresses.service.ts:66-430`).
A request asks for a challenge through either service, logs in with an address and a signature, or
adds an address to an account. Ask goes FindRecord, CreateUser and SaveRecord (through auth only;
UndoUser when the record exists by then) and Issue, which replaces the address's challenge in
place. Login goes Verify, Lookup and then CreateUser, SaveRecord, Relink for an address without a
record. Add goes Verify and Link. Verify reads the challenge; a bad signature leads to
ExpireChallenge, which reads it anew. TimeOut may happen to any challenge, Deactivate to any
account, Fail at any database operation whose error nothing catches. An error in the verification
of an address to add (VerifyFails) is caught and answered like a bad signature, after the challenge
has been expired (`public-addresses.service.ts:290-301`); a login's ends the request only.

`record` is the sequence `userIds` of each address, whose first entry is whom the address is found
to belong to. An address is a *text*: challenges trim it, a login verifies the trimmed one and looks
up the one it was given (`auth.service.ts:357`), so two spellings may have records of their own. Addresses
that are not Ethereum's are let in unverified, as in the code. History: `dead` (challenges
replaced, timed out or failed), `stale` (requests whose proof was dead on arrival), `spoilt` (requests to add whose verification
met an error), `spared`
(accounts whose removal failed).

Left out: the Telegram branches of login (Claims has them), the fallback lookups by init data, the
secret a record may carry.

### Secrets

The requests that change a secret (`password-service.facade.ts`, `password-crud.service.ts`), each
an actor with a `pc` and the `job` it was asked to do. POST goes FindUser,
ValidateSharingRestrictions (restricted users with recipients only), CheckParent (with a parent
only), LookUpKey, and then Insert, or VerifyPasswordExists and Overwrite. PATCH goes ReadSecret, FindUpdater, ValidateSharingRestrictions and Patch. Hiding and deleting by owner go FindUser,
CheckOwner and Hide or Delete. Deleting by id is one operation, for whoever asks. What a request
has read is kept in `free` (its user unrestricted), `saw`, `found` and `looked`.  An admin restricts,
frees and deactivates users meanwhile. A PATCH with a token is refused unless its user owns the
secret; one that comes by Telegram is not (`password-service.facade.ts:587-608`), so `job` says how
an update authenticates. It drops its own user from the list it stores, whoever the owner is. The
listing of a secret's children is in Listings.

A name and a wallet stand for the account that has them, and a secret keeps its owner's wallet.
A PATCH body has the fields `hidden`, `sharedWith` and `parent_secret_id`, each of which may be
missing; it may also carry others (key, isActive, userId), which are left out, so nothing here
speaks of secrets whose owner or key was patched. The notifications that follow a store are
another component's.

Four history variables: `adopted` (secrets given a parent after their creation), `lookedFor` (the
ids that were given out when the creator of a secret looked for its key), `freely` (pairs opened by the owner of a secret while unrestricted, or by an update of somebody else) and `late` (updates whose secret was hidden after
they read it).

### Fanout

One event, several recipients: `sendMessageToUsersBySharedWith`,
`sendChildPasswordNotificationToParentOwner` and `...ToSharedUsers`
(`password-notification.service.ts:51-421`), `sendMessageToAdmins`, `handleSendMessageToAdmin`,
`...ToSpecificAdmin` and `handleAdminToUserMessage` (`telegram.service.ts:297-814`). A job works
off *runs*: run 0 tells the owner of the secret replied to, the others an entry of the list, or an
admin, each. The entries of a share are worked off at the same time, those of a reply in turn; the
recipients of an entry always in turn. Resolve finds the accounts of an entry as they are then;
Skip, Fallback (an account without Telegram gets a record) and Post are the three ways with a
recipient; Answered takes the answer of the call. A thrown call ends its run, a lost one its job.

A call does what SendPromise allows, so what Delivery is proved to keep is all Fanout assumes of
it. `Self` is the calls whose sender is the recipient, answered `true` without a message. The
secret, its list and the holders of addresses change meanwhile.

### Listings

A reader walks a listing page by page while its documents change. Fifteen listings
(`password-query.service.ts`, `password-sharing.service.ts`, `notifications.service.ts`,
`logger.service.ts`, `users.service.ts`, `report.service.ts`) are told apart by what they ask for
(Asked), by which reads make up a request and which of them run at the same time (Reads), by the
order of their rows (Ahead), and by who may ask (MayList). Do takes the reads of `todo`, Answer
gives the page and begins the next one, if the count says there is one. Meanwhile is what others
do to what the listing reads. Whole listings (`sharedWhole`, `recipientsWhole`, `reportedUsers`)
have one page; in `reportedUsers` documents are reports and `private` the accounts not active.

Who comes by Telegram to what is shared with him is looked for by name among the active accounts
(`password-sharing.service.ts:997-1030`). `latest` says whether there is one, and its address; it
changes when the account is renamed, deactivated or comes back (SetAccount) or gets an address
(AddAddress). Whoever is not found is read without an account or address and out of privacy mode
(Reader). All shared secrets at once ask for the account once more (Account, `:143-151`) and, by
Telegram id, for the address (Latest, `:263-288`). Which of the three queries finds a secret first
depends on that (Class), so a change of account is among the moves pages of shared secrets suffer.

An update puts a whole list in the place of a key's recipients (Rewrite,
`password-service.facade.ts:617-656`): any of them leave, others come anywhere, those who stay
change places, and `place` is their order. `moved` has the documents that changed places with
another. An update of an own secret may hide it, put it under a parent or take it out, and
stores the address of its token, so it may leave the listing by address and come back (Update).

What a document says of the reader is one entry: account, name, address. Several entries per
reader, the address a token may bring along, grouping by owner and the reports beside each secret
are left out; the account found by the reader's name is taken to be his own, and readers with a
token always have theirs; a key comes into use by no other secret while its recipients are walked; no two documents have the same createdAt; the reader is not the owner of the
children's parent. Pages of shared secrets keep the order of the queries that found them, because
the sort at `password-sharing.service.ts:1201` compares `createdAt`, which was not selected.

### Search

`searchUsersByUsername` and its parts (`users.service.ts:640-1074`), page by page. Who looks the
searcher up by Telegram id. For part of a name or address, the two tracks *name* (ReadShares,
ReadUsers, LookUp one by one) and *address* (ReadShares, ReadRecords, Populate) run at the same
time; Answer merges them, a user found by name replacing one found by address, ranks those shared
with before the others and cuts the page. A whole address is looked up alone, and its users'
flags are read one by one (ReadFlag). Users, addresses and lists change meanwhile. What is typed is
the set of names and addresses it matches; users of one name keep their order. `recent` gives
each address its place by `updatedAt`, the latest first, and LinkAddress moves one to the front; of
a user's addresses LatestOf takes the one with the first place. An answer is the users found, each
with an address, and the page of one is the number of those Ahead of him. Names that PeopleProofs
would find in TelegramClient too begin with Search or differ (Person, Nil).

### TelegramClient

`sendCode`, `verifyCode`, `logout` (`telegram-client/services/auth.service.ts`) and the contacts
with their cache (`contacts.service.ts`). `authSessions`, `sessions` and `contactsCache` are the
three maps; a client is named by the request that connects it. `connected` and `signedIn` are
Telegram's side. Every request is cut at its calls to Telegram: SendCode / CodeSent, VerifyCode /
SignedIn or SignInFails, BeginLogout / LogOut / FinishLogout / Drop, GetContacts or SyncContacts
/ ReceiveContacts / CacheContacts. A failed verification may have signed in all the same. Timeouts
of a sign-in (Expire) and of a cached entry (CacheTimesOut) may happen at any time, and so may
Revoke: Telegram ends a session by itself, which stays saved here (`contacts.service.ts:283-287`
only answers that it has expired). `disconnectClient` swallows its errors
(`telegram-client.service.ts:140-147`), so whoever calls Disconnect goes on whether the client is
gone or lingers; a lingering client may lose its connection later (DisconnectLate) or keep it, and
a verification may still sign in with it. Open are the clients that nothing has asked to
disconnect. `gone`, `revoked` and `lingering` are history: what each logout has forgotten, apart
from what a verification in flight was using; what Telegram has ended; and which clients have
outlived a disconnect. LeftBehind are a user's open clients though no sign-in is pending or done
with them.

## 3. The runs

Bounds are chosen so that two requests of each racing kind meet, with one fault and one or two
changes by the rest of the system; a third request of a kind repeats the interleavings of two,
and where that argument is weak the theorem covers every number.

| run | instance | shows |
|---|---|---|
| `reports_safety` | 2 reports, 1 resolve, 4 users (one nameless), two legacy reports (one without ids) and a resolved one in the archive, limit 2, percentage 3/4, 1 failure, 1 edit | EnoughReportsRestrict, LiftIsJustified |
| `reports_liveness` | as above without nameless users and edits | EventuallyRestricted |
| `reports_foreign_count` | 2 reports against two users, 1 resolve | *violated*: ResolveCountsItsUser |
| `delivery_calls` | a call with 3 attempts and one to its own sender, all faults, 1 account change | CopiesWithinRetries, SentWasDelivered, PrivacyKept, KeepsPromise (refinement), EveryCallEnds (liveness) |
| `fanout_jobs` | a share, a reply, a message to the admins, to the configured one, to a user, one at a time; 2 positions, up to 2 recipients each, 3 accounts (one without Telegram), every outcome of a call, 1 change | SilenceHasACause, CountedWereDelivered, JobsEnd (liveness) |
| `views_safety` | 2 requests, 4 users (one with Telegram and no account yet, one nameless), a secret and its child, an old-format view, 2 changes | ViewsRespectPrivacy, NoReturningViewer, ServedIsRecorded, StatsCountPeople, ViewersAreTold |
| `claims_safety` | 2 logins, 2 updates, 2 addresses, 2 secrets, 1 database error, 1 deactivation | SharedWithHolders, TokenMeansLinked, QuietLoginsClaim |
| `signin_safety` | 4 requests of any kind, 1 older account, an address in two spellings, any errors, time-outs and deactivations | FoundAccountsAgree, StaleIsRefused, RefusedForACause, OrphansHaveACause |
| `client_safety` | 2 users, a Telegram account, 2 codes, 2 verifications, 1 logout, 2 reads of contacts, 1 failure, 1 client that outlives its disconnect, any sessions ended by Telegram | PendingClientsLive, SavedSessionsAccepted, LogoutIsFinal, ClientsLeftForACause |
| `secrets_safety` | 3 users (one with a wallet, whose requests may also come by Telegram), 1 key, 3 requests of any kind, 2 at a time, 3 secrets, 1 act of an admin | NestedOnlyByUpdates, DuplicatesRaced, SharingBeginsFreely, HiddenIsMaintained |
| `listings_pages` | each of 15 listings, up to 4 documents, 2 on a page, 3 owners (two without Telegram), 2 addresses, readers with an address, without one and not found by name, 2 changes | TypeOK, MissedForACause, RepeatedForACause, ExtraForACause, ViewsShownForACause |
| `search_pages` | 4 users (two without Telegram), 2 of whom search, one perhaps not active yet, 2 addresses, 4 things typed, 1 on a page, 2 changes | SearchTypeOK, FoundForACause, FlaggedForACause, PagesForACause |

The type invariants of Listings and Search are run, because they bound the page that is asked for;
those of the other modules are proved and not run again. Four documents make two
full pages, so that a row can move from one to the other and a third page can be asked for in
vain; two changes let one cause hide behind another. One user on a page of a search makes three
pages, and each of the causes PagesForACause names is then needed. Four requests of
`signin_safety` are one to be overtaken, one to overtake it, and the challenge of each. The
second read of contacts of `client_safety` finds what the first has cached; a second logout would
add minutes, and all four of its properties are also proved for any number of logouts.

Symmetry is used for requests (and, in `client_safety`, users, in `secrets_safety`
the users without a wallet, in `claims_safety` the secrets), never in a run with a liveness property. Deadlock is checked where a
finished system stutters through an explicit last action, so a request that gets stuck is
reported. It is not checked in `fanout_jobs`, `signin_safety`, `listings_pages` and
`search_pages`, where a job, the requests or a walk end and nothing is left to do; JobsEnd says
that jobs get there.

The bounds of `secrets_safety` are tight: with two users no list would name two recipients, and a
third secret would always meet its owner's earlier one under the single key.

### What the violated property means

**A resolve counts other users' reports** (`report.service.ts:656`). The filter
`{reportedTelegramId: report.reportedTelegramId}` was right while reports carried that field.
They no longer do, the value is undefined, and it matches every report without the field. The
inflated count is stored and may keep a restriction that should be lifted.

### What else the models have in them

No run is spent on these, but the modules contain each, and a property that forbade it would fail.

* A resolve lifts a restriction it has not judged (`report.service.ts:654` against `:674`): a
  report saved, counted and acted on between the count and the write loses its effect. The
  converse: a report that counted before the reports were resolved restricts afterwards (`:326`
  against `:346`), with nothing to lift it.
* Failures are not logged when Telegram explains them (`telegram.service.ts:236`): `errorMessage`
  is given the response body, an object, which the schema's string cannot hold; the save throws
  and `sendMessage` rejects. In `Fanout` a rejection silences the recipients after it.
* A session that Telegram has ended stays saved (`contacts.service.ts:283-287`), so the status
  still says authenticated, until a logout or the next sign-in replaces it.
* A logout whose disconnect fails (`telegram-client.service.ts:140-147`) leaves a client a
  verification can sign in with while the logout is under way; its session outlives the logout.
* A claim undoes another (`auth.service.ts:901`): the whole array is written as read.
* A parent becomes a child (`password-service.facade.ts:656`). Only the creation of a child checks
  that its parent is no child. A PATCH stores any `parent_secret_id`, and a POST on an existing
  key gives a parent to a secret that may have children. Grandchildren are listed for nobody.
* An update that comes by Telegram changes a secret of somebody else
  (`password-service.facade.ts:587-608`): it may share it with others though the owner is
  restricted, and show it though the owner has hidden it. SharingBeginsFreely and HiddenIsMaintained
  except these.
* An update without a `hidden` field that has read the secret before it was hidden shows it again
  (`password-service.facade.ts:649`): HiddenIsMaintained excepts exactly these.
* A first view is not recorded when the viewer's username was once somebody else's who has viewed
  the secret (`password-views.service.ts:193-199`): what ServedIsRecorded excepts.
* A Telegram user's views from before and after the account is made are found by the Telegram id,
  and the second is not recorded. Only when the account is made amid a request and another request
  of the same person overlaps with it are both recorded, under two keys, and the person is counted
  twice (`password-views.service.ts:117-125`, `:405-411`): what StatsCountPeople excepts.
* For up to ten minutes after a logout and a new sign-in the cache answers with the previous
  account's contacts (`contacts.service.ts:46`).
* A login with an address nobody has used makes an account and gets a token, where
  `auth/README.md:29` says 404.
* Pages of shared secrets show views whose owner is in privacy mode
  (`password-sharing.service.ts:1272`): `ownerInfo?.user` is undefined there, against the comment
  at `:1316`. All shared secrets at once show them to a reader without Telegram if the owner has
  none either (`:560`), since two missing ids are equal. A reader by Telegram who has been renamed or
  deactivated is not found by name (`:998`) and shown views though he is in privacy mode.
  ViewsShownForACause excepts these three.
* An update that puts a key's recipients in another order between two pages hides or repeats one of
  them (`password-service.facade.ts:656`): MissedForACause and RepeatedForACause except these walks.
* A wallet searcher is taken for another (`users.service.ts:666`), and whom he has shared with is
  read from the other's lists. A user found by name loses the flag the search by address has given
  him (`:691`). When somebody is deactivated or activated between the two searches of one request,
  he is found by address only and may be ranked elsewhere on that page than on the next, so that
  another user is answered twice or not at all. PagesForACause excepts these walks (`torn`).
* An admin who writes to himself as a user is written to: the sender's id is read from
  `user.userId`, which no guard sets (`telegram.controller.ts`, `handleAdminToUserMessage`), so
  the call does not see that sender and recipient are the same.

### Fairness

Safety runs assume none. `Reports!Fairness` says that a handler which has begun runs on, since
the event loop resumes every settled await; it says nothing about requests arriving, and a
failing operation is a step, not a stop. `Delivery!FairSendSpec` says the same of a call: axios gives
up after ten seconds and timers fire. Both are weak fairness on the disjunction of a request's
own steps. `Fanout!FairSpec` says it of every run, of the second read of a reply and of a job's
end; that calls are answered is Delivery's EveryCallEnds, and a call whose process is gone is the
exception named in JobsEnd. In `Reports`, a handler that fails is an exception named in
EventuallyRestricted.

## 4. The proofs

All theorems hold for any finite or infinite sets the assumptions allow, any limits and any
bounds. Each proof module has the shape *Init implies IInv; IInv and a step imply IInv'; IInv
implies the property*.

| theorem | argument |
|---|---|
| `ReportsProofs`: TypeCorrect, EnoughReportsRestrictHolds, LiftIsJustifiedHolds | EnoughReportsRestrict says nothing of handlers under way, so it is not inductive. GroundsInv adds them: for a user who is not restricted, the open reports that some handler has counted and no lift has overlooked are fewer than the limit, or a handler that counted enough is still on its way to Impose, or such a handler failed. CountInv says what a resolve's count is worth while it is held: it covers every open report against its user but those saved since (`behind`); LiftIsJustified rests on it alone, and GroundsInv needs it at a lift. Rests on finite report ids (`IdAssumption`) and an archive below the limit (`ArchiveAssumption`) |
| `NotificationProofs` on Delivery: SendTypeCorrect, CopiesWithinRetriesHolds, SentWasDeliveredHolds, PrivacyKeptHolds, KeepsPromiseHolds | SlotInv: a call about to post has received fewer copies than it has begun attempts, and a call about to store a SENT record holds a copy without one. PrivacyInv ties `generic` to the history. The refinement maps Post to Deliver (or a stutter) and every return to End |
| `ViewsProofs`: TypeCorrect, ViewsRespectPrivacyHolds, NoReturningViewerHolds, ServedIsRecordedHolds, NoViewLostHolds, StatsCountPeopleHolds, ViewersAreToldHolds | PrivacyInv: what was read as off is in the history. KnownInv: the view a request had to find was there when it read the list, because lists only grow, and IdentityInv and OwnViewsInv make that view match. ReadInv: what a request has read is still in the list, so a view it found is there when it answers. PeopleInv: the views of one person on a secret are all under one key of the deduplication, since whoever has a view without a user is recognised by its Telegram id and gets no second one, unless the account was made amid a request (AmidInv); so the deduplicated list counts persons. Rests on `OldViewsAssumption`: views stored before the first request are of somebody, and those of one person all carry the id or none does |
| `ClaimsProofs`: TypeCorrect, SharedWithHoldersHolds, TokenMeansLinkedHolds, QuietLoginsClaimHolds | address records only grow, so an account that stands beside an address in any list, stored or still held by a request, stays a holder (PairInv); a list a quiet login has still to rewrite is the list it has read (QuietInv) |
| `PeopleProofs` on TelegramClient: TypeCorrect, PendingClientsLiveHolds, SavedSessionsAcceptedHolds, LogoutIsFinalHolds, ContactsAreOwnHolds, ClientsLeftForACauseHolds | Owned: every client a map or a request holds belongs to its user, so no request touches another user's entries. Forgotten: a client a logout has forgotten is nowhere a verification could still use it unless it has outlived its disconnect, so it cannot come back. Persists: what has been sent or signed stays so. LeftInv: of the codes sent to a user one is accounted for, that is pending, signed in or told to disconnect. Whatever takes the pending one away leaves another that is: the code that replaces it, the one just verified, or the one whose client the logout tells to disconnect before it removes the entry |
| `PeopleProofs` on Search: SearchTypeCorrect, FoundForACauseHolds, FlaggedForACauseHolds, PagesForACauseHolds | SearchCausesInv: what a request has read was there at some moment of it. SearchPagesInv: while nothing changes what it reads, a request finds exactly who matches, in an order all requests of the walk share (see below) |
| `SignInProofs`: TypeCorrect, FoundAccountsAgreeHolds, StaleIsRefusedHolds, RefusedForACauseHolds, OrphansHaveACauseHolds | OnItsWay ties a request's place to what it is about. ChallengesAreOwn: an address's challenge was issued for it and lives until it is dead, so a proof that is not dead is the one Verify reads. StaleAt says where a request with a dead proof can be. HeadsLetIn: a login let in by a record was let in as its first account, which later links leave in place |
| `NotificationProofs` on Fanout: TypeCorrect, SilenceHasACauseHolds, CountedWereDeliveredHolds | SilenceHasACause speaks of runs that have ended; Causes adds the recipients a run under way has behind it. A cause once there does not go away (CauseStays): answers are final and records are kept. Begun keeps a job that starts from aiming at a run that has ended |
| `SecretsProofs`: TypeCorrect, NestedOnlyByUpdatesHolds, DuplicatesRacedHolds, SharingBeginsFreelyHolds, DeletedStaysDeletedHolds, HiddenIsMaintainedHolds | any step alters the collection in one of a few ways (Change: a secret rewritten, removed or inserted), and under any of them what the other requests carry keeps its worth (OthersKnow): a checked parent stays without one unless an update adopts it, ids below `looked` are the secrets that were looked at, recipients once validated stay in `freely`. So each request needs an argument for its own step only |

### Listings, for any number of documents

The four properties of Listings compare the answers of a walk with its history, and none is
inductive. PagesProofs adds to them, in this order:

* StageInv: what a request has still to read is the rest of its handler's reads; of a count and a
  query that run at the same time, either may be over. DoWent reduces every read to "r was
  pending, now it is not, the others are as they were".
* EverInv and ViewsInv, about one request: the rows and the pool were listed at some moment of it
  while the reader it has read is as he would be found now; whoever was not read to be in privacy
  mode was out of it, or, the reader, not found by name (`unknown`). ExtraForACause and
  ViewsShownForACause follow (CausesInvariant).
* SteadyInv: a document listed throughout the walk is among those the request under way asks for.
  For listings by address this needs that it matches both the latest address and the one read; of
  pages of shared secrets it is claimed of those no query finds otherwise than before.
* RepeatedInv and MissedInv, about ranks. The rank of a document is how many of those asked for are
  ahead of it; page p holds the ranks from (p-1) * Limit to p * Limit - 1. While none comes
  ahead of a document its rank cannot grow, so once answered it stays before the page asked for.
  While none ahead of it leaves, its rank cannot fall, so until answered it stays on the page asked
  for or after it, and, if the page was counted with or after its rows, the count promises a next
  page. Both compare cardinalities of one set before and after a change, never their values. Of
  recipients they speak while nobody has changed places (Ordered).
* FoundInv: what the three queries for a page of shared secrets have found by now. A secret whose
  entry is not rewritten, and whose class is the same for the reader as read and as he is, is
  found by the first query its entry answers (Class), so the order of the pool is
  that of (Class, createdAt), and SharedRepeatedInv and SharedMissedInv say of it what the two
  above say of a page. A secret that leaves or comes anywhere shifts the pages, hence their wider
  excuse.
* FoundAtOnceInv: all shared secrets at once ask for the account and the address anew between the
  reads, so a secret may be found by another query than its class says; one that is shared all
  along names the reader as read and is found by some query.
* WholeInv: what is read at once has no second page. For reported users, a report listed throughout
  is among those read, or its user is among those still to be read.

Every request reads the reader's address anew (`password-query.service.ts`,
`notifications.service.ts`). When it changes between two requests, the next page is cut from other
documents than the last, though none was written; SteadyInv and the rank argument need Readdressed,
which records them as having left and come, and MissedForACause is false without it.

### Searches, for any users, addresses and changes

The properties of Search speak of answers that are ready and of walks that are over. PeopleProofs
reaches them through two invariants.

* SearchCausesInv. SearchPhases says where the two parts of a request may be, together, and that
  nothing has been read before it is. SearchCauses: whoever waits for his address to be looked up,
  or has one, was active at some moment of the request, matches, and holds that address still,
  since holders only grow. ReadOwn: a list read by either part lies between what was mentioned all
  through the request (`kept`) and what was mentioned at some moment of it (`ever`).
  FoundForACause and FlaggedForACause follow.
* SearchPagesInv. ReadStill: as long as nothing that a request reads has changed (Still), either
  part has found exactly those who match by it, with the address stored for them. So a request
  that is ready has found Matches, and PreviouslyShared is SharedWith, which depends on what is
  stored and no longer on the request. Standing counts those ahead of a user in this order. It
  cannot grow while none comes and cannot fall while none leaves, so whoever has been answered
  stands before the page asked for (RepeatedBySearch), and whoever has not, on it or after it
  (MissedBySearch). The walk ends when no next page is promised, that is when the page's last
  place is beyond the last user's.

They rest on finite users and addresses (`PersonAssumption`) and on a whole address matching no
name (`SearchAssumption`): `users.service.ts:675-680` sends it to the addresses alone. The order of
the pages is counted, not sorted, so no induction over rows is needed.

### What stays with TLC

EventuallyRestricted, EveryCallEnds and JobsEnd are liveness under fairness, which is out of the
prover's reach; every other property of a passing run is stated by a theorem.
NoViewLost, DeletedStaysDeleted and ContactsAreOwn are proved and not run.

## 5. Not modelled, and why

* `password.service.ts`, 5636 lines: superseded by the facade and the services under
  `passwords/services`; its module provides it and nothing injects it.
* Reads that ask once and keep nothing: single documents by id, statistics of notifications, the
  addresses of a user, whether a user is restricted.
* The guard's token handling (stateless), init-data validation (a keyed hash), encryption (no
  property tells contents apart), wording and formatting, configuration, wiring, scripts.
* Adding several addresses at once, which the code marks as deprecated; `updateUserInfo`;
  `createAndUpdateUser` beyond the change of username it may be (its notice asks `sendMessage` for
  no attempts, so it is never sent).
* Searches of Telegram contacts, and restarts of the telegram client, which start it with empty
  maps. How many clients it leaves connected: nothing in the code bounds them. ClientsLeftForACause
  says which ones it may leave. Whether Telegram still answers through a client whose disconnect
  has failed is the client library's; Disconnect lets it.

## 6. What could follow

1. Claims and SignIn over one set of address records: the logins of accounts a challenge has made,
   which claim nothing.
2. The remaining fields of a PATCH body, and an abstract specification of the secrets (a map from
   keys to secrets with atomic operations) to see which operations implement it.
3. Several entries for one reader in a list, and creation through POST in Claims.
