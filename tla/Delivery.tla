------------------------------- MODULE Delivery -------------------------------
(***************************************************************************)
(* TelegramService.sendMessage with the notification log it writes.  A     *)
(* call looks the recipient up, then posts the message up to Retries times *)
(* with a pause in between.  Storing the SENT record is part of the same   *)
(* try block as the post, so a record that cannot be stored counts as a    *)
(* failed attempt.  Calls run concurrently; what they share is the         *)
(* recipients' accounts, which other requests change.                      *)
(***************************************************************************)
EXTENDS Naturals, FiniteSets

CONSTANTS
    User,
    SendCall,    \* calls of sendMessage
    To,          \* the account a call's Telegram id belongs to
    ToSelf,      \* the calls whose sender is the recipient
    Retries,     \* the retries argument of each call
    HasToken,    \* TELEGRAM_BOT_TOKEN is set
    DbFaults,    \* a database operation may fail
    MaxAccountChanges  \* bound: changes to the accounts

ASSUME CallAssumption ==
    /\ To \in [SendCall -> User]
    /\ ToSelf \subseteq SendCall
    /\ Retries \in [SendCall -> Nat]
ASSUME EnvironmentAssumption ==
    /\ HasToken \in BOOLEAN
    /\ DbFaults \in BOOLEAN
    /\ MaxAccountChanges \in Nat

VARIABLES
    registered,  \* the account exists and is active
    privacyMode, \* users.privacyMode
    pc,
    attempt,     \* the loop variable
    known,       \* recipientUser was found, so the log has a recipientUserId
    generic,     \* the text was replaced by the privacy text
    answered,    \* the last failed attempt carries an HTTP response
    result,      \* what the call returned
    copies,      \* messages that reached the recipient's chat
    revealed,    \* one of them showed the original text
    sent,        \* SENT records stored for the call
    failed,      \* FAILED records stored for the call
    wasOpen,     \* history: privacy mode was off, or its read failed, during the call
    accountChanges  \* history: changes to the accounts

callVars    == <<pc, attempt, known, generic, answered, result>>
chatVars    == <<copies, revealed>>
logVars     == <<sent, failed>>
accountVars == <<registered, privacyMode>>
sendVars == <<accountVars, callVars, chatVars, logVars, wasOpen, accountChanges>>

Steps   == {"idle", "post", "logSent", "backoff", "logFailed", "ended"}
Results == {"none", "true", "false", "thrown", "lost"}

SendTypeOK ==
    /\ registered \in [User -> BOOLEAN]
    /\ privacyMode \in [User -> BOOLEAN]
    /\ pc \in [SendCall -> Steps]
    /\ attempt \in [SendCall -> Nat]
    /\ known \in [SendCall -> BOOLEAN]
    /\ generic \in [SendCall -> BOOLEAN]
    /\ answered \in [SendCall -> BOOLEAN]
    /\ result \in [SendCall -> Results]
    /\ copies \in [SendCall -> Nat]
    /\ revealed \in [SendCall -> BOOLEAN]
    /\ sent \in [SendCall -> Nat]
    /\ failed \in [SendCall -> Nat]
    /\ wasOpen \in [SendCall -> BOOLEAN]
    /\ accountChanges \in 0..MaxAccountChanges

SendInit ==
    /\ registered \in [User -> BOOLEAN]
    /\ privacyMode \in [User -> BOOLEAN]
    /\ pc = [c \in SendCall |-> "idle"]
    /\ attempt = [c \in SendCall |-> 0]
    /\ known = [c \in SendCall |-> FALSE]
    /\ generic = [c \in SendCall |-> FALSE]
    /\ answered = [c \in SendCall |-> FALSE]
    /\ result = [c \in SendCall |-> "none"]
    /\ copies = [c \in SendCall |-> 0]
    /\ revealed = [c \in SendCall |-> FALSE]
    /\ sent = [c \in SendCall |-> 0]
    /\ failed = [c \in SendCall |-> 0]
    /\ wasOpen = [c \in SendCall |-> FALSE]
    /\ accountChanges = 0

------------------------------------------------------------------------------
Continue(c, step) == pc' = [pc EXCEPT ![c] = step] /\ UNCHANGED result

Return(c, r) ==
    /\ pc' = [pc EXCEPT ![c] = "ended"]
    /\ result' = [result EXCEPT ![c] = r]

\* The recipient is looked up once; when the read fails the original text goes out.
Begin(c) ==
    /\ pc[c] = "idle"
    /\ IF ~HasToken
       THEN Return(c, "false") /\ UNCHANGED <<attempt, known, generic, wasOpen>>
       ELSE \E readFails \in (IF DbFaults THEN BOOLEAN ELSE {FALSE}) :
              LET found == ~readFails /\ registered[To[c]]
              IN  /\ known' = [known EXCEPT ![c] = found]
                  /\ generic' = [generic EXCEPT ![c] = found /\ privacyMode[To[c]]]
                  /\ wasOpen' = [wasOpen EXCEPT ![c] = ~(found /\ privacyMode[To[c]])]
                  /\ attempt' = [attempt EXCEPT ![c] = IF Retries[c] = 0 THEN 0 ELSE 1]
                  /\ IF found /\ c \in ToSelf THEN Return(c, "true")
                     ELSE IF Retries[c] = 0 THEN Return(c, "false")
                     ELSE Continue(c, "post")
    /\ UNCHANGED <<accountVars, answered, chatVars, logVars, accountChanges>>

\* Variant: one attempt too many.
AfterFailureInclusive(c) == IF attempt[c] <= Retries[c] THEN "backoff" ELSE "logFailed"

AfterFailure(c) == IF attempt[c] < Retries[c] THEN "backoff" ELSE "logFailed"

\* Variant: only the first attempt uses the privacy text.
MessageArrivesOriginalOnRetry(c, arrives) ==
    /\ copies' = [copies EXCEPT ![c] = IF arrives THEN @ + 1 ELSE @]
    /\ revealed' = [revealed EXCEPT ![c] =
                      @ \/ (arrives /\ (~generic[c] \/ attempt[c] > 1))]

MessageArrives(c, arrives) ==
    /\ copies' = [copies EXCEPT ![c] = IF arrives THEN @ + 1 ELSE @]
    /\ revealed' = [revealed EXCEPT ![c] = @ \/ (arrives /\ ~generic[c])]

\* Variant: a post that times out is taken for delivered.
PostTrustingSilence(c) ==
    /\ pc[c] = "post"
    /\ \/ \E arrives \in BOOLEAN : MessageArrives(c, arrives) /\ Continue(c, "logSent")
                                   /\ UNCHANGED answered
       \/ /\ MessageArrives(c, FALSE)
          /\ answered' = [answered EXCEPT ![c] = TRUE]
          /\ Continue(c, AfterFailure(c))
    /\ UNCHANGED <<accountVars, attempt, known, generic, logVars, wasOpen, accountChanges>>

\* Telegram takes the message and says so; or answers 200 without ok, which ends the
\* call unlogged; or answers with an HTTP error; or nothing is heard within ten seconds,
\* and then the message may have arrived all the same.  An HTTP error whose body is plain text
\* is logged like silence, so the last case covers it too.
PostMessage(c) ==
    /\ pc[c] = "post"
    /\ \/ MessageArrives(c, TRUE) /\ Continue(c, "logSent") /\ UNCHANGED answered
       \/ MessageArrives(c, FALSE) /\ Return(c, "false") /\ UNCHANGED answered
       \/ /\ MessageArrives(c, FALSE)
          /\ answered' = [answered EXCEPT ![c] = TRUE]
          /\ Continue(c, AfterFailure(c))
       \/ /\ \E arrives \in BOOLEAN : MessageArrives(c, arrives)
          /\ answered' = [answered EXCEPT ![c] = FALSE]
          /\ Continue(c, AfterFailure(c))
    /\ UNCHANGED <<accountVars, attempt, known, generic, logVars, wasOpen, accountChanges>>

Backoff(c) ==
    /\ pc[c] = "backoff"
    /\ attempt' = [attempt EXCEPT ![c] = @ + 1]
    /\ Continue(c, "post")
    /\ UNCHANGED <<accountVars, known, generic, answered, chatVars, logVars, wasOpen,
                   accountChanges>>

\* How saving a notification can go: recipientUserId is required, and the schema has
\* errorMessage as a string, to which the body of an HTTP error cannot be cast.
\* A save whose acknowledgement is lost is stored and still throws.
SaveOutcomes(valid) ==
    {o \in [stored : BOOLEAN, acked : BOOLEAN] :
        /\ o.acked => o.stored
        /\ o.stored => valid
        /\ ~DbFaults => o.stored = valid /\ o.acked = valid}

LogSent(c) ==
    /\ pc[c] = "logSent"
    /\ \E o \in SaveOutcomes(known[c]) :
          /\ sent' = [sent EXCEPT ![c] = IF o.stored THEN @ + 1 ELSE @]
          /\ IF o.acked
             THEN Return(c, "true") /\ UNCHANGED answered
             ELSE /\ Continue(c, AfterFailure(c))
                  /\ answered' = [answered EXCEPT ![c] = FALSE]
    /\ UNCHANGED <<accountVars, attempt, known, generic, chatVars, failed, wasOpen,
                   accountChanges>>

\* Variant: the FAILED record is tried again until it is stored.
LogFailedUntilStored(c) ==
    /\ pc[c] = "logFailed"
    /\ \E o \in SaveOutcomes(known[c] /\ ~answered[c]) :
          /\ failed' = [failed EXCEPT ![c] = IF o.stored THEN @ + 1 ELSE @]
          /\ IF o.stored THEN Return(c, "false") ELSE Continue(c, "logFailed")
    /\ UNCHANGED <<accountVars, attempt, known, generic, answered, chatVars, sent, wasOpen,
                   accountChanges>>

LogFailed(c) ==
    /\ pc[c] = "logFailed"
    /\ \E o \in SaveOutcomes(known[c] /\ ~answered[c]) :
          /\ failed' = [failed EXCEPT ![c] = IF o.stored THEN @ + 1 ELSE @]
          /\ Return(c, IF o.acked THEN "false" ELSE "thrown")
    /\ UNCHANGED <<accountVars, attempt, known, generic, answered, chatVars, sent, wasOpen,
                   accountChanges>>

\* The process running the call stops, or its request is cut off.
Stop(c) ==
    /\ pc[c] \in Steps \ {"idle", "ended"}
    /\ Return(c, "lost")
    /\ UNCHANGED <<accountVars, attempt, known, generic, answered, chatVars, logVars,
                   wasOpen, accountChanges>>

------------------------------------------------------------------------------
\* Other requests: privacy mode is switched, an account is removed or registered.
AccountChange == accountChanges < MaxAccountChanges /\ accountChanges' = accountChanges + 1

SwitchPrivacy(u) ==
    /\ AccountChange
    /\ privacyMode' = [privacyMode EXCEPT ![u] = ~@]
    /\ wasOpen' = [c \in SendCall |-> wasOpen[c] \/
                     (To[c] = u /\ privacyMode[u] /\ pc[c] \notin {"idle", "ended"})]
    /\ UNCHANGED <<registered, callVars, chatVars, logVars>>

SwitchRegistered(u) ==
    /\ AccountChange
    /\ registered' = [registered EXCEPT ![u] = ~@]
    /\ UNCHANGED <<privacyMode, callVars, chatVars, logVars, wasOpen>>

AllEnded == (\A c \in SendCall : pc[c] = "ended") /\ UNCHANGED sendVars

SendStep(c) == Begin(c) \/ PostMessage(c) \/ Backoff(c) \/ LogSent(c) \/ LogFailed(c)

SendNext ==
    \/ \E c \in SendCall : SendStep(c) \/ Stop(c)
    \/ \E u \in User : SwitchPrivacy(u) \/ SwitchRegistered(u)
    \/ AllEnded

SendSpec == SendInit /\ [][SendNext]_sendVars

\* axios gives up after ten seconds and timers fire, so a call never waits for ever.
FairSendSpec == SendSpec /\ \A c \in SendCall : WF_sendVars(SendStep(c))

------------------------------------------------------------------------------
\* Safety: whatever answers and acknowledgements are lost, a recipient gets at most one
\* copy per attempt, and at most Retries of them (telegram.service.ts:174-241).
CopiesWithinRetries ==
    \A c \in SendCall : copies[c] <= attempt[c] /\ attempt[c] <= Retries[c]

\* Safety: each SENT record stands for a copy of its own in the recipient's chat, also
\* when a record could not be stored and the message was posted again
\* (telegram.service.ts:197-206).
SentWasDelivered == \A c \in SendCall : sent[c] <= copies[c]

\* Safety: a recipient whose privacy mode was on during the whole call, and could be read,
\* is never shown the original text, on no attempt (telegram.service.ts:124-146).
PrivacyKept == \A c \in SendCall : revealed[c] => wasOpen[c]

\* The caller's view: an answer true means that the message has been delivered.
Promise == INSTANCE SendPromise WITH
    Call      <- SendCall,
    Self      <- ToSelf,
    delivered <- {c \in SendCall : copies[c] > 0},
    answer    <- result

\* Refinement: sendMessage keeps the promise of SendPromise.
KeepsPromise == Promise!Spec

\* Liveness: a call that has begun ends, whatever fails.
EveryCallEnds == \A c \in SendCall : pc[c] # "idle" ~> pc[c] = "ended"
==============================================================================
