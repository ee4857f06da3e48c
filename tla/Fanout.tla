-------------------------------- MODULE Fanout --------------------------------
(***************************************************************************)
(* One event, several recipients: PasswordNotificationService tells of a   *)
(* shared secret or of a reply, TelegramService writes to the admins or to *)
(* one account.  A job works off runs: run 0 tells the owner of the secret *)
(* replied to, the others an entry of sharedWith or an admin each.  The    *)
(* recipients of a run are told one after the other.  How a message is     *)
(* sent is module Delivery's: here it does what SendPromise promises.      *)
(***************************************************************************)
EXTENDS Naturals, Sequences, FiniteSets

CONSTANTS
    Job, Account,
    Kind,        \* what each job is
    Sender,      \* the account it is caused by
    Told,        \* the admins of each position, or the one account, an operator writes to
    SecretOwner,
    Same,        \* pairs of accounts with a common id, user name or Telegram id
    Telegram,    \* the accounts with a Telegram id
    Entry,       \* positions in a list, from 1
    MaxHolders,  \* bound: accounts an entry resolves to
    Found,       \* bound: what an entry can resolve to, in a model
    MaxJobs,     \* bound: jobs that are started
    MaxChanges,  \* bound: changes to the secret and to the holders of addresses
    None

Kinds == {"share", "reply", "admins", "admin", "toUser"}
Run   == Job \X (Entry \cup {0})
Call  == Run \X (1..MaxHolders)
Recipients == UNION {[1..n -> Account] : n \in 0..MaxHolders}

ASSUME JobAssumption ==
    /\ Kind \in [Job -> Kinds]
    /\ Sender \in [Job -> Account]
    /\ Told \in [Job -> [Entry -> Account \cup {None}]]
    /\ Entry \subseteq Nat \ {0}
    /\ Found \subseteq Recipients
    /\ MaxHolders \in Nat \ {0} /\ MaxJobs \in Nat /\ MaxChanges \in Nat
ASSUME AccountAssumption ==
    /\ SecretOwner \in Account /\ None \notin Account
    /\ Same \subseteq Account \X Account
    /\ Telegram \subseteq Account

VARIABLES
    exists, shared,  \* the secret, and the entries on it
    holders,   \* the accounts each entry resolves to
    stage,     \* of each job
    listed,    \* the runs of each job's list, as it read it
    to,        \* the recipients of a run, once resolved
    at,        \* the one it is at, 0 before they are resolved
    over,      \* the runs that have ended
    open,      \* calls of sendMessage under way
    delivered, answer,  \* of SendPromise
    filed,     \* calls replaced by a record that was, or could not be, stored
    counted,   \* calls that a job counts as a success
    changes

secretVars == <<exists, shared, holders, changes>>
runVars    == <<to, at, over>>
vars == <<secretVars, stage, listed, runVars, open, delivered, answer, filed, counted>>

\* sendMessage answers true and writes to nobody if the sender is the recipient; of a
\* message from an admin to a user it is not told the sender (a request has no user.userId).
Self == {c \in Call : /\ Kind[c[1][1]] \in {"admins", "admin"} /\ c[1][2] \in Entry
                      /\ Told[c[1][1]][c[1][2]] = Sender[c[1][1]]
                      /\ Sender[c[1][1]] \in Telegram}
Send == INSTANCE SendPromise

TypeOK ==
    /\ exists \in BOOLEAN
    /\ shared \subseteq Entry
    /\ holders \in [Entry -> Found]
    /\ stage \in [Job -> {"idle", "owner", "list", "ended"}]
    /\ listed \subseteq Run
    /\ to \in [Run -> Recipients]
    /\ at \in [Run -> 0..MaxHolders]
    /\ over \subseteq Run
    /\ open \subseteq Call
    /\ delivered \subseteq Call
    /\ answer \in [Call -> Send!Answers]
    /\ filed \subseteq Call
    /\ counted \subseteq Call
    /\ changes \in 0..MaxChanges

Init ==
    /\ exists = TRUE
    /\ shared \in SUBSET Entry
    /\ holders \in [Entry -> Found]
    /\ stage = [j \in Job |-> "idle"]
    /\ listed = {}
    /\ to = [r \in Run |-> <<>>]
    /\ at = [r \in Run |-> 0]
    /\ over = {}
    /\ open = {}
    /\ Send!Init
    /\ filed = {}
    /\ counted = {}
    /\ changes = 0

------------------------------------------------------------------------------
Goto(j, from, next) == stage[j] = from /\ stage' = [stage EXCEPT ![j] = next]

Runs(j, list) == {<<j, e>> : e \in list}

\* The runs in rs begin with one recipient each, the account u[e] of their position.
Aim(rs, u) ==
    /\ to' = [r \in Run |-> IF r \in rs THEN <<u[r[2]]>> ELSE to[r]]
    /\ at' = [r \in Run |-> IF r \in rs THEN 1 ELSE at[r]]

\* The list is the secret's as it was stored, and the owner is looked up.
StartShare(j) ==
    /\ Kind[j] = "share"
    /\ Goto(j, "idle", "list")
    /\ listed' = listed \cup Runs(j, shared)
    /\ UNCHANGED <<to, at>>

\* A failed read of the secret or of its owner, or a reply by the owner, leaves nobody to tell.
StartReply(j) ==
    /\ Kind[j] = "reply"
    /\ Goto(j, "idle", "owner")
    /\ \/ /\ exists /\ SecretOwner # Sender[j]
          /\ listed' = listed \cup {<<j, 0>>}
          /\ Aim({<<j, 0>>}, [e \in {0} |-> SecretOwner])
       \/ UNCHANGED <<listed, to, at>>

\* All admins, with or without Telegram; the configured one, if there is one; the user an
\* admin writes to, if he has Telegram.
Admins(j)   == {e \in Entry : Told[j][e] # None}
TheAdmin(j) == Admins(j) \cap {1}
TheUser(j)  == {e \in Admins(j) \cap {1} : Told[j][e] \in Telegram}

Aimed(j) == CASE Kind[j] = "admins" -> Admins(j)
              [] Kind[j] = "admin"  -> TheAdmin(j)
              [] OTHER              -> TheUser(j)

StartOperator(j) ==
    /\ Kind[j] \in {"admins", "admin", "toUser"}
    /\ Goto(j, "idle", "list")
    /\ listed' = listed \cup Runs(j, Aimed(j))
    /\ Aim(Runs(j, Aimed(j)), Told[j])

Start(j) ==
    /\ Cardinality({k \in Job : stage[k] # "idle"}) < MaxJobs
    /\ StartShare(j) \/ StartReply(j) \/ StartOperator(j)
    /\ UNCHANGED <<secretVars, over, open, delivered, answer, filed, counted>>

\* Variant: the list waits for an owner who may never be told.
ReadListOnceTold(j) ==
    /\ Goto(j, "owner", "list")
    /\ <<j, 0>> \in over
    /\ listed' = listed \cup (IF exists THEN Runs(j, shared) ELSE {})
    /\ UNCHANGED <<secretVars, runVars, open, delivered, answer, filed, counted>>

\* The owner has been told, or not: the secret is read again, for its list.
ReadList(j) ==
    /\ Goto(j, "owner", "list")
    /\ <<j, 0>> \in listed => <<j, 0>> \in over
    /\ listed' = listed \cup (IF exists THEN Runs(j, shared) ELSE {})
    /\ UNCHANGED <<secretVars, runVars, open, delivered, answer, filed, counted>>

Finish(j) ==
    /\ Goto(j, "list", "ended")
    /\ \A r \in listed : r[1] = j => r \in over
    /\ UNCHANGED <<secretVars, listed, runVars, open, delivered, answer, filed, counted>>

------------------------------------------------------------------------------
(* A run. *)

\* The entries of a share are worked off at once, those of a reply in turn.
Turn(r) ==
    /\ r \in listed \ over
    /\ stage[r[1]] = IF r[2] = 0 THEN "owner" ELSE "list"
    /\ Kind[r[1]] = "reply" =>
          \A q \in listed : q[1] = r[1] /\ q[2] < r[2] => q \in over

\* Finding the recipients may fail, and then there are none.
Resolve(r) ==
    /\ Turn(r) /\ r[2] # 0 /\ at[r] = 0
    /\ \E us \in {holders[r[2]], <<>>} :
          /\ to' = [to EXCEPT ![r] = us]
          /\ at' = [at EXCEPT ![r] = IF us = <<>> THEN 0 ELSE 1]
          /\ over' = IF us = <<>> THEN over \cup {r} ELSE over
    /\ UNCHANGED <<secretVars, stage, listed, open, delivered, answer, filed, counted>>

Advance(r) ==
    IF at[r] < Len(to[r]) THEN at' = [at EXCEPT ![r] = @ + 1] /\ UNCHANGED over
                          ELSE over' = over \cup {r} /\ UNCHANGED at

Current(r) == <<r, at[r]>>
Recipient(r) == to[r][at[r]]
Ready(r) == Turn(r) /\ at[r] # 0 /\ Current(r) \notin open

Skipped(j, u) == <<Sender[j], u>> \in Same \/ (Kind[j] = "reply" /\ <<SecretOwner, u>> \in Same)

Skip(r) ==
    /\ Ready(r) /\ r[2] # 0 /\ Kind[r[1]] \in {"share", "reply"}
    /\ Skipped(r[1], Recipient(r))
    /\ Advance(r)
    /\ UNCHANGED <<secretVars, stage, listed, to, open, delivered, answer, filed, counted>>

NotSkipped(r) == r[2] = 0 \/ ~Skipped(r[1], Recipient(r))

\* Without Telegram a record takes the message's place; that it is not stored is swallowed.
Fallback(r) ==
    /\ Ready(r) /\ Kind[r[1]] \in {"share", "reply"} /\ NotSkipped(r)
    /\ Recipient(r) \notin Telegram
    /\ filed' = filed \cup {Current(r)}
    /\ Advance(r)
    /\ UNCHANGED <<secretVars, stage, listed, to, open, delivered, answer, counted>>

\* An admin without Telegram is written to all the same, under the chat NaN.
Post(r) ==
    /\ Ready(r)
    /\ Kind[r[1]] \in {"share", "reply"} => NotSkipped(r) /\ Recipient(r) \in Telegram
    /\ open' = open \cup {Current(r)}
    /\ UNCHANGED <<secretVars, stage, listed, runVars, delivered, answer, filed, counted>>

Arrive(c) ==
    /\ c \in open /\ to[c[1]][c[2]] \in Telegram
    /\ Send!Deliver(c)
    /\ UNCHANGED <<secretVars, stage, listed, runVars, open, filed, counted>>

\* Variant: whatever does not throw is a success.
AnsweredGladly(r, a) ==
    LET c == Current(r)
    IN  /\ c \in open
        /\ Send!End(c, a)
        /\ counted' = IF a \in {"true", "false"} THEN counted \cup {c} ELSE counted
        /\ IF a \in {"true", "false"} THEN Advance(r)
           ELSE over' = (IF a = "thrown" THEN over \cup {r} ELSE over) /\ UNCHANGED at
        /\ open' = IF a = "lost" THEN open ELSE open \ {c}
        /\ UNCHANGED <<secretVars, stage, listed, to, filed>>

\* Variant: an error ends the job and not only the run.
AnsweredForAll(r, a) ==
    LET c == Current(r)
    IN  /\ c \in open
        /\ Send!End(c, a)
        /\ counted' = IF a = "true" THEN counted \cup {c} ELSE counted
        /\ IF a \in {"true", "false"} THEN Advance(r)
           ELSE /\ over' = (IF a = "thrown" THEN over \cup Runs(r[1], Entry \cup {0}) ELSE over)
                /\ UNCHANGED at
        /\ open' = IF a = "lost" THEN open ELSE open \ {c}
        /\ UNCHANGED <<secretVars, stage, listed, to, filed>>

\* An error ends the run: the recipients after this one hear nothing.  A lost call ends with
\* its process, and the job with it.
Answered(r, a) ==
    LET c == Current(r)
    IN  /\ c \in open
        /\ Send!End(c, a)
        /\ counted' = IF a = "true" THEN counted \cup {c} ELSE counted
        /\ IF a \in {"true", "false"} THEN Advance(r)
           ELSE over' = (IF a = "thrown" THEN over \cup {r} ELSE over) /\ UNCHANGED at
        /\ open' = IF a = "lost" THEN open ELSE open \ {c}
        /\ UNCHANGED <<secretVars, stage, listed, to, filed>>

------------------------------------------------------------------------------
(* Other requests. *)

Change(e) ==
    /\ changes < MaxChanges
    /\ changes' = changes + 1
    /\ \/ shared' \in {shared \cup {e}, shared \ {e}} /\ UNCHANGED <<exists, holders>>
       \/ exists' = FALSE /\ UNCHANGED <<shared, holders>>
       \/ /\ \E us \in Found : holders' = [holders EXCEPT ![e] = us]
          /\ UNCHANGED <<exists, shared>>
    /\ UNCHANGED <<stage, listed, runVars, open, delivered, answer, filed, counted>>

Answers == Send!Answers \ {"none"}
Step(r) == Resolve(r) \/ Skip(r) \/ Fallback(r) \/ Post(r) \/ \E a \in Answers : Answered(r, a)

Next ==
    \/ \E j \in Job : Start(j) \/ ReadList(j) \/ Finish(j)
    \/ \E r \in Run : Step(r)
    \/ \E c \in Call : Arrive(c)
    \/ \E e \in Entry : Change(e)

Spec == Init /\ [][Next]_vars

\* A run goes on as soon as it can, and every call is answered (Delivery's EveryCallEnds).
FairSpec ==
    /\ Spec
    /\ \A r \in Run : WF_vars(Step(r))
    /\ \A j \in Job : WF_vars(ReadList(j)) /\ WF_vars(Finish(j))

------------------------------------------------------------------------------
Cause(r, i) ==
    \/ r[2] # 0 /\ Kind[r[1]] \in {"share", "reply"} /\ Skipped(r[1], to[r][i])
    \/ <<r, i>> \in filed
    \/ \E h \in 1..i : answer[<<r, h>>] = "thrown"
    \/ answer[<<r, i>>] \in {"true", "false"}

\* Safety: when a run has ended, each of its recipients was skipped, was written to, got a
\* record instead, or comes after one whose call threw: in that run, no other
\* (password-notification.service.ts:115-155, 343-421; telegram.service.ts:344-379).
SilenceHasACause ==
    \A r \in over : \A i \in DOMAIN to[r] : Cause(r, i)

\* Safety: a message counted as a success has arrived, or was for the sender himself
\* (telegram.service.ts:363-391).
CountedWereDelivered == counted \subseteq delivered \cup Self

\* Liveness: a job that was started ends, unless its process does.
JobsEnd ==
    \A j \in Job : stage[j] # "idle" ~>
        (stage[j] = "ended" \/ \E c \in open : c[1][1] = j /\ answer[c] = "lost")
==============================================================================
