-------------------------------- MODULE SignIn --------------------------------
(***************************************************************************)
(* Signing in with a wallet: a challenge is asked for, signed and brought  *)
(* back, to log in (AuthService) or to add the address to an account       *)
(* (PublicAddressesService).  Requests run concurrently; each action is    *)
(* one operation on users, publicaddresses or challanges.  An address has  *)
(* one challenge, which every new one replaces in place.  A challenge and  *)
(* an account carry the name of the request that made them.  The claim of  *)
(* shared secrets after a first login is module Claims'.                   *)
(***************************************************************************)
EXTENDS Naturals, Sequences

CONSTANTS
    Request,
    Old,       \* the accounts at the beginning
    Text,      \* addresses as requests spell them
    Trim,      \* String.trim
    Ethereum,  \* the trimmed texts whose signature is verified: 0x and 40 digits
    None

Account == Old \cup Request
Kinds == {"challenge", "plainChallenge", "login", "add"}

ASSUME TextAssumption ==
    /\ Trim \in [Text -> Text]
    /\ \A t \in Text : Trim[Trim[t]] = Trim[t]
    /\ Ethereum \subseteq Text
ASSUME NameAssumption ==
    /\ Old \cap Request = {}
    /\ None \notin Account \cup Kinds
    /\ None \notin Seq(Account)

VARIABLES
    exists, active,   \* the accounts: users
    record,           \* publicaddresses.userIds of each text, None without a record
    challenge, live,  \* the challenge of each text's record; its expiresAt is ahead
    pc,
    kind,             \* what each request wants
    text,             \* the address it brings; the trimmed one, for a challenge
    proof,            \* the challenge whose signature it brings, None for a bad one
    user,             \* the account it is for
    linked,           \* it read the record with its account on it
    dead,             \* history: the challenges replaced, timed out or failed
    stale,            \* history: the requests whose proof was dead when they arrived
    spared,           \* history: the accounts whose removal has failed
    spoilt            \* history: the requests to add whose verification met an error

accountVars   == <<exists, active>>
challengeVars == <<challenge, live>>
localVars     == <<kind, text, proof, user, linked>>
history       == <<dead, stale, spared, spoilt>>
vars == <<accountVars, record, challengeVars, pc, localVars, history>>

Steps == {"find", "create", "record", "undo", "relink", "issue", "verify", "expire", "lookup",
          "link"}
Ended == {"issued", "token", "added", "refused", "denied", "failed"}

Holders(t) == IF record[t] = None THEN {} ELSE {record[t][i] : i \in DOMAIN record[t]}

TypeOK ==
    /\ exists \subseteq Account
    /\ active \in [Account -> BOOLEAN]
    /\ record \in [Text -> Seq(Account) \cup {None}]
    /\ challenge \in [Text -> Request \cup {None}]
    /\ live \in [Text -> BOOLEAN]
    /\ pc \in [Request -> {"idle"} \cup Steps \cup Ended]
    /\ kind \in [Request -> Kinds \cup {None}]
    /\ text \in [Request -> Text \cup {None}]
    /\ proof \in [Request -> Request \cup {None}]
    /\ user \in [Request -> Account \cup {None}]
    /\ linked \in [Request -> BOOLEAN]
    /\ dead \subseteq Request /\ stale \subseteq Request
    /\ spared \subseteq Request /\ spoilt \subseteq Request
    /\ \A r \in Request : pc[r] \notin {"idle", "failed"} => kind[r] \in Kinds /\ text[r] \in Text

Init ==
    /\ exists = Old
    /\ active = [u \in Account |-> TRUE]
    /\ record = [t \in Text |-> None]
    /\ challenge = [t \in Text |-> None]
    /\ live = [t \in Text |-> FALSE]
    /\ pc = [r \in Request |-> "idle"]
    /\ kind = [r \in Request |-> None]
    /\ text = [r \in Request |-> None]
    /\ proof = [r \in Request |-> None]
    /\ user = [r \in Request |-> None]
    /\ linked = [r \in Request |-> FALSE]
    /\ dead = {} /\ stale = {} /\ spared = {} /\ spoilt = {}

------------------------------------------------------------------------------
Goto(r, from, to) == pc[r] = from /\ pc' = [pc EXCEPT ![r] = to]

Arrive(r, what, t, n, u) ==
    /\ kind' = [kind EXCEPT ![r] = what]
    /\ text' = [text EXCEPT ![r] = t]
    /\ proof' = [proof EXCEPT ![r] = n]
    /\ user' = [user EXCEPT ![r] = u]
    /\ stale' = IF n \in dead THEN stale \cup {r} ELSE stale
    /\ UNCHANGED <<accountVars, record, challengeVars, dead, spared, spoilt>>

\* POST /auth/challange and POST /public-addresses/challange.
Ask(r, what, t) ==
    /\ Goto(r, "idle", "find")
    /\ Arrive(r, what, Trim[t], None, None)
    /\ UNCHANGED linked

\* The signatures a wallet can bring for t: of a challenge it was given, or none that fits.
Signable(t) == {q \in Request : pc[q] = "issued" /\ text[q] = Trim[t]} \cup {None}

\* POST /auth/login without init data.  Other addresses are let in unverified.
Login(r, t, n) ==
    /\ n \in Signable(t)
    /\ Goto(r, "idle", IF Trim[t] \in Ethereum THEN "verify" ELSE "lookup")
    /\ Arrive(r, "login", t, n, None)
    /\ UNCHANGED linked

\* POST /public-addresses.  The record is kept as read here; without one the answer is a
\* challenge, whatever was signed.
Add(r, u, t, n) ==
    /\ u \in Old /\ n \in Signable(t)
    /\ Goto(r, "idle", IF record[Trim[t]] = None THEN "find"
                       ELSE IF Trim[t] \in Ethereum THEN "verify" ELSE "link")
    /\ Arrive(r, IF record[Trim[t]] = None THEN "plainChallenge" ELSE "add", Trim[t], n, u)
    /\ linked' = [linked EXCEPT ![r] = u \in Holders(Trim[t])]

------------------------------------------------------------------------------
(* Challenges, and the accounts and records made for them. *)

FindRecord(r) ==
    /\ Goto(r, "find", IF record[text[r]] # None THEN "issue"
                       ELSE IF kind[r] = "challenge" THEN "create" ELSE "record")
    /\ UNCHANGED <<accountVars, record, challengeVars, localVars, history>>

CreateUser(r) ==
    /\ Goto(r, "create", "record")
    /\ exists' = exists \cup {r}
    /\ user' = [user EXCEPT ![r] = r]
    /\ UNCHANGED <<active, record, challengeVars, kind, text, proof, linked, history>>

\* Variant: losing the race for the record is taken for success.
SaveRecordOrGoOn(r) ==
    LET t == text[r]
    IN  /\ Goto(r, "record", IF kind[r] = "login" THEN "token" ELSE "issue")
        /\ record' = [record EXCEPT ![t] = IF @ # None THEN @
                                           ELSE IF kind[r] = "plainChallenge" THEN <<>>
                                           ELSE <<user[r]>>]
        /\ UNCHANGED <<accountVars, challengeVars, localVars, history>>

\* publicKey is unique.  Who loses the race undoes his account, joins the record, or has
\* nothing to undo.
SaveRecord(r) ==
    LET t == text[r]
        first == record[t] = None
    IN  /\ pc[r] = "record"
        /\ \/ /\ kind[r] = "challenge"
              /\ Goto(r, "record", IF first THEN "issue" ELSE "undo")
           \/ /\ kind[r] = "plainChallenge"
              /\ Goto(r, "record", "issue")
           \/ /\ kind[r] = "login"
              /\ Goto(r, "record", IF first THEN "token" ELSE "relink")
        /\ record' = [record EXCEPT ![t] = IF ~first THEN @
                                           ELSE IF kind[r] = "plainChallenge" THEN <<>>
                                           ELSE <<user[r]>>]
        /\ UNCHANGED <<accountVars, challengeVars, localVars, history>>

\* An error of the removal is swallowed.
UndoUser(r) ==
    /\ Goto(r, "undo", "issue")
    /\ \/ exists' = exists \ {r} /\ UNCHANGED spared
       \/ spared' = spared \cup {r} /\ UNCHANGED exists
    /\ UNCHANGED <<active, record, challengeVars, localVars, dead, stale, spoilt>>

Relink(r) ==
    /\ Goto(r, "relink", "token")
    /\ record' = [record EXCEPT ![text[r]] =
                    IF user[r] \in Holders(text[r]) THEN @ ELSE Append(@, user[r])]
    /\ UNCHANGED <<accountVars, challengeVars, localVars, history>>

\* Variant: the new challenge keeps the expiry of the one it replaces.
IssueKeepingExpiry(r) ==
    LET t == text[r]
    IN  /\ Goto(r, "issue", "issued")
        /\ challenge' = [challenge EXCEPT ![t] = r]
        /\ live' = [live EXCEPT ![t] = IF challenge[t] = None THEN TRUE ELSE @]
        /\ dead' = dead \cup ({challenge[t]} \ {None})
        /\ UNCHANGED <<accountVars, record, localVars, stale, spared, spoilt>>

Issue(r) ==
    LET t == text[r]
    IN  /\ Goto(r, "issue", "issued")
        /\ challenge' = [challenge EXCEPT ![t] = r]
        /\ live' = [live EXCEPT ![t] = TRUE]
        /\ dead' = dead \cup ({challenge[t]} \ {None})
        /\ UNCHANGED <<accountVars, record, localVars, stale, spared, spoilt>>

------------------------------------------------------------------------------
(* What is done with a signature. *)

Expired(t) ==
    /\ challenge[t] # None
    /\ live' = [live EXCEPT ![t] = FALSE]
    /\ dead' = dead \cup {challenge[t]}
    /\ UNCHANGED <<accountVars, record, challenge, localVars, stale, spared, spoilt>>

TimeOut(t) == live[t] /\ Expired(t) /\ UNCHANGED pc

\* Variant: the challenge's expiry is not looked at.
VerifyEver(r) ==
    LET t == Trim[text[r]]
    IN  /\ Goto(r, "verify", IF challenge[t] = None THEN "refused"
                             ELSE IF proof[r] # challenge[t] THEN "expire"
                             ELSE IF kind[r] = "login" THEN "lookup" ELSE "link")
        /\ UNCHANGED <<accountVars, record, challengeVars, localVars, history>>

Active(t) == challenge[t] # None /\ live[t]

\* A signature that does not fit is answered after the challenge has been expired.
Verify(r) ==
    LET t == Trim[text[r]]
    IN  /\ Goto(r, "verify", IF ~Active(t) THEN "refused"
                             ELSE IF proof[r] # challenge[t] THEN "expire"
                             ELSE IF kind[r] = "login" THEN "lookup" ELSE "link")
        /\ UNCHANGED <<accountVars, record, challengeVars, localVars, history>>

\* Whatever is thrown in the verification of an address to add is answered like a signature
\* that does not fit.  A login's verification lets it through.
VerifyFails(r) ==
    /\ kind[r] = "add"
    /\ Goto(r, "verify", "expire")
    /\ spoilt' = spoilt \cup {r}
    /\ UNCHANGED <<accountVars, record, challengeVars, localVars, dead, stale, spared>>

\* Whatever challenge the address has by now is expired; an error is swallowed.
ExpireChallenge(r) ==
    /\ Goto(r, "expire", "refused")
    /\ \/ Expired(Trim[text[r]])
       \/ UNCHANGED <<accountVars, record, challengeVars, localVars, history>>

\* The record is looked up under the address as it was spelled, not as it was verified.
Lookup(r) ==
    LET holders == record[text[r]]
    IN  /\ pc[r] = "lookup"
        /\ \/ /\ holders = None
              /\ Goto(r, "lookup", "create") /\ UNCHANGED user
           \/ /\ holders \notin {None, <<>>}
              /\ active[Head(holders)]
              /\ user' = [user EXCEPT ![r] = Head(holders)]
              /\ Goto(r, "lookup", "token")
           \/ /\ holders # None
              /\ holders # <<>> => ~active[Head(holders)]
              /\ Goto(r, "lookup", "denied") /\ UNCHANGED user
        /\ UNCHANGED <<accountVars, record, challengeVars, kind, text, proof, linked, history>>

\* Variant: the newest holder comes first.
LinkFirst(r) ==
    /\ Goto(r, "link", "added")
    /\ record' = [record EXCEPT ![text[r]] = IF linked[r] THEN @ ELSE <<user[r]>> \o @]
    /\ UNCHANGED <<accountVars, challengeVars, localVars, history>>

\* The account is pushed onto the record as it is by now, unless it was on it as read.
Link(r) ==
    /\ Goto(r, "link", "added")
    /\ record' = [record EXCEPT ![text[r]] = IF linked[r] THEN @ ELSE Append(@, user[r])]
    /\ UNCHANGED <<accountVars, challengeVars, localVars, history>>

------------------------------------------------------------------------------
\* A database error that nothing catches ends the request; what it has stored stays stored.
Fail(r) ==
    /\ pc[r] \in Steps \ {"undo", "expire"}
    /\ pc[r] = "verify" => kind[r] # "add"
    /\ pc' = [pc EXCEPT ![r] = "failed"]
    /\ kind' = [kind EXCEPT ![r] = None]
    /\ text' = [text EXCEPT ![r] = None]
    /\ proof' = [proof EXCEPT ![r] = None]
    /\ user' = [user EXCEPT ![r] = None]
    /\ linked' = [linked EXCEPT ![r] = FALSE]
    /\ stale' = stale \ {r}
    /\ UNCHANGED <<accountVars, record, challengeVars, dead, spared, spoilt>>

Deactivate(u) ==
    /\ u \in exists
    /\ active' = [active EXCEPT ![u] = FALSE]
    /\ UNCHANGED <<exists, record, challengeVars, pc, localVars, history>>

Next ==
    \/ \E r \in Request, t \in Text :
          \/ \E what \in {"challenge", "plainChallenge"} : Ask(r, what, t)
          \/ \E n \in Request \cup {None} : \/ Login(r, t, n)
                                            \/ \E u \in Old : Add(r, u, t, n)
    \/ \E r \in Request :
          \/ FindRecord(r) \/ CreateUser(r) \/ SaveRecord(r) \/ UndoUser(r) \/ Relink(r)
          \/ Issue(r) \/ Verify(r) \/ VerifyFails(r) \/ ExpireChallenge(r) \/ Lookup(r)
          \/ Link(r) \/ Fail(r)
    \/ \E t \in Text : TimeOut(t)
    \/ \E u \in Account : Deactivate(u)

Spec == Init /\ [][Next]_vars

------------------------------------------------------------------------------
\* Safety: all the logins an address's record has let in are logins to one account, whoever
\* else is put on the record in between, by whatever request (auth.service.ts:455-458,
\* public-addresses.service.ts:311-313).  A login that makes its own account is excepted.
FoundAccountsAgree ==
    \A r, q \in Request :
        /\ kind[r] = "login" /\ pc[r] = "token" /\ user[r] # r
        /\ kind[q] = "login" /\ pc[q] = "token" /\ user[q] # q
        /\ text[r] = text[q]
        => user[r] = user[q]

\* "Signature over the latest challange generated for this publicAddress" (login.dto.ts:13):
\* a signature over a challenge that was replaced, that timed out or that an attempt has
\* failed on neither logs in nor adds an address.
StaleIsRefused ==
    \A r \in stale : Trim[text[r]] \in Ethereum => pc[r] \notin {"token", "added"}

\* Safety: the signature of a challenge is only turned down once that challenge was replaced,
\* timed out or had an attempt fail on it, or if the verification of an address to add meets
\* an error itself (auth.service.ts:205, 283-309; public-addresses.service.ts:169, 279-301).
RefusedForACause ==
    \A r \in Request :
        pc[r] = "refused" /\ proof[r] # None => proof[r] \in dead \/ r \in spoilt

\* Safety: the account a request makes holds the request's address when it is answered, or is
\* gone, unless its removal failed (auth.service.ts:104-121, 395-432).
OrphansHaveACause ==
    \A r \in Request :
        pc[r] \in Ended \ {"failed"} /\ r \in exists => r \in Holders(text[r]) \cup spared
==============================================================================
