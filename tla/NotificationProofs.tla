--------------------------- MODULE NotificationProofs ---------------------------
(***************************************************************************)
(* Proofs about Fanout and Delivery, for any jobs, recipients, retries,    *)
(* faults and changes.  Causes is what makes SilenceHasACause inductive:   *)
(* it speaks of the recipients a run has behind it, also while the run     *)
(* goes on.  Begun keeps a job that starts from aiming at a run that has   *)
(* ended.  The bounds of a call rest on SlotInv.  That a call keeps        *)
(* SendPromise joins the two: Fanout takes no more than that for granted.  *)
(***************************************************************************)
EXTENDS Fanout, Delivery, TLAPS

Begun  == over \subseteq listed /\ \A r \in listed : stage[r[1]] # "idle"
Called == \A c \in open : c[1] \in listed
Causes == \A r \in Run : \A i \in DOMAIN to[r] : r \in over \/ i < at[r] => Cause(r, i)
IInv   == TypeOK /\ Begun /\ Called /\ Causes /\ CountedWereDelivered

------------------------------------------------------------------------------
\* A list of recipients has a length within the bound.
LEMMA RecipientsHaveLengths ==
    ASSUME NEW us \in Recipients
    PROVE  /\ Len(us) \in 0..MaxHolders
           /\ DOMAIN us = 1..Len(us)
           /\ us # <<>> => 1 \in 0..MaxHolders
<1>1. PICK n \in 0..MaxHolders : us \in [1..n -> Account]
  BY DEF Recipients
<1>2. Len(us) = n /\ DOMAIN us = 1..n
  BY <1>1, JobAssumption
<1>3. QED
  BY <1>1, <1>2, JobAssumption

LEMMA OneRecipient ==
    ASSUME NEW u \in Account
    PROVE  <<u>> \in Recipients
<1>1. <<u>> \in [1..1 -> Account] /\ 1 \in 0..MaxHolders
  BY JobAssumption
<1>2. QED
  BY <1>1 DEF Recipients

\* Runs that begin with one recipient.
LEMMA AimTyped ==
    ASSUME TypeOK, NEW rs \in SUBSET Run, NEW u, \A r \in rs : u[r[2]] \in Account, Aim(rs, u)
    PROVE  /\ to' \in [Run -> Recipients] /\ at' \in [Run -> 0..MaxHolders]
           /\ \A r \in rs : at'[r] = 1
           /\ \A r \in Run \ rs : to'[r] = to[r] /\ at'[r] = at[r]
  BY OneRecipient, JobAssumption DEF Aim, TypeOK

\* What a recipient was passed over for does not go away.
LEMMA CauseStays ==
    ASSUME TypeOK, NEW r \in Run, NEW i \in DOMAIN to[r], Cause(r, i),
           to'[r] = to[r], filed \subseteq filed',
           \A c \in Call : answer[c] # "none" => answer'[c] = answer[c]
    PROVE  Cause(r, i)'
<1>1. i \in 1..MaxHolders
  <2>1. Len(to[r]) \in 0..MaxHolders /\ DOMAIN to[r] = 1..Len(to[r])
    BY RecipientsHaveLengths DEF TypeOK
  <2>2. QED
    BY <2>1, JobAssumption
<1>2. \A h \in 1..i : <<r, h>> \in Call
  BY <1>1, JobAssumption DEF Call
<1>3. QED
  BY <1>1, <1>2 DEF Cause, Skipped

\* A step that only adds causes, and brings no run further, keeps Causes.
LEMMA CausesStay ==
    ASSUME IInv, UNCHANGED <<runVars, answer>>, filed \subseteq filed'
    PROVE  Causes'
<1> SUFFICES ASSUME NEW r \in Run, NEW i \in DOMAIN to[r], r \in over \/ i < at[r]
             PROVE  Cause(r, i)'
  BY DEF Causes, runVars
<1>1. Cause(r, i)
  BY DEF IInv, Causes
<1>2. QED
  BY <1>1, CauseStays DEF IInv, runVars

\* A run that goes on has a cause for the recipient it leaves.
LEMMA AdvanceStep ==
    ASSUME IInv, NEW r \in Run, at[r] # 0, r \in listed,
           Advance(r), UNCHANGED <<to, stage, listed>>, filed \subseteq filed',
           \A c \in Call : answer[c] # "none" => answer'[c] = answer[c],
           \A i \in DOMAIN to[r] : i = at[r] => Cause(r, i)'
    PROVE  /\ at' \in [Run -> 0..MaxHolders] /\ over' \subseteq Run
           /\ Begun' /\ Causes'
<1>1. Len(to[r]) \in 0..MaxHolders /\ DOMAIN to[r] = 1..Len(to[r]) /\ at[r] \in 0..MaxHolders
  BY RecipientsHaveLengths DEF IInv, TypeOK
<1>2. at' \in [Run -> 0..MaxHolders] /\ over' \subseteq Run
  BY <1>1, JobAssumption DEF Advance, IInv, TypeOK
<1>3. Begun'
  BY DEF Advance, Begun, IInv
<1>4. ASSUME NEW q \in Run, NEW i \in DOMAIN to[q], q \in over' \/ i < at'[q]
      PROVE  Cause(q, i)'
  <2>1. CASE q \in over \/ i < at[q]
    BY <2>1, CauseStays DEF IInv, Causes
  <2>2. CASE ~(q \in over \/ i < at[q])
    <3>1. q = r
      BY <1>4, <2>2 DEF Advance, IInv, TypeOK
    <3>2. i = at[r]
      BY <1>1, <1>4, <2>2, <3>1, JobAssumption DEF Advance, IInv, TypeOK
    <3>3. QED
      BY <3>1, <3>2
  <2>3. QED
    BY <2>1, <2>2
<1>5. QED
  BY <1>2, <1>3, <1>4 DEF Causes

------------------------------------------------------------------------------
LEMMA InitIInv == Init => IInv
<1> SUFFICES ASSUME Init PROVE IInv
  OBVIOUS
<1>1. <<>> \in Recipients
  <2>1. <<>> \in [1..0 -> Account] /\ 0 \in 0..MaxHolders
    BY JobAssumption
  <2>2. QED
    BY <2>1 DEF Recipients
<1>2. TypeOK
  BY <1>1, JobAssumption DEF Init, TypeOK, Send!Init, Send!Answers
<1>3. Begun /\ Called /\ Causes /\ CountedWereDelivered
  BY DEF Init, Begun, Called, Causes, CountedWereDelivered
<1>4. QED
  BY <1>2, <1>3 DEF IInv

\* A job that starts aims at runs of its own, which nobody has begun.
LEMMA StartStep ==
    ASSUME IInv, NEW j \in Job, Start(j)
    PROVE  IInv'
<1>1. /\ stage[j] = "idle" /\ stage' \in [Job -> {"idle", "owner", "list", "ended"}]
      /\ \A k \in Job : stage[k] # "idle" => stage'[k] # "idle"
      /\ stage'[j] # "idle"
  BY DEF Start, StartShare, StartReply, StartOperator, Goto, IInv, TypeOK
<1>2. UNCHANGED <<secretVars, over, open, delivered, answer, filed, counted>>
  BY DEF Start
<1>3. PICK rs \in SUBSET Run :
        /\ listed' = listed \cup rs
        /\ \A r \in rs : r[1] = j
        /\ to' \in [Run -> Recipients] /\ at' \in [Run -> 0..MaxHolders]
        /\ \A r \in Run : r[1] # j => to'[r] = to[r] /\ at'[r] = at[r]
        /\ \A r \in Run : r \in rs \/ (to'[r] = to[r] /\ at'[r] = at[r])
        /\ \A r \in rs : (to'[r] = to[r] /\ at'[r] = at[r]) \/ at'[r] = 1
  <2>1. CASE StartShare(j)
    <3>1. Runs(j, shared) \in SUBSET Run /\ \A r \in Runs(j, shared) : r[1] = j
      BY DEF Runs, Run, IInv, TypeOK
    <3>2. QED
      BY <2>1, <3>1 DEF StartShare, IInv, TypeOK
  <2>2. CASE StartReply(j)
    <3>1. CASE UNCHANGED <<listed, to, at>>
      <4>1. listed' = listed \cup {} /\ to' = to /\ at' = at
        BY <3>1
      <4>2. /\ {} \in SUBSET Run
            /\ to' \in [Run -> Recipients] /\ at' \in [Run -> 0..MaxHolders]
        BY <4>1 DEF IInv, TypeOK
      <4>3. QED
        BY <4>1, <4>2
    <3>2. CASE listed' = listed \cup {<<j, 0>>} /\ Aim({<<j, 0>>}, [e \in {0} |-> SecretOwner])
      <4>1. {<<j, 0>>} \in SUBSET Run
        BY DEF Run
      <4>2. \A r \in {<<j, 0>>} : [e \in {0} |-> SecretOwner][r[2]] \in Account
        BY AccountAssumption
      <4> DEFINE own == {<<j, 0>>}
      <4> DEFINE u == [e \in {0} |-> SecretOwner]
      <4>3. listed' = listed \cup own /\ Aim(own, u) /\ \A r \in own : r[1] = j
        BY <3>2
      <4>4. own \in SUBSET Run /\ \A r \in own : u[r[2]] \in Account
        BY <4>1, <4>2
      <4> HIDE DEF own, u
      <4>5. QED
        BY <4>3, <4>4, AimTyped DEF IInv
    <3>3. QED
      BY <2>2, <3>1, <3>2 DEF StartReply
  <2>3. CASE StartOperator(j)
    <3> DEFINE aimed == Aimed(j)
    <3>0. aimed \in SUBSET Admins(j)
      BY DEF Aimed, TheAdmin, TheUser, Admins
    <3>3. listed' = listed \cup Runs(j, aimed) /\ Aim(Runs(j, aimed), Told[j])
      BY <2>3 DEF StartOperator
    <3> HIDE DEF aimed
    <3>1. Runs(j, aimed) \in SUBSET Run /\ \A r \in Runs(j, aimed) : r[1] = j
      BY <3>0 DEF Runs, Run, Admins
    <3>2. \A r \in Runs(j, aimed) : Told[j][r[2]] \in Account
      <4>1. \A e \in aimed : Told[j][e] \in Account
        BY <3>0, JobAssumption DEF Admins
      <4>2. \A r \in Runs(j, aimed) : r[2] \in aimed
        BY DEF Runs
      <4>3. QED
        BY <4>1, <4>2
    <3>4. QED
      BY <3>1, <3>2, <3>3, AimTyped DEF IInv
  <2>4. QED
    BY <2>1, <2>2, <2>3 DEF Start
<1>4. \A r \in over : r[1] # j
  BY <1>1 DEF IInv, Begun
<1>5. TypeOK'
  BY <1>1, <1>2, <1>3 DEF IInv, TypeOK, secretVars
<1>6. Begun'
  <2>1. over' \subseteq listed'
    BY <1>2, <1>3 DEF IInv, Begun
  <2>2. ASSUME NEW r \in listed' PROVE stage'[r[1]] # "idle"
    <3>1. CASE r \in listed
      <4>1. r[1] \in Job
        BY <3>1 DEF IInv, TypeOK, Run
      <4>2. QED
        BY <1>1, <3>1, <4>1 DEF IInv, Begun
    <3>2. CASE r \notin listed
      BY <1>1, <1>3, <2>2, <3>2
    <3>3. QED
      BY <3>1, <3>2
  <2>3. QED
    BY <2>1, <2>2 DEF Begun
<1>7. Causes'
  <2> SUFFICES ASSUME NEW r \in Run, NEW i \in DOMAIN to'[r], r \in over' \/ i < at'[r]
               PROVE  Cause(r, i)'
    BY DEF Causes
  <2>1. CASE to'[r] = to[r] /\ at'[r] = at[r]
    BY <1>2, <2>1, CauseStays DEF IInv, Causes
  <2>2. CASE ~(to'[r] = to[r] /\ at'[r] = at[r])
    <3>1. r \notin over' /\ at'[r] = 1
      BY <1>2, <1>3, <1>4, <2>2
    <3>2. i \in 1..Len(to'[r])
      BY <1>3, RecipientsHaveLengths
    <3>3. QED
      BY <3>1, <3>2, <1>3, RecipientsHaveLengths, JobAssumption
  <2>3. QED
    BY <2>1, <2>2
<1>8. Called' /\ CountedWereDelivered'
  BY <1>2, <1>3 DEF IInv, Called, CountedWereDelivered
<1>9. QED
  BY <1>5, <1>6, <1>7, <1>8 DEF IInv

LEMMA ReadListStep ==
    ASSUME IInv, NEW j \in Job, ReadList(j)
    PROVE  IInv'
<1>1. /\ stage' = [stage EXCEPT ![j] = "list"] /\ listed \subseteq listed'
      /\ \A r \in listed' \ listed : r \in Run /\ r[1] = j
      /\ UNCHANGED <<secretVars, runVars, open, delivered, answer, filed, counted>>
  BY DEF ReadList, Goto, Runs, Run, IInv, TypeOK
<1>2. TypeOK'
  BY <1>1 DEF IInv, TypeOK, secretVars, runVars
<1>3. Begun'
  BY <1>1 DEF IInv, Begun, runVars, TypeOK, Run
<1>4. QED
  BY <1>1, <1>2, <1>3, CausesStay DEF IInv, Called, CountedWereDelivered

LEMMA FinishStep ==
    ASSUME IInv, NEW j \in Job, Finish(j)
    PROVE  IInv'
<1>1. /\ stage' = [stage EXCEPT ![j] = "ended"]
      /\ UNCHANGED <<secretVars, listed, runVars, open, delivered, answer, filed, counted>>
  BY DEF Finish, Goto
<1>2. TypeOK' /\ Begun'
  BY <1>1 DEF IInv, TypeOK, Begun, secretVars, runVars
<1>3. QED
  BY <1>1, <1>2, CausesStay DEF IInv, Called, CountedWereDelivered

LEMMA ResolveStep ==
    ASSUME IInv, NEW r \in Run, Resolve(r)
    PROVE  IInv'
<1>1. PICK us \in {holders[r[2]], <<>>} :
        /\ to' = [to EXCEPT ![r] = us]
        /\ at' = [at EXCEPT ![r] = IF us = <<>> THEN 0 ELSE 1]
        /\ over' = IF us = <<>> THEN over \cup {r} ELSE over
  BY DEF Resolve
<1>2. /\ r \in listed /\ r \notin over /\ at[r] = 0
      /\ UNCHANGED <<secretVars, stage, listed, open, delivered, answer, filed, counted>>
  BY DEF Resolve, Turn
<1>3. us \in Recipients
  <2>1. <<>> \in [1..0 -> Account] /\ 0 \in 0..MaxHolders
    BY JobAssumption
  <2>2. <<>> \in Recipients
    BY <2>1 DEF Recipients
  <2>3. r[2] \in Entry => holders[r[2]] \in Recipients
    BY JobAssumption DEF IInv, TypeOK
  <2>4. r[2] \in Entry
    BY DEF Resolve, Run
  <2>5. QED
    BY <2>2, <2>3, <2>4, <1>1
<1>4. Len(us) \in 0..MaxHolders /\ DOMAIN us = 1..Len(us) /\ (us # <<>> => 1 \in 0..MaxHolders)
  BY <1>3, RecipientsHaveLengths
<1>5. TypeOK'
  BY <1>1, <1>2, <1>3, <1>4, JobAssumption DEF IInv, TypeOK, secretVars
<1>6. Begun'
  BY <1>1, <1>2 DEF IInv, Begun
<1>7. Causes'
  <2> SUFFICES ASSUME NEW q \in Run, NEW i \in DOMAIN to'[q], q \in over' \/ i < at'[q]
               PROVE  Cause(q, i)'
    BY DEF Causes
  <2>1. CASE q = r
    BY <1>1, <1>2, <1>4, <2>1 DEF IInv, TypeOK
  <2>2. CASE q # r
    BY <1>1, <1>2, <2>2, CauseStays DEF IInv, Causes, TypeOK
  <2>3. QED
    BY <2>1, <2>2
<1>8. QED
  BY <1>2, <1>5, <1>6, <1>7 DEF IInv, Called, CountedWereDelivered

LEMMA SkipStep ==
    ASSUME IInv, NEW r \in Run, Skip(r)
    PROVE  IInv'
<1>1. /\ at[r] # 0 /\ r \in listed /\ Advance(r)
      /\ UNCHANGED <<secretVars, stage, listed, to, open, delivered, answer, filed, counted>>
  BY DEF Skip, Ready, Turn
<1>2. \A i \in DOMAIN to[r] : i = at[r] => Cause(r, i)'
  BY <1>1 DEF Skip, Recipient, Cause, Skipped
<1>3. at' \in [Run -> 0..MaxHolders] /\ over' \subseteq Run /\ Begun' /\ Causes'
  BY <1>1, <1>2, AdvanceStep
<1>4. TypeOK'
  BY <1>1, <1>3 DEF IInv, TypeOK, secretVars
<1>5. QED
  BY <1>1, <1>3, <1>4 DEF IInv, Called, CountedWereDelivered

LEMMA FallbackStep ==
    ASSUME IInv, NEW r \in Run, Fallback(r)
    PROVE  IInv'
<1>1. /\ at[r] # 0 /\ r \in listed /\ Advance(r)
      /\ filed' = filed \cup {<<r, at[r]>>}
      /\ UNCHANGED <<secretVars, stage, listed, to, open, delivered, answer, counted>>
  BY DEF Fallback, Ready, Turn, Current
<1>2. \A i \in DOMAIN to[r] : i = at[r] => Cause(r, i)'
  BY <1>1 DEF Cause
<1>3. at' \in [Run -> 0..MaxHolders] /\ over' \subseteq Run /\ Begun' /\ Causes'
  BY <1>1, <1>2, AdvanceStep
<1>4. <<r, at[r]>> \in Call
  BY <1>1, JobAssumption DEF IInv, TypeOK, Call
<1>5. TypeOK'
  BY <1>1, <1>3, <1>4 DEF IInv, TypeOK, secretVars
<1>6. QED
  BY <1>1, <1>3, <1>5 DEF IInv, Called, CountedWereDelivered

LEMMA PostStep ==
    ASSUME IInv, NEW r \in Run, Post(r)
    PROVE  IInv'
<1>1. /\ at[r] # 0 /\ open' = open \cup {<<r, at[r]>>}
      /\ UNCHANGED <<secretVars, stage, listed, runVars, delivered, answer, filed, counted>>
  BY DEF Post, Ready, Current
<1>2. <<r, at[r]>> \in Call
  BY <1>1, JobAssumption DEF IInv, TypeOK, Call
<1>3. TypeOK' /\ Begun'
  BY <1>1, <1>2 DEF IInv, TypeOK, Begun, secretVars, runVars
<1>4. Called'
  BY <1>1 DEF Post, Ready, Turn, IInv, Called
<1>5. QED
  BY <1>1, <1>3, <1>4, CausesStay DEF IInv, CountedWereDelivered

LEMMA ArriveStep ==
    ASSUME IInv, NEW c \in Call, Arrive(c)
    PROVE  IInv'
<1>1. /\ delivered' = delivered \cup {c}
      /\ UNCHANGED <<secretVars, stage, listed, runVars, open, answer, filed, counted>>
  BY DEF Arrive, Send!Deliver
<1>2. TypeOK' /\ Begun'
  BY <1>1 DEF IInv, TypeOK, Begun, secretVars, runVars
<1>3. QED
  BY <1>1, <1>2, CausesStay DEF IInv, Called, CountedWereDelivered

\* The only step that counts: the answer true is given for a message that has arrived.
LEMMA AnsweredStep ==
    ASSUME IInv, NEW r \in Run, NEW a \in Answers, Answered(r, a)
    PROVE  IInv'
<1> DEFINE c == <<r, at[r]>>
<1>1. /\ c \in open /\ answer[c] = "none"
      /\ a = "true" => c \in delivered \cup Self
      /\ answer' = [answer EXCEPT ![c] = a]
      /\ UNCHANGED delivered
      /\ counted' = IF a = "true" THEN counted \cup {c} ELSE counted
      /\ open' = IF a = "lost" THEN open ELSE open \ {c}
      /\ UNCHANGED <<secretVars, stage, listed, to, filed>>
  BY DEF Answered, Current, Send!End
<1>2. c \in Call /\ at[r] # 0 /\ r \in listed
  BY <1>1, JobAssumption DEF IInv, TypeOK, Call, Called
<1>3. a \in Send!Answers
  BY DEF Answers, Send!Answers
<1>4. /\ answer' \in [Call -> Send!Answers] /\ answer'[c] = a
      /\ \A d \in Call : answer[d] # "none" => answer'[d] = answer[d]
  BY <1>1, <1>2, <1>3 DEF IInv, TypeOK
<1>5. CountedWereDelivered'
  BY <1>1 DEF IInv, CountedWereDelivered, Self
<1>6. at' \in [Run -> 0..MaxHolders] /\ over' \subseteq Run /\ Begun' /\ Causes'
  <2>1. CASE a \in {"true", "false"}
    <3>1. Advance(r)
      BY <2>1 DEF Answered
    <3>2. \A i \in DOMAIN to[r] : i = at[r] => Cause(r, i)'
      BY <1>4, <2>1 DEF Cause
    <3>3. QED
      BY <1>1, <1>2, <1>4, <3>1, <3>2, AdvanceStep
  <2>2. CASE a \notin {"true", "false"}
    <3>1. over' = (IF a = "thrown" THEN over \cup {r} ELSE over) /\ UNCHANGED at
      BY <2>2 DEF Answered
    <3>2. at' \in [Run -> 0..MaxHolders] /\ over' \subseteq Run
      BY <3>1 DEF IInv, TypeOK
    <3>3. Begun'
      BY <3>1, <1>1, <1>2 DEF IInv, Begun
    <3> SUFFICES ASSUME NEW q \in Run, NEW i \in DOMAIN to'[q], q \in over' \/ i < at'[q]
                 PROVE  Cause(q, i)'
      BY <3>2, <3>3 DEF Causes
    <3>4. CASE q \in over \/ i < at[q]
      BY <1>1, <1>4, <3>4, CauseStays DEF IInv, Causes
    <3>5. CASE ~(q \in over \/ i < at[q])
      <4>1. q = r /\ a = "thrown"
        BY <3>1, <3>5
      <4>2. i \in Nat /\ at[r] \in Nat
        BY <1>1, <4>1, RecipientsHaveLengths, JobAssumption DEF IInv, TypeOK
      <4>3. at[r] \in 1..i
        BY <1>2, <3>5, <4>1, <4>2
      <4>4. QED
        BY <1>4, <4>1, <4>3 DEF Cause
    <3>6. QED
      BY <3>4, <3>5
  <2>3. QED
    BY <2>1, <2>2
<1>7. TypeOK'
  BY <1>1, <1>2, <1>4, <1>6 DEF IInv, TypeOK, secretVars
<1>8. Called'
  BY <1>1 DEF IInv, Called
<1>9. QED
  BY <1>5, <1>6, <1>7, <1>8 DEF IInv

LEMMA ChangeStep ==
    ASSUME IInv, NEW e \in Entry, Change(e)
    PROVE  IInv'
<1>1. /\ changes < MaxChanges /\ changes' = changes + 1
      /\ UNCHANGED <<stage, listed, runVars, open, delivered, answer, filed, counted>>
  BY DEF Change
<1>2. exists' \in BOOLEAN /\ shared' \subseteq Entry /\ holders' \in [Entry -> Found]
  BY DEF Change, IInv, TypeOK
<1>3. changes' \in 0..MaxChanges
  BY <1>1, JobAssumption DEF IInv, TypeOK
<1>4. TypeOK' /\ Begun'
  BY <1>1, <1>2, <1>3 DEF IInv, TypeOK, Begun, runVars
<1>5. QED
  BY <1>1, <1>4, CausesStay DEF IInv, Called, CountedWereDelivered

LEMMA NextIInv == IInv /\ [Next]_vars => IInv'
<1> SUFFICES ASSUME IInv, [Next]_vars PROVE IInv'
  OBVIOUS
<1>1. CASE \E j \in Job : Start(j) \/ ReadList(j) \/ Finish(j)
  BY <1>1, StartStep, ReadListStep, FinishStep
<1>2. ASSUME NEW r \in Run, Step(r) PROVE IInv'
  BY <1>2, ResolveStep, SkipStep, FallbackStep, PostStep, AnsweredStep DEF Step
<1>3. CASE \E c \in Call : Arrive(c)
  BY <1>3, ArriveStep
<1>4. CASE \E e \in Entry : Change(e)
  BY <1>4, ChangeStep
<1>5. CASE UNCHANGED vars
  <2>1. UNCHANGED <<secretVars, stage, listed, runVars, open, delivered, answer, filed, counted>>
    BY <1>5 DEF vars
  <2>2. TypeOK' /\ Begun'
    BY <2>1 DEF IInv, TypeOK, Begun, secretVars, runVars
  <2>3. QED
    BY <2>1, <2>2, CausesStay DEF IInv, Called, CountedWereDelivered
<1>6. QED
  BY <1>1, <1>2, <1>3, <1>4, <1>5 DEF Next

\* The inductive invariant holds in every behaviour.
THEOREM FanoutInvariant == Spec => []IInv
  BY InitIInv, NextIInv, PTL DEF Spec

\* Every variable keeps its type, and a run's position stays within its recipients.
THEOREM TypeCorrect == Spec => []TypeOK
<1>1. IInv => TypeOK
  BY DEF IInv
<1>2. QED
  BY <1>1, FanoutInvariant, PTL

\* Nobody is passed over without a cause, however many runs go on at once
\* (password-notification.service.ts:115-155, 343-421; telegram.service.ts:344-379).
THEOREM SilenceHasACauseHolds == Spec => []SilenceHasACause
<1>1. IInv => SilenceHasACause
  BY DEF IInv, Causes, SilenceHasACause, TypeOK
<1>2. QED
  BY <1>1, FanoutInvariant, PTL

\* What an operator is told was sent has arrived, or was for himself
\* (telegram.service.ts:363-391).
THEOREM CountedWereDeliveredHolds == Spec => []CountedWereDelivered
<1>1. IInv => CountedWereDelivered
  BY DEF IInv
<1>2. QED
  BY <1>1, FanoutInvariant, PTL

------------------------------------------------------------------------------
(* The calls. *)

\* What makes the bounds inductive: a call about to post has received fewer copies than it has
\* begun attempts, and a call about to store a SENT record holds a copy that has none yet.
SlotInv ==
    \A c \in SendCall :
        /\ attempt[c] <= Retries[c]
        /\ copies[c] <= attempt[c]
        /\ sent[c] <= copies[c]
        /\ pc[c] = "idle" => attempt[c] = 0 /\ copies[c] = 0
        /\ pc[c] = "post" => copies[c] < attempt[c]
        /\ pc[c] = "backoff" => attempt[c] < Retries[c]
        /\ pc[c] = "logSent" => sent[c] < copies[c]

\* A call has a result exactly when it has ended.
EndInv == \A c \in SendCall : result[c] = "none" <=> pc[c] # "ended"

CallInv == SendTypeOK /\ SlotInv /\ EndInv

LEMMA InitCallInv == SendInit => CallInv
  BY CallAssumption, EnvironmentAssumption
  DEF SendInit, CallInv, SendTypeOK, SlotInv, EndInv, Steps, Results

\* The changes other requests make touch no call.
LEMMA AccountsApart ==
    ASSUME CallInv, NEW u \in User, SwitchPrivacy(u) \/ SwitchRegistered(u)
    PROVE  CallInv'
<1>1. UNCHANGED <<callVars, chatVars, logVars>>
  BY DEF SwitchPrivacy, SwitchRegistered
<1>2. SlotInv' /\ EndInv'
  BY <1>1 DEF CallInv, SlotInv, EndInv, callVars, chatVars, logVars
<1>3. accountChanges' \in 0..MaxAccountChanges
  BY EnvironmentAssumption DEF CallInv, SendTypeOK, SwitchPrivacy, SwitchRegistered, AccountChange
<1>4. CASE SwitchPrivacy(u)
  <2>1. privacyMode' \in [User -> BOOLEAN] /\ registered' \in [User -> BOOLEAN]
    BY <1>4 DEF CallInv, SendTypeOK, SwitchPrivacy
  <2>2. wasOpen' \in [SendCall -> BOOLEAN]
    BY <1>4, Zenon DEF CallInv, SendTypeOK, SwitchPrivacy
  <2>3. QED
    BY <1>1, <1>2, <1>3, <2>1, <2>2 DEF CallInv, SendTypeOK, callVars, chatVars, logVars
<1>5. CASE SwitchRegistered(u)
  <2>1. /\ privacyMode' \in [User -> BOOLEAN] /\ registered' \in [User -> BOOLEAN]
        /\ wasOpen' \in [SendCall -> BOOLEAN]
    BY <1>5 DEF CallInv, SendTypeOK, SwitchRegistered
  <2>2. QED
    BY <1>1, <1>2, <1>3, <2>1 DEF CallInv, SendTypeOK, callVars, chatVars, logVars
<1>6. QED
  BY <1>4, <1>5

\* Where a call goes after a failed attempt.
LEMMA AfterFailureStep ==
    ASSUME SendTypeOK, NEW c \in SendCall
    PROVE  /\ AfterFailure(c) \in {"backoff", "logFailed"}
           /\ AfterFailure(c) = "backoff" => attempt[c] < Retries[c]
  BY DEF AfterFailure

\* Every step of a call keeps its counters in order.
LEMMA CallStep ==
    ASSUME CallInv, NEW c \in SendCall, SendStep(c) \/ Stop(c)
    PROVE  CallInv'
<1> USE CallAssumption DEF CallInv
<1>1. CASE Begin(c)
  <2>1. CASE ~HasToken
    BY <1>1, <2>1 DEF Begin, SendTypeOK, SlotInv, EndInv, Return, accountVars, chatVars,
                      logVars, Steps, Results
  <2>2. CASE HasToken
    <3>1. PICK readFails \in BOOLEAN :
            LET found == ~readFails /\ registered[To[c]]
            IN  /\ known' = [known EXCEPT ![c] = found]
                /\ generic' = [generic EXCEPT ![c] = found /\ privacyMode[To[c]]]
                /\ wasOpen' = [wasOpen EXCEPT ![c] = ~(found /\ privacyMode[To[c]])]
                /\ attempt' = [attempt EXCEPT ![c] = IF Retries[c] = 0 THEN 0 ELSE 1]
                /\ IF found /\ c \in ToSelf THEN Return(c, "true")
                   ELSE IF Retries[c] = 0 THEN Return(c, "false")
                   ELSE Continue(c, "post")
      BY <1>1, <2>2 DEF Begin
    <3>2. /\ known' \in [SendCall -> BOOLEAN]
          /\ generic' \in [SendCall -> BOOLEAN]
          /\ wasOpen' \in [SendCall -> BOOLEAN]
      BY <3>1, Zenon DEF SendTypeOK
    <3>3. /\ pc[c] = "idle"
          /\ UNCHANGED <<accountVars, answered, chatVars, logVars, accountChanges>>
      BY <1>1 DEF Begin
    <3>4. attempt' = [attempt EXCEPT ![c] = IF Retries[c] = 0 THEN 0 ELSE 1]
      BY <3>1, Zenon
    <3>5. \/ Return(c, "true")
          \/ Return(c, "false")
          \/ Continue(c, "post") /\ Retries[c] # 0
      BY <3>1, Zenon
    <3>6. SendTypeOK'
      BY <3>2, <3>3, <3>4, <3>5
      DEF SendTypeOK, Return, Continue, accountVars, chatVars, logVars, Steps, Results
    <3>7. SlotInv' /\ EndInv'
      BY <3>3, <3>4, <3>5 DEF SendTypeOK, SlotInv, EndInv, Return, Continue, chatVars, logVars
    <3>8. QED
      BY <3>6, <3>7
  <2>3. QED
    BY <2>1, <2>2
<1>2. CASE PostMessage(c)
  <2>1. /\ pc[c] = "post"
        /\ UNCHANGED <<accountVars, attempt, known, generic, logVars, wasOpen, accountChanges>>
    BY <1>2 DEF PostMessage
  <2>2. PICK arrives \in BOOLEAN : MessageArrives(c, arrives)
    BY <1>2 DEF PostMessage
  <2>3. revealed' \in [SendCall -> BOOLEAN]
    BY <2>2, Zenon DEF MessageArrives, SendTypeOK
  <2>4. answered' \in [SendCall -> BOOLEAN]
    BY <1>2, Zenon DEF PostMessage, SendTypeOK
  <2>5. copies' = [copies EXCEPT ![c] = IF arrives THEN @ + 1 ELSE @]
    BY <2>2 DEF MessageArrives
  <2>6. \/ Continue(c, "logSent") /\ copies' = [copies EXCEPT ![c] = @ + 1]
        \/ Return(c, "false")
        \/ Continue(c, AfterFailure(c))
    BY <1>2 DEF PostMessage, MessageArrives
  <2>7. SendTypeOK'
    BY <2>1, <2>3, <2>4, <2>5, <2>6, AfterFailureStep
    DEF SendTypeOK, Return, Continue, accountVars, logVars, Steps, Results
  <2>8. SlotInv' /\ EndInv'
    BY <2>1, <2>5, <2>6, AfterFailureStep
    DEF SendTypeOK, SlotInv, EndInv, Return, Continue, logVars
  <2>9. QED
    BY <2>7, <2>8
<1>3. CASE Backoff(c)
  BY <1>3 DEF Backoff, SendTypeOK, SlotInv, EndInv, Continue, accountVars, chatVars, logVars,
              Steps, Results
<1>4. CASE LogSent(c)
  <2>1. /\ pc[c] = "logSent"
        /\ UNCHANGED <<accountVars, attempt, known, generic, chatVars, failed, wasOpen,
                       accountChanges>>
    BY <1>4 DEF LogSent
  <2>2. /\ \/ sent' = [sent EXCEPT ![c] = @ + 1]
           \/ sent' = [sent EXCEPT ![c] = @]
        /\ \/ Return(c, "true")
           \/ Continue(c, AfterFailure(c))
        /\ \/ UNCHANGED answered
           \/ answered' = [answered EXCEPT ![c] = FALSE]
    BY <1>4 DEF LogSent
  <2>3. SendTypeOK'
    <3>1. sent' \in [SendCall -> Nat]
      BY <2>2 DEF SendTypeOK
    <3>2. answered' \in [SendCall -> BOOLEAN]
      BY <2>2, Zenon DEF SendTypeOK
    <3>3. pc' \in [SendCall -> Steps] /\ result' \in [SendCall -> Results]
      BY <2>2, AfterFailureStep DEF SendTypeOK, Return, Continue, Steps, Results
    <3>4. QED
      BY <2>1, <3>1, <3>2, <3>3 DEF SendTypeOK, accountVars, chatVars
  <2>4. SlotInv' /\ EndInv'
    BY <2>1, <2>2, AfterFailureStep
    DEF SendTypeOK, SlotInv, EndInv, Return, Continue, chatVars
  <2>5. QED
    BY <2>3, <2>4
<1>5. CASE LogFailed(c)
  BY <1>5 DEF LogFailed, SendTypeOK, SlotInv, EndInv, Return, accountVars, chatVars,
              Steps, Results
<1>6. CASE Stop(c)
  BY <1>6 DEF Stop, SendTypeOK, SlotInv, EndInv, Return, accountVars, chatVars, logVars,
              Steps, Results
<1>7. QED
  BY <1>1, <1>2, <1>3, <1>4, <1>5, <1>6 DEF SendStep

\* The inductive invariant holds in every reachable state.
THEOREM DeliveryInvariant == SendSpec => []CallInv
<1>1. CallInv /\ [SendNext]_sendVars => CallInv'
  <2> SUFFICES ASSUME CallInv, [SendNext]_sendVars PROVE CallInv'
    OBVIOUS
  <2>1. CASE UNCHANGED sendVars
    BY <2>1 DEF CallInv, SendTypeOK, SlotInv, EndInv, sendVars, callVars, chatVars, logVars,
                accountVars
  <2>2. QED
    BY <2>1, CallStep, AccountsApart DEF SendNext, AllEnded
<1>2. QED
  BY InitCallInv, <1>1, PTL DEF SendSpec

\* Every variable of a call keeps its type, whatever fails.
THEOREM SendTypeCorrect == SendSpec => []SendTypeOK
<1>1. CallInv => SendTypeOK
  BY DEF CallInv
<1>2. QED
  BY <1>1, DeliveryInvariant, PTL

\* A recipient gets at most one copy per attempt, and a call makes at most Retries attempts.
THEOREM CopiesWithinRetriesHolds == SendSpec => []CopiesWithinRetries
<1>1. CallInv => CopiesWithinRetries
  BY DEF CallInv, SlotInv, CopiesWithinRetries
<1>2. QED
  BY <1>1, DeliveryInvariant, PTL

\* Every SENT record stands for a copy of its own.
THEOREM SentWasDeliveredHolds == SendSpec => []SentWasDelivered
<1>1. CallInv => SentWasDelivered
  BY DEF CallInv, SlotInv, SentWasDelivered
<1>2. QED
  BY <1>1, DeliveryInvariant, PTL

\* What a call remembers of the recipient's privacy mode: a call that runs with the original
\* text has seen the mode off, or failed to read it.
PrivacyInv ==
    \A c \in SendCall :
        /\ revealed[c] => pc[c] # "idle" /\ wasOpen[c]
        /\ pc[c] \notin {"idle", "ended"} /\ ~generic[c] => wasOpen[c]

\* Only an attempt can show a text, and wasOpen stays true once a call has begun.
LEMMA PrivacyStep ==
    ASSUME SendTypeOK, PrivacyInv, [SendNext]_sendVars
    PROVE  PrivacyInv'
<1>1. ASSUME NEW c \in SendCall, Begin(c) PROVE PrivacyInv'
  <2>1. pc[c] = "idle" /\ UNCHANGED revealed
    BY <1>1 DEF Begin, chatVars
  <2>2. ASSUME NEW d \in SendCall, d # c
        PROVE  pc'[d] = pc[d] /\ generic'[d] = generic[d] /\ wasOpen'[d] = wasOpen[d]
    <3>1. CASE HasToken
      <4>1. PICK off \in BOOLEAN :
              /\ generic' = [generic EXCEPT ![c] = off]
              /\ wasOpen' = [wasOpen EXCEPT ![c] = ~off]
        BY <1>1, <3>1 DEF Begin
      <4>2. pc'[d] = pc[d]
        <5>1. Return(c, "true") \/ Return(c, "false") \/ Continue(c, "post")
          BY <1>1, <3>1, Zenon DEF Begin
        <5>2. QED
          BY <2>2, <5>1 DEF SendTypeOK, Continue, Return
      <4>3. QED
        BY <2>2, <4>1, <4>2 DEF SendTypeOK
    <3>2. CASE ~HasToken
      BY <1>1, <2>2, <3>2 DEF Begin, SendTypeOK, Return
    <3>3. QED
      BY <3>1, <3>2
  <2>3. ~generic'[c] /\ pc'[c] \notin {"idle", "ended"} => wasOpen'[c]
    <3>1. CASE HasToken
      <4>1. PICK off \in BOOLEAN :
              /\ generic' = [generic EXCEPT ![c] = off]
              /\ wasOpen' = [wasOpen EXCEPT ![c] = ~off]
        BY <1>1, <3>1 DEF Begin
      <4>2. QED
        BY <4>1 DEF SendTypeOK
    <3>2. CASE ~HasToken
      BY <1>1, <3>2 DEF Begin, SendTypeOK, Return
    <3>3. QED
      BY <3>1, <3>2
  <2>4. QED
    BY <2>1, <2>2, <2>3 DEF PrivacyInv
<1>2. ASSUME NEW c \in SendCall, PostMessage(c) PROVE PrivacyInv'
  <2>1. /\ pc[c] = "post" /\ UNCHANGED <<generic, wasOpen>>
        /\ \E arrives \in BOOLEAN : MessageArrives(c, arrives)
    BY <1>2 DEF PostMessage
  <2>2. ASSUME NEW d \in SendCall
        PROVE  revealed'[d] => revealed[d] \/ (d = c /\ ~generic[c])
    BY <2>1, Zenon DEF MessageArrives, SendTypeOK
  <2>3. ASSUME NEW d \in SendCall, d # c PROVE pc'[d] = pc[d]
    BY <1>2, <2>3 DEF PostMessage, Continue, Return, SendTypeOK
  <2>4. pc'[c] # "idle"
    BY <1>2, AfterFailureStep DEF PostMessage, Continue, Return, SendTypeOK
  <2>5. QED
    BY <2>1, <2>2, <2>3, <2>4 DEF PrivacyInv
<1>3. ASSUME NEW c \in SendCall, Backoff(c) \/ LogSent(c) \/ LogFailed(c) \/ Stop(c)
      PROVE  PrivacyInv'
  <2>1. pc[c] \notin {"idle", "ended"} /\ UNCHANGED <<generic, wasOpen, revealed>>
    BY <1>3 DEF Backoff, LogSent, LogFailed, Stop, chatVars
  <2>2. pc'[c] # "idle"
    BY <1>3, AfterFailureStep DEF Backoff, LogSent, LogFailed, Stop, Continue, Return, SendTypeOK
  <2>3. ASSUME NEW d \in SendCall, d # c PROVE pc'[d] = pc[d]
    BY <1>3, <2>3 DEF Backoff, LogSent, LogFailed, Stop, Continue, Return, SendTypeOK
  <2>4. QED
    BY <2>1, <2>2, <2>3 DEF PrivacyInv
<1>4. ASSUME NEW u \in User, SwitchPrivacy(u) PROVE PrivacyInv'
  <2>1. UNCHANGED <<pc, generic, revealed>>
    BY <1>4 DEF SwitchPrivacy, callVars, chatVars
  <2>2. \A c \in SendCall : wasOpen[c] => wasOpen'[c]
    BY <1>4 DEF SwitchPrivacy
  <2>3. QED
    BY <2>1, <2>2 DEF PrivacyInv
<1>5. ASSUME NEW u \in User, SwitchRegistered(u) PROVE PrivacyInv'
  BY <1>5 DEF SwitchRegistered, callVars, chatVars, PrivacyInv
<1>6. CASE UNCHANGED sendVars
  BY <1>6 DEF sendVars, callVars, chatVars, PrivacyInv
<1>7. QED
  BY <1>1, <1>2, <1>3, <1>4, <1>5, <1>6 DEF SendNext, SendStep, AllEnded

\* Whoever had privacy mode on for the whole call is never shown the original text.
THEOREM PrivacyKeptHolds == SendSpec => []PrivacyKept
<1>1. SendInit => PrivacyInv
  BY DEF SendInit, PrivacyInv
<1>2. CallInv => SendTypeOK
  BY DEF CallInv
<1>3. PrivacyInv => PrivacyKept
  BY DEF PrivacyInv, PrivacyKept
<1>4. QED
  BY <1>1, <1>2, <1>3, DeliveryInvariant, PrivacyStep, PTL DEF SendSpec

\* sendMessage implements SendPromise: an answer true means delivered.  The copy that
\* justifies the answer was counted by Post, some steps before LogSent gives it.
THEOREM KeepsPromiseHolds == SendSpec => KeepsPromise
<1> DEFINE told == {c \in SendCall : copies[c] > 0}
<1>1. SendInit => Promise!Init
  BY DEF SendInit, Promise!Init
<1>2. CallInv /\ [SendNext]_sendVars => [Promise!Next]_<<told, result>>
  <2> SUFFICES ASSUME CallInv, [SendNext]_sendVars
               PROVE  Promise!Next \/ UNCHANGED <<told, result>>
    OBVIOUS
  <2>1. ASSUME NEW c \in SendCall, pc[c] # "ended", NEW r \in Results \ {"none"},
               Return(c, r), UNCHANGED copies,
               r = "true" => copies[c] > 0 \/ c \in ToSelf
        PROVE  Promise!Next
    <3>1. Promise!End(c, r)
      BY <2>1 DEF Promise!End, CallInv, EndInv, Return
    <3>2. r \in Promise!Answers \ {"none"}
      BY <2>1 DEF Promise!Answers, Results
    <3>3. QED
      BY <3>1, <3>2 DEF Promise!Next
  <2>2. ASSUME NEW c \in SendCall, pc[c] # "ended", UNCHANGED result,
               copies' = [copies EXCEPT ![c] = @ + 1]
        PROVE  Promise!Next
    <3>1. told' = told \cup {c}
      BY <2>2 DEF CallInv, SendTypeOK
    <3>2. Promise!Deliver(c)
      BY <2>2, <3>1 DEF Promise!Deliver, CallInv, EndInv
    <3>3. QED
      BY <3>2 DEF Promise!Next
  <2>3. ASSUME UNCHANGED <<copies, result>>
        PROVE  UNCHANGED <<told, result>>
    BY <2>3
  <2>4. ASSUME NEW c \in SendCall, Begin(c)
        PROVE  Promise!Next \/ UNCHANGED <<told, result>>
    <3>1. /\ pc[c] # "ended" /\ UNCHANGED copies
          /\ \/ Return(c, "false")
             \/ Return(c, "true") /\ c \in ToSelf
             \/ UNCHANGED result
      BY <2>4 DEF Begin, Continue, chatVars
    <3>2. QED
      BY <2>1, <2>3, <3>1 DEF Results
  <2>5. ASSUME NEW c \in SendCall, PostMessage(c)
        PROVE  Promise!Next \/ UNCHANGED <<told, result>>
    <3>1. PICK arrives \in BOOLEAN : MessageArrives(c, arrives)
      BY <2>5 DEF PostMessage
    <3>2. CASE Return(c, "false") /\ MessageArrives(c, FALSE)
      <4>1. UNCHANGED copies
        BY <3>2 DEF MessageArrives, CallInv, SendTypeOK
      <4>2. QED
        BY <2>1, <2>5, <3>2, <4>1 DEF PostMessage, Results
    <3>3. CASE UNCHANGED result
      <4>1. copies' = [copies EXCEPT ![c] = @ + 1] \/ UNCHANGED copies
        BY <3>1 DEF MessageArrives, CallInv, SendTypeOK
      <4>2. QED
        BY <2>2, <2>3, <2>5, <3>3, <4>1 DEF PostMessage
    <3>4. QED
      BY <2>5, <3>2, <3>3 DEF PostMessage, Continue
  <2>6. ASSUME NEW c \in SendCall, LogSent(c)
        PROVE  Promise!Next \/ UNCHANGED <<told, result>>
    <3>1. /\ pc[c] # "ended" /\ UNCHANGED copies
          /\ Return(c, "true") \/ UNCHANGED result
      BY <2>6 DEF LogSent, Continue, chatVars
    <3>2. copies[c] > 0
      BY <2>6 DEF LogSent, CallInv, SendTypeOK, SlotInv
    <3>3. QED
      BY <2>1, <2>3, <3>1, <3>2 DEF Results
  <2>7. ASSUME NEW c \in SendCall, LogFailed(c) \/ Stop(c)
        PROVE  Promise!Next
    <3>1. /\ pc[c] # "ended" /\ UNCHANGED copies
          /\ Return(c, "false") \/ Return(c, "thrown") \/ Return(c, "lost")
      BY <2>7 DEF LogFailed, Stop, chatVars
    <3>2. QED
      BY <2>1, <3>1 DEF Results
  <2>8. ASSUME \/ \E c \in SendCall : Backoff(c)
               \/ \E u \in User : SwitchPrivacy(u) \/ SwitchRegistered(u)
               \/ UNCHANGED sendVars
        PROVE  UNCHANGED <<told, result>>
    <3>1. UNCHANGED <<copies, result>>
      BY <2>8 DEF Backoff, Continue, SwitchPrivacy, SwitchRegistered, sendVars, callVars, chatVars
    <3>2. QED
      BY <2>3, <3>1
  <2>9. QED
    BY <2>4, <2>5, <2>6, <2>7, <2>8 DEF SendNext, SendStep, AllEnded
<1>3. QED
  BY <1>1, <1>2, DeliveryInvariant, PTL DEF SendSpec, KeepsPromise, Promise!Spec
==============================================================================
