----------------------------- MODULE PagesProofs -----------------------------
(***************************************************************************)
(* Proofs about Listings, for any documents, any number of rows on a page   *)
(* and any changes during a walk.                                           *)
(*                                                                         *)
(* A walk goes right because of ranks: a document's rank is how many of the *)
(* documents asked for are ahead of it, and page p holds ranks              *)
(* (p-1)*Limit to p*Limit - 1.  While none comes ahead of a document its    *)
(* rank cannot grow, so once answered it stays before the page asked for    *)
(* (RepeatedInv); while none ahead of it leaves, its rank cannot fall, so   *)
(* until answered it stays on that page or after it (MissedInv).  Of the    *)
(* recipients of a key both are claimed while their order stays (Ordered).  *)
(* Pages of shared secrets are cut from a pool whose order is that of the   *)
(* queries; FoundInv says what the queries have found in the course of a    *)
(* request, FoundAtOnceInv does when there are no pages.  What is read at   *)
(* once needs no ranks (WholeInv).  EverInv and ViewsInv are about one      *)
(* request: what it has read was so at some moment of it.                   *)
(***************************************************************************)
EXTENDS Listings, FiniteSetTheorems, TLAPS

\* The reads a request can be made of.
Reading == {"reader", "account", "access", "count", "find", "owners", "userId", "username",
            "publicAddress", "latest", "list", "distinct", "users", "reports"}

\* A request reads one thing after another, and at most its last two at the same time.
Shape(reads) ==
    /\ reads \in Seq(SUBSET Reading) /\ Len(reads) \in 1..7
    /\ \A i \in 1..Len(reads) :
          \/ reads[i] # {} /\ \A r, q \in reads[i] : r = q
          \/ i = Len(reads) /\ reads[i] = {"count", "find"}
    /\ \A i, j \in 1..Len(reads) : \A r : r \in reads[i] /\ r \in reads[j] => i = j

\* A tuple of members of S is a sequence over S.
LEMMA Tuples ==
    ASSUME NEW S
    PROVE  /\ \A a \in S : <<a>> \in Seq(S)
           /\ \A a, b \in S : <<a, b>> \in Seq(S)
           /\ \A a, b, c \in S : <<a, b, c>> \in Seq(S)
           /\ \A a, b, c, d, e \in S : <<a, b, c, d, e>> \in Seq(S)
           /\ \A a, b, c, d, e, f, g \in S : <<a, b, c, d, e, f, g>> \in Seq(S)
  OBVIOUS

\* The reads of each listing's handler, one after the other.
LEMMA ReadsAt ==
  /\ listing \in {"own", "notifications"} =>
        /\ Len(Reads) = 2 /\ Reads[1] = {"reader"} /\ Reads[2] = {"count", "find"}
  /\ listing \in {"logs", "usersExceptMe", "adminNotifications", "adminLogs"} =>
        /\ Len(Reads) = 1 /\ Reads[1] = {"count", "find"}
  /\ listing \in {"adminSecrets", "users", "reports"} =>
        /\ Len(Reads) = 2 /\ Reads[1] = {"count"} /\ Reads[2] = {"find"}
  /\ listing = "children" =>
        /\ Len(Reads) = 5 /\ Reads[1] = {"reader"} /\ Reads[2] = {"access"}
        /\ Reads[3] = {"count"} /\ Reads[4] = {"find"} /\ Reads[5] = {"owners"}
  /\ listing = "shared" =>
        /\ Len(Reads) = 5 /\ Reads[1] = {"reader"} /\ Reads[2] = {"userId"}
        /\ Reads[3] = {"username"} /\ Reads[4] = {"publicAddress"} /\ Reads[5] = {"owners"}
  /\ listing = "sharedWhole" =>
        /\ Len(Reads) = 7 /\ Reads[1] = {"reader"} /\ Reads[2] = {"account"}
        /\ Reads[3] = {"userId"} /\ Reads[4] = {"username"} /\ Reads[5] = {"publicAddress"}
        /\ Reads[6] = {"latest"} /\ Reads[7] = {"owners"}
  /\ listing = "reportedUsers" =>
        /\ Len(Reads) = 3 /\ Reads[1] = {"distinct"} /\ Reads[2] = {"users"}
        /\ Reads[3] = {"reports"}
  /\ listing = "recipients" =>
        /\ Len(Reads) = 2 /\ Reads[1] = {"access"} /\ Reads[2] = {"list"}
  /\ listing = "recipientsWhole" =>
        /\ Len(Reads) = 1 /\ Reads[1] = {"list"}
<1>1. CASE listing \in {"own", "notifications"}
  BY <1>1 DEF Reads
<1>2. CASE listing \in {"logs", "usersExceptMe", "adminNotifications", "adminLogs"}
  BY <1>2 DEF Reads
<1>3. CASE listing \in {"adminSecrets", "users", "reports"}
  BY <1>3 DEF Reads
<1>4. CASE listing = "children"
  BY <1>4 DEF Reads
<1>5. CASE listing = "shared"
  BY <1>5 DEF Reads
<1>6. CASE listing = "sharedWhole"
  BY <1>6 DEF Reads
<1>7. CASE listing = "reportedUsers"
  BY <1>7 DEF Reads
<1>8. CASE listing = "recipients"
  BY <1>8 DEF Reads
<1>9. CASE listing = "recipientsWhole"
  BY <1>9 DEF Reads
<1>10. QED
  BY <1>1, <1>2, <1>3, <1>4, <1>5, <1>6, <1>7, <1>8, <1>9

\* The reads every listing's handler makes have that shape.
LEMMA ReadsShape ==
    ASSUME listing \in Kinds
    PROVE  Shape(Reads)
<1>1. Reads \in Seq(SUBSET Reading)
  <2>1. CASE listing \in {"own", "notifications"}
    BY <2>1, Tuples DEF Reads, Reading
  <2>2. CASE listing \in {"logs", "usersExceptMe", "adminNotifications", "adminLogs"}
    BY <2>2, Tuples DEF Reads, Reading
  <2>3. CASE listing \in {"adminSecrets", "users", "reports"}
    BY <2>3, Tuples DEF Reads, Reading
  <2>4. CASE listing = "children"
    BY <2>4, Tuples DEF Reads, Reading
  <2>5. CASE listing = "shared"
    BY <2>5, Tuples DEF Reads, Reading
  <2>6. CASE listing = "sharedWhole"
    BY <2>6, Tuples DEF Reads, Reading
  <2>7. CASE listing = "reportedUsers"
    BY <2>7, Tuples DEF Reads, Reading
  <2>8. CASE listing = "recipients"
    BY <2>8, Tuples DEF Reads, Reading
  <2>9. CASE listing = "recipientsWhole"
    BY <2>9, Tuples DEF Reads, Reading
  <2>10. QED
    BY <2>1, <2>2, <2>3, <2>4, <2>5, <2>6, <2>7, <2>8, <2>9 DEF Kinds, Secrets
<1>2. CASE listing \in {"own", "notifications"}
  <2>1. /\ Len(Reads) = 2 /\ Reads[1] = {"reader"} /\ Reads[2] = {"count", "find"}
    BY <1>2, ReadsAt
  <2>2. QED
    BY <1>1, <1>2, <2>1 DEF Shape
<1>3. CASE listing \in {"logs", "usersExceptMe", "adminNotifications", "adminLogs"}
  <2>1. /\ Len(Reads) = 1 /\ Reads[1] = {"count", "find"}
    BY <1>3, ReadsAt
  <2>2. QED
    BY <1>1, <1>3, <2>1 DEF Shape
<1>4. CASE listing \in {"adminSecrets", "users", "reports"}
  <2>1. /\ Len(Reads) = 2 /\ Reads[1] = {"count"} /\ Reads[2] = {"find"}
    BY <1>4, ReadsAt
  <2>2. QED
    BY <1>1, <1>4, <2>1 DEF Shape
<1>5. CASE listing = "children"
  <2>1. /\ Len(Reads) = 5 /\ Reads[1] = {"reader"} /\ Reads[2] = {"access"}
      /\ Reads[3] = {"count"} /\ Reads[4] = {"find"} /\ Reads[5] = {"owners"}
    BY <1>5, ReadsAt
  <2>2. QED
    BY <1>1, <1>5, <2>1 DEF Shape
<1>6. CASE listing = "shared"
  <2>1. /\ Len(Reads) = 5 /\ Reads[1] = {"reader"} /\ Reads[2] = {"userId"}
      /\ Reads[3] = {"username"} /\ Reads[4] = {"publicAddress"} /\ Reads[5] = {"owners"}
    BY <1>6, ReadsAt
  <2>2. QED
    BY <1>1, <1>6, <2>1 DEF Shape
<1>7. CASE listing = "sharedWhole"
  <2>1. /\ Len(Reads) = 7 /\ Reads[1] = {"reader"} /\ Reads[2] = {"account"}
      /\ Reads[3] = {"userId"} /\ Reads[4] = {"username"} /\ Reads[5] = {"publicAddress"}
      /\ Reads[6] = {"latest"} /\ Reads[7] = {"owners"}
    BY <1>7, ReadsAt
  <2>2. QED
    BY <1>1, <1>7, <2>1 DEF Shape
<1>8. CASE listing = "reportedUsers"
  <2>1. /\ Len(Reads) = 3 /\ Reads[1] = {"distinct"} /\ Reads[2] = {"users"}
      /\ Reads[3] = {"reports"}
    BY <1>8, ReadsAt
  <2>2. QED
    BY <1>1, <1>8, <2>1 DEF Shape
<1>9. CASE listing = "recipients"
  <2>1. /\ Len(Reads) = 2 /\ Reads[1] = {"access"} /\ Reads[2] = {"list"}
    BY <1>9, ReadsAt
  <2>2. QED
    BY <1>1, <1>9, <2>1 DEF Shape
<1>10. CASE listing = "recipientsWhole"
  <2>1. /\ Len(Reads) = 1 /\ Reads[1] = {"list"}
    BY <1>10, ReadsAt
  <2>2. QED
    BY <1>1, <1>10, <2>1 DEF Shape
<1>11. QED
  BY <1>2, <1>3, <1>4, <1>5, <1>6, <1>7, <1>8, <1>9, <1>10 DEF Kinds, Secrets

------------------------------------------------------------------------------

\* The reads of a request from the i-th on.
Rest(i) == SubSeq(Reads, i, Len(Reads))

\* Of a request, only its last reads are left; of two at the same time, one may be over.
StageInv == Walking =>
    \/ \E i \in 1..(Len(Reads) + 1) : todo = Rest(i)
    \/ Reads[Len(Reads)] = {"count", "find"} /\ todo \in {<<{"count"}>>, <<{"find"}>>}

\* A read is pending until its request has made it.
Pending(r) == \E i \in DOMAIN todo : r \in todo[i]

\* A request runs from its first read to its answer.
Running == Walking /\ todo # Reads

\* What Rest leaves of a sequence.
LEMMA Suffix ==
    ASSUME NEW S, NEW s \in Seq(S), NEW i \in 1..(Len(s) + 1)
    PROVE  LET t == SubSeq(s, i, Len(s))
           IN  /\ t \in Seq(S) /\ Len(t) = Len(s) - i + 1
               /\ \A j \in 1..Len(t) : t[j] = s[i + j - 1]
               /\ t # <<>> => /\ i <= Len(s) /\ Head(t) = s[i]
                              /\ Tail(t) = SubSeq(s, i + 1, Len(s))
  OBVIOUS

\* What a read leaves: the others, in their order.
Went(r) ==
    /\ Walking /\ Walking' /\ StageInv' /\ todo' # Reads /\ Len(todo') \in 0..7
    /\ r \in Reading /\ Pending(r) /\ ~ Pending(r)'
    /\ \A q \in Reading \ {r} : Pending(q)' <=> Pending(q)

\* What is pending when the i-th read of a request is the next.
LEMMA RestPending ==
    ASSUME listing \in Kinds, NEW i \in 1..(Len(Reads) + 1)
    PROVE  \A r : (\E j \in DOMAIN Rest(i) : r \in Rest(i)[j])
                     <=> (\E j \in i..Len(Reads) : r \in Reads[j])
<1> DEFINE t == Rest(i)
<1>1. Shape(Reads)
  BY ReadsShape
<1>2. /\ t \in Seq(SUBSET Reading) /\ Len(t) = Len(Reads) - i + 1 /\ Len(Reads) \in 1..7
      /\ \A j \in 1..Len(t) : t[j] = Reads[i + j - 1]
  BY <1>1, Suffix DEF Shape, Rest
<1>3. DOMAIN t = 1..Len(t)
  BY <1>2
<1>4. ASSUME NEW j \in i..Len(Reads)
      PROVE  j - i + 1 \in DOMAIN t /\ t[j - i + 1] = Reads[j]
  BY <1>2, <1>3
<1>5. ASSUME NEW j \in DOMAIN t
      PROVE  i + j - 1 \in i..Len(Reads) /\ t[j] = Reads[i + j - 1]
  BY <1>2, <1>3
<1> HIDE DEF t
<1>6. \A r : (\E j \in DOMAIN t : r \in t[j]) <=> (\E j \in i..Len(Reads) : r \in Reads[j])
  BY <1>4, <1>5
<1>7. QED
  BY <1>6 DEF t

\* Neither end of a walk is a rest of its reads.
LEMMA RestWalks ==
    ASSUME listing \in Kinds, NEW i \in 1..(Len(Reads) + 1)
    PROVE  Rest(i) \notin {<<{"done"}>>, <<{"denied"}>>}
<1>1. Shape(Reads)
  BY ReadsShape
<1>2. /\ Rest(i) \in Seq(SUBSET Reading)
  BY <1>1, Suffix DEF Shape, Rest
<1>3. <<{"done"}>> \notin Seq(SUBSET Reading) /\ <<{"denied"}>> \notin Seq(SUBSET Reading)
  BY DEF Reading
<1>4. QED
  BY <1>2, <1>3

\* Of two reads at the same time, either is made first.
LEMMA Pair ==
    ASSUME NEW r, todo = <<{"count", "find"}>>, Do(r)
    PROVE  \/ r = "count" /\ todo' = <<{"find"}>>
           \/ r = "find" /\ todo' = <<{"count"}>>
<1>1. Head(todo) = {"count", "find"} /\ Tail(todo) = <<>>
  OBVIOUS
<1>2. r \in {"count", "find"} /\ {"count", "find"} # {r}
  BY <1>1 DEF Do
<1>3. todo' = <<{"count", "find"} \ {r}>> \o <<>>
  BY <1>1, <1>2 DEF Do
<1>4. \A a : <<a>> \o <<>> = <<a>>
  OBVIOUS
<1>5. /\ {"count", "find"} \ {"count"} = {"find"}
      /\ {"count", "find"} \ {"find"} = {"count"}
  OBVIOUS
<1>6. QED
  BY <1>2, <1>3, <1>4, <1>5

\* Of a sequence of one set, its members are pending.
LEMMA One ==
    ASSUME NEW t, NEW a, t = <<a>>
    PROVE  \A r : (\E j \in DOMAIN t : r \in t[j]) <=> r \in a
  OBVIOUS

\* Every read leaves the others as they are: Do makes one read, in the order of the handler.
LEMMA DoWent ==
    ASSUME listing \in Kinds, UNCHANGED listing, StageInv, NEW r \in Reading, Do(r)
    PROVE  Went(r)
<1> DEFINE n == Len(Reads)
<1>1. Shape(Reads) /\ Reads' = Reads /\ n \in 1..7
  <2>1. Reads' = Reads
    BY DEF Reads
  <2>2. QED
    BY <2>1, ReadsShape DEF Shape
<1>2. Walking
  <2>1. \A x : todo = <<x>> => r \in x
    BY DEF Do
  <2>2. r # "done" /\ r # "denied"
    BY DEF Reading
  <2>3. QED
    BY <2>1, <2>2 DEF Walking
<1>3. CASE \E i \in 1..(n + 1) : todo = Rest(i)
  <2>1. PICK i \in 1..(n + 1) : todo = Rest(i)
    BY <1>3
  <2>2. i \in 1..n /\ Head(todo) = Reads[i] /\ Tail(todo) = Rest(i + 1) /\ r \in Reads[i]
    BY <1>1, <2>1, Suffix DEF Do, Rest, Shape
  <2>3. \A q : Pending(q) <=> \E j \in i..n : q \in Reads[j]
    BY <2>1, RestPending DEF Pending
  <2>4. CASE \A x, y \in Reads[i] : x = y
    <3>1. Reads[i] = {r}
      BY <2>2, <2>4
    <3>2. todo' = Rest(i + 1) /\ Rest(i + 1)' = Rest(i + 1)
      BY <1>1, <2>2, <3>1 DEF Do, Rest
    <3>3. i + 1 \in 1..(n + 1)
      BY <1>1, <2>2
    <3>4. \A q : Pending(q)' <=> \E j \in (i + 1)..n : q \in Reads[j]
      BY <3>3, <3>2, RestPending DEF Pending
    <3>5. Walking' /\ StageInv'
      <4>1. Walking'
        BY <3>3, <3>2, RestWalks DEF Walking
      <4>2. \E j \in 1..(Len(Reads') + 1) : todo' = Rest(j)'
        BY <1>1, <3>3, <3>2
      <4>3. QED
        BY <4>1, <4>2 DEF StageInv
    <3>6. todo' # Reads /\ Len(todo') \in 0..7
      <4>1. Len(Rest(i + 1)) = n - (i + 1) + 1
        BY <1>1, <3>3, Suffix DEF Shape, Rest
      <4>2. Len(todo') = n - i
        BY <1>1, <2>2, <3>2, <4>1
      <4>3. n \in 1..7 /\ i \in 1..n
        BY <1>1, <2>2
      <4>4. \A m \in 1..7 : \A k \in 1..m : m - k # m /\ m - k \in 0..7
        OBVIOUS
      <4>5. n - i # n /\ n - i \in 0..7
        BY <4>3, <4>4
      <4>6. QED
        BY <4>2, <4>5
    <3>7. \A q : Pending(q) <=> q = r \/ Pending(q)'
      <4>1. \A j \in i..n : j = i \/ j \in (i + 1)..n
        BY <1>1, <2>2
      <4>2. QED
        BY <1>1, <2>2, <2>3, <3>1, <3>4, <4>1
    <3>8. ~ Pending(r)'
      BY <1>1, <2>2, <3>4 DEF Shape
    <3>9. QED
      BY <1>2, <3>5, <3>6, <3>7, <3>8 DEF Went
  <2>5. CASE i = n /\ Reads[i] = {"count", "find"}
    <3>1. todo = <<{"count", "find"}>>
      <4>1. Len(todo) = 1 /\ todo[1] = {"count", "find"} /\ todo \in Seq(SUBSET Reading)
        BY <1>1, <2>1, <2>5, Suffix DEF Shape, Rest
      <4>2. QED
        BY <4>1
    <3>2. PICK x \in {"count", "find"} : r # x /\ r \in {"count", "find"} /\ todo' = <<{x}>>
      BY <3>1, Pair
    <3>3. \A q : (Pending(q) <=> q \in {"count", "find"}) /\ (Pending(q)' <=> q \in {x})
      BY <3>1, <3>2, One DEF Pending
    <3>4. Walking' /\ StageInv'
      BY <1>1, <2>5, <3>2 DEF Walking, StageInv
    <3>5. todo' # Reads /\ Len(todo') \in 0..7
      BY <2>5, <3>2
    <3>6. QED
      BY <1>2, <3>2, <3>3, <3>4, <3>5 DEF Went
  <2>6. QED
    BY <1>1, <2>2, <2>4, <2>5 DEF Shape
<1>4. CASE Reads[n] = {"count", "find"} /\ todo \in {<<{"count"}>>, <<{"find"}>>}
  <2>1. PICK x \in {"count", "find"} : todo = <<{x}>>
    BY <1>4
  <2>2. r = x /\ todo' = <<>>
    BY <2>1 DEF Do
  <2>3. todo' = Rest(n + 1)'
    BY <1>1, <2>2, Suffix DEF Shape, Rest
  <2>4. Walking' /\ StageInv'
    BY <1>1, <2>2, <2>3 DEF Walking, StageInv
  <2>5. (\A q : Pending(q) <=> q = r) /\ (\A q : ~ Pending(q)')
    BY <2>1, <2>2 DEF Pending
  <2>6. QED
    <3>1. Len(todo') = 0
      BY <2>2
    <3>2. QED
      BY <1>1, <1>2, <2>2, <2>4, <2>5, <3>1 DEF Went, Shape
<1>5. QED
  BY <1>2, <1>3, <1>4 DEF StageInv

\* Where a request is, and what it still has to read.
LEMMA Position ==
    ASSUME listing \in Kinds, StageInv, Walking
    PROVE  \/ \E i \in 1..(Len(Reads) + 1) :
                 /\ todo = Rest(i) /\ (i = 1 <=> todo = Reads)
                 /\ \A q : Pending(q) <=> \E j \in i..Len(Reads) : q \in Reads[j]
                 /\ \A q : Do(q) => i <= Len(Reads) /\ q \in Reads[i] /\ Head(todo) = Reads[i]
                 /\ (todo = <<>> <=> i = Len(Reads) + 1) /\ Len(todo) = Len(Reads) - i + 1
                 /\ (i <= Len(Reads) => Head(todo) = Reads[i])
           \/ /\ Reads[Len(Reads)] = {"count", "find"} /\ todo # Reads /\ todo # <<>>
              /\ \E x \in {"count", "find"} : /\ todo = <<{x}>> /\ \A q : Do(q) => q = x
                                              /\ \A q : Pending(q) <=> q = x
<1> DEFINE n == Len(Reads)
<1>1. Shape(Reads) /\ n \in 1..7
  BY ReadsShape DEF Shape
<1>2. CASE \E i \in 1..(n + 1) : todo = Rest(i)
  <2>1. PICK i \in 1..(n + 1) : todo = Rest(i)
    BY <1>2
  <2>2. \A q : Pending(q) <=> \E j \in i..n : q \in Reads[j]
    BY <2>1, RestPending DEF Pending
  <2>3. Len(todo) = n - i + 1 /\ todo \in Seq(SUBSET Reading)
    BY <1>1, <2>1, Suffix DEF Shape, Rest
  <2>4. todo # <<>> => i <= n /\ Head(todo) = Reads[i]
    BY <1>1, <2>1, Suffix DEF Shape, Rest
  <2>5. i = 1 <=> todo = Reads
    <3>1. i = 1 => todo = Reads
      BY <1>1, <2>1 DEF Rest, Shape
    <3>2. todo = Reads => i = 1
      BY <1>1, <2>3
    <3>3. QED
      BY <3>1, <3>2
  <2>6. todo = <<>> <=> i = n + 1
    BY <1>1, <2>3
  <2>7. \A q : Do(q) => i <= n /\ q \in Reads[i] /\ Head(todo) = Reads[i]
    BY <2>4 DEF Do
  <2>8. i <= n => Head(todo) = Reads[i]
    BY <2>4, <2>6
  <2>9. QED
    BY <2>1, <2>2, <2>3, <2>5, <2>6, <2>7, <2>8
<1>3. CASE Reads[n] = {"count", "find"} /\ todo \in {<<{"count"}>>, <<{"find"}>>}
  <2>1. PICK x \in {"count", "find"} : todo = <<{x}>>
    BY <1>3
  <2>2. todo # Reads /\ todo # <<>>
    <3>1. todo = Reads => Len(todo) = n /\ Reads[1] = {x}
      BY <2>1
    <3>2. QED
      BY <1>3, <2>1, <3>1
  <2>3. \A q : Pending(q) <=> q = x
    BY <2>1, One DEF Pending
  <2>4. \A q : Do(q) => q = x
    BY <2>1 DEF Do
  <2>5. QED
    BY <1>3, <2>1, <2>2, <2>3, <2>4
<1>4. QED
  BY <1>2, <1>3 DEF StageInv

\* A read under way is pending, and is one of those of its listing.
LEMMA ReadOf ==
    ASSUME listing \in Kinds, StageInv, Walking, NEW r, Pending(r)
    PROVE  /\ r \in {"userId", "username", "publicAddress"} => listing \in Pooled
           /\ r \in {"account", "latest"} => listing = "sharedWhole"
           /\ r \in {"distinct", "users", "reports"} => listing = "reportedUsers"
           /\ r = "list" => listing \in {"recipients", "recipientsWhole"}
           /\ r \in {"count", "find"} => listing \notin Pooled \cup Whole \cup {"recipients"}
           /\ r = "owners" => listing \in WithViews
           /\ r = "reader" => listing \in Addressed \cup {"children"}
           /\ r = "access" => listing \in {"children", "recipients"}
<1>1. PICK j \in 1..Len(Reads) : r \in Reads[j]
  BY Position, ReadsShape DEF Shape
<1>2. CASE listing \in {"own", "notifications"}
  <2>1. /\ Len(Reads) = 2 /\ Reads[1] = {"reader"} /\ Reads[2] = {"count", "find"}
    BY <1>2, ReadsAt
  <2>2. QED
    BY <1>1, <1>2, <2>1 DEF Pooled, Whole, WithViews, Addressed
<1>3. CASE listing \in {"logs", "usersExceptMe", "adminNotifications", "adminLogs"}
  <2>1. /\ Len(Reads) = 1 /\ Reads[1] = {"count", "find"}
    BY <1>3, ReadsAt
  <2>2. QED
    BY <1>1, <1>3, <2>1 DEF Pooled, Whole, WithViews, Addressed
<1>4. CASE listing \in {"adminSecrets", "users", "reports"}
  <2>1. /\ Len(Reads) = 2 /\ Reads[1] = {"count"} /\ Reads[2] = {"find"}
    BY <1>4, ReadsAt
  <2>2. QED
    BY <1>1, <1>4, <2>1 DEF Pooled, Whole, WithViews, Addressed
<1>5. CASE listing = "children"
  <2>1. /\ Len(Reads) = 5 /\ Reads[1] = {"reader"} /\ Reads[2] = {"access"}
      /\ Reads[3] = {"count"} /\ Reads[4] = {"find"} /\ Reads[5] = {"owners"}
    BY <1>5, ReadsAt
  <2>2. QED
    BY <1>1, <1>5, <2>1 DEF Pooled, Whole, WithViews, Addressed
<1>6. CASE listing = "shared"
  <2>1. /\ Len(Reads) = 5 /\ Reads[1] = {"reader"} /\ Reads[2] = {"userId"}
      /\ Reads[3] = {"username"} /\ Reads[4] = {"publicAddress"} /\ Reads[5] = {"owners"}
    BY <1>6, ReadsAt
  <2>2. QED
    BY <1>1, <1>6, <2>1 DEF Pooled, Whole, WithViews, Addressed
<1>7. CASE listing = "sharedWhole"
  <2>1. /\ Len(Reads) = 7 /\ Reads[1] = {"reader"} /\ Reads[2] = {"account"}
      /\ Reads[3] = {"userId"} /\ Reads[4] = {"username"} /\ Reads[5] = {"publicAddress"}
      /\ Reads[6] = {"latest"} /\ Reads[7] = {"owners"}
    BY <1>7, ReadsAt
  <2>2. QED
    BY <1>1, <1>7, <2>1 DEF Pooled, Whole, WithViews, Addressed
<1>8. CASE listing = "reportedUsers"
  <2>1. /\ Len(Reads) = 3 /\ Reads[1] = {"distinct"} /\ Reads[2] = {"users"}
      /\ Reads[3] = {"reports"}
    BY <1>8, ReadsAt
  <2>2. QED
    BY <1>1, <1>8, <2>1 DEF Pooled, Whole, WithViews, Addressed
<1>9. CASE listing = "recipients"
  <2>1. /\ Len(Reads) = 2 /\ Reads[1] = {"access"} /\ Reads[2] = {"list"}
    BY <1>9, ReadsAt
  <2>2. QED
    BY <1>1, <1>9, <2>1 DEF Pooled, Whole, WithViews, Addressed
<1>10. CASE listing = "recipientsWhole"
  <2>1. /\ Len(Reads) = 1 /\ Reads[1] = {"list"}
    BY <1>10, ReadsAt
  <2>2. QED
    BY <1>1, <1>10, <2>1 DEF Pooled, Whole, WithViews, Addressed
<1>11. QED
  BY <1>2, <1>3, <1>4, <1>5, <1>6, <1>7, <1>8, <1>9, <1>10 DEF Kinds, Secrets

\* How the handlers begin: with the reader where his address or views are read.
LEMMA ReadsFacts ==
    ASSUME listing \in Kinds
    PROVE  /\ Head(Reads) = Reads[1]
           /\ listing \in Addressed \cup WithViews => Reads[1] = {"reader"}
           /\ listing \in WithViews => \E j \in 1..Len(Reads) : Reads[j] = {"owners"}
           /\ listing = "sharedWhole" => \E j \in 1..Len(Reads) : Reads[j] = {"latest"}
           /\ listing = "reportedUsers" => Reads[1] = {"distinct"}
           /\ \A r \in Reads[1] : r \in {"reader", "count", "find", "distinct", "access", "list"}
<1>1. Head(Reads) = Reads[1]
  BY ReadsShape DEF Shape
<1>2. CASE listing \in {"own", "notifications"}
  BY <1>1, <1>2, ReadsAt DEF Addressed, Pooled, WithViews
<1>3. CASE listing \in {"logs", "usersExceptMe", "adminNotifications", "adminLogs"}
  BY <1>1, <1>3, ReadsAt DEF Addressed, Pooled, WithViews
<1>4. CASE listing \in {"adminSecrets", "users", "reports"}
  BY <1>1, <1>4, ReadsAt DEF Addressed, Pooled, WithViews
<1>5. CASE listing = "children"
  BY <1>1, <1>5, ReadsAt DEF Addressed, Pooled, WithViews
<1>6. CASE listing = "shared"
  BY <1>1, <1>6, ReadsAt DEF Addressed, Pooled, WithViews
<1>7. CASE listing = "sharedWhole"
  BY <1>1, <1>7, ReadsAt DEF Addressed, Pooled, WithViews
<1>8. CASE listing = "reportedUsers"
  BY <1>1, <1>8, ReadsAt DEF Addressed, Pooled, WithViews
<1>9. CASE listing = "recipients"
  BY <1>1, <1>9, ReadsAt DEF Addressed, Pooled, WithViews
<1>10. CASE listing = "recipientsWhole"
  BY <1>1, <1>10, ReadsAt DEF Addressed, Pooled, WithViews
<1>11. QED
  BY <1>2, <1>3, <1>4, <1>5, <1>6, <1>7, <1>8, <1>9, <1>10 DEF Kinds, Secrets

\* The first read of a request, and only it, begins the request anew.
LEMMA First ==
    ASSUME listing \in Kinds, StageInv, NEW r \in Reading, Do(r)
    PROVE  /\ (Len(todo) = Len(Reads) /\ Head(todo) = Head(Reads)) <=> todo = Reads
           /\ todo = Reads => /\ r \in {"reader", "count", "find", "distinct", "access", "list"}
                              /\ listing \in Addressed \cup WithViews => r = "reader"
                              /\ listing = "reportedUsers" => r = "distinct"
                              /\ listing \in WithViews => Pending("owners")
                              /\ listing = "sharedWhole" => Pending("latest")
           /\ r = "reader" => todo = Reads
<1>1. Shape(Reads) /\ Len(Reads) \in 1..7
  BY ReadsShape DEF Shape
<1>2. Walking
  <2>1. \A x : todo = <<x>> => r \in x
    BY DEF Do
  <2>2. r # "done" /\ r # "denied"
    BY DEF Reading
  <2>3. QED
    BY <2>1, <2>2 DEF Walking
<1>3. CASE \E i \in 1..(Len(Reads) + 1) :
                 /\ todo = Rest(i) /\ (i = 1 <=> todo = Reads)
                 /\ \A q : Pending(q) <=> \E j \in i..Len(Reads) : q \in Reads[j]
                 /\ \A q : Do(q) => i <= Len(Reads) /\ q \in Reads[i] /\ Head(todo) = Reads[i]
                 /\ (todo = <<>> <=> i = Len(Reads) + 1) /\ Len(todo) = Len(Reads) - i + 1
  <2>1. PICK i \in 1..(Len(Reads) + 1) :
                 /\ todo = Rest(i) /\ (i = 1 <=> todo = Reads)
                 /\ \A q : Pending(q) <=> \E j \in i..Len(Reads) : q \in Reads[j]
                 /\ r \in Reads[i] /\ i <= Len(Reads)
                 /\ Len(todo) = Len(Reads) - i + 1
    BY <1>3
  <2>2. (Len(todo) = Len(Reads) /\ Head(todo) = Head(Reads)) <=> todo = Reads
    BY <1>1, <2>1
  <2>3. r = "reader" => i = 1
    <3>1. r = "reader" => listing \in Addressed \cup {"children"}
      BY <1>2, <2>1, ReadOf
    <3>2. r = "reader" => r \in Reads[1]
      BY <3>1, ReadsFacts DEF WithViews, Addressed
    <3>3. QED
      BY <1>1, <2>1, <3>2 DEF Shape
  <2>4. todo = Reads => r \in Reads[1]
    BY <2>1
  <2>5. /\ todo = Reads /\ listing \in WithViews => Pending("owners")
        /\ todo = Reads /\ listing = "sharedWhole" => Pending("latest")
    BY <2>1, ReadsFacts
  <2>6. QED
    BY <2>1, <2>2, <2>3, <2>4, <2>5, ReadsFacts
<1>4. CASE /\ Reads[Len(Reads)] = {"count", "find"} /\ todo # Reads /\ todo # <<>>
           /\ \E x \in {"count", "find"} : /\ todo = <<{x}>> /\ \A q : Do(q) => q = x
                                           /\ \A q : Pending(q) <=> q = x
  <2>1. PICK x \in {"count", "find"} : todo = <<{x}>> /\ r = x
    BY <1>4
  <2>2. Len(todo) = 1 /\ Head(todo) = {x}
    BY <2>1
  <2>3. Len(Reads) = 1 => Head(Reads) = {"count", "find"}
    BY <1>1, <1>4 DEF Shape
  <2>4. {x} # {"count", "find"}
    OBVIOUS
  <2>5. QED
    BY <1>4, <2>1, <2>2, <2>3, <2>4
<1>5. QED
  BY <1>2, <1>3, <1>4, Position

\* Began, by what is left to read.
LEMMA BeganIs ==
    ASSUME listing \in Kinds, StageInv, NEW r \in Reading, Do(r)
    PROVE  Began = IF todo = Reads
                   THEN [past EXCEPT !.ever = Matching(latest), !.readdressed = FALSE,
                                     !.unknown = ~ latest.account, !.open = Person \ private]
                   ELSE past
  BY First DEF Began

\* An answer is given in the course of a request.
LEMMA AtAnswer ==
    ASSUME listing \in Kinds, todo = <<>>
    PROVE  Running /\ \A q : ~ Pending(q)
  BY ReadsShape DEF Running, Walking, Pending, Shape

\* What was read was stored, and what a listing does not read is as it was.
StoredInv ==
    /\ rows \cup {d \in Doc : found[d] # 0} \subseteq 1..created
    /\ listing \notin Secrets => hidden = {}
    /\ listing \notin Secrets \cup {"users", "usersExceptMe", "reports", "reportedUsers"}
          => off = {}

\* A request begins with nothing read; the reader read is who he is, while he stays that, but
\* all shared secrets at once do without the address of an unknown one till the end.
CleanInv ==
    /\ listing \notin Addressed => latest = Plain /\ as = Plain
    /\ todo = Reads => /\ as = Plain /\ counted = {} /\ rows = {} /\ owners = {}
                       /\ found = [d \in Doc |-> 0]
    /\ Running /\ ~ past.readdressed =>
          as = IF Pending("latest") THEN Recognised(latest) ELSE latest
    /\ listing \notin Pooled => found = [d \in Doc |-> 0]
    /\ listing \in Pooled => rows = {}

\* What the rest of the invariant is built on.
Basics == TypeOK /\ StageInv /\ StoredInv /\ CleanInv

\* The reads, by name.
ReadStep(r) ==
    \/ r = "reader" /\ Reader
    \/ r = "account" /\ Account
    \/ r = "access" /\ Access
    \/ r = "count" /\ Count
    \/ r = "find" /\ Find
    \/ r = "userId" /\ ByUserId
    \/ r = "username" /\ ByUsername
    \/ r = "publicAddress" /\ ByAddress
    \/ r = "latest" /\ Latest
    \/ r = "owners" /\ ReadOwners
    \/ r = "list" /\ ReadRecipients
    \/ r = "distinct" /\ Distinct
    \/ r = "users" /\ FindReported
    \/ r = "reports" /\ AllReported

\* Only known listings are walked.
LEMMA Kinded == TypeOK => listing \in Kinds
  BY ListingAssumption DEF TypeOK

\* A step is a read, a refusal, the reports about a user, an answer, or somebody else's.
LEMMA Steps ==
    ASSUME Next
    PROVE  \/ \E r \in Reading : ReadStep(r)
           \/ Denied \/ (\E p \in Person : ReportsOf(p)) \/ Answer \/ Meanwhile
<1>1. Reader => "reader" \in Reading /\ ReadStep("reader")
  BY DEF ReadStep, Reading
<1>2. Access => "access" \in Reading /\ ReadStep("access")
  BY DEF ReadStep, Reading
<1>3. Count => "count" \in Reading /\ ReadStep("count")
  BY DEF ReadStep, Reading
<1>4. Find => "find" \in Reading /\ ReadStep("find")
  BY DEF ReadStep, Reading
<1>5. ByUserId => "userId" \in Reading /\ ReadStep("userId")
  BY DEF ReadStep, Reading
<1>6. ByUsername => "username" \in Reading /\ ReadStep("username")
  BY DEF ReadStep, Reading
<1>7. ByAddress => "publicAddress" \in Reading /\ ReadStep("publicAddress")
  BY DEF ReadStep, Reading
<1>8. Latest => "latest" \in Reading /\ ReadStep("latest")
  BY DEF ReadStep, Reading
<1>9. ReadOwners => "owners" \in Reading /\ ReadStep("owners")
  BY DEF ReadStep, Reading
<1>10. ReadRecipients => "list" \in Reading /\ ReadStep("list")
  BY DEF ReadStep, Reading
<1>11. Distinct => "distinct" \in Reading /\ ReadStep("distinct")
  BY DEF ReadStep, Reading
<1>12. FindReported => "users" \in Reading /\ ReadStep("users")
  BY DEF ReadStep, Reading
<1>13. AllReported => "reports" \in Reading /\ ReadStep("reports")
  BY DEF ReadStep, Reading
<1>14. Account => "account" \in Reading /\ ReadStep("account")
  BY DEF ReadStep, Reading
<1>15. QED
  BY <1>1, <1>2, <1>3, <1>4, <1>5, <1>6, <1>7, <1>8, <1>9, <1>10, <1>11, <1>12, <1>13, <1>14
     DEF Next, Walk

\* A read is made by its request only.
LEMMA ReadDone ==
    ASSUME NEW r \in Reading, ReadStep(r)
    PROVE  Do(r) /\ UNCHANGED <<listing, docVars, page, seen, again>>
<1>1. CASE r = "reader"
  BY <1>1 DEF ReadStep, Reader
<1>2. CASE r = "access"
  BY <1>2 DEF ReadStep, Access, readVars, seenVars
<1>3. CASE r = "count"
  BY <1>3 DEF ReadStep, Count, seenVars
<1>4. CASE r = "find"
  BY <1>4 DEF ReadStep, Find, seenVars
<1>5. CASE r = "userId"
  BY <1>5 DEF ReadStep, ByUserId, Query, seenVars
<1>6. CASE r = "username"
  BY <1>6 DEF ReadStep, ByUsername, Query, seenVars
<1>7. CASE r = "publicAddress"
  BY <1>7 DEF ReadStep, ByAddress, Query, seenVars
<1>8. CASE r = "latest"
  BY <1>8 DEF ReadStep, Latest, seenVars
<1>9. CASE r = "owners"
  BY <1>9 DEF ReadStep, ReadOwners, seenVars
<1>10. CASE r = "list"
  BY <1>10 DEF ReadStep, ReadRecipients, seenVars
<1>11. CASE r = "distinct"
  BY <1>11 DEF ReadStep, Distinct, seenVars
<1>12. CASE r = "users"
  BY <1>12 DEF ReadStep, FindReported, seenVars
<1>13. CASE r = "reports"
  BY <1>13 DEF ReadStep, AllReported, readVars, seenVars
<1>14. CASE r = "account"
  BY <1>14 DEF ReadStep, Account, seenVars
<1>15. QED
  BY <1>1, <1>2, <1>3, <1>4, <1>5, <1>6, <1>7, <1>8, <1>9, <1>10, <1>11, <1>12, <1>13, <1>14
     DEF Reading

\* What others do keeps the types, and touches only what the listing reads.
LEMMA ChangeTyped ==
    ASSUME Basics, Change, UNCHANGED listing
    PROVE  /\ created' \in 0..MaxDocs /\ created <= created'
           /\ there' \subseteq 1..created' /\ off' \subseteq there' /\ hidden' \subseteq there'
           /\ nested' \subseteq Doc /\ says' \in [Doc -> Says] /\ parentShared' \in BOOLEAN
           /\ place' \in [Doc -> Doc] /\ (\A e, d \in Doc : place'[e] = place'[d] => e = d)
           /\ latest' \in Findable /\ private' \subseteq Person
           /\ listing \notin Pooled \cup {"own"} => says' = says
           /\ listing = "own" => \A d \in Doc : says'[d].userId = says[d].userId
           /\ listing = "own" => says' = says \/ latest' = latest
           /\ listing \notin Addressed => latest' = latest
           /\ latest' = latest \/ latest'.address # None \/ listing \in Pooled
           /\ listing \notin Secrets => hidden' = {}
           /\ listing \notin Secrets \cup {"users", "usersExceptMe", "reports", "reportedUsers"}
                 => off' = {}
<1> USE DEF Secrets, Pooled
<1>1. /\ created \in Nat /\ MaxDocs \in Nat /\ created \in 0..MaxDocs
      /\ there \subseteq 1..created /\ off \subseteq there /\ hidden \subseteq there
      /\ nested \subseteq Doc /\ says \in [Doc -> Says] /\ parentShared \in BOOLEAN
      /\ place \in [Doc -> Doc] /\ (\A e, d \in Doc : place[e] = place[d] => e = d)
      /\ latest \in Findable /\ private \subseteq Person
      /\ listing \notin Secrets => hidden = {}
      /\ listing \notin Secrets \cup {"users", "usersExceptMe", "reports", "reportedUsers"}
            => off = {}
  BY ListingAssumption DEF Basics, TypeOK, StoredInv
<1>2. CASE Create
  BY <1>1, <1>2 DEF Create
<1>3. CASE ReshareParent
  BY <1>1, <1>3 DEF ReshareParent
<1>4. CASE AddAddress
  BY <1>1, <1>4 DEF AddAddress
<1>5. ASSUME NEW o \in Person, SetPrivacy(o) \/ SetActivePerson(o)
      PROVE  Toggled(private, o) \subseteq Person /\ private' = Toggled(private, o)
             /\ UNCHANGED <<created, there, off, hidden, nested, says, parentShared, place, latest>>
  BY <1>1, <1>5 DEF SetPrivacy, SetActivePerson, Toggled
<1>6. ASSUME NEW d \in there, DeleteSecret(d)
      PROVE  /\ there' \subseteq there /\ off' \subseteq there' /\ hidden' \subseteq there'
             /\ listing \in Secrets
             /\ UNCHANGED <<created, nested, says, parentShared, place, latest, private>>
  BY <1>1, <1>6 DEF DeleteSecret
<1>7. CASE DeleteList
  <2>1. /\ there' = {} /\ off = {} /\ hidden = {} /\ parentShared' \in BOOLEAN
        /\ UNCHANGED <<created, off, hidden, nested, says, place, latest, private>>
    BY <1>1, <1>7 DEF DeleteList, Lists
  <2>2. QED
    BY <1>1, <2>1
<1>8. ASSUME NEW d \in there, Update(d)
      PROVE  /\ off' \subseteq there /\ hidden' \subseteq there /\ nested' \subseteq Doc
             /\ listing \in Secrets /\ says' \in [Doc -> Says] /\ (listing # "own" => says' = says)
             /\ \A c \in Doc : says'[c].userId = says[c].userId
             /\ UNCHANGED <<created, there, parentShared, place, latest, private>>
  <2>1. d \in Doc
    BY <1>1 DEF Doc
  <2>2. Toggled(off, d) \subseteq there /\ Toggled(hidden, d) \subseteq there
    BY <1>1 DEF Toggled
  <2>3. /\ says' \in [Doc -> Says] /\ (listing # "own" => says' = says)
        /\ \A c \in Doc : says'[c].userId = says[c].userId
    <3>1. CASE says' = says
      BY <1>1, <3>1
    <3>2. CASE listing = "own" /\ \E e \in Says : /\ e.publicAddress # None
                                                  /\ e.userId = says[d].userId
                                                  /\ says' = [says EXCEPT ![d] = e]
      <4>1. PICK e \in Says : e.userId = says[d].userId /\ says' = [says EXCEPT ![d] = e]
        BY <3>2
      <4>2. \A c \in Doc : says'[c] = IF c = d THEN e ELSE says[c]
        BY <1>1, <4>1
      <4>3. says' \in [Doc -> Says]
        BY <1>1, <4>1
      <4>4. QED
        BY <3>2, <4>1, <4>2, <4>3
    <3>3. QED
      BY <1>8, <3>1, <3>2 DEF Update
  <2>4. /\ off' \in {off, Toggled(off, d)} /\ hidden' \in {hidden, Toggled(hidden, d)}
        /\ nested' \in {nested, Toggled(nested, d)} /\ listing \in Secrets
        /\ UNCHANGED <<created, there, parentShared, place, latest, private>>
    BY <1>8 DEF Update
  <2>5. Toggled(nested, d) \subseteq Doc
    BY <1>1, <2>1 DEF Toggled
  <2>6. QED
    BY <1>1, <2>2, <2>3, <2>4, <2>5
<1>9. ASSUME NEW d \in there, Reshare(d)
      PROVE  /\ says' \in [Doc -> Says] /\ listing \in Pooled
             /\ UNCHANGED <<created, there, off, hidden, nested, parentShared, place, latest,
                            private>>
  <2>1. PICK e \in Says : says' = [says EXCEPT ![d] = e]
    BY <1>9 DEF Reshare
  <2>2. says' \in [Doc -> Says]
    BY <1>1, <2>1
  <2>3. QED
    BY <1>9, <2>2 DEF Reshare
<1>10. ASSUME NEW d \in there, SetActive(d)
       PROVE  /\ off' \subseteq there /\ listing \in {"users", "usersExceptMe"}
              /\ UNCHANGED <<created, there, hidden, nested, says, parentShared, place, latest,
                             private>>
  BY <1>1, <1>10 DEF SetActive, Toggled
<1>11. ASSUME NEW d \in there, Resolve(d)
      PROVE  /\ off' \subseteq there /\ listing \in {"reports", "reportedUsers"}
             /\ UNCHANGED <<created, there, hidden, nested, says, parentShared, place, latest,
                            private>>
  BY <1>1, <1>11 DEF Resolve
<1>12. ASSUME NEW d \in there, CleanUp(d)
      PROVE  /\ there' \subseteq there /\ off = {} /\ hidden = {}
             /\ UNCHANGED <<created, off, hidden, nested, says, parentShared, place, latest,
                            private>>
  BY <1>1, <1>12 DEF CleanUp
<1>13. ASSUME NEW d \in there, DeleteLog(d)
      PROVE  /\ there' \subseteq there /\ off = {} /\ hidden = {}
             /\ UNCHANGED <<created, off, hidden, nested, says, parentShared, place, latest,
                            private>>
  BY <1>1, <1>13 DEF DeleteLog
<1>14. CASE \E o \in Person : SetPrivacy(o) \/ SetActivePerson(o)
  <2>1. PICK o \in Person : SetPrivacy(o) \/ SetActivePerson(o)
    BY <1>14
  <2>2. private' \subseteq Person
        /\ UNCHANGED <<created, there, off, hidden, nested, says, parentShared, place, latest>>
    BY <1>5, <2>1
  <2>3. QED
    BY <1>1, <2>2
<1>15. CASE \E d \in there : DeleteSecret(d) \/ Update(d) \/ Reshare(d)
  <2>1. PICK d \in there : DeleteSecret(d) \/ Update(d) \/ Reshare(d)
    BY <1>15
  <2>2. CASE DeleteSecret(d)
    <3>1. /\ there' \subseteq there /\ off' \subseteq there' /\ hidden' \subseteq there'
          /\ listing \in Secrets
          /\ UNCHANGED <<created, nested, says, parentShared, place, latest, private>>
      BY <1>6, <2>2
    <3>2. QED
      BY <1>1, <3>1
  <2>4. CASE Update(d)
    <3>1. /\ off' \subseteq there /\ hidden' \subseteq there /\ nested' \subseteq Doc
          /\ listing \in Secrets /\ says' \in [Doc -> Says]
          /\ (listing # "own" => says' = says)
          /\ \A c \in Doc : says'[c].userId = says[c].userId
          /\ UNCHANGED <<created, there, parentShared, place, latest, private>>
      BY <1>8, <2>4
    <3>2. /\ created' = created /\ there' = there /\ place' = place /\ latest' = latest
          /\ parentShared' = parentShared /\ private' = private
          /\ off' \subseteq there /\ hidden' \subseteq there /\ nested' \subseteq Doc
          /\ says' \in [Doc -> Says] /\ listing \in Secrets
      BY <3>1
    <3>3. /\ listing \notin Pooled \cup {"own"} => says' = says
          /\ listing = "own" => \A c \in Doc : says'[c].userId = says[c].userId
      BY <3>1
    <3>4. QED
      BY <1>1, <3>2, <3>3
  <2>5. CASE Reshare(d)
    <3>1. /\ says' \in [Doc -> Says] /\ listing \in Pooled
          /\ UNCHANGED <<created, there, off, hidden, nested, parentShared, place, latest, private>>
      BY <1>9, <2>5
    <3>2. QED
      BY <1>1, <3>1
  <2>6. QED
    BY <2>1, <2>2, <2>4, <2>5
<1>16. CASE \E d \in there : SetActive(d) \/ Resolve(d) \/ CleanUp(d) \/ DeleteLog(d)
  <2>1. PICK d \in there : SetActive(d) \/ Resolve(d) \/ CleanUp(d) \/ DeleteLog(d)
    BY <1>16
  <2>2. CASE SetActive(d)
    <3>1. /\ off' \subseteq there /\ listing \in {"users", "usersExceptMe"}
          /\ UNCHANGED <<created, there, hidden, nested, says, parentShared, place, latest,
                         private>>
      BY <1>10, <2>2
    <3>2. QED
      BY <1>1, <3>1
  <2>3. CASE Resolve(d)
    <3>1. /\ off' \subseteq there /\ listing \in {"reports", "reportedUsers"}
          /\ UNCHANGED <<created, there, hidden, nested, says, parentShared, place, latest,
                         private>>
      BY <1>11, <2>3
    <3>2. QED
      BY <1>1, <3>1
  <2>4. CASE CleanUp(d)
    <3>1. /\ there' \subseteq there /\ off = {} /\ hidden = {}
          /\ UNCHANGED <<created, off, hidden, nested, says, parentShared, place, latest, private>>
      BY <1>12, <2>4
    <3>2. QED
      BY <1>1, <3>1
  <2>5. CASE DeleteLog(d)
    <3>1. /\ there' \subseteq there /\ off = {} /\ hidden = {}
          /\ UNCHANGED <<created, off, hidden, nested, says, parentShared, place, latest, private>>
      BY <1>13, <2>5
    <3>2. QED
      BY <1>1, <3>1
  <2>6. QED
    BY <2>1, <2>2, <2>3, <2>4, <2>5
<1>17. CASE SetAccount
  BY <1>1, <1>17 DEF SetAccount, Addressed
<1>18. CASE Rewrite
  <2>1. /\ off = {} /\ hidden = {} /\ created' \in created..MaxDocs
        /\ place' \in [Doc -> Doc] /\ (\A e, d \in Doc : place'[e] = place'[d] => e = d)
        /\ UNCHANGED <<off, hidden, nested, says, parentShared, latest, private>>
    BY <1>1, <1>18 DEF Rewrite, Lists
  <2>2. PICK kept \in SUBSET there : there' = kept \cup (created + 1)..created'
    BY <1>18 DEF Rewrite
  <2>3. created' \in 0..MaxDocs /\ created <= created' /\ there' \subseteq 1..created'
    BY <1>1, <2>1, <2>2
  <2>4. QED
    BY <1>1, <2>1, <2>3
<1>19. QED
  BY <1>2, <1>3, <1>4, <1>7, <1>14, <1>15, <1>16, <1>17, <1>18 DEF Change

\* What the reader is read as is told apart by account and address.
LEMMA Identities ==
    /\ Plain \in Identity /\ Stranger \in Identity /\ Findable \subseteq Identity
    /\ \A i \in Identity : /\ i.account \in BOOLEAN /\ i.address \in Address \cup {None}
                           /\ Recognised(i) \in Identity
                           /\ Recognised(i).account = i.account
                           /\ i.account => Recognised(i) = i
                           /\ ~ i.account => Recognised(i).address = None
    /\ Recognised(Plain) = Plain
    /\ \A i \in Findable : listing # "sharedWhole" => Recognised(i) = i
    /\ \A i \in Identity, a \in BOOLEAN : [i EXCEPT !.account = a] \in Identity
    /\ \A i \in Identity, x \in Address \cup {None} :
          /\ [i EXCEPT !.address = x] \in Identity
          /\ [i EXCEPT !.address = x].account = i.account
          /\ [i EXCEPT !.address = x].address = x
    /\ \A i, j \in Identity : i.account = j.account /\ i.address = j.address => i = j
<1>1. \A i, j \in Identity : i.account = j.account /\ i.address = j.address => i = j
  BY DEF Identity
<1>2. Plain \in Identity /\ Stranger \in Identity /\ Findable \subseteq Identity
  BY DEF Plain, Stranger, Findable, Identity
<1>3. \A i \in Identity : /\ i.account \in BOOLEAN /\ i.address \in Address \cup {None}
                          /\ Recognised(i) \in Identity
                          /\ Recognised(i).account = i.account
                          /\ i.account => Recognised(i) = i
                          /\ ~ i.account => Recognised(i).address = None
  BY <1>2 DEF Recognised, Stranger, Identity
<1>4. Recognised(Plain) = Plain /\ Recognised(Stranger) = Stranger
  BY DEF Recognised, Plain, Stranger
<1>5. \A i \in Findable : listing # "sharedWhole" => Recognised(i) = i
  BY <1>2, <1>3, <1>4 DEF Findable
<1>6. \A i \in Identity, a \in BOOLEAN : [i EXCEPT !.account = a] \in Identity
  BY DEF Identity
<1>7. \A i \in Identity, x \in Address \cup {None} :
          /\ [i EXCEPT !.address = x] \in Identity
          /\ [i EXCEPT !.address = x].account = i.account
          /\ [i EXCEPT !.address = x].address = x
  BY DEF Identity
<1>8. QED
  BY <1>1, <1>2, <1>3, <1>4, <1>5, <1>6, <1>7

\* The history of a request that begins is a history.
LEMMA BeganTyped ==
    ASSUME past \in History, Matching(latest) \subseteq Doc, latest \in Findable
    PROVE  Began \in History
<1>1. latest.account \in BOOLEAN
  BY Identities
<1>2. QED
  BY <1>1 DEF Began, History

\* What matches a listing is stored.
LEMMA MatchingStored ==
    ASSUME TypeOK
    PROVE  /\ \A a : Matching(a) \subseteq there
           /\ there \subseteq 1..created /\ 1..created \subseteq Doc
  BY ListingAssumption DEF Matching, TypeOK, Doc

\* One of the three queries has found new, and read what it says.
LEMMA Queries ==
    ASSUME ByUserId \/ ByUsername \/ ByAddress
    PROVE  \E n \in 1..3, new \in SUBSET there :
              /\ \A d \in new : d \notin off \cup nested /\ found[d] = 0
              /\ found' = [d \in Doc |-> IF d \in new THEN n ELSE found[d]]
              /\ read' = [d \in Doc |-> IF d \in new THEN says[d] ELSE read[d]]
              /\ UNCHANGED <<as, reserved, counted, rows, owners, seenVars, past>>
<1> DEFINE New(named) == {d \in named \cap there : d \notin off \cup nested /\ found[d] = 0}
           Finds(n, new) ==
              /\ found' = [d \in Doc |-> IF d \in new THEN n ELSE found[d]]
              /\ read' = [d \in Doc |-> IF d \in new THEN says[d] ELSE read[d]]
              /\ UNCHANGED <<as, reserved, counted, rows, owners, seenVars, past>>
<1>1. ByUserId => Finds(1, New({d \in Doc : as.account /\ says[d].userId}))
  BY DEF ByUserId, Query
<1>2. ByUsername => Finds(2, New({d \in Doc : says[d].username}))
  BY DEF ByUsername, Query
<1>3. ByAddress => Finds(3, New({d \in Doc : /\ as.address # None
                                           /\ says[d].publicAddress = as.address}))
  BY DEF ByAddress, Query
<1>4. \A named : /\ New(named) \in SUBSET there
                 /\ \A d \in New(named) : d \notin off \cup nested /\ found[d] = 0
  OBVIOUS
<1> HIDE DEF New, Finds
<1>5. \E n \in 1..3 : \E new \in SUBSET there :
          (\A d \in new : d \notin off \cup nested /\ found[d] = 0) /\ Finds(n, new)
  BY <1>1, <1>2, <1>3, <1>4
<1>6. QED
  BY <1>5 DEF Finds

\* What one of the three queries finds is stored.
LEMMA QueryTyped ==
    ASSUME Basics, ByUserId \/ ByUsername \/ ByAddress
    PROVE  /\ found' \in [Doc -> 0..3] /\ read' \in [Doc -> Says \cup {Nothing}]
           /\ {d \in Doc : found'[d] # 0} \subseteq 1..created
           /\ UNCHANGED <<as, reserved, counted, rows, owners, seenVars, past>>
<1>1. PICK n \in 1..3, new \in SUBSET there :
        /\ found' = [d \in Doc |-> IF d \in new THEN n ELSE found[d]]
        /\ read' = [d \in Doc |-> IF d \in new THEN says[d] ELSE read[d]]
        /\ UNCHANGED <<as, reserved, counted, rows, owners, seenVars, past>>
  BY Queries
<1>2. /\ says \in [Doc -> Says] /\ found \in [Doc -> 0..3] /\ read \in [Doc -> Says \cup {Nothing}]
      /\ {d \in Doc : found[d] # 0} \subseteq 1..created /\ there \subseteq 1..created
  BY MatchingStored DEF Basics, TypeOK, StoredInv
<1>3. found' \in [Doc -> 0..3] /\ read' \in [Doc -> Says \cup {Nothing}]
  BY <1>1, <1>2
<1>4. \A d \in Doc : found'[d] # 0 => d \in new \/ found[d] # 0
  BY <1>1
<1>5. QED
  BY <1>1, <1>2, <1>3, <1>4

\* What a read leaves has its type.
LEMMA ReadTyped ==
    ASSUME Basics, NEW r \in Reading, ReadStep(r)
    PROVE  /\ as' \in Identity /\ reserved' \in BOOLEAN
           /\ counted' \subseteq Doc /\ rows' \subseteq 1..created
           /\ found' \in [Doc -> 0..3] /\ read' \in [Doc -> Says \cup {Nothing}]
           /\ {d \in Doc : found'[d] # 0} \subseteq 1..created
           /\ owners' \subseteq Person /\ shown' \subseteq seen
           /\ past' \in History
<1>1. /\ \A a : Matching(a) \subseteq 1..created
      /\ 1..created \subseteq Doc
  BY MatchingStored DEF Basics
<1>2. /\ as \in Identity /\ reserved \in BOOLEAN
      /\ latest \in Findable /\ latest \in Identity /\ private \subseteq Person
      /\ counted \subseteq Doc /\ rows \subseteq 1..created
      /\ found \in [Doc -> 0..3] /\ read \in [Doc -> Says \cup {Nothing}]
      /\ {d \in Doc : found[d] # 0} \subseteq 1..created
      /\ owners \subseteq Person /\ shown \subseteq seen
      /\ past \in History
  BY Identities DEF Basics, TypeOK, StoredInv
<1>3. Began \in History
  BY <1>1, <1>2, BeganTyped
<1>4. \A set, p : OnPage(set, p) \subseteq set
  BY DEF OnPage
<1>5. CASE r = "reader"
  <2>1. Recognised(latest) \in Identity /\ latest.account \in BOOLEAN
    BY <1>2, Identities
  <2>2. QED
    BY <1>2, <1>3, <1>5, <2>1 DEF ReadStep, Reader
<1>6. CASE r = "access"
  BY <1>2, <1>3, <1>6 DEF ReadStep, Access, readVars, seenVars
<1>7. CASE r = "count"
  BY <1>1, <1>2, <1>3, <1>7 DEF ReadStep, Count, seenVars
<1>8. CASE r = "find"
  <2>1. past' \in History
    <3>1. past' = [Began EXCEPT !.short = @ \/ ("count" \notin Head(todo)
                                             /\ ~ Matching(as) \subseteq counted)]
      BY <1>8 DEF ReadStep, Find
    <3>2. Began.short \in BOOLEAN
      BY <1>3 DEF History
    <3>3. QED
      BY <1>3, <3>1, <3>2 DEF History
  <2>2. /\ rows' = OnPage(Matching(as), page)
        /\ UNCHANGED <<as, reserved, counted, found, read, owners, shown>>
    BY <1>8 DEF ReadStep, Find, seenVars
  <2>3. QED
    BY <1>1, <1>2, <1>4, <2>1, <2>2
<1>9. CASE r \in {"userId", "username", "publicAddress"}
  <2>1. ByUserId \/ ByUsername \/ ByAddress
    BY <1>9 DEF ReadStep
  <2>2. /\ found' \in [Doc -> 0..3] /\ read' \in [Doc -> Says \cup {Nothing}]
        /\ {d \in Doc : found'[d] # 0} \subseteq 1..created
        /\ UNCHANGED <<as, reserved, counted, rows, owners, seenVars, past>>
    BY <2>1, QueryTyped
  <2>3. QED
    BY <1>2, <2>2 DEF seenVars
<1>10. CASE r \in {"account", "latest"}
  <2>1. as' \in Identity
    <3>1. latest.account \in BOOLEAN /\ latest.address \in Address \cup {None}
          /\ as.account \in BOOLEAN
      BY <1>2, Identities
    <3>2. /\ r = "account" => as' = [as EXCEPT !.account = as.account \/ latest.account]
          /\ r = "latest" => as' \in {as, [as EXCEPT !.address = latest.address]}
      BY DEF ReadStep, Account, Latest
    <3>3. QED
      BY <1>2, <1>10, <3>1, <3>2 DEF Identity
  <2>2. UNCHANGED <<reserved, counted, rows, found, read, owners, shown, past>>
    BY <1>10 DEF ReadStep, Account, Latest, seenVars
  <2>3. QED
    BY <1>2, <2>1, <2>2
<1>11. CASE r = "owners"
  BY <1>2, <1>11 DEF ReadStep, ReadOwners, seenVars
<1>12. CASE r = "list"
  BY <1>1, <1>2, <1>3, <1>4, <1>12 DEF ReadStep, ReadRecipients, seenVars, WholeList
<1>13. CASE r = "distinct"
  BY <1>1, <1>2, <1>3, <1>13 DEF ReadStep, Distinct, seenVars
<1>14. CASE r = "users"
  <2>1. {Owner[d] : d \in counted} \ private \subseteq Person
    BY <1>2, ReaderAssumption
  <2>2. QED
    BY <1>2, <1>14, <2>1 DEF ReadStep, FindReported, seenVars
<1>15. CASE r = "reports"
  BY <1>2, <1>15 DEF ReadStep, AllReported, readVars, seenVars
<1>16. QED
  BY <1>5, <1>6, <1>7, <1>8, <1>9, <1>10, <1>11, <1>12, <1>13, <1>14, <1>15
     DEF Reading

\* The reader a request has read.
LEMMA ReadAddress ==
    ASSUME Basics, NEW r \in Reading, ReadStep(r)
    PROVE  /\ listing \notin Addressed => as' = Plain
           /\ ~ past'.readdressed =>
                 as' = IF Pending("latest")' THEN Recognised(latest) ELSE latest
           /\ todo # Reads => past'.readdressed = past.readdressed
           /\ r \notin {"reader", "account", "latest"} => as' = as
           /\ listing # "sharedWhole" /\ r # "reader" => as' = as
           /\ r = "reader" => as' = Recognised(latest)
           /\ r = "account" => as' = [as EXCEPT !.account = as.account \/ latest.account]
           /\ r = "latest" => as' = IF as.address = None
                                   THEN [as EXCEPT !.address = latest.address] ELSE as
<1>1. /\ listing \in Kinds /\ StageInv /\ Do(r) /\ Walking /\ Pending(r)
      /\ todo = Reads => r \in {"reader", "count", "find", "distinct", "access", "list"}
      /\ todo = Reads /\ listing \in Addressed => r = "reader"
      /\ r = "reader" => todo = Reads
      /\ todo = Reads /\ listing = "sharedWhole" => Pending("latest")
      /\ r # "latest" => (Pending("latest")' <=> Pending("latest"))
      /\ r = "latest" => ~ Pending("latest")'
  BY Kinded, ReadDone, First, DoWent DEF Basics, Went, Reading
<1>2. /\ listing \notin Addressed => latest = Plain /\ as = Plain
      /\ todo # Reads /\ ~ past.readdressed =>
            as = IF Pending("latest") THEN Recognised(latest) ELSE latest
      /\ past \in History /\ as \in Identity /\ latest \in Findable /\ latest \in Identity
      /\ latest.account \in BOOLEAN /\ latest.address \in Address \cup {None}
  BY <1>1, Identities DEF Basics, TypeOK, CleanInv, Running
<1>3. /\ Began.readdressed = IF todo = Reads THEN FALSE ELSE past.readdressed
  BY <1>1, <1>2, BeganIs DEF History
<1>4. past'.readdressed = (IF todo = Reads THEN FALSE ELSE past.readdressed)
  <2>1. CASE r \in {"reader", "access", "count", "list", "distinct"}
    BY <1>3, <2>1 DEF ReadStep, Reader, Access, Count, ReadRecipients, Distinct
  <2>2. CASE r = "find"
    <3>1. past' = [Began EXCEPT !.short = @ \/ ("count" \notin Head(todo)
                                             /\ ~ Matching(as) \subseteq counted)]
      BY <2>2 DEF ReadStep, Find
    <3>2. Began \in History
      BY <1>2, BeganTyped, MatchingStored DEF Basics
    <3>3. QED
      BY <1>3, <3>1, <3>2 DEF History
  <2>3. CASE r \in {"account", "userId", "username", "publicAddress", "latest", "owners",
                    "users", "reports"}
    <3>1. past' = past
      BY <2>3 DEF ReadStep, Account, ByUserId, ByUsername, ByAddress, Query, Latest, ReadOwners,
                  FindReported, AllReported
    <3>2. QED
      BY <1>1, <2>3, <3>1
  <2>4. QED
    BY <2>1, <2>2, <2>3 DEF Reading
<1>5. Pending("latest") => listing = "sharedWhole"
  BY <1>1, ReadOf
<1>6. CASE r = "reader"
  <2>1. as' = Recognised(latest)
    BY <1>6 DEF ReadStep, Reader
  <2>2. listing # "sharedWhole" => Recognised(latest) = latest
    BY <1>2, Identities
  <2>3. QED
    BY <1>1, <1>2, <1>4, <1>6, <2>1, <2>2, Identities
<1>7. CASE r = "account"
  <2>1. as' = [as EXCEPT !.account = as.account \/ latest.account]
    BY <1>7 DEF ReadStep, Account
  <2>2. listing = "sharedWhole" /\ todo # Reads
    BY <1>1, <1>7, ReadOf
  <2>3. ASSUME ~ past'.readdressed
        PROVE  as' = as
    <3>1. as.account = latest.account
      <4>1. as \in {latest, Recognised(latest)}
        BY <1>2, <1>4, <2>2, <2>3
      <4>2. Recognised(latest).account = latest.account
        BY <1>2, Identities
      <4>3. QED
        BY <4>1, <4>2
    <3>2. as.account \/ latest.account = as.account
      BY <1>2, <3>1
    <3>3. QED
      BY <1>2, <2>1, <3>1, <3>2 DEF Identity
  <2>4. QED
    BY <1>1, <1>2, <1>4, <1>7, <2>1, <2>2, <2>3 DEF Addressed, Pooled
<1>8. CASE r = "latest"
  <2>1. as' = IF as.address = None THEN [as EXCEPT !.address = latest.address] ELSE as
    BY <1>8 DEF ReadStep, Latest
  <2>2. listing = "sharedWhole" /\ todo # Reads
    BY <1>1, <1>8, ReadOf
  <2>3. ASSUME ~ past'.readdressed
        PROVE  as' = latest
    <3>1. as = Recognised(latest)
      BY <1>1, <1>2, <1>4, <1>8, <2>2, <2>3
    <3>2. CASE as.address = None
      <4>1. as'.account = as.account /\ as'.address = latest.address /\ as' \in Identity
        BY <1>2, <2>1, <3>2 DEF Identity
      <4>2. as.account = latest.account
        BY <1>2, <3>1, Identities
      <4>3. QED
        BY <1>2, <4>1, <4>2, Identities
    <3>3. CASE as.address # None
      BY <1>2, <2>1, <3>1, <3>3, Identities
    <3>4. QED
      BY <3>2, <3>3
  <2>4. QED
    BY <1>1, <1>4, <1>8, <2>1, <2>2, <2>3 DEF Addressed, Pooled
<1>9. CASE r \notin {"reader", "account", "latest"}
  <2>1. as' = as
    BY <1>9 DEF ReadStep, Access, readVars, Count, Find, ByUserId, ByUsername, ByAddress, Query,
                ReadOwners, ReadRecipients, Distinct, FindReported, AllReported
  <2>2. todo = Reads => listing \notin Addressed
    BY <1>1, <1>9
  <2>3. todo = Reads => ~ Pending("latest")
    BY <1>5, <2>2 DEF Addressed, Pooled
  <2>4. QED
    BY <1>1, <1>2, <1>4, <1>9, <2>1, <2>2, <2>3
<1>10. QED
  BY <1>6, <1>7, <1>8, <1>9

\* Division, as the pages use it.
LEMMA Divides ==
    ASSUME NEW k \in Nat, NEW m \in Nat, NEW l \in Nat \ {0}
    PROVE  /\ m \div l \in Nat
           /\ k * l <= m <=> k <= m \div l
<1> DEFINE q == m \div l
<1>1. q \in Nat /\ q * l <= m /\ m < (q + 1) * l
  OBVIOUS
<1> HIDE DEF q
<1>2. ASSUME k <= q PROVE k * l <= m
  <2>1. k * l <= q * l
    BY <1>1, <1>2
  <2>2. QED
    BY <1>1, <2>1
<1>3. ASSUME q + 1 <= k PROVE m < k * l
  <2>1. (q + 1) * l <= k * l
    BY <1>1, <1>3
  <2>2. QED
    BY <1>1, <2>1
<1>4. k * l \in Nat
  OBVIOUS
<1>5. k * l <= m <=> k <= q
  BY <1>1, <1>2, <1>3, <1>4
<1>6. QED
  BY <1>1, <1>5 DEF q

\* There are finitely many documents, at most MaxDocs.
LEMMA DocsFinite ==
    /\ IsFiniteSet(Doc) /\ Cardinality(Doc) = MaxDocs
    /\ \A set \in SUBSET Doc : IsFiniteSet(set) /\ Cardinality(set) \in 0..MaxDocs
<1>1. IsFiniteSet(Doc) /\ Cardinality(Doc) = MaxDocs
  BY ListingAssumption, FS_Interval DEF Doc
<1>2. ASSUME NEW set \in SUBSET Doc
      PROVE  IsFiniteSet(set) /\ Cardinality(set) \in 0..MaxDocs
  <2>1. IsFiniteSet(set) /\ Cardinality(set) <= MaxDocs
    BY <1>1, FS_Subset
  <2>2. Cardinality(set) \in Nat
    BY <2>1, FS_CardinalityType
  <2>3. QED
    BY <2>1, <2>2, ListingAssumption
<1>3. QED
  BY <1>1, <1>2

\* There is a next page only while there are documents left for it.
LEMMA PageBound ==
    ASSUME TypeOK, HasNextPage
    PROVE  page + 1 \in 1..(1 + (MaxDocs - 1) \div Limit)
<1>1. /\ page \in Nat /\ page >= 1 /\ MaxDocs - 1 \in Nat /\ Limit \in Nat \ {0}
      /\ (MaxDocs - 1) \div Limit \in Nat
  BY ListingAssumption, Divides DEF TypeOK
<1>2. Total \in 0..MaxDocs
  <2>1. Pool \subseteq Doc /\ counted \subseteq Doc
    BY DEF Pool, PoolOf, TypeOK
  <2>2. QED
    BY <2>1, DocsFinite DEF Total
<1>3. page * Limit \in Nat
  BY <1>1
<1>4. page * Limit <= MaxDocs - 1
  <2>1. page * Limit < Total
    BY DEF HasNextPage
  <2>2. \A x, y \in Nat : x < y /\ y <= MaxDocs => x <= MaxDocs - 1
    BY <1>1, ListingAssumption
  <2>3. Total \in Nat /\ Total <= MaxDocs
    BY <1>2, ListingAssumption
  <2>4. QED
    BY <1>3, <2>1, <2>2, <2>3
<1>5. page <= (MaxDocs - 1) \div Limit
  BY <1>1, <1>4, Divides
<1>6. QED
  BY <1>1, <1>5

\* A pool begins empty.
LEMMA NothingFound ==
    [d \in Doc |-> 0] \in [Doc -> 0..3] /\ [d \in Doc |-> Nothing] \in [Doc -> Says \cup {Nothing}]
  OBVIOUS

\* Every read keeps Basics.
LEMMA ReadBasics ==
    ASSUME Basics, NEW r \in Reading, ReadStep(r)
    PROVE  Basics'
<1>1. /\ Do(r) /\ UNCHANGED <<listing, docVars, page, seen, again>>
      /\ listing \in Kinds /\ Went(r)
  BY ReadDone, Kinded, DoWent DEF Basics
<1>2. TypeOK'
  <2>1. rows' \subseteq Doc
    BY ReadTyped, MatchingStored DEF Basics
  <2>2. latest' \in Findable'
    BY <1>1 DEF Basics, TypeOK, docVars, Findable, Identity
  <2>3. QED
    BY <1>1, <2>1, <2>2, ReadTyped DEF Basics, TypeOK, docVars, Went
<1>3. StageInv'
  BY <1>1 DEF Went
<1>4. StoredInv'
  BY <1>1, ReadTyped DEF Basics, StoredInv, docVars
<1>5. CleanInv'
  <2>1. (listing \notin Pooled => found' = found) /\ (listing \in Pooled => rows' = rows)
    <3>1. CASE r \in {"userId", "username", "publicAddress"}
      <4>1. listing \in Pooled
        BY <1>1, <3>1, ReadOf DEF Basics, Went
      <4>2. rows' = rows
        BY <3>1, QueryTyped DEF ReadStep
      <4>3. QED
        BY <4>1, <4>2
    <3>2. CASE r \in {"find", "list"}
      <4>1. listing \notin Pooled
        BY <1>1, <3>2, ReadOf DEF Basics, Went, Pooled
      <4>2. found' = found
        BY <3>2 DEF ReadStep, Find, ReadRecipients
      <4>3. QED
        BY <4>1, <4>2
    <3>3. CASE r \in {"reader", "account", "access", "count", "latest", "owners", "distinct",
                       "users", "reports"}
      BY <3>3 DEF ReadStep, Reader, Account, Access, readVars, Count, Latest, ReadOwners, Distinct,
                  FindReported, AllReported
    <3>4. QED
      BY <3>1, <3>2, <3>3 DEF Reading
  <2>2. todo' # Reads' /\ latest' = latest
    BY <1>1 DEF Went, Reads, docVars
  <2>3. QED
    BY <1>1, <2>1, <2>2, ReadAddress DEF Basics, CleanInv
<1>6. QED
  BY <1>2, <1>3, <1>4, <1>5 DEF Basics

\* Where the reports about a user are read.
LEMMA AtReports ==
    ASSUME listing \in Kinds, StageInv, todo # <<>>, Head(todo) = {"reports"}
    PROVE  Walking /\ todo # Reads /\ listing = "reportedUsers" /\ Pending("reports")
<1>1. Walking
  <2>1. \A x : todo = <<x>> => x = {"reports"}
    OBVIOUS
  <2>2. QED
    BY <2>1 DEF Walking
<1>2. Pending("reports")
  <2>1. CASE \E i \in 1..(Len(Reads) + 1) :
                 /\ \A q : Pending(q) <=> \E j \in i..Len(Reads) : q \in Reads[j]
                 /\ todo = <<>> <=> i = Len(Reads) + 1
                 /\ i <= Len(Reads) => Head(todo) = Reads[i]
    <3>1. PICK i \in 1..(Len(Reads) + 1) :
                 /\ \A q : Pending(q) <=> \E j \in i..Len(Reads) : q \in Reads[j]
                 /\ todo = <<>> <=> i = Len(Reads) + 1
                 /\ i <= Len(Reads) => Head(todo) = Reads[i]
      BY <2>1
    <3>2. Len(Reads) \in Nat
      BY ReadsShape DEF Shape
    <3>3. i \in i..Len(Reads) /\ "reports" \in Reads[i]
      BY <3>1, <3>2
    <3>4. QED
      BY <3>1, <3>3
  <2>2. CASE \E x \in {"count", "find"} : todo = <<{x}>>
    BY <2>2
  <2>3. QED
    BY <1>1, <2>1, <2>2, Position
<1>3. listing = "reportedUsers"
  BY <1>1, <1>2, ReadOf
<1>4. todo # Reads
  BY <1>3, ReadsFacts
<1>5. QED
  BY <1>1, <1>2, <1>3, <1>4

\* Reading the reports about a user keeps Basics.
LEMMA ReportsOfBasics ==
    ASSUME Basics, NEW p \in Person, ReportsOf(p)
    PROVE  Basics'
<1>1. /\ Walking /\ todo # Reads /\ listing = "reportedUsers" /\ Reads' = Reads
  BY AtReports, Kinded DEF Basics, ReportsOf, Reads
<1>2. /\ rows' = rows \cup {d \in Matching(as) : Owner[d] = p}
      /\ owners' = owners \ {p}
      /\ UNCHANGED <<listing, docVars, page, todo, as, reserved, counted, found, read, seenVars,
                   past>>
  BY DEF ReportsOf
<1>3. rows' \subseteq 1..created /\ 1..created \subseteq Doc
  BY <1>2, MatchingStored DEF Basics, StoredInv
<1>4. TypeOK'
  <2>1. latest' \in Findable'
    BY <1>2 DEF Basics, TypeOK, docVars, Findable, Identity
  <2>2. QED
    BY <1>2, <1>3, <2>1 DEF Basics, TypeOK, docVars, seenVars
<1>5. StageInv'
  BY <1>1, <1>2 DEF Basics, StageInv, Walking, Rest
<1>6. StoredInv'
  BY <1>2, <1>3 DEF Basics, StoredInv, docVars
<1>7. CleanInv'
  <2>1. Pending("latest")' <=> Pending("latest")
    BY <1>2 DEF Pending
  <2>2. QED
    BY <1>1, <1>2, <2>1 DEF Basics, CleanInv, docVars, Running, Walking, Pooled
<1>8. QED
  BY <1>4, <1>5, <1>6, <1>7 DEF Basics

\* A request refused keeps Basics, and ends the walk.
LEMMA DeniedBasics ==
    ASSUME Basics, Denied
    PROVE  Basics' /\ ~ Walking'
<1>1. /\ todo' = <<{"denied"}>> /\ listing \in Kinds
      /\ UNCHANGED <<listing, docVars, page, readVars, seenVars, past>>
  BY Kinded DEF Denied, Basics
<1>2. ~ Walking' /\ Len(todo') = 1
  BY <1>1 DEF Walking
<1>3. todo' # Reads'
  <2>1. Reads' = Reads
    BY <1>1 DEF Reads
  <2>2. Reads[1] # {"denied"}
    BY <1>1, ReadsFacts, ReadsShape DEF Shape
  <2>3. QED
    BY <1>1, <2>1, <2>2
<1>4. TypeOK'
  <2>1. /\ listing' \in Listing /\ created' \in 0..MaxDocs /\ there' \subseteq 1..created'
        /\ off' \subseteq there' /\ hidden' \subseteq there' /\ nested' \subseteq Doc
        /\ says' \in [Doc -> Says] /\ parentShared' \in BOOLEAN
        /\ private' \subseteq Person /\ changes' \in 0..MaxChanges
        /\ place' \in [Doc -> Doc] /\ (\A e, d \in Doc : place'[e] = place'[d] => e = d)
    BY <1>1 DEF Basics, TypeOK, docVars
  <2>5. latest' \in Findable'
    BY <1>1 DEF Basics, TypeOK, docVars, Findable, Identity
  <2>2. /\ as' \in Identity /\ owners' \subseteq Person /\ reserved' \in BOOLEAN
        /\ counted' \subseteq Doc /\ rows' \subseteq Doc
        /\ found' \in [Doc -> 0..3] /\ read' \in [Doc -> Says \cup {Nothing}]
    BY <1>1 DEF Basics, TypeOK, readVars
  <2>3. /\ page' \in 1..(1 + (MaxDocs - 1) \div Limit)
        /\ shown' \subseteq seen' /\ again' \subseteq seen' /\ seen' \subseteq 1..created'
        /\ past' \in History
    BY <1>1 DEF Basics, TypeOK, docVars, seenVars
  <2>4. QED
    BY <1>2, <2>1, <2>2, <2>3, <2>5 DEF TypeOK
<1>5. StoredInv' /\ CleanInv' /\ StageInv'
  BY <1>1, <1>2, <1>3 DEF Basics, StoredInv, CleanInv, StageInv, Running, docVars, readVars,
                          seenVars
<1>6. QED
  BY <1>2, <1>4, <1>5 DEF Basics

\* What others do keeps Basics.
LEMMA MeanwhileBasics ==
    ASSUME Basics, Meanwhile
    PROVE  Basics'
<1>1. /\ Walking /\ Change /\ past' = Noted /\ changes' = changes + 1 /\ changes < MaxChanges
      /\ UNCHANGED <<listing, page, todo, readVars, seenVars>>
  BY DEF Meanwhile
<1>2. Reads' = Reads /\ (Walking' <=> Walking) /\ (Running' <=> Running)
  BY <1>1 DEF Reads, Walking, Running
<1>3. past' \in History
  <2>1. latest' \in Findable /\ latest'.account \in BOOLEAN
    BY <1>1, ChangeTyped, Identities
  <2>2. Listed \subseteq Doc /\ Asking \subseteq Doc /\ Matching(latest) \subseteq Doc
    BY MatchingStored DEF Basics, Listed, Asking
  <2>3. there' \subseteq Doc
    BY <1>1, ChangeTyped, ListingAssumption DEF Doc
  <2>4. Listed' \subseteq Doc /\ Asking' \subseteq Doc /\ Matching(latest)' \subseteq Doc
    BY <2>3 DEF Listed, Asking, Matching
  <2>5. past \in History /\ Moved \subseteq Doc
    BY DEF Basics, TypeOK, Moved
  <2>6. QED
    <3>1. (past.unknown \/ ~ latest'.account) \in BOOLEAN
      BY <2>1
    <3>2. /\ past.steady \cap Listed' \in SUBSET Doc
          /\ past.left \cup (Listed \ Listed') \cup (Asking \ Asking') \in SUBSET Doc
          /\ past.came \cup (Listed' \ Listed) \cup (Asking' \ Asking) \in SUBSET Doc
          /\ past.moved \cup Moved \in SUBSET Doc
          /\ past.ever \cup Matching(latest)' \in SUBSET Doc
          /\ (past.readdressed \/ latest' # latest) \in BOOLEAN
          /\ past.open \cup (Person \ private') \in SUBSET Person
      BY <2>2, <2>4, <2>5 DEF History
    <3>3. QED
      BY <1>1, <2>5, <3>1, <3>2 DEF Noted, History
<1>4. created' \in 0..MaxDocs /\ created <= created' /\ 1..created \subseteq 1..created'
  <2>1. created' \in 0..MaxDocs /\ created <= created'
    BY <1>1, ChangeTyped
  <2>2. created \in 0..MaxDocs /\ MaxDocs \in Nat
    BY ListingAssumption DEF Basics, TypeOK
  <2>3. QED
    BY <2>1, <2>2
<1>5. TypeOK'
  <2>1. changes' \in 0..MaxChanges
    BY <1>1, ListingAssumption DEF Basics, TypeOK
  <2>2. /\ listing' \in Listing /\ as' \in Identity /\ owners' \subseteq Person
        /\ reserved' \in BOOLEAN /\ page' \in 1..(1 + (MaxDocs - 1) \div Limit)
        /\ Len(todo') \in 0..7
        /\ counted' \subseteq Doc /\ rows' \subseteq Doc
        /\ found' \in [Doc -> 0..3] /\ read' \in [Doc -> Says \cup {Nothing}]
        /\ shown' \subseteq seen' /\ again' \subseteq seen' /\ seen' \subseteq 1..created
    BY <1>1 DEF Basics, TypeOK, readVars, seenVars
  <2>3. /\ there' \subseteq 1..created' /\ off' \subseteq there' /\ hidden' \subseteq there'
        /\ nested' \subseteq Doc /\ says' \in [Doc -> Says] /\ parentShared' \in BOOLEAN
        /\ place' \in [Doc -> Doc] /\ (\A e, d \in Doc : place'[e] = place'[d] => e = d)
        /\ private' \subseteq Person
    BY <1>1, ChangeTyped
  <2>6. latest' \in Findable'
    BY <1>1, ChangeTyped DEF Findable, Identity
  <2>4. seen' \subseteq 1..created'
    BY <1>4, <2>2
  <2>5. QED
    BY <1>3, <1>4, <2>1, <2>2, <2>3, <2>4, <2>6 DEF TypeOK
<1>6. StageInv'
  BY <1>1, <1>2 DEF Basics, StageInv, Rest
<1>7. StoredInv'
  <2>1. rows' \cup {d \in Doc : found'[d] # 0} \subseteq 1..created
    BY <1>1 DEF Basics, StoredInv, readVars
  <2>2. /\ listing' \notin Secrets => hidden' = {}
        /\ listing' \notin Secrets \cup {"users", "usersExceptMe", "reports", "reportedUsers"}
                 => off' = {}
    BY <1>1, ChangeTyped
  <2>3. QED
    BY <1>4, <2>1, <2>2 DEF StoredInv
<1>8. CleanInv'
  <2>1. past'.readdressed = (past.readdressed \/ latest' # latest)
    BY <1>1 DEF Noted, Basics, TypeOK, History
  <2>2. listing \notin Addressed => latest' = latest
    BY <1>1, ChangeTyped
  <2>3. Pending("latest")' <=> Pending("latest")
    BY <1>1 DEF Pending
  <2>4. QED
    BY <1>1, <1>2, <2>1, <2>2, <2>3 DEF Basics, CleanInv, readVars
<1>9. QED
  BY <1>5, <1>6, <1>7, <1>8 DEF Basics

\* An answer keeps Basics, and goes on to the next page or ends the walk.
LEMMA AnswerBasics ==
    ASSUME Basics, Answer
    PROVE  /\ Basics'
           /\ ~ Running'
           /\ Reads' = Reads
           /\ HasNextPage => page' = page + 1 /\ todo' = Reads
           /\ ~ HasNextPage => page' = page /\ todo' = <<{"done"}>> /\ ~ Walking'
<1> DEFINE answered == IF listing = "children" /\ counted = {} THEN {} ELSE Answered
<1>1. /\ todo = <<>>
      /\ shown' = ViewsShown(answered)
      /\ seen' = seen \cup answered
      /\ again' = again \cup (seen \cap answered)
      /\ IF HasNextPage
           THEN page' = page + 1 /\ todo' = Reads
           ELSE page' = page /\ todo' = <<{"done"}>>
      /\ as' = Plain /\ reserved' = FALSE
      /\ counted' = {} /\ rows' = {}
      /\ found' = [d \in Doc |-> 0] /\ read' = [d \in Doc |-> Nothing]
      /\ owners' = {}
      /\ past' = Readdressed
      /\ UNCHANGED <<listing, docVars>>
  BY DEF Answer
<1>2. listing \in Kinds /\ Reads' = Reads /\ Shape(Reads)
  BY <1>1, Kinded, ReadsShape DEF Basics, Reads
<1>3. answered \subseteq 1..created
  BY DEF Answered, OnPage, Pool, PoolOf, Basics, StoredInv
<1>4. ViewsShown(answered) \subseteq answered
  BY DEF ViewsShown
<1>5. past' \in History
  <2>1. \A a : Matching(a) \subseteq Doc
    BY MatchingStored DEF Basics
  <2>2. Listed \subseteq Doc
    BY <2>1 DEF Listed
  <2>3. QED
    BY <1>1, <2>1, <2>2 DEF Readdressed, History, Basics, TypeOK
<1> HIDE DEF answered
<1>6. /\ listing' \in Listing /\ created' \in 0..MaxDocs /\ there' \subseteq 1..created'
      /\ off' \subseteq there' /\ hidden' \subseteq there' /\ nested' \subseteq Doc
      /\ says' \in [Doc -> Says] /\ parentShared' \in BOOLEAN
      /\ private' \subseteq Person /\ changes' \in 0..MaxChanges
      /\ place' \in [Doc -> Doc] /\ (\A e, d \in Doc : place'[e] = place'[d] => e = d)
      /\ latest' \in Findable'
  <2>1. latest' \in Findable'
    BY <1>1 DEF Basics, TypeOK, docVars, Findable, Identity
  <2>2. QED
    BY <1>1, <2>1 DEF Basics, TypeOK, docVars
<1>7. /\ as' \in Identity /\ owners' \subseteq Person /\ reserved' \in BOOLEAN
      /\ counted' \subseteq Doc /\ rows' \subseteq Doc
      /\ found' \in [Doc -> 0..3] /\ read' \in [Doc -> Says \cup {Nothing}]
  BY <1>1, NothingFound, Identities
<1>8. /\ shown' \subseteq seen' /\ again' \subseteq seen' /\ seen' \subseteq 1..created'
  BY <1>1, <1>3, <1>4 DEF Basics, TypeOK, docVars
<1>9. CASE HasNextPage
  <2>1. /\ page' = page + 1 /\ todo' = Reads
    BY <1>1, <1>9
  <2>2. ~ Running' /\ Len(todo') \in 0..7
    BY <1>2, <2>1 DEF Running, Shape
  <2>3. TypeOK'
    <3>1. page' \in 1..(1 + (MaxDocs - 1) \div Limit)
      BY <1>9, <2>1, PageBound DEF Basics
    <3>2. QED
      BY <1>5, <1>6, <1>7, <1>8, <2>2, <3>1 DEF TypeOK
  <2>4. StageInv'
    <3>1. Rest(1)' = Reads /\ 1 \in 1..(Len(Reads) + 1)
      BY <1>2 DEF Rest, Shape
    <3>2. QED
      BY <1>2, <2>1, <3>1 DEF StageInv
  <2>5. StoredInv' /\ CleanInv'
    BY <1>1, <1>2, <2>1, <2>2 DEF Basics, StoredInv, CleanInv, docVars
  <2>6. QED
    BY <1>2, <1>9, <2>1, <2>2, <2>3, <2>4, <2>5 DEF Basics
<1>10. CASE ~ HasNextPage
  <2>1. /\ page' = page /\ todo' = <<{"done"}>>
    BY <1>1, <1>10
  <2>2. ~ Walking' /\ ~ Running' /\ Len(todo') = 1
    BY <2>1 DEF Walking, Running
  <2>3. TypeOK'
    <3>1. page' \in 1..(1 + (MaxDocs - 1) \div Limit) /\ Len(todo') \in 0..7
      BY <2>1, <2>2 DEF Basics, TypeOK
    <3>2. QED
      BY <1>5, <1>6, <1>7, <1>8, <3>1 DEF TypeOK
  <2>4. StoredInv' /\ CleanInv' /\ StageInv'
    BY <1>1, <1>2, <2>1, <2>2 DEF Basics, StoredInv, CleanInv, StageInv, docVars
  <2>5. QED
    BY <1>2, <1>10, <2>1, <2>2, <2>3, <2>4 DEF Basics
<1>11. QED
  BY <1>9, <1>10

\* Basics holds when the walk begins.
LEMMA InitBasics ==
    ASSUME Init
    PROVE  Basics
<1>1. listing \in Kinds /\ Shape(Reads)
  BY ReadsShape, ListingAssumption DEF Init
<1>2. \A a : Matching(a) \subseteq there /\ there \subseteq Doc
  BY ListingAssumption DEF Init, Matching, Doc
<1>3. Listed \subseteq Doc
  BY <1>2 DEF Listed
<1>4. past \in History
  BY <1>3 DEF Init, Fresh, History
<1>5. page \in 1..(1 + (MaxDocs - 1) \div Limit)
  BY ListingAssumption, Divides DEF Init
<1>6. /\ todo = Reads /\ Len(todo) \in 0..7 /\ Rest(1) = Reads
  BY <1>1 DEF Init, Shape, Rest
<1>7. TypeOK
  <2>1. /\ listing \in Listing /\ created \in 0..MaxDocs /\ there \subseteq 1..created
        /\ off \subseteq there /\ hidden \subseteq there /\ nested \subseteq Doc
        /\ parentShared \in BOOLEAN
        /\ place \in [Doc -> Doc] /\ (\A e, d \in Doc : place[e] = place[d] => e = d)
        /\ latest \in Findable /\ private \subseteq Person
        /\ changes \in 0..MaxChanges
    BY ListingAssumption DEF Init
  <2>2. says \in [Doc -> Says]
    BY ReaderAssumption DEF Init
  <2>3. /\ as \in Identity /\ owners \subseteq Person /\ reserved \in BOOLEAN
        /\ counted \subseteq Doc /\ rows \subseteq Doc
        /\ found \in [Doc -> 0..3] /\ read \in [Doc -> Says \cup {Nothing}]
        /\ shown \subseteq seen /\ again \subseteq seen /\ seen \subseteq 1..created
    BY NothingFound, Identities DEF Init
  <2>4. QED
    BY <1>4, <1>5, <1>6, <2>1, <2>2, <2>3 DEF TypeOK
<1>8. StageInv
  <2>1. 1 \in 1..(Len(Reads) + 1)
    BY <1>1 DEF Shape
  <2>2. QED
    BY <1>6, <2>1 DEF StageInv
<1>9. StoredInv /\ CleanInv
  BY <1>6, <1>7 DEF Init, StoredInv, CleanInv, Running
<1>10. QED
  BY <1>7, <1>8, <1>9 DEF Basics

\* What a request has read was there at some moment of it.
EverInv == Running =>
    /\ Matching(latest) \subseteq past.ever
    /\ past.readdressed \/ rows \cup PoolOf(latest) \subseteq past.ever
    /\ Person \ private \subseteq past.open
    /\ listing = "reportedUsers" => /\ owners \subseteq past.open
                                    /\ \A d \in rows : Owner[d] \in past.open

\* The reader was open if he was read so under an account of his, and so was an owner not read
\* to be in privacy mode.
ViewsInv ==
    /\ listing \notin WithViews => shown = {}
    /\ Running /\ listing \in WithViews =>
          /\ ~ reserved => Me \in past.open \/ past.unknown
          /\ ~ Pending("owners") => Person \ owners \subseteq past.open

\* What a read adds to the history.
LEMMA PastRead ==
    ASSUME Basics, NEW r \in Reading, ReadStep(r)
    PROVE  /\ past'.ever = IF todo = Reads THEN Matching(latest) ELSE past.ever
           /\ past'.open = IF todo = Reads THEN Person \ private ELSE past.open
           /\ past'.unknown = IF todo = Reads THEN ~ latest.account ELSE past.unknown
           /\ past'.steady = past.steady /\ past'.left = past.left /\ past'.came = past.came
           /\ past'.moved = past.moved
           /\ r # "find" => past'.short = past.short
           /\ r = "find" => past'.short = (past.short \/ ("count" \notin Head(todo)
                                                          /\ ~ Matching(as) \subseteq counted))
<1>1. /\ listing \in Kinds /\ StageInv /\ Do(r)
      /\ todo = Reads => r \in {"reader", "count", "find", "distinct", "access", "list"}
  BY Kinded, ReadDone, First DEF Basics
<1>2. past \in History /\ latest \in Findable
  BY DEF Basics, TypeOK
<1>3. /\ Began.ever = (IF todo = Reads THEN Matching(latest) ELSE past.ever)
      /\ Began.open = (IF todo = Reads THEN Person \ private ELSE past.open)
      /\ Began.unknown = (IF todo = Reads THEN ~ latest.account ELSE past.unknown)
      /\ Began.steady = past.steady /\ Began.left = past.left /\ Began.came = past.came
      /\ Began.moved = past.moved /\ Began.short = past.short
  BY <1>1, <1>2, BeganIs DEF History
<1>4. CASE r \in {"reader", "access", "count", "list", "distinct"}
  <2>1. past' = Began
    BY <1>4 DEF ReadStep, Reader, Access, Count, ReadRecipients, Distinct
  <2>2. QED
    BY <1>3, <1>4, <2>1
<1>5. CASE r = "find"
  <2>1. past' = [Began EXCEPT !.short = @ \/ ("count" \notin Head(todo)
                                             /\ ~ Matching(as) \subseteq counted)]
    BY <1>5 DEF ReadStep, Find
  <2>2. Began \in History
    BY <1>2, BeganTyped, MatchingStored DEF Basics
  <2>3. QED
    BY <1>3, <1>5, <2>1, <2>2 DEF History
<1>6. CASE r \in {"account", "userId", "username", "publicAddress", "latest", "owners", "users",
                  "reports"}
  <2>1. past' = past
    BY <1>6 DEF ReadStep, Account, ByUserId, ByUsername, ByAddress, Query, Latest, ReadOwners,
                FindReported, AllReported
  <2>2. QED
    BY <1>1, <1>6, <2>1
<1>7. QED
  BY <1>4, <1>5, <1>6 DEF Reading

\* What others' changes add to the history.
LEMMA PastMeanwhile ==
    ASSUME Basics, Meanwhile
    PROVE  /\ past'.steady = past.steady \cap Listed'
           /\ past'.left = past.left \cup (Listed \ Listed') \cup (Asking \ Asking')
           /\ past'.came = past.came \cup (Listed' \ Listed) \cup (Asking' \ Asking)
           /\ past'.moved = past.moved \cup Moved
           /\ past'.ever = past.ever \cup Matching(latest)'
           /\ past'.readdressed = (past.readdressed \/ latest' # latest)
           /\ past'.unknown = (past.unknown \/ ~ latest'.account)
           /\ past'.open = past.open \cup (Person \ private')
           /\ past'.short = past.short
<1>1. past' = Noted /\ past \in History
  BY DEF Meanwhile, Basics, TypeOK
<1>2. QED
  BY <1>1 DEF Noted, History

\* A read changes what it is for.
LEMMA ReadChanges ==
    ASSUME Basics, NEW r \in Reading, ReadStep(r)
    PROVE  /\ r \notin {"find", "list"} => rows' = rows
           /\ r = "find" => rows' = OnPage(Matching(as), page)
           /\ r = "list" => rows' = (IF listing = "recipients" THEN OnPage(Matching(as), page)
                                     ELSE Matching(as))
           /\ r \notin {"count", "list", "distinct"} => counted' = counted
           /\ r \in {"count", "list", "distinct"} => counted' = Matching(as)
           /\ r \notin {"userId", "username", "publicAddress"} => UNCHANGED <<found, read>>
           /\ r \notin {"owners", "users"} => owners' = owners
           /\ r = "owners" => owners' = private
           /\ r = "users" => owners' = {Owner[d] : d \in counted} \ private
           /\ r # "reader" => UNCHANGED <<reserved, shown>>
           /\ r = "reader" =>
                 /\ reserved' = (listing \in WithViews /\ latest.account /\ Me \in private)
                 /\ shown' = {}
           /\ r = "access" => MayList
           /\ r = "reports" => owners = {}
<1>1. CASE r = "reader"
  BY <1>1 DEF ReadStep, Reader
<1>2. CASE r = "access"
  BY <1>2 DEF ReadStep, Access, readVars, seenVars
<1>3. CASE r = "count"
  BY <1>3 DEF ReadStep, Count, seenVars
<1>4. CASE r = "find"
  BY <1>4 DEF ReadStep, Find, seenVars
<1>5. CASE r = "userId"
  BY <1>5 DEF ReadStep, ByUserId, Query, seenVars
<1>6. CASE r = "username"
  BY <1>6 DEF ReadStep, ByUsername, Query, seenVars
<1>7. CASE r = "publicAddress"
  BY <1>7 DEF ReadStep, ByAddress, Query, seenVars
<1>8. CASE r = "latest"
  BY <1>8 DEF ReadStep, Latest, seenVars
<1>9. CASE r = "owners"
  BY <1>9 DEF ReadStep, ReadOwners, seenVars
<1>10. CASE r = "list"
  BY <1>10 DEF ReadStep, ReadRecipients, WholeList, seenVars
<1>11. CASE r = "distinct"
  BY <1>11 DEF ReadStep, Distinct, seenVars
<1>12. CASE r = "users"
  BY <1>12 DEF ReadStep, FindReported, seenVars
<1>13. CASE r = "reports"
  BY <1>13 DEF ReadStep, AllReported, readVars, seenVars
<1>14. CASE r = "account"
  BY <1>14 DEF ReadStep, Account, seenVars
<1>15. QED
  BY <1>1, <1>2, <1>3, <1>4, <1>5, <1>6, <1>7, <1>8, <1>9, <1>10, <1>11, <1>12, <1>13, <1>14
     DEF Reading

\* A query finds what is listed for a reader to whom its entries go, whoever that is.
LEMMA PoolMatches ==
    ASSUME Basics, listing \in Pooled, ByUserId \/ ByUsername \/ ByAddress, NEW i
    PROVE  {d \in Doc : found'[d] # 0 /\ Shares(read'[d], i)} \subseteq PoolOf(i) \cup Matching(i)
<1>1. PICK n \in 1..3, new \in SUBSET there :
        /\ \A d \in new : d \notin off \cup nested /\ found[d] = 0
        /\ found' = [d \in Doc |-> IF d \in new THEN n ELSE found[d]]
        /\ read' = [d \in Doc |-> IF d \in new THEN says[d] ELSE read[d]]
        /\ UNCHANGED <<as, reserved, counted, rows, owners, seenVars, past>>
  BY Queries
<1>2. ASSUME NEW d \in Doc, found'[d] # 0, Shares(read'[d], i), d \in new
      PROVE  d \in Matching(i)
  <2>1. d \in there /\ d \notin off \cup nested /\ Shares(says[d], i)
    BY <1>1, <1>2
  <2>2. Asked(d, i)
    BY <2>1 DEF Asked, Pooled
  <2>3. QED
    BY <2>1, <2>2 DEF Matching
<1>3. ASSUME NEW d \in Doc, found'[d] # 0, Shares(read'[d], i), d \notin new
      PROVE  d \in PoolOf(i)
  <2>1. d \in Doc /\ found[d] # 0 /\ Shares(read[d], i)
    BY <1>1, <1>3
  <2>2. QED
    BY <2>1 DEF PoolOf
<1>4. QED
  BY <1>2, <1>3

\* Every read keeps EverInv.
LEMMA ReadEver ==
    ASSUME Basics, EverInv, NEW r \in Reading, ReadStep(r)
    PROVE  EverInv'
<1>1. /\ Do(r) /\ UNCHANGED <<listing, docVars, page, seen, again>>
      /\ listing \in Kinds /\ Went(r) /\ Walking
      /\ listing = "reportedUsers" /\ todo = Reads => r = "distinct"
      /\ todo = Reads /\ listing \in Addressed \cup WithViews => r = "reader"
      /\ todo = Reads => r \in {"reader", "count", "find", "distinct", "access", "list"}
  BY ReadDone, Kinded, DoWent, First DEF Basics, Went
<1>2. Matching(latest)' = Matching(latest) /\ Matching(latest) \subseteq past'.ever
  BY <1>1, PastRead DEF EverInv, Running, Matching, Asked, docVars, OwnSecret, BaseQuery,
      ChildSecret, AdminSecret, Shares, Names, MyNotification, MyLog, AdminUser, AdminNotification,
      AdminLog, OtherUser, PendingReport, ReportOfUser
<1>3. Person \ private' \subseteq past'.open
  BY <1>1, PastRead DEF EverInv, Running, docVars
<1>4. past'.readdressed \/ rows' \cup PoolOf(latest)' \subseteq past'.ever
  <2> SUFFICES ASSUME ~ past'.readdressed
               PROVE  rows' \cup PoolOf(latest)' \subseteq past'.ever
    OBVIOUS
  <2>1. rows \cup PoolOf(latest) \subseteq past'.ever
    <3>1. CASE todo = Reads
      <4>1. rows = {} /\ found = [d \in Doc |-> 0]
        BY <3>1 DEF Basics, CleanInv
      <4>2. QED
        BY <4>1 DEF PoolOf
    <3>2. CASE todo # Reads
      BY <1>1, <3>2, PastRead, ReadAddress DEF EverInv, Running
    <3>3. QED
      BY <3>1, <3>2
  <2>2. ASSUME r \in {"find", "list"}
        PROVE  as = latest
    <3>1. listing \notin Pooled /\ ~ Pending("latest")
      BY <1>1, <2>2, ReadOf DEF Basics, Went, Pooled, Whole
    <3>2. CASE todo = Reads
      <4>1. listing \notin Addressed
        BY <1>1, <2>2, <3>2
      <4>2. QED
        BY <4>1 DEF Basics, CleanInv
    <3>3. CASE todo # Reads
      BY <1>1, <3>1, <3>3, ReadAddress DEF Basics, CleanInv, Running
    <3>4. QED
      BY <3>2, <3>3
  <2>3. rows' \subseteq rows \cup Matching(latest)
    <3>1. \A set, p : OnPage(set, p) \subseteq set
      BY DEF OnPage
    <3>2. CASE r \in {"find", "list"}
      <4>1. rows' = OnPage(Matching(as), page) \/ rows' = Matching(as)
        BY <3>2, ReadChanges
      <4>2. rows' \subseteq Matching(as) /\ as = latest
        BY <2>2, <3>1, <3>2, <4>1
      <4>3. QED
        BY <4>2
    <3>3. QED
      BY <3>2, ReadChanges
  <2>4. PoolOf(latest)' \subseteq PoolOf(latest) \cup Matching(latest)
    <3> DEFINE after == {d \in Doc : found'[d] # 0 /\ Shares(read'[d], latest)}
    <3>1. latest' = latest /\ PoolOf(latest)' = after
      BY <1>1 DEF PoolOf, docVars, Shares, Names
    <3>2. CASE r \in {"userId", "username", "publicAddress"}
      <4>1. listing \in Pooled /\ (ByUserId \/ ByUsername \/ ByAddress)
        BY <1>1, <3>2, ReadOf DEF Basics, Went, ReadStep
      <4>2. after \subseteq PoolOf(latest) \cup Matching(latest)
        BY <4>1, PoolMatches
      <4>3. QED
        BY <3>1, <4>2
    <3>3. CASE r \notin {"userId", "username", "publicAddress"}
      <4>1. UNCHANGED <<found, read>>
        BY <3>3, ReadChanges
      <4>2. after = PoolOf(latest)
        BY <4>1 DEF PoolOf
      <4>3. QED
        BY <3>1, <4>2
    <3>4. QED
      BY <3>2, <3>3
  <2>5. QED
    BY <1>2, <2>1, <2>3, <2>4
<1>5. ASSUME listing = "reportedUsers"
      PROVE  owners' \subseteq past'.open /\ \A d \in rows' : Owner[d] \in past'.open
  <2>1. rows' = rows
    <3>1. r \notin {"find", "list"}
      BY <1>1, <1>5, ReadOf DEF Basics, Went, Whole
    <3>2. QED
      BY <3>1, ReadChanges
  <2>2. CASE todo = Reads
    <3>1. rows = {} /\ owners = {} /\ r = "distinct"
      BY <1>1, <1>5, <2>2 DEF Basics, CleanInv
    <3>2. owners' = {}
      BY <3>1, ReadChanges
    <3>3. QED
      BY <2>1, <3>1, <3>2
  <2>3. CASE todo # Reads
    <3>1. /\ owners \subseteq past'.open /\ \A d \in rows : Owner[d] \in past'.open
          /\ Person \ private \subseteq past'.open
      BY <1>1, <1>5, <2>3, PastRead DEF EverInv, Running
    <3>2. r # "owners"
      BY <1>1, <1>5, ReadOf DEF Basics, Went, WithViews, Pooled
    <3>3. r = "users" => owners' \subseteq Person \ private
      <4>1. \A d \in counted : Owner[d] \in Person
        BY ReaderAssumption DEF Basics, TypeOK
      <4>2. r = "users" => owners' = {Owner[d] : d \in counted} \ private
        BY ReadChanges
      <4>3. QED
        BY <4>1, <4>2
    <3>4. owners' \subseteq past'.open
      BY <3>1, <3>2, <3>3, ReadChanges
    <3>5. QED
      BY <2>1, <3>1, <3>4
  <2>4. QED
    BY <2>2, <2>3
<1>6. QED
  BY <1>1, <1>2, <1>3, <1>4, <1>5 DEF EverInv

\* Every read keeps ViewsInv, and shows no views.
LEMMA ReadViews ==
    ASSUME Basics, EverInv, ViewsInv, ViewsShownForACause, NEW r \in Reading, ReadStep(r)
    PROVE  ViewsInv' /\ ViewsShownForACause'
<1>1. /\ Do(r) /\ UNCHANGED <<listing, docVars, page, seen, again>>
      /\ listing \in Kinds /\ Went(r) /\ Walking
      /\ todo = Reads /\ listing \in WithViews => r = "reader" /\ Pending("owners")
      /\ r = "reader" => todo = Reads
  BY ReadDone, Kinded, DoWent, First DEF Basics, Went
<1>2. EverInv'
  BY ReadEver
<1>3. listing \notin WithViews => shown' = {}
  BY ReadChanges DEF ViewsInv
<1>4. ASSUME listing \in WithViews, ~ reserved'
      PROVE  Me \in past'.open \/ past'.unknown
  <2>1. CASE todo = Reads
    BY <1>1, <1>4, <2>1, ReadChanges, PastRead, ReaderAssumption
  <2>2. CASE todo # Reads
    <3>1. Running /\ r # "reader"
      BY <1>1, <2>2 DEF Running
    <3>2. QED
      BY <1>4, <2>2, <3>1, ReadChanges, PastRead DEF ViewsInv
  <2>3. QED
    BY <2>1, <2>2
<1>5. ASSUME listing \in WithViews, ~ Pending("owners")'
      PROVE  Person \ owners' \subseteq past'.open
  <2>1. CASE r = "owners"
    <3>1. owners' = private /\ private' = private
      BY <1>1, <2>1, ReadChanges DEF docVars
    <3>2. Running'
      <4>1. Reads' = Reads
        BY <1>1 DEF Reads
      <4>2. QED
        BY <1>1, <4>1 DEF Went, Running
    <3>3. QED
      BY <1>2, <3>1, <3>2 DEF EverInv
  <2>2. CASE r # "owners"
    <3>1. ~ Pending("owners")
      BY <1>1, <1>5, <2>2 DEF Went, Reading
    <3>2. todo # Reads
      BY <1>1, <1>5, <3>1
    <3>3. r # "users"
      BY <1>1, <1>5, ReadOf DEF Basics, Went, WithViews, Pooled
    <3>4. QED
      BY <1>1, <1>5, <2>2, <3>1, <3>2, <3>3, ReadChanges, PastRead DEF ViewsInv, Running
  <2>3. QED
    BY <2>1, <2>2
<1>6. ViewsInv'
  BY <1>1, <1>3, <1>4, <1>5 DEF ViewsInv
<1>7. ViewsShownForACause'
  <2>1. CASE r = "reader" \/ listing \notin WithViews
    <3>1. shown' = {}
      BY <1>3, <2>1, ReadChanges
    <3>2. QED
      BY <3>1 DEF ViewsShownForACause
  <2>2. CASE r # "reader" /\ listing \in WithViews
    <3>1. todo # Reads /\ shown' = shown
      BY <1>1, <2>2, ReadChanges
    <3>2. past'.open = past.open /\ past'.unknown = past.unknown
      BY <3>1, PastRead
    <3>3. QED
      BY <1>1, <3>1, <3>2 DEF ViewsShownForACause
  <2>3. QED
    BY <2>1, <2>2
<1>8. QED
  BY <1>6, <1>7

\* Reading the reports about a user keeps what is known of the rows and of the users.
LEMMA ReportsOfCauses ==
    ASSUME Basics, EverInv, ViewsInv, ViewsShownForACause, NEW p \in Person, ReportsOf(p)
    PROVE  EverInv' /\ ViewsInv' /\ ViewsShownForACause'
<1>1. /\ Walking /\ todo # Reads /\ listing = "reportedUsers" /\ Reads' = Reads
  BY AtReports, Kinded DEF Basics, ReportsOf, Reads
<1>2. /\ rows' = rows \cup {d \in Matching(as) : Owner[d] = p}
      /\ owners' = owners \ {p} /\ p \in owners
      /\ UNCHANGED <<listing, docVars, page, todo, as, reserved, counted, found, read, seenVars,
                   past>>
  BY DEF ReportsOf
<1>3. /\ Matching(latest) \subseteq past.ever
      /\ past.readdressed \/ rows \cup PoolOf(latest) \subseteq past.ever
      /\ Person \ private \subseteq past.open
      /\ owners \subseteq past.open /\ \A d \in rows : Owner[d] \in past.open
      /\ as = latest
  BY <1>1 DEF EverInv, Running, Basics, CleanInv, Addressed, Pooled
<1>4. Matching(latest)' = Matching(latest) /\ PoolOf(latest)' = PoolOf(latest)
  BY <1>2 DEF Matching, Asked, PoolOf, docVars, OwnSecret, BaseQuery,
      ChildSecret, AdminSecret, Shares, Names, MyNotification, MyLog, AdminUser, AdminNotification,
      AdminLog, OtherUser, PendingReport, ReportOfUser
<1>5. past.readdressed \/ rows' \cup PoolOf(latest)' \subseteq past.ever
  BY <1>2, <1>3, <1>4
<1>6. owners' \subseteq past.open /\ \A d \in rows' : Owner[d] \in past.open
  BY <1>2, <1>3
<1>7. EverInv'
  BY <1>2, <1>3, <1>4, <1>5, <1>6 DEF EverInv, docVars
<1>8. shown = {} /\ shown' = {} /\ listing' \notin WithViews
  BY <1>1, <1>2 DEF ViewsInv, WithViews, Pooled, seenVars
<1>9. ViewsInv' /\ ViewsShownForACause'
  BY <1>8 DEF ViewsInv, ViewsShownForACause
<1>10. QED
  BY <1>7, <1>9

\* What others do keeps it, too: it only adds to what has been.
LEMMA MeanwhileCauses ==
    ASSUME Basics, EverInv, ViewsInv, ViewsShownForACause, Meanwhile
    PROVE  EverInv' /\ ViewsInv' /\ ViewsShownForACause'
<1>1. /\ UNCHANGED <<listing, page, todo, readVars, seenVars>>
      /\ Reads' = Reads /\ (Running' <=> Running)
      /\ Pending("owners")' <=> Pending("owners")
  BY DEF Meanwhile, Reads, Running, Walking, Pending
<1>2. /\ past.ever \subseteq past'.ever /\ Matching(latest)' \subseteq past'.ever
      /\ past.open \subseteq past'.open /\ Person \ private' \subseteq past'.open
      /\ past.readdressed \/ latest' # latest => past'.readdressed
      /\ past.unknown => past'.unknown
  BY PastMeanwhile
<1>3. EverInv'
  <2>1. latest' = latest => PoolOf(latest)' = PoolOf(latest)
    BY <1>1 DEF PoolOf, readVars, Shares, Names
  <2>2. QED
    BY <1>1, <1>2, <2>1 DEF EverInv, readVars
<1>4. ViewsInv'
  BY <1>1, <1>2 DEF ViewsInv, readVars, seenVars
<1>5. ViewsShownForACause'
  BY <1>1, <1>2 DEF ViewsShownForACause, seenVars
<1>6. QED
  BY <1>3, <1>4, <1>5

\* An answer shows views of those only who were out of privacy mode in the course of it.
LEMMA AnswerCauses ==
    ASSUME Basics, EverInv, ViewsInv, Answer
    PROVE  EverInv' /\ ViewsInv' /\ ViewsShownForACause'
<1>1. /\ ~ Running' /\ Running /\ ~ Pending("owners") /\ UNCHANGED listing
  BY AnswerBasics, AtAnswer, Kinded DEF Basics, Answer
<1>2. EverInv'
  BY <1>1 DEF EverInv
<1>3. past'.open = past.open /\ past'.unknown = past.unknown
  <2>1. past' = Readdressed
    BY DEF Answer
  <2>2. QED
    BY <2>1 DEF Readdressed, Basics, TypeOK, History
<1>4. PICK set \in SUBSET Doc : shown' = ViewsShown(set)
  <2>1. Answered \subseteq Doc
    BY DEF Answered, Pool, PoolOf, OnPage, Basics, TypeOK
  <2>2. QED
    BY <2>1 DEF Answer
<1>5. listing \notin WithViews => shown' = {}
  BY <1>4 DEF ViewsShown
<1>6. ViewsInv'
  BY <1>1, <1>5 DEF ViewsInv
<1>7. ASSUME NEW d \in shown'
      PROVE  /\ Me \in past'.open \/ past'.unknown
             /\ \/ Owner[d] \in past'.open \cup {Me}
                \/ listing = "sharedWhole" /\ {Owner[d], Me} \cap Telegram = {}
                \/ listing = "shared"
  <2>1. listing \in WithViews /\ ~ reserved /\ d \in Doc /\ OpenTo(Owner[d])
    BY <1>4, <1>7 DEF ViewsShown
  <2>2. Owner[d] \in Person
    BY <2>1, ReaderAssumption
  <2>3. (Me \in past.open \/ past.unknown) /\ Person \ owners \subseteq past.open
    BY <1>1, <2>1 DEF ViewsInv
  <2>4. QED
    BY <1>3, <2>1, <2>2, <2>3 DEF OpenTo
<1>8. ViewsShownForACause'
  BY <1>1, <1>7 DEF ViewsShownForACause
<1>9. QED
  BY <1>2, <1>6, <1>8

\* The part of the invariant that is about one request.
Causes == Basics /\ EverInv /\ ViewsInv /\ ViewsShownForACause

\* Causes is inductive.
LEMMA CausesInductive ==
    Causes /\ [Next]_vars => Causes'
<1> SUFFICES ASSUME Causes, [Next]_vars
             PROVE  Causes'
  OBVIOUS
<1>1. ASSUME NEW r \in Reading, ReadStep(r)
      PROVE  Causes'
  BY <1>1, ReadBasics, ReadEver, ReadViews DEF Causes
<1>2. CASE Denied
  <2>1. Basics' /\ ~ Walking' /\ UNCHANGED <<listing, seenVars, past>>
    BY <1>2, DeniedBasics DEF Causes, Denied
  <2>2. EverInv' /\ ViewsInv' /\ ViewsShownForACause'
    BY <2>1 DEF EverInv, ViewsInv, Running, ViewsShownForACause, Causes, seenVars
  <2>3. QED
    BY <2>1, <2>2 DEF Causes
<1>3. ASSUME NEW p \in Person, ReportsOf(p)
      PROVE  Causes'
  BY <1>3, ReportsOfBasics, ReportsOfCauses DEF Causes
<1>4. CASE Answer
  BY <1>4, AnswerBasics, AnswerCauses DEF Causes
<1>5. CASE Meanwhile
  BY <1>5, MeanwhileBasics, MeanwhileCauses DEF Causes
<1>6. CASE UNCHANGED vars
  <2>1. /\ UNCHANGED <<listing, docVars, page, todo, readVars, seenVars, past>>
    BY <1>6 DEF vars
  <2>2. /\ Reads' = Reads /\ PoolOf(latest)' = PoolOf(latest)
        /\ Matching(latest)' = Matching(latest)
        /\ (Walking' <=> Walking) /\ (Running' <=> Running)
        /\ Pending("owners")' <=> Pending("owners")
        /\ Pending("latest")' <=> Pending("latest")
    BY <2>1 DEF docVars, readVars, Running, Walking, Pending, PoolOf, Reads, Matching, Asked,
      OwnSecret, BaseQuery, ChildSecret, AdminSecret, Shares, Names, MyNotification, MyLog,
      AdminUser,
      AdminNotification, AdminLog, OtherUser, PendingReport, ReportOfUser
  <2>3. TypeOK'
    BY <2>1 DEF docVars, readVars, seenVars, Causes, Basics, TypeOK, Findable
  <2>4. StageInv' /\ StoredInv' /\ CleanInv'
    BY <2>1, <2>2 DEF docVars, readVars, Causes, Basics, StageInv, StoredInv, CleanInv, Rest,
      Recognised
  <2>5. EverInv' /\ ViewsInv' /\ ViewsShownForACause'
    BY <2>1, <2>2 DEF docVars, readVars, seenVars, Causes, EverInv, ViewsInv, ViewsShownForACause
  <2>6. QED
    BY <2>3, <2>4, <2>5 DEF Causes, Basics
<1>7. QED
  BY <1>1, <1>2, <1>3, <1>4, <1>5, <1>6, Steps

\* Causes holds when the walk begins.
LEMMA InitCauses ==
    Init => Causes
<1> SUFFICES ASSUME Init
             PROVE  Causes
  OBVIOUS
<1>1. Basics
  BY InitBasics
<1>2. EverInv /\ ViewsInv /\ ViewsShownForACause
  BY DEF Init, EverInv, ViewsInv, ViewsShownForACause, Running
<1>3. QED
  BY <1>1, <1>2 DEF Causes

\* In the course of every request, what has been read was so at some moment of the request.
THEOREM CausesInvariant == Spec => []Causes
  BY InitCauses, CausesInductive, PTL DEF Spec

\* At an answer, that is ExtraForACause.
LEMMA ExtraFromCauses ==
    Causes => ExtraForACause
<1> SUFFICES ASSUME Causes, todo = <<>>
             PROVE  /\ Answered \subseteq past.ever \/ past.readdressed
                    /\ listing = "reportedUsers" => \A d \in Answered : Owner[d] \in past.open
  BY DEF ExtraForACause
<1>1. Running /\ ~ Pending("latest")
  BY AtAnswer, Kinded DEF Causes, Basics
<1>2. Answered \subseteq rows \cup Pool
  BY DEF Answered, OnPage
<1>3. listing = "reportedUsers" => Answered = rows
  BY DEF Answered
<1>4. past.readdressed \/ Pool = PoolOf(latest)
  BY <1>1 DEF Causes, Basics, CleanInv, Pool
<1>5. QED
  BY <1>1, <1>2, <1>3, <1>4 DEF Causes, EverInv

\* For any documents, listings and changes: a page has no row that was not listed at some
\* moment of its request, unless the reader's address or account was replaced while it ran, and no
\* report about a user who was not active at some moment of it.
THEOREM ExtraForACauseHolds == Spec => []ExtraForACause
  BY CausesInvariant, ExtraFromCauses, PTL

\* For any persons and changes of privacy: views of a secret are answered only if the reader
\* and the owner were out of privacy mode in the course of the request, but where the code
\* does not see the mode: the reader's if no account had his name at some moment of the request.
THEOREM ViewsShownForACauseHolds == Spec => []ViewsShownForACause
<1>1. Causes => ViewsShownForACause
  BY DEF Causes
<1>2. QED
  BY <1>1, CausesInvariant, PTL

\* A walk keeps its types; in particular no page is asked for past the last document.
THEOREM PagesTypeCorrect == Spec => []TypeOK
<1>1. Causes => TypeOK
  BY DEF Causes, Basics
<1>2. QED
  BY <1>1, CausesInvariant, PTL

\* The listings the database cuts into pages, and the recipients, cut by Limit in memory.
Paged == Kinds \ (Whole \cup {"shared"})

\* How many of set a page puts ahead of d.
Rank(set, d) == Cardinality({e \in set : Ahead(e, d)})

\* Those with k ahead of them are on page p if k is among its Limit numbers.
LEMMA Window ==
    ASSUME NEW k \in Nat, NEW p \in Nat \ {0}
    PROVE  k \div Limit = p - 1 <=> (p - 1) * Limit <= k /\ k < p * Limit
<1>1. Limit \in Nat \ {0} /\ p - 1 \in Nat
  BY ListingAssumption
<1>2. (p - 1) * Limit <= k <=> p - 1 <= k \div Limit
  BY <1>1, Divides
<1>3. p * Limit <= k <=> p <= k \div Limit
  BY <1>1, Divides
<1>4. k \div Limit \in Nat /\ p * Limit \in Nat
  BY <1>1, Divides
<1>5. QED
  BY <1>1, <1>2, <1>3, <1>4

\* A rank is a number.
LEMMA Ranked ==
    ASSUME NEW set \in SUBSET Doc, NEW d
    PROVE  Rank(set, d) \in Nat /\ IsFiniteSet({e \in set : Ahead(e, d)})
<1>1. {e \in set : Ahead(e, d)} \in SUBSET Doc
  OBVIOUS
<1>2. QED
  BY <1>1, DocsFinite DEF Rank

\* Those of a set on page p.
LEMMA PageOf ==
    ASSUME NEW set \in SUBSET Doc, NEW p \in Nat \ {0}, NEW d \in set
    PROVE  d \in OnPage(set, p) <=> (p - 1) * Limit <= Rank(set, d) /\ Rank(set, d) < p * Limit
<1>1. Rank(set, d) \in Nat
  BY Ranked
<1>2. d \in OnPage(set, p) <=> Rank(set, d) \div Limit = p - 1
  BY DEF OnPage, Rank
<1>3. QED
  BY <1>1, <1>2, Window

\* A part has at most as many as the whole.
LEMMA Fewer ==
    ASSUME NEW big \in SUBSET Doc, NEW small \in SUBSET big
    PROVE  Cardinality(small) <= Cardinality(big)
           /\ Cardinality(small) \in Nat /\ Cardinality(big) \in Nat
  BY DocsFinite, FS_Subset

\* Whoever is on a page is one more than those ahead of him.
LEMMA RankBelow ==
    ASSUME NEW set \in SUBSET Doc, NEW d \in set, ~ Ahead(d, d)
    PROVE  Rank(set, d) < Cardinality(set)
<1> DEFINE ahead == {e \in set : Ahead(e, d)}
<1>1. d \notin ahead /\ ahead \subseteq set
  OBVIOUS
<1>2. IsFiniteSet(ahead) /\ Cardinality(ahead) \in Nat /\ Cardinality(set) \in Nat
  BY DocsFinite
<1>3. Cardinality(ahead \cup {d}) = Cardinality(ahead) + 1
  BY <1>1, <1>2, FS_AddElement
<1>4. ahead \cup {d} \in SUBSET set
  BY <1>1
<1>5. Cardinality(ahead \cup {d}) <= Cardinality(set)
  BY <1>4, Fewer
<1>6. QED
  BY <1>2, <1>3, <1>5 DEF Rank

\* The order of the pages is that of the documents' numbers, up or down; that of recipients is
\* that of their places.
LEMMA PagedAhead ==
    ASSUME listing \in Kinds, listing # "shared"
    PROVE  \A e, d \in Doc :
              Ahead(e, d) <=> IF listing = "recipients" THEN place[e] < place[d]
                              ELSE IF listing = "usersExceptMe" THEN e < d ELSE e > d
  BY DEF Ahead

\* The numbers of a page, and of the next.
LEMMA PageSteps ==
    ASSUME TypeOK
    PROVE  /\ page \in Nat \ {0} /\ (page - 1) * Limit \in Nat /\ page * Limit \in Nat
           /\ (page - 1) * Limit <= page * Limit /\ (page + 1) - 1 = page
<1>1. page \in Nat \ {0} /\ Limit \in Nat \ {0}
  <2>1. (MaxDocs - 1) \div Limit \in Nat
    BY ListingAssumption, Divides
  <2>2. QED
    BY <2>1, ListingAssumption DEF TypeOK
<1>2. \A k, l \in Nat \ {0} : (k - 1) * l \in Nat /\ k * l \in Nat /\ (k - 1) * l <= k * l
  <2> TAKE k, l \in Nat \ {0}
  <2>1. k - 1 \in Nat
    OBVIOUS
  <2>2. (k - 1) * l = k * l - l /\ k * l \in Nat /\ (k - 1) * l \in Nat
    BY <2>1
  <2>3. QED
    BY <2>2
<1>3. QED
  BY <1>1, <1>2

\* What the request under way asks for does not change with what it reads; only all shared
\* secrets at once take the account and the latest address late.
LEMMA AskingKept ==
    ASSUME Basics, NEW r \in Reading, ReadStep(r)
    PROVE  /\ listing \notin {"reportedUsers", "sharedWhole"} => Asking' = Asking
           /\ Listed' = Listed
           /\ Asking' = Matching(as')
           /\ r \notin {"reader", "account", "latest"} => as' = as
<1>1. /\ Do(r) /\ UNCHANGED <<listing, docVars, page, seen, again>>
      /\ listing \in Kinds /\ Went(r) /\ Walking /\ Reads' = Reads
      /\ todo = Reads /\ listing \in Addressed \cup WithViews => r = "reader"
      /\ r = "reader" => todo = Reads
  BY ReadDone, Kinded, DoWent, First DEF Basics, Went, Reads
<1>2. Listed' = Listed
  BY <1>1 DEF Listed, Matching, Asked, docVars, OwnSecret, BaseQuery,
      ChildSecret, AdminSecret, Shares, Names, MyNotification, MyLog, AdminUser,
      AdminNotification, AdminLog, OtherUser, PendingReport, ReportOfUser
<1>3. Asking' = Matching(as')
  <2>1. Asking' = Matching(as)'
    BY <1>1 DEF Asking, Went
  <2>2. Matching(as)' = Matching(as')
    BY <1>1 DEF Matching, Asked, docVars, OwnSecret, BaseQuery,
      ChildSecret, AdminSecret, Shares, Names, MyNotification, MyLog, AdminUser,
      AdminNotification, AdminLog, OtherUser, PendingReport, ReportOfUser
  <2>3. QED
    BY <2>1, <2>2
<1>4. listing # "reportedUsers" => Listed = Matching(latest)
  BY DEF Listed, Matching
<1>5. r \notin {"reader", "account", "latest"} => as' = as
  BY ReadAddress
<1>6. ASSUME listing \notin {"reportedUsers", "sharedWhole"}
      PROVE  Asking' = Asking
  <2>1. CASE todo = Reads
    <3>1. as' = latest
      <4>1. CASE listing \in Addressed
        <5>1. as' = Recognised(latest)
          BY <1>1, <2>1, <4>1, ReadAddress
        <5>2. latest \in Findable
          BY DEF Basics, TypeOK
        <5>3. QED
          BY <1>6, <5>1, <5>2, Identities
      <4>2. CASE listing \notin Addressed
        BY <4>2, ReadAddress DEF Basics, CleanInv
      <4>3. QED
        BY <4>1, <4>2
    <3>2. QED
      BY <1>3, <1>4, <1>6, <2>1, <3>1 DEF Asking
  <2>2. CASE todo # Reads
    <3>1. as' = as
      BY <1>1, <1>6, <2>2, ReadAddress
    <3>2. QED
      BY <1>3, <2>2, <3>1 DEF Asking
  <2>3. QED
    BY <2>1, <2>2
<1>7. QED
  BY <1>2, <1>3, <1>5, <1>6

\* What is listed from the first request on is asked for all along, if one request asks for it
\* under one account and address.  What came and left are documents, and who has an address
\* for his own secrets keeps one.
SteadyInv ==
    /\ Walking => /\ past.steady \subseteq Listed
                  /\ listing \notin Pooled \cup {"reportedUsers"} => past.steady \subseteq Asking
                  /\ listing = "shared" => past.steady \ past.moved \subseteq Asking
    /\ listing \notin Pooled \cup {"recipients"} => past.moved = {}
    /\ past.came \cup past.left \subseteq 1..created
    /\ listing = "own" /\ Running /\ latest.address = None => as.address = None

\* What is compared are sets of documents.
LEMMA Sets ==
    ASSUME TypeOK
    PROVE  /\ Asking \subseteq Doc /\ Listed \subseteq Doc /\ Pool \subseteq Doc
           /\ \A a : Matching(a) \subseteq Doc
           /\ rows \subseteq Doc /\ counted \subseteq Doc /\ seen \subseteq Doc
           /\ past.steady \subseteq Doc
  BY MatchingStored DEF Asking, Listed, Pool, PoolOf, TypeOK, History

\* Every read keeps SteadyInv.
LEMMA ReadSteady ==
    ASSUME Basics, SteadyInv, NEW r \in Reading, ReadStep(r)
    PROVE  SteadyInv'
<1>1. /\ UNCHANGED <<listing, docVars, page, seen, again>> /\ Walking /\ listing \in Kinds
      /\ todo = Reads /\ listing \in Addressed => r = "reader"
  BY ReadDone, Kinded, DoWent, First DEF Basics, Went
<1>2. /\ past'.steady = past.steady /\ past'.moved = past.moved
      /\ past'.came = past.came /\ past'.left = past.left
  BY PastRead
<1>3. Listed' = Listed /\ (listing \notin {"reportedUsers", "sharedWhole"} => Asking' = Asking)
  BY AskingKept
<1>4. ASSUME listing = "own", latest.address = None
      PROVE  as'.address = None
  <2>1. CASE r = "reader"
    <3>1. as' = Recognised(latest)
      BY <2>1, ReadAddress
    <3>2. QED
      BY <1>4, <3>1 DEF Recognised, Stranger
  <2>2. CASE r # "reader"
    <3>1. Running
      BY <1>1, <1>4, <2>2 DEF Running, Addressed
    <3>2. as' = as
      BY <1>4, <2>2, ReadAddress
    <3>3. QED
      BY <1>4, <3>1, <3>2 DEF SteadyInv
  <2>3. QED
    BY <2>1, <2>2
<1>5. UNCHANGED <<created, latest>>
  BY <1>1 DEF docVars
<1>6. QED
  BY <1>1, <1>2, <1>3, <1>4, <1>5 DEF SteadyInv, Pooled

\* What others do keeps SteadyInv: a document listed for the reader's latest address and for
\* the one the request has read stays asked for if it stays listed.
LEMMA MeanwhileSteady ==
    ASSUME Basics, SteadyInv, Meanwhile
    PROVE  SteadyInv'
<1>1. /\ Walking /\ Change
      /\ UNCHANGED <<listing, page, todo, readVars, seenVars>>
      /\ Reads' = Reads /\ (Running' <=> Running)
  BY DEF Meanwhile, Reads, Running, Walking
<1>2. /\ past'.steady = past.steady \cap Listed'
      /\ past'.left = past.left \cup (Listed \ Listed') \cup (Asking \ Asking')
      /\ past'.came = past.came \cup (Listed' \ Listed) \cup (Asking' \ Asking)
      /\ past'.moved = past.moved \cup Moved
  BY PastMeanwhile
<1>3. /\ listing \notin Pooled \cup {"own"} => says' = says
      /\ listing \notin Addressed => latest' = latest
      /\ listing = "own" => \A d \in Doc : says'[d].userId = says[d].userId
      /\ listing = "own" => says' = says \/ latest' = latest
      /\ latest' = latest \/ latest'.address # None \/ listing \in Pooled
      /\ there' \subseteq 1..created' /\ created <= created' /\ created' \in Nat
  BY <1>1, ChangeTyped
<1>4. listing \notin Pooled \cup {"recipients"} => past'.moved = {}
  <2>1. listing # "recipients" => place' = place
    BY <1>1 DEF Change, Create, ReshareParent, Rewrite, DeleteList, AddAddress, SetAccount,
        SetPrivacy, SetActivePerson, DeleteSecret, Update, Reshare, SetActive, Resolve,
        CleanUp, DeleteLog, Lists
  <2>2. listing \notin Pooled \cup {"recipients"} => Moved = {}
    BY <2>1 DEF Moved, Swapped, Pooled
  <2>3. QED
    BY <1>2, <2>2 DEF SteadyInv
<1>5. past'.came \cup past'.left \subseteq 1..created'
  <2>1. Asking' \cup Listed' \subseteq 1..created'
    BY <1>3 DEF Asking, Listed, Matching
  <2>2. Asking \cup Listed \subseteq 1..created /\ created \in Nat
    <3>1. Matching(as) \cup Matching(latest) \subseteq 1..created
      BY MatchingStored DEF Basics
    <3>2. created \in Nat
      BY ListingAssumption DEF Basics, TypeOK
    <3>3. QED
      BY <3>1, <3>2 DEF Asking, Listed
  <2>3. 1..created \subseteq 1..created'
    BY <1>3, <2>2
  <2>4. QED
    BY <1>2, <2>1, <2>2, <2>3 DEF SteadyInv
<1>6. ASSUME listing = "own", Running, latest'.address = None
      PROVE  as'.address = None
  <2>1. latest' = latest /\ as' = as
    BY <1>1, <1>3, <1>6 DEF Pooled, readVars
  <2>2. QED
    BY <1>6, <2>1 DEF SteadyInv
<1>7. ASSUME listing \notin {"reportedUsers", "sharedWhole"}, NEW d \in past'.steady,
             listing = "shared" => d \notin past'.moved
      PROVE  d \in Asking'
  <2>1. d \in Listed' /\ d \in Listed /\ d \in Asking /\ d \in Doc
    <3>1. d \in Listed' /\ d \in Listed
      BY <1>1, <1>2, <1>7 DEF SteadyInv
    <3>2. d \in Asking
      BY <1>1, <1>2, <1>7 DEF SteadyInv, Pooled
    <3>3. QED
      BY <3>1, <3>2, Sets DEF Basics
  <2>2. CASE todo = Reads
    BY <1>1, <2>1, <2>2 DEF Asking
  <2>3. CASE todo # Reads /\ listing \notin Addressed
    <3>1. Asking' = Matching(latest)'
      BY <1>1, <1>3, <2>3 DEF Asking, Basics, CleanInv, readVars, Matching
    <3>2. QED
      BY <2>1, <3>1 DEF Listed
  <2>4. CASE todo # Reads /\ listing \in Addressed
    <3>1. d \in there' /\ Asked(d, latest)' /\ Asked(d, as) /\ Asked(d, latest)
      BY <2>1, <2>4 DEF Listed, Asking, Matching
    <3>2. as' = as /\ Asking' = Matching(as)'
      BY <1>1, <2>4 DEF Asking, readVars
    <3>3. Asked(d, as)'
      <4>1. CASE listing = "own"
        <5>1. Asked(d, as) = OwnSecret(d, as) /\ Asked(d, latest) = OwnSecret(d, latest)
          BY <4>1 DEF Asked, Pooled, Lists
        <5>2. Asked(d, latest)' = OwnSecret(d, latest)' /\ Asked(d, as)' = OwnSecret(d, as)'
          BY <1>1, <4>1 DEF Asked, Pooled, Lists
        <5>3. d \notin off' \cup hidden' \cup nested'
          BY <3>1, <5>2 DEF OwnSecret, BaseQuery
        <5>4. IF as.address = None THEN says[d].userId ELSE says[d].publicAddress = as.address
          BY <3>1, <5>1 DEF OwnSecret
        <5>5. as'.address # None => says'[d].publicAddress = as'.address
          <6> SUFFICES ASSUME as.address # None
                       PROVE  says'[d].publicAddress = as.address
            BY <3>2
          <6>1. Running
            BY <1>1, <2>4 DEF Running
          <6>2. latest.address # None
            BY <4>1, <6>1 DEF SteadyInv
          <6>3. says[d].publicAddress = latest.address /\ says[d].publicAddress = as.address
            BY <3>1, <5>1, <5>4, <6>2 DEF OwnSecret
          <6>4. CASE says' = says
            BY <5>4, <6>4
          <6>5. CASE latest' = latest
            <7>1. says'[d].publicAddress = latest.address
              BY <3>1, <5>2, <6>2, <6>5 DEF OwnSecret
            <7>2. QED
              BY <6>3, <7>1
          <6>6. QED
            BY <1>3, <4>1, <6>4, <6>5
        <5>6. IF as'.address = None THEN says'[d].userId ELSE says'[d].publicAddress = as'.address
          BY <1>3, <2>1, <3>2, <4>1, <5>4, <5>5
        <5>7. OwnSecret(d, as)'
          BY <5>3, <5>6 DEF OwnSecret, BaseQuery
        <5>8. QED
          BY <5>2, <5>7
      <4>2. CASE listing = "notifications"
        <5>1. says' = says
          BY <1>3, <4>2 DEF Pooled
        <5>2. MyNotification(d, as)
          BY <3>1, <4>2 DEF Asked, Pooled, Lists
        <5>3. MyNotification(d, as)'
          BY <3>2, <5>1, <5>2 DEF MyNotification
        <5>4. QED
          BY <1>1, <4>2, <5>3 DEF Asked, Pooled, Lists
      <4>3. CASE listing = "shared"
        <5>1. says'[d] = says[d]
          BY <1>2, <1>7, <2>1, <4>3 DEF Moved, Pooled
        <5>2. d \notin off' \cup nested' /\ Shares(says[d], as)
          BY <1>1, <3>1, <4>3 DEF Asked, Pooled, Lists
        <5>3. Shares(says[d], as)'
          BY <3>2, <5>1, <5>2 DEF Shares, Names
        <5>4. QED
          BY <1>1, <4>3, <5>2, <5>3 DEF Asked, Pooled, Lists
      <4>4. QED
        BY <1>7, <2>4, <4>1, <4>2, <4>3 DEF Addressed, Pooled
    <3>4. QED
      BY <3>1, <3>2, <3>3 DEF Matching
  <2>5. QED
    BY <2>2, <2>3, <2>4
<1>8. QED
  BY <1>1, <1>2, <1>4, <1>5, <1>6, <1>7 DEF SteadyInv, Pooled

\* From one request to the next, the documents asked for are those listed by then.
LEMMA AnswerAsks ==
    ASSUME Basics, Answer
    PROVE  /\ Listed' = Listed /\ (HasNextPage => Asking' = Listed) /\ Asking = Matching(as)
           /\ past'.steady = past.steady /\ past'.moved = past.moved /\ past'.short = past.short
           /\ HasNextPage => /\ past'.left = past.left \cup (Asking \ Listed)
                             /\ past'.came = past.came \cup (Listed \ Asking)
           /\ ~ HasNextPage => past' = past
           /\ past.left \subseteq past'.left /\ past.came \subseteq past'.came
           /\ past'.came \cup past'.left \subseteq past.came \cup past.left \cup Asking \cup Listed
<1>1. /\ UNCHANGED <<listing, docVars>> /\ past' = Readdressed /\ todo = <<>>
  BY DEF Answer
<1>2. Listed' = Listed
  BY <1>1 DEF Listed, Matching, Asked, docVars, OwnSecret, BaseQuery,
      ChildSecret, AdminSecret, Shares, Names, MyNotification, MyLog, AdminUser, AdminNotification,
      AdminLog, OtherUser, PendingReport, ReportOfUser
<1>3. Asking = Matching(as)
  BY <1>1, AtAnswer, Kinded DEF Asking, Running, Basics
<1>4. HasNextPage => Asking' = Listed
  BY <1>2, AnswerBasics DEF Asking
<1>5. past \in History
  BY DEF Basics, TypeOK
<1>6. QED
  BY <1>1, <1>2, <1>3, <1>4, <1>5 DEF Readdressed, History

\* An answer keeps SteadyInv.
LEMMA AnswerSteady ==
    ASSUME Basics, SteadyInv, Answer
    PROVE  SteadyInv'
<1>1. Running /\ ~ Running' /\ UNCHANGED <<listing, docVars>>
  BY AtAnswer, AnswerBasics, Kinded DEF Basics, Answer
<1>2. past'.came \cup past'.left \subseteq 1..created'
  <2>1. Asking \cup Listed \subseteq 1..created
    BY MatchingStored DEF Asking, Listed, Basics
  <2>2. QED
    BY <1>1, <2>1, AnswerAsks DEF SteadyInv, docVars
<1>3. QED
  BY <1>1, <1>2, AnswerAsks, AnswerBasics DEF SteadyInv, Running

\* One ahead of d came during the walk.
CameAhead(d) == \E e \in past.came : Ahead(e, d)

\* One ahead of d left during the walk.
LeftAhead(d) == \E e \in past.left : Ahead(e, d)

\* The order of the pages of a listing does not change with what a request does.
LEMMA PagedKept ==
    ASSUME listing \in Paged, UNCHANGED <<listing, place>>
    PROVE  /\ \A e, d : Ahead(e, d)' <=> Ahead(e, d)
           /\ \A d : Rank(Asking, d)' = Rank(Asking', d)
           /\ \A d : CameAhead(d)' <=> \E e \in past'.came : Ahead(e, d)
           /\ \A d : LeftAhead(d)' <=> \E e \in past'.left : Ahead(e, d)
<1>1. \A e, d : Ahead(e, d)' <=> Ahead(e, d)
  BY DEF Ahead, Paged
<1>2. \A d : {e \in Asking' : Ahead(e, d)'} = {e \in Asking' : Ahead(e, d)}
  BY <1>1
<1>3. \A d : Rank(Asking, d)' = Rank(Asking', d)
  BY <1>2 DEF Rank
<1>4. QED
  BY <1>1, <1>3 DEF CameAhead, LeftAhead

\* Recipients have not been put in another order.
Ordered == listing = "recipients" => past.moved = {}

\* What others do leaves the order of the documents there were, but where recipients are put
\* in another order.
LEMMA MeanwhileOrder ==
    ASSUME Basics, Meanwhile, listing \in Paged, Ordered'
    PROVE  /\ Ordered
           /\ \A e, d \in 1..created : Ahead(e, d)' <=> Ahead(e, d)
<1>1. UNCHANGED listing /\ Change
  BY DEF Meanwhile
<1>2. past'.moved = past.moved \cup Moved
  BY PastMeanwhile
<1>3. CASE listing # "recipients"
  BY <1>1, <1>3 DEF Ahead, Paged, Ordered
<1>4. CASE listing = "recipients"
  <2>1. past.moved = {} /\ Moved = {}
    BY <1>1, <1>2, <1>4 DEF Ordered
  <2>2. ASSUME NEW e \in 1..created, NEW d \in 1..created
        PROVE  ~ Swapped(e, d)
    <3>1. CASE place' = place
      BY <3>1 DEF Swapped
    <3>2. CASE Rewrite
      <4>1. PICK kept \in SUBSET there :
              /\ there' = kept \cup (created + 1)..created'
              /\ \/ \A f, g \in 1..created : ~ Swapped(f, g)
                 \/ \E f, g \in kept : Swapped(f, g)
        BY <3>2 DEF Rewrite
      <4>2. ASSUME NEW f \in kept, NEW g \in kept, Swapped(f, g)
            PROVE  FALSE
        <5>1. f \in there \cap there' /\ g \in there \cap there' /\ g \in Doc
          BY <4>1, MatchingStored DEF Basics
        <5>2. \E h \in there \cap there' : Swapped(h, g)
          BY <4>2, <5>1
        <5>3. g \in Moved
          BY <5>1, <5>2 DEF Moved
        <5>4. QED
          BY <2>1, <5>3
      <4>3. QED
        BY <4>1, <4>2
    <3>3. QED
      BY <1>1, <1>4, <3>1, <3>2
         DEF Change, Create, ReshareParent, DeleteList, AddAddress, SetAccount,
             SetPrivacy, SetActivePerson, DeleteSecret, Update, Reshare, SetActive, Resolve,
             CleanUp, DeleteLog
  <2>3. \A e, d \in 1..created : place'[e] < place'[d] <=> place[e] < place[d]
    BY <2>2 DEF Swapped
  <2>4. QED
    BY <1>1, <1>4, <2>1, <2>3 DEF Ahead, Ordered
<1>5. QED
  BY <1>3, <1>4

\* Whoever has fewer ahead of him has a lower rank.
LEMMA RankLess ==
    \A A, B \in SUBSET Doc : \A d :
        (\A e \in A : Ahead(e, d) => e \in B)
           => Rank(A, d) <= Rank(B, d) /\ Rank(A, d) \in Nat /\ Rank(B, d) \in Nat
<1> SUFFICES ASSUME NEW A \in SUBSET Doc, NEW B \in SUBSET Doc, NEW d,
                    \A e \in A : Ahead(e, d) => e \in B
             PROVE  Rank(A, d) <= Rank(B, d) /\ Rank(A, d) \in Nat /\ Rank(B, d) \in Nat
  OBVIOUS
<1> DEFINE a == {e \in A : Ahead(e, d)}
           b == {e \in B : Ahead(e, d)}
<1>1. b \in SUBSET Doc /\ a \in SUBSET b
  OBVIOUS
<1>2. Cardinality(a) <= Cardinality(b) /\ Cardinality(a) \in Nat /\ Cardinality(b) \in Nat
  BY <1>1, Fewer
<1>3. QED
  BY <1>2 DEF Rank

\* Once answered, a document is ahead of the next page unless one came ahead of it, or the
\* recipients are in another order by now.
RepeatedInv == listing \in Paged /\ Ordered =>
    /\ Walking => \A d \in seen : CameAhead(d) \/ Rank(Asking, d) < (page - 1) * Limit
    /\ Walking => \A d \in rows : CameAhead(d) \/ Rank(Asking, d) < page * Limit
    /\ Walking => \A d \in rows \cap seen : CameAhead(d)
    /\ \A d \in again : CameAhead(d)

\* Every read keeps RepeatedInv.
LEMMA ReadRepeated ==
    ASSUME Basics, RepeatedInv, NEW r \in Reading, ReadStep(r)
    PROVE  RepeatedInv'
<1> SUFFICES ASSUME listing \in Paged, Ordered
             PROVE  RepeatedInv'
  BY ReadDone, PastRead DEF RepeatedInv, Ordered
<1>1. /\ UNCHANGED <<listing, place, page, seen, again>> /\ Walking /\ Walking'
      /\ listing \in Kinds /\ Went(r)
  BY ReadDone, Kinded, DoWent DEF Basics, Went, docVars
<1>2. listing # "reportedUsers" /\ listing # "sharedWhole"
  BY DEF Paged, Whole
<1>3. Asking' = Asking /\ past'.came = past.came
  BY <1>2, AskingKept, PastRead
<1>4. Asking' = Matching(as') /\ (r \in {"find", "list"} => as' = as)
  BY AskingKept
<1>5. /\ \A d : Rank(Asking, d)' = Rank(Asking, d)
      /\ \A d : CameAhead(d)' <=> CameAhead(d)
  BY <1>1, <1>3, PagedKept DEF CameAhead
<1>6. ASSUME NEW d \in rows'
      PROVE  /\ CameAhead(d) \/ Rank(Asking, d) < page * Limit
             /\ d \in seen => CameAhead(d)
  <2>1. CASE r \in {"find", "list"}
    <3>1. Asking = Matching(as)
      BY <1>3, <1>4, <2>1
    <3>2. rows' = OnPage(Asking, page)
      <4>1. r = "list" => listing = "recipients"
        BY <1>1, ReadOf DEF Basics, Went, Paged, Whole
      <4>2. QED
        BY <2>1, <3>1, <4>1, ReadChanges
    <3>3. d \in Asking
      BY <3>2 DEF OnPage
    <3>4. Asking \in SUBSET Doc /\ page \in Nat \ {0} /\ Rank(Asking, d) \in Nat
      BY Sets, PageSteps, Ranked DEF Basics
    <3>5. (page - 1) * Limit <= Rank(Asking, d) /\ Rank(Asking, d) < page * Limit
      BY <3>2, <3>3, <3>4, PageOf
    <3>6. (page - 1) * Limit \in Nat
      BY PageSteps DEF Basics
    <3>7. QED
      BY <1>1, <3>4, <3>5, <3>6 DEF RepeatedInv
  <2>2. CASE r \notin {"find", "list"}
    BY <1>1, <2>2, ReadChanges DEF RepeatedInv
  <2>3. QED
    BY <2>1, <2>2
<1>7. QED
  BY <1>1, <1>5, <1>6 DEF RepeatedInv

\* What others do keeps RepeatedInv: without one that came ahead, ranks only fall.
LEMMA MeanwhileRepeated ==
    ASSUME Basics, SteadyInv, RepeatedInv, Meanwhile
    PROVE  RepeatedInv'
<1> SUFFICES ASSUME listing \in Paged, Ordered'
             PROVE  RepeatedInv'
  BY DEF RepeatedInv, Meanwhile
<1>1. /\ UNCHANGED <<listing, page, todo, rows, seen, again>> /\ Walking
  BY DEF Meanwhile, readVars, seenVars
<1>2. /\ Ordered
      /\ \A e, d \in 1..created : Ahead(e, d)' <=> Ahead(e, d)
  BY MeanwhileOrder
<1>3. past.came \subseteq past'.came /\ Asking' \ Asking \subseteq past'.came
  BY PastMeanwhile
<1>4. Asking \in SUBSET Doc /\ Asking' \in SUBSET Doc /\ page \in Nat
      /\ (page - 1) * Limit \in Nat /\ page * Limit \in Nat
  <2>1. Asking' \in SUBSET Doc
    <3>1. there' \subseteq Doc
      BY ChangeTyped, ListingAssumption DEF Meanwhile, Doc
    <3>2. QED
      BY <3>1 DEF Asking, Listed, Matching
  <2>2. QED
    BY <2>1, Sets, PageSteps DEF Basics
<1>5. /\ seen \subseteq 1..created /\ rows \subseteq 1..created /\ again \subseteq 1..created
      /\ past.came \subseteq 1..created /\ Asking \subseteq 1..created
  <2>1. Matching(as) \cup Matching(latest) \subseteq 1..created
    BY MatchingStored DEF Basics
  <2>2. QED
    BY <2>1 DEF Asking, Listed, SteadyInv, Basics, TypeOK, StoredInv
<1>6. \A d \in 1..created : CameAhead(d) => CameAhead(d)'
  BY <1>2, <1>3, <1>5 DEF CameAhead
<1>7. ASSUME NEW d \in 1..created, ~ CameAhead(d)'
      PROVE  /\ Rank(Asking, d)' <= Rank(Asking, d)
             /\ Rank(Asking, d)' \in Nat /\ Rank(Asking, d) \in Nat
  <2> DEFINE after == {e \in Asking' : Ahead(e, d)'}
             before == {e \in Asking : Ahead(e, d)}
  <2>1. \A e \in Asking' : Ahead(e, d)' => e \in Asking
    BY <1>3, <1>7 DEF CameAhead
  <2>2. after \subseteq before /\ before \in SUBSET Doc
    BY <1>2, <1>4, <1>5, <2>1
  <2>3. Cardinality(after) <= Cardinality(before)
        /\ Cardinality(after) \in Nat /\ Cardinality(before) \in Nat
    BY <2>2, Fewer
  <2>4. Rank(Asking, d)' = Cardinality(after) /\ Rank(Asking, d) = Cardinality(before)
    BY DEF Rank
  <2>5. QED
    BY <2>3, <2>4
<1>8. \A d \in seen : CameAhead(d)' \/ Rank(Asking, d)' < (page - 1) * Limit
  BY <1>1, <1>2, <1>4, <1>5, <1>6, <1>7 DEF RepeatedInv
<1>9. \A d \in rows : CameAhead(d)' \/ Rank(Asking, d)' < page * Limit
  BY <1>1, <1>2, <1>4, <1>5, <1>6, <1>7 DEF RepeatedInv
<1>10. QED
  BY <1>1, <1>2, <1>5, <1>6, <1>8, <1>9 DEF RepeatedInv

\* An answer keeps RepeatedInv: a page holds ranks the pages before it did not.
LEMMA AnswerRepeated ==
    ASSUME Basics, RepeatedInv, Answer
    PROVE  RepeatedInv'
<1> SUFFICES ASSUME listing \in Paged, Ordered
             PROVE  RepeatedInv'
  BY AnswerAsks DEF RepeatedInv, Ordered, Answer
<1>1. /\ UNCHANGED <<listing, place>> /\ Running /\ Walking /\ listing \in Kinds
  BY AtAnswer, Kinded DEF Basics, Answer, Running, docVars
<1>2. PICK answered \in SUBSET rows :
        seen' = seen \cup answered /\ again' = again \cup (seen \cap answered)
  <2>1. Answered = rows
    BY DEF Answered, Paged, Whole
  <2>2. QED
    BY <2>1 DEF Answer
<1>3. past.came \subseteq past'.came /\ rows' = {}
  BY AnswerAsks DEF Answer
<1>4. \A d : CameAhead(d) => CameAhead(d)'
  BY <1>1, <1>3, PagedKept DEF CameAhead
<1>5. \A d \in again' : CameAhead(d)'
  BY <1>1, <1>2, <1>4 DEF RepeatedInv
<1>6. CASE HasNextPage
  <2>1. /\ page' = page + 1 /\ Asking' = Listed
        /\ past'.came = past.came \cup (Listed \ Asking)
    BY <1>6, AnswerBasics, AnswerAsks
  <2>2. /\ Asking \in SUBSET Doc /\ Listed \in SUBSET Doc
        /\ page \in Nat /\ (page - 1) * Limit \in Nat /\ page * Limit \in Nat
        /\ (page - 1) * Limit <= page * Limit /\ page' - 1 = page
    BY <2>1, Sets, PageSteps DEF Basics
  <2>3. ASSUME NEW d \in seen', ~ CameAhead(d)'
        PROVE  Rank(Asking, d)' < page * Limit
    <3>1. Rank(Asking, d) < page * Limit
      <4>1. d \in seen \cup rows /\ ~ CameAhead(d) /\ Rank(Asking, d) \in Nat
        BY <1>2, <1>4, <2>2, <2>3, Ranked
      <4>2. d \in seen => Rank(Asking, d) < (page - 1) * Limit
        BY <1>1, <4>1 DEF RepeatedInv
      <4>3. d \in rows => Rank(Asking, d) < page * Limit
        BY <1>1, <4>1 DEF RepeatedInv
      <4>4. QED
        BY <2>2, <4>1, <4>2, <4>3
    <3>2. \A e \in Listed : Ahead(e, d) => e \in Asking
      BY <1>1, <2>1, <2>3, PagedKept
    <3>3. Rank(Listed, d) <= Rank(Asking, d) /\ Rank(Listed, d) \in Nat /\ Rank(Asking, d) \in Nat
      BY <2>2, <3>2, RankLess
    <3>4. Rank(Asking, d)' = Rank(Listed, d)
      BY <1>1, <2>1, PagedKept
    <3>5. QED
      BY <2>2, <3>1, <3>3, <3>4
  <2>4. QED
    BY <1>3, <1>5, <2>2, <2>3 DEF RepeatedInv
<1>7. CASE ~ HasNextPage
  <2>1. ~ Walking'
    BY <1>7, AnswerBasics
  <2>2. QED
    BY <1>5, <2>1 DEF RepeatedInv
<1>8. QED
  BY <1>6, <1>7

\* What may have hidden d: a page counted before it read, or one ahead of it left.
Excused(d) == past.short \/ LeftAhead(d)

\* The rows of the request under way have been read.
HasFound == Running /\ ~ Pending("find") /\ ~ Pending("list")

\* What was listed all along and has not been answered is on a page still to come, and
\* counts for the next page, unless it is excused or recipients are in another order by now.
MissedInv == listing \in Paged /\ Ordered =>
    /\ Walking => \A d \in past.steady \ seen :
          /\ Excused(d) \/ (page - 1) * Limit <= Rank(Asking, d)
          /\ HasFound /\ d \notin rows => Excused(d) \/ page * Limit <= Rank(Asking, d)
          /\ HasFound /\ d \notin rows /\ ~ Pending("count") =>
                Excused(d) \/ page * Limit < Cardinality(counted)
    /\ listing = "children" => past.short \/ rows \subseteq counted
    /\ Walking /\ listing = "children" /\ Pending("count") => rows = {}
    /\ Walked => \A d \in past.steady \ seen : Excused(d)

\* What is read at the same time as r is pending with it.
LEMMA HeadPending ==
    ASSUME listing \in Kinds, StageInv, Walking, NEW r, Do(r)
    PROVE  \A q \in Head(todo) : Pending(q)
<1>1. CASE \E i \in 1..(Len(Reads) + 1) :
                 /\ \A q : Pending(q) <=> \E j \in i..Len(Reads) : q \in Reads[j]
                 /\ \A q : Do(q) => i <= Len(Reads) /\ q \in Reads[i] /\ Head(todo) = Reads[i]
  <2>1. PICK i \in 1..(Len(Reads) + 1) :
                 /\ \A q : Pending(q) <=> \E j \in i..Len(Reads) : q \in Reads[j]
                 /\ \A q : Do(q) => i <= Len(Reads) /\ q \in Reads[i] /\ Head(todo) = Reads[i]
    BY <1>1
  <2>2. Len(Reads) \in Nat
    BY ReadsShape DEF Shape
  <2>3. i \in i..Len(Reads) /\ Head(todo) = Reads[i]
    BY <2>1, <2>2
  <2>4. QED
    BY <2>1, <2>3
<1>2. CASE \E x \in {"count", "find"} : todo = <<{x}>> /\ \A q : Pending(q) <=> q = x
  <2>1. PICK x \in {"count", "find"} : todo = <<{x}>> /\ \A q : Pending(q) <=> q = x
    BY <1>2
  <2>2. Head(todo) = {x}
    BY <2>1
  <2>3. QED
    BY <2>1, <2>2
<1>3. QED
  BY <1>1, <1>2, Position

\* Children are counted before they are found.
LEMMA ChildrenOrder ==
    ASSUME listing = "children", StageInv, Walking, Do("find")
    PROVE  ~ Pending("count")
<1>1. /\ Len(Reads) = 5
      /\ Reads[1] = {"reader"} /\ Reads[2] = {"access"} /\ Reads[3] = {"count"}
      /\ Reads[4] = {"find"} /\ Reads[5] = {"owners"}
  BY ReadsAt
<1>2. listing \in Kinds
  BY DEF Kinds, Secrets
<1>3. PICK i \in 1..(Len(Reads) + 1) :
                 /\ \A q : Pending(q) <=> \E j \in i..Len(Reads) : q \in Reads[j]
                 /\ \A q : Do(q) => i <= Len(Reads) /\ q \in Reads[i] /\ Head(todo) = Reads[i]
  <2>1. Reads[Len(Reads)] # {"count", "find"}
    BY <1>1
  <2>2. QED
    BY <1>2, <2>1, Position
<1>4. i \in 1..5 /\ "find" \in Reads[i]
  BY <1>1, <1>3
<1>5. i = 4
  BY <1>1, <1>4
<1>6. \A j \in 4..5 : "count" \notin Reads[j]
  BY <1>1
<1>7. QED
  BY <1>1, <1>3, <1>5, <1>6

\* At its first read a page has its rows before it.
LEMMA PagedBegins ==
    ASSUME listing \in Paged, listing \in Kinds, StageInv, Walking, todo = Reads
    PROVE  Pending("find") \/ Pending("list")
<1>1. \E j \in 1..Len(Reads) : "find" \in Reads[j] \/ "list" \in Reads[j]
  <2>1. CASE listing \in {"own", "notifications", "adminSecrets", "users", "reports"}
    <3>1. Len(Reads) = 2 /\ "find" \in Reads[2]
      BY <2>1, ReadsAt
    <3>2. QED
      BY <3>1
  <2>2. CASE listing \in {"logs", "usersExceptMe", "adminNotifications", "adminLogs"}
    <3>1. Len(Reads) = 1 /\ "find" \in Reads[1]
      BY <2>2, ReadsAt
    <3>2. QED
      BY <3>1
  <2>3. CASE listing = "children"
    <3>1. Len(Reads) = 5 /\ "find" \in Reads[4]
      BY <2>3, ReadsAt
    <3>2. QED
      BY <3>1
  <2>4. CASE listing = "recipients"
    <3>1. Len(Reads) = 2 /\ "list" \in Reads[2]
      BY <2>4, ReadsAt
    <3>2. QED
      BY <3>1
  <2>5. QED
    BY <2>1, <2>2, <2>3, <2>4 DEF Paged, Whole, Kinds, Secrets
<1>2. PICK i \in 1..(Len(Reads) + 1) :
                 /\ (i = 1 <=> todo = Reads)
                 /\ \A q : Pending(q) <=> \E j \in i..Len(Reads) : q \in Reads[j]
  BY Position
<1>3. QED
  BY <1>1, <1>2

\* Every read keeps MissedInv.
LEMMA ReadMissed ==
    ASSUME Basics, SteadyInv, MissedInv, NEW r \in Reading, ReadStep(r)
    PROVE  MissedInv'
<1> SUFFICES ASSUME listing \in Paged, Ordered
             PROVE  MissedInv'
  BY ReadDone, PastRead DEF MissedInv, Ordered
<1>1. /\ UNCHANGED <<listing, place, page, seen, again>> /\ Walking /\ Walking'
      /\ listing \in Kinds /\ Went(r) /\ Do(r) /\ Pending(r) /\ ~ Pending(r)'
      /\ \A q \in Reading \ {r} : Pending(q)' <=> Pending(q)
  BY ReadDone, Kinded, DoWent DEF Basics, Went, docVars
<1>2. listing # "reportedUsers" /\ listing # "sharedWhole"
  BY DEF Paged, Whole
<1>3. r \notin {"account", "latest", "distinct"} /\ (r = "list" => listing = "recipients")
  BY <1>1, <1>2, ReadOf DEF Basics, Went, Paged, Whole
<1>4. /\ Asking' = Asking /\ past'.left = past.left /\ past'.steady = past.steady
      /\ past.short => past'.short /\ (r # "find" => past'.short = past.short)
  BY <1>2, <1>3, AskingKept, PastRead
<1>5. /\ \A d : Rank(Asking, d)' = Rank(Asking, d)
      /\ \A d : LeftAhead(d)' <=> LeftAhead(d)
      /\ \A d : Excused(d) => Excused(d)'
  BY <1>1, <1>4, PagedKept DEF LeftAhead, Excused
<1>6. /\ past.steady \subseteq Asking /\ Asking \in SUBSET Doc
      /\ page \in Nat \ {0} /\ page * Limit \in Nat /\ (page - 1) * Limit \in Nat
  <2>1. past.steady \subseteq Asking
    BY <1>1, <1>2 DEF SteadyInv, Pooled, Paged
  <2>2. QED
    BY <2>1, Sets, PageSteps DEF Basics
<1>7. r \in {"find", "list", "count"} => Asking = Matching(as)
  BY <1>1, <1>4, AskingKept
<1>8. r \in {"find", "list"} => rows' = OnPage(Asking, page)
  BY <1>3, <1>7, ReadChanges
<1>9. \A d \in Doc : ~ Ahead(d, d)
  <2>1. \A d \in Doc : d \in Nat /\ place[d] \in Nat
    BY ListingAssumption DEF Basics, TypeOK, Doc
  <2>2. QED
    BY <1>1, <2>1, PagedAhead DEF Paged
<1>10. ASSUME NEW d \in past.steady \ seen, HasFound', d \notin rows'
       PROVE  Excused(d) \/ page * Limit <= Rank(Asking, d)
  <2>1. CASE r \in {"find", "list"}
    <3>1. d \in Asking /\ d \notin OnPage(Asking, page) /\ Rank(Asking, d) \in Nat
      BY <1>6, <1>8, <1>10, <2>1, Ranked
    <3>2. ~ ((page - 1) * Limit <= Rank(Asking, d) /\ Rank(Asking, d) < page * Limit)
      BY <1>6, <3>1, PageOf
    <3>3. Excused(d) \/ (page - 1) * Limit <= Rank(Asking, d)
      BY <1>1, <1>10 DEF MissedInv
    <3>4. QED
      BY <1>6, <3>1, <3>2, <3>3
  <2>2. CASE r \notin {"find", "list"}
    <3>1. ~ Pending("find") /\ ~ Pending("list")
      BY <1>1, <1>10, <2>2 DEF HasFound, Reading
    <3>2. HasFound
      BY <1>1, <3>1, PagedBegins DEF HasFound, Running, Basics
    <3>3. rows' = rows
      BY <2>2, ReadChanges
    <3>4. QED
      BY <1>1, <1>10, <3>2, <3>3 DEF MissedInv
  <2>3. QED
    BY <2>1, <2>2
<1>11. ASSUME NEW d \in past.steady \ seen, HasFound', d \notin rows', ~ Pending("count")'
       PROVE  Excused(d)' \/ page * Limit < Cardinality(counted')
  <2> SUFFICES ASSUME ~ Excused(d)'
               PROVE  page * Limit < Cardinality(counted')
    OBVIOUS
  <2>1. page * Limit <= Rank(Asking, d)
    BY <1>5, <1>10, <1>11
  <2>2. Asking \subseteq counted' => page * Limit < Cardinality(counted')
    <3> SUFFICES ASSUME Asking \subseteq counted'
                 PROVE  page * Limit < Cardinality(counted')
      OBVIOUS
    <3>1. d \in Asking /\ d \in Doc
      BY <1>6, <1>11
    <3>2. Rank(Asking, d) < Cardinality(Asking) /\ Rank(Asking, d) \in Nat
      BY <1>6, <1>9, <3>1, RankBelow, Ranked
    <3>3. \A A, B \in SUBSET Doc : A \subseteq B =>
              Cardinality(A) <= Cardinality(B) /\ Cardinality(A) \in Nat /\ Cardinality(B) \in Nat
      BY Fewer
    <3>4. counted' \in SUBSET Doc
      BY ReadTyped
    <3>5. QED
      BY <1>6, <2>1, <3>2, <3>3, <3>4
  <2>3. CASE r \in {"count", "list"}
    BY <1>7, <2>2, <2>3, ReadChanges
  <2>4. CASE r = "find"
    <3>1. ~ Pending("count")
      BY <1>1, <1>11, <2>4 DEF Reading
    <3>2. "count" \notin Head(todo)
      BY <1>1, <3>1, HeadPending DEF Basics
    <3>3. ~ past'.short
      BY DEF Excused
    <3>4. Matching(as) \subseteq counted
      BY <2>4, <3>2, <3>3, PastRead
    <3>5. counted' = counted
      BY <2>4, ReadChanges
    <3>6. QED
      BY <1>7, <2>2, <2>4, <3>4, <3>5
  <2>5. CASE r \notin {"count", "list", "find"}
    <3>1. ~ Pending("find") /\ ~ Pending("list") /\ ~ Pending("count")
      BY <1>1, <1>11, <2>5 DEF HasFound, Reading
    <3>2. HasFound
      BY <1>1, <3>1, PagedBegins DEF HasFound, Running, Basics
    <3>3. rows' = rows /\ counted' = counted
      BY <1>3, <2>5, ReadChanges
    <3>4. ~ Excused(d)
      BY <1>5
    <3>5. QED
      BY <1>1, <1>11, <3>1, <3>2, <3>3, <3>4 DEF MissedInv
  <2>6. QED
    BY <2>3, <2>4, <2>5
<1>12. ASSUME listing = "children"
       PROVE  past'.short \/ rows' \subseteq counted'
  <2>1. CASE r = "find"
    <3>1. ~ Pending("count")
      BY <1>1, <1>12, <2>1, ChildrenOrder DEF Basics
    <3>2. "count" \notin Head(todo)
      BY <1>1, <3>1, HeadPending DEF Basics
    <3>3. past'.short \/ Matching(as) \subseteq counted
      BY <2>1, <3>2, PastRead
    <3>4. rows' \subseteq Matching(as) /\ counted' = counted
      <4>1. rows' = OnPage(Matching(as), page) /\ counted' = counted
        BY <2>1, ReadChanges
      <4>2. QED
        BY <4>1 DEF OnPage
    <3>5. QED
      BY <3>3, <3>4
  <2>2. CASE r = "count"
    <3>1. rows = {}
      BY <1>1, <1>12, <2>2 DEF MissedInv
    <3>2. rows' = {}
      BY <2>2, <3>1, ReadChanges
    <3>3. QED
      BY <3>2
  <2>3. CASE r \notin {"find", "count"}
    <3>1. rows' = rows /\ counted' = counted
      BY <1>3, <1>12, <2>3, ReadChanges
    <3>2. QED
      BY <1>4, <1>12, <3>1 DEF MissedInv
  <2>4. QED
    BY <2>1, <2>2, <2>3
<1>13. ASSUME listing = "children", Pending("count")'
       PROVE  rows' = {}
  <2>1. r # "count" /\ Pending("count")
    BY <1>1, <1>13 DEF Reading
  <2>2. r # "find"
    BY <1>1, <1>13, <2>1, ChildrenOrder DEF Basics
  <2>3. QED
    BY <1>1, <1>3, <1>13, <2>1, <2>2, ReadChanges DEF MissedInv
<1>14. ~ Walked'
  BY <1>1 DEF Walked, Walking
<1>15. \A d \in past.steady \ seen :
          /\ Excused(d)' \/ (page - 1) * Limit <= Rank(Asking, d)'
          /\ HasFound' /\ d \notin rows' => Excused(d)' \/ page * Limit <= Rank(Asking, d)'
          /\ HasFound' /\ d \notin rows' /\ ~ Pending("count")' =>
                Excused(d)' \/ page * Limit < Cardinality(counted')
  BY <1>1, <1>5, <1>10, <1>11 DEF MissedInv
<1>16. QED
  BY <1>1, <1>4, <1>12, <1>13, <1>14, <1>15 DEF MissedInv

\* What others do keeps MissedInv: without one ahead that left, ranks only grow.
LEMMA MeanwhileMissed ==
    ASSUME Basics, SteadyInv, MissedInv, Meanwhile
    PROVE  MissedInv'
<1> SUFFICES ASSUME listing \in Paged, Ordered'
             PROVE  MissedInv'
  BY DEF MissedInv, Meanwhile
<1>1. /\ UNCHANGED <<listing, page, todo, rows, counted, seen, again>> /\ Walking /\ ~ Walked'
      /\ (HasFound' <=> HasFound) /\ (Pending("count")' <=> Pending("count"))
  BY DEF Meanwhile, readVars, seenVars, Walked, Walking, HasFound, Running, Pending, Reads
<1>2. /\ Ordered
      /\ \A e, d \in 1..created : Ahead(e, d)' <=> Ahead(e, d)
  BY MeanwhileOrder
<1>3. past.left \subseteq past'.left /\ Asking \ Asking' \subseteq past'.left
      /\ past'.short = past.short /\ past'.steady \subseteq past.steady
  BY PastMeanwhile
<1>4. Asking \in SUBSET Doc /\ Asking' \in SUBSET Doc /\ page \in Nat
      /\ (page - 1) * Limit \in Nat /\ page * Limit \in Nat
  <2>1. Asking' \in SUBSET Doc
    <3>1. there' \subseteq Doc
      BY ChangeTyped, ListingAssumption DEF Meanwhile, Doc
    <3>2. QED
      BY <3>1 DEF Asking, Listed, Matching
  <2>2. QED
    BY <2>1, Sets, PageSteps DEF Basics
<1>5. /\ past.steady \subseteq 1..created /\ past.left \subseteq 1..created
      /\ Asking \subseteq 1..created
  <2>1. Matching(as) \cup Matching(latest) \subseteq 1..created
    BY MatchingStored DEF Basics
  <2>2. QED
    BY <1>1, <2>1 DEF Asking, Listed, SteadyInv
<1>6. \A d \in 1..created : Excused(d) => Excused(d)'
  BY <1>2, <1>3, <1>5 DEF LeftAhead, Excused
<1>7. ASSUME NEW d \in 1..created, ~ Excused(d)'
      PROVE  /\ Rank(Asking, d) <= Rank(Asking, d)'
             /\ Rank(Asking, d)' \in Nat /\ Rank(Asking, d) \in Nat
  <2> DEFINE after == {e \in Asking' : Ahead(e, d)'}
             before == {e \in Asking : Ahead(e, d)}
  <2>1. \A e \in Asking : Ahead(e, d)' => e \in Asking'
    BY <1>3, <1>7 DEF LeftAhead, Excused
  <2>2. before \subseteq after /\ after \in SUBSET Doc
    BY <1>2, <1>4, <1>5, <2>1
  <2>3. Cardinality(before) <= Cardinality(after)
        /\ Cardinality(after) \in Nat /\ Cardinality(before) \in Nat
    BY <2>2, Fewer
  <2>4. Rank(Asking, d)' = Cardinality(after) /\ Rank(Asking, d) = Cardinality(before)
    BY DEF Rank
  <2>5. QED
    BY <2>3, <2>4
<1>8. ASSUME NEW d \in past'.steady \ seen, ~ Excused(d)'
      PROVE  /\ (page - 1) * Limit <= Rank(Asking, d)'
             /\ HasFound /\ d \notin rows => page * Limit <= Rank(Asking, d)'
             /\ HasFound /\ d \notin rows /\ ~ Pending("count")
                   => page * Limit < Cardinality(counted)
  <2>1. d \in past.steady \ seen /\ ~ Excused(d) /\ d \in 1..created
    BY <1>3, <1>5, <1>6, <1>8
  <2>2. /\ (page - 1) * Limit <= Rank(Asking, d)
        /\ HasFound /\ d \notin rows => page * Limit <= Rank(Asking, d)
        /\ HasFound /\ d \notin rows /\ ~ Pending("count") => page * Limit < Cardinality(counted)
    BY <1>1, <1>2, <2>1 DEF MissedInv
  <2>3. QED
    BY <1>4, <1>7, <1>8, <2>1, <2>2
<1>9. listing = "children" => /\ past'.short \/ rows' \subseteq counted'
                              /\ Pending("count")' => rows' = {}
  BY <1>1, <1>2, <1>3 DEF MissedInv
<1>10. QED
  BY <1>1, <1>8, <1>9 DEF MissedInv

\* An answer keeps MissedInv: at the end of the walk the count has left no page to come.
LEMMA AnswerMissed ==
    ASSUME Basics, MissedInv, Answer
    PROVE  MissedInv'
<1> SUFFICES ASSUME listing \in Paged, Ordered
             PROVE  MissedInv'
  BY AnswerAsks DEF MissedInv, Ordered, Answer
<1>1. /\ UNCHANGED <<listing, place>> /\ Running /\ Walking /\ listing \in Kinds
      /\ \A q : ~ Pending(q)
      /\ HasFound /\ ~ Running' /\ rows' = {} /\ Reads' = Reads
  BY AtAnswer, AnswerBasics, Kinded DEF Basics, Answer, Running, HasFound, docVars
<1>2. seen' = seen \cup rows \/ (past.short /\ seen' = seen) \/ (rows = {} /\ seen' = seen)
  <2>1. Answered = rows
    BY DEF Answered, Paged, Whole
  <2>2. listing = "children" /\ counted = {} => past.short \/ rows = {}
    BY DEF MissedInv
  <2>3. seen' = seen \cup (IF listing = "children" /\ counted = {} THEN {} ELSE rows)
    BY <2>1 DEF Answer
  <2>4. QED
    BY <2>2, <2>3
<1>3. /\ past'.steady = past.steady /\ past.left \subseteq past'.left /\ past'.short = past.short
  BY AnswerAsks
<1>4. \A d : Excused(d) => Excused(d)'
  BY <1>1, <1>3, PagedKept DEF LeftAhead, Excused
<1>5. ASSUME NEW d \in past'.steady \ seen'
      PROVE  \/ Excused(d)
             \/ /\ page * Limit <= Rank(Asking, d)
                /\ page * Limit < Cardinality(counted)
  <2>1. CASE past.short
    BY <2>1 DEF Excused
  <2>2. CASE ~ past.short
    <3>1. d \in past.steady \ seen /\ d \notin rows
      BY <1>2, <1>3, <1>5, <2>2
    <3>2. QED
      BY <1>1, <3>1 DEF MissedInv
  <2>3. QED
    BY <2>1, <2>2
<1>6. CASE HasNextPage
  <2>1. /\ page' = page + 1 /\ Asking' = Listed /\ todo' = Reads /\ ~ HasFound' /\ ~ Walked'
        /\ past'.left = past.left \cup (Asking \ Listed)
    <3>1. /\ page' = page + 1 /\ Asking' = Listed /\ todo' = Reads
          /\ past'.left = past.left \cup (Asking \ Listed)
      BY <1>6, AnswerBasics, AnswerAsks
    <3>2. Walking'
      <4>1. todo' = Rest(1)
        BY <3>1, ReadsShape, <1>1 DEF Rest, Shape
      <4>2. 1 \in 1..(Len(Reads) + 1)
        BY <1>1, ReadsShape DEF Shape
      <4>3. QED
        BY <1>1, <4>1, <4>2, RestWalks DEF Walking
    <3>3. QED
      BY <1>1, <3>1, <3>2 DEF HasFound, Walked, Walking
  <2>2. /\ Asking \in SUBSET Doc /\ Listed \in SUBSET Doc
        /\ page \in Nat /\ page * Limit \in Nat /\ page' - 1 = page
    BY <2>1, Sets, PageSteps DEF Basics
  <2>3. ASSUME NEW d \in past'.steady \ seen', ~ Excused(d)'
        PROVE  page * Limit <= Rank(Asking, d)'
    <3>1. page * Limit <= Rank(Asking, d)
      BY <1>4, <1>5, <2>3
    <3>2. ~ LeftAhead(d)'
      BY <2>3 DEF Excused
    <3>3. \A e \in Asking : Ahead(e, d) => e \in Listed
      BY <1>1, <2>1, <3>2, PagedKept
    <3>4. Rank(Asking, d) <= Rank(Listed, d) /\ Rank(Listed, d) \in Nat /\ Rank(Asking, d) \in Nat
      BY <2>2, <3>3, RankLess
    <3>5. Rank(Asking, d)' = Rank(Listed, d)
      BY <1>1, <2>1, PagedKept
    <3>6. QED
      BY <2>2, <3>1, <3>4, <3>5
  <2>4. QED
    BY <1>1, <2>1, <2>2, <2>3 DEF MissedInv
<1>7. CASE ~ HasNextPage
  <2>1. ~ Walking'
    BY <1>7, AnswerBasics
  <2>2. ~ page * Limit < Cardinality(counted)
    BY <1>7 DEF HasNextPage, Total, Paged, Pooled, Whole
  <2>3. \A d \in past'.steady \ seen' : Excused(d)'
    BY <1>4, <1>5, <2>2
  <2>4. QED
    BY <1>1, <2>1, <2>3 DEF MissedInv
<1>8. QED
  BY <1>6, <1>7

\* The query that finds an entry of the reader's first, as he is known now.
Turn(d) == Class(d, latest)

\* The name of query n.
NameOf(n) == CASE n = 1 -> "userId" [] n = 2 -> "username" [] n = 3 -> "publicAddress"

\* Query n of the request is over.
Queried(n) == Running /\ ~ Pending(NameOf(n))

\* The queries of shared secrets are made in their order.
LEMMA QueryOrder ==
    ASSUME listing \in Pooled, StageInv, Walking
    PROVE  /\ Pending("userId") => Pending("username")
           /\ Pending("username") => Pending("publicAddress")
           /\ todo = Reads => Pending("userId")
           /\ Do("account") => Pending("userId")
           /\ Do("username") => ~ Pending("userId")
           /\ Do("publicAddress") => ~ Pending("userId") /\ ~ Pending("username")
<1>1. listing \in Kinds
  BY DEF Kinds, Secrets, Pooled
<1>2. PICK k \in {2, 3} :
        /\ k + 3 <= Len(Reads)
        /\ Reads[k] = {"userId"} /\ Reads[k + 1] = {"username"}
        /\ Reads[k + 2] = {"publicAddress"}
        /\ k = 3 => Reads[2] = {"account"}
  <2>1. CASE listing = "shared"
    <3>1. 2 + 1 = 3 /\ 2 + 2 = 4 /\ 2 + 3 = 5
      OBVIOUS
    <3>2. /\ Len(Reads) = 5 /\ Reads[2] = {"userId"} /\ Reads[3] = {"username"}
          /\ Reads[4] = {"publicAddress"}
      BY <2>1, ReadsAt
    <3>3. QED
      BY <3>1, <3>2
  <2>2. CASE listing = "sharedWhole"
    <3>1. 3 + 1 = 4 /\ 3 + 2 = 5 /\ 3 + 3 = 6
      OBVIOUS
    <3>2. /\ Len(Reads) = 7 /\ Reads[3] = {"userId"} /\ Reads[4] = {"username"}
          /\ Reads[5] = {"publicAddress"} /\ Reads[2] = {"account"}
      BY <2>2, ReadsAt
    <3>3. QED
      BY <3>1, <3>2
  <2>3. QED
    BY <2>1, <2>2 DEF Pooled
<1>3. /\ Len(Reads) \in 1..7
      /\ \A i, j \in 1..Len(Reads) : \A r : r \in Reads[i] /\ r \in Reads[j] => i = j
  BY <1>1, ReadsShape DEF Shape
<1>4. PICK i \in 1..(Len(Reads) + 1) :
                 /\ (i = 1 <=> todo = Reads)
                 /\ \A q : Pending(q) <=> \E j \in i..Len(Reads) : q \in Reads[j]
                 /\ \A q : Do(q) => i <= Len(Reads) /\ q \in Reads[i] /\ Head(todo) = Reads[i]
  <2>1. Reads[Len(Reads)] # {"count", "find"}
    BY ReadsAt DEF Pooled
  <2>2. QED
    BY <1>1, <2>1, Position
<1>5. /\ k \in 1..Len(Reads) /\ k + 1 \in 1..Len(Reads) /\ k + 2 \in 1..Len(Reads)
      /\ 2 \in 1..Len(Reads) /\ k >= 2
  BY <1>2, <1>3
<1>6. \A j \in 1..Len(Reads) :
          /\ "userId" \in Reads[j] <=> j = k
          /\ "username" \in Reads[j] <=> j = k + 1
          /\ "publicAddress" \in Reads[j] <=> j = k + 2
          /\ "account" \in Reads[j] /\ k = 3 => j = 2
  <2>1. /\ "userId" \in Reads[k] /\ "username" \in Reads[k + 1]
        /\ "publicAddress" \in Reads[k + 2] /\ (k = 3 => "account" \in Reads[2])
    BY <1>2
  <2>2. QED
    BY <1>3, <1>5, <2>1
<1>7. \A j : j \in i..Len(Reads) <=> j \in 1..Len(Reads) /\ i <= j
  BY <1>3, <1>4
<1>8. /\ Pending("userId") <=> i <= k
      /\ Pending("username") <=> i <= k + 1
      /\ Pending("publicAddress") <=> i <= k + 2
  BY <1>4, <1>5, <1>6, <1>7
<1>9. \A q : Do(q) => i \in 1..Len(Reads) /\ q \in Reads[i]
  BY <1>3, <1>4
<1>10. Do("account") => i <= k
  <2>1. CASE k = 3
    BY <1>5, <1>6, <1>9, <2>1
  <2>2. CASE k = 2
    <3>1. listing = "shared"
      <4>1. listing = "sharedWhole" => Reads[3] = {"userId"} /\ Len(Reads) = 7
        BY ReadsAt
      <4>2. listing = "sharedWhole" => 3 = k
        BY <1>6, <4>1
      <4>3. QED
        BY <2>2, <4>2 DEF Pooled
    <3>2. ~ Do("account")
      <4>1. /\ Len(Reads) = 5 /\ Reads[1] = {"reader"} /\ Reads[2] = {"userId"}
            /\ Reads[3] = {"username"} /\ Reads[4] = {"publicAddress"} /\ Reads[5] = {"owners"}
        BY <3>1, ReadsAt
      <4>2. \A j \in 1..5 : "account" \notin Reads[j]
        BY <4>1
      <4>3. QED
        BY <1>9, <4>1, <4>2
    <3>3. QED
      BY <3>2
  <2>3. QED
    BY <1>2, <2>1, <2>2
<1>11. (Do("username") => i = k + 1) /\ (Do("publicAddress") => i = k + 2)
  BY <1>6, <1>9
<1>12. QED
  BY <1>4, <1>5, <1>8, <1>10, <1>11

\* Query n, by its name.
NamedIn(n) == CASE n = 1 -> {d \in Doc : as.account /\ says[d].userId}
              [] n = 2 -> {d \in Doc : says[d].username}
              [] n = 3 -> {d \in Doc : /\ as.address # None
                                       /\ says[d].publicAddress = as.address}

\* What query n finds that no query before it has.
Newly(n) == {d \in NamedIn(n) \cap there : d \notin off \cup nested /\ found[d] = 0}

\* What query n does.
Finds(n) ==
    /\ found' = [d \in Doc |-> IF d \in Newly(n) THEN n ELSE found[d]]
    /\ read' = [d \in Doc |-> IF d \in Newly(n) THEN says[d] ELSE read[d]]

\* Whom each query asks for.
LEMMA NamedInIs ==
    /\ NamedIn(1) = {d \in Doc : as.account /\ says[d].userId}
    /\ NamedIn(2) = {d \in Doc : says[d].username}
    /\ NamedIn(3) = {d \in Doc : as.address # None /\ says[d].publicAddress = as.address}
<1>1. NamedIn(1) = {d \in Doc : as.account /\ says[d].userId}
  BY DEF NamedIn
<1>2. NamedIn(2) = {d \in Doc : says[d].username}
  BY DEF NamedIn
<1>3. NamedIn(3) = {d \in Doc : as.address # None /\ says[d].publicAddress = as.address}
  BY DEF NamedIn
<1>4. QED
  BY <1>1, <1>2, <1>3

\* The three queries, by their numbers.
LEMMA QueryFinds ==
    ASSUME NEW r \in Reading, ReadStep(r), r \in {"userId", "username", "publicAddress"}
    PROVE  \E n \in 1..3 : NameOf(n) = r /\ Finds(n)
<1>1. CASE r = "userId"
  <2>1. ByUserId /\ NameOf(1) = r
    BY <1>1 DEF ReadStep, NameOf
  <2>2. Finds(1)
    BY <2>1, NamedInIs DEF ByUserId, Query, Finds, Newly
  <2>3. QED
    BY <2>1, <2>2
<1>2. CASE r = "username"
  <2>1. Finds(2) /\ NameOf(2) = r
    BY <1>2 DEF ReadStep, ByUsername, Query, Finds, Newly, NamedIn, NameOf
  <2>2. QED
    BY <2>1
<1>3. CASE r = "publicAddress"
  <2>1. ByAddress /\ NameOf(3) = r
    BY <1>3 DEF ReadStep, NameOf
  <2>2. Finds(3)
    BY <2>1, NamedInIs DEF ByAddress, Query, Finds, Newly
  <2>3. QED
    BY <2>1, <2>2
<1>4. QED
  BY <1>1, <1>2, <1>3

\* For pages, a secret shared all along is found by the first query that could.
FoundInv == (listing = "shared" /\ Walking) =>
    /\ Running => \A d \in Doc \ past.moved : Class(d, as) = Turn(d)
    /\ \A d \in Doc \ past.moved : found[d] # 0 => read[d] = says[d] /\ Turn(d) <= found[d]
    /\ \A n \in 1..3 : ~ Queried(n) => \A d \in Doc : found[d] # n
    /\ \A d \in Asking \ past.moved : d \notin past.came \/ d \in past.steady =>
                                         (Queried(Turn(d)) => found[d] = Turn(d))

\* All at once, a secret shared all along names the reader as read, and is found by one query
\* or another.
FoundAtOnceInv == (listing = "sharedWhole" /\ Walking) =>
    /\ \A d \in Doc \ past.moved : found[d] # 0 => read[d] = says[d]
    /\ Running => \A d \in past.steady \ past.moved :
          /\ Names(says[d], as)
          /\ \/ says[d].publicAddress \in {None, as.address}
             \/ as.address = None /\ Pending("latest")
          /\ ~ Pending("userId") /\ as.account /\ says[d].userId => found[d] # 0
          /\ ~ Pending("username") /\ says[d].username => found[d] # 0
          /\ ~ Pending("publicAddress") => found[d] # 0

\* Every secret has a class.
LEMMA ClassRange == \A d : Turn(d) \in 1..3
  BY DEF Turn, Class

\* What a class says.
LEMMA ClassIs ==
    ASSUME NEW d, NEW i
    PROVE  /\ Class(d, i) = 1 <=> (i.account /\ says[d].userId)
           /\ Class(d, i) = 2 <=> (~ (i.account /\ says[d].userId) /\ says[d].username)
           /\ Class(d, i) = 3 <=> (~ (i.account /\ says[d].userId) /\ ~ says[d].username)
           /\ Class(d, i) \in 1..3
<1>1. CASE i.account /\ says[d].userId
  BY <1>1 DEF Class
<1>2. CASE ~ (i.account /\ says[d].userId) /\ says[d].username
  BY <1>2 DEF Class
<1>3. CASE ~ (i.account /\ says[d].userId) /\ ~ says[d].username
  BY <1>3 DEF Class
<1>4. QED
  BY <1>1, <1>2, <1>3

\* What query n takes anew, and what it leaves.
LEMMA QueryNew ==
    ASSUME Basics, FoundInv, listing = "shared", Running, NEW n \in 1..3,
           Pending(NameOf(n)), Finds(n)
    PROVE  /\ Newly(n) \subseteq there /\ Newly(n) \subseteq Doc
           /\ \A d \in Newly(n) : found[d] = 0 /\ found'[d] = n /\ read'[d] = says[d]
           /\ \A d \in Newly(n) \ past.moved : Turn(d) <= n
           /\ \A d \in Doc \ Newly(n) : found'[d] = found[d] /\ read'[d] = read[d]
           /\ \A d \in Asking \ past.moved : Turn(d) = n => d \in Newly(n)
<1>1. there \subseteq Doc
  BY MatchingStored DEF Basics
<1>2. Newly(n) \subseteq there /\ listing \in Pooled
  BY DEF Newly, Pooled
<1>3. ASSUME NEW d \in Newly(n)
      PROVE  found[d] = 0 /\ found'[d] = n /\ read'[d] = says[d]
  <2>1. found[d] = 0 /\ d \in Doc
    BY <1>1, <1>2, <1>3 DEF Newly
  <2>2. QED
    BY <1>3, <2>1 DEF Finds
<1>4. ASSUME NEW d \in Newly(n) \ past.moved
      PROVE  Turn(d) <= n
  <2>1. d \in NamedIn(n) /\ d \in Doc /\ Class(d, as) = Turn(d)
    BY <1>1, <1>2, <1>4 DEF Newly, FoundInv, Running
  <2>2. CASE n = 1
    <3>1. as.account /\ says[d].userId
      BY <2>1, <2>2, NamedInIs
    <3>2. Class(d, as) = 1
      BY <3>1, ClassIs
    <3>3. QED
      BY <2>1, <2>2, <3>2
  <2>3. CASE n = 2
    <3>1. says[d].username
      BY <2>1, <2>3, NamedInIs
    <3>2. Class(d, as) \in 1..3 /\ Class(d, as) # 3
      BY <3>1, ClassIs
    <3>3. QED
      BY <2>1, <2>3, <3>2
  <2>4. CASE n = 3
    BY <2>4, ClassRange
  <2>5. QED
    BY <2>2, <2>3, <2>4
<1>5. \A d \in Doc \ Newly(n) : found'[d] = found[d] /\ read'[d] = read[d]
  BY DEF Finds
<1>6. ASSUME NEW d \in Asking \ past.moved, Turn(d) = n
      PROVE  d \in Newly(n)
  <2>1. Asking = Matching(as) /\ Walking
    BY DEF Running, Asking
  <2>2. d \in there /\ d \notin off \cup nested /\ Names(says[d], as) /\ d \in Doc
    <3>1. d \in there /\ Asked(d, as)
      BY <1>6, <2>1 DEF Matching
    <3>2. d \notin off \cup nested /\ Shares(says[d], as)
      BY <3>1 DEF Asked, Pooled, Lists
    <3>3. QED
      BY <1>1, <3>1, <3>2 DEF Shares
  <2>3. Class(d, as) = n
    BY <1>6, <2>1, <2>2 DEF FoundInv
  <2>4. d \in NamedIn(n)
    <3>1. CASE n = 1
      BY <2>2, <2>3, <3>1, NamedInIs, ClassIs
    <3>2. CASE n = 2
      BY <2>2, <2>3, <3>2, NamedInIs, ClassIs
    <3>3. CASE n = 3
      <4>1. NamedIn(3) = {e \in Doc : as.address # None /\ says[e].publicAddress = as.address}
        BY NamedInIs
      <4>2. ~ (as.account /\ says[d].userId) /\ ~ says[d].username
        BY <2>3, <3>3, ClassIs
      <4>3. as.address # None /\ says[d].publicAddress = as.address
        BY <2>2, <4>2 DEF Names
      <4>4. QED
        BY <2>2, <3>3, <4>1, <4>3
    <3>4. QED
      BY <3>1, <3>2, <3>3
  <2>5. found[d] = 0
    <3>1. found[d] \in 0..3
      BY <2>2 DEF Basics, TypeOK
    <3>2. found[d] # 0 => n <= found[d]
      BY <1>6, <2>1, <2>2 DEF FoundInv
    <3>3. /\ Pending("userId") => Pending("username")
          /\ Pending("username") => Pending("publicAddress")
      BY <1>2, <2>1, QueryOrder DEF Basics
    <3>4. \A m \in 1..3 : n <= m => ~ Queried(m)
      BY <3>3 DEF Queried, NameOf
    <3>5. \A m \in 1..3 : n <= m => found[d] # m
      BY <2>1, <2>2, <3>4 DEF FoundInv
    <3>6. QED
      BY <3>1, <3>2, <3>5
  <2>6. QED
    BY <2>2, <2>4, <2>5 DEF Newly
<1>7. QED
  BY <1>1, <1>2, <1>3, <1>4, <1>5, <1>6

\* A query is over once it is made, and until the answer.
LEMMA QueriedKept ==
    ASSUME Basics, NEW r \in Reading, ReadStep(r)
    PROVE  \A n \in 1..3 : /\ NameOf(n) # r /\ Running => (Queried(n)' <=> Queried(n))
                           /\ NameOf(n) = r => Queried(n)' /\ ~ Queried(n)
                           /\ listing \in Pooled /\ ~ Running => ~ Queried(n)'
<1>1. /\ Walking /\ Went(r) /\ listing \in Kinds /\ UNCHANGED listing /\ Pending(r) /\ ~ Pending(r)'
      /\ \A q \in Reading \ {r} : Pending(q)' <=> Pending(q)
      /\ todo = Reads /\ listing \in Pooled => r = "reader"
  BY ReadDone, Kinded, DoWent, First DEF Basics, Went, Addressed
<1>2. Running'
  <2>1. Reads' = Reads
    BY <1>1 DEF Reads
  <2>2. QED
    BY <1>1, <2>1 DEF Went, Running
<1>3. \A n \in 1..3 : NameOf(n) \in Reading
  BY DEF NameOf, Reading
<1>4. \A n \in 1..3 : NameOf(n) # r => (Pending(NameOf(n))' <=> Pending(NameOf(n)))
  BY <1>1, <1>3
<1>5. ASSUME listing \in Pooled, ~ Running, NEW n \in 1..3
      PROVE  ~ Queried(n)'
  <2>1. todo = Reads /\ r = "reader"
    BY <1>1, <1>5 DEF Running
  <2>2. Pending(NameOf(n)) /\ NameOf(n) # r
    BY <1>1, <1>5, <2>1, QueryOrder DEF NameOf, Basics
  <2>3. QED
    BY <1>4, <2>2 DEF Queried, NameOf
<1>6. \A n \in 1..3 : NameOf(n) = r => Pending(NameOf(n)) /\ ~ Pending(NameOf(n))'
  BY <1>1
<1>7. QED
  BY <1>2, <1>4, <1>5, <1>6 DEF Queried

\* What a read does to the pages cut in memory.
LEMMA SharedRead ==
    ASSUME Basics, listing = "shared", NEW r \in Reading, ReadStep(r)
    PROVE  /\ UNCHANGED <<listing, docVars, page, seen, again>> /\ Walking /\ Walking' /\ Went(r)
           /\ past'.steady = past.steady /\ past'.left = past.left /\ past'.came = past.came
           /\ past'.moved = past.moved
           /\ \A d : Turn(d)' = Turn(d)
           /\ r \notin {"userId", "username", "publicAddress"} => found' = found /\ read' = read
           /\ r \in {"userId", "username", "publicAddress"} =>
                 /\ Running /\ as' = as /\ Asking = Matching(as)
                 /\ \E n \in 1..3 : NameOf(n) = r /\ Finds(n) /\ Pending(NameOf(n))
           /\ Asking' = Asking
           /\ r = "reader" => as' = latest /\ \A d \in Doc : found[d] = 0
           /\ r # "reader" => as' = as /\ Running
<1>1. /\ UNCHANGED <<listing, docVars, page, seen, again>> /\ Walking /\ Walking' /\ Went(r)
      /\ listing \in Kinds /\ Do(r) /\ Pending(r)
      /\ todo = Reads => r = "reader"
      /\ r = "reader" => todo = Reads
  BY ReadDone, Kinded, DoWent, First DEF Basics, Went, Addressed, Pooled
<1>2. /\ past'.steady = past.steady /\ past'.left = past.left /\ past'.came = past.came
      /\ past'.moved = past.moved
  BY PastRead
<1>3. \A d : Turn(d)' = Turn(d)
  BY <1>1 DEF Turn, Class, docVars
<1>4. Asking' = Asking
  BY AskingKept
<1>5. r # "reader" => as' = as /\ Running
  BY <1>1, ReadAddress DEF Running
<1>6. r \in {"userId", "username", "publicAddress"} =>
                 /\ Running /\ as' = as /\ Asking = Matching(as)
                 /\ \E n \in 1..3 : NameOf(n) = r /\ Finds(n) /\ Pending(NameOf(n))
  <2> SUFFICES ASSUME r \in {"userId", "username", "publicAddress"}
               PROVE  /\ Running /\ as' = as /\ Asking = Matching(as)
                      /\ \E n \in 1..3 : NameOf(n) = r /\ Finds(n) /\ Pending(NameOf(n))
    OBVIOUS
  <2>1. Running /\ Asking = Matching(as)
    BY <1>1 DEF Running, Asking
  <2>2. \E n \in 1..3 : NameOf(n) = r /\ Finds(n)
    BY QueryFinds
  <2>3. QED
    BY <1>1, <1>5, <2>1, <2>2
<1>7. r = "reader" => \A d \in Doc : found[d] = 0
  BY <1>1 DEF Basics, CleanInv
<1>8. r = "reader" => as' = latest
  <2>1. latest \in Findable
    BY DEF Basics, TypeOK
  <2>2. r = "reader" => as' = Recognised(latest)
    BY ReadAddress
  <2>3. QED
    BY <2>1, <2>2, Identities
<1>9. r \notin {"userId", "username", "publicAddress"} => found' = found /\ read' = read
  BY ReadChanges
<1>10. QED
  BY <1>1, <1>2, <1>3, <1>4, <1>5, <1>6, <1>7, <1>8, <1>9

\* Every read keeps FoundInv.
LEMMA ReadFound ==
    ASSUME Basics, SteadyInv, FoundInv, NEW r \in Reading, ReadStep(r)
    PROVE  FoundInv'
<1> SUFFICES ASSUME listing = "shared"
             PROVE  FoundInv'
  BY ReadDone DEF FoundInv
<1>1. /\ UNCHANGED <<listing, docVars>> /\ Walking
      /\ past'.steady = past.steady /\ past'.came = past.came /\ past'.moved = past.moved
      /\ \A d : Turn(d)' = Turn(d)
      /\ Asking' = Asking
  BY SharedRead
<1>2. \A d : Turn(d) \in 1..3
  BY ClassRange
<1>3. /\ \A d \in Doc \ past.moved : found[d] # 0 => read[d] = says[d] /\ Turn(d) <= found[d]
      /\ \A n \in 1..3 : ~ Queried(n) => \A d \in Doc : found[d] # n
      /\ \A d \in Asking \ past.moved :
            d \notin past.came \/ d \in past.steady => (Queried(Turn(d)) => found[d] = Turn(d))
  BY <1>1 DEF FoundInv
<1>4. \A n \in 1..3 : /\ NameOf(n) # r /\ Running => (Queried(n)' <=> Queried(n))
                      /\ ~ Running => ~ Queried(n)'
                      /\ NameOf(n) = r => Queried(n)'
  BY QueriedKept DEF Pooled
<1>5. \A d \in Doc \ past.moved : Class(d, as)' = Turn(d)
  <2>1. \A d : Class(d, as)' = Class(d, as')
    BY <1>1 DEF Class, docVars
  <2>2. CASE r = "reader"
    BY <2>1, <2>2, SharedRead DEF Turn
  <2>3. CASE r # "reader"
    <3>1. as' = as /\ Running
      BY <2>3, SharedRead
    <3>2. QED
      BY <1>1, <2>1, <3>1 DEF FoundInv
  <2>4. QED
    BY <2>2, <2>3
<1>6. CASE r \in {"userId", "username", "publicAddress"}
  <2>1. Running
    BY <1>6, SharedRead
  <2>2. PICK n \in 1..3 : NameOf(n) = r /\ Finds(n) /\ Pending(NameOf(n))
    BY <1>6, SharedRead
  <2>3. /\ Newly(n) \subseteq Doc
        /\ \A d \in Newly(n) : found[d] = 0 /\ found'[d] = n /\ read'[d] = says[d]
        /\ \A d \in Newly(n) \ past.moved : Turn(d) <= n
        /\ \A d \in Doc \ Newly(n) : found'[d] = found[d] /\ read'[d] = read[d]
        /\ \A d \in Asking \ past.moved : Turn(d) = n => d \in Newly(n)
    BY <2>1, <2>2, QueryNew
  <2>4. \A m \in 1..3 : m # n => NameOf(m) # r
    BY <2>2 DEF NameOf
  <2>5. \A d \in Doc \ past.moved : found'[d] # 0 => read'[d] = says[d] /\ Turn(d) <= found'[d]
    BY <1>3, <2>3
  <2>6. \A m \in 1..3 : ~ Queried(m)' => \A d \in Doc : found'[d] # m
    <3> TAKE m \in 1..3
    <3> HAVE ~ Queried(m)'
    <3>1. m # n /\ ~ Queried(m)
      BY <1>4, <2>1, <2>2, <2>4
    <3>2. QED
      BY <1>3, <2>3, <3>1
  <2>7. ASSUME NEW d \in Asking \ past.moved,
               d \notin past.came \/ d \in past.steady,
               Queried(Turn(d))'
        PROVE  found'[d] = Turn(d)
    <3>1. d \in Doc
      BY Sets DEF Basics
    <3>2. CASE Turn(d) = n
      BY <2>3, <2>7, <3>2
    <3>3. CASE Turn(d) # n
      <4>1. Queried(Turn(d))
        BY <1>1, <1>2, <1>4, <2>1, <2>4, <2>7, <3>3
      <4>2. found[d] = Turn(d)
        BY <1>3, <2>7, <4>1
      <4>3. found[d] # 0
        BY <1>2, <4>2
      <4>4. QED
        BY <2>3, <3>1, <4>2, <4>3
    <3>4. QED
      BY <3>2, <3>3
  <2>8. QED
    BY <1>1, <1>5, <2>5, <2>6, <2>7 DEF FoundInv, docVars
<1>7. CASE r \notin {"userId", "username", "publicAddress"}
  <2>1. found' = found /\ read' = read
    BY <1>7, SharedRead
  <2>2. \A n \in 1..3 : NameOf(n) # r
    BY <1>7 DEF NameOf
  <2>3. \A n \in 1..3 : ~ Queried(n)' => \A d \in Doc : found'[d] # n
    <3> TAKE n \in 1..3
    <3>1. CASE Running
      BY <1>3, <1>4, <2>1, <2>2, <3>1
    <3>2. CASE ~ Running
      <4>1. ~ Queried(n)
        BY <3>2 DEF Queried
      <4>2. QED
        BY <1>3, <2>1, <4>1
    <3>3. QED
      BY <3>1, <3>2
  <2>4. ASSUME NEW d \in Asking \ past.moved,
               d \notin past.came \/ d \in past.steady,
               Queried(Turn(d))'
        PROVE  found'[d] = Turn(d)
    <3>1. Queried(Turn(d))
      BY <1>1, <1>2, <1>4, <2>2, <2>4
    <3>2. QED
      BY <1>3, <2>1, <2>4, <3>1
  <2>5. QED
    BY <1>1, <1>3, <1>5, <2>1, <2>3, <2>4 DEF FoundInv, docVars
<1>8. QED
  BY <1>6, <1>7

\* What others do leaves what a request has read.
LEMMA PooledMeanwhile ==
    ASSUME Basics, Meanwhile
    PROVE  /\ UNCHANGED <<listing, page, todo, found, read, as, seen, again, counted, rows, owners>>
           /\ Walking /\ Walking' /\ Reads' = Reads
           /\ \A q : Pending(q)' <=> Pending(q)
           /\ Running' <=> Running
           /\ \A n : Queried(n)' <=> Queried(n)
           /\ Pool' = Pool
           /\ past'.steady \subseteq past.steady
           /\ past.left \subseteq past'.left /\ past.came \subseteq past'.came
           /\ past.moved \subseteq past'.moved
           /\ listing \in Pooled => \A d \in Doc \ past'.moved : says'[d] = says[d]
           /\ listing = "shared" => \A d \in Doc \ past'.moved : Turn(d)' = Turn(d)
           /\ Asking' \ Asking \subseteq past'.came /\ Asking \ Asking' \subseteq past'.left
           /\ Asking' \in SUBSET Doc
<1>1. /\ UNCHANGED <<listing, page, todo, found, read, as, seen, again, counted, rows, owners>>
      /\ Walking
  BY DEF Meanwhile, readVars, seenVars
<1>2. /\ Walking' /\ Reads' = Reads
      /\ \A q : Pending(q)' <=> Pending(q)
      /\ Running' <=> Running
  BY <1>1 DEF Walking, Reads, Pending, Running
<1>3. \A n : Queried(n)' <=> Queried(n)
  BY <1>2 DEF Queried, NameOf
<1>4. Pool' = Pool
  BY <1>1 DEF Pool, PoolOf, Shares, Names
<1>5. /\ past'.steady \subseteq past.steady
      /\ past.left \subseteq past'.left /\ past.came \subseteq past'.came
      /\ past.moved \subseteq past'.moved
      /\ Asking' \ Asking \subseteq past'.came /\ Asking \ Asking' \subseteq past'.left
      /\ past'.moved = past.moved \cup Moved
  BY PastMeanwhile
<1>6. /\ listing \in Pooled => \A d \in Doc \ past'.moved : says'[d] = says[d]
      /\ listing = "shared" => \A d \in Doc \ past'.moved : Turn(d)' = Turn(d)
  BY <1>5 DEF Moved, Turn
<1>7. Asking' \in SUBSET Doc
  <2>1. there' \subseteq Doc
    BY ChangeTyped, ListingAssumption DEF Meanwhile, Doc
  <2>2. QED
    BY <2>1 DEF Asking, Listed, Matching
<1>8. QED
  BY <1>1, <1>2, <1>3, <1>4, <1>5, <1>6, <1>7

\* What others do keeps FoundInv.
LEMMA MeanwhileFound ==
    ASSUME Basics, SteadyInv, FoundInv, Meanwhile
    PROVE  FoundInv'
<1> SUFFICES ASSUME listing = "shared"
             PROVE  FoundInv'
  BY PooledMeanwhile DEF FoundInv
<1>1. /\ UNCHANGED <<listing, found, read>> /\ Walking
      /\ \A n : Queried(n)' <=> Queried(n)
      /\ as' = as /\ (Running' <=> Running)
      /\ past'.steady \subseteq past.steady /\ past.came \subseteq past'.came
      /\ past.moved \subseteq past'.moved
      /\ \A d \in Doc \ past'.moved : says'[d] = says[d] /\ Turn(d)' = Turn(d)
      /\ Asking' \ Asking \subseteq past'.came
      /\ Asking' \in SUBSET Doc
  BY PooledMeanwhile DEF Pooled
<1>2. /\ Running => \A d \in Doc \ past.moved : Class(d, as) = Turn(d)
      /\ \A d \in Doc \ past.moved : found[d] # 0 => read[d] = says[d] /\ Turn(d) <= found[d]
      /\ \A n \in 1..3 : ~ Queried(n) => \A d \in Doc : found[d] # n
      /\ \A d \in Asking \ past.moved :
            d \notin past.came \/ d \in past.steady => (Queried(Turn(d)) => found[d] = Turn(d))
  BY <1>1 DEF FoundInv
<1>3. \A d \in Doc \ past'.moved : found'[d] # 0 => read'[d] = says'[d] /\ Turn(d)' <= found'[d]
  BY <1>1, <1>2
<1>4. \A n \in 1..3 : ~ Queried(n)' => \A d \in Doc : found'[d] # n
  BY <1>1, <1>2
<1>5. ASSUME NEW d \in Asking' \ past'.moved,
             d \notin past'.came \/ d \in past'.steady,
             Queried(Turn(d))'
      PROVE  found'[d] = Turn(d)'
  <2>1. d \in Doc /\ d \notin past.moved /\ Turn(d)' = Turn(d)
    BY <1>1, <1>5
  <2>2. Queried(Turn(d))
    <3>1. Queried(Turn(d))' <=> Running' /\ ~ Pending(NameOf(Turn(d)))'
      BY DEF Queried
    <3>2. NameOf(Turn(d))' = NameOf(Turn(d))
      BY <2>1 DEF NameOf
    <3>3. Queried(Turn(d))' <=> Queried(Turn(d))
      BY <2>1, <3>2, PooledMeanwhile DEF Queried, Pending
    <3>4. QED
      BY <1>5, <3>3
  <2>3. d \in Asking /\ (d \notin past.came \/ d \in past.steady)
    <3>1. CASE d \in past'.steady
      BY <1>1, <2>1, <3>1 DEF SteadyInv
    <3>2. CASE d \notin past'.came
      BY <1>1, <1>5, <3>2
    <3>3. QED
      BY <1>5, <3>1, <3>2
  <2>4. QED
    BY <1>1, <1>2, <2>1, <2>2, <2>3
<1>6. ASSUME Running, NEW d \in Doc \ past'.moved
      PROVE  Class(d, as)' = Turn(d)'
  <2>1. Class(d, as) = Turn(d) /\ Turn(d)' = Turn(d) /\ says'[d] = says[d]
    BY <1>1, <1>2, <1>6
  <2>2. Class(d, as)' = Class(d, as)
    BY <1>1, <2>1 DEF Class
  <2>3. QED
    BY <2>1, <2>2
<1>7. QED
  BY <1>1, <1>3, <1>4, <1>5, <1>6 DEF FoundInv

\* An answer keeps FoundInv: the next request has found nothing.
LEMMA AnswerFound ==
    ASSUME Basics, FoundInv, Answer
    PROVE  FoundInv'
<1>1. /\ ~ Running' /\ found' = [d \in Doc |-> 0]
  BY AnswerBasics DEF Answer
<1>2. \A n : ~ Queried(n)'
  BY <1>1 DEF Queried
<1>3. \A d \in Doc : found'[d] = 0
  BY <1>1
<1>4. QED
  BY <1>1, <1>2, <1>3 DEF FoundInv

\* At an answer all queries are over, and who was shared all along is in the pool.
LEMMA PoolWhole ==
    ASSUME Basics, FoundInv, listing = "shared", todo = <<>>
    PROVE  /\ Asking = Matching(as) /\ Walking
           /\ \A d \in Pool \ past.moved : Turn(d) <= found[d]
           /\ \A d \in Asking \ past.moved : d \notin past.came \/ d \in past.steady
                                             => d \in Pool /\ found[d] = Turn(d)
<1>1. /\ Running /\ Walking /\ (\A q : ~ Pending(q)) /\ Asking = Matching(as)
  BY AtAnswer, Kinded DEF Basics, Running, Asking
<1>2. \A n : Queried(n)
  BY <1>1 DEF Queried
<1>3. \A d \in Pool \ past.moved : Turn(d) <= found[d]
  BY <1>1 DEF FoundInv, Pool, PoolOf
<1>4. ASSUME NEW d \in Asking \ past.moved,
             d \notin past.came \/ d \in past.steady
      PROVE  d \in Pool /\ found[d] = Turn(d)
  <2>1. found[d] = Turn(d) /\ d \in Doc
    BY <1>1, <1>2, <1>4, Sets DEF FoundInv, Basics
  <2>2. found[d] # 0 /\ read[d] = says[d]
    BY <1>1, <1>4, <2>1, ClassRange DEF FoundInv
  <2>3. Shares(says[d], as)
    BY <1>1, <1>4 DEF Matching, Asked, Pooled, Lists
  <2>4. QED
    BY <2>1, <2>2, <2>3 DEF Pool, PoolOf
<1>5. QED
  BY <1>1, <1>3, <1>4

\* Every read keeps FoundAtOnceInv.
LEMMA ReadFoundAtOnce ==
    ASSUME Basics, SteadyInv, FoundAtOnceInv, NEW r \in Reading, ReadStep(r)
    PROVE  FoundAtOnceInv'
<1> SUFFICES ASSUME listing = "sharedWhole"
             PROVE  FoundAtOnceInv'
  BY ReadDone DEF FoundAtOnceInv
<1>1. /\ UNCHANGED <<listing, docVars>> /\ Walking /\ listing \in Pooled /\ listing \in Kinds
      /\ Do(r) /\ Pending(r) /\ ~ Pending(r)'
      /\ \A q \in Reading \ {r} : Pending(q)' <=> Pending(q)
      /\ todo = Reads <=> r = "reader"
      /\ todo = Reads => Pending("latest")
  BY ReadDone, Kinded, DoWent, First DEF Basics, Went, Addressed, Pooled
<1>2. /\ past'.steady = past.steady /\ past'.moved = past.moved
      /\ past.steady \subseteq Listed /\ says' = says
  BY <1>1, PastRead DEF SteadyInv, docVars
<1>3. /\ Pending("userId") => Pending("username")
      /\ Pending("username") => Pending("publicAddress")
      /\ todo = Reads => Pending("userId")
      /\ Do("account") => Pending("userId")
      /\ Do("username") => ~ Pending("userId")
      /\ Do("publicAddress") => ~ Pending("userId") /\ ~ Pending("username")
  BY <1>1, QueryOrder DEF Basics
<1>4. /\ \A d \in Doc \ past.moved : found[d] # 0 => read[d] = says[d]
      /\ r # "reader" => \A d \in past.steady \ past.moved :
            /\ Names(says[d], as)
            /\ \/ says[d].publicAddress \in {None, as.address}
               \/ as.address = None /\ Pending("latest")
            /\ ~ Pending("userId") /\ as.account /\ says[d].userId => found[d] # 0
            /\ ~ Pending("username") /\ says[d].username => found[d] # 0
            /\ ~ Pending("publicAddress") => found[d] # 0
  BY <1>1 DEF FoundAtOnceInv, Running
<1>5. \A d \in past.steady : /\ Shares(says[d], latest) /\ d \in there /\ d \in Doc
                             /\ d \notin off \cup nested
  <2>1. \A d \in past.steady : d \in there /\ Asked(d, latest)
    BY <1>2 DEF Listed, Matching
  <2>2. \A d \in past.steady : d \notin off \cup nested /\ Shares(says[d], latest)
    BY <2>1 DEF Asked, Pooled, Lists
  <2>3. QED
    BY <2>1, <2>2, MatchingStored DEF Basics
<1>6. {"userId", "username", "publicAddress", "latest", "account"} \subseteq Reading
  BY DEF Reading
<1>7. CASE r = "reader"
  <2>1. as' = Recognised(latest) /\ UNCHANGED <<found, read>> /\ (\A d \in Doc : found[d] = 0)
    BY <1>1, <1>7, ReadAddress, ReadChanges DEF Basics, CleanInv
  <2>2. /\ Pending("userId")' /\ Pending("username")' /\ Pending("publicAddress")'
        /\ Pending("latest")'
    BY <1>1, <1>3, <1>6, <1>7
  <2>3. ASSUME NEW d \in past.steady
        PROVE  /\ Names(says[d], as')
               /\ says[d].publicAddress \in {None, as'.address} \/ as'.address = None
    <3>1. CASE latest.account
      <4>1. as' = latest
        BY <2>1, <3>1 DEF Recognised
      <4>2. QED
        BY <1>5, <2>3, <4>1 DEF Shares
    <3>2. CASE ~ latest.account
      <4>1. as'.address = None /\ as' = Stranger
        BY <2>1, <3>2 DEF Recognised, Stranger
      <4>2. says[d].username
        BY <1>5, <2>3, <3>2 DEF Shares, Names
      <4>3. QED
        BY <4>1, <4>2 DEF Names
    <3>3. QED
      BY <3>1, <3>2
  <2>4. \A d \in past.steady : Names(says[d], as)' = Names(says[d], as')
    BY <1>2 DEF Names
  <2>5. QED
    BY <1>1, <1>2, <1>4, <2>1, <2>2, <2>3, <2>4 DEF FoundAtOnceInv
<1>8. CASE r \in {"account", "latest"}
  <2>1. UNCHANGED <<found, read>> /\ r # "reader"
    BY <1>8, ReadChanges
  <2>2. /\ r = "account" => as' = [as EXCEPT !.account = as.account \/ latest.account]
        /\ r = "latest" => as' = IF as.address = None THEN [as EXCEPT !.address = latest.address]
                                ELSE as
        /\ as \in Identity /\ latest \in Identity
    BY ReadAddress, Identities DEF Basics, TypeOK
  <2>3. /\ as.account => as'.account
        /\ as.address # None => as'.address = as.address
        /\ r = "account" => as'.address = as.address
        /\ r = "latest" => as'.account = as.account
        /\ r = "latest" /\ as.address = None => as'.address = latest.address
    <3>1. CASE r = "account"
      BY <2>2, <3>1 DEF Identity
    <3>2. CASE r = "latest"
      BY <2>2, <3>2 DEF Identity
    <3>3. QED
      BY <1>8, <3>1, <3>2
  <2>4. ASSUME NEW d \in past.steady \ past.moved
        PROVE  /\ Names(says[d], as')
               /\ \/ says[d].publicAddress \in {None, as'.address}
                  \/ as'.address = None /\ Pending("latest")'
               /\ ~ Pending("userId")' /\ as'.account /\ says[d].userId => found[d] # 0
               /\ ~ Pending("username")' /\ says[d].username => found[d] # 0
               /\ ~ Pending("publicAddress")' => found[d] # 0
    <3>1. Names(says[d], as')
      BY <1>4, <2>1, <2>3, <2>4 DEF Names
    <3>2. \/ says[d].publicAddress \in {None, as'.address}
          \/ as'.address = None /\ Pending("latest")'
      <4>1. CASE r = "account"
        BY <1>1, <1>4, <1>6, <2>1, <2>3, <2>4, <4>1
      <4>2. CASE r = "latest"
        <5>1. CASE as.address = None
          BY <1>5, <2>3, <2>4, <4>2, <5>1 DEF Shares
        <5>2. CASE as.address # None
          BY <1>4, <2>1, <2>3, <2>4, <5>2
        <5>3. QED
          BY <5>1, <5>2
      <4>3. QED
        BY <1>8, <4>1, <4>2
    <3>3. ~ Pending("userId")' /\ as'.account /\ says[d].userId => found[d] # 0
      <4>1. Pending("userId")' <=> Pending("userId")
        BY <1>1, <1>6, <1>8
      <4>2. CASE r = "account"
        BY <1>1, <1>3, <4>1, <4>2
      <4>3. CASE r = "latest"
        BY <1>4, <2>1, <2>3, <2>4, <4>1, <4>3
      <4>4. QED
        BY <1>8, <4>2, <4>3
    <3>4. /\ Pending("username")' <=> Pending("username")
          /\ Pending("publicAddress")' <=> Pending("publicAddress")
      BY <1>1, <1>6, <1>8
    <3>5. QED
      BY <1>4, <2>1, <2>4, <3>1, <3>2, <3>3, <3>4
  <2>5. \A d \in past.steady : Names(says[d], as)' = Names(says[d], as')
    BY <1>2 DEF Names
  <2>6. QED
    BY <1>1, <1>2, <1>4, <2>1, <2>4, <2>5 DEF FoundAtOnceInv
<1>9. CASE r \in {"userId", "username", "publicAddress"}
  <2>1. PICK n \in 1..3 : NameOf(n) = r /\ Finds(n)
    BY <1>9, QueryFinds
  <2>2. as' = as /\ r # "reader"
    BY <1>9, ReadAddress
  <2>3. /\ \A d \in Doc : found[d] # 0 => d \notin Newly(n)
        /\ \A d \in Doc \ Newly(n) : found'[d] = found[d] /\ read'[d] = read[d]
        /\ \A d \in Doc \cap Newly(n) : found'[d] = n /\ read'[d] = says[d]
    BY <2>1 DEF Finds, Newly
  <2>4. n # 0 /\ \A d \in Doc : found[d] # 0 => found'[d] # 0
    BY <2>1, <2>3
  <2>5. \A d \in Doc \ past.moved : found'[d] # 0 => read'[d] = says[d]
    BY <1>4, <2>3
  <2>6. ASSUME NEW d \in past.steady, d \in NamedIn(n)
        PROVE  found'[d] # 0
    <3>1. CASE found[d] = 0
      <4>1. d \in Newly(n)
        BY <1>5, <2>6, <3>1 DEF Newly
      <4>2. QED
        BY <1>5, <2>3, <2>4, <2>6, <4>1
    <3>2. CASE found[d] # 0
      BY <1>5, <2>4, <2>6, <3>2
    <3>3. QED
      BY <3>1, <3>2
  <2>7. /\ r = "userId" => n = 1
        /\ r = "username" => n = 2
        /\ r = "publicAddress" => n = 3
    BY <2>1 DEF NameOf
  <2>8. ASSUME NEW d \in past.steady \ past.moved
        PROVE  /\ ~ Pending("userId")' /\ as.account /\ says[d].userId => found'[d] # 0
               /\ ~ Pending("username")' /\ says[d].username => found'[d] # 0
               /\ ~ Pending("publicAddress")' => found'[d] # 0
               /\ Pending("latest")' <=> Pending("latest")
    <3>1. d \in Doc /\ Names(says[d], as)
      BY <1>4, <1>5, <2>2, <2>8
    <3>2. ASSUME ~ Pending("userId")', as.account, says[d].userId
          PROVE  found'[d] # 0
      <4>1. CASE r = "userId"
        <5>1. d \in NamedIn(n)
          BY <2>7, <3>1, <3>2, <4>1, NamedInIs
        <5>2. QED
          BY <2>6, <2>8, <5>1
      <4>2. CASE r # "userId"
        BY <1>1, <1>4, <1>6, <2>2, <2>4, <2>8, <3>1, <3>2, <4>2
      <4>3. QED
        BY <4>1, <4>2
    <3>3. ASSUME ~ Pending("username")', says[d].username
          PROVE  found'[d] # 0
      <4>1. CASE r = "username"
        <5>1. d \in NamedIn(n)
          BY <2>7, <3>1, <3>3, <4>1, NamedInIs
        <5>2. QED
          BY <2>6, <2>8, <5>1
      <4>2. CASE r # "username"
        BY <1>1, <1>4, <1>6, <2>2, <2>4, <2>8, <3>1, <3>3, <4>2
      <4>3. QED
        BY <4>1, <4>2
    <3>4. ASSUME ~ Pending("publicAddress")'
          PROVE  found'[d] # 0
      <4>1. CASE r = "publicAddress"
        <5>1. ~ Pending("userId") /\ ~ Pending("username")
          BY <1>1, <1>3, <4>1
        <5>2. CASE (as.account /\ says[d].userId) \/ says[d].username
          BY <1>4, <2>2, <2>4, <2>8, <3>1, <5>1, <5>2
        <5>3. CASE ~ (as.account /\ says[d].userId) /\ ~ says[d].username
          <6>1. as.address # None /\ says[d].publicAddress = as.address
            BY <3>1, <5>3 DEF Names
          <6>2. d \in NamedIn(n)
            BY <2>7, <3>1, <4>1, <6>1, NamedInIs
          <6>3. QED
            BY <2>6, <2>8, <6>2
        <5>4. QED
          BY <5>2, <5>3
      <4>2. CASE r # "publicAddress"
        BY <1>1, <1>4, <1>6, <2>2, <2>4, <2>8, <3>1, <3>4, <4>2
      <4>3. QED
        BY <4>1, <4>2
    <3>5. Pending("latest")' <=> Pending("latest")
      BY <1>1, <1>6, <1>9
    <3>6. QED
      BY <3>2, <3>3, <3>4, <3>5
  <2>9. \A d \in past.steady : Names(says[d], as)' = Names(says[d], as)
    BY <1>2, <2>2 DEF Names
  <2>10. QED
    BY <1>1, <1>2, <1>4, <2>2, <2>5, <2>8, <2>9 DEF FoundAtOnceInv
<1>10. CASE r \notin {"reader", "account", "latest", "userId", "username", "publicAddress"}
  <2>1. UNCHANGED <<found, read>> /\ as' = as
    BY <1>10, ReadChanges, ReadAddress
  <2>2. \A q \in {"userId", "username", "publicAddress", "latest"} : Pending(q)' <=> Pending(q)
    BY <1>1, <1>6, <1>10
  <2>3. \A d \in past.steady : Names(says[d], as)' = Names(says[d], as)
    BY <1>2, <2>1 DEF Names
  <2>4. QED
    BY <1>1, <1>2, <1>4, <1>10, <2>1, <2>2, <2>3 DEF FoundAtOnceInv
<1>11. QED
  BY <1>7, <1>8, <1>9, <1>10

\* What others do keeps FoundAtOnceInv.
LEMMA MeanwhileFoundAtOnce ==
    ASSUME Basics, SteadyInv, FoundAtOnceInv, Meanwhile
    PROVE  FoundAtOnceInv'
<1> SUFFICES ASSUME listing = "sharedWhole"
             PROVE  FoundAtOnceInv'
  BY PooledMeanwhile DEF FoundAtOnceInv
<1>1. /\ UNCHANGED <<listing, found, read, as>> /\ Walking /\ (Running' <=> Running)
      /\ \A q : Pending(q)' <=> Pending(q)
      /\ past'.steady \subseteq past.steady /\ past.moved \subseteq past'.moved
      /\ \A d \in Doc \ past'.moved : says'[d] = says[d]
  BY PooledMeanwhile DEF Pooled
<1>2. past.steady \subseteq Doc
  BY Sets DEF Basics
<1>3. \A d \in Doc \ past'.moved : found'[d] # 0 => read'[d] = says'[d]
  BY <1>1 DEF FoundAtOnceInv
<1>4. ASSUME Running, NEW d \in past'.steady \ past'.moved
      PROVE  /\ Names(says[d], as)'
             /\ \/ says'[d].publicAddress \in {None, as'.address}
                \/ as'.address = None /\ Pending("latest")'
             /\ ~ Pending("userId")' /\ as'.account /\ says'[d].userId => found'[d] # 0
             /\ ~ Pending("username")' /\ says'[d].username => found'[d] # 0
             /\ ~ Pending("publicAddress")' => found'[d] # 0
  <2>1. d \in past.steady \ past.moved /\ says'[d] = says[d]
    BY <1>1, <1>2, <1>4
  <2>2. Names(says[d], as)' = Names(says[d], as)
    BY <1>1, <2>1 DEF Names
  <2>3. QED
    BY <1>1, <1>4, <2>1, <2>2 DEF FoundAtOnceInv
<1>5. QED
  BY <1>1, <1>3, <1>4 DEF FoundAtOnceInv

\* At an answer with all shared secrets, who was shared all along is in the pool.
LEMMA PoolAtOnce ==
    ASSUME Basics, SteadyInv, FoundAtOnceInv, listing = "sharedWhole", todo = <<>>
    PROVE  past.steady \ past.moved \subseteq Pool
<1>1. /\ Running /\ Walking /\ \A q : ~ Pending(q)
  BY AtAnswer, Kinded DEF Basics, Running
<1>2. ASSUME NEW d \in past.steady \ past.moved
      PROVE  d \in Pool
  <2>1. d \in Doc
    BY <1>2, Sets DEF Basics
  <2>2. /\ found[d] # 0 /\ Names(says[d], as)
        /\ says[d].publicAddress \in {None, as.address}
    BY <1>1, <1>2 DEF FoundAtOnceInv
  <2>3. read[d] = says[d]
    BY <1>1, <1>2, <2>1, <2>2 DEF FoundAtOnceInv
  <2>4. QED
    BY <2>1, <2>2, <2>3 DEF Pool, PoolOf, Shares
<1>3. QED
  BY <1>2

\* An answer keeps FoundAtOnceInv.
LEMMA AnswerFoundAtOnce ==
    ASSUME Basics, Answer
    PROVE  FoundAtOnceInv'
<1>1. /\ ~ Running' /\ found' = [d \in Doc |-> 0]
  BY AnswerBasics DEF Answer
<1>2. QED
  BY <1>1 DEF FoundAtOnceInv

\* The pool of a page of shared secrets holds what is asked for.
LEMMA SharedPool ==
    ASSUME Basics, listing = "shared", NEW r \in Reading, ReadStep(r)
    PROVE  /\ Pool' \subseteq Pool \cup Asking /\ Asking' = Asking
           /\ r \notin {"userId", "username", "publicAddress"} => Pool' = Pool
<1>1. listing \in Pooled
  BY DEF Pooled
<1>2. Asking' = Asking
  BY SharedRead
<1>3. CASE r \in {"userId", "username", "publicAddress"}
  <2>1. Asking = Matching(as) /\ as' = as
    BY <1>3, SharedRead
  <2>2. ByUserId \/ ByUsername \/ ByAddress
    BY <1>3 DEF ReadStep
  <2>3. {d \in Doc : found'[d] # 0 /\ Shares(read'[d], as)} \subseteq PoolOf(as) \cup Matching(as)
    BY <1>1, <2>2, PoolMatches
  <2>4. Pool' = {d \in Doc : found'[d] # 0 /\ Shares(read'[d], as)}
    BY <2>1 DEF Pool, PoolOf, Shares, Names
  <2>5. QED
    BY <1>2, <1>3, <2>1, <2>3, <2>4 DEF Pool
<1>4. CASE r = "reader"
  <2>1. \A d \in Doc : found[d] = 0 /\ found'[d] = 0
    BY <1>4, SharedRead
  <2>2. Pool = {} /\ Pool' = {}
    BY <2>1 DEF Pool, PoolOf
  <2>3. QED
    BY <1>2, <2>2
<1>5. CASE r \notin {"userId", "username", "publicAddress", "reader"}
  <2>1. UNCHANGED <<found, read, as>>
    BY <1>5, SharedRead
  <2>2. Pool' = Pool
    BY <2>1 DEF Pool, PoolOf, Shares, Names
  <2>3. QED
    BY <1>2, <2>2
<1>6. QED
  BY <1>3, <1>4, <1>5

\* The order of the pool of shared secrets while nothing comes and no entry is rewritten.
Before(e, d) == Turn(e) < Turn(d) \/ (Turn(e) = Turn(d) /\ e > d)

\* Those of a set before d.
Preceding(set, d) == {e \in set : Before(e, d)}

\* The order of the pages of shared secrets.
LEMMA SharedAhead ==
    ASSUME listing = "shared", NEW e, NEW d
    PROVE  Ahead(e, d) <=> found[e] < found[d] \/ (found[e] = found[d] /\ e > d)
  BY DEF Ahead

\* While nothing comes and no entry is rewritten, what has been answered is before the page.
SharedRepeatedInv == (listing = "shared" /\ past.came \cup past.moved = {}) =>
    /\ Walking => \A d \in Pool : found[d] = Turn(d)
    /\ Walking => \A d \in seen : Cardinality(Preceding(Asking \cup Pool, d)) < (page - 1) * Limit
    /\ again = {}

\* The same as Fewer, for any two sets.
LEMMA CountedSets ==
    \A A, B \in SUBSET Doc : A \subseteq B =>
        Cardinality(A) <= Cardinality(B) /\ Cardinality(A) \in Nat /\ Cardinality(B) \in Nat
  BY Fewer

\* Every read keeps SharedRepeatedInv.
LEMMA ReadSharedRepeated ==
    ASSUME Basics, FoundInv, SharedRepeatedInv, NEW r \in Reading, ReadStep(r)
    PROVE  SharedRepeatedInv'
<1> SUFFICES ASSUME listing = "shared", past.came \cup past.moved = {}
             PROVE  /\ \A d \in Pool' : found'[d] = Turn(d)'
                    /\ \A d \in seen' :
                          Cardinality(Preceding(Asking \cup Pool, d)') < (page' - 1) * Limit
                    /\ again' = {}
  <2>1. past'.came = past.came /\ past'.moved = past.moved /\ UNCHANGED listing
    BY PastRead, ReadDone
  <2>2. QED
    BY <2>1 DEF SharedRepeatedInv
<1>1. listing \in Pooled
  BY DEF Pooled
<1>2. /\ UNCHANGED <<listing, page, seen, again>> /\ Walking /\ Went(r)
      /\ \A d : Turn(d)' = Turn(d)
  BY <1>1, SharedRead
<1>3. /\ Pool' \subseteq Pool \cup Asking /\ Asking' = Asking
      /\ r \notin {"userId", "username", "publicAddress"} => Pool' = Pool
  BY SharedPool
<1>4. Asking \subseteq Doc /\ Pool \subseteq Doc
  BY Sets DEF Basics
<1>5. ASSUME NEW d \in seen
      PROVE  Cardinality(Preceding(Asking \cup Pool, d)') < (page - 1) * Limit
  <2>1. Preceding(Asking \cup Pool, d)' \subseteq Preceding(Asking \cup Pool, d)
    BY <1>2, <1>3 DEF Preceding, Before
  <2>2. Preceding(Asking \cup Pool, d) \subseteq Doc
    BY <1>4 DEF Preceding
  <2>3. Cardinality(Preceding(Asking \cup Pool, d)) < (page - 1) * Limit
    BY <1>2 DEF SharedRepeatedInv
  <2>4. (page - 1) * Limit \in Nat
    BY PageSteps DEF Basics
  <2>5. /\ Cardinality(Preceding(Asking \cup Pool, d)')
              <= Cardinality(Preceding(Asking \cup Pool, d))
        /\ Cardinality(Preceding(Asking \cup Pool, d)') \in Nat
        /\ Cardinality(Preceding(Asking \cup Pool, d)) \in Nat
    BY <2>1, <2>2, CountedSets
  <2>6. QED
    BY <2>3, <2>4, <2>5
<1>6. ASSUME NEW d \in Pool'
      PROVE  found'[d] = Turn(d)
  <2>1. CASE r \in {"userId", "username", "publicAddress"}
    <3>1. PICK n \in 1..3 : NameOf(n) = r /\ Finds(n) /\ Pending(NameOf(n))
      BY <1>1, <2>1, SharedRead
    <3>2. Running
      BY <1>1, <2>1, SharedRead
    <3>3. /\ \A e \in Newly(n) :
                Turn(e) <= n /\ found[e] = 0 /\ found'[e] = n /\ read'[e] = says[e]
          /\ \A e \in Doc \ Newly(n) : found'[e] = found[e] /\ read'[e] = read[e]
          /\ Newly(n) \subseteq Doc
      BY <3>1, <3>2, QueryNew
    <3>4. d \in Doc
      BY <1>3, <1>4
    <3>5. CASE d \in Newly(n)
      <4>1. d \in Asking
        BY <1>3, <3>3, <3>5 DEF Pool, PoolOf
      <4>2. ASSUME Turn(d) # n PROVE FALSE
        <5>1. Turn(d) \in 1..3 /\ Turn(d) <= n
          BY <3>3, <3>5, ClassRange
        <5>2. Turn(d) < n
          BY <4>2, <5>1
        <5>3. /\ Do("username") => ~ Pending("userId")
              /\ Do("publicAddress") => ~ Pending("userId") /\ ~ Pending("username")
          BY <1>1, <1>2, QueryOrder DEF Basics
        <5>4. \A m \in 1..3 : m < n => ~ Pending(NameOf(m))
          BY <3>1, <5>3, ReadDone DEF NameOf
        <5>5. Queried(Turn(d))
          BY <3>2, <5>1, <5>2, <5>4 DEF Queried
        <5>6. found[d] = Turn(d)
          BY <1>1, <1>2, <4>1, <5>5 DEF FoundInv
        <5>7. QED
          BY <3>3, <3>5, <5>1, <5>6
      <4>3. QED
        BY <3>3, <3>5, <4>2
    <3>6. CASE d \notin Newly(n)
      <4>1. found'[d] = found[d] /\ read'[d] = read[d] /\ as' = as
        BY <1>1, <2>1, <3>3, <3>4, <3>6, SharedRead
      <4>2. d \in Pool
        BY <4>1 DEF Pool, PoolOf, Shares, Names
      <4>3. QED
        BY <1>2, <4>1, <4>2 DEF SharedRepeatedInv
    <3>7. QED
      BY <3>5, <3>6
  <2>2. CASE r \notin {"userId", "username", "publicAddress"}
    <3>1. Pool' = Pool /\ found' = found
      BY <1>1, <1>3, <2>2, SharedRead
    <3>2. QED
      BY <1>2, <1>6, <3>1 DEF SharedRepeatedInv
  <2>3. QED
    BY <2>1, <2>2
<1>7. QED
  BY <1>2, <1>5, <1>6 DEF SharedRepeatedInv

\* What others do keeps SharedRepeatedInv: secrets only leave.
LEMMA MeanwhileSharedRepeated ==
    ASSUME Basics, SharedRepeatedInv, Meanwhile
    PROVE  SharedRepeatedInv'
<1>1. /\ UNCHANGED <<listing, page, found, seen, again>> /\ Walking /\ Pool' = Pool
      /\ past.came \subseteq past'.came /\ past.moved \subseteq past'.moved
      /\ listing = "shared" => \A d \in Doc \ past'.moved : Turn(d)' = Turn(d)
      /\ Asking' \ Asking \subseteq past'.came
      /\ Asking' \in SUBSET Doc
  BY PooledMeanwhile
<1> SUFFICES ASSUME listing = "shared", past'.came \cup past'.moved = {}
             PROVE  /\ \A d \in Pool' : found'[d] = Turn(d)'
                    /\ \A d \in seen' :
                          Cardinality(Preceding(Asking \cup Pool, d)') < (page' - 1) * Limit
                    /\ again' = {}
  BY <1>1 DEF SharedRepeatedInv
<1>2. past.came \cup past.moved = {} /\ Asking' \subseteq Asking
  BY <1>1
<1>3. Asking \subseteq Doc /\ Pool \subseteq Doc /\ seen \subseteq Doc
  BY Sets DEF Basics
<1>4. \A d \in Doc : Turn(d)' = Turn(d)
  BY <1>1
<1>5. ASSUME NEW d \in seen
      PROVE  Cardinality(Preceding(Asking \cup Pool, d)') < (page - 1) * Limit
  <2>1. Preceding(Asking \cup Pool, d)' \subseteq Preceding(Asking \cup Pool, d)
    BY <1>1, <1>2, <1>3, <1>4 DEF Preceding, Before
  <2>2. Preceding(Asking \cup Pool, d) \subseteq Doc
    BY <1>3 DEF Preceding
  <2>3. Cardinality(Preceding(Asking \cup Pool, d)) < (page - 1) * Limit
    BY <1>1, <1>2 DEF SharedRepeatedInv
  <2>4. (page - 1) * Limit \in Nat
    BY PageSteps DEF Basics
  <2>5. /\ Cardinality(Preceding(Asking \cup Pool, d)')
              <= Cardinality(Preceding(Asking \cup Pool, d))
        /\ Cardinality(Preceding(Asking \cup Pool, d)') \in Nat
        /\ Cardinality(Preceding(Asking \cup Pool, d)) \in Nat
    BY <2>1, <2>2, CountedSets
  <2>6. QED
    BY <2>3, <2>4, <2>5
<1>6. \A d \in Pool' : found'[d] = Turn(d)'
  BY <1>1, <1>2, <1>3, <1>4 DEF SharedRepeatedInv
<1>7. QED
  BY <1>1, <1>2, <1>5, <1>6 DEF SharedRepeatedInv

\* An answer keeps SharedRepeatedInv.
LEMMA AnswerSharedRepeated ==
    ASSUME Basics, FoundInv, SharedRepeatedInv, Answer
    PROVE  SharedRepeatedInv'
<1>1. /\ UNCHANGED <<listing, docVars>> /\ past.came \subseteq past'.came
      /\ past'.moved = past.moved /\ todo = <<>>
  BY AnswerAsks DEF Answer
<1> SUFFICES ASSUME listing = "shared", past'.came \cup past'.moved = {}
             PROVE  /\ \A d \in Pool' : found'[d] = Turn(d)'
                    /\ Walking' => \A d \in seen' :
                          Cardinality(Preceding(Asking \cup Pool, d)') < (page' - 1) * Limit
                    /\ again' = {}
  BY <1>1 DEF SharedRepeatedInv
<1>2. listing \in Pooled
  BY DEF Pooled
<1>3. past.came = {} /\ past.moved = {}
  BY <1>1
<1>4. /\ Walking /\ Asking \subseteq Doc /\ Pool \subseteq Doc /\ Listed \subseteq Doc
      /\ \A d \in Asking : d \in Pool /\ found[d] = Turn(d)
      /\ \A d \in Pool : found[d] = Turn(d)
      /\ \A d \in seen : Cardinality(Preceding(Asking \cup Pool, d)) < (page - 1) * Limit
      /\ again = {}
  BY <1>2, <1>1, <1>3, PoolWhole, Sets DEF SharedRepeatedInv, Basics
<1>5. \A d \in Doc : found'[d] = 0
  BY DEF Answer
<1>6. Pool' = {}
  BY <1>5 DEF Pool, PoolOf
<1>7. seen' = seen \cup OnPage(Pool, page) /\ again' = again \cup (seen \cap OnPage(Pool, page))
  <2>1. Answered = OnPage(Pool, page)
    BY DEF Answered
  <2>2. QED
    BY <2>1 DEF Answer
<1>8. /\ page \in Nat \ {0} /\ (page - 1) * Limit \in Nat /\ page * Limit \in Nat
      /\ (page - 1) * Limit <= page * Limit /\ (page + 1) - 1 = page
  BY PageSteps DEF Basics
<1>9. \A d \in Pool : Rank(Pool, d) = Cardinality(Preceding(Pool, d))
  <2>1. \A e, d \in Pool : Ahead(e, d) <=> Before(e, d)
    BY <1>4, SharedAhead DEF Before
  <2>2. \A d \in Pool : {e \in Pool : Ahead(e, d)} = {e \in Pool : Before(e, d)}
    BY <2>1
  <2>3. QED
    BY <2>2 DEF Rank, Preceding
<1>10. ASSUME NEW d \in OnPage(Pool, page)
       PROVE  /\ d \in Pool
              /\ (page - 1) * Limit <= Cardinality(Preceding(Pool, d))
              /\ Cardinality(Preceding(Pool, d)) < page * Limit
  <2>1. d \in Pool
    BY <1>10 DEF OnPage
  <2>2. (page - 1) * Limit <= Rank(Pool, d) /\ Rank(Pool, d) < page * Limit
    BY <1>4, <1>8, <1>10, <2>1, PageOf
  <2>3. QED
    BY <1>9, <2>1, <2>2
<1>11. \A d : Cardinality(Preceding(Pool, d)) <= Cardinality(Preceding(Asking \cup Pool, d))
              /\ Cardinality(Preceding(Pool, d)) \in Nat
              /\ Cardinality(Preceding(Asking \cup Pool, d)) \in Nat
  <2>1. \A d : /\ Preceding(Pool, d) \subseteq Preceding(Asking \cup Pool, d)
               /\ Preceding(Pool, d) \subseteq Doc /\ Preceding(Asking \cup Pool, d) \subseteq Doc
    BY <1>4 DEF Preceding
  <2>2. QED
    BY <2>1, CountedSets
<1>12. again' = {}
  <2>1. ASSUME NEW d \in seen, d \in OnPage(Pool, page)
        PROVE  FALSE
    <3>1. Cardinality(Preceding(Asking \cup Pool, d)) < (page - 1) * Limit
      BY <1>4, <2>1
    <3>2. (page - 1) * Limit <= Cardinality(Preceding(Pool, d))
      BY <1>10, <2>1
    <3>3. /\ Cardinality(Preceding(Pool, d)) <= Cardinality(Preceding(Asking \cup Pool, d))
          /\ Cardinality(Preceding(Pool, d)) \in Nat
          /\ Cardinality(Preceding(Asking \cup Pool, d)) \in Nat
      BY <1>11
    <3>4. (page - 1) * Limit \in Nat
      BY <1>8
    <3>5. QED
      BY <3>1, <3>2, <3>3, <3>4
  <2>2. QED
    BY <1>4, <1>7, <2>1
<1>13. ASSUME Walking', NEW d \in seen'
       PROVE  Cardinality(Preceding(Asking \cup Pool, d)') < (page' - 1) * Limit
  <2>1. HasNextPage
    BY <1>13, AnswerBasics
  <2>2. /\ page' = page + 1 /\ Asking' = Listed
        /\ past'.came = past.came \cup (Listed \ Asking)
    BY <2>1, AnswerBasics, AnswerAsks
  <2>3. Listed \subseteq Asking
    BY <2>2
  <2>4. \A e : Turn(e)' = Turn(e)
    BY <1>1 DEF Turn, Class, docVars
  <2>5. Preceding(Asking \cup Pool, d)' = Preceding(Listed, d)
    BY <1>6, <2>2, <2>4 DEF Preceding, Before
  <2>6. Preceding(Listed, d) \subseteq Preceding(Pool, d)
    BY <1>4, <2>3 DEF Preceding
  <2>7. Preceding(Pool, d) \subseteq Doc /\ Preceding(Listed, d) \subseteq Doc
    BY <1>4 DEF Preceding
  <2>8. /\ Cardinality(Preceding(Listed, d)) <= Cardinality(Preceding(Pool, d))
        /\ Cardinality(Preceding(Listed, d)) \in Nat
    BY <2>6, <2>7, CountedSets
  <2>9. Cardinality(Preceding(Pool, d)) < page * Limit
    <3>1. CASE d \in seen
      <4>1. Cardinality(Preceding(Asking \cup Pool, d)) < (page - 1) * Limit
        BY <1>4, <3>1
      <4>2. /\ Cardinality(Preceding(Pool, d)) <= Cardinality(Preceding(Asking \cup Pool, d))
            /\ Cardinality(Preceding(Pool, d)) \in Nat
            /\ Cardinality(Preceding(Asking \cup Pool, d)) \in Nat
        BY <1>11
      <4>3. /\ (page - 1) * Limit \in Nat /\ page * Limit \in Nat
            /\ (page - 1) * Limit <= page * Limit
        BY <1>8
      <4>4. QED
        BY <4>1, <4>2, <4>3
    <3>2. CASE d \in OnPage(Pool, page)
      BY <1>10, <3>2
    <3>3. QED
      BY <1>7, <1>13, <3>1, <3>2
  <2>10. QED
    BY <1>8, <1>11, <2>2, <2>5, <2>8, <2>9
<1>14. QED
  BY <1>6, <1>12, <1>13

\* What is ahead of d in the pool, or will be.
Reached(d) == {e \in Pool : found[e] = Turn(e) /\ Before(e, d)}
              \cup {e \in Asking : ~ Queried(Turn(e)) /\ Before(e, d)}

\* While nothing leaves and no entry is rewritten, what is still to be answered is on this
\* page or after it.
SharedMissedInv == (listing = "shared" /\ past.left \cup past.moved = {}) =>
    /\ Walking => /\ Pool \subseteq Asking
                  /\ \A d \in past.steady \ seen : (page - 1) * Limit <= Cardinality(Reached(d))
    /\ Walked => past.steady \subseteq seen

\* Every read keeps SharedMissedInv.
LEMMA ReadSharedMissed ==
    ASSUME Basics, FoundInv, SharedMissedInv, NEW r \in Reading, ReadStep(r)
    PROVE  SharedMissedInv'
<1>1. /\ UNCHANGED <<listing, page, seen>> /\ Walking /\ Walking' /\ Went(r)
      /\ past'.left = past.left /\ past'.moved = past.moved /\ past'.steady = past.steady
  BY ReadDone, Kinded, DoWent, PastRead DEF Basics, Went
<1>2. ~ Walked'
  BY <1>1 DEF Walked, Walking
<1> SUFFICES ASSUME listing = "shared", past.left \cup past.moved = {}
             PROVE  /\ Pool' \subseteq Asking'
                    /\ \A d \in past'.steady \ seen' :
                          (page' - 1) * Limit <= Cardinality(Reached(d)')
  BY <1>2, <1>1 DEF SharedMissedInv
<1>3. listing \in Pooled
  BY DEF Pooled
<1>4. \A d : Turn(d)' = Turn(d)
  BY <1>3, SharedRead
<1>5. /\ Pool' \subseteq Pool \cup Asking /\ Asking' = Asking /\ Pool \subseteq Asking
      /\ r \notin {"userId", "username", "publicAddress"} => Pool' = Pool
  BY <1>1, SharedPool DEF SharedMissedInv
<1>6. Asking \subseteq Doc /\ past.moved = {}
  BY Sets DEF Basics
<1>7. \A n \in 1..3 : /\ NameOf(n) # r /\ Running => (Queried(n)' <=> Queried(n))
                      /\ ~ Running => ~ Queried(n)'
  BY <1>3, QueriedKept
<1>8. \A d : Turn(d) \in 1..3
  BY ClassRange
<1>9. ASSUME NEW d PROVE Reached(d) \subseteq Reached(d)'
  <2>1. CASE r \in {"userId", "username", "publicAddress"}
    <3>1. PICK n \in 1..3 : NameOf(n) = r /\ Finds(n) /\ Pending(NameOf(n))
      BY <1>3, <2>1, SharedRead
    <3>2. Running /\ Asking = Matching(as) /\ as' = as
      BY <1>3, <2>1, SharedRead
    <3>3. /\ \A e \in Newly(n) :
                Turn(e) <= n /\ found[e] = 0 /\ found'[e] = n /\ read'[e] = says[e]
          /\ \A e \in Doc \ Newly(n) : found'[e] = found[e] /\ read'[e] = read[e]
          /\ \A e \in Asking \ past.moved : Turn(e) = n => e \in Newly(n)
      BY <1>3, <3>1, <3>2, QueryNew
    <3>4. \A m \in 1..3 : m # n => NameOf(m) # r
      BY <3>1 DEF NameOf
    <3>5. ASSUME NEW e \in Pool, found[e] = Turn(e)
          PROVE  e \in Pool' /\ found'[e] = Turn(e)
      <4>1. e \in Doc /\ e \notin Newly(n)
        BY <1>5, <1>6, <1>8, <3>3, <3>5
      <4>2. found'[e] = found[e] /\ read'[e] = read[e]
        BY <3>3, <4>1
      <4>3. QED
        BY <3>2, <3>5, <4>2 DEF Pool, PoolOf, Shares, Names
    <3>6. ASSUME NEW e \in Asking, ~ Queried(Turn(e))
          PROVE  (e \in Pool' /\ found'[e] = Turn(e)) \/ ~ Queried(Turn(e))'
      <4>1. CASE Turn(e) = n
        <5>1. e \in Newly(n) /\ e \in Doc
          BY <1>6, <3>3, <4>1
        <5>2. found'[e] = Turn(e) /\ found'[e] # 0 /\ read'[e] = says[e]
          BY <3>3, <4>1, <5>1
        <5>3. Shares(says[e], as)
          BY <1>3, <3>2 DEF Matching, Asked, Pooled, Lists
        <5>4. QED
          BY <3>2, <5>1, <5>2, <5>3 DEF Pool, PoolOf, Shares, Names
      <4>2. CASE Turn(e) # n
        BY <1>4, <1>7, <1>8, <3>2, <3>4, <3>6, <4>2
      <4>3. QED
        BY <4>1, <4>2
    <3>7. QED
      BY <1>4, <1>5, <3>5, <3>6 DEF Reached, Before
  <2>2. CASE r \notin {"userId", "username", "publicAddress"}
    <3>1. Pool' = Pool /\ found' = found
      BY <1>3, <1>5, <2>2, SharedRead
    <3>2. \A n \in 1..3 : NameOf(n) # r
      BY <2>2 DEF NameOf
    <3>3. \A n \in 1..3 : ~ Queried(n) => ~ Queried(n)'
      BY <1>7, <3>2 DEF Queried
    <3>4. \A e : ~ Queried(Turn(e)) => ~ Queried(Turn(e))'
      BY <1>4, <1>8, <3>3
    <3>5. QED
      BY <1>4, <1>5, <3>1, <3>4 DEF Reached, Before
  <2>3. QED
    BY <2>1, <2>2
<1>10. Pool' \subseteq Asking' /\ Pool' \subseteq Doc
  BY <1>5, <1>6
<1>11. ASSUME NEW d \in past.steady \ seen
       PROVE  (page - 1) * Limit <= Cardinality(Reached(d)')
  <2>1. (page - 1) * Limit <= Cardinality(Reached(d)) /\ (page - 1) * Limit \in Nat
    BY <1>1, PageSteps DEF SharedMissedInv, Basics
  <2>2. Reached(d) \subseteq Reached(d)' /\ Reached(d)' \subseteq Doc
    BY <1>5, <1>6, <1>9, <1>10 DEF Reached
  <2>3. /\ Cardinality(Reached(d)) <= Cardinality(Reached(d)')
        /\ Cardinality(Reached(d)) \in Nat /\ Cardinality(Reached(d)') \in Nat
    BY <2>2, CountedSets
  <2>4. QED
    BY <2>1, <2>3
<1>12. QED
  BY <1>1, <1>10, <1>11

\* What others do keeps SharedMissedInv: secrets only come.
LEMMA MeanwhileSharedMissed ==
    ASSUME Basics, SharedMissedInv, Meanwhile
    PROVE  SharedMissedInv'
<1>1. /\ UNCHANGED <<listing, page, found, seen>> /\ Walking /\ Walking' /\ Pool' = Pool
      /\ past'.steady \subseteq past.steady
      /\ past.left \subseteq past'.left /\ past.moved \subseteq past'.moved
      /\ listing = "shared" => \A d \in Doc \ past'.moved : Turn(d)' = Turn(d)
      /\ \A n : Queried(n)' <=> Queried(n)
      /\ Asking \ Asking' \subseteq past'.left
      /\ Asking' \in SUBSET Doc
  BY PooledMeanwhile
<1>2. ~ Walked'
  BY <1>1 DEF Walked, Walking
<1> SUFFICES ASSUME listing = "shared", past'.left \cup past'.moved = {}
             PROVE  /\ Pool' \subseteq Asking'
                    /\ \A d \in past'.steady \ seen' :
                          (page' - 1) * Limit <= Cardinality(Reached(d)')
  BY <1>2, <1>1 DEF SharedMissedInv
<1>3. past.left \cup past.moved = {} /\ Asking \subseteq Asking' /\ Pool \subseteq Asking
  BY <1>1 DEF SharedMissedInv
<1>4. Asking \subseteq Doc /\ past.steady \subseteq Doc
  BY Sets DEF Basics
<1>5. \A d \in Doc : Turn(d)' = Turn(d)
  BY <1>1
<1>6. \A d \in Doc : ~ Queried(Turn(d)) => ~ Queried(Turn(d))'
  BY <1>1, <1>5
<1>7. ASSUME NEW d \in past.steady \ seen
      PROVE  (page - 1) * Limit <= Cardinality(Reached(d)')
  <2>1. (page - 1) * Limit <= Cardinality(Reached(d)) /\ (page - 1) * Limit \in Nat
    BY <1>1, <1>3, PageSteps DEF SharedMissedInv, Basics
  <2>2. Reached(d) \subseteq Reached(d)'
    <3>1. d \in Doc
      BY <1>4
    <3>2. \A e \in Doc : Before(e, d)' <=> Before(e, d)
      BY <1>5, <3>1 DEF Before
    <3>3. QED
      BY <1>1, <1>3, <1>4, <1>5, <1>6, <3>2 DEF Reached
  <2>3. Reached(d)' \subseteq Doc
    BY <1>1, <1>3, <1>4 DEF Reached
  <2>4. /\ Cardinality(Reached(d)) <= Cardinality(Reached(d)')
        /\ Cardinality(Reached(d)) \in Nat /\ Cardinality(Reached(d)') \in Nat
    BY <2>2, <2>3, CountedSets
  <2>5. QED
    BY <2>1, <2>4
<1>8. QED
  BY <1>1, <1>3, <1>7

\* An answer keeps SharedMissedInv.
LEMMA AnswerSharedMissed ==
    ASSUME Basics, SteadyInv, FoundInv, SharedMissedInv, Answer
    PROVE  SharedMissedInv'
<1>1. /\ UNCHANGED <<listing, docVars>> /\ past.left \subseteq past'.left
      /\ past'.moved = past.moved /\ past'.steady = past.steady /\ todo = <<>>
  BY AnswerAsks DEF Answer
<1> SUFFICES ASSUME listing = "shared", past'.left \cup past'.moved = {}
             PROVE  /\ Walking' => /\ Pool' \subseteq Asking'
                                   /\ \A d \in past'.steady \ seen' :
                                         (page' - 1) * Limit <= Cardinality(Reached(d)')
                    /\ Walked' => past'.steady \subseteq seen'
  BY <1>1 DEF SharedMissedInv
<1>2. listing \in Pooled
  BY DEF Pooled
<1>3. past.left = {} /\ past.moved = {} /\ Running
  BY <1>1, AtAnswer, Kinded DEF Basics
<1>4. /\ Walking /\ Asking \subseteq Doc /\ Pool \subseteq Asking /\ Listed \subseteq Doc
      /\ past.steady \subseteq Asking
      /\ \A d \in Pool : Turn(d) <= found[d]
      /\ \A d \in past.steady : d \in Pool /\ found[d] = Turn(d)
      /\ \A d \in past.steady \ seen : (page - 1) * Limit <= Cardinality(Reached(d))
  <2>1. /\ Walking /\ Asking \subseteq Doc /\ Listed \subseteq Doc
        /\ \A d \in Pool : Turn(d) <= found[d]
    BY <1>2, <1>1, <1>3, PoolWhole, Sets DEF Basics
  <2>2. past.steady \subseteq Asking
    BY <1>3, <2>1 DEF SteadyInv
  <2>3. \A d \in past.steady : d \in Pool /\ found[d] = Turn(d)
    BY <1>2, <1>1, <1>3, <2>2, PoolWhole
  <2>4. QED
    BY <1>3, <2>1, <2>2, <2>3 DEF SharedMissedInv
<1>5. Pool' = {}
  <2>1. \A d \in Doc : found'[d] = 0
    BY DEF Answer
  <2>2. QED
    BY <2>1 DEF Pool, PoolOf
<1>6. seen' = seen \cup OnPage(Pool, page)
  <2>1. Answered = OnPage(Pool, page)
    BY DEF Answered
  <2>2. QED
    BY <2>1 DEF Answer
<1>7. /\ page \in Nat \ {0} /\ (page - 1) * Limit \in Nat /\ page * Limit \in Nat
      /\ (page + 1) - 1 = page
  BY PageSteps DEF Basics
<1>8. ASSUME NEW d \in past.steady \ seen'
      PROVE  page * Limit <= Rank(Pool, d) /\ Rank(Pool, d) \in Nat /\ d \in Pool
  <2>1. d \in Pool /\ found[d] = Turn(d) /\ d \notin OnPage(Pool, page)
    BY <1>4, <1>6, <1>8
  <2>2. (page - 1) * Limit <= Cardinality(Reached(d))
    BY <1>4, <1>6, <1>8
  <2>3. Reached(d) \subseteq {e \in Pool : Ahead(e, d)}
    <3>1. \A n : Queried(n)
      BY <1>1, AtAnswer, Kinded DEF Queried, Basics
    <3>2. \A e \in Reached(d) : e \in Pool /\ found[e] = Turn(e) /\ Before(e, d)
      BY <3>1 DEF Reached
    <3>3. QED
      BY <2>1, <3>2, SharedAhead DEF Before
  <2>4. {e \in Pool : Ahead(e, d)} \subseteq Doc
    BY <1>4
  <2>5. Cardinality(Reached(d)) <= Rank(Pool, d) /\ Cardinality(Reached(d)) \in Nat
        /\ Rank(Pool, d) \in Nat
    BY <2>3, <2>4, CountedSets DEF Rank
  <2>6. Pool \in SUBSET Doc
    BY <1>4
  <2>7. ~ ((page - 1) * Limit <= Rank(Pool, d) /\ Rank(Pool, d) < page * Limit)
    BY <1>7, <2>1, <2>6, PageOf
  <2>8. (page - 1) * Limit <= Rank(Pool, d)
    BY <1>7, <2>2, <2>5
  <2>9. QED
    BY <1>7, <2>1, <2>5, <2>7, <2>8
<1>9. CASE HasNextPage
  <2>1. /\ page' = page + 1 /\ Asking' = Listed /\ ~ Running' /\ todo' = Reads
        /\ past'.left = past.left \cup (Asking \ Listed)
    BY <1>9, AnswerBasics, AnswerAsks
  <2>2. Asking \subseteq Listed
    BY <2>1
  <2>3. \A e : Turn(e)' = Turn(e)
    BY <1>1 DEF Turn, Class, docVars
  <2>4. ASSUME NEW d \in past.steady \ seen'
        PROVE  page * Limit <= Cardinality(Reached(d)')
    <3>1. {e \in Pool : Ahead(e, d)} \subseteq Reached(d)'
      <4>1. ASSUME NEW e \in Pool, Ahead(e, d)
            PROVE  Before(e, d)
        <5>1. /\ Turn(e) <= found[e] /\ found[d] = Turn(d)
              /\ found[e] < found[d] \/ (found[e] = found[d] /\ e > d)
          BY <1>4, <2>4, <4>1, SharedAhead
        <5>2. /\ found[e] \in 0..3 /\ Turn(e) \in 1..3 /\ Turn(d) \in 1..3
          BY <1>4, ClassRange DEF Basics, TypeOK
        <5>3. QED
          BY <5>1, <5>2 DEF Before
      <4>2. \A e : ~ Queried(Turn(e))'
        BY <2>1 DEF Queried
      <4>3. \A e \in Pool : e \in Asking'
        BY <1>4, <2>1, <2>2
      <4>4. \A e : Before(e, d) <=> Before(e, d)'
        BY <2>3 DEF Before
      <4>5. QED
        BY <4>1, <4>2, <4>3, <4>4 DEF Reached
    <3>2. Reached(d)' \subseteq Doc
      BY <1>4, <1>5, <2>1 DEF Reached
    <3>3. /\ Rank(Pool, d) <= Cardinality(Reached(d)')
          /\ Cardinality(Reached(d)') \in Nat
      BY <3>1, <3>2, CountedSets DEF Rank
    <3>4. QED
      BY <1>7, <1>8, <2>4, <3>3
  <2>5. ~ Walked'
    <3>1. todo' # <<{"done"}>>
      <4>1. listing \in Kinds
        BY Kinded DEF Basics
      <4>2. Len(Reads) = 5
        BY DEF Reads
      <4>3. QED
        BY <2>1, <4>2
    <3>2. QED
      BY <3>1 DEF Walked
  <2>6. QED
    BY <1>1, <1>5, <1>7, <2>1, <2>4, <2>5
<1>10. CASE ~ HasNextPage
  <2>1. ~ Walking'
    BY <1>10, AnswerBasics
  <2>2. ~ page * Limit < Cardinality(Pool)
    BY <1>10 DEF HasNextPage, Total, Pooled, Whole
  <2>3. past.steady \subseteq seen'
    <3>1. ASSUME NEW d \in past.steady \ seen' PROVE FALSE
      <4>1. page * Limit <= Rank(Pool, d) /\ Rank(Pool, d) \in Nat /\ d \in Pool
        BY <1>8, <3>1
      <4>2. Pool \in SUBSET Doc
        BY <1>4
      <4>3. ~ Ahead(d, d)
        <5>1. found[d] \in Nat /\ d \in Nat
          BY <4>1, <4>2 DEF Basics, TypeOK, Doc
        <5>2. QED
          BY <5>1, SharedAhead
      <4>4. Rank(Pool, d) < Cardinality(Pool)
        BY <4>1, <4>2, <4>3, RankBelow
      <4>5. Cardinality(Pool) \in Nat
        BY <4>2, DocsFinite
      <4>6. QED
        BY <1>7, <2>2, <4>1, <4>4, <4>5
    <3>2. QED
      BY <3>1
  <2>4. QED
    BY <1>1, <2>1, <2>3
<1>11. QED
  BY <1>9, <1>10

\* Reported users are read one thing after another.
LEMMA ReportedOrder ==
    ASSUME listing = "reportedUsers", StageInv, Walking
    PROVE  /\ Pending("distinct") => Pending("users")
           /\ Pending("users") => Pending("reports")
           /\ todo # <<>> /\ "reports" \in Head(todo) => ~ Pending("users")
<1>1. /\ Len(Reads) = 3
      /\ Reads[1] = {"distinct"} /\ Reads[2] = {"users"} /\ Reads[3] = {"reports"}
  BY DEF Reads
<1>2. listing \in Kinds
  BY DEF Kinds
<1>3. CASE \E i \in 1..(Len(Reads) + 1) :
                 /\ \A q : Pending(q) <=> \E j \in i..Len(Reads) : q \in Reads[j]
                 /\ todo = <<>> <=> i = Len(Reads) + 1
                 /\ i <= Len(Reads) => Head(todo) = Reads[i]
  <2>1. PICK i \in 1..4 :
                 /\ \A q : Pending(q) <=> \E j \in i..3 : q \in Reads[j]
                 /\ (todo = <<>> <=> i = 4) /\ (i <= 3 => Head(todo) = Reads[i])
    BY <1>1, <1>3
  <2>2. i = 1 \/ i = 2 \/ i = 3 \/ i = 4
    BY <2>1
  <2>3. 1..3 = {1, 2, 3} /\ 2..3 = {2, 3} /\ 3..3 = {3} /\ 4..3 = {}
    OBVIOUS
  <2>4. CASE i = 1
    BY <1>1, <2>1, <2>3, <2>4
  <2>5. CASE i = 2
    BY <1>1, <2>1, <2>3, <2>5
  <2>6. CASE i = 3
    BY <1>1, <2>1, <2>3, <2>6
  <2>7. CASE i = 4
    BY <1>1, <2>1, <2>3, <2>7
  <2>8. QED
    BY <2>2, <2>4, <2>5, <2>6, <2>7
<1>4. Reads[Len(Reads)] # {"count", "find"}
  BY <1>1
<1>5. QED
  BY <1>2, <1>3, <1>4, Position

\* What is answered at once has not been answered before, and whoever was listed all along
\* is, in the end, among what was read.
WholeInv == listing \in Whole =>
    /\ Walking => seen = {}
    /\ again = {}
    /\ Running /\ listing = "recipientsWhole" => past.steady \subseteq rows
    /\ Running /\ listing = "reportedUsers" =>
          /\ Pending("users") => past.steady \subseteq counted
          /\ ~ Pending("users") =>
                \A d \in past.steady : d \in rows \/ (Pending("reports") /\ Owner[d] \in owners)
    /\ Walked => past.steady \subseteq seen \cup past.moved

\* Every read keeps WholeInv.
LEMMA ReadWhole ==
    ASSUME Basics, SteadyInv, WholeInv, NEW r \in Reading, ReadStep(r)
    PROVE  WholeInv'
<1>1. /\ UNCHANGED <<listing, docVars, page, seen, again>> /\ Walking /\ Walking' /\ Went(r)
      /\ listing \in Kinds /\ Pending(r) /\ ~ Pending(r)' /\ Do(r)
      /\ \A q \in Reading \ {r} : Pending(q)' <=> Pending(q)
      /\ past'.steady = past.steady /\ past.steady \subseteq Listed
      /\ listing = "reportedUsers" /\ todo = Reads => r = "distinct"
  BY ReadDone, Kinded, DoWent, First, PastRead DEF Basics, Went, SteadyInv
<1>2. ~ Walked'
  BY <1>1 DEF Walked, Walking
<1> SUFFICES ASSUME listing \in Whole
             PROVE  /\ listing = "recipientsWhole" => past.steady \subseteq rows'
                    /\ listing = "reportedUsers" =>
                          /\ Pending("users")' => past.steady \subseteq counted'
                          /\ ~ Pending("users")' => \A d \in past.steady :
                                d \in rows' \/ (Pending("reports")' /\ Owner[d] \in owners')
  BY <1>1, <1>2 DEF WholeInv
<1>3. listing \notin Addressed => Listed \subseteq Matching(as)
  BY DEF Basics, CleanInv, Listed
<1>4. ASSUME listing = "recipientsWhole"
      PROVE  past.steady \subseteq rows'
  <2>1. r = "list"
    BY <1>1, <1>4, ReadOf DEF Basics, Pooled, Whole, WithViews, Addressed, Reading
  <2>2. rows' = Matching(as)
    BY <1>4, <2>1, ReadChanges
  <2>3. QED
    BY <1>1, <1>3, <1>4, <2>2 DEF Addressed, Pooled
<1>5. ASSUME listing = "reportedUsers"
      PROVE  /\ Pending("users")' => past.steady \subseteq counted'
             /\ ~ Pending("users")' => \A d \in past.steady :
                   d \in rows' \/ (Pending("reports")' /\ Owner[d] \in owners')
  <2>1. r \in {"distinct", "users", "reports"}
    BY <1>1, <1>5, ReadOf DEF Basics, Pooled, Whole, WithViews, Addressed, Reading
  <2>2. /\ Pending("distinct") => Pending("users")
        /\ Pending("users") => Pending("reports")
        /\ todo # <<>> /\ "reports" \in Head(todo) => ~ Pending("users")
    BY <1>1, <1>5, ReportedOrder DEF Basics
  <2>3. "users" \in Reading /\ "reports" \in Reading
    BY DEF Reading
  <2>4. CASE r = "distinct"
    <3>1. counted' = Matching(as) /\ Pending("users")'
      BY <1>1, <2>2, <2>3, <2>4, ReadChanges
    <3>2. QED
      BY <1>1, <1>3, <1>5, <3>1 DEF Addressed, Pooled
  <2>5. CASE r = "users"
    <3>1. past.steady \subseteq counted
      BY <1>1, <1>5, <2>5 DEF WholeInv, Running
    <3>2. owners' = {Owner[d] : d \in counted} \ private
      BY <2>5, ReadChanges
    <3>3. \A d \in past.steady : Owner[d] \notin private
      BY <1>1, <1>5 DEF Listed
    <3>4. Pending("reports")' /\ ~ Pending("users")'
      BY <1>1, <2>2, <2>3, <2>5
    <3>5. QED
      BY <3>1, <3>2, <3>3, <3>4
  <2>6. CASE r = "reports"
    <3>1. ~ Pending("users") /\ ~ Pending("users")'
      BY <1>1, <2>2, <2>3, <2>6 DEF Do
    <3>2. owners = {} /\ rows' = rows
      BY <2>6, ReadChanges
    <3>3. \A d \in past.steady : d \in rows
      BY <1>1, <1>5, <2>6, <3>1, <3>2 DEF WholeInv, Running
    <3>4. QED
      BY <3>1, <3>2, <3>3
  <2>7. QED
    BY <2>1, <2>4, <2>5, <2>6
<1>6. QED
  BY <1>4, <1>5

\* Reading the reports about a user keeps WholeInv.
LEMMA ReportsOfWhole ==
    ASSUME Basics, SteadyInv, WholeInv, NEW p \in Person, ReportsOf(p)
    PROVE  WholeInv'
<1>1. /\ Walking /\ todo # Reads /\ listing = "reportedUsers" /\ Reads' = Reads
  BY AtReports, Kinded DEF Basics, ReportsOf, Reads
<1>2. /\ rows' = rows \cup {d \in Matching(as) : Owner[d] = p}
      /\ owners' = owners \ {p} /\ todo # <<>> /\ Head(todo) = {"reports"}
      /\ UNCHANGED <<listing, docVars, page, todo, as, reserved, counted, found, read, seenVars,
                   past>>
  BY DEF ReportsOf
<1>3. /\ ~ Pending("users") /\ (Pending("users")' <=> Pending("users"))
      /\ (Pending("reports")' <=> Pending("reports"))
      /\ (Walking' <=> Walking) /\ ~ Walked'
  BY <1>1, <1>2, ReportedOrder DEF Basics, Pending, Walking, Walked
<1>4. past.steady \subseteq Matching(as)
  <2>1. as = latest
    BY <1>1 DEF Basics, CleanInv, Addressed, Pooled
  <2>2. QED
    BY <1>1, <2>1 DEF SteadyInv, Listed
<1>5. \A d \in past.steady : d \in rows \/ (Pending("reports") /\ Owner[d] \in owners)
  BY <1>1, <1>3 DEF WholeInv, Running, Whole
<1>6. \A d \in past.steady : d \in rows' \/ (Pending("reports") /\ Owner[d] \in owners')
  BY <1>2, <1>4, <1>5
<1>7. seen = {} /\ again = {} /\ UNCHANGED <<seen, again>>
  BY <1>1, <1>2 DEF WholeInv, Whole, seenVars
<1>8. QED
  BY <1>1, <1>2, <1>3, <1>6, <1>7 DEF WholeInv

\* What others do keeps WholeInv.
LEMMA MeanwhileWhole ==
    ASSUME Basics, SteadyInv, WholeInv, Meanwhile
    PROVE  WholeInv'
<1>1. /\ UNCHANGED <<listing, seen, again, counted, rows, owners>>
      /\ Walking /\ Walking' /\ (Running' <=> Running)
      /\ \A q : Pending(q)' <=> Pending(q)
      /\ past'.steady \subseteq past.steady
  BY PooledMeanwhile
<1>2. ~ Walked'
  BY <1>1 DEF Walked, Walking
<1>3. QED
  BY <1>1, <1>2 DEF WholeInv

\* An answer keeps WholeInv: there is no next page.
LEMMA AnswerWhole ==
    ASSUME Basics, SteadyInv, FoundAtOnceInv, WholeInv, Answer
    PROVE  WholeInv'
<1> SUFFICES ASSUME listing \in Whole
             PROVE  WholeInv'
  BY DEF WholeInv, Answer
<1>1. /\ Running /\ Walking /\ (\A q : ~ Pending(q)) /\ todo = <<>> /\ UNCHANGED listing
  BY AtAnswer, Kinded DEF Basics, Answer, Running
<1>2. ~ HasNextPage /\ ~ Walking' /\ ~ Running'
  BY AnswerBasics DEF HasNextPage
<1>3. seen' = seen \cup Answered /\ again' = again \cup (seen \cap Answered)
  <2>1. listing # "children"
    BY DEF Whole
  <2>2. QED
    BY <2>1 DEF Answer
<1>4. seen = {} /\ again = {}
  BY <1>1 DEF WholeInv
<1>5. past.steady \subseteq Answered \cup past.moved
  <2>1. CASE listing = "sharedWhole"
    <3>1. past.steady \ past.moved \subseteq Pool
      BY <1>1, <2>1, PoolAtOnce
    <3>2. Answered = Pool
      BY <2>1 DEF Answered
    <3>3. QED
      BY <3>1, <3>2
  <2>2. CASE listing \in {"recipientsWhole", "reportedUsers"}
    <3>1. past.steady \subseteq rows
      BY <1>1, <2>2 DEF WholeInv
    <3>2. Answered = rows
      BY <2>2 DEF Answered
    <3>3. QED
      BY <3>1, <3>2
  <2>3. QED
    BY <2>1, <2>2 DEF Whole
<1>6. past'.steady = past.steady /\ past'.moved = past.moved
  BY AnswerAsks
<1>7. QED
  BY <1>1, <1>2, <1>3, <1>4, <1>5, <1>6 DEF WholeInv

\* The whole invariant.
PagesInv == Causes /\ SteadyInv /\ RepeatedInv /\ MissedInv /\ FoundInv /\ FoundAtOnceInv
            /\ SharedRepeatedInv /\ SharedMissedInv /\ WholeInv

\* PagesInv holds when the walk begins.
LEMMA InitPages ==
    Init => PagesInv
<1> SUFFICES ASSUME Init
             PROVE  PagesInv
  OBVIOUS
<1>1. Causes /\ listing \in Kinds
  BY InitCauses, Kinded DEF Causes, Basics
<1>2. /\ todo = Reads /\ ~ Running /\ page = 1 /\ rows = {} /\ seen = {} /\ again = {}
      /\ past = [Fresh EXCEPT !.steady = Listed]
      /\ \A d \in Doc : found[d] = 0
  BY DEF Init, Running
<1>3. past.steady = Listed /\ past.moved = {} /\ past.came = {} /\ past.left = {}
  BY <1>2 DEF Fresh
<1>4. ~ Walked /\ ~ HasFound /\ Asking = Listed /\ Pool = {} /\ \A n : ~ Queried(n)
  <2>1. \A r \in Reads[1] : r # "done"
    BY <1>1, ReadsFacts
  <2>2. Reads # <<{"done"}>>
    BY <2>1
  <2>3. QED
    BY <1>2, <2>2 DEF Walked, HasFound, Asking, Pool, PoolOf, Queried
<1>5. /\ (page - 1) * Limit = 0
  <2>1. Limit \in Nat
    BY ListingAssumption
  <2>2. QED
    BY <1>2, <2>1
<1>6. SteadyInv
  BY <1>2, <1>3, <1>4 DEF SteadyInv
<1>7. RepeatedInv
  BY <1>2 DEF RepeatedInv
<1>8. MissedInv
  <2>1. \A d : Rank(Asking, d) \in Nat
    BY <1>1, Sets, Ranked DEF Causes, Basics
  <2>2. \A d : (page - 1) * Limit <= Rank(Asking, d)
    BY <1>5, <2>1
  <2>3. QED
    BY <1>2, <1>4, <2>2 DEF MissedInv
<1>9. FoundInv
  <2>1. \A n \in 1..3 : n # 0
    OBVIOUS
  <2>2. QED
    BY <1>2, <1>4, <2>1 DEF FoundInv
<1>10. SharedRepeatedInv
  BY <1>2, <1>4 DEF SharedRepeatedInv
<1>11. SharedMissedInv
  <2>1. \A d : Reached(d) \subseteq Doc
    BY <1>1, <1>4, Sets DEF Reached, Causes, Basics
  <2>2. \A d : (page - 1) * Limit <= Cardinality(Reached(d))
    BY <1>5, <2>1, DocsFinite
  <2>3. QED
    BY <1>2, <1>4, <2>2 DEF SharedMissedInv
<1>12. WholeInv
  BY <1>2, <1>4 DEF WholeInv
<1>13. FoundAtOnceInv
  BY <1>2 DEF FoundAtOnceInv
<1>14. QED
  BY <1>1, <1>6, <1>7, <1>8, <1>9, <1>10, <1>11, <1>12, <1>13 DEF PagesInv

\* Where the listing is read at once, or not at all any more, little is claimed.
LEMMA ReportsOfPages ==
    ASSUME PagesInv, NEW p \in Person, ReportsOf(p)
    PROVE  PagesInv'
<1>1. Causes'
  BY ReportsOfBasics, ReportsOfCauses DEF PagesInv, Causes
<1>2. listing = "reportedUsers"
  BY AtReports, Kinded DEF PagesInv, Causes, Basics, ReportsOf
<1>3. UNCHANGED <<listing, docVars, todo, as, past>>
  BY DEF ReportsOf
<1>4. Listed' = Listed /\ Asking' = Asking /\ (Walking' <=> Walking) /\ (Running' <=> Running)
  BY <1>3 DEF Walking, Running, Asking, Reads, Listed, Matching, Asked, docVars, OwnSecret,
      BaseQuery,
      ChildSecret, AdminSecret, Shares, Names, MyNotification, MyLog, AdminUser, AdminNotification,
      AdminLog, OtherUser, PendingReport, ReportOfUser
<1>5. SteadyInv'
  BY <1>2, <1>3, <1>4 DEF PagesInv, SteadyInv, docVars
<1>6. listing' \notin Paged /\ listing' \notin Pooled
  BY <1>2, <1>3 DEF Paged, Whole, Pooled
<1>7. /\ RepeatedInv' /\ MissedInv' /\ FoundInv' /\ FoundAtOnceInv'
      /\ SharedRepeatedInv' /\ SharedMissedInv'
  BY <1>6 DEF RepeatedInv, MissedInv, FoundInv, FoundAtOnceInv, SharedRepeatedInv,
      SharedMissedInv, Pooled
<1>8. WholeInv'
  BY ReportsOfWhole DEF PagesInv, Causes
<1>9. QED
  BY <1>1, <1>5, <1>7, <1>8 DEF PagesInv

\* A refusal ends the walk, and nothing has been answered by it.
LEMMA DeniedPages ==
    ASSUME PagesInv, Denied
    PROVE  PagesInv'
<1>1. /\ Basics' /\ ~ Walking' /\ todo' = <<{"denied"}>>
      /\ UNCHANGED <<listing, docVars, page, readVars, seenVars, past>>
  BY DeniedBasics DEF PagesInv, Causes, Denied
<1>2. ~ Walked' /\ ~ Running' /\ ~ HasFound'
  BY <1>1 DEF Walked, Running, HasFound
<1>3. Causes'
  <2>1. EverInv' /\ ViewsInv' /\ ViewsShownForACause'
    BY <1>1, <1>2 DEF EverInv, ViewsInv, ViewsShownForACause, PagesInv, Causes, seenVars
  <2>2. QED
    BY <1>1, <2>1 DEF Causes
<1>4. SteadyInv' /\ FoundInv' /\ FoundAtOnceInv'
  BY <1>1, <1>2 DEF PagesInv, SteadyInv, FoundInv, FoundAtOnceInv, docVars
<1>5. RepeatedInv'
  <2>1. ASSUME listing \in Paged, Ordered
        PROVE  \A d \in again' : CameAhead(d)'
    BY <1>1, <2>1, PagedKept DEF PagesInv, RepeatedInv, seenVars, docVars, CameAhead
  <2>2. QED
    BY <1>1, <2>1 DEF RepeatedInv, Ordered
<1>6. MissedInv'
  <2>1. (Ordered' <=> Ordered) /\ listing' = listing
    BY <1>1 DEF Ordered
  <2>2. rows' = rows /\ counted' = counted /\ past' = past
    BY <1>1 DEF readVars
  <2>3. QED
    BY <1>1, <1>2, <2>1, <2>2 DEF PagesInv, MissedInv
<1>7. SharedRepeatedInv' /\ SharedMissedInv' /\ WholeInv'
  BY <1>1, <1>2 DEF PagesInv, SharedRepeatedInv, SharedMissedInv, WholeInv, seenVars
<1>8. QED
  BY <1>3, <1>4, <1>5, <1>6, <1>7 DEF PagesInv

\* What nobody touches stays.
LEMMA StutterPages ==
    ASSUME PagesInv, UNCHANGED vars
    PROVE  PagesInv'
<1>1. /\ UNCHANGED <<listing, docVars, page, todo, readVars, seenVars, past>>
  BY DEF vars
<1>2. Causes'
  BY CausesInductive DEF PagesInv
<1>3. /\ Reads' = Reads /\ Pool' = Pool /\ Listed' = Listed /\ Matching(as)' = Matching(as)
      /\ (Walking' <=> Walking) /\ (Running' <=> Running) /\ (Walked' <=> Walked)
      /\ \A q : Pending(q)' <=> Pending(q)
  BY <1>1 DEF docVars, readVars, Running, Walking, Walked, Pending, Pool, PoolOf, Reads, Listed,
      Matching, Asked,
      OwnSecret, BaseQuery, ChildSecret, AdminSecret, Shares, Names, MyNotification, MyLog,
      AdminUser,
      AdminNotification, AdminLog, OtherUser, PendingReport, ReportOfUser
<1>4. /\ Asking' = Asking /\ (HasFound' <=> HasFound)
      /\ (\A n : Queried(n)' <=> Queried(n)) /\ (\A d : Turn(d)' = Turn(d))
      /\ (Ordered' <=> Ordered)
      /\ \A e, d : Ahead(e, d)' <=> Ahead(e, d)
  BY <1>1, <1>3 DEF Ordered, NameOf, Asking, HasFound, Queried, Turn, Class, Ahead, docVars,
      readVars
<1>5. /\ \A d : Rank(Asking, d)' = Rank(Asking, d)
      /\ \A d : (CameAhead(d)' <=> CameAhead(d)) /\ (LeftAhead(d)' <=> LeftAhead(d))
      /\ \A d : Excused(d)' <=> Excused(d)
  BY <1>1, <1>4 DEF Rank, CameAhead, LeftAhead, Excused
<1>6. /\ \A d : Preceding(Asking \cup Pool, d)' = Preceding(Asking \cup Pool, d)
      /\ \A d : Reached(d)' = Reached(d)
  BY <1>1, <1>3, <1>4 DEF Preceding, Reached, Before, readVars
<1>7. SteadyInv'
  BY <1>1, <1>3, <1>4 DEF PagesInv, SteadyInv, docVars, readVars
<1>8. RepeatedInv'
  BY <1>1, <1>3, <1>4, <1>5 DEF PagesInv, RepeatedInv, seenVars, readVars
<1>9. MissedInv'
  BY <1>1, <1>3, <1>4, <1>5 DEF PagesInv, MissedInv, seenVars, readVars
<1>10. FoundInv' /\ FoundAtOnceInv'
  <2>1. /\ \A d : Class(d, as)' = Class(d, as)
        /\ \A d : Names(says[d], as)' = Names(says[d], as)
    BY <1>1 DEF Class, Names, docVars, readVars
  <2>2. FoundInv'
    BY <1>1, <1>3, <1>4, <2>1 DEF PagesInv, FoundInv, docVars, readVars
  <2>3. FoundAtOnceInv'
    BY <1>1, <1>3, <1>4, <2>1 DEF PagesInv, FoundAtOnceInv, docVars, readVars
  <2>4. QED
    BY <2>2, <2>3
<1>11. SharedRepeatedInv'
  BY <1>1, <1>3, <1>4, <1>6 DEF PagesInv, SharedRepeatedInv, seenVars, readVars
<1>12. SharedMissedInv'
  BY <1>1, <1>3, <1>4, <1>6 DEF PagesInv, SharedMissedInv, seenVars
<1>13. WholeInv'
  BY <1>1, <1>3 DEF PagesInv, WholeInv, seenVars, readVars
<1>14. QED
  BY <1>2, <1>7, <1>8, <1>9, <1>10, <1>11, <1>12, <1>13 DEF PagesInv

\* PagesInv is inductive.
LEMMA PagesInductive ==
    PagesInv /\ [Next]_vars => PagesInv'
<1> SUFFICES ASSUME PagesInv, [Next]_vars
             PROVE  PagesInv'
  OBVIOUS
<1>1. /\ Basics /\ Causes' /\ SteadyInv /\ RepeatedInv /\ MissedInv /\ FoundInv
      /\ FoundAtOnceInv /\ SharedRepeatedInv /\ SharedMissedInv /\ WholeInv
  BY CausesInductive DEF PagesInv, Causes
<1>2. ASSUME NEW r \in Reading, ReadStep(r)
      PROVE  PagesInv'
  <2>1. SteadyInv' /\ RepeatedInv' /\ MissedInv' /\ FoundInv' /\ FoundAtOnceInv'
    BY <1>1, <1>2, ReadSteady, ReadRepeated, ReadMissed, ReadFound, ReadFoundAtOnce
  <2>2. SharedRepeatedInv' /\ SharedMissedInv' /\ WholeInv'
    BY <1>1, <1>2, ReadSharedRepeated, ReadSharedMissed, ReadWhole
  <2>3. QED
    BY <1>1, <2>1, <2>2 DEF PagesInv
<1>3. CASE Denied
  BY <1>3, DeniedPages
<1>4. ASSUME NEW p \in Person, ReportsOf(p)
      PROVE  PagesInv'
  BY <1>4, ReportsOfPages
<1>5. CASE Answer
  <2>1. SteadyInv' /\ RepeatedInv' /\ MissedInv' /\ FoundInv' /\ FoundAtOnceInv'
    BY <1>1, <1>5, AnswerSteady, AnswerRepeated, AnswerMissed, AnswerFound,
       AnswerFoundAtOnce
  <2>2. SharedRepeatedInv' /\ SharedMissedInv' /\ WholeInv'
    BY <1>1, <1>5, AnswerSharedRepeated, AnswerSharedMissed, AnswerWhole
  <2>3. QED
    BY <1>1, <2>1, <2>2 DEF PagesInv
<1>6. CASE Meanwhile
  <2>1. SteadyInv' /\ RepeatedInv' /\ MissedInv' /\ FoundInv' /\ FoundAtOnceInv'
    BY <1>1, <1>6, MeanwhileSteady, MeanwhileRepeated, MeanwhileMissed, MeanwhileFound,
       MeanwhileFoundAtOnce
  <2>2. SharedRepeatedInv' /\ SharedMissedInv' /\ WholeInv'
    BY <1>1, <1>6, MeanwhileSharedRepeated, MeanwhileSharedMissed, MeanwhileWhole
  <2>3. QED
    BY <1>1, <2>1, <2>2 DEF PagesInv
<1>7. CASE UNCHANGED vars
  BY <1>7, StutterPages
<1>8. QED
  BY <1>2, <1>3, <1>4, <1>5, <1>6, <1>7, Steps

\* Throughout a walk, every document is on the page its rank says, up to what the history
\* excuses.
THEOREM PagesInvariant == Spec => []PagesInv
  BY InitPages, PagesInductive, PTL DEF Spec

\* For any documents, any Limit and any changes: a document is answered on two pages only if
\* one came ahead of it meanwhile, or the recipients were put in another order, or, in pages
\* of shared secrets, if any came, any entry was rewritten or another query finds one.
THEOREM RepeatedForACauseHolds == Spec => []RepeatedForACause
<1>1. PagesInv => RepeatedForACause
  <2> SUFFICES ASSUME PagesInv, NEW d \in again
               PROVE  \/ \E e \in past.came : Ahead(e, d)
                      \/ listing = "recipients" /\ past.moved # {}
                      \/ listing = "shared" /\ past.came \cup past.moved # {}
    BY DEF RepeatedForACause
  <2>1. listing \in Paged \cup {"shared"} \cup Whole
    BY Kinded DEF PagesInv, Causes, Basics, Paged
  <2>2. CASE listing \in Paged
    BY <2>2 DEF PagesInv, RepeatedInv, CameAhead, Ordered
  <2>3. CASE listing = "shared"
    BY <2>3 DEF PagesInv, SharedRepeatedInv
  <2>4. CASE listing \in Whole
    BY <2>4 DEF PagesInv, WholeInv
  <2>5. QED
    BY <2>1, <2>2, <2>3, <2>4
<1>2. QED
  BY <1>1, PagesInvariant, PTL

\* For any documents, any Limit and any changes: a document listed throughout a walk is on
\* one of its pages unless one ahead of it left, a page counted before it read, the
\* recipients were put in another order, or, for shared secrets, any secret left, an entry
\* was rewritten or another query finds one.  What is answered at once tells of it.
THEOREM MissedForACauseHolds == Spec => []MissedForACause
<1>1. PagesInv => MissedForACause
  <2> SUFFICES ASSUME PagesInv, Walked
               PROVE  MissedForACause
    BY DEF MissedForACause
  <2>1. listing \in Kinds
    BY Kinded DEF PagesInv, Causes, Basics
  <2>2. CASE listing = "sharedWhole"
    <3>1. \A d \in past.steady \ seen : d \in past.moved
      BY <2>2 DEF PagesInv, WholeInv, Whole
    <3>2. QED
      BY <2>2, <3>1 DEF MissedForACause, Pooled
  <2>3. CASE listing \in Whole \ Pooled
    <3>1. past.moved = {}
      BY <2>3 DEF PagesInv, SteadyInv, Whole, Pooled
    <3>2. past.steady \ seen = {}
      BY <2>3, <3>1 DEF PagesInv, WholeInv
    <3>3. QED
      BY <3>2 DEF MissedForACause
  <2>4. CASE listing \notin Whole
    <3>1. ASSUME NEW d \in past.steady \ seen
          PROVE  \/ past.short
                 \/ \E e \in past.left : Ahead(e, d)
                 \/ listing = "recipients" /\ past.moved # {}
                 \/ listing = "shared" /\ past.left \cup past.moved # {}
      <4>1. CASE listing = "shared"
        BY <3>1, <4>1 DEF PagesInv, SharedMissedInv
      <4>2. CASE listing # "shared"
        <5>1. listing \in Paged
          BY <2>1, <2>4, <4>2 DEF Paged
        <5>2. Excused(d) \/ ~ Ordered
          BY <3>1, <5>1 DEF PagesInv, MissedInv
        <5>3. QED
          BY <5>2 DEF Excused, LeftAhead, Ordered
      <4>3. QED
        BY <4>1, <4>2
    <3>2. listing # "sharedWhole" /\ listing \notin Whole \ Pooled
      BY <2>4 DEF Whole
    <3>3. QED
      BY <3>1, <3>2 DEF MissedForACause
  <2>5. QED
    BY <2>1, <2>2, <2>3, <2>4 DEF Whole, Pooled
<1>2. QED
  BY <1>1, PagesInvariant, PTL
==============================================================================
