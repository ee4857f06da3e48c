------------------------------ MODULE MCListings ------------------------------
(* Instances of Listings for TLC. *)
EXTENDS Listings, TLC

CONSTANTS ann, bob, wal, A1, A2

\* ann reads; wal and ann have no Telegram id.
MCOwner == [d \in Doc |-> IF d = 1 THEN wal ELSE IF d = 3 THEN ann ELSE bob]

Saying(id, name, a) == [userId |-> id, username |-> name, publicAddress |-> a]
ById      == Saying(TRUE, TRUE, None)
ByName    == Saying(FALSE, TRUE, None)
ByAddr    == Saying(FALSE, FALSE, A1)
ByAll     == Saying(TRUE, TRUE, A1)
MCSays    == {ById, ByName, ByAddr, ByAll}
\* With an address that documents say, without one, or without an account.
MCReaders == {Plain, Stranger, [account |-> TRUE, address |-> A1]}
\* All found by the same query, the newer ones without an address of the reader; or in three
\* ways, the oldest first.
MCStored  == {[d \in Doc |-> IF d < 3 THEN ByAll ELSE ById],
              [d \in Doc |-> IF d = 1 THEN ById ELSE IF d < 4 THEN ByName ELSE ByAddr]}
==============================================================================
