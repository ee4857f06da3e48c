------------------------------- MODULE MCViews -------------------------------
(* Instances of Views for TLC. *)
EXTENDS Views, TLC

CONSTANTS own, ann, bob, wal, sec, reply, x, y, z, addr, r1, r2, r3

\* own has shared sec; ann has answered with reply, which own may see as well.
MCOwner  == sec :> own @@ reply :> ann
MCParent == sec :> None @@ reply :> sec
MCAddress == own :> None @@ ann :> addr @@ bob :> None @@ wal :> None
MCNames  == own :> None @@ ann :> x @@ bob :> z @@ wal :> None

ToAnn  == [user |-> ann, name |-> x, address |-> None]
ToX    == [user |-> None, name |-> x, address |-> None]
ToY    == [user |-> None, name |-> y, address |-> None]
ToAddr == [user |-> None, name |-> None, address |-> addr]
ToZ    == [user |-> None, name |-> z, address |-> None]
ToBob  == [user |-> bob, name |-> None, address |-> None]
MCLists == {{ToAnn, ToZ}, {ToBob, ToY, ToAddr}, {ToY, ToAddr}}

\* A view from the time when only the Telegram id was stored, and one of a nameless account.
OldView(u) == [user |-> None, telegram |-> u, name |-> None, address |-> None]
WalletView(u) == [user |-> u, telegram |-> None, name |-> None, address |-> None]
MCOldViews == sec :> <<OldView(bob)>> @@ reply :> <<WalletView(wal)>>

Symmetry == Permutations(Viewing)
==============================================================================
