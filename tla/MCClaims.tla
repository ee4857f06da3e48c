------------------------------- MODULE MCClaims -------------------------------
(* Instances of Claims for TLC. *)
EXTENDS Claims, TLC

CONSTANTS own, tom, l1, l2, e1, e2, s1, s2, w1, w2, tp

\* own shares s1 and s2 with two addresses.  tom is known from Telegram and has no address.
MCPerson == own :> None @@ tom :> tp
MCOwner  == s1 :> own @@ s2 :> own
TomHasW2 == w1 :> None @@ w2 :> <<tom>>

Tom(x) == [user |-> tom, address |-> x]
MCWanted == {{Bare(w1), Bare(w2)}, {Tom(None)}, {Tom(w1)}, {}}

Symmetry == Permutations({l1, l2}) \cup Permutations({e1, e2}) \cup Permutations({s1, s2})
==============================================================================
