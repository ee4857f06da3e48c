------------------------------- MODULE MCSearch -------------------------------
(* Instances of Search for TLC. *)
EXTENDS Search, TLC

CONSTANTS A1, A2

\* 1 and 2 have no Telegram; three have used A1, or both addresses have users.
MCHeld == {(A1 :> {1, 2, 3} @@ A2 :> {}), (A1 :> {2, 3} @@ A2 :> {3, 4}),
           (A1 :> {4} @@ A2 :> {2, 3})}

\* Everybody is active, or all but one, who may come.
MCActive == {Person, Person \ {1}, Person \ {4}}

\* A user is mentioned by name, or an address is.
MCMentions == {[u \in Person |-> IF u = 1 THEN {3} ELSE {A1}],
               [u \in Person |-> IF u = 1 THEN {A1} ELSE {3}]}

Typed(whole, names, addresses) == [whole |-> whole, names |-> names, addresses |-> addresses]
\* Nothing, part of a name or an address, and a whole address.
MCQueries == {Typed(FALSE, Person, {}), Typed(FALSE, {3, 4}, {A1, A2}), Typed(FALSE, {}, {A1}),
              Typed(TRUE, {}, {A1})}
==============================================================================
