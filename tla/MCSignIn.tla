------------------------------- MODULE MCSignIn -------------------------------
(* Instances of SignIn for TLC. *)
EXTENDS SignIn, TLC

CONSTANTS ann, r1, r2, r3, r4, eth, spaced

\* spaced is eth with a space after it.
MCTrim == eth :> eth @@ spaced :> eth

Symmetry == Permutations({r1, r2, r3, r4})
==============================================================================
