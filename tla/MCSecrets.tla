------------------------------ MODULE MCSecrets -------------------------------
(* Instances of Secrets for TLC. *)
EXTENDS Secrets, TLC

CONSTANTS ann, bob, cyd, k1, wa, r1, r2

\* ann signs with a wallet; bob and cyd have none, and tokens from their logins by Telegram.
MCWallet == ann :> wa @@ bob :> None @@ cyd :> None
MCWanted == {{}, {ann, bob, cyd}}

\* bob and cyd are alike.
Symmetry == {p @@ q : p \in Permutations({r1, r2}), q \in Permutations({bob, cyd})}
==============================================================================
