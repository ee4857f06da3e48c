--------------------------- MODULE MCTelegramClient ---------------------------
(* Instances of TelegramClient for TLC. *)
EXTENDS TelegramClient, TLC

CONSTANTS u1, u2, a1, s1, s2, v1, v2, l1, f1, f2

Symmetry ==
    Permutations(User) \cup Permutations(Send) \cup Permutations(Verify)
        \cup Permutations(Fetch)
==============================================================================
