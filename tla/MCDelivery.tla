------------------------------ MODULE MCDelivery ------------------------------
(* Instances of Delivery for TLC. *)
EXTENDS Delivery, TLC

CONSTANTS ann, bob, share, note

\* A share notification with the usual three attempts, and a call whose sender is the
\* recipient.
MCTo == share :> ann @@ note :> bob
MCRetries == share :> 3 @@ note :> 1
==============================================================================
