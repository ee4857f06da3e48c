----------------------------- MODULE SendPromise -----------------------------
(***************************************************************************)
(* What a caller of TelegramService.sendMessage may rely on, whatever the  *)
(* network and the database do: a call ends at most once, and an answer    *)
(* true means that the message reached the recipient's chat, unless the    *)
(* recipient is the sender, who is not written to.                         *)
(***************************************************************************)
CONSTANTS Call, Self

VARIABLES
    delivered,  \* the calls whose message has arrived
    answer      \* what each call has answered

Answers == {"none", "true", "false", "thrown", "lost"}

Init ==
    /\ delivered = {}
    /\ answer = [c \in Call |-> "none"]

Deliver(c) ==
    /\ answer[c] = "none"
    /\ delivered' = delivered \cup {c}
    /\ UNCHANGED answer

End(c, a) ==
    /\ answer[c] = "none"
    /\ a = "true" => c \in delivered \cup Self
    /\ answer' = [answer EXCEPT ![c] = a]
    /\ UNCHANGED delivered

Next == \E c \in Call : Deliver(c) \/ \E a \in Answers \ {"none"} : End(c, a)

Spec == Init /\ [][Next]_<<delivered, answer>>
==============================================================================
