------------------------------ MODULE AtomicTurns ------------------------------
(***************************************************************************)
(* What the eternal thread promises of one exchange, without its database: *)
(* a message is kept from the moment it is accepted, it is answered as a   *)
(* whole (the message and every reply row at once) or withdrawn as a       *)
(* whole, and an answered exchange never changes again.                    *)
(***************************************************************************)
EXTENDS Naturals

CONSTANT MaxSends   \* bound: messages ever accepted

VARIABLE exchange   \* what the thread holds of each message

Send == 1..MaxSends

Init == exchange = [i \in Send |-> "unsent"]

Accept(i) ==
    /\ exchange[i] = "unsent"
    /\ exchange' = [exchange EXCEPT ![i] = "open"]

Answer(i) ==
    /\ exchange[i] = "open"
    /\ exchange' = [exchange EXCEPT ![i] = "answered"]

Withdraw(i) ==
    /\ exchange[i] = "open"
    /\ exchange' = [exchange EXCEPT ![i] = "withdrawn"]

Next == \E i \in Send : Accept(i) \/ Answer(i) \/ Withdraw(i)

Spec == Init /\ [][Next]_exchange
===============================================================================
