--------------------------- MODULE OrderedDelivery ---------------------------
(***************************************************************************)
(* What the relay of deposits to L2 and of withdrawals to L1 promises: the *)
(* items posted on one side are numbered through, and those that arrive on *)
(* the other are the first of them, in their order and each once.  How the *)
(* items travel is no part of it: MessageRelay, with its messages, calls,  *)
(* runs and retries, implements it.                                        *)
(***************************************************************************)
EXTENDS Integers, Sequences

VARIABLES
    posted,  \* the items 1..posted have been posted
    arrived  \* the items that have arrived

deliveryVars == <<posted, arrived>>

Init == posted = 0 /\ arrived = <<>>

\* One side posts some more items.
Post ==
    /\ posted' \in Nat
    /\ posted' > posted
    /\ UNCHANGED arrived

\* The other side gets those that follow, as many as it may be.
Arrive ==
    /\ \E n \in Len(arrived) + 1..posted : arrived' = [i \in 1..n |-> i]
    /\ UNCHANGED posted

Next == Post \/ Arrive

Spec == Init /\ [][Next]_deliveryVars
=============================================================================
