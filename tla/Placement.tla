------------------------------ MODULE Placement ------------------------------
(***************************************************************************)
(* What the quotation and order services promise together: a quotation is  *)
(* offered, reserved for an order and ordered, once and in this order, and *)
(* a customer is told that there is an order only when there is one.  The  *)
(* order has the terms of the offer.                                       *)
(***************************************************************************)
CONSTANTS Quotations, Requests, Wants, Terms, None

VARIABLES
    state,      \* "none", "offered", "reserved", "ordered"
    offer,      \* the terms a quotation was offered on
    terms,      \* the terms its order has, None: no order
    told        \* the requests that were told of an order

vars == <<state, offer, terms, told>>

Init ==
    /\ state = [q \in Quotations |-> "none"]
    /\ offer = [q \in Quotations |-> None]
    /\ terms = [q \in Quotations |-> None]
    /\ told = {}

Offer(q) ==
    /\ state[q] = "none"
    /\ state' = [state EXCEPT ![q] = "offered"]
    /\ \E t \in Terms : offer' = [offer EXCEPT ![q] = t]
    /\ UNCHANGED <<terms, told>>

Reserve(q) ==
    /\ state[q] = "offered"
    /\ state' = [state EXCEPT ![q] = "reserved"]
    /\ UNCHANGED <<offer, terms, told>>

\* Some request may be told in the step that orders.
Order(q) ==
    /\ state[q] = "reserved"
    /\ state' = [state EXCEPT ![q] = "ordered"]
    /\ terms' = [terms EXCEPT ![q] = offer[q]]
    /\ \/ UNCHANGED told
       \/ \E r \in Requests : Wants[r] = q /\ told' = told \cup {r}
    /\ UNCHANGED offer

Tell(r) ==
    /\ state[Wants[r]] = "ordered"
    /\ told' = told \cup {r}
    /\ UNCHANGED <<state, offer, terms>>

Next ==
    \/ \E q \in Quotations : Offer(q) \/ Reserve(q) \/ Order(q)
    \/ \E r \in Requests : Tell(r)

Spec == Init /\ [][Next]_vars
=============================================================================
