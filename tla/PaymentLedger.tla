--------------------------- MODULE PaymentLedger ---------------------------
(***************************************************************************)
(* What the payment service promises: an order has at most one payment of  *)
(* a type; it is opened while the order waits for it and paid at most once,*)
(* and the event that tells the order service is written in the step that  *)
(* marks the payment as succeeded.                                         *)
(***************************************************************************)
EXTENDS OrderStatus

CONSTANTS Orders, Types, Amount, None

VARIABLES order, slot, events

vars == <<order, slot, events>>

Slots == Orders \X Types

Init ==
    /\ order \in [Orders -> Status \cup {None}]
    /\ slot = [s \in Slots |-> None]
    /\ events = [s \in Slots |-> 0]

\* A payment may be opened on a status of the order that is no longer its
\* current one, but never on one the order has not had.
Open(s) ==
    /\ slot[s] = None
    /\ slot' = [slot EXCEPT ![s] = "PENDING"]
    /\ Amount[s] > 0
    /\ order[s[1]] # None
    /\ Rank(Required(s[2])) <= Rank(order[s[1]])
    /\ UNCHANGED <<order, events>>

Pay(s) ==
    /\ slot[s] = "PENDING"
    /\ slot' = [slot EXCEPT ![s] = "SUCCEEDED"]
    /\ events' = [events EXCEPT ![s] = @ + 1]
    /\ UNCHANGED order

OrderMoves(o) ==
    /\ \E s \in Status :
         /\ order' = [order EXCEPT ![o] = s]
         /\ order[o] # None => Rank(order[o]) < Rank(s)
    /\ UNCHANGED <<slot, events>>

Next ==
    \/ \E s \in Slots : Open(s) \/ Pay(s)
    \/ \E o \in Orders : OrderMoves(o)

Spec == Init /\ [][Next]_vars
=============================================================================
