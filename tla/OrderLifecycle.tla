--------------------------- MODULE OrderLifecycle ---------------------------
(***************************************************************************)
(* What the order service promises about an order, with the machinery left *)
(* out: it is created once, an event moves it at most once and only along  *)
(* the state machine, and the status, the timeline row, the mark that the  *)
(* event was processed and the outgoing event change in one step.          *)
(***************************************************************************)
EXTENDS OrderStatus, Sequences

CONSTANTS Orders, Events, EventOrder, EventKind, EventClass, OperatorMoves, None

VARIABLES status, timeline, outbox, processed

vars == <<status, timeline, outbox, processed>>

Init ==
    /\ status = [o \in Orders |-> None]
    /\ timeline = [o \in Orders |-> <<>>]
    /\ outbox = [o \in Orders |-> <<>>]
    /\ processed = {}

Create(o) ==
    /\ status[o] = None
    /\ status' = [status EXCEPT ![o] = "WAITING_DEPOSIT"]
    /\ timeline' = [timeline EXCEPT ![o] =
                      <<[status |-> "WAITING_DEPOSIT", event |-> None]>>]
    /\ outbox' = [outbox EXCEPT ![o] =
                      <<[prev |-> None, curr |-> "WAITING_DEPOSIT"]>>]
    /\ UNCHANGED processed

Apply(e) ==
    LET o == EventOrder[e]
        t == Target(EventKind[e]) IN
    /\ EventClass[e] = "valid"
    /\ e \notin processed
    /\ status[o] # None
    /\ CanTransition(status[o], t)
    /\ status' = [status EXCEPT ![o] = t]
    /\ timeline' = [timeline EXCEPT ![o] =
                      Append(@, [status |-> t, event |-> e])]
    /\ processed' = processed \cup {e}
    /\ outbox' = [outbox EXCEPT ![o] =
                    Append(@, [prev |-> Previous(EventKind[e]), curr |-> t])]

OperatorMove(o, s) ==
    /\ s \in OperatorMoves
    /\ status[o] # None
    /\ CanTransition(status[o], s)
    /\ status' = [status EXCEPT ![o] = s]
    /\ UNCHANGED <<timeline, outbox, processed>>

Next ==
    \/ \E o \in Orders : Create(o)
    \/ \E e \in Events : Apply(e)
    \/ \E o \in Orders, s \in Status : OperatorMove(o, s)

Spec == Init /\ [][Next]_vars
=============================================================================
