--------------------------- MODULE MCOrderEvents ---------------------------
(***************************************************************************)
(* Small instances of OrderEvents.  An event is its kind, its order, what  *)
(* validation makes of it, and a number that tells two packages of one     *)
(* order apart.                                                            *)
(***************************************************************************)
EXTENDS OrderEvents

Event(k, o, cl, n) == [kind |-> k, order |-> o, class |-> cl, number |-> n]

KindOf   == [e \in Events |-> e.kind]
OrderOf  == [e \in Events |-> e.order]
ClassOf  == [e \in Events |-> e.class]
OneShard == [o \in Orders |-> 1]

\* The one partition of package.received.
PackagePartition == {<<"package", 0>>}

OneOrder  == {"o1"}
TwoOrders == {"o1", "o2"}

\* The events of one order from deposit to remaining balance.
FullLife ==
    { Event("deposit", "o1", "valid", 1), Event("package", "o1", "valid", 1),
      Event("remaining", "o1", "valid", 1) }

\* Two orders sharing every partition, with records no producer here writes.
WithPoison ==
    { Event("deposit", "o1", "valid", 1), Event("deposit", "o2", "valid", 1),
      Event("deposit", "o1", "malformed", 1),
      Event("deposit", "o2", "mismatch", 1),
      Event("package", "o1", "valid", 1),
      Event("package", "o2", "invalid", 1) }

\* Two orders and what the producers write for them.
TwoLives ==
    { Event("deposit", "o1", "valid", 1), Event("deposit", "o2", "valid", 1),
      Event("package", "o1", "valid", 1), Event("package", "o2", "valid", 1) }

\* A second package for o1 in front of the package of o2: both were received
\* while their order was waiting for purchase.
HeadOfLine == TwoLives \cup {Event("package", "o1", "valid", 2)}
=============================================================================
