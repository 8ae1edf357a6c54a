------------------------ MODULE MCWarehouseReceipt ------------------------
(***************************************************************************)
(* One order, its deposit, and three scans: p and q of the same package    *)
(* (and alike, hence the symmetry), x of another.                          *)
(***************************************************************************)
EXTENDS WarehouseReceipt, TLC

CONSTANTS d, p, q, x

Event(k, n) == [kind |-> k, number |-> n]

Scans ==
    { Event("deposit", d),
      Event("package", p), Event("package", q), Event("package", x) }

KindOf     == [e \in Events |-> e.kind]
OrderOf    == [e \in Events |-> "o1"]
ClassOf    == [e \in Events |-> "valid"]
OneShard   == [o \in Orders |-> 1]
TrackingOf == [e \in Receipts |-> IF e.number = x THEN "B" ELSE "A"]

Alike == Permutations({p, q})
=============================================================================
