---------------------------- MODULE OrderStatus ----------------------------
(***************************************************************************)
(* The order state machine of internal/order/domain/order.go and the three *)
(* kinds of event that drive it from Kafka.                                *)
(***************************************************************************)
EXTENDS Naturals

\* The OrderStatus values of the code, in the order it declares them.
Status ==
    { "WAITING_DEPOSIT", "WAITING_PURCHASE", "PURCHASED",
      "IN_TRANSIT_TO_FOREIGN_WAREHOUSE", "ARRIVED_FOREIGN_WAREHOUSE", "PACKED",
      "IN_TRANSIT_TO_DOMESTIC_WAREHOUSE", "ARRIVED_DOMESTIC_WAREHOUSE",
      "WAITING_REMAINING_PAYMENT", "READY_FOR_DOMESTIC_DELIVERY",
      "OUT_FOR_DELIVERY", "DELIVERED", "CANCELLED" }

\* The "allowed" table of CanTransition, as a set of pairs.  First a faulty
\* table, that accepts a package for an order that has already got one.
AllowedWithRepeat ==
    { <<"WAITING_DEPOSIT", "WAITING_PURCHASE">>,
      <<"WAITING_PURCHASE", "ARRIVED_FOREIGN_WAREHOUSE">>,
      <<"ARRIVED_FOREIGN_WAREHOUSE", "ARRIVED_FOREIGN_WAREHOUSE">> }

Allowed ==
    { <<"WAITING_DEPOSIT", "WAITING_PURCHASE">>,
      <<"WAITING_PURCHASE", "PURCHASED">>,
      <<"WAITING_PURCHASE", "ARRIVED_FOREIGN_WAREHOUSE">>,
      <<"PURCHASED", "IN_TRANSIT_TO_FOREIGN_WAREHOUSE">>,
      <<"IN_TRANSIT_TO_FOREIGN_WAREHOUSE", "ARRIVED_FOREIGN_WAREHOUSE">>,
      <<"ARRIVED_FOREIGN_WAREHOUSE", "PACKED">>,
      <<"PACKED", "IN_TRANSIT_TO_DOMESTIC_WAREHOUSE">>,
      <<"IN_TRANSIT_TO_DOMESTIC_WAREHOUSE", "ARRIVED_DOMESTIC_WAREHOUSE">>,
      <<"ARRIVED_DOMESTIC_WAREHOUSE", "WAITING_REMAINING_PAYMENT">>,
      <<"WAITING_REMAINING_PAYMENT", "READY_FOR_DOMESTIC_DELIVERY">>,
      <<"READY_FOR_DOMESTIC_DELIVERY", "OUT_FOR_DELIVERY">>,
      <<"OUT_FOR_DELIVERY", "DELIVERED">> }

\* CanTransition(from, to): CANCELLED from anything that is not final,
\* every other target only along the table.
CanTransition(from, to) ==
    IF to = "CANCELLED" THEN from \notin {"CANCELLED", "DELIVERED"}
                        ELSE <<from, to>> \in Allowed

-----------------------------------------------------------------------------
\* The event types the order service consumes.
Kinds == {"deposit", "remaining", "package"}

\* The status an event of kind k moves its order to: the "target" argument
\* each Process... function hands to processStatusEvent.
Target(k) ==
    CASE k = "deposit"   -> "WAITING_PURCHASE"
      [] k = "remaining" -> "READY_FOR_DOMESTIC_DELIVERY"
      [] k = "package"   -> "ARRIVED_FOREIGN_WAREHOUSE"

\* A faulty table of previous statuses, copied from the deposit's handler.
PreviousOfDeposit(k) == "WAITING_DEPOSIT"

\* The PreviousStatus each Handle... function writes into the status event it
\* builds before it has read the order.
Previous(k) ==
    CASE k = "deposit"   -> "WAITING_DEPOSIT"
      [] k = "remaining" -> "WAITING_REMAINING_PAYMENT"
      [] k = "package"   -> "WAITING_PURCHASE"

\* The status the producer of an event requires of the order, read over HTTP
\* before the payment or the package is accepted.
Required(k) ==
    CASE k = "deposit"   -> "WAITING_DEPOSIT"
      [] k = "remaining" -> "WAITING_REMAINING_PAYMENT"
      [] k = "package"   -> "WAITING_PURCHASE"

-----------------------------------------------------------------------------
\* A numbering of the statuses that every transition increases: no status is
\* ever visited twice.  It is an argument about the code, not part of it.
Rank(s) ==
    CASE s = "WAITING_DEPOSIT"                  -> 0
      [] s = "WAITING_PURCHASE"                 -> 1
      [] s = "PURCHASED"                        -> 2
      [] s = "IN_TRANSIT_TO_FOREIGN_WAREHOUSE"  -> 3
      [] s = "ARRIVED_FOREIGN_WAREHOUSE"        -> 4
      [] s = "PACKED"                           -> 5
      [] s = "IN_TRANSIT_TO_DOMESTIC_WAREHOUSE" -> 6
      [] s = "ARRIVED_DOMESTIC_WAREHOUSE"       -> 7
      [] s = "WAITING_REMAINING_PAYMENT"        -> 8
      [] s = "READY_FOR_DOMESTIC_DELIVERY"      -> 9
      [] s = "OUT_FOR_DELIVERY"                 -> 10
      [] s = "DELIVERED"                        -> 11
      [] s = "CANCELLED"                        -> 12
=============================================================================
