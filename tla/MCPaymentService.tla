------------------------- MODULE MCPaymentService -------------------------
(***************************************************************************)
(* Small instances of PaymentService.  c1 and c2 ask for the deposit of    *)
(* the same order, c3 for its remaining balance.                           *)
(***************************************************************************)
EXTENDS PaymentService

SlotOf == [r \in Creates |-> IF r = "c3" THEN <<"o1", "remaining">>
                                          ELSE <<"o1", "deposit">>]

AmountOf == [s \in Slots |-> IF s[2] = "deposit" THEN 7 ELSE 3]

Path == {"WAITING_DEPOSIT", "WAITING_REMAINING_PAYMENT"}

\* b1 and b2 are one transfer delivered twice, b3 the same transfer reported
\* for another payment, b4 a second transfer for the payment, b5 the second
\* transfer reported for the other payment, with the wrong amount; m1 and m2
\* are two clicks on the mock button.
NameOf == [r \in Payers |-> IF r \in {"b3", "b5"} THEN "c3" ELSE "c1"]

TransferOf == [r \in Callbacks |-> IF r \in {"b4", "b5"} THEN "t2" ELSE "t1"]

ReceivedOf == [r \in Callbacks |-> IF r = "b3" THEN 3 ELSE 7]
=============================================================================
