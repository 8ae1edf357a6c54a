------------------------- MODULE MCQuotationPricing -------------------------
(***************************************************************************)
(* A machine whose integers end at 999, prices in tenths, and a bank whose *)
(* second snapshot is no use.  r1 asks for 2 pieces at 1.5; r2 for 1 at    *)
(* 35.1, which at the last rate is too dear by the shipping; r3 in a       *)
(* currency nobody has; r4 writes a price that wraps round, and so does r5 *)
(* ("205.-5"), whose sign makes the guard of the parser wrap round too.    *)
(***************************************************************************)
EXTENDS QuotationPricing

RatesOf == [v \in 1..MaxSnapshot |->
    [c \in {"usd"} |-> IF v = 2 THEN 0 ELSE 10 * v - 3]]

ProductsOf == [r \in Requests |->
    CASE r = "r1" -> [whole |-> 1, frac |-> 5, quantity |-> 2, currency |-> "usd"]
      [] r = "r2" -> [whole |-> 35, frac |-> 1, quantity |-> 1, currency |-> "usd"]
      [] r = "r3" -> [whole |-> 1, frac |-> 0, quantity |-> 1, currency |-> "dem"]
      [] r = "r5" -> [whole |-> 205, frac |-> -5, quantity |-> 1, currency |-> "usd"]
      [] OTHER    -> [whole |-> 205, frac |-> 0, quantity |-> 1, currency |-> "usd"]]
=============================================================================
