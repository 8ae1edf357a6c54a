------------------------------- MODULE Pricing -------------------------------
(***************************************************************************)
(* The arithmetic of a quotation, in integers of limited width:            *)
(*   internal/quotation/domain/quotation.go                                *)
(* A price is a number of 1/Scale units of its currency.                   *)
(***************************************************************************)
EXTENDS Integers

CONSTANTS
    Scale,      \* SourcePriceScale, 1_000_000
    MaxInt,     \* the largest int64
    Shipping    \* EstimatedShippingFeeVND, 120_000

ASSUME PricingAssumption ==
    /\ Scale \in Nat \ {0}
    /\ MaxInt \in Nat /\ MaxInt >= 2 * Scale
    /\ Shipping \in 1..MaxInt

Rejected == -1

\* What is left of an integer in the machine, and its division.
Wrap(x) == ((x + MaxInt + 1) % (2 * (MaxInt + 1))) - (MaxInt + 1)

Quo(a, b) == IF a >= 0 THEN a \div b ELSE -((-a) \div b)

\* A fault: the sum is not guarded.
ParseWrapping(whole, frac) ==
    LET value == Wrap(Wrap(whole * Scale) + frac)
    IN  IF value <= 0 THEN Rejected ELSE value

\* The digits before and after the point.  There is none before the point but
\* digits; after it, a sign passes.
ParseSourcePrice(whole, frac) ==
    LET value == Wrap(Wrap(whole * Scale) + frac)
    IN  IF whole > Quo(Wrap(MaxInt - frac), Scale) \/ value <= 0
          THEN Rejected ELSE value

\* The amount and the fee are exact in big integers, and rounded to the nearest.
Amount(price, quantity, rate) ==
    (price * quantity * rate + Scale \div 2) \div Scale

Fee(amount) == (amount * 5 + 50) \div 100

\* A fault: the guard forgets the shipping.
FitsUnshipped(amount) ==
    /\ amount <= MaxInt
    /\ amount <= MaxInt - Fee(amount)

\* The sum of the three is not computed before it is known to fit.
Fits(amount) ==
    /\ amount <= MaxInt
    /\ amount <= Wrap(Wrap(MaxInt - Fee(amount)) - Shipping)

Accepts(price, quantity, rate) ==
    /\ price > 0 /\ quantity > 0 /\ rate > 0
    /\ Fits(Amount(price, quantity, rate))

Calculate(price, quantity, rate) ==
    LET amount == Amount(price, quantity, rate) IN
    [amount |-> amount, fee |-> Fee(amount),
     total |-> Wrap(Wrap(amount + Fee(amount)) + Shipping)]
=============================================================================
