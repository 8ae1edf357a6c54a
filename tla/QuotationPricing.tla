-------------------------- MODULE QuotationPricing --------------------------
(***************************************************************************)
(* How a quotation is made, and the rates it is made with:                 *)
(*   internal/quotation/application/service.go, Extract and create         *)
(*   internal/quotation/adapters/admin_rates.go                            *)
(*   internal/quotation/adapters/postgres/repository.go, Create            *)
(*                                                                         *)
(* A request asks the admin service for the rates, waits for two seconds,  *)
(* prices the product with the rate of its currency, and stores the        *)
(* quotation.  ExchangeRates is the admin service.                         *)
(***************************************************************************)
EXTENDS ExchangeRates, Pricing

CONSTANTS
    Products,   \* what requests ask for: price, currency and quantity
    Refused     \* the requests the input checks, the extraction of the
                \* product or the list of forbidden words refuse

Replies == {"quoted", "refused", "unavailable", "unsupported", "invalid", "error"}

ASSUME ProductsAssumption ==
    /\ \A r \in Requests :
         /\ Products[r].whole \in 0..MaxInt
         /\ Products[r].frac \in (1 - Scale)..(Scale - 1)
         /\ Products[r].quantity \in 1..MaxInt
    /\ Refused \subseteq Requests
    /\ None \notin Replies

VARIABLES
    pc,         \* where the handler of a request is
    reply,      \* its answer, None while there is none
    quotations  \* the row it has stored, or None

quotationVars == <<pc, reply, quotations>>
vars == <<ratesVars, quotationVars>>

Rows == [price : 1..MaxInt, quantity : 1..MaxInt, rate : Nat \ {0},
         amount : 0..MaxInt, fee : 0..MaxInt, total : 1..MaxInt]

TypeOK ==
    /\ RatesTypeOK
    /\ pc \in [Requests -> {"new", "asked", "insert", "done"}]
    /\ reply \in [Requests -> Replies \cup {None}]
    /\ quotations \in [Requests -> Rows \cup {None}]

Init ==
    /\ RatesInit
    /\ pc = [r \in Requests |-> "new"]
    /\ reply = [r \in Requests |-> None]
    /\ quotations = [r \in Requests |-> None]

-----------------------------------------------------------------------------
Ends(r, a) ==
    /\ pc' = [pc EXCEPT ![r] = "done"]
    /\ reply' = [reply EXCEPT ![r] = a]

\* The price a request names, or Rejected.
Price(r) == ParseSourcePrice(Products[r].whole, Products[r].frac)

\* Extract and create, up to the call of the rates.
Refuse(r) ==
    /\ pc[r] = "new"
    /\ r \in Refused \/ Price(r) = Rejected
    /\ Ends(r, "refused")
    /\ UNCHANGED <<quotations, ratesVars>>

Ask(r) ==
    /\ pc[r] = "new"
    /\ r \notin Refused /\ Price(r) # Rejected
    /\ pc' = [pc EXCEPT ![r] = "asked"]
    /\ Request(r)
    /\ UNCHANGED <<reply, quotations>>

\* The rates do not come in time, or the connection breaks: the admin service
\* finds the caller gone.  Its answer may be the one that is lost.
RateFails(r) ==
    /\ pc[r] = "asked"
    /\ Ends(r, "unavailable")
    /\ \/ Cancel(r)
       \/ get[r] = "done" /\ UNCHANGED ratesVars
    /\ UNCHANGED quotations

Rate(r) == Rates[result[r]][Products[r].currency]

\* Rate: the answer comes, and the quotation is calculated.
RateArrives(r) ==
    /\ pc[r] = "asked" /\ get[r] = "done"
    /\ IF result[r] = Error THEN Ends(r, "unavailable")
       ELSE IF Products[r].currency \notin Currencies THEN Ends(r, "unsupported")
       ELSE IF ~Accepts(Price(r), Products[r].quantity, Rate(r)) THEN Ends(r, "invalid")
       ELSE pc' = [pc EXCEPT ![r] = "insert"] /\ UNCHANGED reply
    /\ UNCHANGED <<quotations, ratesVars>>

Row(r) ==
    LET c == Calculate(Price(r), Products[r].quantity, Rate(r)) IN
    [price |-> Price(r), quantity |-> Products[r].quantity, rate |-> Rate(r),
     amount |-> c.amount, fee |-> c.fee, total |-> c.total]

Store(r) == quotations' = [quotations EXCEPT ![r] = Row(r)]

InsertQuotation(r) ==
    /\ pc[r] = "insert"
    /\ Store(r) /\ Ends(r, "quoted")
    /\ UNCHANGED ratesVars

\* The statement fails, or its result is lost.
InsertFails(r) ==
    /\ pc[r] = "insert"
    /\ Store(r) \/ UNCHANGED quotations
    /\ Ends(r, "error")
    /\ UNCHANGED ratesVars

-----------------------------------------------------------------------------
AdminStep ==
    /\ \/ Tick \/ SourceChanges \/ Restart
       \/ \E r \in Requests :
            GetSystemRates(r) \/ BankAnswers(r) \/ FetchFails(r) \/ FetchSucceeds(r)
    /\ UNCHANGED quotationVars

Next ==
    \/ AdminStep
    \/ \E r \in Requests :
         \/ Refuse(r) \/ Ask(r) \/ RateFails(r) \/ RateArrives(r)
         \/ InsertQuotation(r) \/ InsertFails(r)

Spec == Init /\ [][Next]_vars

-----------------------------------------------------------------------------
\* The price as it is written, in exact arithmetic.
Written(r) == Products[r].whole * Scale + Products[r].frac

\* The integer nearest to n / d; of two it is the greater.
Nearest(n, d) ==
    {i \in {n \div d, n \div d + 1} : 2 * (i * d - n) \in (1 - d)..d}

\* What the goods may come to at a rate, and five percent of it.
AmountsAt(r, rate) == Nearest(Written(r) * Products[r].quantity * rate, Scale)

FeesOn(amount) == Nearest(amount * 5, 100)

\* A quotation is the exact price of what was asked for, to the nearest dong,
\* at a rate of a usable snapshot of the bank, however large the numbers: no
\* sum wraps round.  What is refused as invalid has no price, or none that is
\* an int64.
QuotationAddsUp ==
    \A r \in Requests :
        /\ quotations[r] # None =>
             LET q == quotations[r] IN
             /\ \E v \in Snapshots : Validate(v) /\ q.rate = Rates[v][Products[r].currency]
             /\ q.amount \in AmountsAt(r, q.rate) /\ q.fee \in FeesOn(q.amount)
             /\ q.total = q.amount + q.fee + Shipping
        /\ reply[r] = "invalid" =>
             \A amount \in AmountsAt(r, Rate(r)) : \A fee \in FeesOn(amount) :
                 amount + fee + Shipping > MaxInt
        /\ reply[r] = "refused" =>
             \/ r \in Refused \/ Products[r].frac < 0
             \/ Written(r) = 0 \/ Written(r) > MaxInt
=============================================================================
