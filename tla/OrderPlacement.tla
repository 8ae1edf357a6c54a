--------------------------- MODULE OrderPlacement ---------------------------
(***************************************************************************)
(* A quotation becomes an order, across two services and two databases:    *)
(*   internal/order/application/service.go, Create                         *)
(*   internal/order/adapters/postgres/repository.go, Create                *)
(*   internal/order/adapters/quotationclient/client.go                     *)
(*   internal/quotation/application/service.go, GetSnapshot and Confirm    *)
(*   internal/quotation/adapters/postgres/repository.go                    *)
(*                                                                         *)
(* A create request reads the quotation over HTTP, has it confirmed for    *)
(* the order over HTTP, and inserts the order, its item, its first         *)
(* timeline entry and its event in one Read Committed transaction.  Every  *)
(* remote call and every statement is an action; the client may give up a  *)
(* call that the quotation service goes on with, a COMMIT may go           *)
(* unacknowledged, and the order service may stop anywhere.                *)
(***************************************************************************)
EXTENDS Naturals, FiniteSets

CONSTANTS
    Quotations,
    Requests,       \* POST /api/v1/orders
    Invalid,        \* those without a quotation id or a delivery address
    Wants,          \* the quotation a request is about
    Customers,
    Owner,          \* the customer a quotation is made for
    Asker,          \* the customer a request names, or None
    Totals,         \* what quotations may come to
    MaxFailures,    \* bound: failures of all kinds
    None

ASSUME PlacementAssumption ==
    /\ Invalid \subseteq Requests
    /\ Wants \in [Requests -> Quotations]
    /\ Owner \in [Quotations -> Customers]
    /\ Asker \in [Requests -> Customers \cup {None}]
    /\ Totals \subseteq Nat \ {0}
    /\ MaxFailures \in Nat
    /\ None \notin Customers \cup Quotations \cup Requests \cup Nat

VARIABLES
    total,      \* quotations.total_amount_vnd, None: no quotation
    confirmed,  \* quotations.confirmed_order_id, None: PENDING_CONFIRMATION
    old,        \* the quotations made more than half an hour ago
    call,       \* the confirmation a request asks for, at the quotation service
    orders,     \* the committed order with an id, None: no order
    outbox,     \* the requests whose order.created event is committed
    claim,      \* the request that has inserted an order id but not committed
    pc,         \* where a request's goroutine is
    reply,      \* the answer of a request, None while there is none
    answer,     \* the order it carries
    failures,   \* how many failures there have been
    calm        \* history: requests that nothing has interfered with

quotation == <<total, confirmed, old, call>>
database  == <<orders, outbox>>
client    == <<reply, answer>>
vars      == <<quotation, database, claim, pc, client, failures, calm>>

\* An order's id may stand for its quotation, or be unique to a request.
OrderIds == Quotations \cup Requests

\* A fault: every request mints an id of its own.
mintedID(r) == r

\* The id is derived from the quotation's, so that a repeat has the same.
orderID(r) == Wants[r]

OrderRows ==
    [quotation : Quotations, customer : Customers, by : Requests,
     total : Nat, deposit : Nat, remaining : Nat]

Replies == {"created", "invalid", "notFound", "mismatch", "conflict",
            "dependency", "error", "lost"}

ASSUME NoneAssumption == None \notin OrderRows \cup Replies

TypeOK ==
    /\ total \in [Quotations -> Totals \cup {None}]
    /\ confirmed \in [Quotations -> OrderIds \cup {None}]
    /\ old \subseteq Quotations
    /\ call \in [Requests -> {"none", "asked", "valid", "confirmed", "conflict",
                              "expired", "failed"}]
    /\ orders \in [OrderIds -> OrderRows \cup {None}]
    /\ outbox \subseteq Requests
    /\ claim \in [OrderIds -> Requests \cup {None}]
    /\ pc \in [Requests -> {"new", "read", "confirm", "create", "insert",
                            "commit", "indoubt", "done"}]
    /\ reply \in [Requests -> Replies \cup {None}]
    /\ answer \in [Requests -> OrderRows \cup {None}]
    /\ failures \in 0..MaxFailures
    /\ calm \subseteq Requests

Init ==
    /\ total = [q \in Quotations |-> None]
    /\ confirmed = [q \in Quotations |-> None]
    /\ old = {}
    /\ call = [r \in Requests |-> "none"]
    /\ orders = [o \in OrderIds |-> None]
    /\ outbox = {}
    /\ claim = [o \in OrderIds |-> None]
    /\ pc = [r \in Requests |-> "new"]
    /\ reply = [r \in Requests |-> None]
    /\ answer = [r \in Requests |-> None]
    /\ failures = 0
    /\ calm = {}

-----------------------------------------------------------------------------
\* A quotation is made (QuotationPricing says how); time passes.
Offer(q) ==
    /\ total[q] = None
    /\ \E t \in Totals : total' = [total EXCEPT ![q] = t]
    /\ UNCHANGED <<confirmed, old, call, database, claim, pc, client, failures, calm>>

About(q) == {r \in Requests : Wants[r] = q}

GrowsOld(q) ==
    /\ total[q] # None
    /\ old' = old \cup {q}
    /\ calm' = calm \ {r \in About(q) : reply[r] = None}
    /\ UNCHANGED <<total, confirmed, call, database, claim, pc, client, failures>>

-----------------------------------------------------------------------------
\* The handler of r goes on at s, or ends with an answer.
Continue(r, s) == pc' = [pc EXCEPT ![r] = s] /\ UNCHANGED client

Answer(r, a, o) ==
    /\ pc' = [pc EXCEPT ![r] = "done"]
    /\ reply' = [reply EXCEPT ![r] = a]
    /\ answer' = [answer EXCEPT ![r] = o]

Fails(R) ==
    /\ failures < MaxFailures
    /\ failures' = failures + 1
    /\ calm' = calm \ R

Active == {r \in Requests : pc[r] \notin {"new", "done"}}

\* What a customer can expect to be ordered.
Orderable(r) ==
    /\ r \notin Invalid
    /\ total[Wants[r]] # None /\ Wants[r] \notin old
    /\ Asker[r] \in {None, Owner[Wants[r]]}

\* A request comes in, and may disturb others about the same quotation.
Start(r) ==
    LET Others == (Active \cap About(Wants[r])) \ {r} IN
    /\ pc[r] = "new"
    /\ IF r \in Invalid THEN Answer(r, "invalid", None) ELSE Continue(r, "read")
    /\ calm' = IF Others = {} /\ Orderable(r) THEN calm \cup {r} ELSE calm \ Others
    /\ UNCHANGED <<quotation, database, claim, failures>>

\* GetQuotation and the checks on what it says, all of which stay true.
GetQuotation(r) ==
    LET q == Wants[r] IN
    /\ pc[r] = "read"
    /\ IF total[q] = None
         THEN Answer(r, "notFound", None) /\ UNCHANGED call
         ELSE IF Asker[r] \notin {None, Owner[q]}
                THEN Answer(r, "mismatch", None) /\ UNCHANGED call
                ELSE Continue(r, "confirm") /\ call' = [call EXCEPT ![r] = "asked"]
    /\ UNCHANGED <<total, confirmed, old, database, claim, failures, calm>>

\* A call fails or times out; the quotation service may go on with it.
DependencyFails(r) ==
    /\ pc[r] \in {"read", "confirm"}
    /\ Fails({r})
    /\ Answer(r, "dependency", None)
    /\ \/ UNCHANGED call
       \/ call' = [call EXCEPT ![r] = "failed"]
    /\ UNCHANGED <<total, confirmed, old, database, claim>>

-----------------------------------------------------------------------------
(***************************************************************************)
(* The quotation service: Confirm.                                         *)
(***************************************************************************)
\* FindByID, and the age of the quotation.
CheckAge(r) ==
    /\ call[r] = "asked"
    /\ call' = [call EXCEPT ![r] = IF Wants[r] \in old THEN "expired" ELSE "valid"]
    /\ UNCHANGED <<total, confirmed, old, database, claim, pc, client, failures, calm>>

\* UPDATE ... WHERE it is pending or confirmed for this order.
Confirm(r) ==
    LET q == Wants[r] IN
    /\ call[r] = "valid"
    /\ IF confirmed[q] \in {None, orderID(r)}
         THEN /\ confirmed' = [confirmed EXCEPT ![q] = orderID(r)]
              /\ call' = [call EXCEPT ![r] = "confirmed"]
         ELSE /\ call' = [call EXCEPT ![r] = "conflict"]
              /\ UNCHANGED confirmed
    /\ UNCHANGED <<total, old, database, claim, pc, client, failures, calm>>

\* A fault: what is not a conflict is taken for a success.
ConfirmUnchecked(r) ==
    /\ pc[r] = "confirm"
    /\ \/ call[r] \in {"confirmed", "expired"} /\ Continue(r, "create")
       \/ call[r] = "conflict" /\ Answer(r, "conflict", None)
    /\ UNCHANGED <<quotation, database, claim, failures, calm>>

\* The answer of the quotation service reaches the order service; only a
\* conflict is told from other refusals.
ConfirmQuotation(r) ==
    /\ pc[r] = "confirm"
    /\ \/ call[r] = "confirmed" /\ Continue(r, "create")
       \/ call[r] = "conflict" /\ Answer(r, "conflict", None)
       \/ call[r] = "expired" /\ Answer(r, "dependency", None)
    /\ UNCHANGED <<quotation, database, claim, failures, calm>>

-----------------------------------------------------------------------------
(***************************************************************************)
(* The order service: Create of the repository.                            *)
(***************************************************************************)
\* A fault: quotient and remainder are swapped.
DepositSwapped(t) == (t % 100) * 70 + ((t \div 100) * 70) \div 100

\* 70 percent of the total, without computing 70 times the total.
Deposit(t) == (t \div 100) * 70 + ((t % 100) * 70) \div 100

\* The order as the request makes it up, from the confirmed quotation.
OrderOf(r) ==
    LET q == Wants[r] IN
    [quotation |-> q, by |-> r,
     customer  |-> IF Asker[r] = None THEN Owner[q] ELSE Asker[r],
     total     |-> total[q],
     deposit   |-> Deposit(total[q]),
     remaining |-> total[q] - Deposit(total[q])]

\* SELECT: if the order is there, the transaction has nothing to do, and the
\* caller is given the order it asked for, not the one that is stored.
SelectOrder(r) ==
    LET o == orders[orderID(r)] IN
    /\ pc[r] = "create"
    /\ IF o = None THEN Continue(r, "insert")
       ELSE IF o.quotation = Wants[r] THEN Answer(r, "created", OrderOf(r))
       ELSE Answer(r, "conflict", None)
    /\ UNCHANGED <<quotation, database, claim, failures, calm>>

\* The committed and the undecided orders that a unique key of r's row meets.
SameKey(r) ==
    {o \in OrderIds : orders[o] # None
        /\ (o = orderID(r) \/ orders[o].quotation = Wants[r])}

Undecided(r) == \E o \in OrderIds : claim[o] \in About(Wants[r])

\* INSERT INTO orders waits for an undecided row with one of its keys.  Only
\* the violation of the quotation's key is taken for a conflict; when the id
\* is there as well, it is the primary key that is reported.
InsertOrder(r) ==
    /\ pc[r] = "insert"
    /\ ~Undecided(r)
    /\ IF SameKey(r) = {}
         THEN /\ claim' = [claim EXCEPT ![orderID(r)] = r]
              /\ Continue(r, "commit")
         ELSE /\ Answer(r, IF orderID(r) \in SameKey(r) THEN "error" ELSE "conflict",
                        None)
              /\ UNCHANGED claim
    /\ UNCHANGED <<quotation, database, failures, calm>>

Release(R) == claim' = [o \in OrderIds |-> IF claim[o] \in R THEN None ELSE claim[o]]

\* What the transaction of r writes: the order, its item and timeline entry,
\* and its event.
Effects(r) ==
    /\ orders' = [orders EXCEPT ![orderID(r)] = OrderOf(r)]
    /\ outbox' = outbox \cup {r}

CommitOrder(r) ==
    /\ pc[r] = "commit"
    /\ Effects(r) /\ Release({r})
    /\ Answer(r, "created", OrderOf(r))
    /\ UNCHANGED <<quotation, failures, calm>>

\* A fault: the answer does not wait for the server's.
CommitOptimistic(r) ==
    /\ pc[r] = "commit"
    /\ Fails({r})
    /\ pc' = [pc EXCEPT ![r] = "indoubt"]
    /\ reply' = [reply EXCEPT ![r] = "created"]
    /\ answer' = [answer EXCEPT ![r] = OrderOf(r)]
    /\ UNCHANGED <<quotation, database, claim>>

\* The error of COMMIT leaves open what the server does with it.
CommitUnacknowledged(r) ==
    /\ pc[r] = "commit"
    /\ Fails({r})
    /\ pc' = [pc EXCEPT ![r] = "indoubt"]
    /\ reply' = [reply EXCEPT ![r] = "error"]
    /\ UNCHANGED <<quotation, database, claim, answer>>

\* A fault: a transaction that is not committed keeps its locks.
DecideHolding(r) ==
    /\ pc[r] = "indoubt"
    /\ \/ Effects(r) /\ Release({r})
       \/ UNCHANGED <<database, claim>>
    /\ pc' = [pc EXCEPT ![r] = "done"]
    /\ UNCHANGED <<quotation, client, failures, calm>>

Decide(r) ==
    /\ pc[r] = "indoubt"
    /\ Effects(r) \/ UNCHANGED database
    /\ Release({r})
    /\ pc' = [pc EXCEPT ![r] = "done"]
    /\ UNCHANGED <<quotation, client, failures, calm>>

\* A fault: the event is not in the transaction.
StatementFailsAfterEvent(r) ==
    /\ pc[r] = "commit"
    /\ Fails({r})
    /\ Release({r})
    /\ Answer(r, "error", None)
    /\ outbox' = outbox \cup {r}
    /\ UNCHANGED <<quotation, orders>>

\* Another statement fails, and the transaction is rolled back.
StatementFails(r) ==
    /\ pc[r] \in {"create", "insert", "commit"}
    /\ Fails({r})
    /\ Release({r})
    /\ Answer(r, "error", None)
    /\ UNCHANGED <<quotation, database>>

\* The order service stops; a COMMIT it has sent may still be carried out.
Crash ==
    LET Lost == {r \in Active : pc[r] # "indoubt"} IN
    /\ Lost # {}
    /\ Fails(Lost)
    /\ reply' = [r \in Requests |-> IF r \in Lost THEN "lost" ELSE reply[r]]
    /\ pc' = [r \in Requests |->
           IF r \notin Lost THEN pc[r]
           ELSE IF pc[r] = "commit" THEN "indoubt" ELSE "done"]
    /\ UNCHANGED <<quotation, database, claim, answer>>

-----------------------------------------------------------------------------
Step(r) ==
    \/ Start(r) \/ GetQuotation(r) \/ DependencyFails(r)
    \/ CheckAge(r) \/ Confirm(r) \/ ConfirmQuotation(r)
    \/ SelectOrder(r) \/ InsertOrder(r)
    \/ CommitOrder(r) \/ CommitUnacknowledged(r) \/ Decide(r)
    \/ StatementFails(r)

Next ==
    \/ \E q \in Quotations : Offer(q) \/ GrowsOld(q)
    \/ \E r \in Requests : Step(r)
    \/ Crash

Spec == Init /\ [][Next]_vars

-----------------------------------------------------------------------------
\* The orders of a quotation.
OrdersOf(q) == {o \in OrderIds : orders[o] # None /\ orders[o].quotation = q}

\* The saga holds together: a quotation has one order at most, of the request
\* that wrote the one order.created event about it; the quotation is confirmed
\* for this order and belongs to its customer, and the deposit is 70 percent of
\* its total, rounded down, and the rest is the rest.
OrderIsSound ==
    \A q \in Quotations :
        /\ Cardinality(OrdersOf(q)) <= 1
        /\ outbox \cap About(q) = {orders[o].by : o \in OrdersOf(q)}
        /\ \A o \in OrdersOf(q) :
             /\ confirmed[q] = o
             /\ orders[o].customer = Owner[q]
             /\ orders[o].total = total[q]
             /\ orders[o].deposit = (70 * total[q]) \div 100
             /\ orders[o].deposit + orders[o].remaining = total[q]

\* A customer who gets a 201 has an order, whoever of several requests wrote
\* it, and its amounts are those of the answer.
CreatedIsStored ==
    \A r \in Requests : reply[r] = "created" =>
        \E o \in OrderIds :
            /\ orders[o] # None
            /\ orders[o].quotation = Wants[r]
            /\ orders[o].customer = answer[r].customer
            /\ orders[o].total = answer[r].total
            /\ orders[o].deposit = answer[r].deposit
            /\ orders[o].remaining = answer[r].remaining

\* A request of the owner that nothing interferes with (no other request about
\* the quotation, no failure, the quotation does not grow old) is answered
\* with the order, whatever became of the requests before it: confirmed but
\* not inserted, inserted but not acknowledged, given up while the quotation
\* service went on ("Partial failure is retryable",
\* docs/SEQUENCE_ALIGNMENT_REFACTOR_PLAN.md:204).
RetryIsCreated ==
    \A r \in calm : reply[r] \in {None, "created"}

-----------------------------------------------------------------------------
(***************************************************************************)
(* Handlers go on, and the server decides every COMMIT; nobody need make   *)
(* a request, and nothing need fail.                                       *)
(***************************************************************************)
Work(r) ==
    \/ GetQuotation(r) \/ CheckAge(r) \/ Confirm(r) \/ ConfirmQuotation(r)
    \/ SelectOrder(r) \/ InsertOrder(r) \/ CommitOrder(r) \/ Decide(r)

Fairness == \A r \in Requests : WF_vars(Work(r))

FairSpec == Spec /\ Fairness

\* No request waits for ever, for the quotation service or for the unique keys
\* of another's uncommitted order: a request is made once, so that those at
\* work are all done again and again only if each of them is done at last.
EveryRequestEnds == []<>(Active = {})

-----------------------------------------------------------------------------
\* The two services implement the placement: reserved is confirmed and not
\* yet ordered, told are those that got a 201.
Ordered(q) == OrdersOf(q) # {}

placementState ==
    [q \in Quotations |->
        IF Ordered(q) THEN "ordered"
        ELSE IF confirmed[q] # None THEN "reserved"
        ELSE IF total[q] # None THEN "offered" ELSE "none"]

placementTerms ==
    [q \in Quotations |->
        IF Ordered(q) THEN orders[CHOOSE o \in OrdersOf(q) : TRUE].total ELSE None]

toldOfOrder == {r \in Requests : reply[r] = "created"}

Promise == INSTANCE Placement
    WITH Terms <- Totals, state <- placementState, offer <- total,
         terms <- placementTerms, told <- toldOfOrder

ImplementsPlacement == Promise!Spec
=============================================================================
