-------------------------- MODULE PaymentService --------------------------
(***************************************************************************)
(* The payment service under concurrent requests:                          *)
(*   internal/payment/application/service.go                               *)
(*   internal/payment/adapters/postgres/repository.go                      *)
(*   internal/payment/adapters/http/handler.go                             *)
(*                                                                         *)
(* Every HTTP request is a goroutine of its own.  A create request looks   *)
(* for an existing payment, reads the order over HTTP and inserts a row,   *)
(* and nothing joins the three.  A request that reports money (a callback  *)
(* of the provider, or the mock endpoint of a demo) finds the payment and  *)
(* then runs a Read Committed transaction with a row lock and, for a       *)
(* callback, a unique key on the provider's transaction.  Every statement  *)
(* is an action; any of them may fail, a COMMIT may go unacknowledged, and *)
(* the process may stop.                                                   *)
(*                                                                         *)
(* The id a request would mint (of the payment it inserts, or of the event *)
(* it writes) is unique to it, so the request stands for that id.          *)
(***************************************************************************)
EXTENDS OrderStatus, FiniteSets

CONSTANTS
    Orders,
    Creates,        \* POST .../deposit and .../remaining-balance requests
    Callbacks,      \* deliveries of the provider's callback
    Mocks,          \* POST .../mock-success requests
    Slot,           \* the <<order, type>> a create request asks for
    Names,          \* the payment a callback or mock request refers to
    Transfer,       \* the provider's transaction a callback reports
    Received,       \* the amount it reports
    Transfers,
    Amount,         \* what the order asks for per type, fixed at its creation
    OrderPath,      \* statuses the orders go through in this instance
    MaxFailures,    \* bound: failures of all kinds
    None

Types    == {"deposit", "remaining"}
Slots    == Orders \X Types
Payers   == Callbacks \cup Mocks
Requests == Creates \cup Payers

ASSUME RequestAssumption ==
    /\ Creates \cap Payers = {} /\ Callbacks \cap Mocks = {}
    /\ Slot \in [Creates -> Slots]
    /\ Names \in [Payers -> Creates]
    /\ Transfer \in [Callbacks -> Transfers]

ASSUME AmountAssumption ==
    /\ Received \in [Callbacks -> Nat]
    /\ Amount \in [Slots -> Nat]

ASSUME PathAssumption == OrderPath \subseteq Status /\ MaxFailures \in Nat

Replies == {"ok", "notFound", "invalid", "state", "conflict", "error", "lost"}

ASSUME NoneAssumption ==
    None \notin Requests \cup Status \cup Replies \cup {"PENDING", "SUCCEEDED"}

VARIABLES
    provider,   \* PAYMENT_PROVIDER, read when the process starts
    order,      \* the order service's status of each order, None: no order
    row,        \* status of the payment a create request inserted, or None
    recorded,   \* provider_callbacks: the payment of each transfer, or None
    outbox,     \* the requests whose payment-succeeded event was inserted
    rowlock,    \* the request whose transaction holds a payment's row
    claim,      \* the request that has inserted a transfer but not committed
    seen,       \* the payment status its transaction read under the lock
    pc,         \* where a request's goroutine is
    reply,      \* the answer of a request, None while there is none
    answer,     \* the payment it carries
    failures    \* how many failures there have been

database == <<row, recorded, outbox>>
locks    == <<rowlock, claim>>
client   == <<reply, answer>>
vars     == <<provider, order, database, locks, seen, pc, client, failures>>

TypeOK ==
    /\ provider \in {"mock", "sepay"}
    /\ order \in [Orders -> Status \cup {None}]
    /\ row \in [Creates -> {None, "PENDING", "SUCCEEDED"}]
    /\ recorded \in [Transfers -> Creates \cup {None}]
    /\ outbox \subseteq Payers
    /\ rowlock \in [Creates -> Payers \cup {None}]
    /\ claim \in [Transfers -> Callbacks \cup {None}]
    /\ seen \in [Payers -> {None, "PENDING", "SUCCEEDED"}]
    /\ pc \in [Requests -> {"new", "summary", "insert", "found", "unseen",
                            "locked", "ready", "indoubt", "done"}]
    /\ reply \in [Requests -> Replies \cup {None}]
    /\ answer \in [Requests -> Creates \cup {None}]
    /\ failures \in 0..MaxFailures

Init ==
    /\ provider \in {"mock", "sepay"}
    /\ order \in [Orders -> {None}]
    /\ row = [p \in Creates |-> None]
    /\ recorded = [t \in Transfers |-> None]
    /\ outbox = {}
    /\ rowlock = [p \in Creates |-> None]
    /\ claim = [t \in Transfers |-> None]
    /\ seen = [r \in Payers |-> None]
    /\ pc = [r \in Requests |-> "new"]
    /\ reply = [r \in Requests |-> None]
    /\ answer = [r \in Requests |-> None]
    /\ failures = 0

\* The order service creates an order or moves it on, along any transitions.
OrderMoves(o) ==
    /\ \E s \in OrderPath :
         /\ IF order[o] = None THEN s = "WAITING_DEPOSIT"
                               ELSE Rank(order[o]) < Rank(s)
         /\ order' = [order EXCEPT ![o] = s]
    /\ UNCHANGED <<provider, database, locks, seen, pc, client, failures>>

-----------------------------------------------------------------------------
\* The handler of r goes on at s, or ends with an answer.
Continue(r, s) == pc' = [pc EXCEPT ![r] = s] /\ UNCHANGED client

Answer(r, a, p) ==
    /\ pc' = [pc EXCEPT ![r] = "done"]
    /\ reply' = [reply EXCEPT ![r] = a]
    /\ answer' = [answer EXCEPT ![r] = p]

\* The transaction of r ends, if it has one.
Release(r) ==
    /\ rowlock' = [p \in Creates |-> IF rowlock[p] = r THEN None ELSE rowlock[p]]
    /\ claim' = [t \in Transfers |-> IF claim[t] = r THEN None ELSE claim[t]]

Fails == failures < MaxFailures /\ failures' = failures + 1

-----------------------------------------------------------------------------
(***************************************************************************)
(* createPayment.                                                          *)
(***************************************************************************)
PaymentsOf(s) == {p \in Creates : Slot[p] = s /\ row[p] # None}

\* FindByOrderIDAndType: an existing payment is returned as it is.
FindExisting(r) ==
    /\ pc[r] = "new"
    /\ IF PaymentsOf(Slot[r]) = {}
         THEN Continue(r, "summary")
         ELSE \E p \in PaymentsOf(Slot[r]) : Answer(r, "ok", p)
    /\ UNCHANGED <<provider, order, database, locks, seen, failures>>

\* GetPaymentSummary and the checks on it; the gateway's transaction is then
\* made up locally.  Nothing keeps the order in the status that was read.
GetPaymentSummary(r) ==
    LET s == Slot[r] IN
    /\ pc[r] = "summary"
    /\ IF order[s[1]] = None
         THEN Answer(r, "notFound", None)
         ELSE IF Amount[s] <= 0 \/ order[s[1]] # Required(s[2])
                THEN Answer(r, "state", None)
                ELSE Continue(r, "insert")
    /\ UNCHANGED <<provider, order, database, locks, seen, failures>>

\* INSERT INTO payments, a transaction of its own.  The partial unique indexes
\* admit one row per order and type, and make the statement wait for an
\* earlier insert that the server has not decided.
SlotUndecided(s) == \E q \in Creates : Slot[q] = s /\ pc[q] = "indoubt"

\* Two faults: the row is inserted without a status, or into a table without
\* its unique indexes.
InsertWithoutStatus(r) ==
    /\ pc[r] = "insert"
    /\ PaymentsOf(Slot[r]) = {}
    /\ row' = [row EXCEPT ![r] = ""]
    /\ Answer(r, "ok", r)
    /\ UNCHANGED <<provider, order, recorded, outbox, locks, seen, failures>>

InsertUnindexed(r) ==
    /\ pc[r] = "insert"
    /\ row' = [row EXCEPT ![r] = "PENDING"]
    /\ Answer(r, "ok", r)
    /\ UNCHANGED <<provider, order, recorded, outbox, locks, seen, failures>>

Insert(r) ==
    /\ pc[r] = "insert"
    /\ ~SlotUndecided(Slot[r])
    /\ IF PaymentsOf(Slot[r]) = {}
         THEN /\ row' = [row EXCEPT ![r] = "PENDING"]
              /\ Answer(r, "ok", r)
         ELSE /\ Answer(r, "conflict", None)
              /\ UNCHANGED row
    /\ UNCHANGED <<provider, order, recorded, outbox, locks, seen, failures>>

-----------------------------------------------------------------------------
(***************************************************************************)
(* ProcessSePayWebhook and MarkSucceeded.  The callback routes and the     *)
(* mock route are never registered together.                               *)
(***************************************************************************)
Registered(r) == IF r \in Mocks THEN provider = "mock" ELSE provider = "sepay"

\* A fault: the amount of a transfer is not compared with the payment's.
FindPaymentOfAnyAmount(r) ==
    LET p == Names[r] IN
    /\ pc[r] = "new"
    /\ Registered(r)
    /\ IF row[p] = None
         THEN Answer(r, "notFound", None)
         ELSE Continue(r, IF r \in Mocks THEN "unseen" ELSE "found")
    /\ UNCHANGED <<provider, order, database, locks, seen, failures>>

\* FindByProviderReference or FindByID, outside any transaction.
FindPayment(r) ==
    LET p == Names[r] IN
    /\ pc[r] = "new"
    /\ Registered(r)
    /\ IF row[p] = None
         THEN Answer(r, "notFound", None)
         ELSE IF r \in Mocks /\ row[p] = "SUCCEEDED"
                THEN Answer(r, "ok", p)
                ELSE IF r \in Callbacks /\ Received[r] # Amount[Slot[p]]
                       THEN Answer(r, "invalid", None)
                       ELSE Continue(r, IF r \in Mocks THEN "unseen" ELSE "found")
    /\ UNCHANGED <<provider, order, database, locks, seen, failures>>

\* SELECT payment_id FROM provider_callbacks: a transfer that is on record is
\* answered from what is stored.
ReadCallback(r) ==
    LET q == recorded[Transfer[r]] IN
    /\ pc[r] = "found"
    /\ IF q = None
         THEN Continue(r, "unseen")
         ELSE IF q = Names[r] THEN Answer(r, "ok", q)
                              ELSE Answer(r, "conflict", None)
    /\ UNCHANGED <<provider, order, database, locks, seen, failures>>

\* A fault: the payment is read without FOR UPDATE.
ReadPayment(r) ==
    /\ pc[r] = "unseen"
    /\ seen' = [seen EXCEPT ![r] = row[Names[r]]]
    /\ Continue(r, IF r \in Mocks THEN "ready" ELSE "locked")
    /\ UNCHANGED <<provider, order, database, locks, failures>>

\* SELECT ... FROM payments ... FOR UPDATE.
LockPayment(r) ==
    LET p == Names[r] IN
    /\ pc[r] = "unseen"
    /\ rowlock[p] = None
    /\ rowlock' = [rowlock EXCEPT ![p] = r]
    /\ seen' = [seen EXCEPT ![r] = row[p]]
    /\ Continue(r, IF r \in Mocks THEN "ready" ELSE "locked")
    /\ UNCHANGED <<provider, order, database, claim, failures>>

\* INSERT INTO provider_callbacks waits for another transaction that has
\* inserted the transfer; once it is on record the insert is refused, and the
\* error is not one the handler knows.
RecordCallback(r) ==
    LET t == Transfer[r] IN
    /\ pc[r] = "locked"
    /\ claim[t] = None
    /\ IF recorded[t] = None
         THEN /\ claim' = [claim EXCEPT ![t] = r]
              /\ Continue(r, "ready")
              /\ UNCHANGED rowlock
         ELSE Release(r) /\ Answer(r, "error", None)
    /\ UNCHANGED <<provider, order, database, seen, failures>>

\* A fault: the event is written whether or not the status changes.
EffectsAlways(r) ==
    LET p == Names[r] IN
    /\ recorded' = IF r \in Callbacks THEN [recorded EXCEPT ![Transfer[r]] = p]
                                      ELSE recorded
    /\ row' = [row EXCEPT ![p] = "SUCCEEDED"]
    /\ outbox' = outbox \cup {r}

\* What the transaction of r leaves behind: the transfer is on record, and a
\* payment that had not succeeded has, with its event in the outbox.
Effects(r) ==
    LET p == Names[r] IN
    /\ recorded' = IF r \in Callbacks THEN [recorded EXCEPT ![Transfer[r]] = p]
                                      ELSE recorded
    /\ IF seen[r] = "SUCCEEDED"
         THEN UNCHANGED <<row, outbox>>
         ELSE /\ row' = [row EXCEPT ![p] = "SUCCEEDED"]
              /\ outbox' = outbox \cup {r}

Commit(r) ==
    /\ pc[r] = "ready"
    /\ Effects(r)
    /\ Release(r)
    /\ Answer(r, "ok", Names[r])
    /\ UNCHANGED <<provider, order, seen, failures>>

-----------------------------------------------------------------------------
(***************************************************************************)
(* Failures.                                                               *)
(***************************************************************************)
Running(r) == pc[r] \notin {"new", "indoubt", "done"}

\* A fault: the handler returns without rolling back.
StatementErrorWithoutRollback(r) ==
    /\ Fails
    /\ Running(r)
    /\ Answer(r, "error", None)
    /\ UNCHANGED <<provider, order, database, locks, seen>>

\* A statement, the order service or the connection fails: the transaction is
\* rolled back and the client gets a 5xx.
StatementError(r) ==
    /\ Fails
    /\ Running(r)
    /\ Release(r)
    /\ Answer(r, "error", None)
    /\ UNCHANGED <<provider, order, database, seen>>

\* A fault: the error of COMMIT is dropped.
CommitErrorIgnored(r) ==
    /\ Fails
    /\ r \in Payers /\ pc[r] = "ready"
    /\ pc' = [pc EXCEPT ![r] = "indoubt"]
    /\ reply' = [reply EXCEPT ![r] = "ok"]
    /\ UNCHANGED <<provider, order, database, locks, seen, answer>>

\* COMMIT (or the lone INSERT of a payment) is sent but not acknowledged: the
\* client gets a 500, the server has yet to decide and keeps the locks.
CommitUnacknowledged(r) ==
    /\ Fails
    /\ IF r \in Creates
         THEN /\ pc[r] = "insert"
              /\ ~SlotUndecided(Slot[r])
              /\ PaymentsOf(Slot[r]) = {}
         ELSE pc[r] = "ready"
    /\ pc' = [pc EXCEPT ![r] = "indoubt"]
    /\ reply' = [reply EXCEPT ![r] = "error"]
    /\ UNCHANGED <<provider, order, database, locks, seen, answer>>

ServerCommits(r) ==
    /\ pc[r] = "indoubt"
    /\ IF r \in Creates
         THEN /\ row' = [row EXCEPT ![r] = "PENDING"]
              /\ UNCHANGED <<recorded, outbox>>
         ELSE Effects(r)
    /\ Release(r)
    /\ Continue(r, "done")
    /\ UNCHANGED <<provider, order, seen, failures>>

ServerAborts(r) ==
    /\ pc[r] = "indoubt"
    /\ Release(r)
    /\ Continue(r, "done")
    /\ UNCHANGED <<provider, order, database, seen, failures>>

\* The process stops: every request under way is lost and its transaction
\* rolled back.
Crash ==
    /\ Fails
    /\ pc' = [r \in Requests |-> IF Running(r) THEN "done" ELSE pc[r]]
    /\ reply' = [r \in Requests |-> IF Running(r) THEN "lost" ELSE reply[r]]
    /\ rowlock' = [p \in Creates |->
                     IF rowlock[p] # None /\ Running(rowlock[p]) THEN None
                                                                 ELSE rowlock[p]]
    /\ claim' = [t \in Transfers |->
                   IF claim[t] # None /\ Running(claim[t]) THEN None ELSE claim[t]]
    /\ UNCHANGED <<provider, order, database, seen, answer>>

-----------------------------------------------------------------------------
Create(r) == FindExisting(r) \/ GetPaymentSummary(r) \/ Insert(r)

Pay(r) == FindPayment(r) \/ LockPayment(r) \/ Commit(r)

Deduplicate(r) == ReadCallback(r) \/ RecordCallback(r)

Next ==
    \/ \E o \in Orders : OrderMoves(o)
    \/ \E r \in Creates : Create(r)
    \/ \E r \in Payers : Pay(r)
    \/ \E r \in Callbacks : Deduplicate(r)
    \/ \E r \in Requests : \/ StatementError(r) \/ CommitUnacknowledged(r)
                           \/ ServerCommits(r) \/ ServerAborts(r)
    \/ Crash

Spec == Init /\ [][Next]_vars

-----------------------------------------------------------------------------
(***************************************************************************)
(* Safety.                                                                 *)
(***************************************************************************)

\* However callbacks, repeats and mock requests interleave, a payment that
\* succeeded has exactly one event in the outbox, one that has not has none,
\* and the event was written for the full amount.
OneSuccessEvent ==
    /\ \A p \in Creates :
          row[p] = "SUCCEEDED" <=> \E r \in outbox : Names[r] = p
    /\ \A r, q \in outbox : Names[r] = Names[q] => r = q
    /\ \A r \in outbox \cap Callbacks : Received[r] = Amount[Slot[Names[r]]]

\* A provider that is told its transfer was accepted will not report it again:
\* by then the payment has succeeded and the transfer is on record for it.
AcknowledgedIsPaid ==
    /\ \A r \in Payers : reply[r] = "ok" =>
          /\ row[Names[r]] = "SUCCEEDED"
          /\ r \in Callbacks => recorded[Transfer[r]] = Names[r]
    /\ \A t \in Transfers : recorded[t] # None => row[recorded[t]] = "SUCCEEDED"

\* All clients that are given a payment for an order are given the same one,
\* and it exists.
OnePayment ==
    /\ \A p, q \in Creates :
          row[p] # None /\ row[q] # None /\ Slot[p] = Slot[q] => p = q
    /\ \A r \in Creates : reply[r] = "ok" =>
          /\ answer[r] \in Creates
          /\ row[answer[r]] # None /\ Slot[answer[r]] = Slot[r]

-----------------------------------------------------------------------------
(***************************************************************************)
(* Refinement.                                                             *)
(***************************************************************************)
LedgerSlot ==
    [s \in Slots |-> LET Of(p) == row[p] # None /\ Slot[p] = s IN
                     IF \E p \in Creates : Of(p)
                       THEN row[CHOOSE p \in Creates : Of(p)] ELSE None]

LedgerEvents ==
    [s \in Slots |-> Cardinality({r \in outbox : Slot[Names[r]] = s})]

Ledger == INSTANCE PaymentLedger WITH slot <- LedgerSlot, events <- LedgerEvents

ImplementsLedger == Ledger!Spec

-----------------------------------------------------------------------------
(***************************************************************************)
(* Liveness.  As long as a request that has begun can go on, or the server *)
(* can decide a transaction whose client is gone, one of them does.  That  *)
(* every one of them does, as goroutines and the queues of PostgreSQL see  *)
(* to, is more than EveryRequestEnds needs.                                *)
(***************************************************************************)
GoesOn(r) ==
    /\ pc[r] \notin {"new", "done"}
    /\ \/ r \in Creates /\ Create(r)
       \/ r \in Payers /\ Pay(r)
       \/ r \in Callbacks /\ Deduplicate(r)
       \/ ServerCommits(r) \/ ServerAborts(r)

Fairness == WF_vars(\E r \in Requests : GoesOn(r))

FairSpec == Spec /\ Fairness

\* No request waits for ever on a row or a key that another one holds: once no
\* more requests arrive, every one that was begun has ended.
EveryRequestEnds == <>[](\A r \in Requests : pc[r] \in {"new", "done"})

-----------------------------------------------------------------------------
(***************************************************************************)
(* What the end-to-end tests say of concurrent repeats.                    *)
(***************************************************************************)

\* A callback that is delivered again gets a 200 (sequence-e2e.ps1:234-235);
\* the only 5xx are those of a failure.
RepeatedCallbackIsOk ==
    \A r \in Callbacks : reply[r] = "error" => failures > 0

\* Concurrent create requests for an order all get the payment
\* (sequence-e2e.ps1:199-200).
ConcurrentCreatesAgree == \A r \in Creates : reply[r] # "conflict"
=============================================================================
