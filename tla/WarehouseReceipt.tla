------------------------- MODULE WarehouseReceipt -------------------------
(***************************************************************************)
(* The warehouse service receiving packages, with the order service:       *)
(*   internal/warehouse/application/service.go (ReceivePackage)            *)
(*   internal/warehouse/adapters/postgres/repository.go                    *)
(*   internal/warehouse/adapters/http/handler.go                           *)
(*                                                                         *)
(* Every POST .../packages/receive is a goroutine: it looks the tracking   *)
(* number up, reads the order over HTTP, and inserts the package and its   *)
(* event in one transaction.  Nothing joins the three, and the order goes  *)
(* on meanwhile.  OrderEvents sees a receipt when it has read its order    *)
(* ("accepted"); its record is published only once its row is committed.   *)
(***************************************************************************)
EXTENDS OrderEvents

CONSTANTS
    TrackingNumbers,    \* after TrimSpace and ToUpper
    Tracking,           \* the number a receipt is scanned with
    MaxFailures         \* bound: failed calls, and stops of the service

\* A request stands for the package and the event it would write: their ids
\* are its own.
Receipts == {e \in Events : EventKind[e] = "package" /\ EventClass[e] = "valid"}

\* 201, 409 PACKAGE_ALREADY_EXISTS, any other 4xx, and a 5xx or none at all.
Answers == {"created", "exists", "refused", "error"}

ASSUME ReceiptAssumption ==
    /\ Tracking \in [Receipts -> TrackingNumbers]
    /\ MaxFailures \in Nat
    /\ None \notin Answers

VARIABLES
    packages,   \* the receipts whose package, and outbox row, is committed
    stage,      \* where the goroutine of a receipt is
    reply,      \* what its client is answered
    failures    \* how many failures there have been

receipts == <<packages, stage, reply, failures>>
allVars  == <<vars, receipts>>

ReceiptInit ==
    /\ Init
    /\ packages = {}
    /\ stage = [r \in Receipts |-> "new"]
    /\ reply = [r \in Receipts |-> None]
    /\ failures = 0

-----------------------------------------------------------------------------
Continue(r, s) == stage' = [stage EXCEPT ![r] = s] /\ UNCHANGED reply

Reply(r, a) ==
    /\ stage' = [stage EXCEPT ![r] = "done"]
    /\ reply' = [reply EXCEPT ![r] = a]

Taken(t) == \E p \in packages : Tracking[p] = t

\* Another transaction has inserted the number and is not decided.
Undecided(t) == \E q \in Receipts : Tracking[q] = t /\ stage[q] \in {"inserted", "indoubt"}

\* The checks of the input, and ExistsBySourceTrackingNumber.
Receive(r) ==
    /\ stage[r] = "new"
    /\ \/ Reply(r, "refused")
       \/ IF Taken(Tracking[r]) THEN Reply(r, "exists") ELSE Continue(r, "summary")
    /\ UNCHANGED <<vars, packages, failures>>

\* The order must be waiting for its purchase; nothing keeps it there.
GetWarehouseSummary(r) ==
    /\ stage[r] = "summary"
    /\ \/ Accept(r) /\ Continue(r, "insert")
       \/ /\ status[EventOrder[r]] # Required("package")
          /\ Reply(r, "refused")
          /\ UNCHANGED vars
    /\ UNCHANGED <<packages, failures>>

\* A fault: the number is not unique in the table, only looked up.
InsertUnindexed(r) ==
    /\ stage[r] = "insert"
    /\ IF Taken(Tracking[r]) THEN Reply(r, "exists") ELSE Continue(r, "inserted")
    /\ UNCHANGED <<vars, packages, failures>>

\* INSERT INTO packages: the unique key makes it wait for a transaction that
\* has inserted the same number.
InsertPackage(r) ==
    /\ stage[r] = "insert"
    /\ ~Undecided(Tracking[r])
    /\ IF Taken(Tracking[r]) THEN Reply(r, "exists") ELSE Continue(r, "inserted")
    /\ UNCHANGED <<vars, packages, failures>>

\* INSERT INTO outbox_events and COMMIT.
CommitReceipt(r) ==
    /\ stage[r] = "inserted"
    /\ packages' = packages \cup {r}
    /\ Reply(r, "created")
    /\ UNCHANGED <<vars, failures>>

-----------------------------------------------------------------------------
AtWork(r) == stage[r] \in {"summary", "insert", "inserted"}

Fails == failures < MaxFailures /\ failures' = failures + 1

\* A statement or both attempts of the HTTP call fail: a 5xx, after a
\* rollback.
ReceiptError(r) ==
    /\ Fails
    /\ stage[r] = "new" \/ AtWork(r)
    /\ Reply(r, "error")
    /\ UNCHANGED <<vars, packages>>

\* COMMIT is not acknowledged: a 500, and the server has yet to decide.
ReceiptUnacknowledged(r) ==
    /\ Fails
    /\ stage[r] = "inserted"
    /\ stage' = [stage EXCEPT ![r] = "indoubt"]
    /\ reply' = [reply EXCEPT ![r] = "error"]
    /\ UNCHANGED <<vars, packages>>

ServerCommitsReceipt(r) ==
    /\ stage[r] = "indoubt"
    /\ packages' = packages \cup {r}
    /\ Continue(r, "done")
    /\ UNCHANGED <<vars, failures>>

ServerAbortsReceipt(r) ==
    /\ stage[r] = "indoubt"
    /\ Continue(r, "done")
    /\ UNCHANGED <<vars, packages, failures>>

\* The warehouse service stops; its outbox worker goes on after the restart.
WarehouseStops ==
    /\ Fails
    /\ stage' = [r \in Receipts |-> IF AtWork(r) THEN "done" ELSE stage[r]]
    /\ reply' = [r \in Receipts |-> IF AtWork(r) THEN "error" ELSE reply[r]]
    /\ UNCHANGED <<vars, packages>>

-----------------------------------------------------------------------------
\* The order service, the other producers, and the outbox of this one.
Elsewhere ==
    /\ \/ \E o \in Orders : Create(o) \/ ServerCommits(o) \/ ServerAborts(o)
       \/ \E o \in Orders, s \in Status : OperatorMove(o, s)
       \/ \E e \in Events \ Receipts : Accept(e)
       \/ \E e \in (Events \ Receipts) \cup packages : Publish(e)
       \/ \E c \in Consumers : Consume(c)
       \/ Crash
    /\ UNCHANGED receipts

ReceiptNext ==
    \/ \E r \in Receipts :
         \/ Receive(r) \/ GetWarehouseSummary(r) \/ InsertPackage(r)
         \/ CommitReceipt(r)
         \/ ReceiptError(r) \/ ReceiptUnacknowledged(r)
         \/ ServerCommitsReceipt(r) \/ ServerAbortsReceipt(r)
    \/ WarehouseStops
    \/ Elsewhere

ReceiptSpec == ReceiptInit /\ [][ReceiptNext]_allVars

-----------------------------------------------------------------------------
\* However scans of one tracking number race, fail and are repeated, it has
\* one package; an order arrives at the warehouse only for a package that is
\* on record; and the clerk can rely on a 201 and on a 409: the package is
\* there.
ReceivedOnce ==
    /\ \A p, q \in packages : Tracking[p] = Tracking[q] => p = q
    /\ processed \cap Receipts \subseteq packages
    /\ \A r \in Receipts : reply[r] = "created" => r \in packages
    /\ \A r \in Receipts : reply[r] = "exists" => Taken(Tracking[r])
=============================================================================
