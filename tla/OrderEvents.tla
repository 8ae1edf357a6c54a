---------------------------- MODULE OrderEvents ----------------------------
(***************************************************************************)
(* The order service as a consumer of Kafka events:                        *)
(*   internal/order/adapters/kafka/consumer.go, warehouse_consumer.go      *)
(*   internal/order/application/service.go (the Handle... functions)       *)
(*   internal/order/adapters/postgres/repository.go (processStatusEvent)   *)
(*                                                                         *)
(* Two goroutines of one process, the payment and the warehouse consumer,  *)
(* take one record at a time and run it through a Read Committed           *)
(* transaction against the order database: look for the event id in        *)
(* processed_events, lock the order row, validate, write, commit; only     *)
(* then is the Kafka offset committed.  Every statement that other actors  *)
(* can interleave with is an action.  The process may stop anywhere, a     *)
(* statement may fail, and a COMMIT may be lost on the wire so that the    *)
(* handler sees an error while the server decides later.                   *)
(*                                                                         *)
(* The producers (payment and warehouse outboxes) are the environment:     *)
(* they may append the record of an accepted event more than once.         *)
(***************************************************************************)
EXTENDS OrderStatus, Sequences, FiniteSets

CONSTANTS
    Orders,         \* order IDs
    Events,         \* event IDs (Envelope.EventID)
    Shards,         \* partition numbers of the two payment topics
    EventOrder,     \* the order an event is about: its aggregate ID and key
    EventKind,      \* which topic / event type it belongs to
    EventClass,     \* what validation makes of its payload, see Classes
    Shard,          \* the partition the key hash sends an order to
    OperatorMoves,  \* statuses an operator may set outside this code
    MaxCopies,      \* bound: records of one event in the log
    MaxCrashes,     \* bound: times the process stops
    Lossy,          \* partitions whose record a poll may return with an error
    None            \* no order, no event, no partition, no status

(***************************************************************************)
(* "valid": accepted by every check.  "malformed": not an envelope, or of  *)
(* an unexpected type.  "invalid": refused by the Handle... function.      *)
(* "mismatch": its amount is not the one stored with the order.            *)
(***************************************************************************)
Classes == {"valid", "malformed", "invalid", "mismatch"}

ASSUME EventAssumption ==
    /\ EventOrder \in [Events -> Orders]
    /\ EventKind \in [Events -> Kinds]
    /\ EventClass \in [Events -> Classes]
    /\ \A e \in Events : EventKind[e] = "package" => EventClass[e] # "mismatch"

ASSUME ParameterAssumption ==
    /\ Shard \in [Orders -> Shards]
    /\ OperatorMoves \subseteq Status
    /\ MaxCopies \in Nat /\ MaxCrashes \in Nat

ASSUME NoneAssumption ==
    /\ None \notin Orders
    /\ None \notin Events
    /\ None \notin Status
    /\ None \notin {"payment", "warehouse"}

-----------------------------------------------------------------------------
Consumers == {"payment", "warehouse"}

\* package.received has one partition, the payment topics one per shard.
Partitions == ({"deposit", "remaining"} \X Shards) \cup ({"package"} \X {0})

PartitionOf(e) == IF EventKind[e] = "package"
                    THEN <<"package", 0>>
                    ELSE <<EventKind[e], Shard[EventOrder[e]]>>

ASSUME LossyAssumption == Lossy \subseteq Partitions

Owner(p) == IF p[1] = "package" THEN "warehouse" ELSE "payment"

VARIABLES
    status,     \* orders.status, None while there is no row
    timeline,   \* tracking_events of an order, in insertion order
    outbox,     \* outbox_events of an order, in insertion order
    processed,  \* processed_events
    lock,       \* the consumer whose transaction holds the order row
    indoubt,    \* the event whose unacknowledged COMMIT holds the order row
    log,        \* Kafka: the records of each partition
    committed,  \* Kafka: the group's committed offset of each partition
    position,   \* the client's fetch position of each partition (in memory)
    pc,         \* where each consumer goroutine is
    at,         \* the partition of the record it has in hand
    current,    \* the status its transaction read under the lock
    accepted,   \* events whose producer has accepted the payment or package
    crashes     \* how often the process has stopped

database == <<status, timeline, outbox, processed>>
locks    == <<lock, indoubt>>
broker   == <<log, committed>>
consumer == <<position, pc, at, current>>
vars     == <<database, locks, broker, consumer, accepted, crashes>>

Rec(c) == log[at[c]][position[at[c]]]

RowFree(o) == lock[o] = None /\ indoubt[o] = None

TypeOK ==
    /\ status \in [Orders -> Status \cup {None}]
    /\ timeline \in [Orders -> Seq([status: Status, event: Events \cup {None}])]
    /\ outbox \in [Orders -> Seq([prev: Status \cup {None}, curr: Status])]
    /\ processed \subseteq Events
    /\ lock \in [Orders -> Consumers \cup {None}]
    /\ indoubt \in [Orders -> Events \cup {None}]
    /\ log \in [Partitions -> Seq(Events)]
    /\ committed \in [Partitions -> Nat]
    /\ position \in [Partitions -> Nat]
    /\ pc \in [Consumers -> {"idle", "polled", "checked", "locked", "handled"}]
    /\ at \in [Consumers -> Partitions \cup {None}]
    /\ current \in [Consumers -> Status \cup {None}]
    /\ accepted \subseteq Events
    /\ crashes \in 0..MaxCrashes

Init ==
    /\ status = [o \in Orders |-> None]
    /\ timeline = [o \in Orders |-> <<>>]
    /\ outbox = [o \in Orders |-> <<>>]
    /\ processed = {}
    /\ lock = [o \in Orders |-> None]
    /\ indoubt = [o \in Orders |-> None]
    /\ log = [p \in Partitions |-> <<>>]
    /\ committed = [p \in Partitions |-> 0]
    /\ position = [p \in Partitions |-> 0]
    /\ pc = [c \in Consumers |-> "idle"]
    /\ at = [c \in Consumers |-> None]
    /\ current = [c \in Consumers |-> None]
    /\ accepted = {}
    /\ crashes = 0

-----------------------------------------------------------------------------
(***************************************************************************)
(* The rest of the system.                                                 *)
(***************************************************************************)

\* A fault: the first timeline entry is written before the status is set.
CreateWithoutStatus(o) ==
    /\ status[o] = None
    /\ status' = [status EXCEPT ![o] = "WAITING_DEPOSIT"]
    /\ timeline' = [timeline EXCEPT ![o] = <<[status |-> None, event |-> None]>>]
    /\ outbox' = [outbox EXCEPT ![o] =
                      <<[prev |-> None, curr |-> "WAITING_DEPOSIT"]>>]
    /\ UNCHANGED <<processed, locks, broker, consumer, accepted, crashes>>

\* Repository.Create commits a new order: the row, its first timeline entry
\* and order.created.v1.  A second Create of the same order changes nothing.
Create(o) ==
    /\ status[o] = None
    /\ status' = [status EXCEPT ![o] = "WAITING_DEPOSIT"]
    /\ timeline' = [timeline EXCEPT ![o] =
                      <<[status |-> "WAITING_DEPOSIT", event |-> None]>>]
    /\ outbox' = [outbox EXCEPT ![o] =
                      <<[prev |-> None, curr |-> "WAITING_DEPOSIT"]>>]
    /\ UNCHANGED <<processed, locks, broker, consumer, accepted, crashes>>

\* The payment or warehouse service accepts a payment or package after it has
\* read the order in the status it requires; there is one payment of a kind
\* per order, but as many packages as tracking numbers.  A record that is not
\* valid comes from somewhere else and needs no order.
Accept(e) ==
    LET o == EventOrder[e] IN
    /\ e \notin accepted
    /\ EventClass[e] = "valid" =>
         /\ status[o] = Required(EventKind[e])
         /\ EventKind[e] # "package" =>
              \A f \in accepted : EventClass[f] = "valid" =>
                 ~(EventOrder[f] = o /\ EventKind[f] = EventKind[e])
    /\ accepted' = accepted \cup {e}
    /\ UNCHANGED <<database, locks, broker, consumer, crashes>>

Copies(e) == {i \in DOMAIN log[PartitionOf(e)] : log[PartitionOf(e)][i] = e}

\* The producer's outbox worker writes the record, perhaps not for the first
\* time: it publishes again whenever it could not mark the row published.
Publish(e) ==
    /\ e \in accepted
    /\ Cardinality(Copies(e)) < MaxCopies
    /\ log' = [log EXCEPT ![PartitionOf(e)] = Append(@, e)]
    /\ UNCHANGED <<database, locks, committed, consumer, accepted, crashes>>

\* An operator moves the order along the state machine with one UPDATE, which
\* waits for the row lock.  No code in the repository does this.
OperatorMove(o, s) ==
    /\ s \in OperatorMoves
    /\ status[o] # None
    /\ RowFree(o)
    /\ CanTransition(status[o], s)
    /\ status' = [status EXCEPT ![o] = s]
    /\ UNCHANGED <<timeline, outbox, processed, locks, broker, consumer,
                   accepted, crashes>>

-----------------------------------------------------------------------------
(***************************************************************************)
(* A consumer goroutine.                                                   *)
(***************************************************************************)

HasNext(p) == position[p] < Len(log[p])

\* PollRecords(ctx, 1) hands out the next record of some partition.  A record
\* that is not an envelope of a known type is skipped on the spot.
Poll(c, p) ==
    /\ pc[c] = "idle"
    /\ Owner(p) = c
    /\ HasNext(p)
    /\ position' = [position EXCEPT ![p] = @ + 1]
    /\ at' = [at EXCEPT ![c] = p]
    /\ pc' = [pc EXCEPT ![c] =
                IF EventClass[log[p][position[p] + 1]] = "malformed"
                  THEN "handled" ELSE "polled"]
    /\ UNCHANGED <<database, locks, broker, current, accepted, crashes>>

\* fetches.Err() is not nil: the loop continues with the next poll, whatever
\* records the same fetches hold.
PollError(c, p) ==
    /\ p \in Lossy
    /\ pc[c] = "idle"
    /\ Owner(p) = c
    /\ HasNext(p)
    /\ position' = [position EXCEPT ![p] = @ + 1]
    /\ UNCHANGED <<database, locks, broker, pc, at, current, accepted, crashes>>

\* The Handle... function refuses the payload: the warehouse consumer skips
\* the record, the payment consumer tries it again.
Refuse(c) ==
    /\ pc[c] = "polled"
    /\ EventClass[Rec(c)] = "invalid"
    /\ c = "warehouse"
    /\ pc' = [pc EXCEPT ![c] = "handled"]
    /\ UNCHANGED <<database, locks, broker, position, at, current, accepted,
                   crashes>>

\* SELECT EXISTS (... processed_events ...), before any lock is taken.
CheckProcessed(c) ==
    /\ pc[c] = "polled"
    /\ EventClass[Rec(c)] # "invalid"
    /\ pc' = [pc EXCEPT ![c] =
                IF Rec(c) \in processed THEN "handled" ELSE "checked"]
    /\ UNCHANGED <<database, locks, broker, position, at, current, accepted,
                   crashes>>

\* A fault: the row is read without FOR UPDATE.
ReadOrder(c) ==
    LET o == EventOrder[Rec(c)] IN
    /\ pc[c] = "checked"
    /\ status[o] # None
    /\ current' = [current EXCEPT ![c] = status[o]]
    /\ pc' = [pc EXCEPT ![c] = "locked"]
    /\ UNCHANGED <<database, locks, broker, position, at, accepted, crashes>>

\* SELECT ... FOR UPDATE waits for the row and reads its latest version.
LockOrder(c) ==
    LET o == EventOrder[Rec(c)] IN
    /\ pc[c] = "checked"
    /\ status[o] # None
    /\ RowFree(o)
    /\ lock' = [lock EXCEPT ![o] = c]
    /\ current' = [current EXCEPT ![c] = status[o]]
    /\ pc' = [pc EXCEPT ![c] = "locked"]
    /\ UNCHANGED <<database, indoubt, broker, position, at, accepted, crashes>>

\* Two faults: one of the checks made under the lock is missing.
AdmissibleInAnyStatus(c) == EventClass[Rec(c)] # "mismatch"

AdmissibleForAnyAmount(c) ==
    CanTransition(current[c], Target(EventKind[Rec(c)]))

\* The checks made under the lock.
Admissible(c) ==
    /\ EventClass[Rec(c)] # "mismatch"
    /\ CanTransition(current[c], Target(EventKind[Rec(c)]))

\* The transaction of c ends and its consumer goes on at s.
EndTransaction(c, s) ==
    /\ lock' = [o \in Orders |-> IF lock[o] = c THEN None ELSE lock[o]]
    /\ current' = [current EXCEPT ![c] = None]
    /\ pc' = [pc EXCEPT ![c] = s]

\* The transaction fails: ErrOrderNotFound, ErrInvalidInput for the amount,
\* ErrInvalidTransition, or a statement or connection error.  Everything is
\* rolled back and the handler is called again after a second.
OrderNotFound(c) ==
    /\ pc[c] = "checked"
    /\ status[EventOrder[Rec(c)]] = None
    /\ EndTransaction(c, "polled")
    /\ UNCHANGED <<database, indoubt, broker, position, at, accepted, crashes>>

\* Two faults: a record that was refused, or that met an error, is skipped.
RejectAndSkip(c) ==
    /\ pc[c] = "locked"
    /\ ~Admissible(c)
    /\ EndTransaction(c, "handled")
    /\ UNCHANGED <<database, indoubt, broker, position, at, accepted, crashes>>

SkipOnError(c) ==
    /\ pc[c] \in {"checked", "locked"}
    /\ EndTransaction(c, "handled")
    /\ UNCHANGED <<database, indoubt, broker, position, at, accepted, crashes>>

Reject(c) ==
    /\ pc[c] = "locked"
    /\ ~Admissible(c)
    /\ EndTransaction(c, "polled")
    /\ UNCHANGED <<database, indoubt, broker, position, at, accepted, crashes>>

StatementError(c) ==
    /\ pc[c] \in {"checked", "locked"}
    /\ EndTransaction(c, "polled")
    /\ UNCHANGED <<database, indoubt, broker, position, at, accepted, crashes>>

\* Two faults: the insert into processed_events or the UPDATE of the order is
\* missing from the transaction.
EffectsUnmarked(e) ==
    LET o == EventOrder[e]
        t == Target(EventKind[e]) IN
    /\ status' = [status EXCEPT ![o] = t]
    /\ timeline' = [timeline EXCEPT ![o] =
                      Append(@, [status |-> t, event |-> e])]
    /\ outbox' = [outbox EXCEPT ![o] =
                    Append(@, [prev |-> Previous(EventKind[e]), curr |-> t])]
    /\ UNCHANGED processed

EffectsWithoutUpdate(e) ==
    LET o == EventOrder[e]
        t == Target(EventKind[e]) IN
    /\ e \notin processed
    /\ timeline' = [timeline EXCEPT ![o] =
                      Append(@, [status |-> t, event |-> e])]
    /\ processed' = processed \cup {e}
    /\ outbox' = [outbox EXCEPT ![o] =
                    Append(@, [prev |-> Previous(EventKind[e]), curr |-> t])]
    /\ UNCHANGED status

\* What the transaction of event e writes: UPDATE orders, and one row each in
\* tracking_events, processed_events (its primary key refuses a second one)
\* and outbox_events.
Effects(e) ==
    LET o == EventOrder[e]
        t == Target(EventKind[e]) IN
    /\ e \notin processed
    /\ status' = [status EXCEPT ![o] = t]
    /\ timeline' = [timeline EXCEPT ![o] =
                      Append(@, [status |-> t, event |-> e])]
    /\ processed' = processed \cup {e}
    /\ outbox' = [outbox EXCEPT ![o] =
                    Append(@, [prev |-> Previous(EventKind[e]), curr |-> t])]

Commit(c) ==
    /\ pc[c] = "locked"
    /\ Admissible(c)
    /\ Effects(Rec(c))
    /\ EndTransaction(c, "handled")
    /\ UNCHANGED <<indoubt, broker, position, at, accepted, crashes>>

\* COMMIT is sent but its answer is not received: the handler retries while
\* the server still holds the row and has yet to decide.
CommitUnacknowledged(c) ==
    LET e == Rec(c) IN
    /\ pc[c] = "locked"
    /\ Admissible(c)
    /\ indoubt' = [indoubt EXCEPT ![EventOrder[e]] = e]
    /\ EndTransaction(c, "polled")
    /\ UNCHANGED <<database, broker, position, at, accepted, crashes>>

\* The server ends a transaction whose client is gone.
ServerCommits(o) ==
    /\ indoubt[o] # None
    /\ Effects(indoubt[o])
    /\ indoubt' = [indoubt EXCEPT ![o] = None]
    /\ UNCHANGED <<lock, broker, consumer, accepted, crashes>>

ServerAborts(o) ==
    /\ indoubt[o] # None
    /\ indoubt' = [indoubt EXCEPT ![o] = None]
    /\ UNCHANGED <<database, lock, broker, consumer, accepted, crashes>>

\* CommitRecords; a failure is logged and the loop goes on.
CommitOffset(c) ==
    /\ pc[c] = "handled"
    /\ \/ committed' = [committed EXCEPT ![at[c]] = position[at[c]]]
       \/ committed' = committed
    /\ pc' = [pc EXCEPT ![c] = "idle"]
    /\ at' = [at EXCEPT ![c] = None]
    /\ UNCHANGED <<database, locks, log, position, current, accepted, crashes>>

\* The process stops and is restarted: open transactions are rolled back, an
\* in-doubt one stays with the server, and fetching resumes at the committed
\* offsets.
Crash ==
    /\ crashes < MaxCrashes
    /\ crashes' = crashes + 1
    /\ lock' = [o \in Orders |-> None]
    /\ position' = committed
    /\ pc' = [c \in Consumers |-> "idle"]
    /\ at' = [c \in Consumers |-> None]
    /\ current' = [c \in Consumers |-> None]
    /\ UNCHANGED <<database, indoubt, broker, accepted>>

-----------------------------------------------------------------------------
Consume(c) ==
    \/ \E p \in Partitions : Poll(c, p) \/ PollError(c, p)
    \/ Refuse(c)
    \/ CheckProcessed(c)
    \/ LockOrder(c)
    \/ OrderNotFound(c)
    \/ Reject(c)
    \/ StatementError(c)
    \/ Commit(c)
    \/ CommitUnacknowledged(c)
    \/ CommitOffset(c)

Next ==
    \/ \E o \in Orders : Create(o) \/ ServerCommits(o) \/ ServerAborts(o)
    \/ \E o \in Orders, s \in Status : OperatorMove(o, s)
    \/ \E e \in Events : Accept(e) \/ Publish(e)
    \/ \E c \in Consumers : Consume(c)
    \/ Crash

Spec == Init /\ [][Next]_vars

-----------------------------------------------------------------------------
(***************************************************************************)
(* Safety.                                                                 *)
(***************************************************************************)

\* A committed offset is never ahead of the work: every record below it was
\* applied, or is one the consumers skip by design.  A stop between the
\* transaction and CommitRecords, a redelivery or a failed offset commit can
\* repeat work but never lose an event (docs/kafka-events.md:17), as long as no
\* poll returns a record together with an error.
Skippable(e) == \/ EventClass[e] = "malformed"
                \/ EventClass[e] = "invalid" /\ EventKind[e] = "package"

NoEventLost ==
    \A p \in Partitions \ Lossy : \A i \in 1..committed[p] :
        log[p][i] \in processed \/ Skippable(log[p][i])

\* However often an event is published, redelivered or retried over an unknown
\* COMMIT, it leaves exactly one timeline row if it is in processed_events and
\* none otherwise, and only valid events leave one (architecture.md:107).
RowsFor(o, e) == {i \in DOMAIN timeline[o] : timeline[o][i].event = e}

ExactlyOnce ==
    /\ \A o \in Orders : \A i \in DOMAIN timeline[o] :
          LET e == timeline[o][i].event IN
          e # None => /\ e \in processed /\ EventClass[e] = "valid"
                      /\ EventOrder[e] = o
                      /\ timeline[o][i].status = Target(EventKind[e])
    /\ \A e \in processed : RowsFor(EventOrder[e], e) # {}
    /\ \A o \in Orders, e \in Events : \A i, j \in RowsFor(o, e) : i = j

\* The customer's timeline only moves forward along the state machine and
\* never shows a step the order has not reached.
TimelineAdvances ==
    \A o \in Orders :
        /\ \A i, j \in DOMAIN timeline[o] :
              i < j => Rank(timeline[o][i].status) < Rank(timeline[o][j].status)
        /\ \A i \in DOMAIN timeline[o] :
              /\ status[o] # None
              /\ Rank(timeline[o][i].status) <= Rank(status[o])

\* processed_events is read before the row is locked, so the answer may be
\* stale by the time the transaction writes.  It is nevertheless right: the
\* state machine has no cycles, so a transition still admissible under the
\* lock cannot have been applied, and the insert never meets its primary key.
InsertNeverConflicts ==
    /\ \A c \in Consumers : pc[c] = "locked" /\ Admissible(c) =>
          Rec(c) \notin processed
    /\ \A o \in Orders : indoubt[o] # None => indoubt[o] \notin processed

\* Every change of an order's status is a transition of the state machine
\* from the status the order really has, although it is decided on a snapshot.
LegalTransition ==
    \A o \in Orders :
        status[o] # None /\ status'[o] # status[o] =>
            CanTransition(status[o], status'[o])

TransitionsAreLegal == [][LegalTransition]_vars

\* A status event names the status its transition really left.  It is built
\* from a constant before the order is read (service.go:157, 180, 208).
TruthfulPrevious ==
    \A o \in Orders :
        status[o] # None /\ Len(outbox'[o]) > Len(outbox[o]) =>
            outbox'[o][Len(outbox'[o])].prev = status[o]

PreviousIsTruthful == [][TruthfulPrevious]_vars

-----------------------------------------------------------------------------
(***************************************************************************)
(* The abstract order: no broker, no locks, no failures.                   *)
(***************************************************************************)
Lifecycle == INSTANCE OrderLifecycle

ImplementsLifecycle == Lifecycle!Spec

-----------------------------------------------------------------------------
(***************************************************************************)
(* Liveness.  The consumer loops and the producers' outbox workers never   *)
(* give up, PostgreSQL queues the waiters of a row and ends a transaction  *)
(* whose client is gone, and the database does not fail for ever.  Nothing *)
(* obliges a customer, a warehouse clerk or an operator.                   *)
(***************************************************************************)
Fairness ==
    /\ \A e \in Events : WF_vars(Publish(e))
    /\ \A o \in Orders : WF_vars(ServerCommits(o) \/ ServerAborts(o))
    /\ \A c \in Consumers :
         /\ WF_vars(\E p \in Partitions : Poll(c, p))
         /\ WF_vars(Refuse(c) \/ CheckProcessed(c))
         /\ SF_vars(LockOrder(c))
         /\ WF_vars(Reject(c) \/ OrderNotFound(c))
         /\ SF_vars(Commit(c))
         /\ WF_vars(CommitOffset(c))

FairSpec == Spec /\ Fairness

\* A payment or package that was accepted eventually moves its order, through
\* any finite number of stops and any failures that end.
AcceptedIsApplied ==
    \A e \in Events :
        (e \in accepted /\ EventClass[e] = "valid") ~> (e \in processed)

\* The reader of docs/api-examples.md:128 polls an order after its package was
\* received until it has arrived at the foreign warehouse; no other order can
\* keep it from getting there.
PackagesArrive ==
    \A e \in Events :
        (/\ e \in accepted
         /\ EventKind[e] = "package" /\ EventClass[e] = "valid")
        ~> (/\ status[EventOrder[e]] # None
            /\ Rank(status[EventOrder[e]]) >= Rank("ARRIVED_FOREIGN_WAREHOUSE"))
=============================================================================
