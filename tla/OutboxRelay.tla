---------------------------- MODULE OutboxRelay ----------------------------
(***************************************************************************)
(* The transactional outbox of a producer service and its worker:          *)
(*   pkg/kafka/outbox.go, pkg/kafka/producer.go                            *)
(*   FetchUnpublished, MarkPublished, MarkFailed of the repositories       *)
(*                                                                         *)
(* Request handlers and consumers stamp a row with their clock and insert  *)
(* it when their transaction commits.  One goroutine fetches the oldest    *)
(* unpublished rows, publishes them one by one, and marks each row after   *)
(* the broker has acknowledged it.  A publish or a mark that ends in an    *)
(* error may have happened all the same; the process may stop anywhere.    *)
(*                                                                         *)
(* attempts and last_error are written and never read by the code: they    *)
(* are left out, and with them MarkFailed, whose own failure is ignored.   *)
(***************************************************************************)
EXTENDS Naturals, Sequences, FiniteSets

CONSTANTS
    Rows,       \* outbox_events.id
    Streams,    \* Kafka partitions
    Stream,     \* the partition that topic and key of a row lead to
    Refused,    \* rows whose record the broker always refuses
    Limit,      \* the size of a batch
    MaxFaults   \* bound: failures of single calls and stops of the process

ASSUME RelayAssumption ==
    /\ Stream \in [Rows -> Streams]
    /\ Refused \subseteq Rows
    /\ Limit \in Nat \ {0}
    /\ MaxFaults \in Nat

VARIABLES
    clock,      \* the time of the process
    created,    \* outbox_events.created_at, 0 before the handler has run
    visible,    \* the rows of committed transactions
    published,  \* the rows whose published_at is set
    log,        \* Kafka: the records of each partition
    batch,      \* rows of the fetched batch the worker is not through with
    pc,         \* where the worker is
    faults,     \* how many calls have failed and how often the process stopped
    earlier,    \* history: the rows that were visible when a row was stamped
    failed      \* history: the rows a publish of which has failed

tables  == <<created, visible, published>>
worker  == <<batch, pc>>
history == <<earlier, failed>>
vars    == <<clock, tables, log, worker, faults, history>>

TypeOK ==
    /\ clock \in Nat
    /\ created \in [Rows -> Nat]
    /\ visible \subseteq Rows
    /\ published \subseteq visible
    /\ log \in [Streams -> Seq(Rows)]
    /\ batch \subseteq visible
    /\ pc \in {"idle", "publish", "mark"}
    /\ faults \in 0..MaxFaults
    /\ earlier \in [Rows -> SUBSET visible]
    /\ failed \subseteq visible

Init ==
    /\ clock = 0
    /\ created = [r \in Rows |-> 0]
    /\ visible = {}
    /\ published = {}
    /\ log = [x \in Streams |-> <<>>]
    /\ batch = {}
    /\ pc = "idle"
    /\ faults = 0
    /\ earlier = [r \in Rows |-> {}]
    /\ failed = {}

-----------------------------------------------------------------------------
\* A handler reads the clock, which has moved on since the last reading.
Stamp(r) ==
    /\ created[r] = 0
    /\ clock' = clock + 1
    /\ created' = [created EXCEPT ![r] = clock + 1]
    /\ earlier' = [earlier EXCEPT ![r] = visible]
    /\ UNCHANGED <<visible, published, log, worker, faults, failed>>

\* Its transaction commits, perhaps after that of a handler with a later
\* time; if it never does, there is no row.
Insert(r) ==
    /\ created[r] # 0
    /\ r \notin visible
    /\ visible' = visible \cup {r}
    /\ UNCHANGED <<clock, created, published, log, worker, faults, history>>

-----------------------------------------------------------------------------
\* The row of a set the loop comes to first.
IsOldest(r, S) == r \in S /\ \A s \in S : created[r] <= created[s]

\* Three faults: rows that are published already are fetched again, the
\* oldest are not preferred, and rows are read before they are committed.
FetchedAgain(S) ==
    /\ S \subseteq visible
    /\ Cardinality(S) <= Limit
    /\ Cardinality(S) < Limit => S = visible
    /\ \A r \in S, s \in visible \ S : created[r] < created[s]

FetchedInAnyOrder(S) ==
    /\ S \subseteq visible \ published
    /\ Cardinality(S) <= Limit
    /\ Cardinality(S) < Limit => S = visible \ published

FetchedUncommitted(S) ==
    /\ \A r \in S : created[r] # 0 /\ r \notin published
    /\ Cardinality(S) <= Limit

\* WHERE published_at IS NULL ORDER BY created_at LIMIT.
Fetched(S) ==
    /\ S \subseteq visible \ published
    /\ Cardinality(S) <= Limit
    /\ Cardinality(S) < Limit => S = visible \ published
    /\ \A r \in S, s \in (visible \ published) \ S : created[r] < created[s]

\* A tick of the timer.  An error of the query, or no row, changes nothing.
FetchUnpublished ==
    /\ pc = "idle"
    /\ \E S \in SUBSET Rows :
         /\ S # {}
         /\ Fetched(S)
         /\ batch' = S
    /\ pc' = "publish"
    /\ UNCHANGED <<clock, tables, log, faults, history>>

\* The worker is done with row r and goes on with the batch.
Advance(r) ==
    /\ batch' = batch \ {r}
    /\ pc' = IF batch' = {} THEN "idle" ELSE "publish"

\* Two faults: the batch is given up at the first error, and the row is
\* marked as if there had been none.
GiveUp(r) ==
    /\ batch' = {}
    /\ pc' = "idle"

GoOnToMark(r) ==
    /\ pc' = "mark"
    /\ UNCHANGED batch

\* What the loop does after an error of publish: MarkFailed, continue.
AfterError(r) == Advance(r)

Written(r) == log' = [log EXCEPT ![Stream[r]] = Append(@, r)]

Fault ==
    /\ faults < MaxFaults
    /\ faults' = faults + 1

\* Publish returns when the broker has the record.
Publish(r) ==
    /\ pc = "publish"
    /\ IsOldest(r, batch)
    /\ r \notin Refused
    /\ Written(r)
    /\ pc' = "mark"
    /\ UNCHANGED <<clock, tables, batch, faults, history>>

\* The broker refuses the record.
PublishRefused(r) ==
    /\ pc = "publish"
    /\ IsOldest(r, batch)
    /\ r \in Refused
    /\ AfterError(r)
    /\ failed' = failed \cup {r}
    /\ UNCHANGED <<clock, tables, log, faults, earlier>>

\* Publish gives up; an acknowledgement that got lost is an error as well.
PublishError(r) ==
    /\ pc = "publish"
    /\ IsOldest(r, batch)
    /\ r \notin Refused
    /\ Fault
    /\ Written(r) \/ UNCHANGED log
    /\ AfterError(r)
    /\ failed' = failed \cup {r}
    /\ UNCHANGED <<clock, tables, earlier>>

\* UPDATE ... SET published_at.
MarkPublished(r) ==
    /\ pc = "mark"
    /\ IsOldest(r, batch)
    /\ published' = published \cup {r}
    /\ Advance(r)
    /\ UNCHANGED <<clock, created, visible, log, faults, history>>

MarkError(r) ==
    /\ pc = "mark"
    /\ IsOldest(r, batch)
    /\ Fault
    /\ published' = published \cup {r} \/ UNCHANGED published
    /\ Advance(r)
    /\ UNCHANGED <<clock, created, visible, log, history>>

\* The process stops; the call it was in may still take effect.
Crash ==
    /\ Fault
    /\ \/ UNCHANGED <<log, published>>
       \/ \E r \in batch \ Refused :
            pc = "publish" /\ IsOldest(r, batch) /\ Written(r)
              /\ UNCHANGED published
       \/ \E r \in batch :
            pc = "mark" /\ IsOldest(r, batch) /\ UNCHANGED log
              /\ published' = published \cup {r}
    /\ batch' = {}
    /\ pc' = "idle"
    /\ UNCHANGED <<clock, created, visible, history>>

-----------------------------------------------------------------------------
Next ==
    \/ FetchUnpublished
    \/ Crash
    \/ \E r \in Rows :
         \/ Stamp(r) \/ Insert(r)
         \/ Publish(r) \/ PublishRefused(r) \/ PublishError(r)
         \/ MarkPublished(r) \/ MarkError(r)

Spec == Init /\ [][Next]_vars

-----------------------------------------------------------------------------
\* The records of row r.
Delivered(r) == {i \in DOMAIN log[Stream[r]] : log[Stream[r]][i] = r}

\* A row is marked only after its record was acknowledged, whatever fails or
\* stops, so that no event of a committed transaction is forgotten
\* (docs/kafka-events.md:15, architecture.md:103).
MarkedIsDelivered == \A r \in published : Delivered(r) # {}

\* The events of one order reach the topic in the order in which they came
\* about: if the transaction of r had committed before s was stamped, the
\* first record of r precedes every record of s, unless a publish of r
\* failed.  It rests on ORDER BY created_at and on the worker being alone,
\* and carries through stops, lost acknowledgements and truncated batches.
DeliveredInOrder ==
    \A s \in Rows : \A r \in earlier[s] \ failed :
        Stream[r] = Stream[s] /\ Delivered(s) # {} =>
            \E i \in Delivered(r) : \A j \in Delivered(s) : i < j

\* Events are repeated only for a reason (architecture.md:104): the records in
\* excess of the events are no more than the failures and stops so far.
RepeatsHaveACause ==
    \A x \in Streams :
        Len(log[x]) <=
            Cardinality({log[x][i] : i \in DOMAIN log[x]}) + faults

-----------------------------------------------------------------------------
(***************************************************************************)
(* The worker implements the channel.  The ticker never stops, calls end,  *)
(* and MaxFaults says that errors and stops do too.  A row that is always  *)
(* refused is fetched again and again; as long as there are fewer of them  *)
(* than a batch holds, they do not keep others from being delivered.       *)
(***************************************************************************)
Fairness ==
    /\ WF_vars(FetchUnpublished)
    /\ \A r \in Rows :
         /\ WF_vars(Publish(r) \/ PublishRefused(r))
         /\ WF_vars(MarkPublished(r))

FairSpec == Spec /\ Fairness

Channel == INSTANCE EventChannel
    WITH accepted <- visible, Deliverable <- Rows \ Refused

ImplementsChannel == Channel!Spec
=============================================================================
