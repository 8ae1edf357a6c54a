------------------------- MODULE OrderEvents_proofs -------------------------
(***************************************************************************)
(* Proofs about OrderEvents, for any set of orders, events, partitions and *)
(* any number of copies and crashes.                                       *)
(***************************************************************************)
EXTENDS OrderEvents, TLAPS

-----------------------------------------------------------------------------
(***************************************************************************)
(* The order state machine.                                                *)
(***************************************************************************)

\* Every status has a rank.
LEMMA RankType == \A s \in Status : Rank(s) \in Nat
BY DEF Status, Rank

\* A transition strictly increases the rank: the machine has no cycles.
LEMMA TransitionsClimb ==
    ASSUME NEW f \in Status, NEW t \in Status, CanTransition(f, t)
    PROVE  Rank(f) < Rank(t)
<1>1. CASE t = "CANCELLED"
  BY <1>1 DEF CanTransition, Status, Rank
<1>2. CASE t # "CANCELLED"
  BY <1>2 DEF CanTransition, Allowed, Rank
<1> QED BY <1>1, <1>2

\* What an event writes is a status.
LEMMA TargetType ==
    \A k \in Kinds : Target(k) \in Status /\ Previous(k) \in Status
BY DEF Kinds, Target, Previous, Status

\* A partition belongs to one of the two consumers, and an event has one.
LEMMA PartitionType ==
    /\ \A e \in Events : PartitionOf(e) \in Partitions
    /\ \A p \in Partitions : Owner(p) \in Consumers
<1>1. \A e \in Events : PartitionOf(e) \in Partitions
  BY EventAssumption, ParameterAssumption DEF PartitionOf, Partitions, Kinds
<1>2. \A p \in Partitions : Owner(p) \in Consumers
  BY DEF Owner, Consumers
<1> QED BY <1>1, <1>2

-----------------------------------------------------------------------------
(***************************************************************************)
(* Type correctness.                                                       *)
(***************************************************************************)

\* Appending to one component of a function of sequences keeps its type.
LEMMA AppendAtType ==
    ASSUME NEW D, NEW R, NEW F \in [D -> Seq(R)], NEW d \in D, NEW r \in R
    PROVE  [F EXCEPT ![d] = Append(@, r)] \in [D -> Seq(R)]
<1>1. Append(F[d], r) \in Seq(R)
  OBVIOUS
<1> QED BY <1>1

\* What a transaction writes has the types of the tables.
LEMMA EffectsType ==
    ASSUME TypeOK, NEW e \in Events, Effects(e)
    PROVE  /\ status' \in [Orders -> Status \cup {None}]
           /\ timeline' \in [Orders -> Seq([status: Status,
                                            event: Events \cup {None}])]
           /\ outbox' \in [Orders -> Seq([prev: Status \cup {None},
                                          curr: Status])]
           /\ processed' \subseteq Events
<1> DEFINE o == EventOrder[e]
           t == Target(EventKind[e])
<1>1. o \in Orders /\ t \in Status /\ Previous(EventKind[e]) \in Status
  BY EventAssumption, TargetType
<1>2. status' \in [Orders -> Status \cup {None}]
  BY <1>1 DEF TypeOK, Effects
<1>3. timeline' \in [Orders -> Seq([status: Status, event: Events \cup {None}])]
  <2> DEFINE R == [status: Status, event: Events \cup {None}]
             r == [status |-> t, event |-> e]
  <2>1. r \in R /\ timeline \in [Orders -> Seq(R)]
    BY <1>1 DEF TypeOK
  <2>2. timeline' = [timeline EXCEPT ![o] = Append(@, r)]
    BY DEF Effects
  <2>3. o \in Orders
    BY <1>1
  <2> HIDE DEF R, r, o
  <2>4. timeline' \in [Orders -> Seq(R)]
    BY <2>1, <2>2, <2>3, AppendAtType
  <2> QED BY <2>4 DEF R
<1>4. outbox' \in [Orders -> Seq([prev: Status \cup {None}, curr: Status])]
  <2> DEFINE R == [prev: Status \cup {None}, curr: Status]
             r == [prev |-> Previous(EventKind[e]), curr |-> t]
  <2>1. r \in R /\ outbox \in [Orders -> Seq(R)]
    BY <1>1 DEF TypeOK
  <2>2. outbox' = [outbox EXCEPT ![o] = Append(@, r)]
    BY DEF Effects
  <2>3. o \in Orders
    BY <1>1
  <2> HIDE DEF R, r, o
  <2>4. outbox' \in [Orders -> Seq(R)]
    BY <2>1, <2>2, <2>3, AppendAtType
  <2> QED BY <2>4 DEF R
<1>5. processed' \subseteq Events
  BY <1>1 DEF TypeOK, Effects
<1> QED BY <1>2, <1>3, <1>4, <1>5

\* Ending a transaction keeps the types of locks and consumers.
LEMMA EndTransactionType ==
    ASSUME TypeOK, NEW c \in Consumers,
           NEW s \in {"polled", "handled"}, EndTransaction(c, s)
    PROVE  /\ lock' \in [Orders -> Consumers \cup {None}]
           /\ pc' \in [Consumers ->
                         {"idle", "polled", "checked", "locked", "handled"}]
           /\ current' \in [Consumers -> Status \cup {None}]
BY DEF TypeOK, EndTransaction

\* The record in hand is an event.
LEMMA RecType ==
    ASSUME TypeOK, NEW c \in Consumers, at[c] \in Partitions,
           position[at[c]] \in 1..Len(log[at[c]])
    PROVE  /\ Rec(c) \in Events
           /\ EventOrder[Rec(c)] \in Orders
           /\ EventKind[Rec(c)] \in Kinds
           /\ EventClass[Rec(c)] \in Classes
BY EventAssumption DEF TypeOK, Rec

-----------------------------------------------------------------------------
(***************************************************************************)
(* The inductive invariant.                                                *)
(***************************************************************************)

Busy(c) == pc[c] \in {"polled", "checked", "locked"}

\* A consumer that is not idle has a record of one of its partitions in hand.
RecordInv ==
    \A c \in Consumers : pc[c] # "idle" =>
        /\ at[c] \in Partitions
        /\ Owner(at[c]) = c
        /\ position[at[c]] \in 1..Len(log[at[c]])

\* What the checks made so far have established about that record, and that a
\* transaction holding the row knows the order's real status.
ConsumerInv ==
    \A c \in Consumers :
        /\ Busy(c) => EventClass[Rec(c)] # "malformed"
        /\ pc[c] \in {"checked", "locked"} => EventClass[Rec(c)] # "invalid"
        /\ pc[c] = "locked" =>
             /\ lock[EventOrder[Rec(c)]] = c
             /\ indoubt[EventOrder[Rec(c)]] = None
             /\ current[c] = status[EventOrder[Rec(c)]]
             /\ current[c] \in Status

\* An unacknowledged COMMIT that still holds its row was admissible and stays
\* so until the server decides.
IndoubtInv ==
    \A o \in Orders :
        indoubt[o] # None =>
            /\ EventOrder[indoubt[o]] = o
            /\ EventClass[indoubt[o]] = "valid"
            /\ status[o] \in Status
            /\ CanTransition(status[o], Target(EventKind[indoubt[o]]))

\* An order never falls back behind an event that was applied to it.
ProcessedInv ==
    \A e \in processed :
        /\ EventClass[e] = "valid"
        /\ status[EventOrder[e]] \in Status
        /\ Rank(Target(EventKind[e])) <= Rank(status[EventOrder[e]])

SafetyInv == TypeOK /\ RecordInv /\ ConsumerInv /\ IndoubtInv /\ ProcessedInv

\* The type invariant holds initially and every step keeps it.
LEMMA TypeStep == TypeOK /\ RecordInv /\ [Next]_vars => TypeOK'
<1> SUFFICES ASSUME TypeOK, RecordInv, [Next]_vars PROVE TypeOK'
  OBVIOUS
<1> USE DEF TypeOK
<1>1. ASSUME NEW o \in Orders, Create(o) PROVE TypeOK'
  <2> DEFINE r == [status |-> "WAITING_DEPOSIT", event |-> None]
             x == [prev |-> None, curr |-> "WAITING_DEPOSIT"]
  <2>1. /\ <<r>> \in Seq([status: Status, event: Events \cup {None}])
        /\ <<x>> \in Seq([prev: Status \cup {None}, curr: Status])
        /\ "WAITING_DEPOSIT" \in Status
    BY DEF Status
  <2>2. /\ timeline' = [timeline EXCEPT ![o] = <<r>>]
        /\ outbox' = [outbox EXCEPT ![o] = <<x>>]
        /\ status' = [status EXCEPT ![o] = "WAITING_DEPOSIT"]
        /\ UNCHANGED <<processed, locks, broker, consumer, accepted, crashes>>
    BY <1>1 DEF Create
  <2> HIDE DEF r, x
  <2> QED BY <2>1, <2>2 DEF locks, broker, consumer
<1>2. ASSUME NEW o \in Orders, NEW s \in Status, OperatorMove(o, s)
      PROVE  TypeOK'
  BY <1>2 DEF OperatorMove, locks, broker, consumer
<1>3. ASSUME NEW e \in Events, Accept(e) PROVE TypeOK'
  BY <1>3 DEF Accept, database, locks, broker, consumer
<1>4. ASSUME NEW e \in Events, Publish(e) PROVE TypeOK'
  <2>1. log' \in [Partitions -> Seq(Events)]
    BY <1>4, PartitionType, AppendAtType DEF Publish
  <2> QED BY <1>4, <2>1 DEF Publish, database, locks, consumer
<1>5. ASSUME NEW o \in Orders, ServerCommits(o) PROVE TypeOK'
  <2>1. indoubt[o] \in Events /\ Effects(indoubt[o])
    BY <1>5 DEF ServerCommits
  <2> QED BY <1>5, <2>1, EffectsType DEF ServerCommits, broker, consumer
<1>6. ASSUME NEW o \in Orders, ServerAborts(o) PROVE TypeOK'
  BY <1>6 DEF ServerAborts, database, broker, consumer
<1>7. CASE Crash
  <2>1. crashes' \in 0..MaxCrashes
    BY <1>7, ParameterAssumption DEF Crash
  <2>2. /\ lock' \in [Orders -> Consumers \cup {None}]
        /\ pc' \in [Consumers ->
                      {"idle", "polled", "checked", "locked", "handled"}]
        /\ at' \in [Consumers -> Partitions \cup {None}]
        /\ current' \in [Consumers -> Status \cup {None}]
    BY <1>7 DEF Crash
  <2> QED BY <1>7, <2>1, <2>2 DEF Crash, database, broker
<1>8. ASSUME NEW c \in Consumers, Consume(c) PROVE TypeOK'
  <2>1. ASSUME NEW p \in Partitions, Poll(c, p) PROVE TypeOK'
    <3>1. /\ position' \in [Partitions -> Nat]
          /\ at' \in [Consumers -> Partitions \cup {None}]
          /\ pc' \in [Consumers ->
                        {"idle", "polled", "checked", "locked", "handled"}]
      BY <2>1 DEF Poll
    <3> QED BY <2>1, <3>1 DEF Poll, database, locks, broker
  <2>2. ASSUME NEW p \in Partitions, PollError(c, p) PROVE TypeOK'
    <3>1. position' \in [Partitions -> Nat]
      BY <2>2 DEF PollError
    <3> QED BY <2>2, <3>1 DEF PollError, database, locks, broker
  <2>3. CASE Refuse(c)
    BY <2>3 DEF Refuse, database, locks, broker
  <2>4. CASE CheckProcessed(c)
    BY <2>4 DEF CheckProcessed, database, locks, broker
  <2>5. CASE LockOrder(c)
    <3>1. EventOrder[Rec(c)] \in Orders
      BY <2>5, RecType DEF LockOrder, RecordInv
    <3>2. /\ lock' \in [Orders -> Consumers \cup {None}]
          /\ pc' \in [Consumers ->
                        {"idle", "polled", "checked", "locked", "handled"}]
          /\ current' \in [Consumers -> Status \cup {None}]
      BY <2>5, <3>1 DEF LockOrder
    <3> QED BY <2>5, <3>2 DEF LockOrder, database, broker
  <2>6. CASE OrderNotFound(c)
    BY <2>6, EndTransactionType DEF OrderNotFound, database, broker
  <2>7. CASE Reject(c)
    BY <2>7, EndTransactionType DEF Reject, database, broker
  <2>8. CASE StatementError(c)
    BY <2>8, EndTransactionType DEF StatementError, database, broker
  <2>9. CASE Commit(c)
    <3>1. Rec(c) \in Events
      BY <2>9, RecType DEF Commit, RecordInv
    <3> QED
      BY <2>9, <3>1, EffectsType, EndTransactionType DEF Commit, broker
  <2>10. CASE CommitUnacknowledged(c)
    <3>1. Rec(c) \in Events /\ EventOrder[Rec(c)] \in Orders
      BY <2>10, RecType DEF CommitUnacknowledged, RecordInv
    <3> QED
      BY <2>10, <3>1, EndTransactionType
      DEF CommitUnacknowledged, database, broker
  <2>11. CASE CommitOffset(c)
    BY <2>11 DEF CommitOffset, RecordInv, database, locks
  <2> QED
    BY <1>8, <2>1, <2>2, <2>3, <2>4, <2>5, <2>6, <2>7, <2>8, <2>9, <2>10, <2>11
    DEF Consume
<1>9. CASE UNCHANGED vars
  BY <1>9 DEF vars, database, locks, broker, consumer
<1> QED
  BY <1>1, <1>2, <1>3, <1>4, <1>5, <1>6, <1>7, <1>8, <1>9 DEF Next

-----------------------------------------------------------------------------
\* A step of consumer c on the record it has in hand.
InHand(c) ==
    \/ Refuse(c) \/ CheckProcessed(c) \/ LockOrder(c) \/ OrderNotFound(c)
    \/ Reject(c) \/ StatementError(c) \/ Commit(c) \/ CommitUnacknowledged(c)

\* It moves neither the log nor any position, and no other consumer.
LEMMA InHandFrame ==
    ASSUME TypeOK, NEW c \in Consumers, InHand(c)
    PROVE  /\ UNCHANGED <<log, committed, position, at, accepted, crashes>>
           /\ pc[c] # "idle" /\ pc'[c] # "idle"
           /\ \A d \in Consumers \ {c} :
                pc'[d] = pc[d] /\ current'[d] = current[d]
BY DEF TypeOK, InHand, Refuse, CheckProcessed, LockOrder, OrderNotFound, Reject,
       StatementError, Commit, CommitUnacknowledged, EndTransaction, broker,
       consumer

\* A consumer keeps a valid record in hand.
LEMMA RecordStep == TypeOK /\ RecordInv /\ [Next]_vars => RecordInv'
<1> SUFFICES ASSUME TypeOK, RecordInv, [Next]_vars,
                    NEW d \in Consumers, pc'[d] # "idle"
             PROVE  /\ at'[d] \in Partitions
                    /\ Owner(at'[d]) = d
                    /\ position'[at'[d]] \in 1..Len(log'[at'[d]])
  BY DEF RecordInv
<1> USE DEF RecordInv
<1>1. CASE UNCHANGED <<log, position, at>> /\ pc[d] # "idle"
  BY <1>1
<1>2. ASSUME NEW e \in Events, Publish(e), pc[d] # "idle"
      PROVE  /\ at'[d] \in Partitions
             /\ Owner(at'[d]) = d
             /\ position'[at'[d]] \in 1..Len(log'[at'[d]])
  <2>1. UNCHANGED <<position, at>>
    BY <1>2 DEF Publish, consumer
  <2>2. Len(log'[at[d]]) >= Len(log[at[d]]) /\ Len(log'[at[d]]) \in Nat
    <3>1. at[d] \in Partitions /\ log[at[d]] \in Seq(Events)
      BY <1>2 DEF TypeOK
    <3>2. CASE PartitionOf(e) = at[d]
      BY <1>2, <3>1, <3>2 DEF TypeOK, Publish
    <3>3. CASE PartitionOf(e) # at[d]
      BY <1>2, <3>1, <3>3, PartitionType DEF TypeOK, Publish
    <3> QED BY <3>2, <3>3
  <2> QED BY <1>2, <2>1, <2>2 DEF TypeOK
<1>3. ASSUME NEW c \in Consumers, NEW p \in Partitions,
             Poll(c, p) \/ PollError(c, p)
      PROVE  /\ at'[d] \in Partitions
             /\ Owner(at'[d]) = d
             /\ position'[at'[d]] \in 1..Len(log'[at'[d]])
  <2>1. /\ log' = log /\ Owner(p) = c /\ pc[c] = "idle"
        /\ position[p] < Len(log[p])
        /\ position' = [position EXCEPT ![p] = @ + 1]
    BY <1>3 DEF Poll, PollError, HasNext, broker
  <2>2. CASE d = c
    <3>1. Poll(c, p)
      BY <1>3, <2>1, <2>2 DEF PollError
    <3>2. at'[c] = p
      BY <3>1 DEF Poll, TypeOK
    <3>3. Len(log[p]) \in Nat /\ position[p] \in Nat
      BY DEF TypeOK
    <3> QED BY <2>1, <2>2, <3>2, <3>3 DEF TypeOK
  <2>3. CASE d # c
    <3>1. pc[d] # "idle" /\ at'[d] = at[d]
      BY <1>3, <2>3 DEF Poll, PollError, TypeOK
    <3>2. at[d] # p
      BY <2>1, <2>3, <3>1
    <3> QED BY <2>1, <3>1, <3>2 DEF TypeOK
  <2> QED BY <2>2, <2>3
<1>4. ASSUME NEW c \in Consumers, CommitOffset(c)
      PROVE  UNCHANGED <<log, position, at[d]>> /\ pc[d] # "idle"
  BY <1>4 DEF CommitOffset, TypeOK, consumer
<1>5. ASSUME NEW c \in Consumers, InHand(c)
      PROVE  UNCHANGED <<log, position, at>> /\ pc[d] # "idle"
  BY <1>5, InHandFrame
<1>6. ASSUME NEW o \in Orders,
             Create(o) \/ ServerCommits(o) \/ ServerAborts(o)
      PROVE  UNCHANGED <<log, position, at, pc>>
  BY <1>6 DEF Create, ServerCommits, ServerAborts, consumer, broker
<1>7. ASSUME NEW o \in Orders, NEW s \in Status, OperatorMove(o, s)
      PROVE  UNCHANGED <<log, position, at, pc>>
  BY <1>7 DEF OperatorMove, consumer, broker
<1>8. ASSUME NEW e \in Events, Accept(e)
      PROVE  UNCHANGED <<log, position, at, pc>>
  BY <1>8 DEF Accept, consumer, broker
<1>9. ASSUME NEW e \in Events, Publish(e) PROVE pc[d] # "idle"
  BY <1>9 DEF Publish, consumer
<1>10. CASE UNCHANGED vars
  BY <1>10 DEF vars, consumer, broker
<1>11. ~Crash
  BY DEF Crash
<1>12. ASSUME NEW c \in Consumers, Consume(c)
       PROVE  \/ \E p \in Partitions : Poll(c, p) \/ PollError(c, p)
              \/ CommitOffset(c)
              \/ InHand(c)
  BY <1>12 DEF Consume, InHand
<1> QED
  BY <1>1, <1>2, <1>3, <1>4, <1>5, <1>6, <1>7, <1>8, <1>9, <1>10, <1>11, <1>12
  DEF Next

\* A consumer that stays busy keeps the same record in hand.
LEMMA RecordStable ==
    ASSUME TypeOK, RecordInv, [Next]_vars,
           NEW d \in Consumers, pc[d] # "idle", pc'[d] # "idle"
    PROVE  /\ at'[d] = at[d] /\ position'[at[d]] = position[at[d]]
           /\ log'[at[d]][position[at[d]]] = log[at[d]][position[at[d]]]
           /\ Rec(d)' = Rec(d)
<1> DEFINE Same == /\ at'[d] = at[d] /\ position'[at[d]] = position[at[d]]
                   /\ log'[at[d]][position[at[d]]] = log[at[d]][position[at[d]]]
<1>a. /\ at[d] \in Partitions /\ Owner(at[d]) = d
      /\ position[at[d]] \in 1..Len(log[at[d]])
  BY DEF RecordInv
<1>1. ASSUME NEW e \in Events, Publish(e) PROVE Same
  <2>1. UNCHANGED <<position, at>>
    BY <1>1 DEF Publish, consumer
  <2>2. log[at[d]] \in Seq(Events)
    BY <1>a DEF TypeOK
  <2>3. CASE PartitionOf(e) = at[d]
    BY <1>1, <1>a, <2>1, <2>2, <2>3 DEF TypeOK, Publish
  <2>4. CASE PartitionOf(e) # at[d]
    BY <1>1, <1>a, <2>1, <2>4, PartitionType DEF TypeOK, Publish
  <2> QED BY <2>3, <2>4
<1>2. ASSUME NEW c \in Consumers, NEW p \in Partitions,
             Poll(c, p) \/ PollError(c, p)
      PROVE  Same
  <2>1. c # d /\ Owner(p) = c /\ log' = log
    BY <1>2 DEF Poll, PollError, broker
  <2>2. /\ position' = [position EXCEPT ![p] = @ + 1] /\ at'[d] = at[d]
    BY <1>2, <2>1 DEF Poll, PollError, TypeOK
  <2> QED BY <1>a, <2>1, <2>2 DEF TypeOK
<1>3. ASSUME NEW c \in Consumers, CommitOffset(c) PROVE Same
  <2>1. c # d
    BY <1>3 DEF CommitOffset, TypeOK
  <2> QED BY <1>3, <2>1 DEF CommitOffset, TypeOK
<1>4. ASSUME NEW c \in Consumers, InHand(c) PROVE Same
  BY <1>4, InHandFrame
<1>5. ASSUME NEW o \in Orders,
             Create(o) \/ ServerCommits(o) \/ ServerAborts(o)
      PROVE  Same
  <2>1. UNCHANGED <<log, position, at>>
    BY <1>5 DEF Create, ServerCommits, ServerAborts, consumer, broker
  <2> QED BY <2>1
<1>6. ASSUME NEW o \in Orders, NEW s \in Status, OperatorMove(o, s) PROVE Same
  BY <1>6 DEF OperatorMove, consumer, broker
<1>7. ASSUME NEW e \in Events, Accept(e) PROVE Same
  BY <1>7 DEF Accept, consumer, broker
<1>8. ASSUME UNCHANGED vars PROVE Same
  <2>1. UNCHANGED <<log, position, at>>
    BY <1>8 DEF vars, consumer, broker
  <2> QED BY <2>1
<1>9. ~Crash
  BY DEF Crash
<1>10. ASSUME NEW c \in Consumers, Consume(c)
       PROVE  \/ \E p \in Partitions : Poll(c, p) \/ PollError(c, p)
              \/ CommitOffset(c)
              \/ InHand(c)
  BY <1>10 DEF Consume, InHand
<1>11. Same
  BY <1>1, <1>2, <1>3, <1>4, <1>5, <1>6, <1>7, <1>8, <1>9, <1>10 DEF Next
<1> QED BY <1>11 DEF Rec

-----------------------------------------------------------------------------
\* The effects of an event, read as facts about one order.
LEMMA EffectsFrame ==
    ASSUME TypeOK, NEW e \in Events, Effects(e)
    PROVE  /\ e \notin processed /\ processed' = processed \cup {e}
           /\ status'[EventOrder[e]] = Target(EventKind[e])
           /\ \A o \in Orders \ {EventOrder[e]} : status'[o] = status[o]
BY EventAssumption DEF TypeOK, Effects

\* A consumer's checks stay valid, and nobody disturbs the row it has locked.
LEMMA ConsumerStep == SafetyInv /\ [Next]_vars => ConsumerInv'
<1> SUFFICES ASSUME SafetyInv, [Next]_vars,
                    NEW d \in Consumers, pc'[d] # "idle"
             PROVE  /\ Busy(d)' => EventClass[Rec(d)'] # "malformed"
                    /\ pc'[d] \in {"checked", "locked"} =>
                         EventClass[Rec(d)'] # "invalid"
                    /\ pc'[d] = "locked" =>
                         /\ lock'[EventOrder[Rec(d)']] = d
                         /\ indoubt'[EventOrder[Rec(d)']] = None
                         /\ current'[d] = status'[EventOrder[Rec(d)']]
                         /\ current'[d] \in Status
  BY DEF ConsumerInv, Busy
<1> USE DEF SafetyInv
<1> DEFINE e == Rec(d)
           o == EventOrder[e]
           Goal == /\ Busy(d)' => EventClass[e] # "malformed"
                   /\ pc'[d] \in {"checked", "locked"} => EventClass[e] # "invalid"
                   /\ pc'[d] = "locked" =>
                        /\ lock'[o] = d
                        /\ indoubt'[o] = None
                        /\ current'[d] = status'[o]
                        /\ current'[d] \in Status
<1>1. CASE pc[d] = "idle"
  <2>1. PICK p \in Partitions : Poll(d, p)
    BY <1>1 DEF Next, vars, TypeOK, Create, ServerCommits, ServerAborts,
                OperatorMove, Accept, Publish, Crash, Consume, Poll, PollError,
                Refuse, CheckProcessed, LockOrder, OrderNotFound, Reject,
                StatementError, Commit, CommitUnacknowledged, CommitOffset,
                EndTransaction, consumer
  <2>2. Rec(d)' = log[p][position[p] + 1]
    BY <2>1 DEF Poll, Rec, TypeOK, broker
  <2> QED BY <2>1, <2>2 DEF Poll, Busy, TypeOK
<1>2. ASSUME pc[d] # "idle" PROVE Goal
  <2>2. /\ e \in Events /\ o \in Orders
        /\ EventKind[e] \in Kinds /\ EventClass[e] \in Classes
    BY <1>2, RecType DEF RecordInv
  <2>a. /\ Busy(d) => EventClass[e] # "malformed"
        /\ pc[d] \in {"checked", "locked"} => EventClass[e] # "invalid"
        /\ pc[d] = "locked" =>
             /\ lock[o] = d
             /\ indoubt[o] = None
             /\ current[d] = status[o]
             /\ current[d] \in Status
    BY DEF ConsumerInv
  <2> HIDE DEF e, o
  <2>b. d # None
    BY NoneAssumption DEF Consumers
  <2>5. ASSUME NEW x \in Orders, Create(x) PROVE Goal
    <3>1. pc[d] = "locked" => x # o
      BY <2>5, <2>a, NoneAssumption DEF Create
    <3> QED BY <2>5, <2>2, <2>a, <3>1 DEF Create, Busy, TypeOK, locks, consumer
  <2>6. ASSUME NEW x \in Orders, NEW t \in Status, OperatorMove(x, t) PROVE Goal
    <3>1. pc[d] = "locked" => x # o
      BY <2>6, <2>a, <2>b DEF OperatorMove, RowFree
    <3> QED
      BY <2>6, <2>2, <2>a, <3>1 DEF OperatorMove, Busy, TypeOK, locks, consumer
  <2>7. ASSUME NEW x \in Orders, ServerCommits(x) PROVE Goal
    <3> DEFINE f == indoubt[x]
    <3>1. f \in Events /\ Effects(f) /\ EventOrder[f] = x
      BY <2>7 DEF ServerCommits, TypeOK, IndoubtInv
    <3>2. pc[d] = "locked" => x # o
      BY <2>7, <2>a DEF ServerCommits
    <3>3. pc[d] = "locked" => status'[o] = status[o]
      BY <2>2, <3>1, <3>2, EffectsFrame
    <3> QED
      BY <2>7, <2>2, <2>a, <3>2, <3>3 DEF ServerCommits, Busy, TypeOK, consumer
  <2>8. ASSUME NEW x \in Orders, ServerAborts(x) PROVE Goal
    BY <2>8, <2>2, <2>a DEF ServerAborts, Busy, TypeOK, consumer, database
  <2>9. ASSUME NEW x \in Events, Accept(x) \/ Publish(x) PROVE Goal
    BY <2>9, <2>a DEF Accept, Publish, Busy, database, locks, consumer
  <2>10. CASE UNCHANGED vars
    BY <2>10, <2>a DEF vars, Busy, database, locks, consumer
  <2>11. ~Crash
    BY DEF Crash
  <2>12. ASSUME NEW c \in Consumers, c # d, Consume(c) PROVE Goal
    <3>1. pc'[d] = pc[d] /\ current'[d] = current[d]
      BY <2>12 DEF Consume, Poll, PollError, Refuse, CheckProcessed, LockOrder,
            OrderNotFound, Reject, StatementError, Commit,
            CommitUnacknowledged, CommitOffset, EndTransaction, TypeOK
    <3> SUFFICES ASSUME pc[d] = "locked"
                 PROVE  lock'[o] = d /\ indoubt'[o] = None /\ status'[o] = status[o]
      BY <2>a, <3>1 DEF Busy
    <3>2. CASE \E p \in Partitions : Poll(c, p) \/ PollError(c, p)
      BY <3>2, <2>a DEF Poll, PollError, database, locks
    <3>3. CASE Refuse(c) \/ CheckProcessed(c) \/ CommitOffset(c)
      BY <3>3, <2>a DEF Refuse, CheckProcessed, CommitOffset, database, locks
    <3>4. CASE LockOrder(c)
      <4>1. EventOrder[Rec(c)] # o
        BY <3>4, <2>a, <2>b DEF LockOrder, RowFree
      <4> QED BY <3>4, <4>1, <2>2, <2>a DEF LockOrder, TypeOK, database
    <3>5. CASE OrderNotFound(c) \/ Reject(c) \/ StatementError(c)
      BY <3>5, <2>2, <2>a, <2>12
      DEF OrderNotFound, Reject, StatementError, EndTransaction, database
    <3>6. CASE Commit(c) \/ CommitUnacknowledged(c)
      <4>1. Rec(c) \in Events
        BY <3>6, RecType DEF Commit, CommitUnacknowledged, RecordInv
      <4>2. EventOrder[Rec(c)] # o
        BY <3>6, <2>12, <2>a DEF Commit, CommitUnacknowledged, ConsumerInv
      <4>3. lock'[o] = d
        BY <3>6, <2>2, <2>12, <2>a DEF Commit, CommitUnacknowledged, EndTransaction
      <4>4. CASE Commit(c)
        BY <4>4, <4>1, <4>2, <4>3, <2>2, <2>a, EffectsFrame DEF Commit
      <4>5. CASE CommitUnacknowledged(c)
        BY <4>5, <4>1, <4>2, <4>3, <2>2, <2>a
        DEF CommitUnacknowledged, TypeOK, database
      <4> QED BY <3>6, <4>4, <4>5
    <3> QED BY <2>12, <3>2, <3>3, <3>4, <3>5, <3>6 DEF Consume
  <2>13. CASE Consume(d)
    <3>1. CASE \E p \in Partitions : Poll(d, p) \/ PollError(d, p)
      BY <3>1, <1>2 DEF Poll, PollError
    <3>2. CASE CommitOffset(d)
      BY <3>2 DEF CommitOffset, TypeOK
    <3>3. CASE Refuse(d) \/ CheckProcessed(d)
      BY <3>3, <2>a DEF Refuse, CheckProcessed, Busy, TypeOK, e
    <3>4. CASE LockOrder(d)
      <4>1. status[o] \in Status
        BY <3>4, <2>2 DEF LockOrder, TypeOK, e, o
      <4> QED
        BY <3>4, <4>1, <2>2, <2>a
        DEF LockOrder, RowFree, Busy, TypeOK, e, o, database
    <3>5. CASE OrderNotFound(d) \/ Reject(d) \/ StatementError(d)
      <4>1. pc'[d] = "polled" /\ Busy(d)
        BY <3>5 DEF OrderNotFound, Reject, StatementError, EndTransaction,
                    Busy, TypeOK
      <4> QED BY <4>1, <2>a
    <3>6. CASE Commit(d) \/ CommitUnacknowledged(d)
      <4>1. pc'[d] \in {"polled", "handled"} /\ Busy(d)
        BY <3>6 DEF Commit, CommitUnacknowledged, EndTransaction, Busy, TypeOK
      <4> QED BY <4>1, <2>a
    <3> QED BY <2>13, <3>1, <3>2, <3>3, <3>4, <3>5, <3>6 DEF Consume
  <2> QED
    BY <2>5, <2>6, <2>7, <2>8, <2>9, <2>10, <2>11, <2>12, <2>13 DEF Next
<1>3. pc[d] # "idle" => Rec(d)' = e
  BY RecordStable
<1> QED BY <1>1, <1>2, <1>3

-----------------------------------------------------------------------------
\* An in-doubt transaction stays admissible: it holds its row.
LEMMA IndoubtStep == SafetyInv /\ [Next]_vars => IndoubtInv'
<1> SUFFICES ASSUME SafetyInv, [Next]_vars, NEW o \in Orders, indoubt'[o] # None
             PROVE  /\ EventOrder[indoubt'[o]] = o
                    /\ EventClass[indoubt'[o]] = "valid"
                    /\ status'[o] \in Status
                    /\ CanTransition(status'[o], Target(EventKind[indoubt'[o]]))
  BY DEF IndoubtInv
<1> USE DEF SafetyInv
<1>1. CASE indoubt[o] # None /\ indoubt'[o] = indoubt[o] /\ status'[o] = status[o]
  BY <1>1 DEF IndoubtInv
<1>2. ASSUME NEW c \in Consumers, CommitUnacknowledged(c)
      PROVE  \/ indoubt[o] # None /\ indoubt'[o] = indoubt[o] /\ status'[o] = status[o]
             \/ /\ EventOrder[indoubt'[o]] = o
                /\ EventClass[indoubt'[o]] = "valid"
                /\ status'[o] \in Status
                /\ CanTransition(status'[o], Target(EventKind[indoubt'[o]]))
  <2> DEFINE e == Rec(c)
  <2>1. /\ e \in Events /\ EventOrder[e] \in Orders /\ EventClass[e] \in Classes
        /\ pc[c] = "locked"
    BY <1>2, RecType DEF CommitUnacknowledged, RecordInv
  <2>2. /\ EventClass[e] = "valid"
        /\ current[c] = status[EventOrder[e]] /\ current[c] \in Status
        /\ CanTransition(current[c], Target(EventKind[e]))
    BY <1>2, <2>1 DEF ConsumerInv, Classes, CommitUnacknowledged, Admissible, Busy
  <2>3. indoubt' = [indoubt EXCEPT ![EventOrder[e]] = e] /\ status' = status
    BY <1>2 DEF CommitUnacknowledged, database
  <2> HIDE DEF e
  <2>4. CASE EventOrder[e] = o
    BY <2>1, <2>2, <2>3, <2>4 DEF TypeOK
  <2>5. CASE EventOrder[e] # o
    BY <2>3, <2>5 DEF TypeOK
  <2> QED BY <2>4, <2>5
<1>3. ASSUME NEW c \in Consumers, Commit(c)
      PROVE  indoubt[o] # None /\ indoubt'[o] = indoubt[o] /\ status'[o] = status[o]
  <2>1. Rec(c) \in Events /\ pc[c] = "locked" /\ Effects(Rec(c)) /\ indoubt' = indoubt
    BY <1>3, RecType DEF Commit, RecordInv
  <2>2. EventOrder[Rec(c)] # o
    BY <2>1 DEF ConsumerInv
  <2> QED BY <2>1, <2>2, EffectsFrame
<1>4. ASSUME NEW c \in Consumers, Consume(c), ~Commit(c), ~CommitUnacknowledged(c)
      PROVE  UNCHANGED <<indoubt, status>>
  BY <1>4 DEF Consume, Poll, PollError, Refuse, CheckProcessed, LockOrder,
          OrderNotFound, Reject, StatementError, CommitOffset, locks, database
<1>5. ASSUME NEW x \in Orders, Create(x)
      PROVE  indoubt[o] # None /\ indoubt'[o] = indoubt[o] /\ status'[o] = status[o]
  BY <1>5, NoneAssumption DEF Create, locks, IndoubtInv, TypeOK
<1>6. ASSUME NEW x \in Orders, ServerCommits(x)
      PROVE  indoubt[o] # None /\ indoubt'[o] = indoubt[o] /\ status'[o] = status[o]
  <2> DEFINE f == indoubt[x]
  <2>1. f \in Events /\ Effects(f) /\ EventOrder[f] = x
    BY <1>6 DEF ServerCommits, TypeOK, IndoubtInv
  <2>2. x # o /\ indoubt'[o] = indoubt[o]
    BY <1>6 DEF ServerCommits, TypeOK
  <2> HIDE DEF f
  <2> QED BY <2>1, <2>2, EffectsFrame
<1>7. ASSUME NEW x \in Orders, ServerAborts(x)
      PROVE  indoubt[o] # None /\ indoubt'[o] = indoubt[o] /\ status'[o] = status[o]
  BY <1>7 DEF ServerAborts, TypeOK, database
<1>8. ASSUME NEW x \in Orders, NEW t \in Status, OperatorMove(x, t)
      PROVE  indoubt[o] # None /\ indoubt'[o] = indoubt[o] /\ status'[o] = status[o]
  BY <1>8 DEF OperatorMove, RowFree, locks, TypeOK
<1>9. ASSUME NEW x \in Events, Accept(x) \/ Publish(x)
      PROVE  UNCHANGED <<indoubt, status>>
  BY <1>9 DEF Accept, Publish, locks, database
<1>10. CASE Crash
  BY <1>1, <1>10 DEF Crash, database
<1>11. CASE UNCHANGED vars
  BY <1>1, <1>11 DEF vars, locks, database
<1> QED
  BY <1>1, <1>2, <1>3, <1>4, <1>5, <1>6, <1>7, <1>8, <1>9, <1>10, <1>11 DEF Next

\* Whatever a step does, an order's status only climbs.
LEMMA StatusClimbs ==
    ASSUME SafetyInv, [Next]_vars, NEW o \in Orders, status[o] \in Status
    PROVE  /\ status'[o] \in Status
           /\ status'[o] = status[o] \/ CanTransition(status[o], status'[o])
<1> USE DEF SafetyInv
<1>1. ASSUME NEW x \in Orders, Create(x) PROVE status'[o] = status[o]
  BY <1>1, NoneAssumption DEF Create, TypeOK
<1>2. ASSUME NEW x \in Orders, NEW t \in Status, OperatorMove(x, t)
      PROVE  /\ status'[o] \in Status
             /\ status'[o] = status[o] \/ CanTransition(status[o], status'[o])
  BY <1>2 DEF OperatorMove, TypeOK
<1>3. ASSUME NEW x \in Orders, ServerCommits(x)
      PROVE  /\ status'[o] \in Status
             /\ status'[o] = status[o] \/ CanTransition(status[o], status'[o])
  <2> DEFINE f == indoubt[x]
  <2>1. /\ f \in Events /\ Effects(f) /\ EventOrder[f] = x
        /\ CanTransition(status[x], Target(EventKind[f]))
    BY <1>3 DEF ServerCommits, TypeOK, IndoubtInv
  <2>2. Target(EventKind[f]) \in Status
    BY <2>1, EventAssumption, TargetType
  <2> HIDE DEF f
  <2> QED BY <2>1, <2>2, EffectsFrame
<1>4. ASSUME NEW c \in Consumers, Commit(c)
      PROVE  /\ status'[o] \in Status
             /\ status'[o] = status[o] \/ CanTransition(status[o], status'[o])
  <2> DEFINE f == Rec(c)
  <2>1. /\ f \in Events /\ Effects(f) /\ pc[c] = "locked"
    BY <1>4, RecType DEF Commit, RecordInv
  <2>2. CanTransition(status[EventOrder[f]], Target(EventKind[f]))
    BY <1>4, <2>1 DEF Commit, Admissible, ConsumerInv
  <2>3. Target(EventKind[f]) \in Status
    BY <2>1, EventAssumption, TargetType
  <2> HIDE DEF f
  <2> QED BY <2>1, <2>2, <2>3, EffectsFrame
<1>5. ASSUME NEW c \in Consumers, Consume(c), ~Commit(c) PROVE status' = status
  BY <1>5 DEF Consume, Poll, PollError, Refuse, CheckProcessed, LockOrder,
          OrderNotFound, Reject, StatementError, CommitUnacknowledged,
          CommitOffset, database
<1>6. ASSUME NEW x \in Orders, ServerAborts(x) PROVE status' = status
  BY <1>6 DEF ServerAborts, database
<1>7. ASSUME NEW x \in Events, Accept(x) \/ Publish(x) PROVE status' = status
  BY <1>7 DEF Accept, Publish, database
<1>8. CASE Crash
  BY <1>8 DEF Crash, database
<1>9. CASE UNCHANGED vars
  BY <1>9 DEF vars, database
<1> QED
  BY <1>1, <1>2, <1>3, <1>4, <1>5, <1>6, <1>7, <1>8, <1>9 DEF Next

-----------------------------------------------------------------------------
\* An applied event stays behind the status of its order.
LEMMA ProcessedStep == SafetyInv /\ [Next]_vars => ProcessedInv'
<1> SUFFICES ASSUME SafetyInv, [Next]_vars, NEW e \in processed'
             PROVE  /\ EventClass[e] = "valid"
                    /\ status'[EventOrder[e]] \in Status
                    /\ Rank(Target(EventKind[e])) <= Rank(status'[EventOrder[e]])
  BY DEF ProcessedInv
<1> USE DEF SafetyInv
<1>1. CASE e \in processed
  <2> DEFINE o == EventOrder[e]
             t == Target(EventKind[e])
  <2>1. e \in Events /\ o \in Orders /\ t \in Status
    BY <1>1, EventAssumption, TargetType DEF TypeOK
  <2>2. /\ EventClass[e] = "valid" /\ status[o] \in Status
        /\ Rank(t) <= Rank(status[o])
    BY <1>1 DEF ProcessedInv
  <2>3. /\ status'[o] \in Status
        /\ status'[o] = status[o] \/ CanTransition(status[o], status'[o])
    BY <2>1, <2>2, StatusClimbs
  <2>4. /\ Rank(t) \in Nat /\ Rank(status[o]) \in Nat /\ Rank(status'[o]) \in Nat
    BY <2>1, <2>2, <2>3, RankType
  <2>5. status'[o] = status[o] \/ Rank(status[o]) < Rank(status'[o])
    BY <2>2, <2>3, TransitionsClimb
  <2> HIDE DEF o, t
  <2>6. Rank(t) <= Rank(status'[o])
    BY <2>2, <2>4, <2>5
  <2> QED BY <2>2, <2>3, <2>6 DEF o, t
<1>2. ASSUME NEW f \in Events, Effects(f), EventClass[f] = "valid", e \notin processed
      PROVE  /\ EventClass[e] = "valid"
             /\ status'[EventOrder[e]] \in Status
             /\ Rank(Target(EventKind[e])) <= Rank(status'[EventOrder[e]])
  <2>1. e = f /\ status'[EventOrder[f]] = Target(EventKind[f])
    BY <1>2, EffectsFrame
  <2>2. Target(EventKind[f]) \in Status
    BY <1>2, EventAssumption, TargetType
  <2>3. Rank(Target(EventKind[f])) \in Nat
    BY <2>2, RankType
  <2> QED BY <1>2, <2>1, <2>2, <2>3
<1>3. ASSUME NEW c \in Consumers, Commit(c)
      PROVE  Rec(c) \in Events /\ Effects(Rec(c)) /\ EventClass[Rec(c)] = "valid"
  <2>1. Rec(c) \in Events /\ EventClass[Rec(c)] \in Classes
    BY <1>3, RecType DEF Commit, RecordInv
  <2> QED
    BY <1>3, <2>1 DEF Commit, Admissible, ConsumerInv, Busy, Classes
<1>4. ASSUME NEW o \in Orders, ServerCommits(o)
      PROVE  /\ indoubt[o] \in Events /\ Effects(indoubt[o])
             /\ EventClass[indoubt[o]] = "valid"
  BY <1>4 DEF ServerCommits, IndoubtInv, TypeOK
<1>5. ASSUME e \notin processed
      PROVE  \/ \E c \in Consumers : Commit(c)
             \/ \E o \in Orders : ServerCommits(o)
  BY <1>5 DEF Next, vars, Create, OperatorMove, Accept, Publish, ServerAborts,
              Crash, Consume, Poll, PollError, Refuse, CheckProcessed, LockOrder,
              OrderNotFound, Reject, StatementError, CommitUnacknowledged,
              CommitOffset, database
<1> QED BY <1>1, <1>2, <1>3, <1>4, <1>5

\* No row, no record and no work in the initial state: all of SafetyInv holds.
LEMMA SafetyInit == Init => SafetyInv
<1> SUFFICES ASSUME Init PROVE SafetyInv
  OBVIOUS
<1>1. TypeOK
  BY ParameterAssumption DEF Init, TypeOK
<1>2. RecordInv /\ ConsumerInv /\ IndoubtInv /\ ProcessedInv
  BY DEF Init, RecordInv, ConsumerInv, Busy, IndoubtInv, ProcessedInv
<1> QED BY <1>1, <1>2 DEF SafetyInv

\* SafetyInv is inductive: one lemma per conjunct, for every action.
LEMMA SafetyStep == SafetyInv /\ [Next]_vars => SafetyInv'
BY TypeStep, RecordStep, ConsumerStep, IndoubtStep, ProcessedStep DEF SafetyInv

\* The inductive invariant holds in every reachable state.
THEOREM Safety == Spec => []SafetyInv
BY SafetyInit, SafetyStep, PTL DEF Spec

\* The variables keep their types.
THEOREM TypeCorrect == Spec => []TypeOK
<1>1. SafetyInv => TypeOK
  BY DEF SafetyInv
<1> QED BY <1>1, Safety, PTL

-----------------------------------------------------------------------------
\* The read of processed_events made before the lock cannot be stale in a way
\* that matters: an event whose transition is admissible was not applied.
LEMMA AdmissibleIsNew ==
    ASSUME SafetyInv, NEW e \in Events, NEW s \in Status,
           s = status[EventOrder[e]], CanTransition(s, Target(EventKind[e]))
    PROVE  e \notin processed
<1> DEFINE t == Target(EventKind[e])
<1>1. t \in Status
  BY EventAssumption, TargetType
<1>2. Rank(s) \in Nat /\ Rank(t) \in Nat /\ Rank(s) < Rank(t)
  BY <1>1, RankType, TransitionsClimb
<1>3. e \in processed => Rank(t) <= Rank(s)
  BY DEF SafetyInv, ProcessedInv
<1> HIDE DEF t
<1> QED BY <1>2, <1>3

\* The insert into processed_events never meets its primary key.
THEOREM NeverConflicts == Spec => []InsertNeverConflicts
<1>1. SafetyInv => InsertNeverConflicts
  <2> SUFFICES ASSUME SafetyInv PROVE InsertNeverConflicts
    OBVIOUS
  <2>1. ASSUME NEW c \in Consumers, pc[c] = "locked", Admissible(c)
        PROVE  Rec(c) \notin processed
    <3>1. Rec(c) \in Events
      BY <2>1, RecType DEF SafetyInv, RecordInv
    <3>2. current[c] \in Status /\ current[c] = status[EventOrder[Rec(c)]]
      BY <2>1 DEF SafetyInv, ConsumerInv
    <3>3. CanTransition(current[c], Target(EventKind[Rec(c)]))
      BY <2>1 DEF Admissible
    <3> QED BY <3>1, <3>2, <3>3, AdmissibleIsNew
  <2>2. ASSUME NEW o \in Orders, indoubt[o] # None
        PROVE  indoubt[o] \notin processed
    <3>1. indoubt[o] \in Events
      BY <2>2 DEF SafetyInv, TypeOK
    <3>2. /\ EventOrder[indoubt[o]] = o /\ status[o] \in Status
          /\ CanTransition(status[o], Target(EventKind[indoubt[o]]))
      BY <2>2 DEF SafetyInv, IndoubtInv
    <3> QED BY <3>1, <3>2, AdmissibleIsNew
  <2> QED BY <2>1, <2>2 DEF InsertNeverConflicts
<1> QED BY <1>1, Safety, PTL

\* Every change of a status is a transition from the status the order has.
THEOREM LegalTransitions == Spec => TransitionsAreLegal
<1>1. SafetyInv /\ [Next]_vars => [LegalTransition]_vars
  <2> SUFFICES ASSUME SafetyInv, [Next]_vars, NEW o \in Orders, status[o] # None,
                      status'[o] # status[o]
               PROVE  CanTransition(status[o], status'[o])
    BY DEF LegalTransition
  <2>1. status[o] \in Status
    BY DEF SafetyInv, TypeOK
  <2> QED BY <2>1, StatusClimbs
<1> QED BY <1>1, Safety, PTL DEF Spec, TransitionsAreLegal
=============================================================================
