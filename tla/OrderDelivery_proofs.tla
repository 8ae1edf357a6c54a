------------------------ MODULE OrderDelivery_proofs ------------------------
(***************************************************************************)
(* What the order service does with the events it is given, proved from    *)
(* the inductive invariant of OrderEvents_proofs: none is lost, none is    *)
(* applied twice, the timeline only advances, status events are truthful,  *)
(* what was accepted stays admissible, and the whole consumer implements   *)
(* the abstract order.                                                     *)
(***************************************************************************)
EXTENDS OrderEvents_proofs, Integers

-----------------------------------------------------------------------------
(***************************************************************************)
(* Seen from the database, a step creates an order, applies an event,      *)
(* moves an order by hand, or does nothing.                                *)
(***************************************************************************)

\* Event e is applied, and its order was in a status that admits it.
Applies(e) ==
    /\ Effects(e)
    /\ EventClass[e] = "valid"
    /\ status[EventOrder[e]] \in Status
    /\ CanTransition(status[EventOrder[e]], Target(EventKind[e]))

\* A consumer's COMMIT applies the event it has in hand.
LEMMA CommitApplies ==
    ASSUME SafetyInv, NEW c \in Consumers, Commit(c)
    PROVE  Rec(c) \in Events /\ Applies(Rec(c))
<1>1. /\ Rec(c) \in Events /\ EventClass[Rec(c)] \in Classes
      /\ pc[c] = "locked" /\ Effects(Rec(c)) /\ Admissible(c)
  BY RecType DEF SafetyInv, RecordInv, Commit
<1>2. /\ EventClass[Rec(c)] = "valid"
      /\ current[c] = status[EventOrder[Rec(c)]] /\ current[c] \in Status
  BY <1>1 DEF SafetyInv, ConsumerInv, Busy, Admissible, Classes
<1> QED BY <1>1, <1>2 DEF Applies, Admissible

\* So does the server when it ends an in-doubt transaction.
LEMMA ServerCommitApplies ==
    ASSUME SafetyInv, NEW o \in Orders, ServerCommits(o)
    PROVE  indoubt[o] \in Events /\ Applies(indoubt[o])
BY DEF SafetyInv, TypeOK, IndoubtInv, ServerCommits, Applies

\* Every step of the system is one of four for the tables.
LEMMA DatabaseStep ==
    ASSUME SafetyInv, [Next]_vars
    PROVE  \/ \E o \in Orders : Create(o)
           \/ \E e \in Events : Applies(e)
           \/ \E o \in Orders, s \in Status : OperatorMove(o, s)
           \/ UNCHANGED database
<1>1. ASSUME NEW c \in Consumers, Consume(c), ~Commit(c)
      PROVE  UNCHANGED database
  BY <1>1 DEF Consume, Poll, PollError, Refuse, CheckProcessed, LockOrder,
          OrderNotFound, Reject, StatementError, CommitUnacknowledged,
          CommitOffset
<1>2. ASSUME NEW o \in Orders, ServerAborts(o) PROVE UNCHANGED database
  BY <1>2 DEF ServerAborts
<1>3. ASSUME NEW e \in Events, Accept(e) \/ Publish(e) PROVE UNCHANGED database
  BY <1>3 DEF Accept, Publish
<1>4. CASE Crash
  BY <1>4 DEF Crash
<1>5. CASE UNCHANGED vars
  BY <1>5 DEF vars
<1> QED
  BY <1>1, <1>2, <1>3, <1>4, <1>5, CommitApplies, ServerCommitApplies DEF Next

-----------------------------------------------------------------------------
(***************************************************************************)
(* The timeline.                                                           *)
(***************************************************************************)

\* The row that event e adds to the timeline of its order.
RowOf(e) == [status |-> Target(EventKind[e]), event |-> e]

\* The rows of a timeline are records of a status and an event.
LEMMA TimelineType ==
    ASSUME TypeOK, NEW o \in Orders
    PROVE  /\ Len(timeline[o]) \in Nat
           /\ DOMAIN timeline[o] = 1..Len(timeline[o])
           /\ \A i \in DOMAIN timeline[o] : timeline[o][i].status \in Status
<1> DEFINE R == [status: Status, event: Events \cup {None}]
<1>1. timeline[o] \in Seq(R)
  BY DEF TypeOK
<1> HIDE DEF R
<1>2. /\ Len(timeline[o]) \in Nat
      /\ DOMAIN timeline[o] = 1..Len(timeline[o])
      /\ \A i \in DOMAIN timeline[o] : timeline[o][i] \in R
  BY <1>1
<1> QED BY <1>2 DEF R

\* An applied event adds one row to its order's timeline, and no other.
LEMMA AppendedRow ==
    ASSUME TypeOK, NEW e \in Events, Effects(e), NEW o, o = EventOrder[e]
    PROVE  /\ o \in Orders
           /\ DOMAIN timeline'[o] = 1..(Len(timeline[o]) + 1)
           /\ \A i \in DOMAIN timeline[o] : timeline'[o][i] = timeline[o][i]
           /\ timeline'[o][Len(timeline[o]) + 1] = RowOf(e)
           /\ \A x \in Orders \ {o} : timeline'[x] = timeline[x]
<1> DEFINE R == [status: Status, event: Events \cup {None}]
<1>1. o \in Orders /\ Target(EventKind[e]) \in Status
  BY EventAssumption, TargetType
<1>2. timeline[o] \in Seq(R) /\ RowOf(e) \in R
  BY <1>1 DEF TypeOK, RowOf
<1>3. /\ timeline'[o] = Append(timeline[o], RowOf(e))
      /\ \A x \in Orders \ {o} : timeline'[x] = timeline[x]
  BY <1>1 DEF TypeOK, Effects, RowOf
<1> HIDE DEF R
<1> QED BY <1>1, <1>2, <1>3

\* A new order's timeline is the one row that names no event.
LEMMA CreatedRow ==
    ASSUME TypeOK, NEW o \in Orders, Create(o)
    PROVE  /\ DOMAIN timeline'[o] = {1}
           /\ timeline'[o][1] = [status |-> "WAITING_DEPOSIT", event |-> None]
           /\ status'[o] = "WAITING_DEPOSIT"
           /\ \A x \in Orders \ {o} :
                 timeline'[x] = timeline[x] /\ status'[x] = status[x]
           /\ processed' = processed
BY DEF TypeOK, Create

\* Every row of the timeline stands for an event that was processed, as the
\* transaction that writes one also writes the other.
Recorded(o, i) ==
    LET e == timeline[o][i].event IN
    e # None => /\ e \in processed /\ EventClass[e] = "valid"
                /\ EventOrder[e] = o
                /\ timeline[o][i].status = Target(EventKind[e])

\* No step breaks ExactlyOnce: an applied event had no row before.
LEMMA ExactlyOnceStep == SafetyInv /\ ExactlyOnce /\ [Next]_vars => ExactlyOnce'
<1> SUFFICES ASSUME SafetyInv, ExactlyOnce, [Next]_vars PROVE ExactlyOnce'
  OBVIOUS
<1>t. TypeOK
  BY DEF SafetyInv
<1>h. /\ \A o \in Orders : \A i \in DOMAIN timeline[o] : Recorded(o, i)
      /\ \A e \in processed : \E i \in DOMAIN timeline[EventOrder[e]] :
            timeline[EventOrder[e]][i].event = e
      /\ \A o \in Orders, e \in Events : \A i, j \in DOMAIN timeline[o] :
            timeline[o][i].event = e /\ timeline[o][j].event = e => i = j
  BY DEF ExactlyOnce, Recorded, RowsFor
<1> SUFFICES
      /\ \A o \in Orders : \A i \in DOMAIN timeline'[o] : Recorded(o, i)'
      /\ \A e \in processed' : \E i \in DOMAIN timeline'[EventOrder[e]] :
            timeline'[EventOrder[e]][i].event = e
      /\ \A o \in Orders, e \in Events : \A i, j \in DOMAIN timeline'[o] :
            timeline'[o][i].event = e /\ timeline'[o][j].event = e => i = j
  BY DEF ExactlyOnce, Recorded, RowsFor
<1>1. CASE UNCHANGED <<timeline, processed>>
  BY <1>1, <1>h DEF Recorded
<1>2. ASSUME NEW x \in Orders, Create(x)
      PROVE  /\ \A o \in Orders : \A i \in DOMAIN timeline'[o] : Recorded(o, i)'
             /\ \A e \in processed' : \E i \in DOMAIN timeline'[EventOrder[e]] :
                   timeline'[EventOrder[e]][i].event = e
             /\ \A o \in Orders, e \in Events : \A i, j \in DOMAIN timeline'[o] :
                   timeline'[o][i].event = e /\ timeline'[o][j].event = e => i = j
  <2>1. /\ DOMAIN timeline'[x] = {1}
        /\ timeline'[x][1].event = None
        /\ \A o \in Orders \ {x} : timeline'[o] = timeline[o]
        /\ processed' = processed
    BY <1>t, <1>2, CreatedRow
  <2>2. \A e \in processed : e \in Events /\ EventOrder[e] \in Orders
                             /\ EventOrder[e] # x
    BY <1>2, NoneAssumption, EventAssumption
    DEF Create, SafetyInv, TypeOK, ProcessedInv
  <2>3. \A o \in Orders : \A i \in DOMAIN timeline'[o] : Recorded(o, i)'
    BY <1>h, <2>1 DEF Recorded
  <2>4. \A e \in processed' : \E i \in DOMAIN timeline'[EventOrder[e]] :
            timeline'[EventOrder[e]][i].event = e
    BY <1>h, <2>1, <2>2
  <2>5. \A o \in Orders, e \in Events : \A i, j \in DOMAIN timeline'[o] :
            timeline'[o][i].event = e /\ timeline'[o][j].event = e => i = j
    BY <1>h, <2>1
  <2> QED BY <2>3, <2>4, <2>5
<1>3. ASSUME NEW f \in Events, Applies(f)
      PROVE  /\ \A o \in Orders : \A i \in DOMAIN timeline'[o] : Recorded(o, i)'
             /\ \A e \in processed' : \E i \in DOMAIN timeline'[EventOrder[e]] :
                   timeline'[EventOrder[e]][i].event = e
             /\ \A o \in Orders, e \in Events : \A i, j \in DOMAIN timeline'[o] :
                   timeline'[o][i].event = e /\ timeline'[o][j].event = e => i = j
  <2> DEFINE x == EventOrder[f]
             n == Len(timeline[x])
  <2>1. /\ x \in Orders
        /\ DOMAIN timeline'[x] = 1..(n + 1)
        /\ \A i \in DOMAIN timeline[x] : timeline'[x][i] = timeline[x][i]
        /\ timeline'[x][n + 1] = RowOf(f)
        /\ \A o \in Orders \ {x} : timeline'[o] = timeline[o]
    BY <1>t, <1>3, AppendedRow DEF Applies
  <2>2. n \in Nat /\ DOMAIN timeline[x] = 1..n
    BY <1>t, <2>1, TimelineType
  <2>3. /\ f \notin processed /\ processed' = processed \cup {f}
        /\ EventClass[f] = "valid" /\ processed \subseteq Events
        /\ RowOf(f).event = f /\ RowOf(f).status = Target(EventKind[f])
    BY <1>t, <1>3, EffectsFrame DEF Applies, RowOf, TypeOK
  <2>4. f # None
    BY NoneAssumption
  <2>5. \A i \in DOMAIN timeline[x] : timeline[x][i].event # f
    BY <1>h, <2>1, <2>3, <2>4 DEF Recorded
  <2>6. \A e \in processed : EventOrder[e] \in Orders
    BY <2>3, EventAssumption
  <2> HIDE DEF n
  <2>7. DOMAIN timeline'[x] = DOMAIN timeline[x] \cup {n + 1}
    BY <2>1, <2>2
  <2>8. \A o \in Orders : \A i \in DOMAIN timeline'[o] : Recorded(o, i)'
    <3> SUFFICES ASSUME NEW o \in Orders, NEW i \in DOMAIN timeline'[o]
                 PROVE  Recorded(o, i)'
      OBVIOUS
    <3>1. CASE o = x /\ i = n + 1
      BY <3>1, <2>1, <2>3 DEF Recorded
    <3>2. CASE o = x /\ i \in DOMAIN timeline[x]
      BY <3>2, <1>h, <2>1, <2>3 DEF Recorded
    <3>3. CASE o # x
      BY <3>3, <1>h, <2>1, <2>3 DEF Recorded
    <3> QED BY <3>1, <3>2, <3>3, <2>7
  <2>9. \A e \in processed' : \E i \in DOMAIN timeline'[EventOrder[e]] :
            timeline'[EventOrder[e]][i].event = e
    <3>1. timeline'[x][n + 1].event = f /\ n + 1 \in DOMAIN timeline'[x]
      BY <2>1, <2>3, <2>7
    <3>2. ASSUME NEW e \in processed
          PROVE  \E i \in DOMAIN timeline'[EventOrder[e]] :
                    timeline'[EventOrder[e]][i].event = e
      <4>1. PICK i \in DOMAIN timeline[EventOrder[e]] :
                    timeline[EventOrder[e]][i].event = e
        BY <1>h
      <4>2. CASE EventOrder[e] = x
        BY <4>1, <4>2, <2>1, <2>7
      <4>3. CASE EventOrder[e] # x
        BY <4>1, <4>3, <2>1, <2>6
      <4> QED BY <4>2, <4>3
    <3> QED BY <3>1, <3>2, <2>3
  <2>10. \A o \in Orders, e \in Events : \A i, j \in DOMAIN timeline'[o] :
            timeline'[o][i].event = e /\ timeline'[o][j].event = e => i = j
    <3> SUFFICES ASSUME NEW o \in Orders, NEW e \in Events,
                        NEW i \in DOMAIN timeline'[o], NEW j \in DOMAIN timeline'[o],
                        timeline'[o][i].event = e, timeline'[o][j].event = e
                 PROVE  i = j
      OBVIOUS
    <3>1. CASE o # x
      BY <3>1, <1>h, <2>1
    <3>2. CASE o = x /\ e = f
      <4>1. \A k \in DOMAIN timeline[x] : timeline'[x][k].event # f
        BY <2>1, <2>5
      <4>2. i = n + 1
        BY <3>2, <4>1, <2>7
      <4>3. j = n + 1
        BY <3>2, <4>1, <2>7
      <4> QED BY <4>2, <4>3
    <3>3. CASE o = x /\ e # f
      <4>1. i \in DOMAIN timeline[x]
        BY <3>3, <2>1, <2>3, <2>7
      <4>2. j \in DOMAIN timeline[x]
        BY <3>3, <2>1, <2>3, <2>7
      <4>3. timeline[x][i].event = e
        BY <3>3, <4>1, <2>1
      <4>4. timeline[x][j].event = e
        BY <3>3, <4>2, <2>1
      <4> QED BY <4>1, <4>2, <4>3, <4>4, <1>h, <2>1
    <3> QED BY <3>1, <3>2, <3>3
  <2> QED BY <2>8, <2>9, <2>10
<1>4. ASSUME NEW x \in Orders, NEW s \in Status, OperatorMove(x, s)
      PROVE  UNCHANGED <<timeline, processed>>
  BY <1>4 DEF OperatorMove
<1>5. CASE UNCHANGED database
  BY <1>1, <1>5 DEF database
<1> QED BY <1>1, <1>2, <1>3, <1>4, <1>5, DatabaseStep

\* However often an event is delivered, it leaves exactly one timeline row.
THEOREM EventsApplyOnce == Spec => []ExactlyOnce
<1>1. Init => ExactlyOnce
  BY DEF Init, ExactlyOnce, RowsFor
<1> QED BY <1>1, ExactlyOnceStep, Safety, PTL DEF Spec

-----------------------------------------------------------------------------
(***************************************************************************)
(* The order of the timeline.                                              *)
(***************************************************************************)

\* Ranks on the timeline of an order increase and stay below its status.
Climbs(o) ==
    /\ \A i, j \in DOMAIN timeline[o] :
          i < j => Rank(timeline[o][i].status) < Rank(timeline[o][j].status)
    /\ \A i \in DOMAIN timeline[o] :
          /\ status[o] # None
          /\ Rank(timeline[o][i].status) <= Rank(status[o])

\* A status that only climbs leaves the timeline below it.
LEMMA ClimbsUnderStatus ==
    ASSUME SafetyInv, NEW o \in Orders, Climbs(o), timeline'[o] = timeline[o],
           status'[o] = status[o] \/ ( /\ status[o] \in Status
                                       /\ status'[o] \in Status
                                       /\ CanTransition(status[o], status'[o]))
    PROVE  Climbs(o)'
<1>1. CASE status'[o] = status[o]
  BY <1>1 DEF Climbs
<1>2. CASE /\ status[o] \in Status /\ status'[o] \in Status
           /\ CanTransition(status[o], status'[o])
  <2>1. /\ Rank(status[o]) \in Nat /\ Rank(status'[o]) \in Nat
        /\ Rank(status[o]) < Rank(status'[o])
        /\ status'[o] # None
    BY <1>2, RankType, TransitionsClimb, NoneAssumption
  <2>2. \A i \in DOMAIN timeline[o] : Rank(timeline[o][i].status) \in Nat
    BY TimelineType, RankType DEF SafetyInv
  <2>3. \A i \in DOMAIN timeline'[o] :
            Rank(timeline'[o][i].status) <= Rank(status'[o])
    BY <2>1, <2>2 DEF Climbs
  <2> QED BY <2>1, <2>3 DEF Climbs
<1> QED BY <1>1, <1>2

\* No step breaks TimelineAdvances: a new row is above the old status.
LEMMA AdvanceStep ==
    SafetyInv /\ TimelineAdvances /\ [Next]_vars => TimelineAdvances'
<1> SUFFICES ASSUME SafetyInv, TimelineAdvances, [Next]_vars, NEW o \in Orders
             PROVE  Climbs(o)'
  BY DEF TimelineAdvances, Climbs
<1>t. TypeOK
  BY DEF SafetyInv
<1>h. Climbs(o)
  BY DEF TimelineAdvances, Climbs
<1>1. CASE UNCHANGED database
  BY <1>1, <1>h DEF database, Climbs
<1>2. ASSUME NEW x \in Orders, Create(x) PROVE Climbs(o)'
  <2>1. CASE o = x
    <3>1. /\ DOMAIN timeline'[o] = {1} /\ status'[o] = "WAITING_DEPOSIT"
          /\ timeline'[o][1].status = "WAITING_DEPOSIT"
      BY <1>t, <1>2, <2>1, CreatedRow
    <3>2. "WAITING_DEPOSIT" # None /\ Rank("WAITING_DEPOSIT") \in Nat
      BY NoneAssumption, RankType DEF Status
    <3> QED BY <3>1, <3>2 DEF Climbs
  <2>2. CASE o # x
    <3>1. timeline'[o] = timeline[o] /\ status'[o] = status[o]
      BY <1>t, <1>2, <2>2, CreatedRow
    <3> QED BY <3>1, <1>h, ClimbsUnderStatus
  <2> QED BY <2>1, <2>2
<1>3. ASSUME NEW f \in Events, Applies(f) PROVE Climbs(o)'
  <2> DEFINE x == EventOrder[f]
             n == Len(timeline[x])
             t == Target(EventKind[f])
  <2>1. /\ x \in Orders
        /\ DOMAIN timeline'[x] = 1..(n + 1)
        /\ \A i \in DOMAIN timeline[x] : timeline'[x][i] = timeline[x][i]
        /\ timeline'[x][n + 1].status = t
        /\ \A y \in Orders \ {x} : timeline'[y] = timeline[y]
        /\ status'[x] = t
        /\ \A y \in Orders \ {x} : status'[y] = status[y]
    <3>1. /\ x \in Orders
          /\ DOMAIN timeline'[x] = 1..(n + 1)
          /\ \A i \in DOMAIN timeline[x] : timeline'[x][i] = timeline[x][i]
          /\ timeline'[x][n + 1] = RowOf(f)
          /\ \A y \in Orders \ {x} : timeline'[y] = timeline[y]
      BY <1>t, <1>3, AppendedRow DEF Applies
    <3>2. /\ status'[x] = t
          /\ \A y \in Orders \ {x} : status'[y] = status[y]
      BY <1>t, <1>3, EffectsFrame DEF Applies
    <3>3. RowOf(f).status = t
      BY DEF RowOf
    <3> QED BY <3>1, <3>2, <3>3
  <2>2. CASE o # x
    BY <2>1, <2>2, <1>h, ClimbsUnderStatus
  <2>3. CASE o = x
    <3>1. /\ n \in Nat /\ DOMAIN timeline[x] = 1..n
          /\ \A i \in DOMAIN timeline[x] : Rank(timeline[x][i].status) \in Nat
      BY <1>t, <2>1, TimelineType, RankType
    <3>2. t \in Status /\ status[x] \in Status /\ CanTransition(status[x], t)
      BY <1>3, EventAssumption, TargetType DEF Applies
    <3>3. /\ Rank(status[x]) \in Nat /\ Rank(t) \in Nat
          /\ Rank(status[x]) < Rank(t) /\ t # None
      BY <3>2, RankType, TransitionsClimb, NoneAssumption
    <3>4. \A i \in DOMAIN timeline[x] : Rank(timeline[x][i].status) < Rank(t)
      BY <3>1, <3>3, <1>h, <2>3 DEF Climbs
    <3> HIDE DEF n, t
    <3>5. DOMAIN timeline'[x] = DOMAIN timeline[x] \cup {n + 1}
      BY <3>1, <2>1
    <3>6. \A i \in DOMAIN timeline'[x] :
             Rank(timeline'[x][i].status) <= Rank(t)
      BY <3>1, <3>3, <3>4, <3>5, <2>1
    <3>7. ASSUME NEW i \in DOMAIN timeline'[x], NEW j \in DOMAIN timeline'[x], i < j
          PROVE  Rank(timeline'[x][i].status) < Rank(timeline'[x][j].status)
      <4>1. i \in DOMAIN timeline[x]
        BY <3>1, <3>7, <2>1
      <4>2. CASE j \in DOMAIN timeline[x]
        BY <4>1, <4>2, <3>7, <1>h, <2>1, <2>3 DEF Climbs
      <4>3. CASE j = n + 1
        BY <4>1, <4>3, <3>4, <2>1
      <4> QED BY <4>2, <4>3, <3>5
    <3>8. status'[x] # None /\ Rank(status'[x]) = Rank(t)
      BY <3>3, <2>1
    <3> HIDE DEF x
    <3>9. Climbs(x)'
      BY <3>6, <3>7, <3>8 DEF Climbs
    <3> QED BY <3>9, <2>3
  <2> QED BY <2>2, <2>3
<1>4. ASSUME NEW x \in Orders, NEW s \in Status, OperatorMove(x, s)
      PROVE  Climbs(o)'
  <2>1. timeline' = timeline /\ status' = [status EXCEPT ![x] = s]
    BY <1>4 DEF OperatorMove
  <2>2. status[x] \in Status /\ CanTransition(status[x], s)
    BY <1>4, <1>t DEF OperatorMove, TypeOK
  <2>3. \/ status'[o] = status[o]
        \/ /\ status[o] \in Status /\ status'[o] \in Status
           /\ CanTransition(status[o], status'[o])
    BY <2>1, <2>2, <1>t DEF TypeOK
  <2> QED BY <2>1, <2>3, <1>h, ClimbsUnderStatus
<1> QED BY <1>1, <1>2, <1>3, <1>4, DatabaseStep

\* The timeline moves forward only and never runs ahead of the order.
THEOREM TimelineClimbs == Spec => []TimelineAdvances
<1>1. Init => TimelineAdvances
  BY DEF Init, TimelineAdvances
<1> QED BY <1>1, AdvanceStep, Safety, PTL DEF Spec

-----------------------------------------------------------------------------
(***************************************************************************)
(* The status events.  An order can be received at the foreign warehouse   *)
(* from two statuses, and the event it then publishes always names the     *)
(* first.  The second is reached through PURCHASED only, and only by hand. *)
(***************************************************************************)

\* Operators do not take an order all the way to the foreign warehouse.
PurchaseIsNotTracked ==
    ~({"PURCHASED", "IN_TRANSIT_TO_FOREIGN_WAREHOUSE"} \subseteq OperatorMoves)

\* Then no order is ever on its way there.
NoneOnTheWay ==
    \A o \in Orders :
        /\ status[o] # "IN_TRANSIT_TO_FOREIGN_WAREHOUSE"
        /\ "PURCHASED" \notin OperatorMoves => status[o] # "PURCHASED"

\* A transition to the target of an event starts where the event says, or on
\* the way to the foreign warehouse; and the way there starts with PURCHASED.
LEMMA SourceOfTarget ==
    /\ \A k \in Kinds : \A s :
          CanTransition(s, Target(k)) =>
             s = Previous(k) \/ s = "IN_TRANSIT_TO_FOREIGN_WAREHOUSE"
    /\ \A s : CanTransition(s, "IN_TRANSIT_TO_FOREIGN_WAREHOUSE") =>
              s = "PURCHASED"
    /\ \A k \in Kinds :
          Target(k) \notin {"PURCHASED", "IN_TRANSIT_TO_FOREIGN_WAREHOUSE"}
BY DEF Kinds, CanTransition, Allowed, Target, Previous

\* The events of the consumers never put an order on its way, and no operator
\* can do both steps.
LEMMA OnTheWayStep ==
    ASSUME PurchaseIsNotTracked, SafetyInv, NoneOnTheWay, [Next]_vars
    PROVE  NoneOnTheWay'
<1> SUFFICES ASSUME NEW o \in Orders
             PROVE  /\ status'[o] # "IN_TRANSIT_TO_FOREIGN_WAREHOUSE"
                    /\ "PURCHASED" \notin OperatorMoves =>
                          status'[o] # "PURCHASED"
  BY DEF NoneOnTheWay
<1>t. TypeOK
  BY DEF SafetyInv
<1>h. /\ status[o] # "IN_TRANSIT_TO_FOREIGN_WAREHOUSE"
      /\ "PURCHASED" \notin OperatorMoves => status[o] # "PURCHASED"
  BY DEF NoneOnTheWay
<1>1. CASE UNCHANGED database
  BY <1>1, <1>h DEF database
<1>2. ASSUME NEW x \in Orders, Create(x)
      PROVE  status'[o] \in {status[o], "WAITING_DEPOSIT"}
  BY <1>t, <1>2, CreatedRow
<1>3. ASSUME NEW e \in Events, Applies(e)
      PROVE  status'[o] \in {status[o], Target(EventKind[e])}
  BY <1>t, <1>3, EffectsFrame DEF Applies
<1>4. ASSUME NEW x \in Orders, NEW s \in Status, OperatorMove(x, s)
      PROVE  \/ status'[o] = status[o]
             \/ /\ status'[o] \in OperatorMoves
                /\ CanTransition(status[o], status'[o])
  BY <1>t, <1>4 DEF OperatorMove, TypeOK
<1>5. \A e \in Events : EventKind[e] \in Kinds
  BY EventAssumption
<1> QED
  BY <1>h, <1>1, <1>2, <1>3, <1>4, <1>5, DatabaseStep, SourceOfTarget
  DEF PurchaseIsNotTracked

\* An applied event adds one status event, about its own order.
LEMMA AppendedStatusEvent ==
    ASSUME TypeOK, NEW e \in Events, Effects(e), NEW o, o = EventOrder[e]
    PROVE  /\ Len(outbox'[o]) = Len(outbox[o]) + 1
           /\ outbox'[o][Len(outbox'[o])].prev = Previous(EventKind[e])
           /\ \A x \in Orders \ {o} : outbox'[x] = outbox[x]
<1> DEFINE R == [prev: Status \cup {None}, curr: Status]
           r == [prev |-> Previous(EventKind[e]), curr |-> Target(EventKind[e])]
<1>1. o \in Orders /\ EventKind[e] \in Kinds
  BY EventAssumption
<1>2. r \in R
  BY <1>1 DEF Kinds, Previous, Target, Status
<1>3. outbox[o] \in Seq(R) /\ r.prev = Previous(EventKind[e])
  BY <1>1 DEF TypeOK
<1>4. /\ outbox'[o] = Append(outbox[o], r)
      /\ \A x \in Orders \ {o} : outbox'[x] = outbox[x]
  BY <1>1 DEF TypeOK, Effects
<1> HIDE DEF R, r
<1> QED BY <1>2, <1>3, <1>4

\* A step that publishes a status event names the status the order has left.
LEMMA TruthfulStep ==
    ASSUME SafetyInv, NoneOnTheWay, [Next]_vars
    PROVE  TruthfulPrevious
<1> SUFFICES ASSUME NEW o \in Orders, status[o] # None,
                    Len(outbox'[o]) > Len(outbox[o])
             PROVE  outbox'[o][Len(outbox'[o])].prev = status[o]
  BY DEF TruthfulPrevious
<1>t. TypeOK
  BY DEF SafetyInv
<1>0. outbox'[o] # outbox[o]
  <2>1. Len(outbox[o]) \in Nat
    <3> DEFINE R == [prev: Status \cup {None}, curr: Status]
    <3>1. outbox[o] \in Seq(R)
      BY <1>t DEF TypeOK
    <3> HIDE DEF R
    <3> QED BY <3>1
  <2> QED BY <2>1
<1>1. ~UNCHANGED database
  BY <1>0 DEF database
<1>2. ASSUME NEW x \in Orders, Create(x) PROVE FALSE
  <2>1. x # o
    BY <1>2 DEF Create
  <2> QED BY <1>t, <1>0, <1>2, <2>1 DEF Create, TypeOK
<1>3. ASSUME NEW x \in Orders, NEW s \in Status, OperatorMove(x, s) PROVE FALSE
  BY <1>0, <1>3 DEF OperatorMove
<1>4. ASSUME NEW e \in Events, Applies(e)
      PROVE  outbox'[o][Len(outbox'[o])].prev = status[o]
  <2>1. Effects(e)
    BY <1>4 DEF Applies
  <2>2. EventOrder[e] = o
    BY <1>t, <1>0, <2>1, AppendedStatusEvent
  <2>3. EventKind[e] \in Kinds /\ CanTransition(status[o], Target(EventKind[e]))
    BY <1>4, <2>2, EventAssumption DEF Applies
  <2>4. status[o] = Previous(EventKind[e])
    BY <2>3, SourceOfTarget DEF NoneOnTheWay
  <2> QED BY <1>t, <2>1, <2>2, <2>4, AppendedStatusEvent
<1> QED BY <1>1, <1>2, <1>3, <1>4, DatabaseStep

\* Unless operators take orders through PURCHASED to the foreign warehouse,
\* the previous status in every status event, a constant of its handler
\* (service.go:157, 180, 208), is the one the order has left.
THEOREM PreviousStatusIsTrue ==
    PurchaseIsNotTracked => (Spec => PreviousIsTruthful)
<1> SUFFICES ASSUME PurchaseIsNotTracked PROVE Spec => PreviousIsTruthful
  OBVIOUS
<1>1. Init => NoneOnTheWay
  BY NoneAssumption DEF Init, NoneOnTheWay, Status
<1>2. SafetyInv /\ NoneOnTheWay /\ [Next]_vars => NoneOnTheWay'
  BY OnTheWayStep
<1>3. SafetyInv /\ NoneOnTheWay /\ [Next]_vars => [TruthfulPrevious]_vars
  BY TruthfulStep
<1> QED BY <1>1, <1>2, <1>3, Safety, PTL DEF Spec, PreviousIsTruthful

-----------------------------------------------------------------------------
(***************************************************************************)
(* Causes.  An order moves for nothing but an accepted payment or package; *)
(* and what was accepted can be applied, whenever it arrives, if nothing   *)
(* else moves the order away from the status it was accepted for.  The     *)
(* second is the part of AcceptedIsApplied that is not about fairness.     *)
(***************************************************************************)

\* Whatever is in the log, in doubt or processed was accepted.
Caused ==
    /\ \A p \in Partitions : \A i \in DOMAIN log[p] : log[p][i] \in accepted
    /\ \A o \in Orders : indoubt[o] # None => indoubt[o] \in accepted
    /\ processed \subseteq accepted

\* The record in hand was accepted.
LEMMA InHandIsAccepted ==
    ASSUME SafetyInv, Caused, NEW c \in Consumers, pc[c] # "idle"
    PROVE  Rec(c) \in accepted
<1>1. at[c] \in Partitions /\ position[at[c]] \in 1..Len(log[at[c]])
  BY DEF SafetyInv, RecordInv
<1>2. log[at[c]] \in Seq(Events)
  BY <1>1 DEF SafetyInv, TypeOK
<1> QED BY <1>1, <1>2 DEF Caused, Rec

\* DatabaseStep, with what was accepted.
LEMMA CausedStep ==
    ASSUME SafetyInv, Caused, [Next]_vars
    PROVE  \/ accepted' = accepted /\ \E o \in Orders : Create(o)
           \/ accepted' = accepted /\ \E e \in accepted : Applies(e)
           \/ /\ accepted' = accepted
              /\ \E o \in Orders, s \in Status : OperatorMove(o, s)
           \/ \E e \in Events : Accept(e) /\ UNCHANGED database
           \/ UNCHANGED <<database, accepted>>
<1>1. ASSUME NEW c \in Consumers, Consume(c), ~Commit(c)
      PROVE  UNCHANGED <<database, accepted>>
  BY <1>1 DEF Consume, Poll, PollError, Refuse, CheckProcessed, LockOrder,
          OrderNotFound, Reject, StatementError, CommitUnacknowledged,
          CommitOffset
<1>2. ASSUME NEW c \in Consumers, Commit(c)
      PROVE  accepted' = accepted /\ \E e \in accepted : Applies(e)
  BY <1>2, InHandIsAccepted, CommitApplies DEF Commit
<1>3. ASSUME NEW o \in Orders, ServerCommits(o)
      PROVE  accepted' = accepted /\ \E e \in accepted : Applies(e)
  BY <1>3, ServerCommitApplies DEF ServerCommits, Caused
<1>4. ASSUME NEW o \in Orders, ServerAborts(o)
      PROVE  UNCHANGED <<database, accepted>>
  BY <1>4 DEF ServerAborts
<1>5. ASSUME NEW e \in Events, Publish(e) PROVE UNCHANGED <<database, accepted>>
  BY <1>5 DEF Publish
<1>6. ASSUME NEW e \in Events, Accept(e) PROVE UNCHANGED database
  BY <1>6 DEF Accept
<1>7. CASE Crash
  BY <1>7 DEF Crash
<1>8. CASE UNCHANGED vars
  BY <1>8 DEF vars
<1>9. ASSUME NEW o \in Orders, Create(o) PROVE accepted' = accepted
  BY <1>9 DEF Create
<1>10. ASSUME NEW o \in Orders, NEW s \in Status, OperatorMove(o, s)
       PROVE  accepted' = accepted
  BY <1>10 DEF OperatorMove
<1> QED
  BY <1>1, <1>2, <1>3, <1>4, <1>5, <1>6, <1>7, <1>8, <1>9, <1>10 DEF Next

\* A step adds to the log and to the transactions in doubt what was accepted.
LEMMA CausedKept == SafetyInv /\ Caused /\ [Next]_vars => Caused'
<1> SUFFICES ASSUME SafetyInv, Caused, [Next]_vars PROVE Caused'
  OBVIOUS
<1>t. TypeOK
  BY DEF SafetyInv
<1>1. accepted \subseteq accepted' /\ processed' \subseteq accepted'
  <2>1. ASSUME NEW e \in accepted, Applies(e)
        PROVE  processed' \subseteq accepted
    BY <2>1 DEF Applies, Effects, Caused
  <2>2. ASSUME NEW o \in Orders, Create(o) PROVE processed' = processed
    BY <2>2 DEF Create
  <2>3. ASSUME NEW o \in Orders, NEW s \in Status, OperatorMove(o, s)
        PROVE  processed' = processed
    BY <2>3 DEF OperatorMove
  <2>4. ASSUME NEW e \in Events, Accept(e)
        PROVE  accepted' = accepted \cup {e} /\ processed' = processed
    BY <2>4 DEF Accept, database
  <2> QED BY <2>1, <2>2, <2>3, <2>4, CausedStep DEF Caused, database
<1>2. ASSUME NEW e \in Events, Publish(e)
      PROVE  /\ \A p \in Partitions : \A i \in DOMAIN log'[p] :
                   log'[p][i] \in accepted'
             /\ indoubt' = indoubt
  <2>1. /\ e \in accepted /\ accepted' = accepted /\ indoubt' = indoubt
        /\ log' = [log EXCEPT ![PartitionOf(e)] = Append(@, e)]
    BY <1>2 DEF Publish, locks
  <2>2. ASSUME NEW p \in Partitions, NEW i \in DOMAIN log'[p]
        PROVE  log'[p][i] \in accepted
    <3>1. log[p] \in Seq(Events)
      BY <1>t DEF TypeOK
    <3>2. log'[p] = IF p = PartitionOf(e) THEN Append(log[p], e) ELSE log[p]
      BY <1>t, <2>1 DEF TypeOK
    <3>3. \A j \in DOMAIN log[p] : log[p][j] \in accepted
      BY DEF Caused
    <3> QED BY <2>1, <2>2, <3>1, <3>2, <3>3
  <2> QED BY <2>1, <2>2
<1>3. ASSUME NEW c \in Consumers, CommitUnacknowledged(c)
      PROVE  /\ log' = log
             /\ \A o \in Orders : indoubt'[o] # None => indoubt'[o] \in accepted
  <2>1. /\ log' = log /\ pc[c] # "idle"
        /\ indoubt' = [indoubt EXCEPT ![EventOrder[Rec(c)]] = Rec(c)]
    BY <1>3 DEF CommitUnacknowledged, broker
  <2> QED BY <1>t, <2>1, InHandIsAccepted DEF TypeOK, Caused
<1>4. ASSUME NEW o \in Orders, ServerCommits(o) \/ ServerAborts(o)
      PROVE  log' = log /\ indoubt' = [indoubt EXCEPT ![o] = None]
  BY <1>4 DEF ServerCommits, ServerAborts, broker
<1>5. ASSUME NEW o \in Orders, Create(o) PROVE UNCHANGED <<log, indoubt>>
  BY <1>5 DEF Create, locks, broker
<1>6. ASSUME NEW o \in Orders, NEW s \in Status, OperatorMove(o, s)
      PROVE  UNCHANGED <<log, indoubt>>
  BY <1>6 DEF OperatorMove, locks, broker
<1>7. ASSUME NEW e \in Events, Accept(e) PROVE UNCHANGED <<log, indoubt>>
  BY <1>7 DEF Accept, locks, broker
<1>8. ASSUME NEW c \in Consumers, Consume(c), ~CommitUnacknowledged(c)
      PROVE  UNCHANGED <<log, indoubt>>
  BY <1>8 DEF Consume, Poll, PollError, Refuse, CheckProcessed, LockOrder,
          OrderNotFound, Reject, StatementError, Commit, CommitOffset, locks,
          broker
<1>9. ASSUME Crash PROVE UNCHANGED <<log, indoubt>>
  BY <1>9 DEF Crash, broker
<1>10. ASSUME UNCHANGED vars PROVE UNCHANGED <<log, indoubt>>
  BY <1>10 DEF vars, locks, broker
<1>11. \A p \in Partitions : \A i \in DOMAIN log'[p] : log'[p][i] \in accepted'
  BY <1>1, <1>2, <1>3, <1>4, <1>5, <1>6, <1>7, <1>8, <1>9, <1>10 DEF Next, Caused
<1>12. \A o \in Orders : indoubt'[o] # None => indoubt'[o] \in accepted'
  <2>1. ASSUME NEW o \in Orders, ServerCommits(o) \/ ServerAborts(o)
        PROVE  \A x \in Orders : indoubt'[x] \in {indoubt[x], None}
    BY <1>t, <2>1, <1>4 DEF TypeOK
  <2> QED
    BY <1>1, <1>2, <1>3, <1>5, <1>6, <1>7, <1>8, <1>9, <1>10, <2>1
    DEF Next, Caused
<1> QED BY <1>1, <1>11, <1>12 DEF Caused

\* Whatever is published, redelivered or left in doubt, an order moves only for
\* payments and packages that their services have accepted.
THEOREM EffectsHaveACause == Spec => []Caused
<1>1. Init => Caused
  BY DEF Init, Caused
<1> QED BY <1>1, CausedKept, Safety, PTL DEF Spec

\* Operators leave an order alone while it waits for an event.
OperatorsStandBack ==
    \A k \in Kinds : \A s \in OperatorMoves : ~CanTransition(Required(k), s)

\* No order comes in two packages.
OnePackage ==
    \A e, f \in Events :
        /\ EventClass[e] = "valid" /\ EventClass[f] = "valid"
        /\ EventKind[e] = "package" /\ EventKind[f] = "package"
        /\ EventOrder[e] = EventOrder[f]
        => e = f

\* Of a kind and an order one valid event at most is accepted.
OneAccepted ==
    \A e, f \in accepted :
        /\ EventClass[e] = "valid" /\ EventClass[f] = "valid"
        /\ EventKind[e] = EventKind[f] /\ EventOrder[e] = EventOrder[f]
        => e = f

\* Its order stays in the status it was accepted for until it is processed.
AcceptedIsAwaited ==
    \A e \in accepted :
        EventClass[e] = "valid" /\ e \notin processed =>
            status[EventOrder[e]] = Required(EventKind[e])

\* An accepted event that is not yet processed is one its order admits: no
\* consumer refuses it and then tries it for ever.
AcceptedIsAdmissible ==
    \A e \in accepted :
        EventClass[e] = "valid" /\ e \notin processed =>
            CanTransition(status[EventOrder[e]], Target(EventKind[e]))

\* The required statuses are different, and each admits its event and no other.
LEMMA RequiredAdmits ==
    /\ \A k \in Kinds : Required(k) \in Status
    /\ \A k, l \in Kinds : CanTransition(Required(k), Target(l)) <=> k = l
BY DEF Kinds, Required, Target, CanTransition, Allowed, Status

LEMMA OneAcceptedStep ==
    ASSUME OnePackage, SafetyInv, Caused, OneAccepted, [Next]_vars
    PROVE  OneAccepted'
<1>1. CASE accepted' = accepted
  BY <1>1 DEF OneAccepted
<1>2. ASSUME NEW e \in Events, Accept(e) PROVE OneAccepted'
  <2>1. accepted' = accepted \cup {e} /\ accepted \subseteq Events
    BY <1>2 DEF Accept, SafetyInv, TypeOK
  <2>2. ASSUME NEW f \in accepted,
               EventClass[e] = "valid", EventClass[f] = "valid",
               EventKind[e] = EventKind[f], EventOrder[e] = EventOrder[f]
        PROVE  e = f
    BY <1>2, <2>1, <2>2 DEF Accept, OnePackage
  <2> QED BY <2>1, <2>2 DEF OneAccepted
<1> QED BY <1>1, <1>2, CausedStep

\* Only the event itself moves its order on.
LEMMA AwaitedStep ==
    ASSUME OperatorsStandBack, SafetyInv, Caused, OneAccepted,
           AcceptedIsAwaited, [Next]_vars
    PROVE  AcceptedIsAwaited'
<1> SUFFICES ASSUME NEW e \in accepted', EventClass[e] = "valid",
                    e \notin processed'
             PROVE  status'[EventOrder[e]] = Required(EventKind[e])
  BY DEF AcceptedIsAwaited
<1> DEFINE o == EventOrder[e]
           r == Required(EventKind[e])
<1>t. TypeOK /\ accepted \subseteq Events
  BY DEF SafetyInv, TypeOK
<1>1. ASSUME NEW f \in Events, Accept(f), UNCHANGED database
      PROVE  status'[o] = r
  BY <1>1 DEF Accept, database, AcceptedIsAwaited
<1>2. CASE UNCHANGED <<database, accepted>>
  BY <1>2 DEF database, AcceptedIsAwaited
<1>3. ASSUME e \in accepted, e \notin processed
      PROVE  /\ o \in Orders /\ EventKind[e] \in Kinds
             /\ status[o] = r /\ r \in Status /\ r # None
  BY <1>t, <1>3, EventAssumption, RequiredAdmits, NoneAssumption
  DEF AcceptedIsAwaited
<1>4. ASSUME NEW x \in Orders, Create(x), accepted' = accepted
      PROVE  status'[o] = r
  <2>1. processed' = processed /\ status[x] = None
    BY <1>4 DEF Create
  <2>2. x # o
    BY <1>3, <1>4, <2>1
  <2> QED BY <1>t, <1>3, <1>4, <2>1, <2>2, CreatedRow
<1>5. ASSUME NEW x \in Orders, NEW s \in Status, OperatorMove(x, s),
             accepted' = accepted
      PROVE  status'[o] = r
  <2>1. /\ processed' = processed /\ status' = [status EXCEPT ![x] = s]
        /\ s \in OperatorMoves /\ CanTransition(status[x], s)
    BY <1>5 DEF OperatorMove
  <2>2. x # o
    BY <1>3, <1>5, <2>1 DEF OperatorsStandBack
  <2> QED BY <1>t, <1>3, <1>5, <2>1, <2>2 DEF TypeOK
<1>6. ASSUME NEW f \in accepted, Applies(f), accepted' = accepted
      PROVE  status'[o] = r
  <2>1. /\ f \in Events /\ EventClass[f] = "valid" /\ Effects(f)
        /\ CanTransition(status[EventOrder[f]], Target(EventKind[f]))
    BY <1>t, <1>6 DEF Applies
  <2>2. /\ processed' = processed \cup {f}
        /\ \A x \in Orders \ {EventOrder[f]} : status'[x] = status[x]
    BY <1>t, <2>1, EffectsFrame
  <2>3. e # f /\ e \in accepted /\ e \notin processed
    BY <1>6, <2>2
  <2>4. EventOrder[f] # o
    <3> SUFFICES ASSUME EventOrder[f] = o PROVE FALSE
      OBVIOUS
    <3>1. EventKind[f] = EventKind[e]
      BY <1>3, <2>1, <2>3, EventAssumption, RequiredAdmits
    <3> QED BY <1>6, <2>1, <2>3, <3>1 DEF OneAccepted
  <2> QED BY <1>3, <2>2, <2>3, <2>4
<1> QED BY <1>1, <1>2, <1>4, <1>5, <1>6, CausedStep

\* If operators leave an order alone while it waits for an event, and no order
\* comes in two packages, then every accepted event is admissible from its
\* acceptance until it is applied, through all repeats, stops and transactions
\* in doubt.  (With a second package it is not: see PackagesArrive.)
THEOREM AcceptedStaysAdmissible ==
    OperatorsStandBack /\ OnePackage => (Spec => []AcceptedIsAdmissible)
<1> SUFFICES ASSUME OperatorsStandBack, OnePackage
             PROVE  Spec => []AcceptedIsAdmissible
  OBVIOUS
<1> DEFINE J == OneAccepted /\ AcceptedIsAwaited
<1>1. Init => J
  BY DEF Init, OneAccepted, AcceptedIsAwaited
<1>2. SafetyInv /\ Caused /\ J /\ [Next]_vars => J'
  BY OneAcceptedStep, AwaitedStep
<1>3. SafetyInv /\ J => AcceptedIsAdmissible
  BY EventAssumption, RequiredAdmits
  DEF SafetyInv, TypeOK, AcceptedIsAwaited, AcceptedIsAdmissible
<1> QED BY <1>1, <1>2, <1>3, Safety, EffectsHaveACause, PTL DEF Spec

-----------------------------------------------------------------------------
(***************************************************************************)
(* The offsets.                                                            *)
(***************************************************************************)

\* Nothing remains to be done for event e.
Settled(e) == e \in processed \/ Skippable(e)

\* The records of p that its consumer has finished with: all it has fetched,
\* but for the one it is working on.
Reached(p) == IF Busy(Owner(p)) /\ at[Owner(p)] = p THEN position[p] - 1
                                                      ELSE position[p]

OffsetsOf(p) ==
    /\ committed[p] <= Len(log[p]) /\ position[p] <= Len(log[p])
    /\ \A i \in 1..Len(log[p]) : PartitionOf(log[p][i]) = p
    /\ p \notin Lossy =>
         /\ \A i \in 1..committed[p] : Settled(log[p][i])
         /\ \A i \in 1..Reached(p) : Settled(log[p][i])

OffsetInv == \A p \in Partitions : OffsetsOf(p)

\* The types of one partition's log and offsets.
LEMMA LogType ==
    ASSUME TypeOK, NEW p \in Partitions
    PROVE  /\ log[p] \in Seq(Events) /\ Len(log[p]) \in Nat
           /\ \A i \in 1..Len(log[p]) : log[p][i] \in Events
           /\ committed[p] \in Nat /\ position[p] \in Nat
<1>1. log[p] \in Seq(Events)
  BY DEF TypeOK
<1> QED BY <1>1 DEF TypeOK

\* The log only grows, and an event that is settled stays so.
LEMMA Growth ==
    ASSUME TypeOK, [Next]_vars, NEW p \in Partitions
    PROVE  /\ Len(log'[p]) \in Nat /\ Len(log[p]) <= Len(log'[p])
           /\ \A i \in 1..Len(log[p]) : log'[p][i] = log[p][i]
           /\ \A e : Settled(e) => Settled(e)'
<1>1. /\ Len(log'[p]) \in Nat /\ Len(log[p]) <= Len(log'[p])
      /\ \A i \in 1..Len(log[p]) : log'[p][i] = log[p][i]
  <2>1. ASSUME NEW e \in Events, Publish(e)
        PROVE  /\ Len(log'[p]) \in Nat /\ Len(log[p]) <= Len(log'[p])
               /\ \A i \in 1..Len(log[p]) : log'[p][i] = log[p][i]
    <3>1. log[p] \in Seq(Events) /\ Len(log[p]) \in Nat
      BY LogType
    <3>2. CASE PartitionOf(e) = p
      <4>1. log'[p] = Append(log[p], e)
        BY <2>1, <3>2 DEF Publish, TypeOK
      <4> QED BY <3>1, <4>1
    <3>3. CASE PartitionOf(e) # p
      <4>1. log'[p] = log[p]
        BY <2>1, <3>3 DEF Publish, TypeOK
      <4> QED BY <3>1, <4>1
    <3> QED BY <3>2, <3>3
  <2>2. log' = log \/ \E e \in Events : Publish(e)
    BY DEF Next, vars, Create, ServerCommits, ServerAborts, OperatorMove, Accept,
           Crash, Consume, Poll, PollError, Refuse, CheckProcessed, LockOrder,
           OrderNotFound, Reject, StatementError, Commit, CommitUnacknowledged,
           CommitOffset, broker
  <2>3. Len(log[p]) \in Nat
    BY LogType
  <2> QED BY <2>1, <2>2, <2>3
<1>2. processed \subseteq processed'
  BY DEF Next, vars, Create, ServerCommits, ServerAborts, OperatorMove, Accept,
         Publish, Crash, Consume, Poll, PollError, Refuse, CheckProcessed,
         LockOrder, OrderNotFound, Reject, StatementError, Commit,
         CommitUnacknowledged, CommitOffset, Effects, database
<1> QED BY <1>1, <1>2 DEF Settled, Skippable

\* A consumer is through with a record only when it is settled.
LEMMA HandledIsSettled ==
    ASSUME SafetyInv, OffsetInv, NEW c \in Consumers, InHand(c),
           pc'[c] = "handled"
    PROVE  Settled(Rec(c))'
<1>1. /\ at[c] \in Partitions /\ Owner(at[c]) = c
      /\ position[at[c]] \in 1..Len(log[at[c]])
      /\ Rec(c)' = Rec(c)
  BY InHandFrame DEF SafetyInv, RecordInv, Rec
<1>2. CASE Refuse(c)
  <2>1. PartitionOf(Rec(c)) = at[c]
    BY <1>1 DEF OffsetInv, OffsetsOf, Rec
  <2>2. EventKind[Rec(c)] = "package"
    BY <1>1, <1>2, <2>1 DEF Refuse, Owner, PartitionOf
  <2> QED BY <1>1, <1>2, <2>2 DEF Refuse, Settled, Skippable
<1>3. CASE CheckProcessed(c)
  BY <1>1, <1>3
  DEF CheckProcessed, Settled, database, SafetyInv, TypeOK
<1>4. CASE Commit(c)
  <2>1. Rec(c) \in processed'
    BY <1>4 DEF Commit, Effects
  <2> QED BY <1>1, <2>1 DEF Settled
<1>5. CASE ~(Refuse(c) \/ CheckProcessed(c) \/ Commit(c))
  BY <1>5
  DEF InHand, LockOrder, OrderNotFound, Reject, StatementError,
      CommitUnacknowledged, EndTransaction, SafetyInv, TypeOK
<1> QED BY <1>2, <1>3, <1>4, <1>5

\* Records stay in the partition of their order.
LEMMA LogPlaced ==
    ASSUME TypeOK, [Next]_vars, NEW p \in Partitions, OffsetsOf(p)
    PROVE  \A i \in 1..Len(log'[p]) : PartitionOf(log'[p][i]) = p
<1>1. ASSUME NEW e \in Events, Publish(e)
      PROVE  \A i \in 1..Len(log'[p]) : PartitionOf(log'[p][i]) = p
  <2>1. log[p] \in Seq(Events) /\ Len(log[p]) \in Nat
    BY LogType
  <2>2. CASE PartitionOf(e) = p
    <3>1. log'[p] = Append(log[p], e)
      BY <1>1, <2>2 DEF Publish, TypeOK
    <3>2. /\ Len(log'[p]) = Len(log[p]) + 1
          /\ \A i \in 1..Len(log[p]) : log'[p][i] = log[p][i]
          /\ log'[p][Len(log[p]) + 1] = e
      BY <2>1, <3>1
    <3>3. \A i \in 1..Len(log'[p]) : i \in 1..Len(log[p]) \/ i = Len(log[p]) + 1
      BY <2>1, <3>2
    <3> QED BY <2>2, <3>2, <3>3 DEF OffsetsOf
  <2>3. CASE PartitionOf(e) # p
    <3>1. log'[p] = log[p]
      BY <1>1, <2>3 DEF Publish, TypeOK
    <3> QED BY <3>1 DEF OffsetsOf
  <2> QED BY <2>2, <2>3
<1>2. log' = log \/ \E e \in Events : Publish(e)
  BY DEF Next, vars, Create, ServerCommits, ServerAborts, OperatorMove, Accept,
         Crash, Consume, Poll, PollError, Refuse, CheckProcessed, LockOrder,
         OrderNotFound, Reject, StatementError, Commit, CommitUnacknowledged,
         CommitOffset, broker
<1> QED BY <1>1, <1>2 DEF OffsetsOf

\* What a step has to show for partition p: the new committed offset is the
\* old one or lies where the consumer had got to, and whatever it gets further
\* by is settled.
LEMMA OffsetCarry ==
    ASSUME SafetyInv, OffsetInv, [Next]_vars, NEW p \in Partitions,
           committed'[p] \in 0..Len(log[p]), position'[p] \in 0..Len(log'[p]),
           p \notin Lossy =>
             /\ committed'[p] = committed[p] \/ committed'[p] = Reached(p)
             /\ \A i \in 1..Reached(p)' :
                  \/ i \in 1..committed[p]
                  \/ i \in 1..Reached(p)
                  \/ i \in 1..Len(log[p]) /\ Settled(log[p][i])'
    PROVE  OffsetsOf(p)'
<1> USE DEF SafetyInv
<1>1. /\ OffsetsOf(p) /\ Len(log[p]) \in Nat
      /\ committed[p] \in Nat /\ position[p] \in Nat
  BY LogType DEF OffsetInv
<1>2. /\ Len(log'[p]) \in Nat /\ Len(log[p]) <= Len(log'[p])
      /\ \A i \in 1..Len(log[p]) : log'[p][i] = log[p][i]
      /\ \A e : Settled(e) => Settled(e)'
  BY Growth
<1>3. \A i \in 1..Len(log'[p]) : PartitionOf(log'[p][i]) = p
  BY <1>1, LogPlaced
<1>4. \A i \in 1..Len(log[p]) : Settled(log[p][i]) => Settled(log[p][i])'
  BY <1>2 DEF Settled, Skippable
<1>5. Reached(p) <= Len(log[p]) /\ Reached(p) \in Int
  BY <1>1 DEF OffsetsOf, Reached
<1>6. ASSUME p \notin Lossy
      PROVE  /\ \A i \in 1..committed[p] : Settled(log[p][i])'
             /\ \A i \in 1..Reached(p) : Settled(log[p][i])'
  <2>1. /\ \A i \in 1..committed[p] : i \in 1..Len(log[p]) /\ Settled(log[p][i])
        /\ \A i \in 1..Reached(p) : i \in 1..Len(log[p]) /\ Settled(log[p][i])
    BY <1>1, <1>5, <1>6 DEF OffsetsOf
  <2> QED BY <2>1, <1>4
<1>7. committed'[p] <= Len(log'[p]) /\ position'[p] <= Len(log'[p])
  BY <1>1, <1>2
<1>8. ASSUME p \notin Lossy
      PROVE  /\ \A i \in 1..committed'[p] : Settled(log[p][i])'
             /\ \A i \in 1..Reached(p)' : Settled(log[p][i])'
  BY <1>8, <1>6
<1> QED BY <1>3, <1>7, <1>8 DEF OffsetsOf

\* A partition whose offsets and whose consumer a step leaves alone.
LEMMA OffsetFrame ==
    ASSUME SafetyInv, OffsetInv, [Next]_vars, NEW p \in Partitions,
           committed'[p] = committed[p], position'[p] = position[p],
           Reached(p)' = Reached(p)
    PROVE  OffsetsOf(p)'
<1>1. /\ OffsetsOf(p) /\ Len(log[p]) \in Nat
      /\ committed[p] \in Nat /\ position[p] \in Nat
  BY LogType DEF OffsetInv, SafetyInv
<1>2. Len(log'[p]) \in Nat /\ Len(log[p]) <= Len(log'[p])
  BY Growth DEF SafetyInv
<1>3. /\ committed'[p] \in 0..Len(log[p]) /\ position'[p] \in 0..Len(log'[p])
      /\ \A i \in 1..Reached(p)' : i \in 1..Reached(p)
  BY <1>1, <1>2 DEF OffsetsOf
<1> QED BY <1>3, OffsetCarry

\* A poll keeps OffsetsOf: the record it passes over is skippable, any other
\* one is in hand and not yet counted.
LEMMA PollOffsets ==
    ASSUME SafetyInv, OffsetInv, [Next]_vars, NEW c \in Consumers,
           NEW q \in Partitions, Poll(c, q), NEW p \in Partitions
    PROVE  OffsetsOf(p)'
<1>1. /\ OffsetsOf(p) /\ Len(log[p]) \in Nat
      /\ committed[p] \in Nat /\ position[p] \in Nat
      /\ log' = log /\ committed' = committed
      /\ Owner(q) = c /\ pc[c] = "idle" /\ position[q] < Len(log[q])
      /\ position' = [position EXCEPT ![q] = @ + 1]
      /\ at' = [at EXCEPT ![c] = q]
      /\ pc' = [pc EXCEPT ![c] =
                  IF EventClass[log[q][position[q] + 1]] = "malformed"
                    THEN "handled" ELSE "polled"]
  BY LogType DEF OffsetInv, SafetyInv, Poll, HasNext, broker
<1>2. CASE p = q
  <2>1. position'[p] = position[p] + 1 /\ position'[p] \in 0..Len(log'[p])
    BY <1>1, <1>2 DEF SafetyInv, TypeOK
  <2>2. Reached(p) = position[p]
    BY <1>1, <1>2 DEF Reached, Busy
  <2>3. CASE EventClass[log[q][position[q] + 1]] = "malformed"
    <3>1. Reached(p)' = position[p] + 1
      BY <1>1, <1>2, <2>1, <2>3 DEF Reached, Busy, SafetyInv, TypeOK
    <3>2. Skippable(log[p][position[p] + 1])
      BY <1>2, <2>3 DEF Skippable
    <3>3. \A i \in 1..Reached(p)' : \/ i \in 1..Reached(p)
                                    \/ i \in 1..Len(log[p]) /\ Settled(log[p][i])'
      <4> SUFFICES ASSUME NEW i \in 1..(position[p] + 1)
                   PROVE  \/ i \in 1..position[p]
                          \/ i \in 1..Len(log[p]) /\ Settled(log[p][i])'
        BY <2>2, <3>1
      <4>1. CASE i = position[p] + 1
        <5>1. i \in 1..Len(log[p]) /\ Skippable(log[p][i])
          BY <4>1, <1>1, <1>2, <3>2
        <5>2. log'[p][i] = log[p][i]
          BY <1>1
        <5> QED BY <5>1, <5>2 DEF Settled, Skippable
      <4>2. CASE i # position[p] + 1
        BY <4>2, <1>1
      <4> QED BY <4>1, <4>2
    <3>4. committed'[p] = committed[p] /\ committed'[p] \in 0..Len(log[p])
      BY <1>1 DEF OffsetsOf
    <3> QED BY <2>1, <3>3, <3>4, OffsetCarry
  <2>4. CASE EventClass[log[q][position[q] + 1]] # "malformed"
    <3>1. Reached(p)' = position[p]
      BY <1>1, <1>2, <2>1, <2>4 DEF Reached, Busy, SafetyInv, TypeOK
    <3>2. \A i \in 1..Reached(p)' : i \in 1..Reached(p)
      BY <2>2, <3>1
    <3>3. committed'[p] = committed[p] /\ committed'[p] \in 0..Len(log[p])
      BY <1>1 DEF OffsetsOf
    <3> QED BY <2>1, <3>2, <3>3, OffsetCarry
  <2> QED BY <2>3, <2>4
<1>3. CASE p # q
  <2>1. committed'[p] = committed[p] /\ position'[p] = position[p]
    BY <1>1, <1>3 DEF SafetyInv, TypeOK
  <2>2. CASE Owner(p) = c
    BY <1>1, <1>3, <2>1, <2>2, OffsetFrame DEF Reached, Busy, SafetyInv, TypeOK
  <2>3. CASE Owner(p) # c
    <3>1. pc'[Owner(p)] = pc[Owner(p)] /\ at'[Owner(p)] = at[Owner(p)]
      BY <1>1, <2>3, PartitionType DEF SafetyInv, TypeOK
    <3> QED BY <2>1, <3>1, OffsetFrame DEF Reached, Busy
  <2> QED BY <2>2, <2>3
<1> QED BY <1>2, <1>3

\* OffsetInv is inductive on top of SafetyInv.
LEMMA OffsetStep == SafetyInv /\ OffsetInv /\ [Next]_vars => OffsetInv'
<1> SUFFICES ASSUME SafetyInv, OffsetInv, [Next]_vars, NEW p \in Partitions
             PROVE  OffsetsOf(p)'
  BY DEF OffsetInv
<1>a. /\ OffsetsOf(p) /\ Len(log[p]) \in Nat
      /\ committed[p] \in Nat /\ position[p] \in Nat
  BY LogType DEF OffsetInv, SafetyInv
<1>b. Len(log'[p]) \in Nat /\ Len(log[p]) <= Len(log'[p])
  BY Growth DEF SafetyInv
<1>c. Owner(p) \in Consumers
  BY PartitionType
<1>1. CASE UNCHANGED <<committed, position, pc, at>>
  BY <1>1, OffsetFrame DEF Reached, Busy
<1>2. CASE Crash
  <2>1. /\ committed' = committed /\ position' = committed
        /\ pc' = [c \in Consumers |-> "idle"]
    BY <1>2 DEF Crash, broker
  <2>2. Reached(p)' = committed[p]
    BY <1>c, <2>1 DEF Reached, Busy
  <2>3. /\ committed'[p] \in 0..Len(log[p]) /\ position'[p] \in 0..Len(log'[p])
        /\ committed'[p] = committed[p]
        /\ \A i \in 1..Reached(p)' : i \in 1..committed[p]
    BY <1>a, <1>b, <2>1, <2>2 DEF OffsetsOf
  <2> QED BY <2>3, OffsetCarry
<1>3. ASSUME NEW c \in Consumers, NEW q \in Partitions, PollError(c, q)
      PROVE  OffsetsOf(p)'
  <2>1. /\ UNCHANGED <<log, committed, pc, at>> /\ q \in Lossy
        /\ position[q] < Len(log[q])
        /\ position' = [position EXCEPT ![q] = @ + 1]
    BY <1>3 DEF PollError, HasNext, broker
  <2>2. CASE p = q
    <3>1. /\ committed'[p] \in 0..Len(log[p])
          /\ position'[p] \in 0..Len(log'[p])
      BY <1>a, <2>1, <2>2 DEF OffsetsOf, SafetyInv, TypeOK
    <3> QED BY <2>1, <2>2, <3>1, OffsetCarry
  <2>3. CASE p # q
    <3>1. position'[p] = position[p]
      BY <2>1, <2>3 DEF SafetyInv, TypeOK
    <3> QED BY <2>1, <3>1, OffsetFrame DEF Reached, Busy
  <2> QED BY <2>2, <2>3
<1>4. ASSUME NEW c \in Consumers, CommitOffset(c) PROVE OffsetsOf(p)'
  <2>1. /\ pc[c] = "handled" /\ log' = log /\ position' = position
        /\ pc' = [pc EXCEPT ![c] = "idle"] /\ at' = [at EXCEPT ![c] = None]
        /\ \/ committed' = [committed EXCEPT ![at[c]] = position[at[c]]]
           \/ committed' = committed
        /\ at[c] \in Partitions /\ Owner(at[c]) = c
    BY <1>4 DEF CommitOffset, SafetyInv, RecordInv
  <2>2. CASE Owner(p) = c
    <3>1. Reached(p) = position[p] /\ Reached(p)' = position[p]
      BY <2>1, <2>2 DEF Reached, Busy, SafetyInv, TypeOK
    <3>2. committed'[p] = committed[p] \/ committed'[p] = position[p]
      BY <2>1 DEF SafetyInv, TypeOK
    <3>3. /\ committed'[p] \in 0..Len(log[p])
          /\ position'[p] \in 0..Len(log'[p])
          /\ committed'[p] = committed[p] \/ committed'[p] = Reached(p)
          /\ \A i \in 1..Reached(p)' : i \in 1..Reached(p)
      BY <1>a, <2>1, <3>1, <3>2 DEF OffsetsOf
    <3> QED BY <3>3, OffsetCarry
  <2>3. CASE Owner(p) # c
    <3>1. /\ committed'[p] = committed[p] /\ position'[p] = position[p]
          /\ pc'[Owner(p)] = pc[Owner(p)] /\ at'[Owner(p)] = at[Owner(p)]
      BY <1>c, <2>1, <2>3 DEF SafetyInv, TypeOK
    <3> QED BY <3>1, OffsetFrame DEF Reached, Busy
  <2> QED BY <2>2, <2>3
<1>5. ASSUME NEW c \in Consumers, InHand(c) PROVE OffsetsOf(p)'
  <2>1. /\ UNCHANGED <<log, committed, position, at>>
        /\ pc[c] # "idle" /\ pc'[c] # "idle"
        /\ \A d \in Consumers \ {c} : pc'[d] = pc[d]
        /\ at[c] \in Partitions /\ Owner(at[c]) = c
    BY <1>5, InHandFrame DEF SafetyInv, RecordInv
  <2>2. CASE at[c] # p \/ Owner(p) # c
    <3>1. Reached(p)' = Reached(p)
      BY <1>c, <2>1, <2>2 DEF Reached, Busy
    <3> QED BY <2>1, <3>1, OffsetFrame
  <2>3. CASE at[c] = p /\ Owner(p) = c /\ pc'[c] # "handled"
    <3>1. Busy(c) /\ Busy(c)'
      BY <1>5, <2>1, <2>3
      DEF InHand, Refuse, CheckProcessed, LockOrder, OrderNotFound, Reject,
          StatementError, Commit, CommitUnacknowledged, EndTransaction, Busy,
          SafetyInv, TypeOK
    <3>2. Reached(p)' = Reached(p)
      BY <2>1, <2>3, <3>1 DEF Reached, Busy
    <3> QED BY <2>1, <3>2, OffsetFrame
  <2>4. CASE at[c] = p /\ Owner(p) = c /\ pc'[c] = "handled"
    <3>1. Busy(c)
      BY <1>5 DEF InHand, Refuse, CheckProcessed, LockOrder, OrderNotFound,
                  Reject, StatementError, Commit, CommitUnacknowledged, Busy
    <3>2. Reached(p) = position[p] - 1 /\ Reached(p)' = position[p]
      BY <2>1, <2>4, <3>1 DEF Reached, Busy
    <3>3. Settled(log[p][position[p]])'
      <4>1. Settled(Rec(c))'
        BY <1>5, <2>4, HandledIsSettled
      <4>2. Rec(c)' = log'[p][position'[p]]
        BY <2>1, <2>4 DEF Rec
      <4> QED BY <4>1, <4>2
    <3>4. position[p] \in 1..Len(log[p])
      BY <2>1, <2>4 DEF SafetyInv, RecordInv
    <3>5. \A i \in 1..Reached(p)' : \/ i \in 1..Reached(p)
                                    \/ i \in 1..Len(log[p]) /\ Settled(log[p][i])'
      <4> SUFFICES ASSUME NEW i \in 1..position[p]
                   PROVE  \/ i \in 1..(position[p] - 1)
                          \/ i \in 1..Len(log[p]) /\ Settled(log[p][i])'
        BY <3>2
      <4>1. CASE i = position[p]
        BY <4>1, <2>1, <3>3, <3>4
      <4>2. CASE i # position[p]
        BY <4>2, <1>a
      <4> QED BY <4>1, <4>2
    <3>6. /\ committed'[p] = committed[p] /\ committed'[p] \in 0..Len(log[p])
          /\ position'[p] \in 0..Len(log'[p])
      BY <1>a, <2>1, <3>4 DEF OffsetsOf
    <3> QED BY <3>5, <3>6, OffsetCarry
  <2> QED BY <2>2, <2>3, <2>4
<1>6. ASSUME NEW o \in Orders, Create(o) \/ ServerCommits(o) \/ ServerAborts(o)
      PROVE  UNCHANGED <<committed, position, pc, at>>
  BY <1>6 DEF Create, ServerCommits, ServerAborts, broker, consumer
<1>7. ASSUME NEW o \in Orders, NEW s \in Status, OperatorMove(o, s)
      PROVE  UNCHANGED <<committed, position, pc, at>>
  BY <1>7 DEF OperatorMove, broker, consumer
<1>8. ASSUME NEW e \in Events, Accept(e) \/ Publish(e)
      PROVE  UNCHANGED <<committed, position, pc, at>>
  BY <1>8 DEF Accept, Publish, broker, consumer
<1>9. CASE UNCHANGED vars
  BY <1>1, <1>9 DEF vars, broker, consumer
<1>10. ASSUME NEW c \in Consumers, Consume(c)
       PROVE  \/ \E q \in Partitions : Poll(c, q) \/ PollError(c, q)
              \/ CommitOffset(c)
              \/ InHand(c)
  BY <1>10 DEF Consume, InHand
<1> QED
  BY <1>1, <1>2, <1>3, <1>4, <1>5, <1>6, <1>7, <1>8, <1>9, <1>10, PollOffsets
  DEF Next

\* No committed offset is ahead of the work, whatever stops and is redelivered,
\* on the partitions whose polls do not drop records.
THEOREM EventsAreNotLost == Spec => []NoEventLost
<1>1. Init => OffsetInv
  BY DEF Init, OffsetInv, OffsetsOf, Reached, Busy
<1>2. OffsetInv => NoEventLost
  BY DEF OffsetInv, OffsetsOf, NoEventLost, Settled
<1> QED BY <1>1, <1>2, OffsetStep, Safety, PTL DEF Spec

-----------------------------------------------------------------------------
(***************************************************************************)
(* Refinement.                                                             *)
(***************************************************************************)

\* The consumer with its broker, locks, failures and restarts does to an order
\* nothing but what the abstract order allows.
THEOREM RefinesLifecycle == Spec => ImplementsLifecycle
<1>0. /\ Lifecycle!Status = Status
      /\ \A f, t : Lifecycle!CanTransition(f, t) <=> CanTransition(f, t)
      /\ \A k : /\ Lifecycle!Target(k) = Target(k)
               /\ Lifecycle!Previous(k) = Previous(k)
  BY DEF Lifecycle!Status, Status, Lifecycle!CanTransition, CanTransition,
         Lifecycle!Allowed, Allowed, Lifecycle!Target, Target,
         Lifecycle!Previous, Previous
<1>1. Init => Lifecycle!Init
  BY DEF Init, Lifecycle!Init
<1>2. SafetyInv /\ [Next]_vars => [Lifecycle!Next]_(Lifecycle!vars)
  <2> SUFFICES ASSUME SafetyInv, [Next]_vars
               PROVE  Lifecycle!Next \/ UNCHANGED Lifecycle!vars
    OBVIOUS
  <2>1. ASSUME NEW o \in Orders, Create(o) PROVE Lifecycle!Create(o)
    BY <2>1 DEF Create, Lifecycle!Create
  <2>2. ASSUME NEW e \in Events, Applies(e) PROVE Lifecycle!Apply(e)
    BY <1>0, <2>2, NoneAssumption DEF Applies, Effects, Lifecycle!Apply
  <2>3. ASSUME NEW o \in Orders, NEW s \in Status, OperatorMove(o, s)
        PROVE  Lifecycle!OperatorMove(o, s)
    BY <1>0, <2>3 DEF OperatorMove, Lifecycle!OperatorMove
  <2>4. CASE UNCHANGED database
    BY <2>4 DEF database, Lifecycle!vars
  <2> QED BY <1>0, <2>1, <2>2, <2>3, <2>4, DatabaseStep DEF Lifecycle!Next
<1> QED
  BY <1>1, <1>2, Safety, PTL DEF Spec, ImplementsLifecycle, Lifecycle!Spec

-----------------------------------------------------------------------------
(***************************************************************************)
(* The producers.                                                          *)
(***************************************************************************)

\* The payment and package services with their outboxes, seen from the broker.
Producers == INSTANCE EventChannel
    WITH Rows <- Events, Deliverable <- Events, Streams <- Partitions,
         Stream <- [e \in Events |-> PartitionOf(e)]

\* The producers assumed by this model do no more than the channel that the
\* outbox worker is shown to implement: a record is there only for an event
\* that was accepted, in the partition of that event.  So what is proved of the
\* consumers rests on no promise the worker does not keep.
THEOREM ProducersAreAChannel ==
    Spec => Producers!Init /\ [][Producers!Next]_(Producers!vars)
<1>1. Init => Producers!Init
  BY DEF Init, Producers!Init
<1>2. [Next]_vars => [Producers!Next]_(Producers!vars)
  <2> SUFFICES ASSUME [Next]_vars
               PROVE  Producers!Next \/ UNCHANGED <<accepted, log>>
    BY DEF Producers!vars
  <2>1. ASSUME NEW e \in Events, Accept(e) PROVE Producers!Accept(e)
    BY <2>1 DEF Accept, Producers!Accept, broker
  <2>2. ASSUME NEW e \in Events, Publish(e) PROVE Producers!Deliver(e)
    BY <2>2 DEF Publish, Producers!Deliver
  <2>3. ASSUME NEW o \in Orders,
               Create(o) \/ ServerCommits(o) \/ ServerAborts(o)
        PROVE  UNCHANGED <<accepted, log>>
    BY <2>3 DEF Create, ServerCommits, ServerAborts, broker
  <2>4. ASSUME NEW o \in Orders, NEW s \in Status, OperatorMove(o, s)
        PROVE  UNCHANGED <<accepted, log>>
    BY <2>4 DEF OperatorMove, broker
  <2>5. ASSUME NEW c \in Consumers, Consume(c) PROVE UNCHANGED <<accepted, log>>
    BY <2>5 DEF Consume, Poll, PollError, Refuse, CheckProcessed, LockOrder,
            OrderNotFound, Reject, StatementError, Commit,
            CommitUnacknowledged, CommitOffset, broker
  <2>6. CASE Crash
    BY <2>6 DEF Crash, broker
  <2>7. CASE UNCHANGED vars
    BY <2>7 DEF vars, broker
  <2> QED
    BY <2>1, <2>2, <2>3, <2>4, <2>5, <2>6, <2>7 DEF Next, Producers!Next
<1> QED BY <1>1, <1>2, PTL DEF Spec
=============================================================================
