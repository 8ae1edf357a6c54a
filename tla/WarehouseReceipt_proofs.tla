---------------------- MODULE WarehouseReceipt_proofs ----------------------
(***************************************************************************)
(* The warehouse and the order service together, for any orders, events,   *)
(* tracking numbers and failures: receipts are what OrderEvents assumes of *)
(* its producers, and a tracking number has one package, on which both the *)
(* clerk and the order can rely.                                           *)
(***************************************************************************)
EXTENDS WarehouseReceipt, OrderDelivery_proofs

\* A receipt that has the unique key of its number, or may come to have it.
HasNumber(r) == r \in packages \/ stage[r] \in {"inserted", "indoubt"}

\* What goes on at the desk: types, one holder per number, honest answers.
DeskInv ==
    /\ packages \subseteq Receipts
    /\ stage \in [Receipts -> {"new", "summary", "insert", "inserted", "indoubt", "done"}]
    /\ reply \in [Receipts -> Answers \cup {None}]
    /\ failures \in 0..MaxFailures
    /\ \A p \in packages : stage[p] = "done"
    /\ \A p, q \in Receipts :
         HasNumber(p) /\ HasNumber(q) /\ Tracking[p] = Tracking[q] => p = q
    /\ \A r \in Receipts : reply[r] = "created" => r \in packages
    /\ \A r \in Receipts : reply[r] = "exists" => Taken(Tracking[r])

\* What the order service has of receipts is on record at the warehouse.
Real(e) == e \in Receipts => e \in packages

RecordedInv ==
    /\ \A x \in Partitions : \A i \in 1..Len(log[x]) : Real(log[x][i])
    /\ \A o \in Orders : Real(indoubt[o])
    /\ \A e \in processed : Real(e)

-----------------------------------------------------------------------------
(***************************************************************************)
(* The desk.                                                               *)
(***************************************************************************)
LEMMA DeskInit == ReceiptInit => DeskInv
<1> SUFFICES ASSUME ReceiptInit PROVE DeskInv
  OBVIOUS
<1>1. /\ packages = {} /\ failures = 0
      /\ \A r \in Receipts : stage[r] = "new" /\ reply[r] = None
      /\ stage \in [Receipts -> {"new", "summary", "insert", "inserted", "indoubt", "done"}]
      /\ reply \in [Receipts -> Answers \cup {None}]
  BY DEF ReceiptInit
<1>2. None # "created" /\ None # "exists"
  BY ReceiptAssumption DEF Answers
<1>3. \A r \in Receipts : ~HasNumber(r)
  BY <1>1 DEF HasNumber
<1>4. failures \in 0..MaxFailures
  BY <1>1, ReceiptAssumption
<1> QED BY <1>1, <1>2, <1>3, <1>4 DEF DeskInv

\* Receipt r goes on, with or without an answer that promises nothing.
LEMMA DeskGoesOn ==
    ASSUME DeskInv, NEW r \in Receipts, UNCHANGED packages,
           NEW s \in {"summary", "insert", "inserted", "indoubt", "done"},
           stage' = [stage EXCEPT ![r] = s], r \notin packages,
           s \in {"inserted", "indoubt"} =>
             \A q \in Receipts : HasNumber(q) /\ Tracking[q] = Tracking[r] => q = r,
           \/ UNCHANGED reply
           \/ \E a \in {"refused", "error"} : reply' = [reply EXCEPT ![r] = a]
           \/ Taken(Tracking[r]) /\ reply' = [reply EXCEPT ![r] = "exists"],
           failures' \in 0..MaxFailures
    PROVE  DeskInv'
<1>1. /\ stage' \in [Receipts -> {"new", "summary", "insert", "inserted", "indoubt", "done"}]
      /\ reply' \in [Receipts -> Answers \cup {None}]
  BY DEF DeskInv, Answers
<1>2. stage'[r] = s /\ \A q \in Receipts : q # r => stage'[q] = stage[q]
  BY DEF DeskInv
<1>3. \A q \in Receipts : q # r => (HasNumber(q)' <=> HasNumber(q))
  BY <1>2 DEF HasNumber
<1>4. HasNumber(r)' => s \in {"inserted", "indoubt"}
  BY <1>2 DEF HasNumber
<1>5. \A p, q \in Receipts :
        HasNumber(p)' /\ HasNumber(q)' /\ Tracking[p] = Tracking[q] => p = q
  BY <1>3, <1>4 DEF DeskInv
<1>6. \A p \in packages : stage'[p] = "done"
  BY <1>2 DEF DeskInv
<1>7. /\ \A q \in Receipts : reply'[q] = "created" => reply[q] = "created"
      /\ \A q \in Receipts : reply'[q] = "exists" => reply[q] = "exists" \/ Taken(Tracking[q])
  BY DEF DeskInv
<1>8. \A t : Taken(t)' <=> Taken(t)
  BY DEF Taken
<1> QED BY <1>1, <1>5, <1>6, <1>7, <1>8 DEF DeskInv

\* The package of r is committed, by its goroutine or by the server.
LEMMA DeskCommits ==
    ASSUME DeskInv, NEW r \in Receipts, stage[r] \in {"inserted", "indoubt"},
           packages' = packages \cup {r}, stage' = [stage EXCEPT ![r] = "done"],
           UNCHANGED reply \/ reply' = [reply EXCEPT ![r] = "created"],
           UNCHANGED failures
    PROVE  DeskInv'
<1>1. /\ packages' \subseteq Receipts
      /\ stage' \in [Receipts -> {"new", "summary", "insert", "inserted", "indoubt", "done"}]
      /\ reply' \in [Receipts -> Answers \cup {None}]
  BY DEF DeskInv, Answers
<1>2. \A p \in packages' : stage'[p] = "done"
  BY DEF DeskInv
<1>3. \A q \in Receipts : HasNumber(q)' => HasNumber(q)
  BY DEF DeskInv, HasNumber
<1>4. \A p, q \in Receipts :
        HasNumber(p)' /\ HasNumber(q)' /\ Tracking[p] = Tracking[q] => p = q
  BY <1>3 DEF DeskInv
<1>5. \A q \in Receipts : reply'[q] = "created" => q \in packages'
  BY DEF DeskInv
<1>6. \A q \in Receipts : reply'[q] = "exists" => reply[q] = "exists"
  BY DEF DeskInv
<1>7. \A t : Taken(t) => Taken(t)'
  BY DEF Taken
<1> QED BY <1>1, <1>2, <1>4, <1>5, <1>6, <1>7 DEF DeskInv

LEMMA DeskStep == DeskInv /\ [ReceiptNext]_allVars => DeskInv'
<1> SUFFICES ASSUME DeskInv, [ReceiptNext]_allVars PROVE DeskInv'
  OBVIOUS
<1>0. /\ UNCHANGED failures => failures' \in 0..MaxFailures
      /\ Fails => failures' \in 0..MaxFailures
  BY ReceiptAssumption DEF DeskInv, Fails
<1>1. ASSUME NEW r \in Receipts, Receive(r) PROVE DeskInv'
  BY <1>0, <1>1, DeskGoesOn DEF Receive, Reply, Continue, DeskInv
<1>2. ASSUME NEW r \in Receipts, GetWarehouseSummary(r) PROVE DeskInv'
  BY <1>0, <1>2, DeskGoesOn DEF GetWarehouseSummary, Reply, Continue, DeskInv
<1>3. ASSUME NEW r \in Receipts, InsertPackage(r) PROVE DeskInv'
  <2>1. CASE Taken(Tracking[r])
    BY <1>0, <1>3, <2>1, DeskGoesOn DEF InsertPackage, Reply, DeskInv
  <2>2. CASE ~Taken(Tracking[r])
    <3>1. \A q \in Receipts : HasNumber(q) /\ Tracking[q] = Tracking[r] => q = r
      BY <1>3, <2>2 DEF InsertPackage, Taken, Undecided, HasNumber
    <3> QED
      BY <1>0, <1>3, <2>2, <3>1, DeskGoesOn DEF InsertPackage, Continue, DeskInv
  <2> QED BY <2>1, <2>2
<1>4. ASSUME NEW r \in Receipts, CommitReceipt(r) PROVE DeskInv'
  BY <1>4, DeskCommits DEF CommitReceipt, Reply
<1>5. ASSUME NEW r \in Receipts, ReceiptError(r) PROVE DeskInv'
  <2>1. r \notin packages
    BY <1>5 DEF ReceiptError, AtWork, DeskInv
  <2>2. /\ stage' = [stage EXCEPT ![r] = "done"]
        /\ reply' = [reply EXCEPT ![r] = "error"]
        /\ UNCHANGED packages /\ failures' \in 0..MaxFailures
    BY <1>0, <1>5 DEF ReceiptError, Reply
  <2> QED BY <2>1, <2>2, DeskGoesOn
<1>6. ASSUME NEW r \in Receipts, ReceiptUnacknowledged(r) PROVE DeskInv'
  <2>1. HasNumber(r) /\ r \notin packages
    BY <1>6 DEF ReceiptUnacknowledged, HasNumber, DeskInv
  <2>2. \A q \in Receipts : HasNumber(q) /\ Tracking[q] = Tracking[r] => q = r
    BY <2>1 DEF DeskInv
  <2> QED BY <1>0, <1>6, <2>1, <2>2, DeskGoesOn DEF ReceiptUnacknowledged
<1>7. ASSUME NEW r \in Receipts, ServerCommitsReceipt(r) PROVE DeskInv'
  BY <1>7, DeskCommits DEF ServerCommitsReceipt, Continue
<1>8. ASSUME NEW r \in Receipts, ServerAbortsReceipt(r) PROVE DeskInv'
  BY <1>0, <1>8, DeskGoesOn DEF ServerAbortsReceipt, Continue, DeskInv
<1>9. CASE WarehouseStops
  <2>1. /\ packages' = packages /\ failures' \in 0..MaxFailures
        /\ stage' \in [Receipts -> {"new", "summary", "insert", "inserted", "indoubt", "done"}]
        /\ reply' \in [Receipts -> Answers \cup {None}]
    BY <1>0, <1>9 DEF WarehouseStops, DeskInv, Answers
  <2>2. \A r \in Receipts :
          /\ stage'[r] = "done" \/ stage'[r] = stage[r]
          /\ reply'[r] = "error" \/ reply'[r] = reply[r]
    BY <1>9 DEF WarehouseStops
  <2>3. \A r \in Receipts : HasNumber(r)' => HasNumber(r)
    BY <2>1, <2>2 DEF HasNumber
  <2>4. \A t : Taken(t)' <=> Taken(t)
    BY <2>1 DEF Taken
  <2>5. \A p \in packages : stage'[p] = "done"
    BY <2>2 DEF DeskInv
  <2> QED BY <2>1, <2>2, <2>3, <2>4, <2>5 DEF DeskInv
<1>10. CASE UNCHANGED receipts
  <2>1. \A r \in Receipts : HasNumber(r)' <=> HasNumber(r)
    BY <1>10 DEF receipts, HasNumber
  <2>2. \A t : Taken(t)' <=> Taken(t)
    BY <1>10 DEF receipts, Taken
  <2> QED BY <1>10, <2>1, <2>2 DEF receipts, DeskInv
<1> QED
  BY <1>1, <1>2, <1>3, <1>4, <1>5, <1>6, <1>7, <1>8, <1>9, <1>10
  DEF ReceiptNext, Elsewhere, allVars

-----------------------------------------------------------------------------
(***************************************************************************)
(* The order service.                                                      *)
(***************************************************************************)
\* The other actions of the warehouse touch no variable of OrderEvents.
LEMMA OwnSteps ==
    ASSUME NEW r \in Receipts,
           \/ Receive(r) \/ InsertPackage(r) \/ CommitReceipt(r)
           \/ ReceiptError(r) \/ ReceiptUnacknowledged(r)
           \/ ServerCommitsReceipt(r) \/ ServerAbortsReceipt(r)
    PROVE  UNCHANGED vars
BY DEF Receive, InsertPackage, CommitReceipt, ReceiptError,
       ReceiptUnacknowledged, ServerCommitsReceipt, ServerAbortsReceipt

LEMMA StepIsStep == DeskInv /\ [ReceiptNext]_allVars => [Next]_vars
<1> SUFFICES ASSUME DeskInv, [ReceiptNext]_allVars PROVE [Next]_vars
  OBVIOUS
<1>1. CASE UNCHANGED allVars
  BY <1>1 DEF allVars
<1>2. ASSUME NEW r \in Receipts, GetWarehouseSummary(r) PROVE [Next]_vars
  BY <1>2 DEF GetWarehouseSummary, Receipts, Next
<1>3. CASE WarehouseStops
  BY <1>3 DEF WarehouseStops
<1>4. CASE Elsewhere
  <2>1. packages \subseteq Events
    BY DEF DeskInv, Receipts
  <2> QED BY <1>4, <2>1 DEF Elsewhere, Next
<1> QED BY <1>1, <1>2, <1>3, <1>4, OwnSteps DEF ReceiptNext

\* The warehouse and the order service together are a system that OrderEvents
\* describes, so all that is proved of it holds of them.
THEOREM ReceiptsAreOrderEvents == ReceiptSpec => Spec
<1>1. ReceiptSpec => []DeskInv
  BY DeskInit, DeskStep, PTL DEF ReceiptSpec
<1>2. ReceiptInit => Init
  BY DEF ReceiptInit
<1> QED BY <1>1, <1>2, StepIsStep, PTL DEF ReceiptSpec, Spec

-----------------------------------------------------------------------------
LEMMA RecordedInit == ReceiptInit => RecordedInv
BY NoneAssumption DEF ReceiptInit, Init, RecordedInv, Real, Receipts

\* A step of the order service takes records only from the log.
LEMMA RecordedStep ==
    SafetyInv /\ DeskInv /\ RecordedInv /\ [ReceiptNext]_allVars => RecordedInv'
<1> SUFFICES ASSUME SafetyInv, DeskInv, RecordedInv, [ReceiptNext]_allVars
             PROVE  RecordedInv'
  OBVIOUS
<1>t. TypeOK
  BY DEF SafetyInv
<1>r. \A e : Real(e) => Real(e)'
  <2>1. packages \subseteq packages'
    BY DEF ReceiptNext, Receive, GetWarehouseSummary, InsertPackage, CommitReceipt,
           ReceiptError, ReceiptUnacknowledged, ServerCommitsReceipt,
           ServerAbortsReceipt, WarehouseStops, Elsewhere, receipts, allVars
  <2> QED BY <2>1 DEF Real
<1>1. CASE UNCHANGED <<log, indoubt, processed>>
  BY <1>1, <1>r DEF RecordedInv
<1>2. ASSUME NEW r \in Receipts, GetWarehouseSummary(r)
      PROVE  UNCHANGED <<log, indoubt, processed>>
  BY <1>2 DEF GetWarehouseSummary, Accept, vars, database, locks, broker
<1>3. ASSUME NEW e \in (Events \ Receipts) \cup packages, Publish(e) PROVE RecordedInv'
  <2>1. e \in Events /\ Real(e) /\ PartitionOf(e) \in Partitions
    BY PartitionType DEF DeskInv, Receipts, Real
  <2>2. UNCHANGED <<indoubt, processed>>
    BY <1>3 DEF Publish, database, locks
  <2>3. ASSUME NEW x \in Partitions, NEW i \in 1..Len(log'[x]) PROVE Real(log'[x][i])
    <3>1. log[x] \in Seq(Events)
      BY <1>t DEF TypeOK
    <3>2. log'[x] = IF x = PartitionOf(e) THEN Append(log[x], e) ELSE log[x]
      BY <1>3, <1>t DEF Publish, TypeOK
    <3> QED BY <2>1, <2>3, <3>1, <3>2 DEF RecordedInv
  <2> QED BY <1>r, <2>2, <2>3 DEF RecordedInv
<1>4. ASSUME NEW e \in Events \ Receipts, Accept(e)
      PROVE  UNCHANGED <<log, indoubt, processed>>
  BY <1>4 DEF Accept, database, locks, broker
<1>5. ASSUME NEW o \in Orders, Create(o) \/ \E s \in Status : OperatorMove(o, s)
      PROVE  UNCHANGED <<log, indoubt, processed>>
  BY <1>5 DEF Create, OperatorMove, locks, broker
<1>6. ASSUME NEW o \in Orders, ServerCommits(o) \/ ServerAborts(o) PROVE RecordedInv'
  <2>1. /\ log' = log /\ indoubt' = [indoubt EXCEPT ![o] = None]
        /\ processed' = processed \/ processed' = processed \cup {indoubt[o]}
    BY <1>6 DEF ServerCommits, ServerAborts, Effects, database, broker
  <2>2. Real(None)
    BY NoneAssumption DEF Real, Receipts
  <2> QED BY <1>r, <1>t, <2>1, <2>2 DEF RecordedInv, TypeOK
<1>7. ASSUME NEW c \in Consumers, pc[c] # "idle" PROVE Real(Rec(c)) /\ Rec(c) \in Events
  BY <1>7, <1>t, RecType DEF SafetyInv, RecordInv, RecordedInv, Rec
<1>8. ASSUME NEW c \in Consumers, Commit(c) PROVE RecordedInv'
  <2>1. UNCHANGED <<log, indoubt>> /\ processed' = processed \cup {Rec(c)} /\ pc[c] # "idle"
    BY <1>8 DEF Commit, Effects, broker
  <2> QED BY <1>7, <1>r, <2>1 DEF RecordedInv
<1>9. ASSUME NEW c \in Consumers, CommitUnacknowledged(c) PROVE RecordedInv'
  <2>1. /\ UNCHANGED <<log, processed>> /\ pc[c] # "idle"
        /\ indoubt' = [indoubt EXCEPT ![EventOrder[Rec(c)]] = Rec(c)]
    BY <1>9 DEF CommitUnacknowledged, database, broker
  <2> QED BY <1>7, <1>r, <1>t, <2>1 DEF RecordedInv, TypeOK
<1>10. ASSUME NEW c \in Consumers, Consume(c), ~Commit(c), ~CommitUnacknowledged(c)
       PROVE  UNCHANGED <<log, indoubt, processed>>
  BY <1>10 DEF Consume, Poll, PollError, Refuse, CheckProcessed, LockOrder,
          OrderNotFound, Reject, StatementError, CommitOffset, database, locks, broker
<1>11. CASE Crash
  BY <1>1, <1>11 DEF Crash, database, broker
<1>12. CASE UNCHANGED vars
  BY <1>1, <1>12 DEF vars, database, locks, broker
<1>13. CASE Elsewhere
  BY <1>1, <1>3, <1>4, <1>5, <1>6, <1>8, <1>9, <1>10, <1>11, <1>13 DEF Elsewhere
<1>14. CASE WarehouseStops
  BY <1>12, <1>14 DEF WarehouseStops
<1> QED
  BY <1>1, <1>2, <1>12, <1>13, <1>14, OwnSteps DEF ReceiptNext, allVars

\* A tracking number has one package, an order arrives only for a package on
\* record, and the clerk can rely on a 201 and a 409.
THEOREM PackagesAreReceivedOnce == ReceiptSpec => []ReceivedOnce
<1>1. ReceiptSpec => []DeskInv
  BY DeskInit, DeskStep, PTL DEF ReceiptSpec
<1>2. ReceiptSpec => []SafetyInv
  BY ReceiptsAreOrderEvents, Safety, PTL
<1>3. ReceiptSpec => []RecordedInv
  BY <1>1, <1>2, RecordedInit, RecordedStep, PTL DEF ReceiptSpec
<1>4. DeskInv /\ RecordedInv => ReceivedOnce
  BY DEF DeskInv, RecordedInv, ReceivedOnce, HasNumber, Real
<1> QED BY <1>1, <1>3, <1>4, PTL

\* In particular no event of a receipt is lost or applied twice.
THEOREM ReceiptsAreApplied ==
    ReceiptSpec => [](NoEventLost /\ ExactlyOnce) /\ TransitionsAreLegal /\ ImplementsLifecycle
BY ReceiptsAreOrderEvents, EventsAreNotLost, EventsApplyOnce, LegalTransitions,
   RefinesLifecycle, PTL
=============================================================================
