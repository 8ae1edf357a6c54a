------------------------ MODULE OutboxRelay_proofs ------------------------
(***************************************************************************)
(* Safety of the outbox and its worker, for any rows, partitions, batch    *)
(* size and number of faults: a marked row is in the log, an event is not  *)
(* overtaken by a later one of its partition unless a publish failed, and  *)
(* events repeat only for failures and stops.                              *)
(***************************************************************************)
EXTENDS OutboxRelay, FiniteSetTheorems, TLAPS

\* Times are not in the future, differ, and a row was stamped after all the
\* rows it could have seen.
ClockInv ==
    /\ \A r \in Rows : created[r] <= clock
    /\ \A r \in visible : created[r] # 0
    /\ \A r, s \in Rows : created[r] = created[s] /\ created[r] # 0 => r = s
    /\ \A s \in Rows : \A r \in earlier[s] : created[r] < created[s]

\* The log holds rows of committed transactions, each in its own partition.
LogInv ==
    \A x \in Streams : \A i \in DOMAIN log[x] :
        log[x][i] \in visible /\ Stream[log[x][i]] = x

\* The row about to be marked has been delivered.
MarkInv ==
    pc = "mark" =>
        \A r \in batch : IsOldest(r, batch) => Delivered(r) # {}

\* Whatever precedes a row of the batch has been delivered, has failed, or is
\* a row of the batch itself.
BatchInv ==
    \A s \in batch : \A r \in earlier[s] \ failed :
        Stream[r] = Stream[s] => Delivered(r) # {} \/ r \in batch

RelayInv ==
    /\ TypeOK
    /\ ClockInv
    /\ LogInv
    /\ MarkedIsDelivered
    /\ MarkInv
    /\ BatchInv
    /\ DeliveredInOrder

-----------------------------------------------------------------------------
\* What it means to write a record.
LEMMA WrittenLog ==
    ASSUME TypeOK, NEW r \in visible, Written(r)
    PROVE  LET x == Stream[r] n == Len(log[x]) + 1 IN
           /\ x \in Streams /\ n \in Nat /\ n > Len(log[x])
           /\ log' \in [Streams -> Seq(Rows)]
           /\ \A y \in Streams \ {x} : log'[y] = log[y]
           /\ DOMAIN log[x] = 1..Len(log[x]) /\ DOMAIN log'[x] = 1..n
           /\ \A i \in DOMAIN log[x] : log'[x][i] = log[x][i]
           /\ log'[x][n] = r
<1> DEFINE x == Stream[r]
           n == Len(log[x]) + 1
<1>1. /\ r \in Rows /\ x \in Streams /\ log[x] \in Seq(Rows)
      /\ log'[x] = Append(log[x], r)
      /\ \A y \in Streams \ {x} : log'[y] = log[y]
      /\ log' \in [Streams -> Seq(Rows)]
  BY RelayAssumption DEF TypeOK, Written
<1>2. /\ DOMAIN log[x] = 1..Len(log[x]) /\ Len(log[x]) \in Nat
      /\ Len(log'[x]) = n /\ DOMAIN log'[x] = 1..n
      /\ \A i \in 1..Len(log[x]) : log'[x][i] = log[x][i]
      /\ log'[x][n] = r
  BY <1>1
<1> QED BY <1>1, <1>2

\* So the records of the row are the old ones and a new last one, and every
\* other row has the records it had.
LEMMA WrittenDelivered ==
    ASSUME TypeOK, NEW r \in visible, Written(r)
    PROVE  LET n == Len(log[Stream[r]]) + 1 IN
           /\ n \in Nat
           /\ Delivered(r)' = Delivered(r) \cup {n}
           /\ \A s \in Rows \ {r} : Delivered(s)' = Delivered(s)
           /\ \A s \in Rows : Stream[s] = Stream[r] =>
                 \A i \in Delivered(s) : i < n
<1> DEFINE x == Stream[r]
           n == Len(log[x]) + 1
<1>1. /\ x \in Streams /\ n \in Nat /\ n > Len(log[x])
      /\ \A y \in Streams \ {x} : log'[y] = log[y]
      /\ DOMAIN log[x] = 1..Len(log[x]) /\ DOMAIN log'[x] = 1..n
      /\ \A i \in DOMAIN log[x] : log'[x][i] = log[x][i]
      /\ log'[x][n] = r /\ Len(log[x]) \in Nat
  BY WrittenLog, RelayAssumption DEF TypeOK
<1> HIDE DEF x, n
<1>2. DOMAIN log'[x] = DOMAIN log[x] \cup {n} /\ n \notin DOMAIN log[x]
  <2>1. n = Len(log[x]) + 1
    BY DEF n
  <2> QED BY <1>1, <2>1
<1>3. Delivered(r)' = Delivered(r) \cup {n}
  BY <1>1, <1>2 DEF Delivered, x
<1>4. ASSUME NEW s \in Rows \ {r} PROVE Delivered(s)' = Delivered(s)
  <2>1. CASE Stream[s] = x
    BY <1>1, <1>2, <2>1 DEF Delivered
  <2>2. CASE Stream[s] # x
    BY <1>1, <2>2, RelayAssumption DEF Delivered
  <2> QED BY <2>1, <2>2
<1>5. ASSUME NEW s \in Rows, Stream[s] = x, NEW i \in Delivered(s)
      PROVE  i < n
  <2>1. i \in 1..Len(log[x])
    BY <1>1, <1>5 DEF Delivered
  <2> QED BY <1>1, <2>1
<1> QED BY <1>1, <1>3, <1>4, <1>5 DEF x, n

\* A step that leaves the log alone leaves every row its records.
LEMMA SameLog ==
    ASSUME log' = log
    PROVE  \A r : Delivered(r)' = Delivered(r)
BY DEF Delivered

-----------------------------------------------------------------------------
LEMMA RelayInit == Init => RelayInv
<1> SUFFICES ASSUME Init PROVE RelayInv
  OBVIOUS
<1>1. TypeOK
  BY RelayAssumption DEF Init, TypeOK
<1>2. \A r \in Rows : Delivered(r) = {}
  BY RelayAssumption DEF Init, Delivered
<1> QED
  BY <1>1, <1>2 DEF Init, RelayInv, ClockInv, LogInv, MarkedIsDelivered,
                    MarkInv, BatchInv, DeliveredInOrder

-----------------------------------------------------------------------------
\* The log changes only when the worker writes the oldest row of its batch.
LEMMA WriteOrNot ==
    ASSUME TypeOK, [Next]_vars
    PROVE  \/ log' = log
           \/ \E r \in batch : /\ pc = "publish" /\ IsOldest(r, batch)
                               /\ Written(r)
                               /\ UNCHANGED <<created, visible, published, earlier>>
<1>1. ASSUME NEW r \in Rows, Publish(r) \/ PublishError(r)
      PROVE  \/ log' = log
             \/ /\ r \in batch /\ pc = "publish" /\ IsOldest(r, batch)
                /\ Written(r)
                /\ UNCHANGED <<created, visible, published, earlier>>
  BY <1>1 DEF Publish, PublishError, IsOldest, tables, history
<1>2. ASSUME NEW r \in Rows, \/ Stamp(r) \/ Insert(r) \/ PublishRefused(r)
                             \/ MarkPublished(r) \/ MarkError(r)
      PROVE  log' = log
  BY <1>2 DEF Stamp, Insert, PublishRefused, MarkPublished, MarkError
<1>3. CASE FetchUnpublished \/ UNCHANGED vars
  BY <1>3 DEF FetchUnpublished, vars
<1>4. CASE Crash
  BY <1>4 DEF Crash, IsOldest, history
<1> QED BY <1>1, <1>2, <1>3, <1>4 DEF Next

\* Nothing that was delivered, committed or found to fail is undone.
LEMMA RelayGrows ==
    ASSUME TypeOK, [Next]_vars
    PROVE  /\ \A r \in Rows : Delivered(r) \subseteq Delivered(r)'
           /\ visible \subseteq visible' /\ failed \subseteq failed'
<1>1. \A r \in Rows : Delivered(r) \subseteq Delivered(r)'
  <2>1. CASE log' = log
    BY <2>1, SameLog
  <2>2. ASSUME NEW r \in batch, Written(r)
        PROVE  \A s \in Rows : Delivered(s) \subseteq Delivered(s)'
    <3>1. r \in visible
      BY DEF TypeOK
    <3> QED BY <2>2, <3>1, WrittenDelivered
  <2> QED BY <2>1, <2>2, WriteOrNot
<1>2. visible \subseteq visible' /\ failed \subseteq failed'
  BY DEF Next, vars, tables, history, FetchUnpublished, Crash, Stamp, Insert,
         Publish, PublishRefused, PublishError, MarkPublished, MarkError
<1> QED BY <1>1, <1>2

LEMMA RelayType == TypeOK /\ [Next]_vars => TypeOK'
<1> SUFFICES ASSUME TypeOK, [Next]_vars PROVE TypeOK'
  OBVIOUS
<1>1. log' \in [Streams -> Seq(Rows)]
  <2>1. CASE log' = log
    BY <2>1 DEF TypeOK
  <2>2. ASSUME NEW r \in batch, Written(r) PROVE log' \in [Streams -> Seq(Rows)]
    <3>1. r \in visible
      BY DEF TypeOK
    <3> QED BY <2>2, <3>1, WrittenLog
  <2> QED BY <2>1, <2>2, WriteOrNot
<1>2. CASE FetchUnpublished
  BY <1>1, <1>2 DEF FetchUnpublished, Fetched, TypeOK, tables, history
<1>3. CASE Crash
  BY <1>1, <1>3, RelayAssumption DEF Crash, Fault, TypeOK, history
<1>4. ASSUME NEW r \in Rows, Stamp(r) PROVE TypeOK'
  BY <1>1, <1>4 DEF Stamp, TypeOK, worker
<1>5. ASSUME NEW r \in Rows, Insert(r) PROVE TypeOK'
  BY <1>1, <1>5 DEF Insert, TypeOK, worker, history
<1>6. ASSUME NEW r \in Rows, Publish(r) PROVE TypeOK'
  BY <1>1, <1>6 DEF Publish, TypeOK, tables, history
<1>7. ASSUME NEW r \in Rows, PublishRefused(r) PROVE TypeOK'
  BY <1>1, <1>7 DEF PublishRefused, AfterError, Advance, IsOldest, TypeOK, tables
<1>8. ASSUME NEW r \in Rows, PublishError(r) PROVE TypeOK'
  BY <1>1, <1>8, RelayAssumption
  DEF PublishError, AfterError, Advance, IsOldest, Fault, TypeOK, tables
<1>9. ASSUME NEW r \in Rows, MarkPublished(r) PROVE TypeOK'
  BY <1>1, <1>9 DEF MarkPublished, Advance, IsOldest, TypeOK, history
<1>10. ASSUME NEW r \in Rows, MarkError(r) PROVE TypeOK'
  BY <1>1, <1>10, RelayAssumption
  DEF MarkError, Advance, IsOldest, Fault, TypeOK, history
<1>11. CASE UNCHANGED vars
  BY <1>11 DEF vars, tables, worker, history, TypeOK
<1> QED
  BY <1>2, <1>3, <1>4, <1>5, <1>6, <1>7, <1>8, <1>9, <1>10, <1>11 DEF Next

-----------------------------------------------------------------------------
\* Only Stamp and Insert touch what ClockInv speaks of.
LEMMA TablesStep ==
    ASSUME [Next]_vars
    PROVE  \/ \E r \in Rows : Stamp(r) \/ Insert(r)
           \/ UNCHANGED <<clock, created, visible, earlier>>
BY DEF Next, vars, tables, history, FetchUnpublished, Crash,
       Publish, PublishRefused, PublishError, MarkPublished, MarkError

LEMMA ClockStep == TypeOK /\ ClockInv /\ [Next]_vars => ClockInv'
<1> SUFFICES ASSUME TypeOK, ClockInv, [Next]_vars PROVE ClockInv'
  OBVIOUS
<1>1. ASSUME NEW r \in Rows, Stamp(r) PROVE ClockInv'
  <2>1. /\ clock' = clock + 1 /\ clock \in Nat /\ created[r] = 0
        /\ created' = [created EXCEPT ![r] = clock + 1]
        /\ earlier' = [earlier EXCEPT ![r] = visible]
        /\ visible' = visible /\ r \notin visible
        /\ \A s \in Rows : created[s] \in Nat /\ earlier[s] \subseteq visible
        /\ visible \subseteq Rows
    BY <1>1 DEF Stamp, TypeOK, ClockInv
  <2>2. created'[r] = clock + 1 /\ earlier'[r] = visible
    BY <2>1 DEF TypeOK
  <2>3. \A s \in Rows \ {r} : created'[s] = created[s] /\ earlier'[s] = earlier[s]
    BY <2>1 DEF TypeOK
  <2>4. \A s \in Rows : created'[s] <= clock'
    BY <2>1, <2>2, <2>3 DEF ClockInv
  <2>5. \A s \in visible' : created'[s] # 0
    BY <2>1, <2>3 DEF ClockInv
  <2>6. \A s, t \in Rows : created'[s] = created'[t] /\ created'[s] # 0 => s = t
    BY <2>1, <2>2, <2>3 DEF ClockInv
  <2>7. \A s \in Rows : \A t \in earlier'[s] : created'[t] < created'[s]
    BY <2>1, <2>2, <2>3 DEF ClockInv
  <2> QED BY <2>4, <2>5, <2>6, <2>7 DEF ClockInv
<1>2. ASSUME NEW r \in Rows, Insert(r) PROVE ClockInv'
  BY <1>2 DEF Insert, ClockInv, history
<1>3. CASE UNCHANGED <<clock, created, visible, earlier>>
  BY <1>3 DEF ClockInv
<1> QED BY <1>1, <1>2, <1>3, TablesStep

LEMMA LogStep == TypeOK /\ LogInv /\ [Next]_vars => LogInv'
<1> SUFFICES ASSUME TypeOK, LogInv, [Next]_vars PROVE LogInv'
  OBVIOUS
<1>1. CASE log' = log
  BY <1>1, RelayGrows DEF LogInv
<1>2. ASSUME NEW r \in batch, Written(r) PROVE LogInv'
  <2> DEFINE x == Stream[r]
             n == Len(log[x]) + 1
  <2>1. r \in visible
    BY DEF TypeOK
  <2>2. /\ x \in Streams /\ n \in Nat
        /\ \A y \in Streams \ {x} : log'[y] = log[y]
        /\ DOMAIN log[x] = 1..Len(log[x]) /\ DOMAIN log'[x] = 1..n
        /\ \A i \in DOMAIN log[x] : log'[x][i] = log[x][i]
        /\ log'[x][n] = r /\ Len(log[x]) \in Nat
    BY <1>2, <2>1, WrittenLog DEF TypeOK
  <2>3. \A i \in DOMAIN log'[x] : i \in DOMAIN log[x] \/ i = n
    BY <2>2
  <2> HIDE DEF n
  <2>4. \A i \in DOMAIN log'[x] : log'[x][i] \in visible' /\ Stream[log'[x][i]] = x
    BY <2>1, <2>2, <2>3, RelayGrows DEF LogInv
  <2>5. \A y \in Streams \ {x} : \A i \in DOMAIN log'[y] :
           log'[y][i] \in visible' /\ Stream[log'[y][i]] = y
    BY <2>2, RelayGrows DEF LogInv
  <2> QED BY <2>4, <2>5 DEF LogInv
<1> QED BY <1>1, <1>2, WriteOrNot

-----------------------------------------------------------------------------
\* The worker's part of the steps: the batch is new, shrinks by its oldest row,
\* is dropped, or stays; and what that means for the row to be marked.
LEMMA MarkStep == RelayInv /\ [Next]_vars => MarkInv'
<1> SUFFICES ASSUME RelayInv, [Next]_vars PROVE MarkInv'
  OBVIOUS
<1> USE DEF RelayInv
<1>1. CASE pc' # "mark"
  BY <1>1 DEF MarkInv
<1>2. ASSUME NEW r \in Rows, Publish(r) PROVE MarkInv'
  <2>1. /\ r \in batch /\ r \in visible /\ batch' = batch /\ created' = created
        /\ Written(r) /\ \A s \in batch : created[r] <= created[s]
    BY <1>2 DEF Publish, IsOldest, TypeOK, tables
  <2>2. Delivered(r)' # {}
    BY <2>1, WrittenDelivered
  <2>3. ASSUME NEW s \in batch', IsOldest(s, batch)' PROVE s = r
    BY <2>1, <2>3 DEF IsOldest, TypeOK, ClockInv
  <2> QED BY <2>2, <2>3 DEF MarkInv
<1>3. CASE UNCHANGED <<batch, pc>> /\ UNCHANGED log /\ UNCHANGED created
  BY <1>3, SameLog DEF MarkInv, IsOldest
<1>4. ASSUME NEW r \in Rows, Insert(r) PROVE MarkInv'
  BY <1>3, <1>4 DEF Insert, worker
<1>5. ASSUME NEW r \in Rows, Stamp(r) PROVE MarkInv'
  <2>1. /\ UNCHANGED <<batch, pc, log>> /\ r \notin batch
        /\ \A s \in batch : created'[s] = created[s]
    BY <1>5 DEF Stamp, worker, TypeOK, ClockInv
  <2> QED BY <2>1, SameLog DEF MarkInv, IsOldest
<1>6. CASE UNCHANGED vars
  BY <1>3, <1>6 DEF vars, worker, tables
<1>7. CASE FetchUnpublished \/ Crash
  BY <1>1, <1>7 DEF FetchUnpublished, Crash
<1>8. ASSUME NEW r \in Rows, \/ PublishRefused(r) \/ PublishError(r)
                             \/ MarkPublished(r) \/ MarkError(r)
      PROVE  MarkInv'
  BY <1>1, <1>8 DEF PublishRefused, PublishError, MarkPublished, MarkError,
                    AfterError, Advance
<1> QED BY <1>2, <1>4, <1>5, <1>6, <1>7, <1>8 DEF Next

LEMMA MarkedStep == RelayInv /\ [Next]_vars => MarkedIsDelivered'
<1> SUFFICES ASSUME RelayInv, [Next]_vars PROVE MarkedIsDelivered'
  OBVIOUS
<1> USE DEF RelayInv
<1>1. \A r \in Rows : Delivered(r) # {} => Delivered(r)' # {}
  BY RelayGrows
<1>2. ASSUME NEW r \in batch, pc = "mark", IsOldest(r, batch),
             published' = published \cup {r}
      PROVE  MarkedIsDelivered'
  <2>1. Delivered(r) # {}
    BY <1>2 DEF MarkInv
  <2> QED BY <1>1, <1>2, <2>1 DEF MarkedIsDelivered, TypeOK
<1>3. CASE published' = published
  BY <1>1, <1>3 DEF MarkedIsDelivered, TypeOK
<1>4. ASSUME NEW r \in Rows, MarkPublished(r) \/ MarkError(r)
      PROVE  MarkedIsDelivered'
  BY <1>2, <1>3, <1>4 DEF MarkPublished, MarkError, IsOldest
<1>5. CASE Crash
  BY <1>2, <1>3, <1>5 DEF Crash
<1>6. CASE FetchUnpublished \/ UNCHANGED vars
  BY <1>3, <1>6 DEF FetchUnpublished, vars, tables
<1>7. ASSUME NEW r \in Rows, \/ Stamp(r) \/ Insert(r) \/ Publish(r)
                             \/ PublishRefused(r) \/ PublishError(r)
      PROVE  MarkedIsDelivered'
  BY <1>3, <1>7 DEF Stamp, Insert, Publish, PublishRefused, PublishError, tables
<1> QED BY <1>4, <1>5, <1>6, <1>7 DEF Next

\* The worker may let go of a row that has been delivered or has failed.
LEMMA BatchCarry ==
    ASSUME RelayInv, [Next]_vars, NEW r, batch' \subseteq batch,
           \A s \in batch' : earlier'[s] = earlier[s],
           \A s \in batch : s \in batch' \/ s = r,
           r \in batch' \/ r \in failed' \/ r \notin batch \/ Delivered(r) # {}
    PROVE  BatchInv'
<1> SUFFICES ASSUME NEW s \in batch', NEW q \in earlier[s] \ failed',
                    Stream[q] = Stream[s]
             PROVE  Delivered(q)' # {} \/ q \in batch'
  BY DEF BatchInv
<1>1. /\ s \in batch /\ q \in earlier[s] \ failed /\ q \in Rows
      /\ Delivered(q) \subseteq Delivered(q)'
  BY RelayGrows DEF RelayInv, TypeOK
<1>2. Delivered(q) # {} \/ q \in batch
  BY <1>1 DEF RelayInv, BatchInv
<1> QED BY <1>1, <1>2

LEMMA BatchStep == RelayInv /\ [Next]_vars => BatchInv'
<1> SUFFICES ASSUME RelayInv, [Next]_vars PROVE BatchInv'
  OBVIOUS
<1>1. CASE FetchUnpublished
  <2>1. /\ UNCHANGED <<log, earlier, failed>> /\ batch' \subseteq visible \ published
        /\ \A s \in batch', q \in (visible \ published) \ batch' :
              created[s] < created[q]
    BY <1>1 DEF FetchUnpublished, Fetched, history
  <2> SUFFICES ASSUME NEW s \in batch', NEW q \in earlier[s]
               PROVE  Delivered(q)' # {} \/ q \in batch'
    BY <2>1 DEF BatchInv
  <2>2. /\ q \in visible /\ q \in Rows /\ s \in Rows /\ created[q] < created[s]
        /\ created[q] \in Nat /\ created[s] \in Nat
    BY <2>1 DEF RelayInv, TypeOK, ClockInv
  <2>3. CASE q \in published
    BY <2>1, <2>3, SameLog DEF RelayInv, MarkedIsDelivered
  <2>4. CASE q \notin published
    BY <2>1, <2>2, <2>4
  <2> QED BY <2>3, <2>4
<1>2. CASE Crash
  BY <1>2 DEF Crash, BatchInv
<1>3. ASSUME NEW r \in Rows, Stamp(r) PROVE BatchInv'
  <2>1. batch' = batch /\ r \notin batch
    BY <1>3 DEF Stamp, worker, RelayInv, TypeOK, ClockInv
  <2>2. \A s \in batch' : earlier'[s] = earlier[s]
    BY <1>3, <2>1 DEF Stamp, RelayInv, TypeOK
  <2> QED BY <2>1, <2>2, BatchCarry
<1>4. ASSUME NEW r \in Rows, Insert(r) \/ Publish(r) PROVE BatchInv'
  BY <1>4, BatchCarry DEF Insert, Publish, worker, history
<1>5. ASSUME NEW r \in Rows, PublishRefused(r) \/ PublishError(r)
      PROVE  BatchInv'
  BY <1>5, BatchCarry DEF PublishRefused, PublishError, AfterError, Advance
<1>6. ASSUME NEW r \in Rows, MarkPublished(r) \/ MarkError(r) PROVE BatchInv'
  <2>1. Delivered(r) # {}
    BY <1>6 DEF MarkPublished, MarkError, IsOldest, RelayInv, MarkInv
  <2> QED
    BY <1>6, <2>1, BatchCarry DEF MarkPublished, MarkError, Advance, history
<1>7. CASE UNCHANGED vars
  BY <1>7, BatchCarry DEF vars, worker, history
<1> QED BY <1>1, <1>2, <1>3, <1>4, <1>5, <1>6, <1>7 DEF Next

-----------------------------------------------------------------------------
\* Nothing has a record before it is inserted.
LEMMA DeliveredIsVisible ==
    ASSUME TypeOK, LogInv, NEW r \in Rows, Delivered(r) # {}
    PROVE  r \in visible
BY RelayAssumption DEF TypeOK, LogInv, Delivered

LEMMA OrderStep == RelayInv /\ [Next]_vars => DeliveredInOrder'
<1> SUFFICES ASSUME RelayInv, [Next]_vars, NEW s \in Rows,
                    NEW r \in earlier'[s] \ failed',
                    Stream[r] = Stream[s], Delivered(s)' # {}
             PROVE  \E i \in Delivered(r)' : \A j \in Delivered(s)' : i < j
  BY DEF DeliveredInOrder
<1>1. r \notin failed
  BY RelayGrows DEF RelayInv
<1>2. CASE log' = log
  <2>1. Delivered(s) # {} /\ Delivered(s)' = Delivered(s) /\ Delivered(r)' = Delivered(r)
    BY <1>2, SameLog
  <2>2. r \in earlier[s]
    <3>1. s \in visible
      BY <2>1, DeliveredIsVisible DEF RelayInv
    <3>2. earlier'[s] = earlier[s]
      BY <3>1, TablesStep DEF Stamp, Insert, history, RelayInv, TypeOK, ClockInv
    <3> QED BY <3>2
  <2> QED BY <1>1, <2>1, <2>2 DEF RelayInv, DeliveredInOrder
<1>3. ASSUME NEW w \in batch, pc = "publish", IsOldest(w, batch), Written(w),
             UNCHANGED <<created, visible, published, earlier>>
      PROVE  \E i \in Delivered(r)' : \A j \in Delivered(s)' : i < j
  <2> DEFINE n == Len(log[Stream[w]]) + 1
  <2>1. /\ w \in visible /\ r \in earlier[s] /\ r \in Rows /\ w \in Rows
        /\ created[r] < created[s] /\ created[r] \in Nat /\ created[s] \in Nat
    BY <1>3 DEF RelayInv, TypeOK, ClockInv
  <2>2. /\ Delivered(w)' = Delivered(w) \cup {n}
        /\ \A t \in Rows \ {w} : Delivered(t)' = Delivered(t)
        /\ \A t \in Rows : Stream[t] = Stream[w] =>
              \A i \in Delivered(t) : i < n
    BY <1>3, <2>1, WrittenDelivered DEF RelayInv
  <2> HIDE DEF n
  <2>3. CASE Delivered(s) # {}
    <3>1. PICK i \in Delivered(r) : \A j \in Delivered(s) : i < j
      BY <1>1, <2>1, <2>3 DEF RelayInv, DeliveredInOrder
    <3>2. i \in Delivered(r)'
      BY <2>1, <2>2
    <3>3. \A j \in Delivered(s)' : i < j
      BY <2>1, <2>2, <3>1
    <3> QED BY <3>2, <3>3
  <2>4. CASE Delivered(s) = {}
    <3>1. s = w
      BY <2>2, <2>4
    <3>2. r \notin batch
      BY <1>3, <2>1, <3>1 DEF IsOldest
    <3>3. Delivered(r) # {}
      BY <1>1, <1>3, <2>1, <3>1, <3>2 DEF RelayInv, BatchInv
    <3>4. PICK i \in Delivered(r) : i < n
      BY <2>1, <2>2, <3>1, <3>3
    <3>5. i \in Delivered(r)' /\ Delivered(s)' = {n}
      BY <2>1, <2>2, <2>4, <3>1
    <3> QED BY <3>4, <3>5
  <2> QED BY <2>3, <2>4
<1>4. TypeOK
  BY DEF RelayInv
<1> QED BY <1>2, <1>3, <1>4, WriteOrNot

-----------------------------------------------------------------------------
\* The invariant of the outbox and its worker.
THEOREM RelaySafety == Spec => []RelayInv
<1>1. RelayInv /\ [Next]_vars => RelayInv'
  BY RelayType, ClockStep, LogStep, MarkedStep, MarkStep, BatchStep, OrderStep
  DEF RelayInv
<1> QED BY <1>1, RelayInit, PTL DEF Spec

\* The tables, the worker and the broker keep their types.
THEOREM RelayTypeCorrect == Spec => []TypeOK
<1>1. RelayInv => TypeOK
  BY DEF RelayInv
<1> QED BY <1>1, RelaySafety, PTL

\* published_at is set only on rows whose record the broker has.
THEOREM MarkedWasDelivered == Spec => []MarkedIsDelivered
<1>1. RelayInv => MarkedIsDelivered
  BY DEF RelayInv
<1> QED BY <1>1, RelaySafety, PTL

\* An event is not overtaken by a later one of its partition unless one of its
\* own publishes failed.
THEOREM NotOvertaken == Spec => []DeliveredInOrder
<1>1. RelayInv => DeliveredInOrder
  BY DEF RelayInv
<1> QED BY <1>1, RelaySafety, PTL

-----------------------------------------------------------------------------
(***************************************************************************)
(* Why events repeat.  A row is owed while it has a record, is not marked, *)
(* and is not just about to be: the worker will write it once more.  Every *)
(* failure and every stop adds one such row at most, and a repetition pays *)
(* for one.                                                                *)
(***************************************************************************)
Recorded(x) == {log[x][i] : i \in DOMAIN log[x]}

Acknowledged(r) == pc = "mark" /\ IsOldest(r, batch)

Owed(x) == {r \in Recorded(x) \ published : ~Acknowledged(r)}

\* The account of a partition.
Balanced(x) ==
    /\ IsFiniteSet(Recorded(x))
    /\ Len(log[x]) + Cardinality(Owed(x)) <= Cardinality(Recorded(x)) + faults

CauseInv ==
    /\ batch \cap published = {}
    /\ \A x \in Streams : Balanced(x)

\* There is one oldest row of the batch.
LEMMA OldestIsOne ==
    ASSUME TypeOK, ClockInv, NEW r, IsOldest(r, batch), NEW s, IsOldest(s, batch)
    PROVE  r = s
<1>1. r \in visible /\ s \in visible /\ created[r] <= created[s] /\ created[s] <= created[r]
  BY DEF IsOldest, TypeOK
<1>2. created[r] \in Nat /\ created[s] \in Nat /\ created[r] # 0
  BY <1>1 DEF TypeOK, ClockInv
<1> QED BY <1>1, <1>2 DEF TypeOK, ClockInv

\* Rows owed are rows recorded; sets of them are finite.
LEMMA OwedIsFinite ==
    ASSUME NEW x, IsFiniteSet(Recorded(x))
    PROVE  /\ IsFiniteSet(Owed(x))
           /\ Cardinality(Recorded(x)) \in Nat /\ Cardinality(Owed(x)) \in Nat
<1>1. Owed(x) \subseteq Recorded(x)
  BY DEF Owed
<1> QED BY <1>1, FS_Subset, FS_CardinalityType

\* A set gains one element at most.
LEMMA OneMore ==
    ASSUME NEW S, IsFiniteSet(S), NEW r, NEW U, U \subseteq S \cup {r}
    PROVE  IsFiniteSet(U) /\ Cardinality(U) \in Nat /\ Cardinality(U) <= Cardinality(S) + 1
<1>1. /\ IsFiniteSet(S \cup {r}) /\ Cardinality(S) \in Nat
      /\ Cardinality(S \cup {r}) <= Cardinality(S) + 1
  BY FS_AddElement, FS_CardinalityType
<1>2. /\ IsFiniteSet(U) /\ Cardinality(U) \in Nat
      /\ Cardinality(U) <= Cardinality(S \cup {r})
  BY <1>1, FS_Subset, FS_CardinalityType
<1>3. Cardinality(S \cup {r}) \in Nat
  BY <1>1, FS_CardinalityType
<1> QED BY <1>1, <1>2, <1>3

\* The account of a partition to which nothing is written.
LEMMA BalanceCarry ==
    ASSUME TypeOK, TypeOK', NEW x \in Streams, Balanced(x), log'[x] = log[x], NEW r,
           \/ Owed(x)' \subseteq Owed(x) /\ faults' \in {faults, faults + 1}
           \/ Owed(x)' \subseteq Owed(x) \cup {r} /\ faults' = faults + 1
    PROVE  Balanced(x)'
<1>1. Recorded(x)' = Recorded(x) /\ Len(log'[x]) = Len(log[x])
  BY DEF Recorded
<1>2. /\ Len(log[x]) \in Nat /\ faults \in Nat
      /\ IsFiniteSet(Owed(x)) /\ Cardinality(Recorded(x)) \in Nat
      /\ Cardinality(Owed(x)) \in Nat
  BY OwedIsFinite, RelayAssumption DEF TypeOK, Balanced
<1>3. \/ /\ Cardinality(Owed(x)') \in Nat
         /\ Cardinality(Owed(x)') <= Cardinality(Owed(x))
         /\ faults' \in {faults, faults + 1}
      \/ /\ Cardinality(Owed(x)') \in Nat
         /\ Cardinality(Owed(x)') <= Cardinality(Owed(x)) + 1
         /\ faults' = faults + 1
  <2>1. CASE Owed(x)' \subseteq Owed(x) /\ faults' \in {faults, faults + 1}
    BY <1>2, <2>1, FS_Subset, FS_CardinalityType
  <2>2. CASE Owed(x)' \subseteq Owed(x) \cup {r} /\ faults' = faults + 1
    BY <1>2, <2>2, OneMore
  <2> QED BY <2>1, <2>2
<1> QED BY <1>1, <1>2, <1>3 DEF Balanced

\* The account of the partition a row is written to: the row was owed if it had
\* a record already, and is so after only if the write was a fault.
LEMMA BalanceWritten ==
    ASSUME TypeOK, TypeOK', NEW r \in visible, Written(r), NEW x \in Streams,
           x = Stream[r], Balanced(x), r \in Recorded(x) => r \in Owed(x),
           \/ Owed(x)' \subseteq Owed(x) \ {r} /\ faults' = faults
           \/ Owed(x)' \subseteq Owed(x) \cup {r} /\ faults' = faults + 1
    PROVE  Balanced(x)'
<1> DEFINE n == Len(log[x]) + 1
<1>1. /\ DOMAIN log[x] = 1..Len(log[x]) /\ DOMAIN log'[x] = 1..n
      /\ \A i \in DOMAIN log[x] : log'[x][i] = log[x][i]
      /\ log'[x][n] = r /\ Len(log[x]) \in Nat /\ Len(log'[x]) = n
      /\ faults \in Nat
  <2>1. /\ n \in Nat /\ DOMAIN log[x] = 1..Len(log[x]) /\ DOMAIN log'[x] = 1..n
        /\ \A i \in DOMAIN log[x] : log'[x][i] = log[x][i]
        /\ log'[x][n] = r
    BY WrittenLog
  <2>2. log[x] \in Seq(Rows) /\ log'[x] \in Seq(Rows) /\ faults \in Nat
    BY RelayAssumption DEF TypeOK
  <2> QED BY <2>1, <2>2
<1>2. Recorded(x)' = Recorded(x) \cup {r}
  <2>1. \A i : i \in DOMAIN log'[x] <=> i \in DOMAIN log[x] \/ i = n
    BY <1>1
  <2> HIDE DEF n
  <2> QED BY <1>1, <2>1 DEF Recorded
<1>3. /\ IsFiniteSet(Owed(x)) /\ Cardinality(Recorded(x)) \in Nat
      /\ Cardinality(Owed(x)) \in Nat /\ IsFiniteSet(Recorded(x))
  BY OwedIsFinite DEF Balanced
<1>4. /\ IsFiniteSet(Recorded(x)')
      /\ r \in Recorded(x) => Cardinality(Recorded(x)') = Cardinality(Recorded(x))
      /\ r \notin Recorded(x) => Cardinality(Recorded(x)') = Cardinality(Recorded(x)) + 1
  BY <1>2, <1>3, FS_AddElement
<1>5. Len(log[x]) + Cardinality(Owed(x)) <= Cardinality(Recorded(x)) + faults
  BY DEF Balanced
<1>6. Owed(x) \subseteq Recorded(x)
  BY DEF Owed
<1>7. CASE Owed(x)' \subseteq Owed(x) \ {r} /\ faults' = faults
  <2>1. /\ IsFiniteSet(Owed(x) \ {r}) /\ Cardinality(Owed(x) \ {r}) \in Nat
        /\ r \in Owed(x) => Cardinality(Owed(x) \ {r}) = Cardinality(Owed(x)) - 1
        /\ r \notin Owed(x) => Cardinality(Owed(x) \ {r}) = Cardinality(Owed(x))
    BY <1>3, FS_RemoveElement, FS_CardinalityType
  <2>2. /\ Cardinality(Owed(x)') \in Nat
        /\ Cardinality(Owed(x)') <= Cardinality(Owed(x) \ {r})
    BY <1>7, <2>1, FS_Subset, FS_CardinalityType
  <2>3. CASE r \in Recorded(x)
    BY <1>1, <1>3, <1>4, <1>5, <1>7, <2>1, <2>2, <2>3 DEF Balanced
  <2>4. CASE r \notin Recorded(x)
    BY <1>1, <1>3, <1>4, <1>5, <1>6, <1>7, <2>1, <2>2, <2>4 DEF Balanced
  <2> QED BY <2>3, <2>4
<1>8. CASE Owed(x)' \subseteq Owed(x) \cup {r} /\ faults' = faults + 1
  <2>1. CASE r \in Recorded(x)
    <3>1. Owed(x)' \subseteq Owed(x)
      BY <1>8, <2>1
    <3>2. Cardinality(Owed(x)') \in Nat /\ Cardinality(Owed(x)') <= Cardinality(Owed(x))
      BY <1>3, <3>1, FS_Subset, FS_CardinalityType
    <3>3. Len(log'[x]) + Cardinality(Owed(x)') <= Cardinality(Recorded(x)') + faults'
      BY <1>1, <1>3, <1>4, <1>5, <1>8, <2>1, <3>2
    <3> QED BY <1>4, <3>3 DEF Balanced
  <2>2. CASE r \notin Recorded(x)
    <3>1. /\ Cardinality(Owed(x)') \in Nat
          /\ Cardinality(Owed(x)') <= Cardinality(Owed(x)) + 1
      BY <1>3, <1>8, OneMore
    <3>2. Cardinality(Recorded(x)') = Cardinality(Recorded(x)) + 1
      BY <1>4, <2>2
    <3>3. /\ Len(log'[x]) = Len(log[x]) + 1 /\ Len(log[x]) \in Nat
          /\ faults' = faults + 1 /\ faults \in Nat
      BY <1>1, <1>8
    <3>4. Len(log'[x]) + Cardinality(Owed(x)') <= Cardinality(Recorded(x)') + faults'
      <4> DEFINE a == Cardinality(Owed(x))
                 b == Cardinality(Owed(x)')
                 k == Cardinality(Recorded(x))
                 l == Len(log[x])
      <4>1. a \in Nat /\ b \in Nat /\ k \in Nat /\ l \in Nat /\ faults \in Nat
        BY <1>3, <3>1, <3>3
      <4>2. b <= a + 1 /\ l + a <= k + faults
        BY <1>5, <3>1
      <4> HIDE DEF a, b, k, l
      <4>3. (l + 1) + b <= (k + 1) + (faults + 1)
        BY <4>1, <4>2
      <4> QED BY <3>2, <3>3, <4>3 DEF b, k, l
    <3> QED BY <1>4, <3>4 DEF Balanced
  <2> QED BY <2>1, <2>2
<1> QED BY <1>7, <1>8

\* Where nothing is written, only a row that was about to be marked can become
\* one that is owed.
LEMMA OwedCarry ==
    ASSUME NEW x \in Streams, log'[x] = log[x], published \subseteq published',
           NEW q \in Owed(x)'
    PROVE  q \in Owed(x) \/ Acknowledged(q)
BY DEF Owed, Recorded

\* Where the worker writes a row, a record of it from before is owed.
LEMMA WrittenIsOwed ==
    ASSUME RelayInv, CauseInv, NEW r \in batch, pc = "publish", Written(r),
           NEW x \in Streams, published' = published
    PROVE  /\ x # Stream[r] => log'[x] = log[x] /\ Owed(x)' \subseteq Owed(x)
           /\ x = Stream[r] => /\ r \in Recorded(x) => r \in Owed(x)
                               /\ Owed(x)' \subseteq Owed(x) \cup {r}
<1>1. r \in visible /\ r \notin published
  BY DEF RelayInv, TypeOK, CauseInv
<1>2. CASE x # Stream[r]
  <2>1. log'[x] = log[x]
    BY <1>1, <1>2, WrittenLog DEF RelayInv
  <2> QED BY <1>2, <2>1, OwedCarry DEF Acknowledged
<1>3. CASE x = Stream[r]
  <2> DEFINE n == Len(log[x]) + 1
  <2>1. /\ DOMAIN log[x] = 1..Len(log[x]) /\ DOMAIN log'[x] = 1..n
        /\ \A i \in DOMAIN log[x] : log'[x][i] = log[x][i]
        /\ log'[x][n] = r /\ Len(log[x]) \in Nat
    BY <1>1, <1>3, WrittenLog DEF RelayInv, TypeOK
  <2>2. \A i \in DOMAIN log'[x] : i \in DOMAIN log[x] \/ i = n
    BY <2>1
  <2> HIDE DEF n
  <2>3. Recorded(x)' \subseteq Recorded(x) \cup {r}
    BY <2>1, <2>2 DEF Recorded
  <2> QED BY <1>1, <1>3, <2>3 DEF Owed, Acknowledged
<1> QED BY <1>2, <1>3

LEMMA CauseInit == Init => CauseInv
<1> SUFFICES ASSUME Init PROVE CauseInv
  OBVIOUS
<1>1. ASSUME NEW x \in Streams PROVE Balanced(x)
  <2>1. log[x] = <<>> /\ faults = 0
    BY <1>1 DEF Init
  <2>2. Recorded(x) = {} /\ Owed(x) = {}
    BY <2>1 DEF Recorded, Owed
  <2> QED BY <2>1, <2>2, FS_EmptySet DEF Balanced
<1> QED BY <1>1 DEF Init, CauseInv

LEMMA CauseStep ==
    ASSUME RelayInv, RelayInv', CauseInv, [Next]_vars
    PROVE  CauseInv'
<1>0. TypeOK /\ TypeOK' /\ ClockInv /\ faults \in Nat
  BY RelayAssumption DEF RelayInv, TypeOK
<1>1. batch' \cap published' = {}
  BY DEF CauseInv, Next, vars, tables, worker, FetchUnpublished, Fetched, Crash, Stamp,
         Insert, Publish, PublishRefused, PublishError, AfterError, Advance,
         MarkPublished, MarkError
<1> SUFFICES ASSUME NEW x \in Streams PROVE Balanced(x)'
  BY <1>1 DEF CauseInv
<1>2. Balanced(x)
  BY DEF CauseInv
<1>3. ASSUME log' = log, published \subseteq published', faults' = faults,
             \A q : Acknowledged(q) => Acknowledged(q)' \/ q \in published'
      PROVE  Balanced(x)'
  <2>1. Owed(x)' \subseteq Owed(x)
    BY <1>3, OwedCarry DEF Owed
  <2> QED BY <1>0, <1>2, <1>3, <2>1, BalanceCarry
<1>4. ASSUME log' = log, published \subseteq published', faults' = faults + 1
      PROVE  Balanced(x)'
  <2>1. PICK r : Owed(x)' \subseteq Owed(x) \cup {r}
    <3>1. CASE \E r : Acknowledged(r)
      <4>1. PICK r : Acknowledged(r)
        BY <3>1
      <4>2. \A q : Acknowledged(q) => q = r
        BY <1>0, <4>1, OldestIsOne DEF Acknowledged
      <4> QED BY <1>4, <4>2, OwedCarry
    <3>2. CASE ~ \E r : Acknowledged(r)
      BY <1>4, <3>2, OwedCarry
    <3> QED BY <3>1, <3>2
  <2> QED BY <1>0, <1>2, <1>4, <2>1, BalanceCarry
<1>5. ASSUME NEW r \in batch, pc = "publish", Written(r), published' = published,
             faults' = faults + 1
      PROVE  Balanced(x)'
  <2>1. r \in visible
    BY <1>0 DEF TypeOK
  <2> QED BY <1>0, <1>2, <1>5, <2>1, WrittenIsOwed, BalanceCarry, BalanceWritten
<1>6. ASSUME NEW r \in Rows, Publish(r) PROVE Balanced(x)'
  <2>1. /\ r \in batch /\ r \in visible /\ pc = "publish" /\ Written(r)
        /\ published' = published /\ faults' = faults /\ Acknowledged(r)'
    BY <1>0, <1>6 DEF Publish, IsOldest, TypeOK, tables, Acknowledged
  <2>2. r \notin Owed(x)'
    BY <2>1 DEF Owed
  <2>3. CASE x # Stream[r]
    BY <1>0, <1>2, <2>1, <2>3, WrittenIsOwed, BalanceCarry
  <2>4. CASE x = Stream[r]
    <3>1. Owed(x)' \subseteq Owed(x) \ {r}
      BY <2>1, <2>2, <2>4, WrittenIsOwed
    <3> QED BY <1>0, <1>2, <2>1, <2>4, <3>1, WrittenIsOwed, BalanceWritten
  <2> QED BY <2>3, <2>4
<1>7. ASSUME NEW r \in Rows, PublishRefused(r) PROVE Balanced(x)'
  BY <1>3, <1>7 DEF PublishRefused, Acknowledged, tables
<1>8. ASSUME NEW r \in Rows, PublishError(r) PROVE Balanced(x)'
  BY <1>4, <1>5, <1>8 DEF PublishError, Fault, IsOldest, tables
<1>9. ASSUME NEW r \in Rows, MarkPublished(r) PROVE Balanced(x)'
  <2>1. \A q : Acknowledged(q) => q \in published'
    BY <1>0, <1>9, OldestIsOne DEF Acknowledged, MarkPublished
  <2> QED BY <1>3, <1>9, <2>1 DEF MarkPublished
<1>10. ASSUME NEW r \in Rows, MarkError(r) PROVE Balanced(x)'
  BY <1>4, <1>10 DEF MarkError, Fault
<1>11. CASE Crash
  BY <1>4, <1>5, <1>11 DEF Crash, Fault
<1>12. CASE FetchUnpublished
  BY <1>3, <1>12 DEF FetchUnpublished, Acknowledged, tables
<1>13. ASSUME NEW r \in Rows, Stamp(r) PROVE Balanced(x)'
  <2>1. /\ r \notin batch /\ \A s \in batch : created'[s] = created[s]
        /\ UNCHANGED <<batch, pc, log, published, faults>>
    BY <1>0, <1>13 DEF Stamp, worker, TypeOK, ClockInv
  <2>2. \A q : Acknowledged(q) => Acknowledged(q)'
    BY <2>1 DEF Acknowledged, IsOldest
  <2> QED BY <1>3, <2>1, <2>2
<1>14. ASSUME NEW r \in Rows, Insert(r) PROVE Balanced(x)'
  BY <1>3, <1>14 DEF Insert, Acknowledged, IsOldest, worker
<1>15. CASE UNCHANGED vars
  BY <1>3, <1>15 DEF vars, Acknowledged, IsOldest, worker, tables
<1> QED
  BY <1>6, <1>7, <1>8, <1>9, <1>10, <1>11, <1>12, <1>13, <1>14, <1>15 DEF Next

\* The records in excess of the events are no more than the failures and stops.
THEOREM RepeatsAreCaused == Spec => []RepeatsHaveACause
<1>1. RelayInv /\ CauseInv => RepeatsHaveACause
  <2> SUFFICES ASSUME CauseInv, TypeOK, NEW x \in Streams
               PROVE  Len(log[x]) <= Cardinality(Recorded(x)) + faults
    BY DEF RelayInv, RepeatsHaveACause, Recorded
  <2>1. Balanced(x) /\ Len(log[x]) \in Nat /\ faults \in Nat
    BY RelayAssumption DEF CauseInv, TypeOK
  <2>2. Cardinality(Recorded(x)) \in Nat /\ Cardinality(Owed(x)) \in Nat
    BY <2>1, OwedIsFinite DEF Balanced
  <2> QED BY <2>1, <2>2 DEF Balanced
<1>2. RelayInv /\ RelayInv' /\ CauseInv /\ [Next]_vars => CauseInv'
  BY CauseStep
<1> QED BY <1>1, <1>2, CauseInit, RelaySafety, PTL DEF Spec

-----------------------------------------------------------------------------
\* The safety part of the channel: only events of committed transactions are
\* delivered, one record at a time.
THEOREM RelayIsChannel == Spec => Channel!Init /\ [][Channel!Next]_(Channel!vars)
<1>1. Init => Channel!Init
  BY DEF Init, Channel!Init
<1>2. TypeOK /\ [Next]_vars => [Channel!Next]_(Channel!vars)
  <2> SUFFICES ASSUME TypeOK, [Next]_vars
               PROVE  Channel!Next \/ UNCHANGED Channel!vars
    OBVIOUS
  <2>1. ASSUME NEW r \in Rows, Insert(r) PROVE Channel!Accept(r)
    BY <2>1 DEF Insert, Channel!Accept
  <2>2. ASSUME NEW r \in batch, Written(r), visible' = visible
        PROVE  Channel!Deliver(r)
    BY <2>2 DEF Written, TypeOK, Channel!Deliver
  <2>3. CASE UNCHANGED <<visible, log>>
    BY <2>3 DEF Channel!vars
  <2>4. \/ \E r \in Rows : Insert(r)
        \/ \E r \in batch : Written(r) /\ visible' = visible
        \/ UNCHANGED <<visible, log>>
    <3>1. (\E r \in Rows : Insert(r)) \/ visible' = visible
      BY TablesStep DEF Stamp
    <3> QED BY <3>1, WriteOrNot
  <2>5. batch \subseteq Rows
    BY DEF TypeOK
  <2> QED BY <2>1, <2>2, <2>3, <2>4, <2>5 DEF Channel!Next
<1> QED BY <1>1, <1>2, RelayTypeCorrect, PTL DEF Spec
=============================================================================
