------------------------ MODULE PaymentService_proofs ------------------------
(***************************************************************************)
(* The payment service, for any orders, requests, callbacks, transfers,    *)
(* amounts and number of failures: an order has one payment of a type, a   *)
(* payment that succeeds has one event, whoever is told of a success can   *)
(* rely on it, and the service implements PaymentLedger.                   *)
(***************************************************************************)
EXTENDS PaymentService, FiniteSetTheorems, TLAPS

\* A callback that reports the amount of the payment it names.
Exact(r) == r \in Callbacks => Received[r] = Amount[Slot[Names[r]]]

\* What was found out about the order of r's slot has not become less.
Opens(r) ==
    LET o == Slot[r][1] IN
    /\ Amount[Slot[r]] > 0
    /\ order[o] # None
    /\ Rank(Required(Slot[r][2])) <= Rank(order[o])

\* A create request that has the unique key of its slot, or may come to have it.
HasKey(p) == row[p] # None \/ pc[p] = "indoubt"

\* A payer's transaction between the lock of the payment and its end.
Holds(r) == pc[r] \in {"locked", "ready", "indoubt"}

PlaceInv ==
    /\ \A r \in Creates : pc[r] \in {"new", "summary", "insert", "indoubt", "done"}
    /\ \A r \in Payers :
         pc[r] \in {"new", "found", "unseen", "locked", "ready", "indoubt", "done"}
    /\ \A r \in Requests : reply[r] = "ok" => pc[r] = "done"

SlotInv ==
    /\ \A p \in Creates : row[p] # None => pc[p] = "done"
    /\ \A p, q \in Creates :
         HasKey(p) /\ HasKey(q) /\ Slot[p] = Slot[q] => p = q
    /\ \A r \in Creates : pc[r] \in {"insert", "indoubt"} => Opens(r)
    /\ \A r \in Creates : reply[r] = "ok" =>
         answer[r] \in Creates /\ row[answer[r]] # None /\ Slot[answer[r]] = Slot[r]

LockInv ==
    /\ \A r \in Payers : pc[r] \in {"found", "unseen"} \/ Holds(r) =>
         row[Names[r]] # None /\ Exact(r)
    /\ \A r \in Payers : Holds(r) => rowlock[Names[r]] = r /\ seen[r] = row[Names[r]]
    /\ \A p \in Creates : rowlock[p] # None =>
         Names[rowlock[p]] = p /\ Holds(rowlock[p])
    /\ \A r \in Callbacks : pc[r] \in {"ready", "indoubt"} => claim[Transfer[r]] = r
    /\ \A t \in Transfers : claim[t] # None =>
         /\ Transfer[claim[t]] = t /\ pc[claim[t]] \in {"ready", "indoubt"}
         /\ recorded[t] = None

EventInv ==
    /\ \A p \in Creates : row[p] = "SUCCEEDED" => \E r \in outbox : Names[r] = p
    /\ \A r \in outbox : row[Names[r]] = "SUCCEEDED" /\ Exact(r)
    /\ \A r, q \in outbox : Names[r] = Names[q] => r = q
    /\ \A r \in Payers : reply[r] = "ok" =>
         /\ row[Names[r]] = "SUCCEEDED"
         /\ r \in Callbacks => recorded[Transfer[r]] = Names[r]
    /\ \A t \in Transfers : recorded[t] # None => row[recorded[t]] = "SUCCEEDED"

PaymentInv ==
    /\ TypeOK
    /\ PlaceInv
    /\ SlotInv
    /\ LockInv
    /\ EventInv

-----------------------------------------------------------------------------
LEMMA Kinds3 ==
    /\ \A r \in Creates : r \in Requests /\ r \notin Payers /\ r # None /\ Slot[r] \in Slots
    /\ \A r \in Payers : r \in Requests /\ r \notin Creates /\ r # None /\ Names[r] \in Creates
    /\ \A r \in Callbacks : r \in Payers /\ r \notin Mocks /\ Transfer[r] \in Transfers
    /\ \A r \in Requests : r \in Creates \/ r \in Payers
BY RequestAssumption, NoneAssumption DEF Payers, Requests

LEMMA PaymentInvInit == Init => PaymentInv
<1> SUFFICES ASSUME Init PROVE PaymentInv
  OBVIOUS
<1>1. TypeOK
  <2>1. order \in [Orders -> Status \cup {None}]
    BY DEF Init
  <2>2. failures \in 0..MaxFailures
    BY PathAssumption DEF Init
  <2> QED BY <2>1, <2>2 DEF Init, TypeOK
<1>2. \A r \in Requests : reply[r] # "ok"
  BY NoneAssumption DEF Init, Replies
<1>3. \A p \in Creates : row[p] = None /\ row[p] # "SUCCEEDED" /\ pc[p] = "new"
  BY NoneAssumption, Kinds3 DEF Init
<1>4. \A r \in Requests : pc[r] = "new"
  BY DEF Init
<1>5. PlaceInv /\ SlotInv
  BY <1>2, <1>3, <1>4, Kinds3 DEF PlaceInv, SlotInv, HasKey
<1>6. LockInv
  BY <1>4, Kinds3 DEF Init, LockInv, Holds
<1>7. EventInv
  BY <1>2, <1>3, Kinds3 DEF Init, EventInv
<1> QED BY <1>1, <1>5, <1>6, <1>7 DEF PaymentInv

-----------------------------------------------------------------------------
(***************************************************************************)
(* What the operations the actions are built from do.                      *)
(***************************************************************************)
\* Only r is affected.
Alone(r) ==
    \A s \in Requests \ {r} :
        pc'[s] = pc[s] /\ reply'[s] = reply[s] /\ answer'[s] = answer[s]

ClientTypeOK ==
    /\ pc \in [Requests -> {"new", "summary", "insert", "found", "unseen",
                            "locked", "ready", "indoubt", "done"}]
    /\ reply \in [Requests -> Replies \cup {None}]
    /\ answer \in [Requests -> Creates \cup {None}]

LEMMA AnswerKeeps ==
    ASSUME TypeOK, NEW r \in Requests, NEW a \in Replies, NEW p \in Creates \cup {None},
           Answer(r, a, p)
    PROVE  /\ ClientTypeOK' /\ Alone(r)
           /\ pc'[r] = "done" /\ reply'[r] = a /\ answer'[r] = p
BY DEF TypeOK, ClientTypeOK, Answer, Alone

LEMMA ContinueKeeps ==
    ASSUME TypeOK, NEW r \in Requests,
           NEW s \in {"summary", "insert", "found", "unseen", "locked", "ready", "done"},
           Continue(r, s)
    PROVE  /\ ClientTypeOK' /\ Alone(r)
           /\ pc'[r] = s /\ reply'[r] = reply[r] /\ answer'[r] = answer[r]
BY DEF TypeOK, ClientTypeOK, Continue, client, Alone

LEMMA ReleaseKeeps ==
    ASSUME TypeOK, NEW r \in Requests, Release(r)
    PROVE  /\ rowlock' \in [Creates -> Payers \cup {None}]
           /\ claim' \in [Transfers -> Callbacks \cup {None}]
           /\ \A p \in Creates : rowlock'[p] = IF rowlock[p] = r THEN None ELSE rowlock[p]
           /\ \A t \in Transfers : claim'[t] = IF claim[t] = r THEN None ELSE claim[t]
BY DEF TypeOK, Release

-----------------------------------------------------------------------------
(***************************************************************************)
(* The invariant under the kinds of steps the actions are made of.         *)
(***************************************************************************)
\* What r may say when it answers with success.
OkCreate(r) == answer[r] \in Creates /\ row[answer[r]] # None /\ Slot[answer[r]] = Slot[r]

OkPayer(r) ==
    /\ row[Names[r]] = "SUCCEEDED"
    /\ r \in Callbacks => recorded[Transfer[r]] = Names[r]

\* The handler of r goes on, or answers, outside of any transaction.
Quiet(r) ==
    /\ Alone(r)
    /\ pc[r] # "done" /\ (r \in Payers => ~Holds(r)) /\ pc[r] # "indoubt"
    /\ r \in Creates => pc'[r] \in {"summary", "insert", "done"}
    /\ r \in Payers => pc'[r] \in {"found", "unseen", "done"}
    /\ r \in Creates /\ pc'[r] = "insert" => Opens(r)
    /\ r \in Payers /\ pc'[r] \in {"found", "unseen"} => row[Names[r]] # None /\ Exact(r)
    /\ reply'[r] = "ok" =>
         /\ pc'[r] = "done"
         /\ r \in Creates => OkCreate(r)'
         /\ r \in Payers => OkPayer(r)
    /\ UNCHANGED <<provider, order, database, locks, seen, failures>>

LEMMA QuietKeeps ==
    ASSUME PaymentInv, NEW r \in Requests, ClientTypeOK', Quiet(r)
    PROVE  PaymentInv'
<1>1. UNCHANGED <<provider, order, row, recorded, outbox, rowlock, claim, seen, failures>>
  BY DEF Quiet, database, locks
<1>2. TypeOK'
  BY <1>1 DEF PaymentInv, TypeOK, ClientTypeOK
<1>3. PlaceInv'
  BY Kinds3 DEF PaymentInv, PlaceInv, Quiet, Alone
<1>4. SlotInv'
  <2>1. \A p \in Creates : row'[p] # None => pc'[p] = "done"
    BY <1>1, Kinds3 DEF PaymentInv, SlotInv, Quiet, Alone
  <2>2. \A p \in Creates : HasKey(p)' => HasKey(p)
    BY <1>1, Kinds3 DEF HasKey, Quiet, Alone
  <2>3. \A p, q \in Creates : HasKey(p)' /\ HasKey(q)' /\ Slot[p] = Slot[q] => p = q
    BY <2>2 DEF PaymentInv, SlotInv
  <2>4. \A q \in Creates : pc'[q] \in {"insert", "indoubt"} => Opens(q)
    BY Kinds3 DEF PaymentInv, SlotInv, Quiet, Alone
  <2>5. \A q \in Creates : Opens(q)' <=> Opens(q)
    BY <1>1 DEF Opens
  <2>6. \A q \in Creates : reply'[q] = "ok" => OkCreate(q)'
    BY <1>1, Kinds3 DEF PaymentInv, SlotInv, Quiet, Alone, OkCreate
  <2> QED BY <2>1, <2>3, <2>4, <2>5, <2>6 DEF SlotInv, OkCreate
<1>5. LockInv'
  <2>1. \A q \in Payers : Holds(q)' <=> Holds(q)
    BY Kinds3 DEF Holds, Quiet, Alone
  <2>2. \A q \in Payers : Exact(q)' <=> Exact(q)
    BY DEF Exact
  <2>3. \A q \in Payers : pc'[q] \in {"found", "unseen"} \/ Holds(q) =>
          row[Names[q]] # None /\ Exact(q)
    BY Kinds3 DEF PaymentInv, LockInv, Quiet, Alone
  <2>4. \A q \in Callbacks : pc'[q] \in {"ready", "indoubt"} => claim[Transfer[q]] = q
    BY Kinds3 DEF PaymentInv, LockInv, Quiet, Alone
  <2>5. \A t \in Transfers : claim[t] # None => claim[t] \in Callbacks /\ claim[t] # r
    BY Kinds3 DEF PaymentInv, TypeOK, LockInv, Quiet, Holds
  <2>6. \A t \in Transfers : claim[t] # None => pc'[claim[t]] \in {"ready", "indoubt"}
    BY <2>5, Kinds3 DEF PaymentInv, LockInv, Quiet, Alone
  <2>7. \A p \in Creates : rowlock[p] # None =>
          Names[rowlock[p]] = p /\ pc'[rowlock[p]] \in {"locked", "ready", "indoubt"}
    BY <2>1 DEF PaymentInv, TypeOK, LockInv, Holds
  <2> QED
    BY <1>1, <2>1, <2>2, <2>3, <2>4, <2>6, <2>7 DEF PaymentInv, LockInv, Holds
<1>6. EventInv'
  <2>1. \A q \in Payers : Exact(q)' <=> Exact(q)
    BY DEF Exact
  <2>2. \A q \in Payers : reply'[q] = "ok" => OkPayer(q)
    BY Kinds3 DEF PaymentInv, EventInv, OkPayer, Quiet, Alone
  <2> QED BY <1>1, <2>1, <2>2 DEF PaymentInv, TypeOK, EventInv, OkPayer
<1> QED BY <1>2, <1>3, <1>4, <1>5, <1>6 DEF PaymentInv

\* The transaction of r, if it has one, is rolled back.
RolledBack(r) ==
    /\ Alone(r) /\ Release(r)
    /\ pc'[r] = "done" /\ reply'[r] # "ok" /\ pc[r] # "done"
    /\ UNCHANGED <<provider, order, database, seen>>

LEMMA RolledBackKeeps ==
    ASSUME PaymentInv, NEW r \in Requests, ClientTypeOK', RolledBack(r),
           failures' \in 0..MaxFailures
    PROVE  PaymentInv'
<1>1. UNCHANGED <<provider, order, row, recorded, outbox, seen>>
  BY DEF RolledBack, database
<1>2. /\ rowlock' \in [Creates -> Payers \cup {None}]
      /\ claim' \in [Transfers -> Callbacks \cup {None}]
      /\ \A p \in Creates : rowlock'[p] = IF rowlock[p] = r THEN None ELSE rowlock[p]
      /\ \A t \in Transfers : claim'[t] = IF claim[t] = r THEN None ELSE claim[t]
  BY ReleaseKeeps DEF PaymentInv, RolledBack
<1>3. TypeOK'
  BY <1>1, <1>2 DEF PaymentInv, TypeOK, ClientTypeOK
<1>4. PlaceInv'
  BY Kinds3 DEF PaymentInv, PlaceInv, RolledBack, Alone
<1>5. SlotInv'
  <2>1. \A p \in Creates : row'[p] # None => pc'[p] = "done"
    BY <1>1, Kinds3 DEF PaymentInv, SlotInv, RolledBack, Alone
  <2>2. \A p \in Creates : HasKey(p)' => HasKey(p)
    BY <1>1, Kinds3 DEF HasKey, RolledBack, Alone
  <2>3. \A p, q \in Creates : HasKey(p)' /\ HasKey(q)' /\ Slot[p] = Slot[q] => p = q
    BY <2>2 DEF PaymentInv, SlotInv
  <2>4. \A q \in Creates : pc'[q] \in {"insert", "indoubt"} => Opens(q)
    BY Kinds3 DEF PaymentInv, SlotInv, RolledBack, Alone
  <2>5. \A q \in Creates : Opens(q)' <=> Opens(q)
    BY <1>1 DEF Opens
  <2>6. \A q \in Creates : reply'[q] = "ok" => OkCreate(q)'
    BY <1>1, Kinds3 DEF PaymentInv, SlotInv, RolledBack, Alone, OkCreate
  <2> QED BY <2>1, <2>3, <2>4, <2>5, <2>6 DEF SlotInv, OkCreate
<1>6. LockInv'
  <2>1. \A q \in Payers : q # r => (Holds(q)' <=> Holds(q))
    BY Kinds3 DEF Holds, Alone, RolledBack
  <2>2. \A q \in Payers : Exact(q)' <=> Exact(q)
    BY DEF Exact
  <2>3. ~Holds(r)' /\ pc'[r] \notin {"found", "unseen", "ready", "indoubt"}
    BY DEF Holds, RolledBack
  <2>4. \A q \in Payers : pc'[q] \in {"found", "unseen"} \/ Holds(q)' =>
          row[Names[q]] # None /\ Exact(q)
    BY <2>1, <2>3, Kinds3 DEF PaymentInv, LockInv, RolledBack, Alone
  <2>5. \A q \in Payers : Holds(q)' => rowlock'[Names[q]] = q /\ seen[q] = row[Names[q]]
    BY <1>2, <2>1, <2>3, Kinds3 DEF PaymentInv, LockInv
  <2>6. \A q \in Callbacks : pc'[q] \in {"ready", "indoubt"} => claim'[Transfer[q]] = q
    BY <1>2, <2>3, Kinds3 DEF PaymentInv, LockInv, RolledBack, Alone
  <2>7. \A p \in Creates : rowlock'[p] # None =>
          Names[rowlock'[p]] = p /\ pc'[rowlock'[p]] \in {"locked", "ready", "indoubt"}
    <3> SUFFICES ASSUME NEW p \in Creates, rowlock'[p] # None
                 PROVE  Names[rowlock'[p]] = p /\ pc'[rowlock'[p]] \in {"locked", "ready", "indoubt"}
      OBVIOUS
    <3>1. rowlock'[p] = rowlock[p] /\ rowlock[p] # r
      BY <1>2
    <3>2. rowlock[p] \in Payers /\ Names[rowlock[p]] = p /\ Holds(rowlock[p])
      BY <3>1 DEF PaymentInv, TypeOK, LockInv
    <3> QED BY <3>1, <3>2, Kinds3 DEF RolledBack, Alone, Holds
  <2>8. \A t \in Transfers : claim'[t] # None =>
          /\ Transfer[claim'[t]] = t /\ pc'[claim'[t]] \in {"ready", "indoubt"}
          /\ recorded[t] = None
    BY <1>2, Kinds3 DEF PaymentInv, TypeOK, LockInv, RolledBack, Alone
  <2> QED
    BY <1>1, <2>2, <2>4, <2>5, <2>6, <2>7, <2>8 DEF LockInv, Holds
<1>7. EventInv'
  <2>1. \A q \in Payers : Exact(q)' <=> Exact(q)
    BY DEF Exact
  <2>2. \A q \in Payers : reply'[q] = "ok" => OkPayer(q)
    BY Kinds3 DEF PaymentInv, EventInv, OkPayer, RolledBack, Alone
  <2> QED BY <1>1, <2>1, <2>2 DEF PaymentInv, TypeOK, EventInv, OkPayer
<1> QED BY <1>3, <1>4, <1>5, <1>6, <1>7 DEF PaymentInv

-----------------------------------------------------------------------------
(***************************************************************************)
(* The actions that take a lock, leave a transaction to the server, or     *)
(* change the database.                                                    *)
(***************************************************************************)
LEMMA LockPaymentKeeps ==
    ASSUME PaymentInv, NEW r \in Payers, LockPayment(r)
    PROVE  PaymentInv'
<1> DEFINE p == Names[r]
           s == IF r \in Mocks THEN "ready" ELSE "locked"
<1>1. /\ ClientTypeOK' /\ Alone(r)
      /\ pc'[r] = s /\ reply'[r] = reply[r] /\ answer'[r] = answer[r]
  BY ContinueKeeps, Kinds3 DEF PaymentInv, LockPayment
<1>2. /\ UNCHANGED <<provider, order, row, recorded, outbox, claim, failures>>
      /\ pc[r] = "unseen" /\ rowlock[p] = None
      /\ rowlock' = [rowlock EXCEPT ![p] = r]
      /\ seen' = [seen EXCEPT ![r] = row[p]]
  BY DEF LockPayment, database
<1>3. row[p] \in {"PENDING", "SUCCEEDED"} /\ Exact(r) /\ p \in Creates
  BY <1>2, Kinds3 DEF PaymentInv, TypeOK, LockInv
<1>4. TypeOK'
  BY <1>1, <1>2, <1>3 DEF PaymentInv, TypeOK, ClientTypeOK
<1>5. PlaceInv'
  BY <1>1, <1>2, Kinds3 DEF PaymentInv, PlaceInv, Alone
<1>6. SlotInv'
  <2>1. \A q \in Creates : pc'[q] = pc[q] /\ reply'[q] = reply[q] /\ answer'[q] = answer[q]
    BY <1>1, Kinds3 DEF Alone
  <2>2. \A q \in Creates : Opens(q)' <=> Opens(q)
    BY <1>2 DEF Opens
  <2>3. \A q \in Creates : HasKey(q)' <=> HasKey(q)
    BY <1>2, <2>1 DEF HasKey
  <2> QED BY <1>2, <2>1, <2>2, <2>3 DEF PaymentInv, SlotInv
<1>7. LockInv'
  <2>1. \A q \in Payers : q # r => (Holds(q)' <=> Holds(q)) /\ pc'[q] = pc[q]
    BY <1>1, Kinds3 DEF Holds, Alone
  <2>2. \A q \in Payers : Exact(q)' <=> Exact(q)
    BY DEF Exact
  <2>3. Holds(r)' /\ pc'[r] \in {"locked", "ready"} /\ (r \in Callbacks => pc'[r] = "locked")
    BY <1>1, Kinds3 DEF Holds
  <2>4. \A q \in Payers : pc'[q] \in {"found", "unseen"} \/ Holds(q)' =>
          row'[Names[q]] # None /\ Exact(q)
    BY <1>2, <1>3, <2>1, NoneAssumption DEF PaymentInv, LockInv
  <2>5. \A q \in Payers : Holds(q)' => rowlock'[Names[q]] = q /\ seen'[q] = row'[Names[q]]
    BY <1>2, <1>3, <2>1, Kinds3 DEF PaymentInv, TypeOK, LockInv
  <2>6. \A q \in Creates : rowlock'[q] # None =>
          Names[rowlock'[q]] = q /\ pc'[rowlock'[q]] \in {"locked", "ready", "indoubt"}
    <3> SUFFICES ASSUME NEW q \in Creates, rowlock'[q] # None
                 PROVE  Names[rowlock'[q]] = q /\ pc'[rowlock'[q]] \in {"locked", "ready", "indoubt"}
      OBVIOUS
    <3>1. CASE q = p
      BY <1>2, <1>3, <2>3, <3>1 DEF PaymentInv, TypeOK
    <3>2. CASE q # p
      <4>1. rowlock'[q] = rowlock[q]
        BY <1>2, <3>2 DEF PaymentInv, TypeOK
      <4>2. rowlock[q] \in Payers /\ Names[rowlock[q]] = q /\ Holds(rowlock[q])
        BY <4>1 DEF PaymentInv, TypeOK, LockInv
      <4> QED BY <2>1, <3>2, <4>1, <4>2 DEF Holds
    <3> QED BY <3>1, <3>2
  <2>7. \A q \in Callbacks : pc'[q] \in {"ready", "indoubt"} => claim'[Transfer[q]] = q
    BY <1>2, <2>1, <2>3, Kinds3 DEF PaymentInv, LockInv
  <2>8. \A t \in Transfers : claim'[t] # None =>
          /\ Transfer[claim'[t]] = t /\ pc'[claim'[t]] \in {"ready", "indoubt"}
          /\ recorded'[t] = None
    <3>1. \A t \in Transfers : claim[t] # None => claim[t] \in Payers /\ claim[t] # r
      BY <1>2, Kinds3 DEF PaymentInv, TypeOK, LockInv
    <3> QED BY <1>2, <2>1, <3>1 DEF PaymentInv, LockInv
  <2> QED BY <2>2, <2>4, <2>5, <2>6, <2>7, <2>8 DEF LockInv, Holds
<1>8. EventInv'
  <2>1. \A q \in Payers : reply'[q] = reply[q]
    BY <1>1, Kinds3 DEF Alone
  <2>2. \A q \in Payers : Exact(q)' <=> Exact(q)
    BY DEF Exact
  <2> QED BY <1>2, <2>1, <2>2 DEF PaymentInv, TypeOK, EventInv
<1> QED BY <1>4, <1>5, <1>6, <1>7, <1>8 DEF PaymentInv

\* A request that holds what it needs goes on to "ready", or leaves its
\* transaction to the server.
Holding(r, s) ==
    /\ ClientTypeOK' /\ Alone(r)
    /\ pc'[r] = s /\ reply'[r] # "ok"
    /\ UNCHANGED <<provider, order, row, recorded, outbox, rowlock, seen>>
    /\ failures' \in 0..MaxFailures

LEMMA HoldingKeeps ==
    ASSUME PaymentInv, NEW r \in Payers, Holds(r), NEW s \in {"ready", "indoubt"},
           Holding(r, s),
           \/ r \in Callbacks /\ claim[Transfer[r]] = None /\ recorded[Transfer[r]] = None
              /\ claim' = [claim EXCEPT ![Transfer[r]] = r]
           \/ pc[r] = "ready" /\ UNCHANGED claim
    PROVE  PaymentInv'
<1>1. UNCHANGED <<provider, order, row, recorded, outbox, rowlock, seen>>
  BY DEF Holding
<1>2. \A q \in Requests : q # r => pc'[q] = pc[q] /\ reply'[q] = reply[q] /\ answer'[q] = answer[q]
  BY DEF Holding, Alone
<1>3. pc'[r] = s /\ reply'[r] # "ok"
  BY DEF Holding
<1>4. TypeOK'
  BY <1>1, Kinds3 DEF PaymentInv, TypeOK, ClientTypeOK, Holding
<1>5. PlaceInv'
  BY <1>2, <1>3, Kinds3 DEF PaymentInv, PlaceInv
<1>6. SlotInv'
  <2>1. \A q \in Creates : pc'[q] = pc[q] /\ reply'[q] = reply[q] /\ answer'[q] = answer[q]
    BY <1>2, Kinds3
  <2>2. \A q \in Creates : Opens(q)' <=> Opens(q)
    BY <1>1 DEF Opens
  <2>3. \A q \in Creates : HasKey(q)' <=> HasKey(q)
    BY <1>1, <2>1 DEF HasKey
  <2> QED BY <1>1, <2>1, <2>2, <2>3 DEF PaymentInv, SlotInv
<1>7. LockInv'
  <2>1. \A q \in Payers : Holds(q)' <=> Holds(q)
    BY <1>2, <1>3, Kinds3 DEF Holds
  <2>2. \A q \in Payers : Exact(q)' <=> Exact(q)
    BY DEF Exact
  <2>3. \A q \in Payers : pc'[q] \in {"found", "unseen"} \/ Holds(q) => row[Names[q]] # None /\ Exact(q)
    BY <1>2, <1>3, Kinds3 DEF PaymentInv, LockInv
  <2>4. \A q \in Creates : rowlock[q] # None =>
          Names[rowlock[q]] = q /\ pc'[rowlock[q]] \in {"locked", "ready", "indoubt"}
    BY <2>1 DEF PaymentInv, TypeOK, LockInv, Holds
  <2>5. /\ \A q \in Callbacks : pc'[q] \in {"ready", "indoubt"} => claim'[Transfer[q]] = q
        /\ \A t \in Transfers : claim'[t] # None =>
             /\ Transfer[claim'[t]] = t /\ pc'[claim'[t]] \in {"ready", "indoubt"}
             /\ recorded[t] = None
    <3>1. CASE /\ r \in Callbacks /\ claim[Transfer[r]] = None /\ recorded[Transfer[r]] = None
               /\ claim' = [claim EXCEPT ![Transfer[r]] = r]
      BY <1>2, <1>3, <3>1, Kinds3 DEF PaymentInv, TypeOK, LockInv
    <3>2. CASE pc[r] = "ready" /\ UNCHANGED claim
      BY <1>2, <1>3, <3>2, Kinds3 DEF PaymentInv, TypeOK, LockInv
    <3> QED BY <3>1, <3>2
  <2> QED BY <1>1, <2>1, <2>2, <2>3, <2>4, <2>5 DEF PaymentInv, LockInv, Holds
<1>8. EventInv'
  <2>1. \A q \in Payers : Exact(q)' <=> Exact(q)
    BY DEF Exact
  <2>2. \A q \in Payers : reply'[q] = "ok" => OkPayer(q)
    BY <1>2, <1>3, Kinds3 DEF PaymentInv, EventInv, OkPayer
  <2> QED BY <1>1, <2>1, <2>2 DEF PaymentInv, TypeOK, EventInv, OkPayer
<1> QED BY <1>4, <1>5, <1>6, <1>7, <1>8 DEF PaymentInv

\* A new row: r alone has the key of its slot, and no payer has found it yet.
Inserted(r) ==
    /\ Alone(r)
    /\ pc[r] \in {"insert", "indoubt"} /\ pc'[r] = "done"
    /\ reply'[r] = "ok" => answer'[r] = r
    /\ row' = [row EXCEPT ![r] = "PENDING"]
    /\ \A q \in Creates : HasKey(q) /\ Slot[q] = Slot[r] => q = r
    /\ UNCHANGED <<provider, order, recorded, outbox, rowlock, claim, seen, failures>>

LEMMA InsertedKeeps ==
    ASSUME PaymentInv, NEW r \in Creates, ClientTypeOK', Inserted(r)
    PROVE  PaymentInv'
<1>1. UNCHANGED <<provider, order, recorded, outbox, rowlock, claim, seen, failures>>
  BY DEF Inserted
<1>2. row[r] = None /\ row'[r] = "PENDING" /\ \A p \in Creates : p # r => row'[p] = row[p]
  BY DEF PaymentInv, TypeOK, SlotInv, Inserted
<1>3. \A q \in Requests : q # r => pc'[q] = pc[q] /\ reply'[q] = reply[q] /\ answer'[q] = answer[q]
  BY DEF Inserted, Alone
<1>4. pc'[r] = "done" /\ (reply'[r] = "ok" => answer'[r] = r)
  BY DEF Inserted
<1>5. None # "PENDING" /\ None # "SUCCEEDED"
  BY NoneAssumption
<1>6. \A p \in Creates : row[p] # None => row'[p] = row[p]
  BY <1>2
<1>7. TypeOK'
  BY <1>1 DEF PaymentInv, TypeOK, ClientTypeOK, Inserted
<1>8. PlaceInv'
  BY <1>3, <1>4, Kinds3 DEF PaymentInv, PlaceInv
<1>9. SlotInv'
  <2>1. \A p \in Creates : row'[p] # None => pc'[p] = "done"
    BY <1>2, <1>3, <1>4, Kinds3 DEF PaymentInv, SlotInv
  <2>2. \A p \in Creates : p # r => (HasKey(p)' <=> HasKey(p))
    BY <1>2, <1>3, Kinds3 DEF HasKey
  <2>3. \A p, q \in Creates : HasKey(p)' /\ HasKey(q)' /\ Slot[p] = Slot[q] => p = q
    BY <2>2 DEF PaymentInv, SlotInv, Inserted
  <2>4. \A q \in Creates : pc'[q] \in {"insert", "indoubt"} => Opens(q)
    BY <1>3, <1>4, Kinds3 DEF PaymentInv, SlotInv
  <2>5. \A q \in Creates : Opens(q)' <=> Opens(q)
    BY <1>1 DEF Opens
  <2>6. \A q \in Creates : reply'[q] = "ok" => OkCreate(q)'
    BY <1>2, <1>3, <1>4, <1>5, <1>6, Kinds3 DEF PaymentInv, SlotInv, OkCreate
  <2> QED BY <2>1, <2>3, <2>4, <2>5, <2>6 DEF SlotInv, OkCreate
<1>10. LockInv'
  <2>1. \A q \in Payers : pc'[q] = pc[q]
    BY <1>3, Kinds3
  <2>2. \A q \in Payers : (Holds(q)' <=> Holds(q)) /\ (Exact(q)' <=> Exact(q))
    BY <2>1 DEF Holds, Exact
  <2>3. \A q \in Payers : pc'[q] \in {"found", "unseen"} \/ Holds(q) =>
          row'[Names[q]] = row[Names[q]] /\ row[Names[q]] # None /\ Exact(q)
    BY <1>6, <2>1, Kinds3 DEF PaymentInv, LockInv
  <2>4. \A q \in Creates : rowlock[q] # None =>
          Names[rowlock[q]] = q /\ pc'[rowlock[q]] \in {"locked", "ready", "indoubt"}
    BY <2>2 DEF PaymentInv, TypeOK, LockInv, Holds
  <2>5. /\ \A q \in Callbacks : pc'[q] \in {"ready", "indoubt"} => claim[Transfer[q]] = q
        /\ \A t \in Transfers : claim[t] # None =>
             /\ Transfer[claim[t]] = t /\ pc'[claim[t]] \in {"ready", "indoubt"}
             /\ recorded[t] = None
    BY <2>1, Kinds3 DEF PaymentInv, TypeOK, LockInv
  <2> QED BY <1>1, <2>2, <2>3, <2>4, <2>5 DEF PaymentInv, LockInv, Holds
<1>11. EventInv'
  <2>1. \A q \in Payers : reply'[q] = reply[q] /\ (Exact(q)' <=> Exact(q))
    BY <1>3, Kinds3 DEF Exact
  <2>2. \A q \in Creates : row'[q] = "SUCCEEDED" <=> row[q] = "SUCCEEDED"
    BY <1>2, <1>5
  <2>3. \A q \in outbox : Names[q] \in Creates /\ q \in Payers
    BY Kinds3 DEF PaymentInv, TypeOK
  <2>4. \A t \in Transfers : recorded[t] # None => row'[recorded[t]] = "SUCCEEDED"
    BY <2>2 DEF PaymentInv, TypeOK, EventInv
  <2>5. \A q \in Payers : reply'[q] = "ok" => OkPayer(q)'
    BY <1>1, <2>1, <2>2, Kinds3 DEF PaymentInv, EventInv, OkPayer
  <2> QED BY <1>1, <2>1, <2>2, <2>3, <2>4, <2>5 DEF PaymentInv, EventInv, OkPayer
<1> QED BY <1>7, <1>8, <1>9, <1>10, <1>11 DEF PaymentInv

\* The transaction of r commits: its effects are in the database.
Written(r) ==
    /\ Alone(r) /\ Release(r) /\ Effects(r)
    /\ pc[r] \in {"ready", "indoubt"} /\ pc'[r] = "done"
    /\ UNCHANGED <<provider, order, seen, failures>>

LEMMA WrittenKeeps ==
    ASSUME PaymentInv, NEW r \in Payers, ClientTypeOK', Written(r)
    PROVE  PaymentInv'
<1> DEFINE p == Names[r]
<1>1. UNCHANGED <<provider, order, seen, failures>>
  BY DEF Written
<1>2. /\ rowlock' \in [Creates -> Payers \cup {None}]
      /\ claim' \in [Transfers -> Callbacks \cup {None}]
      /\ \A q \in Creates : rowlock'[q] = IF rowlock[q] = r THEN None ELSE rowlock[q]
      /\ \A t \in Transfers : claim'[t] = IF claim[t] = r THEN None ELSE claim[t]
  BY ReleaseKeeps, Kinds3 DEF PaymentInv, Written
<1>3. \A q \in Requests : q # r => pc'[q] = pc[q] /\ reply'[q] = reply[q] /\ answer'[q] = answer[q]
  BY DEF Written, Alone
<1>4. pc'[r] = "done" /\ Holds(r) /\ pc[r] \in {"ready", "indoubt"}
  BY DEF Written, Holds
<1>5. None \notin {"PENDING", "SUCCEEDED"} /\ None \notin Creates
  BY NoneAssumption, Kinds3 DEF Requests
<1>6. /\ p \in Creates /\ row[p] \in {"PENDING", "SUCCEEDED"} /\ seen[r] = row[p]
      /\ rowlock[p] = r /\ Exact(r)
  BY <1>4, Kinds3 DEF PaymentInv, TypeOK, LockInv
<1>7. /\ row'[p] = "SUCCEEDED"
      /\ \A q \in Creates : q # p => row'[q] = row[q]
      /\ row' \in [Creates -> {None, "PENDING", "SUCCEEDED"}]
  BY <1>6 DEF PaymentInv, TypeOK, Written, Effects
<1>8. /\ outbox' \subseteq Payers
      /\ row[p] = "SUCCEEDED" => outbox' = outbox
      /\ row[p] = "PENDING" => outbox' = outbox \cup {r}
  BY <1>6 DEF PaymentInv, TypeOK, Written, Effects
<1>9. /\ recorded' \in [Transfers -> Creates \cup {None}]
      /\ r \in Callbacks => recorded'[Transfer[r]] = p /\ recorded[Transfer[r]] = None
      /\ \A t \in Transfers : recorded[t] # None => recorded'[t] = recorded[t]
      /\ \A t \in Transfers : recorded'[t] \in {recorded[t], p}
      /\ \A t \in Transfers : recorded'[t] = recorded[t] \/ (r \in Callbacks /\ t = Transfer[r])
  <2>1. CASE r \in Callbacks
    <3>1. recorded' = [recorded EXCEPT ![Transfer[r]] = p]
      BY <2>1 DEF Written, Effects
    <3>2. claim[Transfer[r]] = r /\ recorded[Transfer[r]] = None
      BY <1>4, <2>1, Kinds3 DEF PaymentInv, LockInv
    <3> QED BY <1>6, <2>1, <3>1, <3>2, Kinds3 DEF PaymentInv, TypeOK
  <2>2. CASE r \notin Callbacks
    BY <2>2 DEF PaymentInv, TypeOK, Written, Effects
  <2> QED BY <2>1, <2>2
<1>10. \A q \in Creates : row[q] # None <=> row'[q] # None
  BY <1>5, <1>6, <1>7
<1>11. TypeOK'
  BY <1>1, <1>2, <1>7, <1>8, <1>9 DEF PaymentInv, TypeOK, ClientTypeOK
<1>12. PlaceInv'
  BY <1>3, <1>4, Kinds3 DEF PaymentInv, PlaceInv
<1>13. SlotInv'
  <2>1. \A q \in Creates : pc'[q] = pc[q] /\ reply'[q] = reply[q] /\ answer'[q] = answer[q]
    BY <1>3, Kinds3
  <2>2. \A q \in Creates : Opens(q)' <=> Opens(q)
    BY <1>1 DEF Opens
  <2>3. \A q \in Creates : HasKey(q)' <=> HasKey(q)
    BY <1>10, <2>1 DEF HasKey
  <2> QED BY <1>10, <2>1, <2>2, <2>3 DEF PaymentInv, SlotInv
<1>14. LockInv'
  <2>1. \A q \in Payers : q # r => (Holds(q)' <=> Holds(q)) /\ pc'[q] = pc[q]
    BY <1>3, Kinds3 DEF Holds
  <2>2. \A q \in Payers : Exact(q)' <=> Exact(q)
    BY DEF Exact
  <2>3. ~Holds(r)'
    BY <1>4 DEF Holds
  <2>4. \A q \in Payers : pc'[q] \in {"found", "unseen"} \/ Holds(q)' =>
          row'[Names[q]] # None /\ Exact(q)
    BY <1>4, <1>10, <2>1, <2>3, Kinds3 DEF PaymentInv, LockInv
  <2>5. \A q \in Payers : Holds(q)' => rowlock'[Names[q]] = q /\ seen'[q] = row'[Names[q]]
    BY <1>1, <1>2, <1>6, <1>7, <2>1, <2>3, Kinds3 DEF PaymentInv, LockInv
  <2>6. \A q \in Creates : rowlock'[q] # None =>
          Names[rowlock'[q]] = q /\ pc'[rowlock'[q]] \in {"locked", "ready", "indoubt"}
    <3> SUFFICES ASSUME NEW q \in Creates, rowlock'[q] # None
                 PROVE  Names[rowlock'[q]] = q /\ pc'[rowlock'[q]] \in {"locked", "ready", "indoubt"}
      OBVIOUS
    <3>1. rowlock'[q] = rowlock[q] /\ rowlock[q] # r
      BY <1>2
    <3>2. rowlock[q] \in Payers /\ Names[rowlock[q]] = q /\ Holds(rowlock[q])
      BY <3>1 DEF PaymentInv, TypeOK, LockInv
    <3> QED BY <2>1, <3>1, <3>2 DEF Holds
  <2>7. \A q \in Callbacks : pc'[q] \in {"ready", "indoubt"} => claim'[Transfer[q]] = q
    BY <1>2, <1>4, <2>1, Kinds3 DEF PaymentInv, LockInv
  <2>8. \A t \in Transfers : claim'[t] # None =>
          /\ Transfer[claim'[t]] = t /\ pc'[claim'[t]] \in {"ready", "indoubt"}
          /\ recorded'[t] = None
    <3> SUFFICES ASSUME NEW t \in Transfers, claim'[t] # None
                 PROVE  /\ Transfer[claim'[t]] = t /\ pc'[claim'[t]] \in {"ready", "indoubt"}
                        /\ recorded'[t] = None
      OBVIOUS
    <3>1. claim'[t] = claim[t] /\ claim[t] # r
      BY <1>2
    <3>2. claim[t] \in Payers /\ Transfer[claim[t]] = t /\ recorded[t] = None
          /\ pc[claim[t]] \in {"ready", "indoubt"}
      BY <3>1, Kinds3 DEF PaymentInv, TypeOK, LockInv
    <3>3. r \in Callbacks => claim[Transfer[r]] = r
      BY <1>4 DEF PaymentInv, LockInv
    <3> QED BY <1>9, <2>1, <3>1, <3>2, <3>3
  <2> QED BY <2>2, <2>4, <2>5, <2>6, <2>7, <2>8 DEF LockInv, Holds
<1>15. EventInv'
  <2>1. \A q \in Creates : row'[q] = "SUCCEEDED" => \E e \in outbox' : Names[e] = q
    BY <1>5, <1>6, <1>7, <1>8 DEF PaymentInv, EventInv
  <2>2. \A e \in outbox' : row'[Names[e]] = "SUCCEEDED" /\ Exact(e)
    BY <1>6, <1>7, <1>8, Kinds3 DEF PaymentInv, TypeOK, EventInv
  <2>3. \A e, f \in outbox' : Names[e] = Names[f] => e = f
    BY <1>6, <1>8 DEF PaymentInv, EventInv
  <2>4. \A q \in Creates : row[q] = "SUCCEEDED" => row'[q] = "SUCCEEDED"
    BY <1>7
  <2>5. \A q \in Payers : reply'[q] = "ok" => OkPayer(q)'
    <3> SUFFICES ASSUME NEW q \in Payers, reply'[q] = "ok" PROVE OkPayer(q)'
      OBVIOUS
    <3>1. CASE q = r
      BY <1>7, <1>9, <3>1 DEF OkPayer
    <3>2. CASE q # r
      <4>1. OkPayer(q)
        BY <1>3, <3>2, Kinds3 DEF PaymentInv, EventInv, OkPayer
      <4> QED BY <1>5, <1>9, <2>4, <4>1, Kinds3 DEF OkPayer
    <3> QED BY <3>1, <3>2
  <2>6. \A t \in Transfers : recorded'[t] # None => row'[recorded'[t]] = "SUCCEEDED"
    BY <1>7, <1>9, <2>4 DEF PaymentInv, TypeOK, EventInv
  <2>7. \A q \in Payers : Exact(q)' <=> Exact(q)
    BY DEF Exact
  <2> QED BY <1>8, <2>1, <2>2, <2>3, <2>5, <2>6, <2>7 DEF EventInv, OkPayer
<1> QED BY <1>11, <1>12, <1>13, <1>14, <1>15 DEF PaymentInv

LEMMA CrashKeeps == ASSUME PaymentInv, Crash PROVE PaymentInv'
<1>1. UNCHANGED <<provider, order, row, recorded, outbox, seen, answer>>
  BY DEF Crash, database
<1>2. \A q \in Requests :
        /\ Running(q) => pc'[q] = "done" /\ reply'[q] = "lost"
        /\ ~Running(q) => pc'[q] = pc[q] /\ reply'[q] = reply[q]
  BY DEF Crash
<1>3. TypeOK'
  <2>1. /\ pc' \in [Requests -> {"new", "summary", "insert", "found", "unseen",
                                 "locked", "ready", "indoubt", "done"}]
        /\ reply' \in [Requests -> Replies \cup {None}]
    BY DEF PaymentInv, TypeOK, Crash, Replies
  <2>2. /\ rowlock' \in [Creates -> Payers \cup {None}]
        /\ claim' \in [Transfers -> Callbacks \cup {None}]
        /\ failures' \in 0..MaxFailures
    BY PathAssumption DEF PaymentInv, TypeOK, Crash, Fails
  <2> QED BY <1>1, <2>1, <2>2 DEF PaymentInv, TypeOK
<1>4. PlaceInv'
  BY <1>2, Kinds3 DEF PaymentInv, PlaceInv
<1>5. SlotInv'
  <2>1. \A p \in Creates : row'[p] # None => pc'[p] = "done"
    BY <1>1, <1>2, Kinds3 DEF PaymentInv, SlotInv
  <2>2. \A p \in Creates : HasKey(p)' => HasKey(p)
    BY <1>1, <1>2, Kinds3 DEF HasKey
  <2>3. \A p, q \in Creates : HasKey(p)' /\ HasKey(q)' /\ Slot[p] = Slot[q] => p = q
    BY <2>2 DEF PaymentInv, SlotInv
  <2>4. \A q \in Creates : pc'[q] \in {"insert", "indoubt"} => Opens(q)
    BY <1>2, Kinds3 DEF PaymentInv, SlotInv
  <2>5. \A q \in Creates : Opens(q)' <=> Opens(q)
    BY <1>1 DEF Opens
  <2>6. \A q \in Creates : reply'[q] = "ok" => OkCreate(q)'
    BY <1>1, <1>2, Kinds3 DEF PaymentInv, SlotInv, OkCreate
  <2> QED BY <2>1, <2>3, <2>4, <2>5, <2>6 DEF SlotInv, OkCreate
<1>6. LockInv'
  <2>1. \A q \in Payers : Holds(q)' => Holds(q) /\ ~Running(q) /\ pc'[q] = pc[q]
    BY <1>2, Kinds3 DEF Holds
  <2>2. \A q \in Payers : Exact(q)' <=> Exact(q)
    BY DEF Exact
  <2>3. \A q \in Payers : pc'[q] \in {"found", "unseen"} \/ Holds(q)' =>
          row[Names[q]] # None /\ Exact(q)
    BY <1>2, <2>1, Kinds3 DEF PaymentInv, LockInv
  <2>4. \A q \in Payers : Holds(q)' => rowlock'[Names[q]] = q /\ seen[q] = row[Names[q]]
    <3> SUFFICES ASSUME NEW q \in Payers, Holds(q)'
                 PROVE  rowlock'[Names[q]] = q /\ seen[q] = row[Names[q]]
      OBVIOUS
    <3>1. rowlock[Names[q]] = q /\ seen[q] = row[Names[q]] /\ ~Running(q)
      BY <2>1 DEF PaymentInv, LockInv
    <3>2. rowlock'[Names[q]] = rowlock[Names[q]]
      BY <3>1, Kinds3 DEF Crash
    <3> QED BY <3>1, <3>2
  <2>5. \A q \in Callbacks : pc'[q] \in {"ready", "indoubt"} => claim'[Transfer[q]] = q
    <3> SUFFICES ASSUME NEW q \in Callbacks, pc'[q] \in {"ready", "indoubt"}
                 PROVE  claim'[Transfer[q]] = q
      OBVIOUS
    <3>1. ~Running(q) /\ claim[Transfer[q]] = q
      BY <1>2, Kinds3 DEF PaymentInv, LockInv
    <3> QED BY <3>1, Kinds3 DEF Crash
  <2>6. \A p \in Creates : rowlock'[p] # None =>
          Names[rowlock'[p]] = p /\ pc'[rowlock'[p]] \in {"locked", "ready", "indoubt"}
    <3> SUFFICES ASSUME NEW p \in Creates, rowlock'[p] # None
                 PROVE  Names[rowlock'[p]] = p /\ pc'[rowlock'[p]] \in {"locked", "ready", "indoubt"}
      OBVIOUS
    <3>1. rowlock'[p] = rowlock[p] /\ ~Running(rowlock[p])
      BY DEF Crash
    <3>2. rowlock[p] \in Payers /\ Names[rowlock[p]] = p /\ Holds(rowlock[p])
      BY <3>1 DEF PaymentInv, TypeOK, LockInv
    <3> QED BY <1>2, <3>1, <3>2, Kinds3 DEF Holds
  <2>7. \A t \in Transfers : claim'[t] # None =>
          /\ Transfer[claim'[t]] = t /\ pc'[claim'[t]] \in {"ready", "indoubt"}
          /\ recorded[t] = None
    <3> SUFFICES ASSUME NEW t \in Transfers, claim'[t] # None
                 PROVE  /\ Transfer[claim'[t]] = t /\ pc'[claim'[t]] \in {"ready", "indoubt"}
                        /\ recorded[t] = None
      OBVIOUS
    <3>1. claim'[t] = claim[t] /\ ~Running(claim[t])
      BY DEF Crash
    <3>2. claim[t] \in Callbacks /\ Transfer[claim[t]] = t /\ recorded[t] = None
          /\ pc[claim[t]] \in {"ready", "indoubt"}
      BY <3>1 DEF PaymentInv, TypeOK, LockInv
    <3> QED BY <1>2, <3>1, <3>2, Kinds3
  <2> QED BY <1>1, <2>2, <2>3, <2>4, <2>5, <2>6, <2>7 DEF LockInv, Holds
<1>7. EventInv'
  <2>1. \A q \in Payers : Exact(q)' <=> Exact(q)
    BY DEF Exact
  <2>2. \A q \in Payers : reply'[q] = "ok" => OkPayer(q)
    BY <1>2, Kinds3 DEF PaymentInv, EventInv, OkPayer
  <2> QED BY <1>1, <2>1, <2>2 DEF PaymentInv, TypeOK, EventInv, OkPayer
<1> QED BY <1>3, <1>4, <1>5, <1>6, <1>7 DEF PaymentInv

LEMMA Ranks ==
    /\ \A s \in Status : Rank(s) \in Nat
    /\ \A k \in Types : Required(k) \in Status
BY DEF Status, Rank, Types, Required

LEMMA OrderMovesKeeps ==
    ASSUME PaymentInv, NEW o \in Orders, OrderMoves(o)
    PROVE  PaymentInv'
<1>1. UNCHANGED <<provider, row, recorded, outbox, rowlock, claim, seen, pc, reply, answer, failures>>
  BY DEF OrderMoves, database, locks, client
<1>2. PICK s \in Status : /\ order' = [order EXCEPT ![o] = s]
                          /\ order[o] # None => Rank(order[o]) < Rank(s)
  BY PathAssumption DEF OrderMoves
<1>3. s # None
  BY NoneAssumption
<1>4. TypeOK'
  BY <1>1, <1>2 DEF PaymentInv, TypeOK
<1>5. \A q \in Creates : Opens(q) => Opens(q)'
  <2> SUFFICES ASSUME NEW q \in Creates, Opens(q) PROVE Opens(q)'
    OBVIOUS
  <2>1. Slot[q][1] \in Orders /\ Slot[q][2] \in Types
    BY Kinds3 DEF Slots
  <2>2. CASE Slot[q][1] = o
    <3>1. order'[o] = s /\ Rank(order[o]) < Rank(s) /\ order[o] \in Status
      BY <1>2, <2>2 DEF Opens, PaymentInv, TypeOK
    <3> HIDE DEF Rank
    <3>2. Rank(order[o]) \in Nat /\ Rank(s) \in Nat /\ Rank(Required(Slot[q][2])) \in Nat
      BY <2>1, <3>1, Ranks
    <3>3. Rank(Required(Slot[q][2])) <= Rank(order[o]) /\ Amount[Slot[q]] > 0
      BY <2>2 DEF Opens
    <3>4. Rank(Required(Slot[q][2])) <= Rank(s)
      BY <3>1, <3>2, <3>3
    <3> QED BY <1>3, <2>2, <3>1, <3>3, <3>4 DEF Opens
  <2>3. CASE Slot[q][1] # o
    <3>1. order'[Slot[q][1]] = order[Slot[q][1]]
      BY <1>2, <2>1, <2>3 DEF PaymentInv, TypeOK
    <3> QED BY <3>1 DEF Opens
  <2> QED BY <2>2, <2>3
<1>6. PlaceInv' /\ SlotInv'
  <2>1. \A q \in Creates : HasKey(q)' <=> HasKey(q)
    BY <1>1 DEF HasKey
  <2> QED BY <1>1, <1>5, <2>1 DEF PaymentInv, PlaceInv, SlotInv
<1>7. LockInv' /\ EventInv'
  BY <1>1 DEF PaymentInv, LockInv, EventInv, Holds, Exact
<1> QED BY <1>4, <1>6, <1>7 DEF PaymentInv

-----------------------------------------------------------------------------
(***************************************************************************)
(* Every action is a step of one of these kinds.                           *)
(***************************************************************************)

\* A create request holds no lock, so the end of its transaction frees none.
LEMMA NothingHeld ==
    ASSUME TypeOK, NEW r \in Creates, Release(r)
    PROVE  UNCHANGED <<rowlock, claim>>
<1>1. \A p \in Creates : rowlock[p] # r
  BY Kinds3 DEF TypeOK
<1>2. \A t \in Transfers : claim[t] # r
  BY Kinds3 DEF TypeOK
<1>3. /\ rowlock \in [Creates -> Payers \cup {None}]
      /\ claim \in [Transfers -> Callbacks \cup {None}]
  BY DEF TypeOK
<1>4. rowlock' = [p \in Creates |-> rowlock[p]] /\ claim' = [t \in Transfers |-> claim[t]]
  BY <1>1, <1>2 DEF Release
<1> QED BY <1>3, <1>4

\* The insert of a payment is left to the server: r alone has the key.
LEMMA InsertDoubtKeeps ==
    ASSUME PaymentInv, NEW r \in Creates, ClientTypeOK', Alone(r),
           pc[r] = "insert", pc'[r] = "indoubt", reply'[r] = "error",
           ~SlotUndecided(Slot[r]), PaymentsOf(Slot[r]) = {},
           UNCHANGED <<provider, order, row, recorded, outbox, rowlock, claim, seen, answer>>,
           failures' \in 0..MaxFailures
    PROVE  PaymentInv'
<1>1. \A q \in Requests : q # r => pc'[q] = pc[q] /\ reply'[q] = reply[q]
  BY DEF Alone
<1>2. TypeOK'
  BY DEF PaymentInv, TypeOK, ClientTypeOK
<1>3. PlaceInv'
  BY <1>1, Kinds3 DEF PaymentInv, PlaceInv
<1>4. SlotInv'
  <2>1. \A q \in Creates : HasKey(q) => Slot[q] # Slot[r]
    BY DEF PaymentsOf, SlotUndecided, HasKey
  <2>2. row[r] = None
    BY <2>1 DEF HasKey
  <2>3. \A p \in Creates : row'[p] # None => pc'[p] = "done"
    BY <1>1, <2>2, Kinds3 DEF PaymentInv, SlotInv
  <2>4. \A p \in Creates : p # r => (HasKey(p)' <=> HasKey(p))
    BY <1>1, Kinds3 DEF HasKey
  <2>5. \A p, q \in Creates : HasKey(p)' /\ HasKey(q)' /\ Slot[p] = Slot[q] => p = q
    BY <2>1, <2>4 DEF PaymentInv, SlotInv
  <2>6. \A q \in Creates : pc'[q] \in {"insert", "indoubt"} => Opens(q)
    BY <1>1, Kinds3 DEF PaymentInv, SlotInv
  <2>7. \A q \in Creates : Opens(q)' <=> Opens(q)
    BY DEF Opens
  <2>8. \A q \in Creates : reply'[q] = "ok" => OkCreate(q)'
    BY <1>1, Kinds3 DEF PaymentInv, SlotInv, OkCreate
  <2> QED BY <2>3, <2>5, <2>6, <2>7, <2>8 DEF SlotInv, OkCreate
<1>5. LockInv' /\ EventInv'
  <2>1. \A q \in Payers : pc'[q] = pc[q] /\ reply'[q] = reply[q]
    BY <1>1, Kinds3
  <2>2. \A q \in Payers : (Holds(q)' <=> Holds(q)) /\ (Exact(q)' <=> Exact(q))
    BY <2>1 DEF Holds, Exact
  <2>3. \A q \in Creates : rowlock[q] # None =>
          Names[rowlock[q]] = q /\ pc'[rowlock[q]] \in {"locked", "ready", "indoubt"}
    BY <2>1 DEF PaymentInv, TypeOK, LockInv, Holds
  <2>4. \A t \in Transfers : claim[t] # None =>
          /\ Transfer[claim[t]] = t /\ pc'[claim[t]] \in {"ready", "indoubt"}
          /\ recorded[t] = None
    BY <2>1, Kinds3 DEF PaymentInv, TypeOK, LockInv
  <2>5. LockInv'
    BY <2>1, <2>2, <2>3, <2>4, Kinds3 DEF PaymentInv, LockInv, Holds
  <2>6. EventInv'
    BY <2>1, <2>2 DEF PaymentInv, TypeOK, EventInv
  <2> QED BY <2>5, <2>6
<1> QED BY <1>2, <1>3, <1>4, <1>5 DEF PaymentInv

LEMMA CreateKeeps ==
    ASSUME PaymentInv, NEW r \in Creates, Create(r)
    PROVE  PaymentInv'
<1> r \in Requests /\ r \notin Payers /\ TypeOK
  BY Kinds3 DEF PaymentInv
<1> {"ok", "notFound", "state", "conflict"} \subseteq Replies
  BY DEF Replies
<1>1. CASE FindExisting(r)
  <2>1. CASE Continue(r, "summary")
    BY <1>1, <2>1, ContinueKeeps, QuietKeeps DEF PaymentInv, PlaceInv, FindExisting, Quiet
  <2>2. ASSUME NEW p \in PaymentsOf(Slot[r]), Answer(r, "ok", p) PROVE PaymentInv'
    <3>1. p \in Creates /\ row[p] # None /\ Slot[p] = Slot[r]
      BY DEF PaymentsOf
    <3>2. row' = row
      BY <1>1 DEF FindExisting, database
    <3> QED BY <1>1, <2>2, <3>1, <3>2, AnswerKeeps, QuietKeeps DEF FindExisting, Quiet, OkCreate
  <2> QED BY <1>1, <2>1, <2>2 DEF FindExisting
<1>2. CASE GetPaymentSummary(r)
  <2>1. ASSUME NEW a \in {"notFound", "state"}, Answer(r, a, None) PROVE PaymentInv'
    BY <1>2, <2>1, AnswerKeeps, QuietKeeps DEF GetPaymentSummary, Quiet
  <2>2. CASE Continue(r, "insert") /\ Amount[Slot[r]] > 0
             /\ order[Slot[r][1]] # None /\ order[Slot[r][1]] = Required(Slot[r][2])
    <3>1. Slot[r][2] \in Types
      BY Kinds3 DEF Slots
    <3>2. Rank(Required(Slot[r][2])) <= Rank(order[Slot[r][1]])
      BY <2>2, <3>1, Ranks
    <3>3. Opens(r)
      BY <2>2, <3>2 DEF Opens
    <3>4. reply[r] # "ok"
      BY <1>2 DEF PaymentInv, PlaceInv, GetPaymentSummary
    <3> QED BY <1>2, <2>2, <3>3, <3>4, ContinueKeeps, QuietKeeps DEF GetPaymentSummary, Quiet
  <2>3. Amount[Slot[r]] \in Nat
    BY Kinds3, AmountAssumption
  <2> QED BY <1>2, <2>1, <2>2, <2>3 DEF GetPaymentSummary
<1>3. CASE Insert(r)
  <2>1. CASE PaymentsOf(Slot[r]) = {}
    <3>1. \A q \in Creates : HasKey(q) /\ Slot[q] = Slot[r] => q = r
      BY <1>3, <2>1 DEF Insert, PaymentsOf, SlotUndecided, HasKey
    <3> QED
      BY <1>3, <2>1, <3>1, AnswerKeeps, InsertedKeeps DEF Insert, Inserted, locks
  <2>2. CASE PaymentsOf(Slot[r]) # {}
    BY <1>3, <2>2, AnswerKeeps, QuietKeeps DEF Insert, Quiet, database
  <2> QED BY <2>1, <2>2
<1> QED BY <1>1, <1>2, <1>3 DEF Create

LEMMA PayKeeps ==
    ASSUME PaymentInv, NEW r \in Payers, Pay(r)
    PROVE  PaymentInv'
<1> r \in Requests /\ r \notin Creates /\ Names[r] \in Creates /\ TypeOK
  BY Kinds3 DEF PaymentInv
<1> {"ok", "notFound", "invalid"} \subseteq Replies
  BY DEF Replies
<1>1. CASE FindPayment(r)
  <2>1. ~Holds(r) /\ reply[r] # "ok"
    BY <1>1 DEF FindPayment, Holds, PaymentInv, PlaceInv
  <2>2. ASSUME NEW a \in {"notFound", "invalid"}, Answer(r, a, None) PROVE PaymentInv'
    BY <1>1, <2>1, <2>2, AnswerKeeps, QuietKeeps DEF FindPayment, Quiet
  <2>3. CASE r \in Mocks /\ row[Names[r]] = "SUCCEEDED" /\ Answer(r, "ok", Names[r])
    BY <1>1, <2>1, <2>3, AnswerKeeps, QuietKeeps, Kinds3 DEF FindPayment, Quiet, OkPayer
  <2>4. CASE /\ row[Names[r]] # None /\ Exact(r)
             /\ Continue(r, IF r \in Mocks THEN "unseen" ELSE "found")
    BY <1>1, <2>1, <2>4, ContinueKeeps, QuietKeeps DEF FindPayment, Quiet
  <2> QED BY <1>1, <2>2, <2>3, <2>4 DEF FindPayment, Exact
<1>2. CASE LockPayment(r)
  BY <1>2, LockPaymentKeeps
<1>3. CASE Commit(r)
  BY <1>3, AnswerKeeps, WrittenKeeps DEF Commit, Written
<1> QED BY <1>1, <1>2, <1>3 DEF Pay

LEMMA DeduplicateKeeps ==
    ASSUME PaymentInv, NEW r \in Callbacks, Deduplicate(r)
    PROVE  PaymentInv'
<1> r \in Payers /\ r \in Requests /\ r \notin Creates /\ Names[r] \in Creates
    /\ Transfer[r] \in Transfers /\ TypeOK
  BY Kinds3 DEF PaymentInv
<1> {"ok", "conflict", "error"} \subseteq Replies
  BY DEF Replies
<1>1. CASE ReadCallback(r)
  <2> DEFINE q == recorded[Transfer[r]]
  <2>1. /\ ~Holds(r) /\ reply[r] # "ok" /\ pc[r] = "found"
        /\ row[Names[r]] # None /\ Exact(r)
    BY <1>1 DEF ReadCallback, Holds, PaymentInv, PlaceInv, LockInv
  <2>2. CASE Continue(r, "unseen")
    BY <1>1, <2>1, <2>2, ContinueKeeps, QuietKeeps DEF ReadCallback, Quiet
  <2>3. CASE q # None /\ q = Names[r] /\ Answer(r, "ok", q)
    <3>1. OkPayer(r)
      BY <2>3 DEF PaymentInv, EventInv, OkPayer
    <3> QED BY <1>1, <2>1, <2>3, <3>1, AnswerKeeps, QuietKeeps DEF ReadCallback, Quiet
  <2>4. CASE Answer(r, "conflict", None)
    BY <1>1, <2>1, <2>4, AnswerKeeps, QuietKeeps DEF ReadCallback, Quiet
  <2> QED BY <1>1, <2>2, <2>3, <2>4 DEF ReadCallback
<1>2. CASE RecordCallback(r)
  <2>1. Holds(r) /\ reply[r] # "ok" /\ pc[r] = "locked"
    BY <1>2 DEF RecordCallback, Holds, PaymentInv, PlaceInv
  <2>2. CASE recorded[Transfer[r]] = None
    <3>1. /\ claim[Transfer[r]] = None /\ Continue(r, "ready")
          /\ claim' = [claim EXCEPT ![Transfer[r]] = r]
          /\ UNCHANGED <<provider, order, row, recorded, outbox, rowlock, seen, failures>>
      BY <1>2, <2>2 DEF RecordCallback, database
    <3>2. Holding(r, "ready")
      BY <2>1, <3>1, ContinueKeeps DEF TypeOK, Holding
    <3> QED BY <2>1, <2>2, <3>1, <3>2, HoldingKeeps
  <2>3. CASE recorded[Transfer[r]] # None
    BY <1>2, <2>1, <2>3, AnswerKeeps, RolledBackKeeps DEF RecordCallback, RolledBack, TypeOK
  <2> QED BY <2>2, <2>3
<1> QED BY <1>1, <1>2 DEF Deduplicate

LEMMA FailureKeeps ==
    ASSUME PaymentInv, NEW r \in Requests,
           \/ StatementError(r) \/ CommitUnacknowledged(r)
           \/ ServerCommits(r) \/ ServerAborts(r)
    PROVE  PaymentInv'
<1> TypeOK
  BY DEF PaymentInv
<1>1. Fails => failures' \in 0..MaxFailures
  BY PathAssumption DEF Fails, TypeOK
<1>2. CASE StatementError(r)
  <2>1. Answer(r, "error", None) /\ "error" \in Replies /\ pc[r] # "done"
    BY <1>2 DEF StatementError, Running, Replies
  <2>2. ClientTypeOK' /\ Alone(r) /\ pc'[r] = "done" /\ reply'[r] = "error"
    BY <2>1, AnswerKeeps
  <2> QED BY <1>1, <1>2, <2>1, <2>2, RolledBackKeeps DEF StatementError, RolledBack
<1>3. CASE CommitUnacknowledged(r)
  <2>1. ClientTypeOK' /\ Alone(r) /\ pc'[r] = "indoubt" /\ reply'[r] = "error"
    BY <1>3 DEF CommitUnacknowledged, TypeOK, ClientTypeOK, Replies, Alone
  <2>2. /\ UNCHANGED <<provider, order, row, recorded, outbox, rowlock, claim, seen, answer>>
        /\ failures' \in 0..MaxFailures
    BY <1>1, <1>3 DEF CommitUnacknowledged, database, locks
  <2>3. CASE r \in Payers
    <3>1. pc[r] = "ready" /\ Holds(r)
      BY <1>3, <2>3, Kinds3 DEF CommitUnacknowledged, Holds
    <3>2. Holding(r, "indoubt")
      BY <2>1, <2>2 DEF Holding
    <3> QED BY <2>2, <2>3, <3>1, <3>2, HoldingKeeps
  <2>4. CASE r \in Creates
    BY <1>3, <2>1, <2>2, <2>4, InsertDoubtKeeps DEF CommitUnacknowledged
  <2> QED BY <2>3, <2>4, Kinds3
<1>4. CASE ServerCommits(r)
  <2>1. ClientTypeOK' /\ Alone(r) /\ pc'[r] = "done" /\ reply'[r] = reply[r]
    BY <1>4, ContinueKeeps DEF ServerCommits
  <2>2. pc[r] = "indoubt" /\ reply[r] # "ok"
    BY <1>4 DEF ServerCommits, PaymentInv, PlaceInv
  <2>3. CASE r \in Payers
    BY <1>4, <2>1, <2>2, <2>3, Kinds3, WrittenKeeps DEF ServerCommits, Written
  <2>4. CASE r \in Creates
    <3>1. UNCHANGED <<rowlock, claim>>
      BY <1>4, <2>4, NothingHeld DEF ServerCommits
    <3>2. \A q \in Creates : HasKey(q) /\ Slot[q] = Slot[r] => q = r
      BY <2>2, <2>4 DEF PaymentInv, SlotInv, HasKey
    <3> QED BY <1>4, <2>1, <2>2, <2>4, <3>1, <3>2, InsertedKeeps DEF ServerCommits, Inserted
  <2> QED BY <2>3, <2>4, Kinds3
<1>5. CASE ServerAborts(r)
  <2>1. ClientTypeOK' /\ Alone(r) /\ pc'[r] = "done" /\ reply'[r] = reply[r]
    BY <1>5, ContinueKeeps DEF ServerAborts
  <2>2. pc[r] = "indoubt" /\ reply[r] # "ok"
    BY <1>5 DEF ServerAborts, PaymentInv, PlaceInv
  <2>3. failures' \in 0..MaxFailures
    BY <1>5 DEF ServerAborts, TypeOK
  <2> QED BY <1>5, <2>1, <2>2, <2>3, RolledBackKeeps DEF ServerAborts, RolledBack
<1> QED BY <1>2, <1>3, <1>4, <1>5

LEMMA PaymentInvNext == PaymentInv /\ [Next]_vars => PaymentInv'
<1> SUFFICES ASSUME PaymentInv, [Next]_vars PROVE PaymentInv'
  OBVIOUS
<1>1. CASE Next
  <2>1. ASSUME NEW o \in Orders, OrderMoves(o) PROVE PaymentInv'
    BY <2>1, OrderMovesKeeps
  <2>2. ASSUME NEW r \in Creates, Create(r) PROVE PaymentInv'
    BY <2>2, CreateKeeps
  <2>3. ASSUME NEW r \in Payers, Pay(r) PROVE PaymentInv'
    BY <2>3, PayKeeps
  <2>4. ASSUME NEW r \in Callbacks, Deduplicate(r) PROVE PaymentInv'
    BY <2>4, DeduplicateKeeps
  <2>5. ASSUME NEW r \in Requests,
               \/ StatementError(r) \/ CommitUnacknowledged(r)
               \/ ServerCommits(r) \/ ServerAborts(r)
        PROVE  PaymentInv'
    BY <2>5, FailureKeeps
  <2>6. CASE Crash
    BY <2>6, CrashKeeps
  <2> QED BY <1>1, <2>1, <2>2, <2>3, <2>4, <2>5, <2>6 DEF Next
<1>2. CASE UNCHANGED vars
  BY <1>2 DEF vars, database, locks, client, PaymentInv, TypeOK, PlaceInv, SlotInv,
              LockInv, EventInv, HasKey, Holds, Opens, Exact
<1> QED BY <1>1, <1>2

\* Every reachable state satisfies the invariant: the row lock, the claim of a
\* transfer and what a transaction has read agree with the database.
THEOREM PaymentIsSafe == Spec => []PaymentInv
BY PaymentInvInit, PaymentInvNext, PTL DEF Spec

\* The variables keep to their types.
THEOREM PaymentTypeCorrect == Spec => []TypeOK
<1>1. PaymentInv => TypeOK
  BY DEF PaymentInv
<1> QED BY <1>1, PaymentIsSafe, PTL

\* A payment that succeeded has exactly one event in the outbox, one that has
\* not has none, however callbacks, mock requests and failures interleave.
THEOREM SuccessHasOneEvent == Spec => []OneSuccessEvent
<1>1. PaymentInv => OneSuccessEvent
  <2> SUFFICES ASSUME PaymentInv PROVE OneSuccessEvent
    OBVIOUS
  <2>1. \A p \in Creates : row[p] = "SUCCEEDED" <=> \E r \in outbox : Names[r] = p
    BY DEF PaymentInv, EventInv
  <2>2. \A r, q \in outbox : Names[r] = Names[q] => r = q
    BY DEF PaymentInv, EventInv
  <2>3. \A r \in outbox \cap Callbacks : Received[r] = Amount[Slot[Names[r]]]
    BY DEF PaymentInv, EventInv, Exact
  <2> QED BY <2>1, <2>2, <2>3 DEF OneSuccessEvent
<1> QED BY <1>1, PaymentIsSafe, PTL

\* Whoever is told that a payment was accepted can rely on it: it has
\* succeeded, and the transfer is on record for it.
THEOREM AcknowledgedArePaid == Spec => []AcknowledgedIsPaid
<1>1. PaymentInv => AcknowledgedIsPaid
  BY DEF PaymentInv, EventInv, AcknowledgedIsPaid
<1> QED BY <1>1, PaymentIsSafe, PTL

\* All clients that are given a payment for an order are given the same one.
THEOREM OrdersHaveOnePayment == Spec => []OnePayment
<1>1. PaymentInv => OnePayment
  BY DEF PaymentInv, SlotInv, HasKey, OnePayment
<1> QED BY <1>1, PaymentIsSafe, PTL

-----------------------------------------------------------------------------
(***************************************************************************)
(* Waiting.  A create request waits for an insert into its slot that the   *)
(* server has not decided, a payer for the row of its payment, and a       *)
(* callback that has that row for the key of its transfer.                 *)
(***************************************************************************)

\* r cannot go on before q's transaction has ended.
WaitsFor(r, q) ==
    \/ /\ r \in Creates /\ q \in Creates
       /\ pc[r] = "insert" /\ pc[q] = "indoubt" /\ Slot[q] = Slot[r]
    \/ /\ r \in Payers
       /\ pc[r] = "unseen" /\ rowlock[Names[r]] = q
    \/ /\ r \in Callbacks
       /\ pc[r] = "locked" /\ claim[Transfer[r]] = q

\* Whoever is waited for has either nothing left to do but to commit, or waits
\* in its turn only for such a one.
WaitsAreShort ==
    \A r, q \in Requests : WaitsFor(r, q) =>
        \/ pc[q] \in {"ready", "indoubt"}
        \/ /\ pc[q] = "locked"
           /\ \A x \in Requests : WaitsFor(q, x) => pc[x] \in {"ready", "indoubt"}

\* A callback waits for the key of a transfer while it holds the row of a
\* payment (repository.go:185), yet requests never wait for one another in a
\* circle: the key comes last, and its holder waits for nobody.
THEOREM WaitsAreNotCircular == Spec => []WaitsAreShort
<1>1. ASSUME PaymentInv, NEW r \in Requests, NEW q \in Requests, WaitsFor(r, q)
      PROVE  pc[q] \in {"locked", "ready", "indoubt"}
  BY <1>1, Kinds3, NoneAssumption DEF WaitsFor, PaymentInv, LockInv, Holds, Requests
<1>2. ASSUME PaymentInv, NEW q \in Requests, pc[q] = "locked",
             NEW x \in Requests, WaitsFor(q, x)
      PROVE  pc[x] \in {"ready", "indoubt"}
  <2>1. q \in Callbacks /\ claim[Transfer[q]] = x
    BY <1>2 DEF WaitsFor
  <2> QED BY <1>2, <2>1, Kinds3, NoneAssumption DEF PaymentInv, LockInv
<1>3. PaymentInv => WaitsAreShort
  BY <1>1, <1>2 DEF WaitsAreShort
<1> QED BY <1>3, PaymentIsSafe, PTL

-----------------------------------------------------------------------------
(***************************************************************************)
(* The service implements PaymentLedger.                                   *)
(***************************************************************************)
\* A slot of the ledger is the status of its only payment ...
LEMMA SlotStatus ==
    ASSUME PaymentInv, NEW s \in Slots
    PROVE  /\ \A p \in Creates : row[p] # None /\ Slot[p] = s => LedgerSlot[s] = row[p]
           /\ (\A p \in Creates : Slot[p] = s => row[p] = None) => LedgerSlot[s] = None
<1>1. ASSUME NEW p \in Creates, row[p] # None, Slot[p] = s PROVE LedgerSlot[s] = row[p]
  <2>1. \A q \in Creates : row[q] # None /\ Slot[q] = s <=> q = p
    BY <1>1 DEF PaymentInv, SlotInv, HasKey
  <2>2. (CHOOSE q \in Creates : row[q] # None /\ Slot[q] = s) = p
    BY <2>1
  <2> QED BY <2>1, <2>2 DEF LedgerSlot
<1>2. ASSUME \A p \in Creates : Slot[p] = s => row[p] = None PROVE LedgerSlot[s] = None
  BY <1>2 DEF LedgerSlot
<1> QED BY <1>1, <1>2

\* ... and counts its only event.
LEMMA SlotEvents ==
    ASSUME PaymentInv, NEW s \in Slots
    PROVE  LedgerEvents[s] = IF LedgerSlot[s] = "SUCCEEDED" THEN 1 ELSE 0
<1> DEFINE E == {r \in outbox : Slot[Names[r]] = s}
<1>1. LedgerEvents[s] = Cardinality(E)
  BY DEF LedgerEvents
<1>2. None # "SUCCEEDED"
  BY NoneAssumption
<1>3. \A r \in outbox : Names[r] \in Creates /\ row[Names[r]] = "SUCCEEDED"
  BY Kinds3 DEF PaymentInv, TypeOK, EventInv
<1>4. CASE \E p \in Creates : row[p] = "SUCCEEDED" /\ Slot[p] = s
  <2>1. PICK p \in Creates : row[p] = "SUCCEEDED" /\ Slot[p] = s
    BY <1>4
  <2>2. PICK r \in outbox : Names[r] = p
    BY <2>1 DEF PaymentInv, EventInv
  <2>3. \A q \in outbox : Slot[Names[q]] = s => q = r
    BY <1>2, <1>3, <2>1, <2>2 DEF PaymentInv, SlotInv, HasKey, EventInv
  <2>4. E = {r}
    BY <2>1, <2>2, <2>3
  <2>5. LedgerSlot[s] = "SUCCEEDED"
    BY <1>2, <2>1, SlotStatus
  <2> QED BY <1>1, <2>4, <2>5, FS_Singleton
<1>5. CASE ~ \E p \in Creates : row[p] = "SUCCEEDED" /\ Slot[p] = s
  <2>1. E = {}
    BY <1>3, <1>5
  <2>2. LedgerSlot[s] # "SUCCEEDED"
    BY <1>2, <1>5, SlotStatus
  <2> QED BY <1>1, <2>1, <2>2, FS_EmptySet
<1> QED BY <1>4, <1>5

\* The four things a step may do to the orders and the payments.
LEMMA StepsOfRows ==
    ASSUME PaymentInv, [Next]_vars
    PROVE  \/ UNCHANGED <<order, row>>
           \/ row' = row /\ \E o \in Orders : OrderMoves(o)
           \/ order' = order /\ \E p \in Creates :
                row[p] = None /\ Opens(p) /\ row' = [row EXCEPT ![p] = "PENDING"]
           \/ order' = order /\ \E p \in Creates :
                row[p] = "PENDING" /\ row' = [row EXCEPT ![p] = "SUCCEEDED"]
<1> TypeOK
  BY DEF PaymentInv
<1>1. CASE UNCHANGED vars
  BY <1>1 DEF vars, database
<1>2. ASSUME NEW o \in Orders, OrderMoves(o) PROVE row' = row
  BY <1>2 DEF OrderMoves, database
<1>3. ASSUME NEW r \in Creates, Create(r)
      PROVE  /\ order' = order
             /\ row' = row \/ (/\ row[r] = None /\ Opens(r)
                               /\ row' = [row EXCEPT ![r] = "PENDING"])
  <2>1. CASE FindExisting(r) \/ GetPaymentSummary(r)
    BY <2>1 DEF FindExisting, GetPaymentSummary, database
  <2>2. CASE Insert(r)
    BY <2>2 DEF Insert, PaymentsOf, PaymentInv, SlotInv
  <2> QED BY <1>3, <2>1, <2>2 DEF Create
<1>4. ASSUME NEW r \in Payers, Effects(r), pc[r] \in {"ready", "indoubt"}
      PROVE  row' = row \/ (row[Names[r]] = "PENDING"
                             /\ row' = [row EXCEPT ![Names[r]] = "SUCCEEDED"])
  BY <1>4, Kinds3 DEF Effects, PaymentInv, TypeOK, LockInv, Holds
<1>5. ASSUME NEW r \in Payers, Pay(r)
      PROVE  /\ order' = order
             /\ row' = row \/ (/\ row[Names[r]] = "PENDING"
                               /\ row' = [row EXCEPT ![Names[r]] = "SUCCEEDED"])
  <2>1. CASE FindPayment(r) \/ LockPayment(r)
    BY <2>1 DEF FindPayment, LockPayment, database
  <2>2. CASE Commit(r)
    BY <1>4, <2>2 DEF Commit
  <2> QED BY <1>5, <2>1, <2>2 DEF Pay
<1>6. ASSUME NEW r \in Callbacks, Deduplicate(r) PROVE UNCHANGED <<order, row>>
  BY <1>6 DEF Deduplicate, ReadCallback, RecordCallback, database
<1>7. ASSUME NEW r \in Requests,
             StatementError(r) \/ CommitUnacknowledged(r) \/ ServerAborts(r)
      PROVE  UNCHANGED <<order, row>>
  BY <1>7 DEF StatementError, CommitUnacknowledged, ServerAborts, database
<1>8. ASSUME NEW r \in Requests, ServerCommits(r)
      PROVE  /\ order' = order
             /\ \/ row' = row
                \/ /\ r \in Creates /\ row[r] = None /\ Opens(r)
                   /\ row' = [row EXCEPT ![r] = "PENDING"]
                \/ /\ r \in Payers /\ row[Names[r]] = "PENDING"
                   /\ row' = [row EXCEPT ![Names[r]] = "SUCCEEDED"]
  <2>1. CASE r \in Creates
    BY <1>8, <2>1 DEF ServerCommits, PaymentInv, SlotInv
  <2>2. CASE r \in Payers
    BY <1>4, <1>8, <2>2, Kinds3 DEF ServerCommits
  <2> QED BY <2>1, <2>2, Kinds3
<1>9. CASE Crash
  BY <1>9 DEF Crash, database
<1> QED BY <1>1, <1>2, <1>3, <1>5, <1>6, <1>7, <1>8, <1>9, Kinds3 DEF Next

\* The two lemmas in one formula, for both ends of a step.
Mapped ==
    \A s \in Slots :
        /\ \A p \in Creates : row[p] # None /\ Slot[p] = s => LedgerSlot[s] = row[p]
        /\ (\A p \in Creates : Slot[p] = s => row[p] = None) => LedgerSlot[s] = None
        /\ LedgerEvents[s] = IF LedgerSlot[s] = "SUCCEEDED" THEN 1 ELSE 0

LEMMA MappingHolds == PaymentInv => Mapped
BY SlotStatus, SlotEvents DEF Mapped

LEMMA SameStatuses ==
    /\ Ledger!Status = Status
    /\ \A s \in Status : Ledger!Rank(s) = Rank(s)
    /\ \A k \in Types : Ledger!Required(k) = Required(k)
BY DEF Ledger!Status, Status, Ledger!Rank, Rank, Ledger!Required, Required

LEMMA LedgerStep ==
    ASSUME PaymentInv, PaymentInv', [Next]_vars
    PROVE  [Ledger!Next]_(Ledger!vars)
<1> DEFINE M == LedgerSlot  N == LedgerEvents
<1>1. /\ M = [s \in Slots |-> M[s]] /\ N = [s \in Slots |-> N[s]]
      /\ M' = [s \in Slots |-> M'[s]] /\ N' = [s \in Slots |-> N'[s]]
  BY DEF LedgerSlot, LedgerEvents
<1>2. \A s \in Slots :
        /\ \A p \in Creates : row[p] # None /\ Slot[p] = s => M[s] = row[p]
        /\ (\A p \in Creates : Slot[p] = s => row[p] = None) => M[s] = None
        /\ N[s] = IF M[s] = "SUCCEEDED" THEN 1 ELSE 0
  BY SlotStatus, SlotEvents
<1>3. \A s \in Slots :
        /\ \A p \in Creates : row'[p] # None /\ Slot[p] = s => M'[s] = row'[p]
        /\ (\A p \in Creates : Slot[p] = s => row'[p] = None) => M'[s] = None
        /\ N'[s] = IF M'[s] = "SUCCEEDED" THEN 1 ELSE 0
  <2>1. PaymentInv' => Mapped'
    BY MappingHolds, PTL
  <2> QED BY <2>1 DEF Mapped
<1>4. None \notin {"PENDING", "SUCCEEDED"}
  BY NoneAssumption
<1> HIDE DEF M, N
<1>5. CASE row' = row
  <2>1. \A s \in Slots : M'[s] = M[s]
    BY <1>2, <1>3, <1>5
  <2>2. M' = M /\ N' = N
    BY <1>1, <1>2, <1>3, <2>1
  <2>3. ASSUME NEW o \in Orders, OrderMoves(o) PROVE Ledger!OrderMoves(o)
    <3>1. PICK s \in Status : /\ order[o] # None => Rank(order[o]) < Rank(s)
                              /\ order' = [order EXCEPT ![o] = s]
      BY <2>3, PathAssumption DEF OrderMoves
    <3>2. order[o] # None => order[o] \in Status
      BY DEF PaymentInv, TypeOK
    <3>3. order[o] # None => Ledger!Rank(order[o]) < Ledger!Rank(s)
      BY <3>1, <3>2, SameStatuses
    <3>4. s \in Ledger!Status
      BY SameStatuses
    <3> QED BY <2>2, <3>1, <3>3, <3>4 DEF Ledger!OrderMoves, M, N
  <2>4. CASE order' = order
    BY <2>2, <2>4 DEF Ledger!vars, M, N
  <2> QED BY <1>5, <2>3, <2>4, StepsOfRows DEF Ledger!Next
<1>6. ASSUME NEW p \in Creates, order' = order, row[p] = None, Opens(p),
             row' = [row EXCEPT ![p] = "PENDING"]
      PROVE  Ledger!Open(Slot[p])
  <2>1. row'[p] = "PENDING" /\ \A q \in Creates : q # p => row'[q] = row[q]
    BY <1>6 DEF PaymentInv, TypeOK
  <2>2. \A q \in Creates : Slot[q] = Slot[p] => row[q] = None
    BY <1>4, <1>6, <2>1 DEF PaymentInv, SlotInv, HasKey
  <2>3. M[Slot[p]] = None /\ M'[Slot[p]] = "PENDING"
    BY <1>2, <1>3, <1>4, <2>1, <2>2, Kinds3
  <2>4. \A s \in Slots : s # Slot[p] => M'[s] = M[s]
    BY <1>2, <1>3, <2>1
  <2>5. M' = [M EXCEPT ![Slot[p]] = "PENDING"]
    BY <1>1, <2>3, <2>4
  <2>6. N' = N
    BY <1>1, <1>2, <1>3, <1>4, <2>3, <2>4
  <2>7. Ledger!Rank(Ledger!Required(Slot[p][2])) <= Ledger!Rank(order[Slot[p][1]])
    <3>1. Slot[p][1] \in Orders /\ Slot[p][2] \in Types
      BY Kinds3 DEF Slots
    <3>2. order[Slot[p][1]] \in Status /\ Required(Slot[p][2]) \in Status
      BY <1>6, <3>1, Ranks DEF Opens, PaymentInv, TypeOK
    <3> QED BY <1>6, <3>1, <3>2, SameStatuses DEF Opens
  <2>8. order[Slot[p][1]] # None /\ Amount[Slot[p]] > 0
    BY <1>6 DEF Opens
  <2> QED BY <1>6, <2>3, <2>5, <2>6, <2>7, <2>8 DEF Ledger!Open, M, N
<1>7. ASSUME NEW p \in Creates, order' = order, row[p] = "PENDING",
             row' = [row EXCEPT ![p] = "SUCCEEDED"]
      PROVE  Ledger!Pay(Slot[p])
  <2>1. row'[p] = "SUCCEEDED" /\ \A q \in Creates : q # p => row'[q] = row[q]
    BY <1>7 DEF PaymentInv, TypeOK
  <2>2. M[Slot[p]] = "PENDING" /\ M'[Slot[p]] = "SUCCEEDED"
    BY <1>2, <1>3, <1>4, <1>7, <2>1, Kinds3
  <2>3. \A s \in Slots : s # Slot[p] => M'[s] = M[s]
    BY <1>2, <1>3, <2>1
  <2>4. M' = [M EXCEPT ![Slot[p]] = "SUCCEEDED"]
    BY <1>1, <2>2, <2>3
  <2>5. N[Slot[p]] = 0 /\ N'[Slot[p]] = 1 /\ \A s \in Slots : s # Slot[p] => N'[s] = N[s]
    BY <1>2, <1>3, <2>2, <2>3, Kinds3
  <2>6. N' = [N EXCEPT ![Slot[p]] = @ + 1]
    BY <1>1, <2>5
  <2> QED BY <1>7, <2>2, <2>4, <2>6 DEF Ledger!Pay, M, N
<1>8. Slots = Ledger!Slots /\ \A p \in Creates : Slot[p] \in Slots
  BY Kinds3 DEF Slots, Ledger!Slots
<1> QED BY <1>5, <1>6, <1>7, <1>8, StepsOfRows DEF Ledger!Next

LEMMA LedgerInit == Init => Ledger!Init
<1> SUFFICES ASSUME Init PROVE Ledger!Init
  OBVIOUS
<1>1. PaymentInv
  BY PaymentInvInit
<1>2. \A s \in Slots : LedgerSlot[s] = None /\ LedgerEvents[s] = 0
  BY <1>1, SlotStatus, SlotEvents, NoneAssumption DEF Init
<1>3. LedgerSlot = [s \in Slots |-> None] /\ LedgerEvents = [s \in Slots |-> 0]
  BY <1>2 DEF LedgerSlot, LedgerEvents
<1>4. order \in [Orders -> Status \cup {None}]
  BY DEF Init
<1>5. Slots = Ledger!Slots /\ Status = Ledger!Status
  BY SameStatuses DEF Slots, Ledger!Slots
<1> QED BY <1>3, <1>4, <1>5 DEF Ledger!Init

\* The concurrent service implements the ledger: it opens a payment only on a
\* status the order has had, and pays it once, with its event.
THEOREM ServiceImplementsLedger == Spec => ImplementsLedger
<1>1. PaymentInv /\ PaymentInv' /\ [Next]_vars => [Ledger!Next]_(Ledger!vars)
  BY LedgerStep
<1> QED BY <1>1, LedgerInit, PaymentIsSafe, PTL DEF Spec, ImplementsLedger, Ledger!Spec
=============================================================================
