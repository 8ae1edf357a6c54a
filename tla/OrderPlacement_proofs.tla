------------------------ MODULE OrderPlacement_proofs ------------------------
(***************************************************************************)
(* Placing orders, for any quotations, requests, customers, totals and     *)
(* number of failures: the order that is stored is sound, a customer who   *)
(* is told of an order has one, and the two services implement Placement.  *)
(***************************************************************************)
EXTENDS OrderPlacement, FiniteSetTheorems, TLAPS

\* A request that has gone past the checks on its quotation.
Checked(r) ==
    /\ total[Wants[r]] # None
    /\ Asker[r] \in {None, Owner[Wants[r]]}

\* A quotation is confirmed only for the order its id stands for, at the wish
\* of a request that has been checked, and stays confirmed.
ConfirmInv ==
    /\ \A q \in Quotations :
         confirmed[q] # None => confirmed[q] = q /\ total[q] # None
    /\ \A r \in Requests :
         /\ call[r] \in {"asked", "valid"} => Checked(r)
         /\ call[r] = "confirmed" => confirmed[Wants[r]] = Wants[r]
         /\ pc[r] = "confirm" => Checked(r)
         /\ pc[r] \in {"create", "insert", "commit", "indoubt"} =>
              Checked(r) /\ confirmed[Wants[r]] = Wants[r]

\* An id is claimed by the one request whose row is undecided.
ClaimInv ==
    /\ \A o \in OrderIds : claim[o] # None =>
         /\ o = Wants[claim[o]] /\ pc[claim[o]] \in {"commit", "indoubt"}
         /\ orders[o] = None
    /\ \A r \in Requests : pc[r] \in {"commit", "indoubt"} => claim[Wants[r]] = r

\* An order is the one its request made up from the quotation, and its event
\* is there.
OrderInv ==
    /\ \A o \in OrderIds : orders[o] # None =>
         /\ orders[o].by \in Requests /\ o = Wants[orders[o].by]
         /\ orders[o] = OrderOf(orders[o].by)
         /\ Checked(orders[o].by) /\ confirmed[o] = o
         /\ orders[o].by \in outbox
    /\ \A r \in outbox : orders[Wants[r]] # None /\ orders[Wants[r]].by = r
    /\ \A r \in Requests : reply[r] = "created" =>
         /\ pc[r] = "done"
         /\ orders[Wants[r]] # None
         /\ Checked(r) /\ answer[r] = OrderOf(r)

PlacementInv ==
    /\ TypeOK
    /\ ConfirmInv
    /\ ClaimInv
    /\ OrderInv

-----------------------------------------------------------------------------
(***************************************************************************)
(* The amounts.                                                            *)
(***************************************************************************)
\* Two divisions by 100 lose nothing against one.
LEMMA DepositIsExact ==
    ASSUME NEW t \in Nat
    PROVE  /\ Deposit(t) = (70 * t) \div 100
           /\ Deposit(t) \in Nat /\ Deposit(t) <= t
BY DEF Deposit

LEMMA OrderOfIsTyped ==
    ASSUME TypeOK, NEW r \in Requests, Checked(r)
    PROVE  /\ OrderOf(r) \in OrderRows /\ OrderOf(r) # None
           /\ OrderOf(r).by = r /\ OrderOf(r).quotation = Wants[r]
           /\ OrderOf(r).total = total[Wants[r]]
           /\ OrderOf(r).customer = Owner[Wants[r]]
           /\ OrderOf(r).deposit = (70 * total[Wants[r]]) \div 100
           /\ OrderOf(r).deposit + OrderOf(r).remaining = total[Wants[r]]
<1>1. /\ Wants[r] \in Quotations /\ total[Wants[r]] \in Nat
      /\ Owner[Wants[r]] \in Customers
  BY PlacementAssumption DEF TypeOK, Checked
<1>2. (IF Asker[r] = None THEN Owner[Wants[r]] ELSE Asker[r]) = Owner[Wants[r]]
  BY DEF Checked
<1>3. OrderOf(r) = [quotation |-> Wants[r], by |-> r, customer |-> Owner[Wants[r]],
                    total |-> total[Wants[r]], deposit |-> Deposit(total[Wants[r]]),
                    remaining |-> total[Wants[r]] - Deposit(total[Wants[r]])]
  BY <1>2 DEF OrderOf
<1>4. /\ Deposit(total[Wants[r]]) \in Nat
      /\ total[Wants[r]] - Deposit(total[Wants[r]]) \in Nat
      /\ Deposit(total[Wants[r]]) + (total[Wants[r]] - Deposit(total[Wants[r]])) = total[Wants[r]]
  BY <1>1, DepositIsExact
<1>5. OrderOf(r) \in OrderRows
  BY <1>1, <1>3, <1>4 DEF OrderRows
<1>6. OrderOf(r) # None
  BY <1>5, NoneAssumption
<1>7. /\ OrderOf(r).by = r /\ OrderOf(r).quotation = Wants[r]
      /\ OrderOf(r).total = total[Wants[r]]
      /\ OrderOf(r).customer = Owner[Wants[r]]
      /\ OrderOf(r).deposit = Deposit(total[Wants[r]])
      /\ OrderOf(r).remaining = total[Wants[r]] - Deposit(total[Wants[r]])
  BY <1>3
<1>8. Deposit(total[Wants[r]]) = (70 * total[Wants[r]]) \div 100
  BY <1>1, DepositIsExact
<1> QED BY <1>4, <1>5, <1>6, <1>7, <1>8

LEMMA PlacementInvInit == Init => PlacementInv
<1> SUFFICES ASSUME Init PROVE PlacementInv
  OBVIOUS
<1>1. TypeOK
  <2>1. orders \in [OrderIds -> OrderRows \cup {None}]
    <3> DEFINE S == OrderRows \cup {None}
    <3>1. None \in S
      OBVIOUS
    <3> HIDE DEF S
    <3>2. orders \in [OrderIds -> S]
      BY <3>1 DEF Init
    <3> QED BY <3>2 DEF S
  <2>2. answer \in [Requests -> OrderRows \cup {None}]
    <3> DEFINE S == OrderRows \cup {None}
    <3>1. None \in S
      OBVIOUS
    <3> HIDE DEF S
    <3>2. answer \in [Requests -> S]
      BY <3>1 DEF Init
    <3> QED BY <3>2 DEF S
  <2>3. total \in [Quotations -> Totals \cup {None}]
        /\ confirmed \in [Quotations -> OrderIds \cup {None}]
        /\ claim \in [OrderIds -> Requests \cup {None}]
        /\ failures \in 0..MaxFailures
    BY PlacementAssumption DEF Init
  <2>4. reply \in [Requests -> Replies \cup {None}]
    BY DEF Init
  <2> QED BY <2>1, <2>2, <2>3, <2>4 DEF Init, TypeOK
<1>2. \A r \in Requests : reply[r] # "created"
  BY NoneAssumption DEF Init, Replies
<1>3. ConfirmInv /\ ClaimInv /\ OrderInv
  BY <1>2 DEF Init, ConfirmInv, ClaimInv, OrderInv, OrderIds
<1> QED BY <1>1, <1>3 DEF PlacementInv

-----------------------------------------------------------------------------
(***************************************************************************)
(* What the operations the actions are built from do.                      *)
(***************************************************************************)
LEMMA SameTotal ==
    ASSUME UNCHANGED total, NEW r \in Requests
    PROVE  (Checked(r)' <=> Checked(r)) /\ OrderOf(r)' = OrderOf(r)
BY DEF Checked, OrderOf

LEMMA WhatIsWanted ==
    ASSUME NEW r \in Requests
    PROVE  Wants[r] \in Quotations /\ Wants[r] \in OrderIds /\ orderID(r) = Wants[r]
           /\ r # None /\ Wants[r] # None
BY PlacementAssumption DEF OrderIds, orderID

\* Only r is affected.
Alone(r) ==
    \A s \in Requests \ {r} :
        pc'[s] = pc[s] /\ reply'[s] = reply[s] /\ answer'[s] = answer[s]

ClientTypeOK ==
    /\ pc \in [Requests -> {"new", "read", "confirm", "create", "insert",
                            "commit", "indoubt", "done"}]
    /\ reply \in [Requests -> Replies \cup {None}]
    /\ answer \in [Requests -> OrderRows \cup {None}]

LEMMA AnswerKeeps ==
    ASSUME TypeOK, NEW r \in Requests, NEW a \in Replies,
           NEW o \in OrderRows \cup {None}, Answer(r, a, o)
    PROVE  /\ ClientTypeOK' /\ Alone(r)
           /\ pc'[r] = "done" /\ reply'[r] = a /\ answer'[r] = o
<1> DEFINE S == OrderRows \cup {None}
<1>1. answer \in [Requests -> S] /\ o \in S
  BY DEF TypeOK
<1>2. answer' = [answer EXCEPT ![r] = o]
  BY DEF Answer
<1> HIDE DEF S
<1>3. /\ answer' \in [Requests -> S] /\ answer'[r] = o
      /\ \A s \in Requests \ {r} : answer'[s] = answer[s]
  BY <1>1, <1>2
<1>4. /\ pc' \in [Requests -> {"new", "read", "confirm", "create", "insert",
                               "commit", "indoubt", "done"}]
      /\ reply' \in [Requests -> Replies \cup {None}]
      /\ pc'[r] = "done" /\ reply'[r] = a
      /\ \A s \in Requests \ {r} : pc'[s] = pc[s] /\ reply'[s] = reply[s]
  BY DEF TypeOK, Answer
<1> QED BY <1>3, <1>4 DEF ClientTypeOK, Alone, S

LEMMA ContinueKeeps ==
    ASSUME TypeOK, NEW r \in Requests,
           NEW p \in {"read", "confirm", "create", "insert", "commit", "indoubt"},
           Continue(r, p)
    PROVE  /\ ClientTypeOK' /\ Alone(r)
           /\ pc'[r] = p /\ reply'[r] = reply[r] /\ answer'[r] = answer[r]
BY DEF TypeOK, ClientTypeOK, Continue, client, Alone

LEMMA ReleaseKeeps ==
    ASSUME TypeOK, NEW R \in SUBSET Requests, Release(R)
    PROVE  /\ claim' \in [OrderIds -> Requests \cup {None}]
           /\ \A o \in OrderIds :
                claim'[o] = IF claim[o] \in R THEN None ELSE claim[o]
BY DEF TypeOK, Release

\* The order of r and its event are written.
LEMMA EffectsKeep ==
    ASSUME TypeOK, NEW r \in Requests, Checked(r), Effects(r)
    PROVE  /\ orders' \in [OrderIds -> OrderRows \cup {None}]
           /\ outbox' \subseteq Requests /\ outbox' = outbox \cup {r}
           /\ orders'[Wants[r]] = OrderOf(r)
           /\ \A o \in OrderIds \ {Wants[r]} : orders'[o] = orders[o]
<1> DEFINE S == OrderRows \cup {None}
<1>1. orders \in [OrderIds -> S] /\ OrderOf(r) \in S /\ Wants[r] \in OrderIds
  BY OrderOfIsTyped, WhatIsWanted DEF TypeOK
<1>2. orders' = [orders EXCEPT ![Wants[r]] = OrderOf(r)]
  BY WhatIsWanted DEF Effects
<1> HIDE DEF S
<1>3. /\ orders' \in [OrderIds -> S] /\ orders'[Wants[r]] = OrderOf(r)
      /\ \A o \in OrderIds \ {Wants[r]} : orders'[o] = orders[o]
  BY <1>1, <1>2
<1> QED BY <1>3 DEF TypeOK, Effects, S

-----------------------------------------------------------------------------
(***************************************************************************)
(* One action at a time.                                                   *)
(***************************************************************************)
LEMMA OfferKeeps ==
    ASSUME PlacementInv, NEW q \in Quotations, Offer(q)
    PROVE  PlacementInv'
<1> USE DEF PlacementInv
<1>1. PICK t \in Totals : total' = [total EXCEPT ![q] = t]
  BY DEF Offer
<1>2. /\ total[q] = None
      /\ UNCHANGED <<confirmed, old, call, orders, outbox, claim, pc, reply, answer,
                     failures, calm>>
  BY DEF Offer, database, client
<1>3. total' \in [Quotations -> Totals \cup {None}]
  BY <1>1 DEF TypeOK
<1>4. \A p \in Quotations : total[p] # None => total'[p] = total[p]
  BY <1>1, <1>2 DEF TypeOK
<1>5. \A r \in Requests : Checked(r) => Checked(r)' /\ OrderOf(r)' = OrderOf(r)
  BY <1>4, WhatIsWanted DEF Checked, OrderOf
<1>6. TypeOK'
  BY <1>2, <1>3 DEF TypeOK
<1>7. ConfirmInv' /\ ClaimInv'
  BY <1>2, <1>4, <1>5 DEF ConfirmInv, ClaimInv
<1>8. OrderInv'
  BY <1>2, <1>5 DEF OrderInv
<1> QED BY <1>6, <1>7, <1>8

LEMMA GrowsOldKeeps ==
    ASSUME PlacementInv, NEW q \in Quotations, GrowsOld(q)
    PROVE  PlacementInv'
<1>1. /\ UNCHANGED <<total, confirmed, call, orders, outbox, claim, pc, reply, answer, failures>>
      /\ old' \subseteq Quotations /\ calm' \subseteq Requests
  BY DEF GrowsOld, database, client, PlacementInv, TypeOK
<1> QED BY <1>1, SameTotal DEF PlacementInv, TypeOK, ConfirmInv, ClaimInv, OrderInv

\* What a request does by itself, while it has nothing in the database.
LEMMA HandlerKeeps ==
    ASSUME PlacementInv, NEW r \in Requests, ClientTypeOK', Alone(r),
           UNCHANGED <<total, confirmed, old, orders, outbox, claim>>,
           calm' \subseteq Requests, failures' \in 0..MaxFailures,
           call' \in [Requests -> {"none", "asked", "valid", "confirmed", "conflict",
                                  "expired", "failed"}],
           \A s \in Requests \ {r} : call'[s] = call[s],
           pc[r] \notin {"commit", "indoubt"}, pc'[r] \notin {"commit", "indoubt"},
           pc'[r] \in {"confirm", "create", "insert"} => Checked(r),
           pc'[r] \in {"create", "insert"} => confirmed[Wants[r]] = Wants[r],
           call'[r] \in {"asked", "valid"} => Checked(r),
           call'[r] = "confirmed" => confirmed[Wants[r]] = Wants[r],
           reply'[r] = "created" =>
             /\ pc'[r] = "done" /\ orders[Wants[r]] # None
             /\ Checked(r) /\ answer'[r] = OrderOf(r)
    PROVE  PlacementInv'
<1>1. TypeOK'
  BY DEF PlacementInv, TypeOK, ClientTypeOK
<1>2. ConfirmInv'
  BY SameTotal DEF PlacementInv, ConfirmInv, Alone
<1>3. ClaimInv'
  BY DEF PlacementInv, TypeOK, ClaimInv, Alone
<1>4. OrderInv'
  <2>1. \A s \in Requests : reply'[s] = "created" =>
          /\ pc'[s] = "done" /\ orders'[Wants[s]] # None
          /\ Checked(s)' /\ answer'[s] = OrderOf(s)'
    BY SameTotal DEF PlacementInv, OrderInv, Alone
  <2> QED BY <2>1, SameTotal DEF PlacementInv, OrderInv, OrderIds
<1> QED BY <1>1, <1>2, <1>3, <1>4 DEF PlacementInv

\* What has been checked holds at every place beyond the checks, and an answer
\* of 201 is the last thing a request does.
LEMMA AtWork ==
    ASSUME PlacementInv, NEW r \in Requests
    PROVE  /\ pc[r] \in {"confirm", "create", "insert", "commit", "indoubt"} => Checked(r)
           /\ pc[r] \in {"create", "insert", "commit", "indoubt"} =>
                confirmed[Wants[r]] = Wants[r]
           /\ pc[r] # "done" => reply[r] # "created"
           /\ call[r] \in {"asked", "valid"} => Checked(r)
           /\ call[r] = "confirmed" => confirmed[Wants[r]] = Wants[r]
BY DEF PlacementInv, ConfirmInv, OrderInv

LEMMA StartKeeps ==
    ASSUME PlacementInv, NEW r \in Requests, Start(r)
    PROVE  PlacementInv'
<1>1. /\ pc[r] = "new"
      /\ UNCHANGED <<total, confirmed, old, call, orders, outbox, claim, failures>>
      /\ calm' \subseteq Requests
  BY DEF Start, quotation, database, PlacementInv, TypeOK
<1>2. CASE Answer(r, "invalid", None)
  BY <1>1, <1>2, AnswerKeeps, AtWork, HandlerKeeps DEF PlacementInv, Replies, TypeOK
<1>3. CASE Continue(r, "read")
  BY <1>1, <1>3, ContinueKeeps, AtWork, HandlerKeeps DEF PlacementInv, TypeOK
<1> QED BY <1>2, <1>3 DEF Start

LEMMA GetQuotationKeeps ==
    ASSUME PlacementInv, NEW r \in Requests, GetQuotation(r)
    PROVE  PlacementInv'
<1>1. /\ pc[r] = "read"
      /\ UNCHANGED <<total, confirmed, old, orders, outbox, claim, failures, calm>>
  BY DEF GetQuotation, database
<1>2. CASE \E a \in {"notFound", "mismatch"} : Answer(r, a, None) /\ UNCHANGED call
  BY <1>1, <1>2, AnswerKeeps, AtWork, HandlerKeeps DEF PlacementInv, Replies, TypeOK
<1>3. CASE /\ Continue(r, "confirm") /\ call' = [call EXCEPT ![r] = "asked"]
           /\ Checked(r)
  <2>1. /\ call' \in [Requests -> {"none", "asked", "valid", "confirmed", "conflict",
                                   "expired", "failed"}]
        /\ call'[r] = "asked" /\ \A s \in Requests \ {r} : call'[s] = call[s]
    BY <1>3 DEF PlacementInv, TypeOK
  <2> QED BY <1>1, <1>3, <2>1, ContinueKeeps, AtWork, HandlerKeeps DEF PlacementInv, TypeOK
<1> QED BY <1>2, <1>3 DEF GetQuotation, Checked

\* A failure is counted.
LEMMA FailsKeeps ==
    ASSUME TypeOK, NEW R, Fails(R)
    PROVE  failures' \in 0..MaxFailures /\ calm' \subseteq Requests
BY PlacementAssumption DEF TypeOK, Fails

LEMMA DependencyFailsKeeps ==
    ASSUME PlacementInv, NEW r \in Requests, DependencyFails(r)
    PROVE  PlacementInv'
<1>1. /\ pc[r] \in {"read", "confirm"} /\ Answer(r, "dependency", None)
      /\ UNCHANGED <<total, confirmed, old, orders, outbox, claim>>
      /\ failures' \in 0..MaxFailures /\ calm' \subseteq Requests
  BY FailsKeeps DEF DependencyFails, database, PlacementInv
<1>2. /\ call' \in [Requests -> {"none", "asked", "valid", "confirmed", "conflict",
                                 "expired", "failed"}]
      /\ call'[r] \in {call[r], "failed"} /\ \A s \in Requests \ {r} : call'[s] = call[s]
  BY DEF DependencyFails, PlacementInv, TypeOK
<1>3. "dependency" \in Replies
  BY DEF Replies
<1> QED BY <1>1, <1>2, <1>3, AnswerKeeps, AtWork, HandlerKeeps DEF PlacementInv

LEMMA CheckAgeKeeps ==
    ASSUME PlacementInv, NEW r \in Requests, CheckAge(r)
    PROVE  PlacementInv'
<1>1. /\ call[r] = "asked" /\ Checked(r)
      /\ UNCHANGED <<total, confirmed, old, orders, outbox, claim, pc, reply, answer,
                     failures, calm>>
  BY AtWork DEF CheckAge, database, client
<1>2. /\ call' \in [Requests -> {"none", "asked", "valid", "confirmed", "conflict",
                                 "expired", "failed"}]
      /\ call'[r] \in {"valid", "expired"} /\ \A s \in Requests \ {r} : call'[s] = call[s]
  BY DEF CheckAge, PlacementInv, TypeOK
<1>3. TypeOK'
  BY <1>1, <1>2 DEF PlacementInv, TypeOK
<1>4. ConfirmInv'
  BY <1>1, <1>2, SameTotal DEF PlacementInv, ConfirmInv
<1>5. ClaimInv' /\ OrderInv'
  BY <1>1, SameTotal DEF PlacementInv, ClaimInv, OrderInv
<1> QED BY <1>3, <1>4, <1>5 DEF PlacementInv

LEMMA ConfirmKeeps ==
    ASSUME PlacementInv, NEW r \in Requests, Confirm(r)
    PROVE  PlacementInv'
<1>1. /\ call[r] = "valid" /\ Checked(r) /\ Wants[r] \in Quotations
      /\ UNCHANGED <<total, old, orders, outbox, claim, pc, reply, answer, failures, calm>>
  BY AtWork, WhatIsWanted DEF Confirm, database, client
<1>2. /\ call' \in [Requests -> {"none", "asked", "valid", "confirmed", "conflict",
                                 "expired", "failed"}]
      /\ call'[r] \in {"confirmed", "conflict"}
      /\ \A s \in Requests \ {r} : call'[s] = call[s]
  BY DEF Confirm, PlacementInv, TypeOK
<1>3. /\ confirmed' \in [Quotations -> OrderIds \cup {None}]
      /\ confirmed'[Wants[r]] = Wants[r] \/ confirmed'[Wants[r]] = confirmed[Wants[r]]
      /\ call'[r] = "confirmed" => confirmed'[Wants[r]] = Wants[r]
      /\ \A q \in Quotations \ {Wants[r]} : confirmed'[q] = confirmed[q]
  BY <1>1, WhatIsWanted DEF Confirm, PlacementInv, TypeOK
<1>4. \A q \in Quotations : confirmed[q] = q => confirmed'[q] = q
  BY <1>3
<1>5. TypeOK'
  BY <1>1, <1>2, <1>3 DEF PlacementInv, TypeOK
<1>6. ConfirmInv'
  <2>1. \A s \in Requests : call'[s] = "confirmed" => confirmed'[Wants[s]] = Wants[s]
    BY <1>2, <1>3, <1>4, WhatIsWanted DEF PlacementInv, ConfirmInv
  <2>2. \A q \in Quotations : confirmed'[q] # None => confirmed'[q] = q /\ total'[q] # None
    BY <1>1, <1>3 DEF PlacementInv, ConfirmInv, Checked
  <2> QED BY <1>1, <1>2, <1>4, <2>1, <2>2, SameTotal, WhatIsWanted DEF PlacementInv, ConfirmInv
<1>7. ClaimInv' /\ OrderInv'
  <2>1. ClaimInv'
    BY <1>1 DEF PlacementInv, ClaimInv
  <2>2. \A o \in OrderIds : orders[o] # None => confirmed'[o] = o
    BY <1>4, WhatIsWanted DEF PlacementInv, OrderInv
  <2> QED BY <1>1, <2>1, <2>2, SameTotal DEF PlacementInv, OrderInv
<1> QED BY <1>5, <1>6, <1>7 DEF PlacementInv

LEMMA ConfirmQuotationKeeps ==
    ASSUME PlacementInv, NEW r \in Requests, ConfirmQuotation(r)
    PROVE  PlacementInv'
<1>1. /\ pc[r] = "confirm" /\ Checked(r)
      /\ UNCHANGED <<total, confirmed, old, call, orders, outbox, claim, failures, calm>>
  BY AtWork DEF ConfirmQuotation, quotation, database
<1>2. CASE call[r] = "confirmed" /\ Continue(r, "create")
  BY <1>1, <1>2, ContinueKeeps, AtWork, HandlerKeeps DEF PlacementInv, TypeOK
<1>3. CASE \E a \in {"conflict", "dependency"} : Answer(r, a, None)
  BY <1>1, <1>3, AnswerKeeps, AtWork, HandlerKeeps DEF PlacementInv, Replies, TypeOK
<1> QED BY <1>2, <1>3 DEF ConfirmQuotation

LEMMA SelectOrderKeeps ==
    ASSUME PlacementInv, NEW r \in Requests, SelectOrder(r)
    PROVE  PlacementInv'
<1>1. /\ pc[r] = "create" /\ Checked(r) /\ confirmed[Wants[r]] = Wants[r]
      /\ UNCHANGED <<total, confirmed, old, call, orders, outbox, claim, failures, calm>>
  BY AtWork DEF SelectOrder, quotation, database
<1>2. CASE Continue(r, "insert")
  BY <1>1, <1>2, ContinueKeeps, AtWork, HandlerKeeps DEF PlacementInv, TypeOK
<1>3. CASE Answer(r, "created", OrderOf(r)) /\ orders[Wants[r]] # None
  <2>1. "created" \in Replies /\ OrderOf(r) \in OrderRows \cup {None}
    BY <1>1, OrderOfIsTyped DEF Replies, PlacementInv
  <2>2. /\ ClientTypeOK' /\ Alone(r)
        /\ pc'[r] = "done" /\ reply'[r] = "created" /\ answer'[r] = OrderOf(r)
    BY <1>3, <2>1, AnswerKeeps DEF PlacementInv
  <2> QED BY <1>1, <1>3, <2>2, AtWork, HandlerKeeps DEF PlacementInv, TypeOK
<1>4. CASE Answer(r, "conflict", None)
  BY <1>1, <1>4, AnswerKeeps, AtWork, HandlerKeeps DEF PlacementInv, Replies, TypeOK
<1> QED BY <1>2, <1>3, <1>4, WhatIsWanted DEF SelectOrder

LEMMA InsertOrderKeeps ==
    ASSUME PlacementInv, NEW r \in Requests, InsertOrder(r)
    PROVE  PlacementInv'
<1>1. /\ pc[r] = "insert" /\ Checked(r) /\ confirmed[Wants[r]] = Wants[r]
      /\ UNCHANGED <<total, confirmed, old, call, orders, outbox, failures, calm>>
      /\ Wants[r] \in OrderIds /\ r # None
  BY AtWork, WhatIsWanted DEF InsertOrder, quotation, database
<1>2. CASE UNCHANGED claim /\ \E a \in {"error", "conflict"} : Answer(r, a, None)
  BY <1>1, <1>2, AnswerKeeps, AtWork, HandlerKeeps DEF PlacementInv, Replies, TypeOK
<1>3. CASE /\ ~Undecided(r) /\ SameKey(r) = {}
           /\ claim' = [claim EXCEPT ![orderID(r)] = r] /\ Continue(r, "commit")
  <2>1. orders[Wants[r]] = None
    BY <1>1, <1>3, WhatIsWanted DEF SameKey
  <2>2. claim[Wants[r]] = None
    BY <1>1, <1>3 DEF Undecided, About, PlacementInv, ClaimInv, TypeOK
  <2>3. /\ claim' \in [OrderIds -> Requests \cup {None}]
        /\ claim'[Wants[r]] = r
        /\ \A o \in OrderIds \ {Wants[r]} : claim'[o] = claim[o]
    BY <1>1, <1>3, WhatIsWanted DEF PlacementInv, TypeOK
  <2>4. /\ ClientTypeOK' /\ Alone(r)
        /\ pc'[r] = "commit" /\ reply'[r] = reply[r] /\ answer'[r] = answer[r]
    BY <1>3, ContinueKeeps DEF PlacementInv
  <2>5. TypeOK'
    BY <1>1, <2>3, <2>4 DEF PlacementInv, TypeOK, ClientTypeOK
  <2>6. ConfirmInv'
    BY <1>1, <2>4, SameTotal DEF PlacementInv, ConfirmInv, Alone
  <2>7. \A s \in Requests \ {r} : pc'[s] \in {"commit", "indoubt"} =>
          Wants[s] # Wants[r] /\ claim'[Wants[s]] = s
    <3>1. \A s \in Requests \ {r} : pc'[s] \in {"commit", "indoubt"} => claim[Wants[s]] = s
      BY <2>4 DEF PlacementInv, ClaimInv, Alone
    <3> QED BY <2>2, <2>3, <3>1, WhatIsWanted
  <2>8. \A o \in OrderIds : claim'[o] # None =>
          /\ o = Wants[claim'[o]] /\ pc'[claim'[o]] \in {"commit", "indoubt"}
          /\ orders'[o] = None
    <3> SUFFICES ASSUME NEW o \in OrderIds, claim'[o] # None
                 PROVE  /\ o = Wants[claim'[o]] /\ pc'[claim'[o]] \in {"commit", "indoubt"}
                        /\ orders'[o] = None
      OBVIOUS
    <3>1. CASE o = Wants[r]
      BY <1>1, <2>1, <2>3, <2>4, <3>1
    <3>2. CASE o # Wants[r]
      <4>1. claim'[o] = claim[o] /\ claim[o] \in Requests /\ claim[o] # r
        BY <2>3, <3>2 DEF PlacementInv, TypeOK, ClaimInv
      <4> QED BY <1>1, <2>4, <4>1 DEF PlacementInv, ClaimInv, Alone
    <3> QED BY <3>1, <3>2
  <2>9. ClaimInv'
    BY <2>3, <2>4, <2>7, <2>8 DEF ClaimInv
  <2>10. OrderInv'
    <3>1. reply'[r] # "created"
      BY <1>1, <2>4, AtWork
    <3> QED BY <1>1, <2>4, <3>1, SameTotal DEF PlacementInv, OrderInv, Alone
  <2> QED BY <2>5, <2>6, <2>9, <2>10 DEF PlacementInv
<1> QED BY <1>2, <1>3 DEF InsertOrder

\* The claims that are left when the transaction of r is over.
LEMMA ClaimsKeep ==
    ASSUME PlacementInv, NEW r \in Requests, Release({r}), Alone(r), pc'[r] = "done",
           \A o \in OrderIds : o # Wants[r] \/ claim[o] # r => orders'[o] = orders[o]
    PROVE  ClaimInv'
<1>1. \A o \in OrderIds : claim'[o] = IF claim[o] = r THEN None ELSE claim[o]
  BY ReleaseKeeps DEF PlacementInv
<1>2. \A o \in OrderIds : claim[o] \in Requests \cup {None}
  BY DEF PlacementInv, TypeOK
<1>3. \A o \in OrderIds : claim'[o] # None =>
        /\ o = Wants[claim'[o]] /\ pc'[claim'[o]] \in {"commit", "indoubt"}
        /\ orders'[o] = None
  BY <1>1, <1>2 DEF PlacementInv, ClaimInv, Alone
<1>4. \A s \in Requests : pc'[s] \in {"commit", "indoubt"} => claim'[Wants[s]] = s
  BY <1>1, WhatIsWanted DEF PlacementInv, ClaimInv, Alone
<1> QED BY <1>3, <1>4 DEF ClaimInv

\* The transaction of r is committed.
LEMMA WrittenKeeps ==
    ASSUME PlacementInv, NEW r \in Requests, pc[r] \in {"commit", "indoubt"},
           Effects(r), Release({r}), ClientTypeOK', Alone(r), pc'[r] = "done",
           reply'[r] = "created" => answer'[r] = OrderOf(r),
           UNCHANGED <<quotation, failures, calm>>
    PROVE  PlacementInv'
<1>1. /\ Checked(r) /\ confirmed[Wants[r]] = Wants[r] /\ Wants[r] \in OrderIds
      /\ UNCHANGED <<total, confirmed, old, call>>
      /\ claim[Wants[r]] = r /\ orders[Wants[r]] = None
  BY AtWork, WhatIsWanted DEF quotation, PlacementInv, ClaimInv
<1>2. /\ orders' \in [OrderIds -> OrderRows \cup {None}]
      /\ outbox' \subseteq Requests /\ outbox' = outbox \cup {r}
      /\ orders'[Wants[r]] = OrderOf(r)
      /\ \A o \in OrderIds \ {Wants[r]} : orders'[o] = orders[o]
  BY <1>1, EffectsKeep DEF PlacementInv
<1>3. claim' \in [OrderIds -> Requests \cup {None}]
  BY ReleaseKeeps DEF PlacementInv
<1>4. OrderOf(r) # None /\ OrderOf(r).by = r /\ OrderOf(r)' = OrderOf(r) /\ Checked(r)'
  BY <1>1, OrderOfIsTyped, SameTotal DEF PlacementInv
<1>5. TypeOK'
  BY <1>1, <1>2, <1>3 DEF PlacementInv, TypeOK, ClientTypeOK
<1>6. ConfirmInv'
  BY <1>1, SameTotal DEF PlacementInv, ConfirmInv, Alone
<1>7. ClaimInv'
  BY <1>1, <1>2, ClaimsKeep
<1>8. OrderInv'
  <2>1. ASSUME NEW o \in OrderIds, orders'[o] # None
        PROVE  \E s \in Requests :
                 /\ orders'[o].by = s /\ o = Wants[s] /\ orders'[o] = OrderOf(s)
                 /\ Checked(s) /\ confirmed'[o] = o /\ s \in outbox'
    <3>1. CASE o = Wants[r]
      BY <1>1, <1>2, <1>4, <3>1
    <3>2. CASE o # Wants[r]
      BY <1>1, <1>2, <2>1, <3>2 DEF PlacementInv, OrderInv
    <3> QED BY <3>1, <3>2
  <2>2. \A s \in outbox' : orders'[Wants[s]] # None /\ orders'[Wants[s]].by = s
    <3>1. \A s \in outbox : Wants[s] # Wants[r]
      BY <1>1 DEF PlacementInv, OrderInv
    <3> QED BY <1>2, <1>4, <3>1, WhatIsWanted DEF PlacementInv, OrderInv, TypeOK
  <2>3. \A s \in Requests : reply'[s] = "created" =>
          /\ pc'[s] = "done" /\ orders'[Wants[s]] # None
          /\ Checked(s)' /\ answer'[s] = OrderOf(s)'
    <3> SUFFICES ASSUME NEW s \in Requests, reply'[s] = "created"
                 PROVE  /\ pc'[s] = "done" /\ orders'[Wants[s]] # None
                        /\ Checked(s)' /\ answer'[s] = OrderOf(s)'
      OBVIOUS
    <3>1. CASE s = r
      BY <1>2, <1>4, <3>1
    <3>2. CASE s # r
      <4>1. /\ pc'[s] = "done" /\ answer'[s] = OrderOf(s) /\ Checked(s)
            /\ orders[Wants[s]] # None
        BY <3>2 DEF PlacementInv, OrderInv, Alone
      <4>2. orders'[Wants[s]] # None
        BY <1>2, <1>4, <4>1, WhatIsWanted
      <4> QED BY <1>1, <4>1, <4>2, SameTotal
    <3> QED BY <3>1, <3>2
  <2>4. \A o \in OrderIds : orders'[o] # None =>
          /\ orders'[o].by \in Requests /\ o = Wants[orders'[o].by]
          /\ (orders[o] = OrderOf(orders[o].by))'
          /\ Checked(orders[o].by)' /\ confirmed'[o] = o
          /\ orders'[o].by \in outbox'
    <3> SUFFICES ASSUME NEW o \in OrderIds, orders'[o] # None
                 PROVE  /\ orders'[o].by \in Requests /\ o = Wants[orders'[o].by]
                        /\ (orders[o] = OrderOf(orders[o].by))'
                        /\ Checked(orders[o].by)' /\ confirmed'[o] = o
                        /\ orders'[o].by \in outbox'
      OBVIOUS
    <3>1. PICK s \in Requests :
            /\ orders'[o].by = s /\ o = Wants[s] /\ orders'[o] = OrderOf(s)
            /\ Checked(s) /\ confirmed'[o] = o /\ s \in outbox'
      BY <2>1
    <3>2. Checked(orders[o].by)'
      BY <1>1, <3>1 DEF Checked
    <3>3. OrderOf(orders[o].by)' = OrderOf(s)
      BY <1>1, <3>1 DEF OrderOf
    <3> QED BY <3>1, <3>2, <3>3
  <2> QED BY <2>2, <2>3, <2>4 DEF OrderInv
<1> QED BY <1>5, <1>6, <1>7, <1>8 DEF PlacementInv

\* The transaction of r is rolled back.
LEMMA RolledBackKeeps ==
    ASSUME PlacementInv, NEW r \in Requests,
           UNCHANGED <<quotation, database>>, Release({r}),
           ClientTypeOK', Alone(r), pc'[r] = "done", reply'[r] # "created",
           failures' \in 0..MaxFailures, calm' \subseteq Requests
    PROVE  PlacementInv'
<1>1. UNCHANGED <<total, confirmed, old, call, orders, outbox>>
  BY DEF quotation, database
<1>2. TypeOK'
  BY <1>1, ReleaseKeeps DEF PlacementInv, TypeOK, ClientTypeOK
<1>3. ConfirmInv'
  BY <1>1, SameTotal DEF PlacementInv, ConfirmInv, Alone
<1>4. ClaimInv'
  BY <1>1, ClaimsKeep
<1>5. OrderInv'
  BY <1>1, SameTotal DEF PlacementInv, OrderInv, Alone
<1> QED BY <1>2, <1>3, <1>4, <1>5 DEF PlacementInv

LEMMA CommitOrderKeeps ==
    ASSUME PlacementInv, NEW r \in Requests, CommitOrder(r)
    PROVE  PlacementInv'
<1>1. pc[r] = "commit" /\ Effects(r) /\ Release({r}) /\ Checked(r)
      /\ Answer(r, "created", OrderOf(r)) /\ UNCHANGED <<quotation, failures, calm>>
  BY AtWork DEF CommitOrder
<1>2. "created" \in Replies /\ OrderOf(r) \in OrderRows \cup {None}
  BY <1>1, OrderOfIsTyped DEF Replies, PlacementInv
<1>3. /\ ClientTypeOK' /\ Alone(r)
      /\ pc'[r] = "done" /\ reply'[r] = "created" /\ answer'[r] = OrderOf(r)
  BY <1>1, <1>2, AnswerKeeps DEF PlacementInv
<1> QED BY <1>1, <1>3, WrittenKeeps

LEMMA UnacknowledgedKeeps ==
    ASSUME PlacementInv, NEW r \in Requests, CommitUnacknowledged(r)
    PROVE  PlacementInv'
<1>1. /\ pc[r] = "commit" /\ Checked(r) /\ confirmed[Wants[r]] = Wants[r]
      /\ UNCHANGED <<total, confirmed, old, call, orders, outbox, claim, answer>>
      /\ failures' \in 0..MaxFailures /\ calm' \subseteq Requests
  BY AtWork, FailsKeeps DEF CommitUnacknowledged, quotation, database, PlacementInv
<1>2. /\ ClientTypeOK' /\ Alone(r) /\ pc'[r] = "indoubt" /\ reply'[r] = "error"
  BY DEF CommitUnacknowledged, PlacementInv, TypeOK, ClientTypeOK, Alone, Replies
<1>3. TypeOK'
  BY <1>1, <1>2 DEF PlacementInv, TypeOK, ClientTypeOK
<1>4. ConfirmInv'
  BY <1>1, <1>2, SameTotal DEF PlacementInv, ConfirmInv, Alone
<1>5. ClaimInv'
  BY <1>1, <1>2 DEF PlacementInv, TypeOK, ClaimInv, Alone
<1>6. OrderInv'
  BY <1>1, <1>2, SameTotal DEF PlacementInv, OrderInv, Alone
<1> QED BY <1>3, <1>4, <1>5, <1>6 DEF PlacementInv

LEMMA DecideKeeps ==
    ASSUME PlacementInv, NEW r \in Requests, Decide(r)
    PROVE  PlacementInv'
<1>1. /\ pc[r] = "indoubt" /\ Release({r}) /\ pc' = [pc EXCEPT ![r] = "done"]
      /\ UNCHANGED <<quotation, reply, answer, failures, calm>>
  BY DEF Decide, client
<1>2. ClientTypeOK' /\ Alone(r) /\ pc'[r] = "done" /\ reply'[r] # "created"
  BY <1>1, AtWork DEF PlacementInv, TypeOK, ClientTypeOK, Alone
<1>3. CASE Effects(r)
  BY <1>1, <1>2, <1>3, WrittenKeeps
<1>4. CASE UNCHANGED database
  BY <1>1, <1>2, <1>4, RolledBackKeeps DEF PlacementInv, TypeOK
<1> QED BY <1>3, <1>4 DEF Decide

LEMMA StatementFailsKeeps ==
    ASSUME PlacementInv, NEW r \in Requests, StatementFails(r)
    PROVE  PlacementInv'
<1>1. /\ Release({r}) /\ Answer(r, "error", None) /\ UNCHANGED <<quotation, database>>
      /\ failures' \in 0..MaxFailures /\ calm' \subseteq Requests
  BY FailsKeeps DEF StatementFails, PlacementInv
<1>2. ClientTypeOK' /\ Alone(r) /\ pc'[r] = "done" /\ reply'[r] = "error"
  BY <1>1, AnswerKeeps DEF Replies, PlacementInv
<1> QED BY <1>1, <1>2, RolledBackKeeps

LEMMA CrashKeeps == ASSUME PlacementInv, Crash PROVE PlacementInv'
<1> DEFINE Lost == {r \in Active : pc[r] # "indoubt"}
<1>1. /\ UNCHANGED <<total, confirmed, old, call, orders, outbox, claim, answer>>
      /\ failures' \in 0..MaxFailures /\ calm' \subseteq Requests
  BY FailsKeeps DEF Crash, quotation, database, PlacementInv
<1>2. /\ reply' = [r \in Requests |-> IF r \in Lost THEN "lost" ELSE reply[r]]
      /\ pc' = [r \in Requests |->
             IF r \notin Lost THEN pc[r]
             ELSE IF pc[r] = "commit" THEN "indoubt" ELSE "done"]
  BY DEF Crash
<1>3. \A r \in Requests : r \in Lost <=> pc[r] \notin {"new", "done", "indoubt"}
  BY DEF Active
<1> HIDE DEF Lost
<1>4. \A r \in Requests :
        \/ pc'[r] = pc[r] /\ reply'[r] = reply[r] /\ pc[r] # "commit"
        \/ pc[r] = "commit" /\ pc'[r] = "indoubt" /\ reply'[r] = "lost"
        \/ pc[r] # "commit" /\ pc[r] # "indoubt" /\ pc'[r] = "done" /\ reply'[r] = "lost"
  BY <1>2, <1>3
<1>5. TypeOK'
  BY <1>1, <1>2, <1>4 DEF PlacementInv, TypeOK, Replies
<1>6. ConfirmInv'
  BY <1>1, <1>4, SameTotal DEF PlacementInv, ConfirmInv
<1>7. ClaimInv'
  BY <1>1, <1>4 DEF PlacementInv, TypeOK, ClaimInv
<1>8. OrderInv'
  BY <1>1, <1>4, SameTotal DEF PlacementInv, OrderInv
<1> QED BY <1>5, <1>6, <1>7, <1>8 DEF PlacementInv

LEMMA PlacementInvStep == ASSUME PlacementInv, [Next]_vars PROVE PlacementInv'
<1>1. CASE \E q \in Quotations : Offer(q) \/ GrowsOld(q)
  BY <1>1, OfferKeeps, GrowsOldKeeps
<1>2. ASSUME NEW r \in Requests, Step(r)
      PROVE  PlacementInv'
  BY <1>2, StartKeeps, GetQuotationKeeps, DependencyFailsKeeps, CheckAgeKeeps,
     ConfirmKeeps, ConfirmQuotationKeeps, SelectOrderKeeps, InsertOrderKeeps,
     CommitOrderKeeps, UnacknowledgedKeeps, DecideKeeps, StatementFailsKeeps DEF Step
<1>3. CASE UNCHANGED vars
  <2>1. UNCHANGED <<total, confirmed, old, call, orders, outbox, claim, pc, reply, answer,
                    failures, calm>>
    BY <1>3 DEF vars, quotation, database, client
  <2> QED BY <2>1, SameTotal DEF PlacementInv, TypeOK, ConfirmInv, ClaimInv, OrderInv
<1> QED BY <1>1, <1>2, <1>3, CrashKeeps DEF Next

-----------------------------------------------------------------------------
\* An id stands for one quotation, a claim for one request, and an order for
\* the request that made it up.
THEOREM PlacementIsSafe == Spec => []PlacementInv
<1> QED BY PlacementInvInit, PlacementInvStep, PTL DEF Spec

\* The columns hold what their types allow.
THEOREM PlacementTypeCorrect == Spec => []TypeOK
<1>1. PlacementInv => TypeOK
  BY DEF PlacementInv
<1> QED BY <1>1, PlacementIsSafe, PTL

LEMMA OneOrder ==
    ASSUME PlacementInv, NEW q \in Quotations
    PROVE  /\ q \in OrderIds
           /\ OrdersOf(q) = IF orders[q] = None THEN {} ELSE {q}
<1>1. \A o \in OrderIds : orders[o] # None => orders[o].quotation = o
  BY OrderOfIsTyped DEF PlacementInv, OrderInv
<1> QED BY <1>1 DEF OrdersOf, OrderIds

LEMMA SoundOrders == ASSUME PlacementInv PROVE OrderIsSound
<1> SUFFICES ASSUME NEW q \in Quotations
             PROVE  /\ Cardinality(OrdersOf(q)) <= 1
                    /\ outbox \cap About(q) = {orders[o].by : o \in OrdersOf(q)}
                    /\ \A o \in OrdersOf(q) :
                         /\ confirmed[q] = o
                         /\ orders[o].customer = Owner[q]
                         /\ orders[o].total = total[q]
                         /\ orders[o].deposit = (70 * total[q]) \div 100
                         /\ orders[o].deposit + orders[o].remaining = total[q]
  BY DEF OrderIsSound
<1>1. CASE orders[q] = None
  <2>1. OrdersOf(q) = {} /\ Cardinality(OrdersOf(q)) = 0
    BY <1>1, OneOrder, FS_EmptySet
  <2>2. outbox \cap About(q) = {}
    BY <1>1 DEF About, PlacementInv, OrderInv
  <2> QED BY <2>1, <2>2
<1>2. CASE orders[q] # None
  <2>1. q \in OrderIds /\ OrdersOf(q) = {q} /\ Cardinality(OrdersOf(q)) = 1
    BY <1>2, OneOrder, FS_Singleton
  <2>2. PICK r \in Requests :
          /\ orders[q].by = r /\ q = Wants[r] /\ orders[q] = OrderOf(r)
          /\ Checked(r) /\ confirmed[q] = q /\ r \in outbox
    BY <1>2, <2>1 DEF PlacementInv, OrderInv
  <2>3. outbox \cap About(q) = {r}
    BY <2>2 DEF About, PlacementInv, OrderInv
  <2> QED BY <2>1, <2>2, <2>3, OrderOfIsTyped DEF PlacementInv
<1> QED BY <1>1, <1>2

\* A quotation has one order at most, with one event, for its customer, at its
\* total, 70 percent of it to be paid first; whatever fails on the way.
THEOREM OrdersAreSound == Spec => []OrderIsSound
<1> QED BY SoundOrders, PlacementIsSafe, PTL

LEMMA StoredOrders == ASSUME PlacementInv PROVE CreatedIsStored
<1> SUFFICES ASSUME NEW r \in Requests, reply[r] = "created"
             PROVE  \E o \in OrderIds :
                      /\ orders[o] # None
                      /\ orders[o].quotation = Wants[r]
                      /\ orders[o].customer = answer[r].customer
                      /\ orders[o].total = answer[r].total
                      /\ orders[o].deposit = answer[r].deposit
                      /\ orders[o].remaining = answer[r].remaining
  BY DEF CreatedIsStored
<1>1. /\ orders[Wants[r]] # None /\ Checked(r) /\ answer[r] = OrderOf(r)
      /\ Wants[r] \in OrderIds
  BY WhatIsWanted DEF PlacementInv, OrderInv
<1>2. PICK s \in Requests : /\ Wants[r] = Wants[s] /\ orders[Wants[r]] = OrderOf(s)
                           /\ Checked(s)
  BY <1>1 DEF PlacementInv, OrderInv
<1>3. /\ OrderOf(s).quotation = Wants[r]
      /\ OrderOf(s).customer = OrderOf(r).customer
      /\ OrderOf(s).total = OrderOf(r).total
      /\ OrderOf(s).deposit = OrderOf(r).deposit
      /\ OrderOf(s).remaining = OrderOf(r).remaining
  BY <1>1, <1>2 DEF OrderOf, Checked
<1> QED BY <1>1, <1>2, <1>3

\* Whoever is told of an order has one, with the amounts he is told.
THEOREM CreatedAreStored == Spec => []CreatedIsStored
<1> QED BY StoredOrders, PlacementIsSafe, PTL

-----------------------------------------------------------------------------
(***************************************************************************)
(* The refinement.  Reserved is confirmed, ordered is in the table.        *)
(***************************************************************************)
StateOf(q) ==
    IF orders[q] # None THEN "ordered"
    ELSE IF confirmed[q] # None THEN "reserved"
    ELSE IF total[q] # None THEN "offered" ELSE "none"

TermsOf(q) == IF orders[q] # None THEN total[q] ELSE None

Mapped ==
    /\ placementState = [q \in Quotations |-> StateOf(q)]
    /\ placementTerms = [q \in Quotations |-> TermsOf(q)]

LEMMA Mapping == PlacementInv => Mapped
<1> SUFFICES ASSUME PlacementInv PROVE Mapped
  OBVIOUS
<1>1. ASSUME NEW q \in Quotations
      PROVE  /\ Ordered(q) <=> orders[q] # None
             /\ orders[q] # None => orders[CHOOSE o \in OrdersOf(q) : TRUE].total = total[q]
  <2>1. CASE orders[q] = None
    BY <2>1, OneOrder DEF Ordered
  <2>2. CASE orders[q] # None
    <3>1. OrdersOf(q) = {q} /\ q \in OrderIds
      BY <2>2, OneOrder
    <3>2. (CHOOSE o \in {q} : TRUE) = q
      OBVIOUS
    <3>3. orders[q].total = total[q]
      BY <2>2, <3>1, OrderOfIsTyped DEF PlacementInv, OrderInv
    <3> QED BY <2>2, <3>1, <3>2, <3>3 DEF Ordered
  <2> QED BY <2>1, <2>2
<1>2. placementState = [q \in Quotations |-> StateOf(q)]
  BY <1>1 DEF placementState, StateOf
<1>3. placementTerms = [q \in Quotations |-> TermsOf(q)]
  BY <1>1 DEF placementTerms, TermsOf
<1> QED BY <1>2, <1>3 DEF Mapped

\* The same after a step.
LEMMA MappingAfter == PlacementInv' => Mapped'
BY Mapping, PTL

\* A step that neither offers, confirms nor orders, and tells nobody, stutters.
LEMMA Stutters ==
    ASSUME PlacementInv, PlacementInv', UNCHANGED <<total, confirmed, orders>>,
           toldOfOrder' = toldOfOrder
    PROVE  UNCHANGED Promise!vars
<1>1. placementState' = placementState /\ placementTerms' = placementTerms
  BY DEF placementState, placementTerms, Ordered, OrdersOf
<1> QED BY <1>1 DEF Promise!vars

\* An answer that is not 201 tells nobody.
LEMMA NobodyTold ==
    ASSUME PlacementInv, NEW r \in Requests, Alone(r),
           reply[r] # "created", reply'[r] # "created"
    PROVE  toldOfOrder' = toldOfOrder
BY DEF toldOfOrder, Alone

LEMMA OfferIsOffer ==
    ASSUME PlacementInv, PlacementInv', NEW q \in Quotations, Offer(q)
    PROVE  Promise!Offer(q)
<1>1. /\ total[q] = None
      /\ \E t \in Totals : total' = [total EXCEPT ![q] = t]
      /\ UNCHANGED <<confirmed, orders, reply>>
  BY DEF Offer, database, client
<1>2. total' \in [Quotations -> Totals \cup {None}] /\ total'[q] # None
      /\ \A p \in Quotations \ {q} : total'[p] = total[p]
  BY <1>1, PlacementAssumption DEF PlacementInv, TypeOK
<1>3. confirmed[q] = None /\ orders[q] = None
  BY <1>1, OneOrder DEF PlacementInv, ConfirmInv, OrderInv, Checked
<1>4. StateOf(q) = "none" /\ StateOf(q)' = "offered"
  BY <1>1, <1>2, <1>3 DEF StateOf
<1>5. \A p \in Quotations \ {q} : StateOf(p)' = StateOf(p)
  BY <1>1, <1>2 DEF StateOf
<1>6. \A p \in Quotations : TermsOf(p)' = TermsOf(p)
  BY <1>1, <1>2, <1>3 DEF TermsOf
<1>7. toldOfOrder' = toldOfOrder
  BY <1>1 DEF toldOfOrder
<1>8. /\ placementState[q] = "none"
      /\ placementState' = [placementState EXCEPT ![q] = "offered"]
  <2>1. /\ placementState = [p \in Quotations |-> StateOf(p)]
        /\ placementState' = [p \in Quotations |-> StateOf(p)']
    BY Mapping, MappingAfter DEF Mapped
  <2> QED BY <1>4, <1>5, <2>1
<1>9. placementTerms' = placementTerms
  <2>1. /\ placementTerms = [p \in Quotations |-> TermsOf(p)]
        /\ placementTerms' = [p \in Quotations |-> TermsOf(p)']
    BY Mapping, MappingAfter DEF Mapped
  <2> QED BY <1>6, <2>1
<1> QED BY <1>1, <1>7, <1>8, <1>9 DEF Promise!Offer

LEMMA ConfirmIsReserve ==
    ASSUME PlacementInv, PlacementInv', NEW r \in Requests, Confirm(r)
    PROVE  Promise!Reserve(Wants[r]) \/ UNCHANGED Promise!vars
<1> DEFINE q == Wants[r]
<1>1. /\ UNCHANGED <<total, orders, reply>> /\ q \in Quotations /\ Checked(r)
  BY AtWork, WhatIsWanted DEF Confirm, database, client
<1>2. toldOfOrder' = toldOfOrder
  BY <1>1 DEF toldOfOrder
<1>3. CASE confirmed' = confirmed
  BY <1>1, <1>2, <1>3, Stutters
<1>4. CASE confirmed' # confirmed
  <2>1. /\ confirmed[q] = None
        /\ confirmed'[q] # None
        /\ \A p \in Quotations \ {q} : confirmed'[p] = confirmed[p]
    BY <1>1, <1>4, WhatIsWanted DEF Confirm, PlacementInv, TypeOK
  <2>2. orders[q] = None
    BY <1>1, <2>1, OneOrder DEF PlacementInv, OrderInv
  <2>3. StateOf(q) = "offered" /\ StateOf(q)' = "reserved"
    BY <1>1, <2>1, <2>2 DEF StateOf, Checked
  <2>4. \A p \in Quotations \ {q} : StateOf(p)' = StateOf(p)
    BY <1>1, <2>1 DEF StateOf
  <2>5. \A p \in Quotations : TermsOf(p)' = TermsOf(p)
    BY <1>1 DEF TermsOf
  <2>6. /\ placementState[q] = "offered"
        /\ placementState' = [placementState EXCEPT ![q] = "reserved"]
    <3>1. /\ placementState = [p \in Quotations |-> StateOf(p)]
          /\ placementState' = [p \in Quotations |-> StateOf(p)']
      BY Mapping, MappingAfter DEF Mapped
    <3> QED BY <1>1, <2>3, <2>4, <3>1
  <2>7. placementTerms' = placementTerms
    <3>1. /\ placementTerms = [p \in Quotations |-> TermsOf(p)]
          /\ placementTerms' = [p \in Quotations |-> TermsOf(p)']
      BY Mapping, MappingAfter DEF Mapped
    <3> QED BY <2>5, <3>1
  <2> QED BY <1>1, <1>2, <2>6, <2>7 DEF Promise!Reserve
<1> QED BY <1>3, <1>4

\* Where the order of r is written, its quotation is ordered.
LEMMA WriteIsOrder ==
    ASSUME PlacementInv, PlacementInv', NEW r \in Requests,
           pc[r] \in {"commit", "indoubt"}, Effects(r), UNCHANGED quotation,
           toldOfOrder' = toldOfOrder \/ toldOfOrder' = toldOfOrder \cup {r}
    PROVE  Promise!Order(Wants[r])
<1> DEFINE q == Wants[r]
<1>1. /\ q \in Quotations /\ q \in OrderIds /\ Checked(r)
      /\ confirmed[q] # None /\ orders[q] = None
      /\ UNCHANGED <<total, confirmed>>
  BY AtWork, WhatIsWanted DEF PlacementInv, ClaimInv, quotation
<1>2. /\ orders'[q] # None
      /\ \A o \in OrderIds \ {q} : orders'[o] = orders[o]
  BY <1>1, EffectsKeep, OrderOfIsTyped DEF PlacementInv
<1>3. StateOf(q) = "reserved" /\ StateOf(q)' = "ordered" /\ TermsOf(q)' = total[q]
  BY <1>1, <1>2 DEF StateOf, TermsOf
<1>4. \A p \in Quotations \ {q} : StateOf(p)' = StateOf(p) /\ TermsOf(p)' = TermsOf(p)
  BY <1>1, <1>2 DEF StateOf, TermsOf, OrderIds
<1>5. /\ placementState[q] = "reserved"
      /\ placementState' = [placementState EXCEPT ![q] = "ordered"]
  <2>1. /\ placementState = [p \in Quotations |-> StateOf(p)]
        /\ placementState' = [p \in Quotations |-> StateOf(p)']
    BY Mapping, MappingAfter DEF Mapped
  <2> QED BY <1>1, <1>3, <1>4, <2>1
<1>6. placementTerms' = [placementTerms EXCEPT ![q] = total[q]]
  <2>1. /\ placementTerms = [p \in Quotations |-> TermsOf(p)]
        /\ placementTerms' = [p \in Quotations |-> TermsOf(p)']
    BY Mapping, MappingAfter DEF Mapped
  <2> QED BY <1>1, <1>3, <1>4, <2>1
<1> QED BY <1>1, <1>5, <1>6 DEF Promise!Order

\* A customer is told of an order that was there before.
LEMMA SelectIsTell ==
    ASSUME PlacementInv, PlacementInv', NEW r \in Requests, SelectOrder(r)
    PROVE  Promise!Tell(r) \/ UNCHANGED Promise!vars
<1>1. /\ UNCHANGED <<total, confirmed, orders>> /\ Wants[r] \in Quotations
      /\ pc[r] = "create" /\ reply[r] # "created" /\ Checked(r)
  BY AtWork, WhatIsWanted DEF SelectOrder, quotation, database
<1>2. CASE Answer(r, "created", OrderOf(r)) /\ orders[Wants[r]] # None
  <2>1. "created" \in Replies /\ OrderOf(r) \in OrderRows \cup {None}
    BY <1>1, OrderOfIsTyped DEF Replies, PlacementInv
  <2>2. toldOfOrder' = toldOfOrder \cup {r}
    BY <1>2, <2>1, AnswerKeeps DEF toldOfOrder, Alone, PlacementInv
  <2>3. placementState[Wants[r]] = "ordered"
    BY <1>1, <1>2, Mapping DEF Mapped, StateOf
  <2>4. placementState' = placementState /\ placementTerms' = placementTerms
    BY <1>1 DEF placementState, placementTerms, Ordered, OrdersOf
  <2> QED BY <1>1, <2>2, <2>3, <2>4 DEF Promise!Tell
<1>3. CASE Continue(r, "insert")
  BY <1>1, <1>3, Stutters DEF Continue, client, toldOfOrder
<1>4. CASE Answer(r, "conflict", None)
  BY <1>1, <1>4, AnswerKeeps, NobodyTold, Stutters DEF Replies, PlacementInv
<1> QED BY <1>2, <1>3, <1>4, WhatIsWanted DEF SelectOrder

LEMMA InitRefines == Init => Promise!Init
<1> SUFFICES ASSUME Init PROVE Promise!Init
  OBVIOUS
<1>1. Mapped
  BY PlacementInvInit, Mapping
<1>2. \A q \in Quotations : q \in OrderIds /\ StateOf(q) = "none" /\ TermsOf(q) = None
  BY DEF Init, StateOf, TermsOf, OrderIds
<1>3. \A r \in Requests : reply[r] # "created"
  BY NoneAssumption DEF Init, Replies
<1> QED BY <1>1, <1>2, <1>3 DEF Promise!Init, Mapped, toldOfOrder, Init

LEMMA StepRefines ==
    PlacementInv /\ PlacementInv' /\ [Next]_vars => [Promise!Next]_Promise!vars
<1> SUFFICES ASSUME PlacementInv, PlacementInv', [Next]_vars
             PROVE  Promise!Next \/ UNCHANGED Promise!vars
  BY DEF Promise!Next
<1>1. ASSUME NEW q \in Quotations, Offer(q) PROVE Promise!Next
  BY <1>1, OfferIsOffer DEF Promise!Next
<1>2. ASSUME NEW q \in Quotations, GrowsOld(q) PROVE UNCHANGED Promise!vars
  BY <1>2, Stutters DEF GrowsOld, database, client, toldOfOrder
<1>3. CASE Crash
  <2>1. \A r \in Requests : reply'[r] = "created" <=> reply[r] = "created"
    BY <1>3, AtWork DEF Crash, Active
  <2> QED BY <1>3, <2>1, Stutters DEF Crash, quotation, database, toldOfOrder
<1>4. CASE UNCHANGED vars
  BY <1>4, Stutters DEF vars, quotation, database, client, toldOfOrder
<1>5. ASSUME NEW r \in Requests, Step(r)
      PROVE  Promise!Next \/ UNCHANGED Promise!vars
  <2>1. Wants[r] \in Quotations
    BY WhatIsWanted
  <2>2. ASSUME pc[r] # "done",
               \E a \in Replies \ {"created"} : Answer(r, a, None)
        PROVE  toldOfOrder' = toldOfOrder
    BY <2>2, AnswerKeeps, AtWork, NobodyTold DEF PlacementInv
  <2>3. ASSUME UNCHANGED reply PROVE toldOfOrder' = toldOfOrder
    BY <2>3 DEF toldOfOrder
  <2>4. CASE Start(r)
    BY <2>2, <2>3, <2>4, Stutters DEF Start, Continue, client, quotation, database, Replies
  <2>5. CASE GetQuotation(r)
    BY <2>2, <2>3, <2>5, Stutters DEF GetQuotation, Continue, client, database, Replies
  <2>6. CASE DependencyFails(r)
    BY <2>2, <2>6, Stutters DEF DependencyFails, database, Replies
  <2>7. CASE CheckAge(r)
    BY <2>3, <2>7, Stutters DEF CheckAge, database, client
  <2>8. CASE Confirm(r)
    BY <2>1, <2>8, ConfirmIsReserve DEF Promise!Next
  <2>9. CASE ConfirmQuotation(r)
    BY <2>2, <2>3, <2>9, Stutters
       DEF ConfirmQuotation, Continue, client, quotation, database, Replies
  <2>10. CASE SelectOrder(r)
    BY <2>10, SelectIsTell DEF Promise!Next
  <2>11. CASE InsertOrder(r)
    BY <2>2, <2>3, <2>11, Stutters
       DEF InsertOrder, Continue, client, quotation, database, Replies
  <2>12. CASE CommitOrder(r)
    <3>1. /\ pc[r] = "commit" /\ Effects(r) /\ UNCHANGED quotation /\ Checked(r)
          /\ Answer(r, "created", OrderOf(r))
      BY <2>12, AtWork DEF CommitOrder
    <3>2. "created" \in Replies /\ OrderOf(r) \in OrderRows \cup {None}
      BY <3>1, OrderOfIsTyped DEF Replies, PlacementInv
    <3>3. toldOfOrder' = toldOfOrder \cup {r}
      BY <3>1, <3>2, AnswerKeeps DEF toldOfOrder, Alone, PlacementInv
    <3> QED BY <2>1, <3>1, <3>3, WriteIsOrder DEF Promise!Next
  <2>13. CASE CommitUnacknowledged(r)
    <3>1. \A s \in Requests : reply'[s] = "created" <=> reply[s] = "created"
      BY <2>13, AtWork DEF CommitUnacknowledged, PlacementInv, TypeOK
    <3> QED BY <2>13, <3>1, Stutters DEF CommitUnacknowledged, quotation, database, toldOfOrder
  <2>14. CASE Decide(r)
    <3>1. CASE Effects(r)
      BY <2>1, <2>3, <2>14, <3>1, WriteIsOrder DEF Decide, client, Promise!Next
    <3>2. CASE UNCHANGED database
      BY <2>3, <2>14, <3>2, Stutters DEF Decide, client, quotation, database
    <3> QED BY <2>14, <3>1, <3>2 DEF Decide
  <2>15. CASE StatementFails(r)
    BY <2>2, <2>15, Stutters DEF StatementFails, quotation, database, Replies
  <2> QED BY <1>5, <2>4, <2>5, <2>6, <2>7, <2>8, <2>9, <2>10, <2>11, <2>12, <2>13,
             <2>14, <2>15 DEF Step
<1> QED BY <1>1, <1>2, <1>3, <1>4, <1>5 DEF Next

\* Through all failures and repeats, and however requests interleave, the two
\* services and their two databases do nothing but offer, reserve and order,
\* once and in this order, and tell of what is there.
THEOREM PlacementIsImplemented == Spec => ImplementsPlacement
<1> QED BY InitRefines, StepRefines, PlacementIsSafe, PTL
        DEF Spec, ImplementsPlacement, Promise!Spec

-----------------------------------------------------------------------------
(***************************************************************************)
(* A request that nothing interferes with.                                 *)
(***************************************************************************)
Undisturbed(r) ==
    /\ pc[r] = "done" => reply[r] = "created"
    /\ pc[r] # "done" =>
         /\ Orderable(r)
         /\ pc[r] \in {"read", "confirm", "create", "insert", "commit"}
         /\ \A s \in Active : Wants[s] = Wants[r] => s = r
         /\ pc[r] = "confirm" => call[r] \in {"asked", "valid", "confirmed"}
         /\ pc[r] \in {"insert", "commit"} => orders[Wants[r]] = None

\* A request is asked for no confirmation before it has read the quotation,
\* and is answered at its end.
Orderly(r) ==
    /\ pc[r] \in {"new", "read"} => call[r] = "none"
    /\ pc[r] \notin {"done", "indoubt"} => reply[r] = None

RetryInv ==
    \A r \in Requests : Orderly(r) /\ (r \in calm => Undisturbed(r))

LEMMA RetryInvInit == Init => RetryInv
BY DEF Init, RetryInv, Orderly

\* A step of s leaves the others as they are.
LEMMA Bystanders ==
    ASSUME PlacementInv, RetryInv, NEW s \in Requests, Alone(s),
           \A x \in Requests \ {s} : call'[x] = call[x],
           UNCHANGED <<total, old>>,
           \A x \in calm' \ {s} : x \in calm,
           s \in Active \/ pc'[s] = pc[s] \/ pc'[s] = "done"
             \/ \A x \in calm' \ {s} : Wants[x] = Wants[s] => pc[x] = "done",
           \A q \in Quotations : orders'[q] = orders[q] \/ (q = Wants[s] /\ s \in Active),
           Orderly(s)', s \in calm' => Undisturbed(s)', calm' \subseteq Requests
    PROVE  RetryInv'
<1>1. \A x \in Requests \ {s} : Orderly(x)'
  BY DEF RetryInv, Orderly, Alone
<1>2. ASSUME NEW x \in calm', x # s
      PROVE  Undisturbed(x)'
  <2>1. /\ x \in calm /\ x \in Requests /\ Undisturbed(x)
        /\ pc'[x] = pc[x] /\ reply'[x] = reply[x] /\ call'[x] = call[x]
        /\ Wants[x] \in Quotations
    BY <1>2, WhatIsWanted DEF RetryInv, Alone
  <2>2. CASE pc[x] = "done"
    BY <2>1, <2>2 DEF Undisturbed
  <2>3. CASE pc[x] # "done"
    <3>1. Wants[s] = Wants[x] => s \notin Active
      BY <1>2, <2>1, <2>3 DEF Undisturbed
    <3>2. Wants[s] = Wants[x] => s \notin Active'
      BY <1>2, <2>3, <3>1 DEF Active
    <3>3. \A y \in Active' : Wants[y] = Wants[x] => y = x
      BY <2>1, <2>3, <3>2 DEF Undisturbed, Active, Alone
    <3>4. orders'[Wants[x]] = orders[Wants[x]]
      BY <2>1, <3>1
    <3>5. Orderable(x)'
      BY <2>1, <2>3 DEF Undisturbed, Orderable
    <3> QED BY <2>1, <2>3, <3>3, <3>4, <3>5 DEF Undisturbed
  <2> QED BY <2>2, <2>3
<1> QED BY <1>1, <1>2 DEF RetryInv

LEMMA StartRetries ==
    ASSUME PlacementInv, RetryInv, NEW r \in Requests, Start(r)
    PROVE  RetryInv'
<1> DEFINE Others == (Active \cap About(Wants[r])) \ {r}
<1>1. /\ pc[r] = "new" /\ reply[r] = None /\ call[r] = "none" /\ r \notin Active
      /\ UNCHANGED <<total, old, call, orders>>
      /\ r \in calm => Undisturbed(r)
  BY DEF Start, quotation, database, RetryInv, Orderly, Active
<1>2. calm' = IF Others = {} /\ Orderable(r) THEN calm \cup {r} ELSE calm \ Others
  BY DEF Start
<1>3. /\ Alone(r) /\ pc'[r] \in {"read", "done"}
      /\ pc'[r] = "read" => reply'[r] = None /\ r \notin Invalid
      /\ pc'[r] = "done" => r \in Invalid
  <2>1. CASE r \in Invalid
    BY <1>1, <2>1, AnswerKeeps DEF Start, Replies, PlacementInv
  <2>2. CASE r \notin Invalid
    BY <1>1, <2>2, ContinueKeeps DEF Start, PlacementInv
  <2> QED BY <2>1, <2>2
<1>4. Orderly(r)'
  BY <1>1, <1>3 DEF Orderly
<1>5. r \notin calm
  BY <1>1 DEF Undisturbed
<1>6. \A x \in calm' \ {r} : x \in calm /\ (Wants[x] = Wants[r] => pc[x] = "done")
  <2>1. ASSUME NEW x \in calm' \ {r}, Wants[x] = Wants[r], pc[x] # "done" PROVE FALSE
    <3>1. x \in calm /\ x \notin Others /\ x \in Requests
      BY <1>2, <2>1 DEF PlacementInv, TypeOK
    <3>2. x \in Active
      BY <2>1, <3>1 DEF RetryInv, Undisturbed, Active
    <3> QED BY <2>1, <3>1, <3>2 DEF About
  <2> QED BY <1>2, <2>1
<1>7. r \in calm' => Undisturbed(r)'
  <2>1. r \in calm' => Others = {} /\ Orderable(r)
    BY <1>2, <1>5
  <2>2. ASSUME r \in calm' PROVE Undisturbed(r)'
    <3>1. pc'[r] = "read" /\ Orderable(r)'
      BY <1>1, <1>3, <2>1, <2>2 DEF Orderable
    <3>2. \A s \in Active' : Wants[s] = Wants[r] => s = r
      BY <1>3, <2>1, <2>2 DEF Active, About, Alone
    <3> QED BY <3>1, <3>2 DEF Undisturbed
  <2> QED BY <2>2
<1>8. calm' \subseteq Requests
  BY <1>2 DEF PlacementInv, TypeOK
<1> QED BY <1>1, <1>3, <1>4, <1>6, <1>7, <1>8, Bystanders

\* An active request of which nothing more is to be seen than what it does next.
LEMMA GoesOn ==
    ASSUME PlacementInv, RetryInv, NEW r \in Requests, r \in calm, pc[r] # "done",
           Alone(r), UNCHANGED <<total, old>>, pc'[r] # "new",
           pc'[r] \in {"read", "confirm", "create", "insert", "commit"},
           pc'[r] = "confirm" => call'[r] \in {"asked", "valid", "confirmed"},
           pc'[r] \in {"insert", "commit"} => orders'[Wants[r]] = None
    PROVE  Undisturbed(r)'
<1>1. Undisturbed(r)
  BY DEF RetryInv
<1>2. \A s \in Active' : Wants[s] = Wants[r] => s = r
  BY <1>1 DEF Undisturbed, Active, Alone
<1>3. Orderable(r)'
  BY <1>1 DEF Undisturbed, Orderable
<1> QED BY <1>1, <1>2, <1>3 DEF Undisturbed

LEMMA GetQuotationRetries ==
    ASSUME PlacementInv, RetryInv, NEW r \in Requests, GetQuotation(r)
    PROVE  RetryInv'
<1>1. /\ pc[r] = "read" /\ r \in Active /\ reply[r] = None
      /\ UNCHANGED <<total, old, orders, calm>> /\ calm' \subseteq Requests
  BY DEF GetQuotation, database, Active, RetryInv, Orderly, PlacementInv, TypeOK
<1>2. \A s \in Requests \ {r} : call'[s] = call[s]
  BY DEF GetQuotation, PlacementInv, TypeOK
<1>3. CASE \E a \in {"notFound", "mismatch"} :
             Answer(r, a, None) /\ ~(total[Wants[r]] # None /\ Asker[r] \in {None, Owner[Wants[r]]})
  <2>1. r \notin calm
    BY <1>1, <1>3 DEF RetryInv, Undisturbed, Orderable
  <2>2. Alone(r) /\ pc'[r] = "done"
    BY <1>3, AnswerKeeps DEF Replies, PlacementInv
  <2> QED BY <1>1, <1>2, <2>1, <2>2, Bystanders DEF Orderly
<1>4. CASE Continue(r, "confirm") /\ call' = [call EXCEPT ![r] = "asked"]
  <2>1. Alone(r) /\ pc'[r] = "confirm" /\ reply'[r] = reply[r] /\ call'[r] = "asked"
    BY <1>4, ContinueKeeps DEF PlacementInv, TypeOK
  <2>2. Orderly(r)'
    BY <1>1, <2>1 DEF Orderly
  <2> QED BY <1>1, <1>2, <2>1, <2>2, Bystanders, GoesOn
<1> QED BY <1>3, <1>4 DEF GetQuotation

\* A request that fails is not undisturbed any more.
LEMMA FailingRetries ==
    ASSUME PlacementInv, RetryInv, NEW r \in Requests, r \in Active, r \notin calm',
           calm' \subseteq calm, Alone(r), UNCHANGED <<total, old, orders>>,
           \A s \in Requests \ {r} : call'[s] = call[s],
           pc'[r] \in {"done", "indoubt"}
    PROVE  RetryInv'
<1>1. Orderly(r)' /\ calm' \subseteq Requests
  BY DEF Orderly, PlacementInv, TypeOK
<1> QED BY <1>1, Bystanders

LEMMA DependencyFailsRetries ==
    ASSUME PlacementInv, RetryInv, NEW r \in Requests, DependencyFails(r)
    PROVE  RetryInv'
<1>1. /\ r \in Active /\ calm' = calm \ {r} /\ UNCHANGED <<total, old, orders>>
      /\ Answer(r, "dependency", None)
      /\ \A s \in Requests \ {r} : call'[s] = call[s]
  BY DEF DependencyFails, Active, Fails, database, PlacementInv, TypeOK
<1>2. Alone(r) /\ pc'[r] = "done"
  BY <1>1, AnswerKeeps DEF Replies, PlacementInv
<1> QED BY <1>1, <1>2, FailingRetries

LEMMA CheckAgeRetries ==
    ASSUME PlacementInv, RetryInv, NEW r \in Requests, CheckAge(r)
    PROVE  RetryInv'
<1>1. /\ call[r] = "asked"
      /\ UNCHANGED <<total, old, orders, pc, reply, answer, calm>>
      /\ \A s \in Requests \ {r} : call'[s] = call[s]
      /\ call'[r] = IF Wants[r] \in old THEN "expired" ELSE "valid"
      /\ Alone(r) /\ calm' \subseteq Requests
  BY DEF CheckAge, database, client, PlacementInv, TypeOK, Alone
<1>2. Orderly(r)'
  BY <1>1 DEF Orderly, RetryInv
<1>3. ASSUME r \in calm PROVE Undisturbed(r)'
  <2>1. Undisturbed(r) /\ (pc[r] # "done" => Orderable(r) /\ Orderable(r)')
    BY <1>1, <1>3 DEF RetryInv, Undisturbed, Orderable
  <2>2. pc[r] # "done" => call'[r] = "valid"
    BY <1>1, <2>1 DEF Orderable
  <2> QED BY <1>1, <2>1, <2>2 DEF Undisturbed, Active
<1> QED BY <1>1, <1>2, <1>3, Bystanders

LEMMA ConfirmRetries ==
    ASSUME PlacementInv, RetryInv, NEW r \in Requests, Confirm(r)
    PROVE  RetryInv'
<1>1. /\ call[r] = "valid"
      /\ UNCHANGED <<total, old, orders, pc, reply, answer, calm>>
      /\ \A s \in Requests \ {r} : call'[s] = call[s]
      /\ call'[r] = "confirmed"
      /\ Alone(r) /\ calm' \subseteq Requests
  BY WhatIsWanted
     DEF Confirm, database, client, PlacementInv, TypeOK, ConfirmInv, Alone
<1>2. Orderly(r)'
  BY <1>1 DEF Orderly, RetryInv
<1>3. ASSUME r \in calm PROVE Undisturbed(r)'
  <2>1. Undisturbed(r) /\ (pc[r] # "done" => Orderable(r)')
    BY <1>1, <1>3 DEF RetryInv, Undisturbed, Orderable
  <2> QED BY <1>1, <2>1 DEF Undisturbed, Active
<1> QED BY <1>1, <1>2, <1>3, Bystanders

LEMMA ConfirmQuotationRetries ==
    ASSUME PlacementInv, RetryInv, NEW r \in Requests, ConfirmQuotation(r)
    PROVE  RetryInv'
<1>1. /\ pc[r] = "confirm" /\ r \in Active /\ reply[r] = None
      /\ UNCHANGED <<total, old, call, orders, calm>> /\ calm' \subseteq Requests
  BY DEF ConfirmQuotation, quotation, database, Active, RetryInv, Orderly, PlacementInv, TypeOK
<1>2. CASE Continue(r, "create")
  <2>1. Alone(r) /\ pc'[r] = "create" /\ reply'[r] = reply[r]
    BY <1>2, ContinueKeeps DEF PlacementInv
  <2>2. Orderly(r)'
    BY <1>1, <2>1 DEF Orderly
  <2> QED BY <1>1, <2>1, <2>2, Bystanders, GoesOn
<1>3. CASE \E a \in {"conflict", "dependency"} :
             Answer(r, a, None) /\ call[r] \in {"conflict", "expired"}
  <2>1. r \notin calm
    BY <1>1, <1>3 DEF RetryInv, Undisturbed
  <2>2. Alone(r) /\ pc'[r] = "done"
    BY <1>3, AnswerKeeps DEF Replies, PlacementInv
  <2> QED BY <1>1, <2>1, <2>2, FailingRetries
<1> QED BY <1>2, <1>3 DEF ConfirmQuotation

LEMMA SelectOrderRetries ==
    ASSUME PlacementInv, RetryInv, NEW r \in Requests, SelectOrder(r)
    PROVE  RetryInv'
<1>1. /\ pc[r] = "create" /\ r \in Active /\ reply[r] = None /\ Checked(r)
      /\ UNCHANGED <<total, old, call, orders, calm>> /\ calm' \subseteq Requests
      /\ Wants[r] \in OrderIds /\ Wants[r] \in Quotations
  BY AtWork, WhatIsWanted
     DEF SelectOrder, quotation, database, Active, RetryInv, Orderly, PlacementInv, TypeOK
<1>2. CASE Continue(r, "insert") /\ orders[Wants[r]] = None
  <2>1. Alone(r) /\ pc'[r] = "insert" /\ reply'[r] = reply[r]
    BY <1>2, ContinueKeeps DEF PlacementInv
  <2>2. Orderly(r)'
    BY <1>1, <2>1 DEF Orderly
  <2> QED BY <1>1, <1>2, <2>1, <2>2, Bystanders, GoesOn
<1>3. CASE Answer(r, "created", OrderOf(r))
  <2>1. "created" \in Replies /\ OrderOf(r) \in OrderRows \cup {None}
    BY <1>1, OrderOfIsTyped DEF Replies, PlacementInv
  <2>2. Alone(r) /\ pc'[r] = "done" /\ reply'[r] = "created"
    BY <1>3, <2>1, AnswerKeeps DEF PlacementInv
  <2>3. Orderly(r)' /\ Undisturbed(r)'
    BY <2>2 DEF Orderly, Undisturbed
  <2> QED BY <1>1, <2>2, <2>3, Bystanders
<1>4. orders[Wants[r]] # None => orders[Wants[r]].quotation = Wants[r]
  BY <1>1, OneOrder DEF OrdersOf
<1> QED BY <1>2, <1>3, <1>4, WhatIsWanted DEF SelectOrder

LEMMA InsertOrderRetries ==
    ASSUME PlacementInv, RetryInv, NEW r \in Requests, InsertOrder(r)
    PROVE  RetryInv'
<1>1. /\ pc[r] = "insert" /\ r \in Active /\ reply[r] = None
      /\ UNCHANGED <<total, old, call, orders, calm>> /\ calm' \subseteq Requests
      /\ Wants[r] \in OrderIds
  BY WhatIsWanted
     DEF InsertOrder, quotation, database, Active, RetryInv, Orderly, PlacementInv, TypeOK
<1>2. orders[Wants[r]] = None => SameKey(r) = {}
  BY WhatIsWanted, OrderOfIsTyped DEF SameKey, PlacementInv, OrderInv
<1>3. CASE Continue(r, "commit")
  <2>1. Alone(r) /\ pc'[r] = "commit" /\ reply'[r] = reply[r]
    BY <1>3, ContinueKeeps DEF PlacementInv
  <2>2. Orderly(r)'
    BY <1>1, <2>1 DEF Orderly
  <2>3. r \in calm => orders[Wants[r]] = None
    BY <1>1 DEF RetryInv, Undisturbed
  <2> QED BY <1>1, <2>1, <2>2, <2>3, Bystanders, GoesOn
<1>4. CASE SameKey(r) # {} /\ \E a \in {"error", "conflict"} : Answer(r, a, None)
  <2>1. r \notin calm
    BY <1>1, <1>2, <1>4 DEF RetryInv, Undisturbed
  <2>2. Alone(r) /\ pc'[r] = "done"
    BY <1>4, AnswerKeeps DEF Replies, PlacementInv
  <2> QED BY <1>1, <2>1, <2>2, FailingRetries
<1> QED BY <1>3, <1>4 DEF InsertOrder

LEMMA CommitOrderRetries ==
    ASSUME PlacementInv, RetryInv, NEW r \in Requests, CommitOrder(r)
    PROVE  RetryInv'
<1>1. /\ r \in Active /\ Effects(r) /\ Checked(r) /\ Answer(r, "created", OrderOf(r))
      /\ UNCHANGED <<total, old, call, calm>> /\ calm' \subseteq Requests
  BY AtWork DEF CommitOrder, quotation, Active, PlacementInv, TypeOK
<1>2. "created" \in Replies /\ OrderOf(r) \in OrderRows \cup {None}
  BY <1>1, OrderOfIsTyped DEF Replies, PlacementInv
<1>3. Alone(r) /\ pc'[r] = "done" /\ reply'[r] = "created"
  BY <1>1, <1>2, AnswerKeeps DEF PlacementInv
<1>4. Orderly(r)' /\ Undisturbed(r)'
  BY <1>3 DEF Orderly, Undisturbed
<1>5. \A q \in Quotations : orders'[q] = orders[q] \/ (q = Wants[r] /\ r \in Active)
  BY <1>1, EffectsKeep DEF PlacementInv, OrderIds
<1> QED BY <1>1, <1>3, <1>4, <1>5, Bystanders

LEMMA UnacknowledgedRetries ==
    ASSUME PlacementInv, RetryInv, NEW r \in Requests, CommitUnacknowledged(r)
    PROVE  RetryInv'
<1>1. /\ r \in Active /\ calm' = calm \ {r} /\ UNCHANGED <<total, old, call, orders>>
      /\ Alone(r) /\ pc'[r] = "indoubt"
  BY DEF CommitUnacknowledged, Fails, Active, quotation, database, Alone, PlacementInv, TypeOK
<1> QED BY <1>1, FailingRetries

LEMMA DecideRetries ==
    ASSUME PlacementInv, RetryInv, NEW r \in Requests, Decide(r)
    PROVE  RetryInv'
<1>1. /\ r \in Active /\ pc[r] = "indoubt" /\ Alone(r) /\ pc'[r] = "done" /\ Checked(r)
      /\ UNCHANGED <<total, old, call, calm>> /\ calm' \subseteq Requests
  BY AtWork DEF Decide, client, quotation, Active, Alone, PlacementInv, TypeOK
<1>2. r \notin calm /\ Orderly(r)'
  BY <1>1 DEF RetryInv, Undisturbed, Orderly
<1>3. \A q \in Quotations : orders'[q] = orders[q] \/ (q = Wants[r] /\ r \in Active)
  BY <1>1, EffectsKeep DEF Decide, database, PlacementInv, OrderIds
<1> QED BY <1>1, <1>2, <1>3, Bystanders

LEMMA StatementFailsRetries ==
    ASSUME PlacementInv, RetryInv, NEW r \in Requests, StatementFails(r)
    PROVE  RetryInv'
<1>1. /\ r \in Active /\ calm' = calm \ {r} /\ UNCHANGED <<total, old, call, orders>>
      /\ Answer(r, "error", None)
  BY DEF StatementFails, Fails, Active, quotation, database
<1>2. Alone(r) /\ pc'[r] = "done"
  BY <1>1, AnswerKeeps DEF Replies, PlacementInv
<1> QED BY <1>1, <1>2, FailingRetries

LEMMA CrashRetries == ASSUME PlacementInv, RetryInv, Crash PROVE RetryInv'
<1> DEFINE Lost == {r \in Active : pc[r] # "indoubt"}
<1>1. /\ UNCHANGED <<total, old, call, orders>> /\ calm' = calm \ Lost
      /\ reply' = [r \in Requests |-> IF r \in Lost THEN "lost" ELSE reply[r]]
      /\ pc' = [r \in Requests |->
             IF r \notin Lost THEN pc[r]
             ELSE IF pc[r] = "commit" THEN "indoubt" ELSE "done"]
  BY DEF Crash, Fails, quotation, database
<1>2. \A r \in Requests : r \in Lost <=> pc[r] \notin {"new", "done", "indoubt"}
  BY DEF Active
<1> HIDE DEF Lost
<1>3. \A r \in Requests : Orderly(r)'
  BY <1>1, <1>2 DEF RetryInv, Orderly
<1>4. \A r \in calm' : r \in Requests /\ pc[r] = "done" /\ pc'[r] = pc[r] /\ reply'[r] = reply[r]
  BY <1>1, <1>2 DEF RetryInv, Undisturbed, PlacementInv, TypeOK
<1>5. \A r \in calm' : Undisturbed(r)'
  BY <1>1, <1>4 DEF RetryInv, Undisturbed
<1> QED BY <1>3, <1>5 DEF RetryInv

LEMMA OfferRetries ==
    ASSUME PlacementInv, RetryInv, NEW q \in Quotations, Offer(q)
    PROVE  RetryInv'
<1>1. /\ total[q] = None /\ \A p \in Quotations \ {q} : total'[p] = total[p]
      /\ UNCHANGED <<old, call, orders, pc, reply, answer, calm>>
  BY DEF Offer, database, client, PlacementInv, TypeOK
<1>2. \A r \in Requests : Orderable(r) => Orderable(r)'
  BY <1>1, WhatIsWanted DEF Orderable
<1> QED BY <1>1, <1>2 DEF RetryInv, Orderly, Undisturbed, Active

LEMMA GrowsOldRetries ==
    ASSUME PlacementInv, RetryInv, NEW q \in Quotations, GrowsOld(q)
    PROVE  RetryInv'
<1>1. /\ UNCHANGED <<total, call, orders, pc, reply, answer>>
      /\ old' = old \cup {q} /\ calm' = calm \ {r \in About(q) : reply[r] = None}
  BY DEF GrowsOld, database, client
<1>2. \A r \in Requests : Orderly(r)'
  BY <1>1 DEF RetryInv, Orderly
<1>3. ASSUME NEW r \in calm' PROVE Undisturbed(r)'
  <2>1. r \in calm /\ r \in Requests /\ Undisturbed(r) /\ Orderly(r)
    BY <1>1 DEF RetryInv, PlacementInv, TypeOK
  <2>2. pc[r] # "done" => Wants[r] # q
    BY <1>1, <2>1 DEF Undisturbed, Orderly, About
  <2>3. pc[r] # "done" => Orderable(r)'
    BY <1>1, <2>1, <2>2 DEF Undisturbed, Orderable
  <2> QED BY <1>1, <2>1, <2>3 DEF Undisturbed, Active
<1> QED BY <1>2, <1>3 DEF RetryInv

LEMMA RetryInvStep == ASSUME PlacementInv, RetryInv, [Next]_vars PROVE RetryInv'
<1>1. CASE \E q \in Quotations : Offer(q) \/ GrowsOld(q)
  BY <1>1, OfferRetries, GrowsOldRetries
<1>2. ASSUME NEW r \in Requests, Step(r)
      PROVE  RetryInv'
  BY <1>2, StartRetries, GetQuotationRetries, DependencyFailsRetries, CheckAgeRetries,
     ConfirmRetries, ConfirmQuotationRetries, SelectOrderRetries, InsertOrderRetries,
     CommitOrderRetries, UnacknowledgedRetries, DecideRetries, StatementFailsRetries DEF Step
<1>3. CASE UNCHANGED vars
  <2>1. UNCHANGED <<total, old, call, orders, pc, reply, calm>>
    BY <1>3 DEF vars, quotation, database, client
  <2> QED BY <2>1 DEF RetryInv, Orderly, Undisturbed, Orderable, Active
<1> QED BY <1>1, <1>2, <1>3, CrashRetries DEF Next

\* A customer who asks again, and is not disturbed, gets his order, whatever
\* the requests before have left behind at either service.
THEOREM RetriesAreCreated == Spec => []RetryIsCreated
<1>1. PlacementInv /\ RetryInv => RetryIsCreated
  BY DEF RetryInv, Undisturbed, Orderly, RetryIsCreated, PlacementInv, TypeOK
<1>2. Init => RetryInv
  BY RetryInvInit
<1>3. PlacementInv /\ RetryInv /\ [Next]_vars => RetryInv'
  BY RetryInvStep
<1>4. Spec => []RetryInv
  BY <1>2, <1>3, PlacementIsSafe, PTL DEF Spec
<1> QED BY <1>1, <1>4, PlacementIsSafe, PTL
=============================================================================
