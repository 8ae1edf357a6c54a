----------------------- MODULE QuotationPricing_proofs -----------------------
(***************************************************************************)
(* The cache of the bank's rates, for any requests, snapshots, times and   *)
(* number of restarts: types, that rates never go back, that calls of the  *)
(* bank are spaced, and that every answer is justified; and that the       *)
(* service under quotation requests is this service, so that all of it     *)
(* holds there too.  Then the arithmetic of a quotation for integers of    *)
(* any width, and that every quotation that is stored is the exact price   *)
(* of what was asked for.                                                  *)
(***************************************************************************)
EXTENDS QuotationPricing, TLAPS

(***************************************************************************)
(* The exchange rates.                                                     *)
(***************************************************************************)
InCall(r) == get[r] \in {"calling", "answered"}

\* One request has the mutex; it read its time when the cache had expired, and
\* what the bank has sent it is no older than what is cached.
CallInv ==
    /\ \A r, s \in Requests : InCall(r) /\ InCall(s) => r = s
    /\ \A r \in Requests : InCall(r) =>
         /\ started[r] \in Times
         /\ started[r] <= clock /\ expiresAt <= started[r]
    /\ \A r \in Requests : get[r] = "answered" =>
         /\ response[r] \in Snapshots
         /\ response[r] <= source
         /\ cached # None => cached <= response[r]

\* What the time of expiry says about the last call that has ended.
ExpiryInv ==
    /\ cached # None => cached <= source /\ cachedAt \in Times
    /\ cached = None /\ ~lastErr => expiresAt = 0
    /\ outcome = "none" => cached = None /\ ~lastErr
    /\ outcome \in {"ok", "failed"} =>
         /\ called \in Times /\ called <= clock
         /\ expiresAt = called + TTL
         /\ cached # None \/ lastErr
    /\ outcome = "ok" => cached # None /\ cachedAt = called
    /\ outcome = "unusable" => expiresAt <= clock

RatesInv ==
    /\ RatesTypeOK
    /\ CallInv
    /\ ExpiryInv

-----------------------------------------------------------------------------
\* An answer changes nothing but the request it is for.
LEMMA AnswerTypes ==
    ASSUME RatesTypeOK, NEW r \in Requests,
           NEW a \in {v \in Snapshots : Validate(v)} \cup {Error}, Answer(r, a)
    PROVE  /\ get' \in [Requests -> {"none", "waiting", "calling", "answered", "done"}]
           /\ started' \in [Requests -> Times \cup {None}]
           /\ response' \in [Requests -> Snapshots \cup {None}]
           /\ gone' \subseteq Requests
           /\ result' \in [Requests -> {v \in Snapshots : Validate(v)} \cup {Error, None}]
           /\ get'[r] = "done" /\ result'[r] = a
           /\ \A s \in Requests \ {r} :
                /\ get'[s] = get[s] /\ started'[s] = started[s]
                /\ response'[s] = response[s] /\ result'[s] = result[s]
<1>1. /\ get' \in [Requests -> {"none", "waiting", "calling", "answered", "done"}]
      /\ get'[r] = "done" /\ \A s \in Requests \ {r} : get'[s] = get[s]
  BY DEF RatesTypeOK, Answer
<1>2. /\ started' \in [Requests -> Times \cup {None}]
      /\ \A s \in Requests \ {r} : started'[s] = started[s]
  BY DEF RatesTypeOK, Answer
<1>3. /\ response' \in [Requests -> Snapshots \cup {None}]
      /\ \A s \in Requests \ {r} : response'[s] = response[s]
  BY DEF RatesTypeOK, Answer
<1>4. /\ result' \in [Requests -> {v \in Snapshots : Validate(v)} \cup {Error, None}]
      /\ result'[r] = a /\ \A s \in Requests \ {r} : result'[s] = result[s]
  <2> DEFINE S == {v \in Snapshots : Validate(v)} \cup {Error, None}
  <2>1. result \in [Requests -> S] /\ a \in S
    BY DEF RatesTypeOK
  <2> HIDE DEF S
  <2>2. result' = [result EXCEPT ![r] = a]
    BY DEF Answer
  <2>3. result' \in [Requests -> S] /\ result'[r] = a
        /\ \A s \in Requests \ {r} : result'[s] = result[s]
    BY <2>1, <2>2
  <2> QED BY <2>3 DEF S
<1>5. gone' \subseteq Requests
  BY DEF RatesTypeOK, Answer
<1> QED BY <1>1, <1>2, <1>3, <1>4, <1>5

\* Nothing is disturbed when a request ends that is not in a call, or is the
\* one in a call.
LEMMA AnswerKeepsCalls ==
    ASSUME RatesInv, NEW r \in Requests,
           NEW a \in {v \in Snapshots : Validate(v)} \cup {Error}, Answer(r, a),
           UNCHANGED <<clock, source>>,
           InCall(r) \/ UNCHANGED <<cached, expiresAt>>
    PROVE  CallInv'
<1>1. \A s \in Requests : InCall(s)' => s # r /\ InCall(s)
  BY AnswerTypes DEF RatesInv, InCall
<1>2. \A s \in Requests : InCall(s)' =>
        /\ started'[s] = started[s] /\ response'[s] = response[s] /\ get'[s] = get[s]
  BY <1>1, AnswerTypes DEF RatesInv
<1>3. CASE InCall(r)
  <2>1. \A s \in Requests : ~InCall(s)'
    BY <1>1, <1>3 DEF RatesInv, CallInv
  <2> QED BY <2>1 DEF CallInv, InCall
<1>4. CASE UNCHANGED <<cached, expiresAt>>
  BY <1>1, <1>2, <1>4 DEF RatesInv, CallInv, InCall
<1> QED BY <1>3, <1>4

LEMMA RatesInvInit == RatesInit => RatesInv
<1> SUFFICES ASSUME RatesInit PROVE RatesInv
  OBVIOUS
<1>1. RatesTypeOK
  <2> DEFINE S == {v \in Snapshots : Validate(v)} \cup {Error, None}
  <2>1. result \in [Requests -> S]
    <3>1. None \in S
      OBVIOUS
    <3> HIDE DEF S
    <3> QED BY <3>1 DEF RatesInit
  <2>2. cached \in {v \in Snapshots : Validate(v)} \cup {None}
    BY DEF RatesInit
  <2>3. /\ get \in [Requests -> {"none", "waiting", "calling", "answered", "done"}]
        /\ started \in [Requests -> Times \cup {None}]
        /\ response \in [Requests -> Snapshots \cup {None}]
    BY DEF RatesInit
  <2>4. /\ clock \in Times /\ source \in 0..MaxSnapshot /\ restarts \in 0..MaxRestarts
        /\ expiresAt \in 0..MaxClock + TTL
    BY RatesAssumption DEF RatesInit, Times
  <2> QED BY <2>1, <2>2, <2>3, <2>4 DEF RatesInit, RatesTypeOK
<1>2. CallInv /\ ExpiryInv
  BY RatesAssumption DEF RatesInit, CallInv, ExpiryInv, InCall
<1> QED BY <1>1, <1>2 DEF RatesInv

-----------------------------------------------------------------------------
LEMMA TickKeeps == ASSUME RatesInv, Tick PROVE RatesInv'
<1> USE DEF RatesInv, Tick, provider, goroutine, past
<1>1. clock \in Nat /\ clock' \in Times /\ clock' = clock + 1 /\ expiresAt \in Nat
  BY RatesAssumption DEF RatesTypeOK, Times
<1>2. RatesTypeOK'
  BY <1>1 DEF RatesTypeOK
<1>3. CallInv'
  BY <1>1 DEF CallInv, InCall, Times
<1>4. ExpiryInv'
  BY <1>1 DEF ExpiryInv, Times
<1> QED BY <1>2, <1>3, <1>4

LEMMA SourceKeeps == ASSUME RatesInv, SourceChanges PROVE RatesInv'
<1> USE DEF RatesInv, SourceChanges, provider, goroutine, past
<1>1. source \in Int /\ source' \in 0..MaxSnapshot /\ source' = source + 1
  BY RatesAssumption DEF RatesTypeOK
<1>2. RatesTypeOK'
  BY <1>1 DEF RatesTypeOK
<1>3. \A v \in Snapshots : v \in Int /\ (v <= source => v <= source')
  BY <1>1, RatesAssumption DEF Snapshots
<1>4. CallInv'
  BY <1>3 DEF CallInv, InCall
<1>5. cached # None => cached \in Snapshots
  BY DEF RatesTypeOK
<1>6. ExpiryInv'
  BY <1>3, <1>5 DEF ExpiryInv
<1> QED BY <1>2, <1>4, <1>6

LEMMA RequestKeeps == ASSUME RatesInv, NEW r \in Requests, Request(r) PROVE RatesInv'
<1> USE DEF RatesInv, Request, provider, past
<1>1. /\ get' \in [Requests -> {"none", "waiting", "calling", "answered", "done"}]
      /\ get'[r] = "waiting" /\ \A s \in Requests \ {r} : get'[s] = get[s]
  BY DEF RatesTypeOK
<1>2. RatesTypeOK'
  BY <1>1 DEF RatesTypeOK
<1>3. CallInv' /\ ExpiryInv'
  BY <1>1 DEF CallInv, InCall, ExpiryInv
<1> QED BY <1>2, <1>3

LEMMA CancelKeeps == ASSUME RatesInv, NEW r \in Requests, Cancel(r) PROVE RatesInv'
BY DEF RatesInv, Cancel, RatesTypeOK, CallInv, ExpiryInv, InCall, provider, goroutine, past

LEMMA GetKeeps == ASSUME RatesInv, NEW r \in Requests, GetSystemRates(r) PROVE RatesInv'
<1> USE DEF RatesInv, provider, past
<1>1. /\ get[r] = "waiting" /\ ~Locked
      /\ UNCHANGED <<clock, source, provider, past, restarts>>
  BY DEF GetSystemRates
<1>2. ExpiryInv'
  BY <1>1 DEF ExpiryInv
<1>3. CASE Serve(r) \/ BackOff(r)
  <2>1. PICK a \in {v \in Snapshots : Validate(v)} \cup {Error} : Answer(r, a)
    BY <1>3 DEF Serve, BackOff, RatesTypeOK
  <2>2. RatesTypeOK'
    BY <1>1, <2>1, AnswerTypes DEF RatesTypeOK
  <2>3. CallInv'
    BY <1>1, <2>1, AnswerKeepsCalls
  <2> QED BY <1>2, <2>2, <2>3
<1>4. CASE Call(r)
  <2>1. /\ get' = [get EXCEPT ![r] = "calling"]
        /\ started' = [started EXCEPT ![r] = clock]
        /\ UNCHANGED <<response, result, gone>>
    BY <1>4 DEF Call
  <2>2. /\ get' \in [Requests -> {"none", "waiting", "calling", "answered", "done"}]
        /\ get'[r] = "calling" /\ \A s \in Requests \ {r} : get'[s] = get[s]
    BY <2>1 DEF RatesTypeOK
  <2>3. /\ started' \in [Requests -> Times \cup {None}]
        /\ started'[r] = clock
    BY <2>1 DEF RatesTypeOK
  <2>4. RatesTypeOK'
    BY <1>1, <2>1, <2>2, <2>3 DEF RatesTypeOK
  <2>5. clock \in Times /\ clock \in Nat /\ expiresAt \in Nat /\ expiresAt <= clock
    BY <1>4, RatesAssumption DEF Call, ExpiryInv, RatesTypeOK, Times
  <2>6. \A s \in Requests : InCall(s)' => s = r
    BY <1>1, <2>2 DEF Locked, InCall
  <2>7. CallInv'
    BY <1>1, <2>2, <2>3, <2>5, <2>6 DEF CallInv, InCall
  <2> QED BY <1>2, <2>4, <2>7
<1> QED BY <1>3, <1>4 DEF GetSystemRates

LEMMA BankKeeps == ASSUME RatesInv, NEW r \in Requests, BankAnswers(r) PROVE RatesInv'
<1> USE DEF RatesInv, BankAnswers, provider, past
<1>1. /\ get' \in [Requests -> {"none", "waiting", "calling", "answered", "done"}]
      /\ get'[r] = "answered" /\ \A s \in Requests \ {r} : get'[s] = get[s]
  BY DEF RatesTypeOK
<1>2. source \in Snapshots /\ source <= source
  BY RatesAssumption DEF RatesTypeOK, Snapshots
<1>3. /\ response' \in [Requests -> Snapshots \cup {None}]
      /\ response'[r] = source
  BY <1>2 DEF RatesTypeOK
<1>4. RatesTypeOK'
  BY <1>1, <1>3 DEF RatesTypeOK
<1>5. \A s \in Requests : InCall(s)' => s = r /\ InCall(s)
  BY <1>1 DEF CallInv, InCall
<1>6. CallInv'
  BY <1>1, <1>2, <1>3, <1>5 DEF CallInv, ExpiryInv, InCall
<1>7. ExpiryInv'
  BY DEF ExpiryInv
<1> QED BY <1>4, <1>6, <1>7

\* When a call ends, its time of expiry is counted from when it was begun.
LEMMA CallTimes ==
    ASSUME RatesInv, NEW r \in Requests, InCall(r)
    PROVE  /\ started[r] \in Times /\ started[r] \in Nat /\ clock \in Nat
           /\ started[r] <= clock /\ expiresAt <= clock
           /\ started[r] + TTL \in 0..MaxClock + TTL
BY RatesAssumption DEF RatesInv, CallInv, RatesTypeOK, Times

LEMMA FailKeeps == ASSUME RatesInv, NEW r \in Requests, FetchFails(r) PROVE RatesInv'
<1> USE DEF RatesInv
<1>1. InCall(r) /\ UNCHANGED <<clock, source, cached, cachedAt, restarts>>
  BY DEF FetchFails, InCall
<1>2. PICK a \in {v \in Snapshots : Validate(v)} \cup {Error} : Answer(r, a)
  BY DEF FetchFails, RatesTypeOK
<1>3. /\ expiresAt' = started[r] + TTL /\ lastErr' = (lastErr \/ cached = None)
      /\ called' = started[r] /\ outcome' = "failed"
  BY DEF FetchFails, Ended
<1>4. RatesTypeOK'
  <2>1. lastErr' \in BOOLEAN
    BY <1>3
  <2> QED BY <1>1, <1>2, <1>3, <2>1, AnswerTypes, CallTimes DEF RatesTypeOK
<1>5. CallInv'
  BY <1>1, <1>2, AnswerKeepsCalls
<1>6. ExpiryInv'
  <2>1. cached' # None \/ lastErr'
    BY <1>1, <1>3, Zenon
  <2> QED BY <1>1, <1>3, <2>1, CallTimes DEF ExpiryInv
<1> QED BY <1>4, <1>5, <1>6

LEMMA SucceedKeeps == ASSUME RatesInv, NEW r \in Requests, FetchSucceeds(r) PROVE RatesInv'
<1> USE DEF RatesInv
<1>1. /\ get[r] = "answered" /\ InCall(r)
      /\ UNCHANGED <<clock, source, restarts>>
  BY DEF FetchSucceeds, InCall
<1>2. response[r] \in Snapshots /\ response[r] <= source
  BY <1>1 DEF CallInv
<1>3. CASE Reject(r)
  <2>1. Answer(r, Error) /\ called' = started[r] /\ outcome' = "unusable"
        /\ UNCHANGED <<cached, lastErr, expiresAt, cachedAt>>
    BY <1>3 DEF Reject, Ended, provider
  <2>2. Error \in {v \in Snapshots : Validate(v)} \cup {Error}
    OBVIOUS
  <2>3. RatesTypeOK'
    BY <1>1, <2>1, <2>2, AnswerTypes, CallTimes DEF RatesTypeOK
  <2>4. CallInv'
    BY <1>1, <2>1, <2>2, AnswerKeepsCalls
  <2>5. ExpiryInv'
    BY <1>1, <2>1, CallTimes DEF ExpiryInv
  <2> QED BY <2>3, <2>4, <2>5
<1>4. CASE Replace(r)
  <2>1. /\ Answer(r, response[r]) /\ called' = started[r] /\ outcome' = "ok"
        /\ cached' = response[r] /\ cachedAt' = started[r]
        /\ expiresAt' = started[r] + TTL /\ lastErr' = FALSE
    BY <1>4 DEF Replace, Ended
  <2>2. response[r] \in {v \in Snapshots : Validate(v)} \cup {Error}
    BY <1>2, <1>4 DEF Replace
  <2>3. cached' \in {v \in Snapshots : Validate(v)} \cup {None}
    BY <1>2, <1>4, <2>1 DEF Replace
  <2>4. RatesTypeOK'
    BY <1>1, <2>1, <2>2, <2>3, AnswerTypes, CallTimes DEF RatesTypeOK
  <2>5. CallInv'
    BY <1>1, <2>1, <2>2, AnswerKeepsCalls
  <2>6. cached' # None
    BY <1>2, <2>1, RatesAssumption DEF Snapshots
  <2>7. ExpiryInv'
    BY <1>1, <1>2, <2>1, <2>6, CallTimes DEF ExpiryInv
  <2> QED BY <2>4, <2>5, <2>7
<1> QED BY <1>3, <1>4 DEF FetchSucceeds

LEMMA RestartKeeps == ASSUME RatesInv, Restart PROVE RatesInv'
<1> USE DEF RatesInv
<1>1. \A r \in Requests : ~InCall(r)'
  BY DEF Restart, InCall
<1>2. CallInv'
  BY <1>1 DEF CallInv, InCall
<1>3. ExpiryInv'
  BY RatesAssumption DEF ExpiryInv, Restart, Fresh
<1>4. restarts' \in 0..MaxRestarts
  BY RatesAssumption DEF RatesTypeOK, Restart
<1>5. get' \in [Requests -> {"none", "waiting", "calling", "answered", "done"}]
  BY DEF RatesTypeOK, Restart
<1>6. result' \in [Requests -> {v \in Snapshots : Validate(v)} \cup {Error, None}]
  <2> DEFINE S == {v \in Snapshots : Validate(v)} \cup {Error, None}
             Lost == {r \in Requests : get[r] \in {"waiting", "calling", "answered"}}
  <2>1. result \in [Requests -> S] /\ Error \in S
    BY DEF RatesTypeOK
  <2>2. result' = [r \in Requests |-> IF r \in Lost THEN Error ELSE result[r]]
    BY DEF Restart
  <2> HIDE DEF S, Lost
  <2>3. \A r \in Requests : (IF r \in Lost THEN Error ELSE result[r]) \in S
    BY <2>1
  <2>4. result' \in [Requests -> S]
    BY <2>2, <2>3, Zenon
  <2> QED BY <2>4 DEF S
<1>7. /\ started' \in [Requests -> Times \cup {None}]
      /\ response' \in [Requests -> Snapshots \cup {None}]
      /\ gone' \subseteq Requests
  BY DEF Restart
<1>8. /\ cached' = None /\ lastErr' = FALSE /\ expiresAt' \in 0..MaxClock + TTL
      /\ cachedAt' = None /\ called' = None /\ outcome' = "none"
      /\ UNCHANGED <<clock, source>>
  BY RatesAssumption DEF Restart, Fresh
<1>9. RatesTypeOK'
  BY <1>4, <1>5, <1>6, <1>7, <1>8 DEF RatesTypeOK
<1> QED BY <1>2, <1>3, <1>9

LEMMA RatesInvStep == ASSUME RatesInv, [RatesNext]_ratesVars PROVE RatesInv'
<1>1. CASE RatesNext
  BY <1>1, TickKeeps, SourceKeeps, RestartKeeps, RequestKeeps, CancelKeeps,
     GetKeeps, BankKeeps, FailKeeps, SucceedKeeps DEF RatesNext
<1>2. CASE UNCHANGED ratesVars
  BY <1>2 DEF RatesInv, RatesTypeOK, CallInv, ExpiryInv, InCall,
              ratesVars, provider, goroutine, past
<1> QED BY <1>1, <1>2

\* Whatever the requests, the bank and the stops do, one request at most is in
\* a call, and the time of expiry tells when the last call was begun.
THEOREM RatesAreSafe == RatesSpec => []RatesInv
<1> QED BY RatesInvInit, RatesInvStep, PTL DEF RatesSpec

-----------------------------------------------------------------------------
(***************************************************************************)
(* What a single step may do.                                              *)
(***************************************************************************)
\* The provider changes only where a call ends or the service stops.
LEMMA ProviderChanges ==
    ASSUME [RatesNext]_ratesVars, ~Restart
    PROVE  \/ \E r \in Requests : FetchFails(r) \/ FetchSucceeds(r)
           \/ UNCHANGED <<provider, past, restarts>>
BY DEF RatesNext, ratesVars, Tick, SourceChanges, Request, Cancel, GetSystemRates, BankAnswers

LEMMA RestartCounts == ASSUME RatesInv, Restart PROVE restarts' > restarts
BY RatesAssumption DEF RatesInv, RatesTypeOK, Restart

LEMMA StepMovesForward ==
    ASSUME RatesInv, [RatesNext]_ratesVars, cached # None
    PROVE  restarts' > restarts \/ (cached' # None /\ cached' >= cached)
<1>0. cached \in Int
  BY RatesAssumption DEF RatesInv, RatesTypeOK, Snapshots
<1>1. CASE Restart
  BY <1>1, RestartCounts
<1>2. CASE UNCHANGED <<provider, past, restarts>>
  BY <1>0, <1>2 DEF provider
<1>3. ASSUME NEW r \in Requests, FetchFails(r)
      PROVE  cached' # None /\ cached' >= cached
  BY <1>0, <1>3 DEF FetchFails
<1>4. ASSUME NEW r \in Requests, FetchSucceeds(r)
      PROVE  cached' # None /\ cached' >= cached
  <2>1. CASE Reject(r)
    BY <1>0, <2>1 DEF Reject, provider
  <2>2. CASE Replace(r)
    <3>1. response[r] \in Snapshots /\ cached <= response[r] /\ cached' = response[r]
      BY <1>4, <2>2 DEF FetchSucceeds, Replace, RatesInv, CallInv
    <3> QED BY <1>0, <3>1, RatesAssumption DEF Snapshots
  <2> QED BY <1>4, <2>1, <2>2 DEF FetchSucceeds
<1> QED BY <1>1, <1>2, <1>3, <1>4, ProviderChanges

LEMMA StepIsSpaced ==
    ASSUME RatesInv, [RatesNext]_ratesVars, NEW r \in Requests, Begins(r)
    PROVE  /\ ~Locked
           /\ outcome \in {"ok", "failed"} => clock >= called + TTL
<1>1. \A s \in Requests : s # r => ~(get' = [get EXCEPT ![s] = get'[s]])
  BY DEF Begins, RatesInv, RatesTypeOK
<1>2. \A s \in Requests : \A a : Answer(s, a) => get' = [get EXCEPT ![s] = get'[s]]
  BY DEF Answer, RatesInv, RatesTypeOK
<1>3. GetSystemRates(r)
  <2>1. \A s \in Requests : GetSystemRates(s) => s = r
    BY <1>1, <1>2 DEF GetSystemRates, Serve, BackOff, Call, RatesInv, RatesTypeOK
  <2>2. \A s \in Requests : ~FetchFails(s) /\ ~FetchSucceeds(s)
    BY <1>2 DEF FetchFails, FetchSucceeds, Reject, Replace, Answer, Begins, RatesInv, RatesTypeOK
  <2>3. \A s \in Requests : ~Request(s) /\ ~Cancel(s) /\ ~BankAnswers(s)
    BY DEF Request, Cancel, BankAnswers, Begins, RatesInv, RatesTypeOK, goroutine
  <2>4. ~Tick /\ ~SourceChanges /\ ~Restart /\ ~UNCHANGED ratesVars
    BY DEF Tick, SourceChanges, Restart, Begins, RatesInv, RatesTypeOK, goroutine, ratesVars
  <2> QED BY <2>1, <2>2, <2>3, <2>4 DEF RatesNext
<1>4. Call(r)
  BY <1>3 DEF GetSystemRates, Serve, BackOff, Answer, Begins, RatesInv, RatesTypeOK
<1>5. clock \in Nat /\ expiresAt \in Nat
  BY RatesAssumption DEF RatesInv, RatesTypeOK, Times
<1> QED BY <1>3, <1>4, <1>5 DEF GetSystemRates, Call, RatesInv, ExpiryInv

\* A request that is given an answer: one of the three ways, or a stop.
LEMMA StepIsJustified ==
    ASSUME RatesInv, [RatesNext]_ratesVars, NEW r \in Requests,
           result'[r] # result[r], restarts' = restarts
    PROVE  IF result'[r] = Error
             THEN \/ cached = None /\ (RecentlyFailed \/ FailsNow(r))
                  \/ BroughtNoUse(r)
             ELSE \/ result'[r] = response[r] /\ outcome' = "ok"
                  \/ /\ result'[r] = cached
                     /\ \/ clock < cachedAt + TTL
                        \/ RecentlyFailed \/ FailsNow(r)
<1> USE DEF RatesInv
<1>1. ~Restart
  BY RestartCounts, RatesAssumption DEF RatesTypeOK
<1>2. \A s \in Requests : \A a : Answer(s, a) => s = r /\ result'[r] = a
  BY DEF Answer, RatesTypeOK
<1>3. \E s \in Requests : GetSystemRates(s) \/ FetchFails(s) \/ FetchSucceeds(s)
  BY <1>1 DEF RatesNext, ratesVars, goroutine, Tick, SourceChanges, Request, Cancel, BankAnswers
<1>4. /\ clock \in Nat /\ expiresAt \in Nat
      /\ \A v \in Snapshots : v # None /\ v # Error
  BY RatesAssumption DEF RatesTypeOK, Times, Snapshots
<1>5. CASE GetSystemRates(r) /\ Serve(r)
  <2>1. /\ cached # None /\ cached # Error /\ clock < expiresAt /\ result'[r] = cached
    BY <1>2, <1>4, <1>5 DEF Serve, RatesTypeOK
  <2>2. outcome = "ok" => clock < cachedAt + TTL
    BY <2>1 DEF ExpiryInv
  <2>3. outcome = "failed" => RecentlyFailed
    BY <2>1 DEF ExpiryInv, RecentlyFailed
  <2>4. outcome # "none" /\ outcome # "unusable"
    BY <1>4, <2>1 DEF ExpiryInv
  <2> QED BY <2>1, <2>2, <2>3, <2>4 DEF RatesTypeOK
<1>6. CASE GetSystemRates(r) /\ BackOff(r)
  <2>1. cached = None /\ lastErr /\ clock < expiresAt /\ result'[r] = Error
    BY <1>2, <1>6 DEF BackOff
  <2>2. outcome = "failed"
    BY <1>4, <2>1 DEF ExpiryInv, RatesTypeOK
  <2> QED BY <2>1, <2>2 DEF ExpiryInv, RecentlyFailed
<1>7. CASE FetchFails(r)
  <2>1. /\ FailsNow(r)
        /\ result'[r] = IF cached # None THEN cached ELSE Error
    BY <1>2, <1>7 DEF FetchFails, FailsNow, Ended
  <2> QED BY <1>4, <2>1 DEF RatesTypeOK
<1>8. CASE FetchSucceeds(r)
  <2>1. CASE Reject(r)
    BY <1>2, <1>8, <2>1 DEF FetchSucceeds, Reject, BroughtNoUse
  <2>2. CASE Replace(r)
    <3>1. result'[r] = response[r] /\ outcome' = "ok" /\ response[r] \in Snapshots
      BY <1>2, <1>8, <2>2 DEF FetchSucceeds, Replace, Ended, CallInv
    <3> QED BY <1>4, <3>1
  <2> QED BY <1>8, <2>1, <2>2 DEF FetchSucceeds
<1>9. \E s \in Requests :
        \/ s = r /\ GetSystemRates(s) /\ (Serve(s) \/ BackOff(s))
        \/ s = r /\ (FetchFails(s) \/ FetchSucceeds(s))
  <2>1. PICK s \in Requests : GetSystemRates(s) \/ FetchFails(s) \/ FetchSucceeds(s)
    BY <1>3
  <2>2. \E a : Answer(s, a)
    <3>1. CASE GetSystemRates(s)
      <4>1. ~Call(s)
        BY DEF Call
      <4> QED BY <3>1, <4>1 DEF GetSystemRates, Serve, BackOff
    <3>2. CASE FetchFails(s)
      BY <3>2 DEF FetchFails
    <3>3. CASE FetchSucceeds(s)
      BY <3>3 DEF FetchSucceeds, Reject, Replace
    <3> QED BY <2>1, <3>1, <3>2, <3>3
  <2>3. s = r
    BY <1>2, <2>2
  <2>4. ~Call(s)
    BY DEF Call
  <2> QED BY <2>1, <2>3, <2>4 DEF GetSystemRates
<1> QED BY <1>5, <1>6, <1>7, <1>8, <1>9

-----------------------------------------------------------------------------
(***************************************************************************)
(* The service by itself.                                                  *)
(***************************************************************************)
\* Every rate that is cached or given out is of a usable snapshot.
THEOREM RatesTypeCorrect == RatesSpec => []RatesTypeOK
<1>1. RatesInv => RatesTypeOK
  BY DEF RatesInv
<1> QED BY <1>1, RatesAreSafe, PTL

\* A slow answer of the bank never replaces a later snapshot.
THEOREM RatesNeverGoBack == RatesSpec => RatesMoveForward
<1>1. RatesInv /\ [RatesNext]_ratesVars
      => [cached # None => restarts' > restarts \/ (cached' # None /\ cached' >= cached)]_ratesVars
  BY StepMovesForward
<1> QED BY <1>1, RatesAreSafe, PTL DEF RatesSpec, RatesMoveForward

\* The bank is called by one request at a time, and not again within TTL.
THEOREM BankIsSpared == RatesSpec => CallsAreSpaced
<1>1. RatesInv /\ [RatesNext]_ratesVars
      => [\A r \in Requests : Begins(r) =>
            /\ ~Locked
            /\ outcome \in {"ok", "failed"} => clock >= called + TTL]_ratesVars
  BY StepIsSpaced
<1> QED BY <1>1, RatesAreSafe, PTL DEF RatesSpec, CallsAreSpaced

\* No customer is given a stale rate without a failure of the bank to excuse it.
THEOREM RatesAreJustified == RatesSpec => AnswersAreJustified
<1>1. RatesInv /\ [RatesNext]_ratesVars
      => [\A r \in Requests : result'[r] # result[r] /\ restarts' = restarts =>
            IF result'[r] = Error
              THEN \/ cached = None /\ (RecentlyFailed \/ FailsNow(r))
                   \/ BroughtNoUse(r)
              ELSE \/ result'[r] = response[r] /\ outcome' = "ok"
                   \/ /\ result'[r] = cached
                      /\ \/ clock < cachedAt + TTL
                         \/ RecentlyFailed \/ FailsNow(r)]_ratesVars
  BY StepIsJustified
<1> QED BY <1>1, RatesAreSafe, PTL DEF RatesSpec, AnswersAreJustified

-----------------------------------------------------------------------------
(***************************************************************************)
(* The service among the requests for quotations.                          *)
(***************************************************************************)
LEMMA StepUsesRates == [Next]_vars => [RatesNext]_ratesVars
<1>1. AdminStep => RatesNext
  BY DEF AdminStep, RatesNext
<1>2. \A r \in Requests : Ask(r) => RatesNext
  BY DEF Ask, RatesNext
<1>3. \A r \in Requests : RateFails(r) => RatesNext \/ UNCHANGED ratesVars
  BY DEF RateFails, RatesNext
<1>4. \A r \in Requests :
        Refuse(r) \/ RateArrives(r) \/ InsertQuotation(r) \/ InsertFails(r)
        => UNCHANGED ratesVars
  BY DEF Refuse, RateArrives, InsertQuotation, InsertFails
<1>5. UNCHANGED vars => UNCHANGED ratesVars
  BY DEF vars
<1> QED BY <1>1, <1>2, <1>3, <1>4, <1>5 DEF Next

\* Whatever the quotation service does, it does to the admin service what the
\* steps of ExchangeRates let a caller do.
THEOREM QuotationsUseRates == Spec => RatesSpec
<1>1. Init => RatesInit
  BY DEF Init
<1> QED BY <1>1, StepUsesRates, PTL DEF Spec, RatesSpec

\* So all that is promised of the rates holds where quotations are made.
THEOREM QuotationsKeepPromises ==
    Spec => RatesMoveForward /\ CallsAreSpaced /\ AnswersAreJustified
<1> QED BY QuotationsUseRates, RatesNeverGoBack, BankIsSpared, RatesAreJustified

-----------------------------------------------------------------------------
(***************************************************************************)
(* Division and rounding.                                                  *)
(***************************************************************************)
LEMMA Division ==
    ASSUME NEW a \in Int, NEW d \in Nat \ {0}
    PROVE  /\ a \div d \in Int /\ a % d \in 0..(d - 1)
           /\ a = d * (a \div d) + (a % d)
OBVIOUS

\* What fits is left as it is; what is too large by one turn is turned back.
LEMMA WrapFits ==
    ASSUME NEW x \in Int, -(MaxInt + 1) <= x, x <= MaxInt
    PROVE  Wrap(x) = x
<1>1. \A m \in Nat \ {0} : \A y \in 0..(m - 1) : y % m = y
  OBVIOUS
<1>2. 2 * (MaxInt + 1) \in Nat \ {0} /\ x + MaxInt + 1 \in 0..(2 * (MaxInt + 1) - 1)
  BY PricingAssumption
<1>3. (x + MaxInt + 1) % (2 * (MaxInt + 1)) = x + MaxInt + 1
  BY <1>1, <1>2
<1> QED BY <1>3, PricingAssumption DEF Wrap

LEMMA WrapTurns ==
    ASSUME NEW x \in Int, MaxInt < x, x <= 2 * MaxInt
    PROVE  Wrap(x) = x - 2 * (MaxInt + 1)
<1>1. ASSUME NEW m \in Int, m > 0, NEW y \in Int, m <= y, y < 2 * m
      PROVE  y % m = y - m
  BY <1>1
<1>2. PICK m \in Int : m = 2 * (MaxInt + 1)
  BY PricingAssumption
<1>3. PICK y \in Int : y = x + MaxInt + 1
  BY PricingAssumption
<1>4. m > 0 /\ m <= y /\ y < 2 * m
  BY <1>2, <1>3, PricingAssumption
<1>5. y % m = y - m
  BY <1>1, <1>4
<1>6. Wrap(x) = (y % m) - (MaxInt + 1)
  BY <1>2, <1>3 DEF Wrap
<1> QED BY <1>2, <1>3, <1>5, <1>6, PricingAssumption

\* Adding half of the divisor before a division rounds to the nearest.
LEMMA RoundsToNearest ==
    ASSUME NEW n \in Nat, NEW d \in Nat \ {0}
    PROVE  Nearest(n, d) = {(n + d \div 2) \div d}
<1> DEFINE q == n \div d
           i == (n + d \div 2) \div d
<1>1. q \in Int /\ d * q <= n /\ n < d * q + d
  BY Division
<1>2. d \div 2 \in Int /\ 2 * (d \div 2) <= d /\ d <= 2 * (d \div 2) + 1
  OBVIOUS
<1>3. i \in Int /\ d * i <= n + d \div 2 /\ n + d \div 2 < d * i + d
  BY <1>2, Division
<1>4. d * (q + 1) = d * q + d /\ d * (i + 1) = d * i + d
  BY <1>1, <1>3
<1>5. i = q \/ i = q + 1
  <2>1. i <= q + 1
    <3>1. d * i < d * (q + 2)
      BY <1>1, <1>2, <1>3
    <3> QED BY <3>1, <1>1, <1>3
  <2>2. q <= i
    <3>1. d * q < d * (i + 1)
      BY <1>1, <1>2, <1>3, <1>4
    <3> QED BY <3>1, <1>1, <1>3
  <2> QED BY <2>1, <2>2, <1>1, <1>3
<1>6. /\ d * i \in Int /\ i * d = d * i
      /\ 1 - d <= 2 * (d * i - n) /\ 2 * (d * i - n) <= d
  BY <1>2, <1>3
<1>7. 2 * (i * d - n) \in (1 - d)..d
  <2>1. ASSUME NEW y \in Int, y = 2 * (d * i - n) PROVE y \in (1 - d)..d
    BY <1>6, <2>1
  <2>2. 2 * (d * i - n) \in Int /\ i * d = d * i
    BY <1>6
  <2> QED BY <2>1, <2>2
<1>8. ASSUME NEW j \in {q, q + 1}, 2 * (j * d - n) \in (1 - d)..d PROVE j = i
  <2>1. j \in Int /\ j * d = d * j /\ (j = i \/ j = i + 1 \/ j + 1 = i)
    BY <1>1, <1>3, <1>5
  <2>2. 1 - d <= 2 * (d * j - n) /\ 2 * (d * j - n) <= d
    BY <1>8, <2>1
  <2>3. d * (j + 1) = d * j + d /\ d * j \in Int
    BY <2>1
  <2> QED BY <1>3, <1>4, <1>6, <2>1, <2>2, <2>3
<1> HIDE DEF q, i
<1>9. Nearest(n, d) = {j \in {q, q + 1} : 2 * (j * d - n) \in (1 - d)..d}
  BY DEF Nearest, q
<1>10. Nearest(n, d) = {i}
  BY <1>5, <1>7, <1>8, <1>9
<1> QED BY <1>10 DEF i

(***************************************************************************)
(* ParseSourcePrice and Calculate.                                         *)
(***************************************************************************)
\* A price is accepted exactly when it has no sign after the point and its
\* exact value is positive and an int64; the wrapped sum is then that value.
LEMMA ParseIsExact ==
    ASSUME NEW whole \in 0..MaxInt, NEW frac \in (1 - Scale)..(Scale - 1)
    PROVE  /\ \/ frac < 0 \/ whole * Scale + frac <= 0 \/ whole * Scale + frac > MaxInt
              => ParseSourcePrice(whole, frac) = Rejected
           /\ frac >= 0 /\ 0 < whole * Scale + frac /\ whole * Scale + frac <= MaxInt
              => ParseSourcePrice(whole, frac) = whole * Scale + frac
<1> DEFINE limit == Quo(Wrap(MaxInt - frac), Scale)
           value == Wrap(Wrap(whole * Scale) + frac)
<1>0. /\ Scale \in Nat \ {0} /\ MaxInt \in Nat /\ MaxInt >= 2 * Scale
      /\ whole \in Nat /\ frac \in Int /\ whole * Scale \in Nat
  BY PricingAssumption
<1>1. ParseSourcePrice(whole, frac) = IF whole > limit \/ value <= 0 THEN Rejected ELSE value
  BY DEF ParseSourcePrice
<1>2. CASE frac < 0
  <2>1. Wrap(MaxInt - frac) = -MaxInt - frac - 2
    BY <1>0, <1>2, WrapTurns
  <2>2. limit = -((MaxInt + frac + 2) \div Scale)
    BY <1>0, <2>1 DEF Quo
  <2>3. (MaxInt + frac + 2) \div Scale >= 0
    BY <1>0
  <2>4. (MaxInt + frac + 2) \div Scale # 0
    BY <1>0
  <2>5. whole > limit
    BY <1>0, <2>2, <2>3, <2>4
  <2> QED BY <1>1, <1>2, <2>5
<1>3. CASE frac >= 0
  <2>1. Wrap(MaxInt - frac) = MaxInt - frac
    BY <1>0, <1>3, WrapFits
  <2> DEFINE q == (MaxInt - frac) \div Scale
  <2>2. limit = q
    BY <1>0, <1>3, <2>1 DEF Quo
  <2>3. q \in Int /\ Scale * q <= MaxInt - frac /\ MaxInt - frac < Scale * q + Scale
    BY <1>0, <1>3, Division
  <2>4. whole <= q => whole * Scale + frac <= MaxInt
    <3>1. whole <= q => whole * Scale <= Scale * q
      BY <1>0, <2>3
    <3> QED BY <1>0, <2>3, <3>1
  <2>5. whole > q => whole * Scale + frac > MaxInt
    <3>1. whole > q => whole * Scale >= Scale * (q + 1)
      BY <1>0, <2>3
    <3>2. Scale * (q + 1) = Scale * q + Scale
      BY <1>0, <2>3
    <3> QED BY <1>0, <2>3, <3>1, <3>2
  <2>6. whole * Scale + frac <= MaxInt => value = whole * Scale + frac
    <3>1. ASSUME whole * Scale + frac <= MaxInt PROVE Wrap(whole * Scale) = whole * Scale
      BY <1>0, <1>3, <3>1, WrapFits
    <3>2. ASSUME whole * Scale + frac <= MaxInt
          PROVE  Wrap(whole * Scale + frac) = whole * Scale + frac
      BY <1>0, <1>3, <3>2, WrapFits
    <3> QED BY <3>1, <3>2
  <2> HIDE DEF q, limit, value
  <2> QED BY <1>0, <1>1, <1>3, <2>2, <2>3, <2>4, <2>5, <2>6
<1> QED BY <1>0, <1>2, <1>3

\* The fee is no more than the amount.
LEMMA FeeIsSmall ==
    ASSUME NEW amount \in Nat
    PROVE  Fee(amount) \in Nat /\ Fee(amount) <= amount
BY DEF Fee

\* The guard, which is computed with integers that wrap, says of an amount that
\* the exact total is an int64; the total that is stored is then exact.
LEMMA TotalIsExact ==
    ASSUME NEW amount \in Nat
    PROVE  /\ Fits(amount) <=> amount + Fee(amount) + Shipping <= MaxInt
           /\ Fits(amount) => Wrap(Wrap(amount + Fee(amount)) + Shipping)
                              = amount + Fee(amount) + Shipping
<1>0. MaxInt \in Nat /\ Shipping \in Nat /\ Shipping <= MaxInt
      /\ Fee(amount) \in Nat /\ Fee(amount) <= amount
  BY PricingAssumption, FeeIsSmall
<1>1. CASE amount > MaxInt
  BY <1>0, <1>1 DEF Fits
<1>2. CASE amount <= MaxInt
  <2>1. Wrap(MaxInt - Fee(amount)) = MaxInt - Fee(amount)
    BY <1>0, <1>2, WrapFits
  <2>2. Wrap(MaxInt - Fee(amount) - Shipping) = MaxInt - Fee(amount) - Shipping
    BY <1>0, <1>2, WrapFits
  <2>3. Fits(amount) <=> amount + Fee(amount) + Shipping <= MaxInt
    BY <1>0, <1>2, <2>1, <2>2 DEF Fits
  <2>4. ASSUME amount + Fee(amount) + Shipping <= MaxInt
        PROVE  /\ Wrap(amount + Fee(amount)) = amount + Fee(amount)
               /\ Wrap(amount + Fee(amount) + Shipping) = amount + Fee(amount) + Shipping
    BY <1>0, <2>4, WrapFits
  <2> QED BY <2>3, <2>4
<1> QED BY <1>0, <1>1, <1>2

\* The amount and the fee are the nearest to what is exact.
LEMMA AmountIsNearest ==
    ASSUME NEW p \in Nat, NEW q \in Nat, NEW x \in Nat
    PROVE  Amount(p, q, x) \in Nat /\ Nearest(p * q * x, Scale) = {Amount(p, q, x)}
<1>1. p * q * x \in Nat
  OBVIOUS
<1>2. PICK n \in Nat : n = p * q * x
  BY <1>1
<1>3. (n + Scale \div 2) \div Scale \in Nat
  BY PricingAssumption
<1> QED BY <1>2, <1>3, RoundsToNearest, PricingAssumption DEF Amount

LEMMA FeeIsNearest ==
    ASSUME NEW amount \in Nat
    PROVE  FeesOn(amount) = {Fee(amount)}
<1>1. amount * 5 \in Nat /\ 100 \in Nat \ {0} /\ 100 \div 2 = 50
  OBVIOUS
<1> QED BY <1>1, RoundsToNearest DEF FeesOn, Fee

-----------------------------------------------------------------------------
(***************************************************************************)
(* The requests.  What a quotation is made from - the answer of the admin  *)
(* service - is not changed any more.                                      *)
(***************************************************************************)
Priced(r) ==
    /\ get[r] = "done"
    /\ result[r] \in {v \in Snapshots : Validate(v)}
    /\ Products[r].currency \in Currencies
    /\ Price(r) # Rejected

Accepted(r) == Accepts(Price(r), Products[r].quantity, Rate(r))

RequestInv(r) ==
    /\ get[r] = "done" => result[r] # None
    /\ pc[r] = "asked" => Price(r) # Rejected
    /\ pc[r] = "insert" => Priced(r) /\ Accepted(r)
    /\ reply[r] = "invalid" => Priced(r) /\ ~Accepted(r)
    /\ reply[r] = "refused" => r \in Refused \/ Price(r) = Rejected
    /\ quotations[r] # None =>
         Priced(r) /\ Accepted(r) /\ quotations[r] = Row(r)

QuotationTypeOK ==
    /\ pc \in [Requests -> {"new", "asked", "insert", "done"}]
    /\ reply \in [Requests -> Replies \cup {None}]
    /\ quotations \in [Requests -> Rows \cup {None}]

QuotationInv ==
    /\ RatesInv
    /\ QuotationTypeOK
    /\ \A r \in Requests : RequestInv(r)

\* What is priced has an exact price and a rate.
LEMMA PricedExactly ==
    ASSUME RatesTypeOK, NEW r \in Requests, Priced(r)
    PROVE  /\ Price(r) \in 1..MaxInt /\ Price(r) = Written(r)
           /\ Products[r].quantity \in 1..MaxInt
           /\ Rate(r) \in Nat \ {0}
           /\ Validate(result[r]) /\ Rate(r) = Rates[result[r]][Products[r].currency]
           /\ Amount(Price(r), Products[r].quantity, Rate(r)) \in Nat
           /\ AmountsAt(r, Rate(r)) = {Amount(Price(r), Products[r].quantity, Rate(r))}
           /\ Accepted(r) <=> Fits(Amount(Price(r), Products[r].quantity, Rate(r)))
<1>1. /\ Products[r].whole \in 0..MaxInt
      /\ Products[r].frac \in (1 - Scale)..(Scale - 1)
      /\ Products[r].quantity \in 1..MaxInt
  BY ProductsAssumption
<1>2. Written(r) \in Int
  BY <1>1, PricingAssumption DEF Written
<1>3. Price(r) \in 1..MaxInt /\ Price(r) = Written(r)
  BY <1>1, <1>2, ParseIsExact, PricingAssumption DEF Priced, Price, Written
<1>4. Rate(r) \in Nat \ {0} /\ Validate(result[r])
  BY RatesAssumption DEF Priced, Rate, Validate
<1>5. /\ Amount(Price(r), Products[r].quantity, Rate(r)) \in Nat
      /\ AmountsAt(r, Rate(r)) = {Amount(Price(r), Products[r].quantity, Rate(r))}
  <2>1. Price(r) \in Nat /\ Products[r].quantity \in Nat /\ Rate(r) \in Nat
    BY <1>1, <1>3, <1>4, PricingAssumption
  <2>2. AmountsAt(r, Rate(r)) = Nearest(Price(r) * Products[r].quantity * Rate(r), Scale)
    BY <1>3 DEF AmountsAt
  <2> QED BY <2>1, <2>2, AmountIsNearest
<1>6. Accepted(r) <=> Fits(Amount(Price(r), Products[r].quantity, Rate(r)))
  BY <1>1, <1>3, <1>4, PricingAssumption DEF Accepted, Accepts
<1> QED BY <1>1, <1>3, <1>4, <1>5, <1>6 DEF Rate

LEMMA RowIsTyped ==
    ASSUME RatesTypeOK, NEW r \in Requests, Priced(r), Accepted(r)
    PROVE  Row(r) \in Rows
<1> DEFINE a == Amount(Price(r), Products[r].quantity, Rate(r))
<1>1. a \in Nat /\ Fee(a) \in Nat /\ a + Fee(a) + Shipping <= MaxInt
      /\ Wrap(Wrap(a + Fee(a)) + Shipping) = a + Fee(a) + Shipping
  BY PricedExactly, TotalIsExact, FeeIsSmall
<1>2. a + Fee(a) + Shipping > 0
  BY <1>1, PricingAssumption
<1> QED BY <1>1, <1>2, PricedExactly, PricingAssumption DEF Row, Rows, Calculate

\* An answer of the admin service is final.
Final(r) ==
    /\ get[r] = "done" => get'[r] = "done" /\ result'[r] = result[r]
    /\ get'[r] = "done" => get[r] = "done" \/ result'[r] # None

LEMMA AnswersStay ==
    ASSUME RatesInv, [RatesNext]_ratesVars, NEW r \in Requests
    PROVE  Final(r)
<1> USE DEF RatesInv, RatesTypeOK
<1>0. \A v \in Snapshots : v # None
  BY RatesAssumption DEF Snapshots
<1>1. ASSUME NEW s \in Requests, NEW a, a # None, get[s] # "done", Answer(s, a)
      PROVE  Final(r)
  BY <1>1 DEF Answer, Final
<1>2. ASSUME NEW s \in Requests, GetSystemRates(s)
      PROVE  Final(r)
  <2>1. CASE Call(s)
    BY <1>2, <2>1 DEF GetSystemRates, Call, Final
  <2>2. CASE Serve(s) \/ BackOff(s)
    BY <1>1, <1>2, <2>2, RatesAssumption DEF GetSystemRates, Serve, BackOff
  <2> QED BY <1>2, <2>1, <2>2 DEF GetSystemRates
<1>3. ASSUME NEW s \in Requests, FetchFails(s)
      PROVE  Final(r)
  <2>1. PICK a : a # None /\ Answer(s, a)
    BY <1>3, RatesAssumption DEF FetchFails
  <2> QED BY <1>1, <1>3, <2>1 DEF FetchFails
<1>4. ASSUME NEW s \in Requests, FetchSucceeds(s)
      PROVE  Final(r)
  <2>1. get[s] = "answered" /\ response[s] # None
    BY <1>0, <1>4 DEF FetchSucceeds, CallInv
  <2>2. PICK a : a # None /\ Answer(s, a)
    BY <1>4, <2>1, RatesAssumption DEF FetchSucceeds, Reject, Replace
  <2> QED BY <1>1, <2>1, <2>2
<1>5. CASE Restart
  BY <1>5, RatesAssumption DEF Restart, Final
<1>6. ASSUME NEW s \in Requests, Request(s) \/ Cancel(s) \/ BankAnswers(s)
      PROVE  Final(r)
  BY <1>6 DEF Request, Cancel, BankAnswers, Final, goroutine
<1>7. CASE Tick \/ SourceChanges \/ UNCHANGED ratesVars
  BY <1>7 DEF Tick, SourceChanges, Final, goroutine, ratesVars
<1> QED BY <1>2, <1>3, <1>4, <1>5, <1>6, <1>7 DEF RatesNext

LEMMA QuotationInvInit == Init => QuotationInv
<1> SUFFICES ASSUME Init PROVE QuotationInv
  OBVIOUS
<1>1. RatesInv
  BY RatesInvInit DEF Init
<1>2. /\ pc = [r \in Requests |-> "new"]
      /\ reply = [r \in Requests |-> None]
      /\ quotations = [r \in Requests |-> None]
      /\ get = [r \in Requests |-> "none"]
  BY DEF Init, RatesInit
<1>3. QuotationTypeOK
  <2> DEFINE S == Rows \cup {None}
  <2>1. None \in S
    OBVIOUS
  <2> HIDE DEF S
  <2>2. quotations \in [Requests -> S]
    BY <1>2, <2>1
  <2> QED BY <1>2, <2>2 DEF QuotationTypeOK, S
<1>4. None # "invalid" /\ None # "refused"
  BY ProductsAssumption DEF Replies
<1> QED BY <1>1, <1>2, <1>3, <1>4 DEF QuotationInv, RequestInv

\* While the rates answer and the handler of r does nothing, what is known of r stays.
LEMMA OthersStay ==
    ASSUME QuotationInv, [RatesNext]_ratesVars, NEW r \in Requests,
           pc'[r] = pc[r], reply'[r] = reply[r], quotations'[r] = quotations[r]
    PROVE  RequestInv(r)'
<1>1. RequestInv(r) /\ Final(r)
  BY AnswersStay DEF QuotationInv
<1>2. Price(r)' = Price(r)
  BY DEF Price
<1>3. Priced(r) => Priced(r)' /\ Rate(r)' = Rate(r)
  BY <1>1, <1>2 DEF Priced, Rate, Final
<1>4. Priced(r) => (Accepted(r)' <=> Accepted(r)) /\ Row(r)' = Row(r)
  BY <1>2, <1>3 DEF Accepted, Row
<1> QED BY <1>1, <1>2, <1>3, <1>4 DEF RequestInv, Final

\* A handler changes its own request only.
Own(r) ==
    \A s \in Requests \ {r} :
        pc'[s] = pc[s] /\ reply'[s] = reply[s] /\ quotations'[s] = quotations[s]

LEMMA EndsKeeps ==
    ASSUME QuotationTypeOK, NEW r \in Requests, NEW a \in Replies, Ends(r, a)
    PROVE  /\ pc' \in [Requests -> {"new", "asked", "insert", "done"}]
           /\ reply' \in [Requests -> Replies \cup {None}]
           /\ pc'[r] = "done" /\ reply'[r] = a
           /\ \A s \in Requests \ {r} : pc'[s] = pc[s] /\ reply'[s] = reply[s]
BY DEF QuotationTypeOK, Ends

LEMMA StoreKeeps ==
    ASSUME QuotationTypeOK, NEW r \in Requests, Row(r) \in Rows,
           Store(r) \/ UNCHANGED quotations
    PROVE  /\ quotations' \in [Requests -> Rows \cup {None}]
           /\ quotations'[r] = Row(r) \/ quotations'[r] = quotations[r]
           /\ \A s \in Requests \ {r} : quotations'[s] = quotations[s]
<1> DEFINE S == Rows \cup {None}
<1>1. quotations \in [Requests -> S] /\ Row(r) \in S
  BY DEF QuotationTypeOK
<1>2. quotations' = [quotations EXCEPT ![r] = Row(r)] \/ quotations' = quotations
  BY DEF Store
<1> HIDE DEF S
<1>3. /\ quotations' \in [Requests -> S]
      /\ quotations'[r] = Row(r) \/ quotations'[r] = quotations[r]
      /\ \A s \in Requests \ {r} : quotations'[s] = quotations[s]
  BY <1>1, <1>2
<1> QED BY <1>3 DEF S

LEMMA RefuseKeeps ==
    ASSUME QuotationInv, NEW r \in Requests, Refuse(r)
    PROVE  QuotationTypeOK' /\ RequestInv(r)' /\ Own(r)
<1>1. Ends(r, "refused") /\ "refused" \in Replies /\ UNCHANGED <<quotations, ratesVars>>
  BY DEF Refuse, Replies
<1>2. pc'[r] = "done" /\ reply'[r] = "refused" /\ QuotationTypeOK' /\ Own(r)
  BY <1>1, EndsKeeps DEF QuotationInv, QuotationTypeOK, Own
<1>3. r \in Refused \/ Price(r) = Rejected
  BY DEF Refuse
<1>4. RequestInv(r)
  BY DEF QuotationInv
<1> QED BY <1>1, <1>2, <1>3, <1>4
     DEF RequestInv, Priced, Accepted, Price, Rate, Row, ratesVars, goroutine

LEMMA AskKeeps ==
    ASSUME QuotationInv, NEW r \in Requests, Ask(r)
    PROVE  QuotationTypeOK' /\ RequestInv(r)' /\ Own(r)
<1>1. /\ pc' = [pc EXCEPT ![r] = "asked"] /\ UNCHANGED <<reply, quotations>>
      /\ Request(r) /\ Price(r) # Rejected
  BY DEF Ask
<1>2. pc'[r] = "asked" /\ QuotationTypeOK' /\ Own(r)
  BY <1>1 DEF QuotationInv, QuotationTypeOK, Own
<1>3. RequestInv(r) /\ get[r] # "done" /\ get'[r] # "done"
  BY <1>1 DEF QuotationInv, RatesInv, RatesTypeOK, Request
<1> QED BY <1>1, <1>2, <1>3 DEF RequestInv, Priced, Price

LEMMA RateFailsKeeps ==
    ASSUME QuotationInv, NEW r \in Requests, RateFails(r)
    PROVE  QuotationTypeOK' /\ RequestInv(r)' /\ Own(r)
<1>1. /\ Ends(r, "unavailable") /\ "unavailable" \in Replies
      /\ UNCHANGED <<quotations, get, result>>
  BY DEF RateFails, Replies, Cancel, goroutine, ratesVars
<1>2. pc'[r] = "done" /\ reply'[r] = "unavailable" /\ QuotationTypeOK' /\ Own(r)
  BY <1>1, EndsKeeps DEF QuotationInv, QuotationTypeOK, Own
<1>3. RequestInv(r)
  BY DEF QuotationInv
<1> QED BY <1>1, <1>2, <1>3 DEF RequestInv, Priced, Accepted, Price, Rate, Row

LEMMA RateArrivesKeeps ==
    ASSUME QuotationInv, NEW r \in Requests, RateArrives(r)
    PROVE  QuotationTypeOK' /\ RequestInv(r)' /\ Own(r)
<1>1. /\ pc[r] = "asked" /\ get[r] = "done" /\ RequestInv(r)
      /\ UNCHANGED <<quotations, get, result>>
  BY DEF RateArrives, QuotationInv, ratesVars, goroutine
<1>2. /\ Price(r)' = Price(r) /\ Rate(r)' = Rate(r) /\ Row(r)' = Row(r)
      /\ Accepted(r)' = Accepted(r) /\ Priced(r)' = Priced(r)
  BY <1>1 DEF Price, Rate, Row, Accepted, Priced
<1>3. result[r] # Error /\ Products[r].currency \in Currencies => Priced(r)
  BY <1>1 DEF RequestInv, Priced, QuotationInv, RatesInv, RatesTypeOK
<1>4. CASE Ends(r, "unavailable") \/ Ends(r, "unsupported")
  <2>1. PICK a \in {"unavailable", "unsupported"} : Ends(r, a) /\ a \in Replies
    BY <1>4 DEF Replies
  <2>2. pc'[r] = "done" /\ reply'[r] = a /\ QuotationTypeOK' /\ Own(r)
    BY <1>1, <2>1, EndsKeeps DEF QuotationInv, QuotationTypeOK, Own
  <2> QED BY <1>1, <1>2, <2>2 DEF RequestInv
<1>5. CASE Ends(r, "invalid") /\ Priced(r) /\ ~Accepted(r)
  <2>1. "invalid" \in Replies
    BY DEF Replies
  <2>2. pc'[r] = "done" /\ reply'[r] = "invalid" /\ QuotationTypeOK' /\ Own(r)
    BY <1>1, <1>5, <2>1, EndsKeeps DEF QuotationInv, QuotationTypeOK, Own
  <2> QED BY <1>1, <1>2, <1>5, <2>2 DEF RequestInv
<1>6. CASE pc' = [pc EXCEPT ![r] = "insert"] /\ UNCHANGED reply /\ Priced(r) /\ Accepted(r)
  <2>1. pc'[r] = "insert" /\ reply'[r] = reply[r] /\ QuotationTypeOK' /\ Own(r)
    BY <1>1, <1>6 DEF QuotationInv, QuotationTypeOK, Own
  <2> QED BY <1>1, <1>2, <1>6, <2>1 DEF RequestInv
<1> QED BY <1>3, <1>4, <1>5, <1>6 DEF RateArrives, Accepted

LEMMA InsertKeeps ==
    ASSUME QuotationInv, NEW r \in Requests, InsertQuotation(r) \/ InsertFails(r)
    PROVE  QuotationTypeOK' /\ RequestInv(r)' /\ Own(r)
<1>1. /\ Priced(r) /\ Accepted(r) /\ RequestInv(r)
      /\ Store(r) \/ UNCHANGED quotations
      /\ UNCHANGED <<get, result>>
  BY DEF InsertQuotation, InsertFails, QuotationInv, RequestInv, ratesVars, goroutine
<1>2. PICK a \in {"quoted", "error"} : Ends(r, a) /\ a \in Replies
  BY DEF InsertQuotation, InsertFails, Replies
<1>3. /\ Price(r)' = Price(r) /\ Rate(r)' = Rate(r) /\ Row(r)' = Row(r)
      /\ Accepted(r)' = Accepted(r) /\ Priced(r)' = Priced(r)
  BY <1>1 DEF Price, Rate, Row, Accepted, Priced
<1>4. Row(r) \in Rows
  BY <1>1, RowIsTyped DEF QuotationInv, RatesInv
<1>5. /\ pc'[r] = "done" /\ reply'[r] = a /\ QuotationTypeOK' /\ Own(r)
      /\ quotations'[r] = Row(r) \/ quotations'[r] = quotations[r]
  BY <1>1, <1>2, <1>4, EndsKeeps, StoreKeeps DEF QuotationInv, QuotationTypeOK, Own
<1> QED BY <1>1, <1>3, <1>5 DEF RequestInv

LEMMA QuotationInvStep == ASSUME QuotationInv, [Next]_vars PROVE QuotationInv'
<1>1. [RatesNext]_ratesVars /\ RatesInv'
  BY StepUsesRates, RatesInvStep DEF QuotationInv
<1>2. ASSUME UNCHANGED quotationVars
      PROVE  QuotationTypeOK' /\ \A r \in Requests : RequestInv(r)'
  BY <1>1, <1>2, OthersStay DEF QuotationInv, QuotationTypeOK, quotationVars
<1>3. ASSUME NEW r \in Requests, QuotationTypeOK', RequestInv(r)', Own(r)
      PROVE  QuotationTypeOK' /\ \A s \in Requests : RequestInv(s)'
  BY <1>1, <1>3, OthersStay DEF Own
<1>4. CASE AdminStep \/ UNCHANGED vars
  BY <1>1, <1>2, <1>4 DEF AdminStep, vars, QuotationInv
<1>5. ASSUME NEW r \in Requests,
             \/ Refuse(r) \/ Ask(r) \/ RateFails(r) \/ RateArrives(r)
             \/ InsertQuotation(r) \/ InsertFails(r)
      PROVE  QuotationInv'
  <2>1. QuotationTypeOK' /\ RequestInv(r)' /\ Own(r)
    BY <1>5, RefuseKeeps, AskKeeps, RateFailsKeeps, RateArrivesKeeps, InsertKeeps
  <2> QED BY <1>1, <1>3, <2>1 DEF QuotationInv
<1> QED BY <1>4, <1>5 DEF Next

-----------------------------------------------------------------------------
\* What is stored is what was asked for, at the rate that was answered.
THEOREM QuotationsAreSafe == Spec => []QuotationInv
<1> QED BY QuotationInvInit, QuotationInvStep, PTL DEF Spec

\* Every row holds 64-bit integers above 0 where the table wants them.
THEOREM QuotationTypeCorrect == Spec => []TypeOK
<1>1. QuotationInv => TypeOK
  BY DEF QuotationInv, QuotationTypeOK, RatesInv, TypeOK
<1> QED BY <1>1, QuotationsAreSafe, PTL

LEMMA AddsUp == ASSUME QuotationInv PROVE QuotationAddsUp
<1> SUFFICES ASSUME NEW r \in Requests
    PROVE  /\ quotations[r] # None =>
                LET q == quotations[r] IN
                /\ \E v \in Snapshots : Validate(v) /\ q.rate = Rates[v][Products[r].currency]
                /\ q.amount \in AmountsAt(r, q.rate) /\ q.fee \in FeesOn(q.amount)
                /\ q.total = q.amount + q.fee + Shipping
           /\ reply[r] = "invalid" =>
                \A amount \in AmountsAt(r, Rate(r)) : \A fee \in FeesOn(amount) :
                    amount + fee + Shipping > MaxInt
           /\ reply[r] = "refused" =>
                \/ r \in Refused \/ Products[r].frac < 0
                \/ Written(r) = 0 \/ Written(r) > MaxInt
  BY DEF QuotationAddsUp
<1> DEFINE a == Amount(Price(r), Products[r].quantity, Rate(r))
<1>1. RatesTypeOK /\ RequestInv(r)
  BY DEF QuotationInv, RatesInv
<1>2. Priced(r) => a \in Nat /\ Fee(a) \in Nat /\ AmountsAt(r, Rate(r)) = {a}
                   /\ FeesOn(a) = {Fee(a)} /\ (Accepted(r) <=> Fits(a))
  BY <1>1, PricedExactly, FeeIsSmall, FeeIsNearest
<1>3. ASSUME quotations[r] # None
      PROVE  LET q == quotations[r] IN
             /\ \E v \in Snapshots : Validate(v) /\ q.rate = Rates[v][Products[r].currency]
             /\ q.amount \in AmountsAt(r, q.rate) /\ q.fee \in FeesOn(q.amount)
             /\ q.total = q.amount + q.fee + Shipping
  <2>1. Priced(r) /\ Accepted(r) /\ quotations[r] = Row(r)
    BY <1>1, <1>3 DEF RequestInv
  <2>2. /\ quotations[r].rate = Rate(r) /\ quotations[r].amount = a
        /\ quotations[r].fee = Fee(a)
        /\ quotations[r].total = Wrap(Wrap(a + Fee(a)) + Shipping)
    BY <2>1 DEF Row, Calculate
  <2>3. quotations[r].total = a + Fee(a) + Shipping
    BY <1>2, <2>1, <2>2, TotalIsExact
  <2>4. \E v \in Snapshots : Validate(v) /\ Rate(r) = Rates[v][Products[r].currency]
    BY <2>1 DEF Priced, Rate
  <2> QED BY <1>2, <2>1, <2>2, <2>3, <2>4
<1>4. ASSUME reply[r] = "invalid",
             NEW amount \in AmountsAt(r, Rate(r)), NEW fee \in FeesOn(amount)
      PROVE  amount + fee + Shipping > MaxInt
  <2>1. Priced(r) /\ ~Accepted(r)
    BY <1>1, <1>4 DEF RequestInv
  <2>2. amount = a /\ fee = Fee(a) /\ ~Fits(a)
    BY <1>2, <1>4, <2>1
  <2> QED BY <1>2, <2>1, <2>2, TotalIsExact, PricingAssumption
<1>5. ASSUME reply[r] = "refused", r \notin Refused
      PROVE  Products[r].frac < 0 \/ Written(r) = 0 \/ Written(r) > MaxInt
  <2>1. ParseSourcePrice(Products[r].whole, Products[r].frac) = Rejected
    BY <1>1, <1>5 DEF RequestInv, Price
  <2>2. /\ Products[r].whole \in 0..MaxInt
        /\ Products[r].frac \in (1 - Scale)..(Scale - 1)
        /\ Products[r].whole * Scale \in Nat
    BY ProductsAssumption, PricingAssumption
  <2>3. Written(r) = Products[r].whole * Scale + Products[r].frac
    BY DEF Written
  <2>4. Products[r].frac >= 0 /\ 0 < Written(r) /\ Written(r) <= MaxInt => Written(r) = Rejected
    BY <2>1, <2>2, <2>3, ParseIsExact
  <2> QED BY <2>2, <2>3, <2>4, PricingAssumption DEF Rejected
<1> QED BY <1>3, <1>4, <1>5

\* No quotation is wrong by a dong or by a wrapped sum, for integers of any
\* width, any prices, quantities, rates and shipping; and none is refused that
\* has a price and a total that fit.
THEOREM QuotationsAddUp == Spec => []QuotationAddsUp
<1> QED BY AddsUp, QuotationsAreSafe, PTL
=============================================================================
