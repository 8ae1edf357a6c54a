---------------------------- MODULE ExchangeRates ----------------------------
(***************************************************************************)
(* The admin service's cache of the bank's rates:                          *)
(*   internal/admin/adapters/vietcombank/provider.go                       *)
(*   internal/admin/domain/rates.go, Validate                              *)
(*                                                                         *)
(* Every request for the rates is a goroutine; GetSystemRates holds a      *)
(* mutex from beginning to end, the call of the bank included.  The call   *)
(* lives in the context of the request it is made for, and fails when the  *)
(* caller has gone.  The bank numbers its snapshots as it issues them; a   *)
(* rate that rounds to 0 makes a snapshot useless.  The cache is lost when *)
(* the service stops.                                                      *)
(***************************************************************************)
EXTENDS Integers

CONSTANTS
    Requests,
    Currencies,     \* SupportedCurrencies
    MaxSnapshot,    \* bound: snapshots the bank issues
    Rates,          \* their selling rates, rounded to whole VND
    TTL,            \* cacheTTL, in ticks
    MaxClock,       \* bound: ticks
    MaxRestarts,    \* bound: stops of the admin service
    Error, None

Snapshots == 1..MaxSnapshot

ASSUME RatesAssumption ==
    /\ MaxSnapshot \in Nat
    /\ Rates \in [Snapshots -> [Currencies -> Nat]]
    /\ TTL \in Nat \ {0}
    /\ MaxClock \in Nat
    /\ MaxRestarts \in Nat
    /\ None \notin Int \cup Requests \cup {Error} /\ Error \notin Int

VARIABLES
    clock,
    source,     \* the bank's current snapshot, 0 before the first
    cached,     \* the cached snapshot, None: hasCache is false
    lastErr,    \* lastErr # nil
    expiresAt,
    get,        \* where the goroutine of a request is
    started,    \* now: the time it read when it got the mutex for a call
    response,   \* the snapshot the bank has sent it
    gone,       \* requests without an answer whose caller has gone
    result,     \* the snapshot that answers a request, Error, or None
    cachedAt,   \* history: when the call was begun that gave the cached one
    called,     \* history: when the last finished call was begun
    outcome,    \* history: how it ended
    restarts    \* how often the service has stopped

provider  == <<cached, lastErr, expiresAt>>
goroutine == <<get, started, response, result>>
past      == <<cachedAt, called, outcome>>
ratesVars == <<clock, source, provider, goroutine, gone, past, restarts>>

Times == 0..MaxClock

\* No rate is negative, and a currency without a rate is an error of the call.
Validate(v) == \A c \in Currencies : Rates[v][c] > 0

RatesTypeOK ==
    /\ clock \in Times
    /\ source \in 0..MaxSnapshot
    /\ cached \in {v \in Snapshots : Validate(v)} \cup {None}
    /\ lastErr \in BOOLEAN
    /\ expiresAt \in 0..MaxClock + TTL
    /\ get \in [Requests -> {"none", "waiting", "calling", "answered", "done"}]
    /\ started \in [Requests -> Times \cup {None}]
    /\ response \in [Requests -> Snapshots \cup {None}]
    /\ gone \subseteq Requests
    /\ result \in [Requests -> {v \in Snapshots : Validate(v)} \cup {Error, None}]
    /\ cachedAt \in Times \cup {None}
    /\ called \in Times \cup {None}
    /\ outcome \in {"ok", "failed", "unusable", "none"}
    /\ restarts \in 0..MaxRestarts

Fresh ==
    /\ cached' = None /\ lastErr' = FALSE /\ expiresAt' = 0
    /\ cachedAt' = None /\ called' = None /\ outcome' = "none"

RatesInit ==
    /\ clock = 0 /\ source = 0
    /\ cached = None /\ lastErr = FALSE /\ expiresAt = 0
    /\ get = [r \in Requests |-> "none"]
    /\ started = [r \in Requests |-> None]
    /\ response = [r \in Requests |-> None]
    /\ gone = {}
    /\ result = [r \in Requests |-> None]
    /\ cachedAt = None /\ called = None /\ outcome = "none"
    /\ restarts = 0

-----------------------------------------------------------------------------
Tick ==
    /\ clock < MaxClock
    /\ clock' = clock + 1
    /\ UNCHANGED <<source, provider, goroutine, gone, past, restarts>>

SourceChanges ==
    /\ source < MaxSnapshot
    /\ source' = source + 1
    /\ UNCHANGED <<clock, provider, goroutine, gone, past, restarts>>

\* A request comes in; its caller gives it up.
Request(r) ==
    /\ get[r] = "none"
    /\ get' = [get EXCEPT ![r] = "waiting"]
    /\ UNCHANGED <<clock, source, provider, started, response, result, gone, past, restarts>>

Cancel(r) ==
    /\ get[r] \in {"waiting", "calling", "answered"}
    /\ gone' = gone \cup {r}
    /\ UNCHANGED <<clock, source, provider, goroutine, past, restarts>>

Answer(r, a) ==
    /\ get' = [get EXCEPT ![r] = "done"]
    /\ result' = [result EXCEPT ![r] = a]
    /\ started' = [started EXCEPT ![r] = None]
    /\ response' = [response EXCEPT ![r] = None]
    /\ gone' = gone \ {r}

-----------------------------------------------------------------------------
(***************************************************************************)
(* GetSystemRates, from Lock to Unlock.                                    *)
(***************************************************************************)
Locked == \E r \in Requests : get[r] \in {"calling", "answered"}

Serve(r) ==
    /\ cached # None /\ clock < expiresAt
    /\ Answer(r, cached)

BackOff(r) ==
    /\ cached = None /\ lastErr /\ clock < expiresAt
    /\ Answer(r, Error)

Call(r) ==
    /\ ~(clock < expiresAt /\ (cached # None \/ lastErr))
    /\ get' = [get EXCEPT ![r] = "calling"]
    /\ started' = [started EXCEPT ![r] = clock]
    /\ UNCHANGED <<response, result, gone>>

\* A fault: the mutex is left during the call.
GetUnlocked(r) ==
    /\ get[r] = "waiting"
    /\ Serve(r) \/ BackOff(r) \/ Call(r)
    /\ UNCHANGED <<clock, source, provider, past, restarts>>

GetSystemRates(r) ==
    /\ get[r] = "waiting"
    /\ ~Locked
    /\ Serve(r) \/ BackOff(r) \/ Call(r)
    /\ UNCHANGED <<clock, source, provider, past, restarts>>

\* The bank sends its current snapshot.
BankAnswers(r) ==
    /\ get[r] = "calling" /\ r \notin gone
    /\ source # 0
    /\ get' = [get EXCEPT ![r] = "answered"]
    /\ response' = [response EXCEPT ![r] = source]
    /\ UNCHANGED <<clock, source, provider, started, result, gone, past, restarts>>

Ended(r, o) == called' = started[r] /\ outcome' = o

\* A fault: a failure is not put off.
FetchFailsAtOnce(r) ==
    /\ get[r] \in {"calling", "answered"}
    /\ lastErr' = (lastErr \/ cached = None)
    /\ Answer(r, IF cached # None THEN cached ELSE Error)
    /\ Ended(r, "failed")
    /\ UNCHANGED <<clock, source, cached, expiresAt, cachedAt, restarts>>

\* fetch fails: the caller has gone, the bank does not answer in time, or what
\* it sends is no list, or one without a supported currency.
FetchFails(r) ==
    /\ get[r] \in {"calling", "answered"}
    /\ expiresAt' = started[r] + TTL
    /\ lastErr' = (lastErr \/ cached = None)
    /\ Answer(r, IF cached # None THEN cached ELSE Error)
    /\ Ended(r, "failed")
    /\ UNCHANGED <<clock, source, cached, cachedAt, restarts>>

\* A snapshot that is no use changes nothing, the time of expiry included.
Reject(r) ==
    /\ ~Validate(response[r])
    /\ Answer(r, Error)
    /\ Ended(r, "unusable")
    /\ UNCHANGED <<provider, cachedAt>>

\* A fault: the age of a snapshot is counted from when it is there.
ReplaceLate(r) ==
    /\ Validate(response[r])
    /\ cached' = response[r] /\ cachedAt' = started[r]
    /\ expiresAt' = clock + TTL
    /\ lastErr' = FALSE
    /\ Answer(r, response[r])
    /\ Ended(r, "ok")

Replace(r) ==
    /\ Validate(response[r])
    /\ cached' = response[r] /\ cachedAt' = started[r]
    /\ expiresAt' = started[r] + TTL
    /\ lastErr' = FALSE
    /\ Answer(r, response[r])
    /\ Ended(r, "ok")

FetchSucceeds(r) ==
    /\ get[r] = "answered"
    /\ Reject(r) \/ Replace(r)
    /\ UNCHANGED <<clock, source, restarts>>

\* The admin service stops, and starts with nothing.
Restart ==
    LET Lost == {r \in Requests : get[r] \in {"waiting", "calling", "answered"}} IN
    /\ restarts < MaxRestarts
    /\ restarts' = restarts + 1
    /\ Fresh
    /\ get' = [r \in Requests |-> IF r \in Lost THEN "done" ELSE get[r]]
    /\ result' = [r \in Requests |-> IF r \in Lost THEN Error ELSE result[r]]
    /\ started' = [r \in Requests |-> None]
    /\ response' = [r \in Requests |-> None]
    /\ gone' = {}
    /\ UNCHANGED <<clock, source>>

-----------------------------------------------------------------------------
RatesNext ==
    \/ Tick \/ SourceChanges \/ Restart
    \/ \E r \in Requests :
         \/ Request(r) \/ Cancel(r) \/ GetSystemRates(r)
         \/ BankAnswers(r) \/ FetchFails(r) \/ FetchSucceeds(r)

RatesSpec == RatesInit /\ [][RatesNext]_ratesVars

-----------------------------------------------------------------------------
(***************************************************************************)
(* What the bank and the customers are promised.                           *)
(***************************************************************************)
\* The rates never go back: a slow answer of the bank does not replace a later
\* snapshot, and until the service stops a snapshot is kept.
RatesMoveForward ==
    [][cached # None => restarts' > restarts \/ (cached' # None /\ cached' >= cached)]_ratesVars

Begins(r) == get[r] = "waiting" /\ get'[r] = "calling"

\* The bank is called by one request at a time, and at most once in TTL
\* however many requests there are and however the calls end ("the source asks
\* clients not to request more frequently", docs/api-examples.md:139) - unless
\* the last call gave a snapshot that was no use.
CallsAreSpaced ==
    [][\A r \in Requests : Begins(r) =>
         /\ ~Locked
         /\ outcome \in {"ok", "failed"} => clock >= called + TTL]_ratesVars

RecentlyFailed == outcome = "failed" /\ clock < called + TTL

FailsNow(r) == get[r] \in {"calling", "answered"} /\ outcome' = "failed"

BroughtNoUse(r) == get[r] = "answered" /\ ~Validate(response[r])

\* What a request is answered with: a snapshot its own call brought, or one
\* less than TTL old, or an older one when the call to replace it fails or has
\* failed less than TTL ago; an error only when there is no snapshot to fall
\* back on and the call fails or has failed less than TTL ago, or when its own
\* call brought a snapshot that is no use.  That the latter is an error even
\* while there is a cached snapshot is what the code does (provider.go:91-93)
\* and not what the documents say: see LastSnapshotIsServed.
AnswersAreJustified ==
    [][\A r \in Requests : result'[r] # result[r] /\ restarts' = restarts =>
         IF result'[r] = Error
           THEN \/ cached = None /\ (RecentlyFailed \/ FailsNow(r))
                \/ BroughtNoUse(r)
           ELSE \/ result'[r] = response[r] /\ outcome' = "ok"
                \/ /\ result'[r] = cached
                   /\ \/ clock < cachedAt + TTL
                      \/ RecentlyFailed \/ FailsNow(r)]_ratesVars

\* "If a refresh fails after a successful load, Admin returns the last
\* successful snapshot" (README.md:155; docs/api-examples.md:139 and
\* docs/troubleshooting.md:79 say it too): while there is a cached snapshot, no
\* request is answered with an error, unless the service stops under it.
LastSnapshotIsServed ==
    [][\A r \in Requests :
         cached # None /\ result'[r] = Error /\ result[r] # Error =>
             restarts' > restarts]_ratesVars
=============================================================================
