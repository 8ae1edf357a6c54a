-------------------------- MODULE NotificationHub --------------------------
(***************************************************************************)
(* The notification service and the pages that follow it:                  *)
(*   cmd/notification-service/main.go                                      *)
(*   frontend/src/hooks/useOrderStream.ts                                  *)
(*                                                                         *)
(* One goroutine reads order.status_changed from Kafka, keeps the last     *)
(* envelopes of an order in memory and offers each to the channels of the  *)
(* subscribers; every stream request is a goroutine that first sends what  *)
(* its client has missed and then what arrives in its channel.  A page     *)
(* reads the order when it is told that something has happened, and polls  *)
(* only while it has no stream.                                            *)
(*                                                                         *)
(* The service keeps the orders apart, so there is one order here, and its *)
(* status is the number of changes it has gone through: event s announces  *)
(* status s.  The records reach the topic through the channel that the     *)
(* order service's outbox implements (OutboxRelay), in any order and       *)
(* repeatedly; event 0 is a record that holds no status event.  Within the *)
(* service an envelope is known by its place in `published`.               *)
(***************************************************************************)
EXTENDS Naturals, Sequences, FiniteSets

CONSTANTS
    Clients,        \* pages that follow the order
    Attempts,       \* how often a page connects, at most: 1..n
    MaxStatus,      \* bound: changes of the order
    MaxRecords,     \* bound: records in the topic
    HistorySize,    \* envelopes the hub keeps of an order: 100
    Capacity,       \* the size of a subscriber's channel: 16
    MaxBreaks,      \* bound: connections that break
    MaxRestarts     \* bound: stops of the service

Events      == 0..MaxStatus
Connections == Clients \X Attempts

ASSUME HubAssumption ==
    /\ Attempts \subseteq Nat
    /\ {MaxStatus, MaxRecords, MaxBreaks, MaxRestarts} \subseteq Nat
    /\ {HistorySize, Capacity} \subseteq Nat \ {0}

VARIABLES
    accepted,   \* events of committed transactions of the order service
    log,        \* Kafka: the records of the order's partition
    committed,  \* the consumer group's offset
    position,   \* the records the process has read
    published,  \* history: the event ids of all envelopes of this process
    history,    \* the envelopes kept for replay
    handler,    \* where the goroutine of a connection is
    last,       \* its Last-Event-ID, 0: none
    replay,     \* envelopes it has still to replay
    buffer,     \* its channel
    sent,       \* what it has written
    from,       \* history: the place of its Last-Event-ID in published, or 0
    at,         \* history: how much was published when it subscribed
    lost,       \* history: envelopes its full channel did not take
    stream,     \* the connection of a page, <<>>: none
    mode,       \* the page's StreamState; "closed": fallback without a source
    received,   \* how many envelopes it has read from its connection
    lastId,     \* what its EventSource would send as Last-Event-ID
    place,      \* history: the place of that envelope in published; 0 if it
                \* has none, or had it in a process that is gone
    shown,      \* the status it shows
    refresh,    \* it is to read the order again
    breaks, restarts

kafka       == <<accepted, log>>
consumer    == <<committed, position>>
hub         == <<published, history>>
connections == <<handler, last, from, replay, buffer, sent, at, lost>>
pages       == <<stream, mode, received, lastId, place, shown, refresh>>
faults      == <<breaks, restarts>>
vars        == <<kafka, consumer, hub, connections, pages, faults>>

Channel == INSTANCE EventChannel
    WITH Rows <- Events, Streams <- {"order"}, Stream <- [e \in Events |-> "order"],
         Deliverable <- Events

Topic == log["order"]

Positions == Seq(1..Len(published))

TypeOK ==
    /\ accepted \subseteq Events
    /\ log \in [{"order"} -> Seq(accepted)]
    /\ committed \in 0..position
    /\ position \in 0..Len(Topic)
    /\ published \in Seq(Events \ {0})
    /\ history \in Positions
    /\ handler \in [Connections -> {"none", "accepted", "subscribed", "ended"}]
    /\ last \in [Connections -> Events]
    /\ from \in [Connections -> 0..Len(published)]
    /\ replay \in [Connections -> Positions]
    /\ buffer \in [Connections -> Positions]
    /\ sent \in [Connections -> Positions]
    /\ at \in [Connections -> 0..Len(published)]
    /\ lost \in [Connections -> SUBSET (1..Len(published))]
    /\ stream \in [Clients -> Connections \cup {<<>>}]
    /\ mode \in [Clients -> {"connecting", "live", "fallback", "closed"}]
    /\ received \in [Clients -> Nat]
    /\ lastId \in [Clients -> Events]
    /\ place \in [Clients -> 0..Len(published)]
    /\ shown \in [Clients -> Events]
    /\ refresh \in [Clients -> BOOLEAN]
    /\ breaks \in 0..MaxBreaks /\ restarts \in 0..MaxRestarts

\* The status of the order: its changes so far.
Status == Cardinality(accepted \ {0})

\* A page is opened on an order that may have gone some way already.
Init ==
    /\ Channel!Init
    /\ committed = 0 /\ position = 0
    /\ published = <<>> /\ history = <<>>
    /\ handler = [c \in Connections |-> "none"]
    /\ last = [c \in Connections |-> 0]
    /\ from = [c \in Connections |-> 0]
    /\ replay = [c \in Connections |-> <<>>]
    /\ buffer = [c \in Connections |-> <<>>]
    /\ sent = [c \in Connections |-> <<>>]
    /\ at = [c \in Connections |-> 0]
    /\ lost = [c \in Connections |-> {}]
    /\ stream = [p \in Clients |-> <<>>]
    /\ mode = [p \in Clients |-> "connecting"]
    /\ received = [p \in Clients |-> 0]
    /\ lastId = [p \in Clients |-> 0]
    /\ place = [p \in Clients |-> 0]
    /\ shown = [p \in Clients |-> 0]
    /\ refresh = [p \in Clients |-> TRUE]
    /\ breaks = 0 /\ restarts = 0

-----------------------------------------------------------------------------
\* Room in the topic is kept for every event that is still to be delivered.
Due  == {e \in accepted \ {0} : ~Channel!Delivered(e)}
Room == Len(Topic) + Cardinality(Due) < MaxRecords

\* The order changes, and its outbox delivers.
OrderChanges ==
    /\ Room
    /\ \E e \in {0, Status + 1} \cap Events : Channel!Accept(e)
    /\ UNCHANGED <<consumer, hub, connections, pages, faults>>

Deliver(e) ==
    /\ e \in Due \/ Room
    /\ Channel!Deliver(e)
    /\ UNCHANGED <<consumer, hub, connections, pages, faults>>

-----------------------------------------------------------------------------
(***************************************************************************)
(* consume: every record is published and then committed, errors ignored.  *)
(***************************************************************************)
Subscribed == {c \in Connections : handler[c] = "subscribed"}

\* The newest envelopes of the history are kept.
Newest(s) == SubSeq(s, IF Len(s) > HistorySize THEN Len(s) - HistorySize + 1 ELSE 1, Len(s))

\* A fault: an envelope whose channel is full replaces the one before it.
publishOverwriting(e) ==
    LET n == Len(published) + 1 IN
    /\ published' = Append(published, e)
    /\ history' = Newest(Append(history, n))
    /\ buffer' = [c \in Connections |->
           IF c \notin Subscribed THEN buffer[c]
           ELSE IF Len(buffer[c]) < Capacity THEN Append(buffer[c], n)
           ELSE [buffer[c] EXCEPT ![Capacity] = n]]
    /\ UNCHANGED lost

\* publish: under the lock, to every subscriber whose channel is not full.
publish(e) ==
    LET n    == Len(published) + 1
        Full == {c \in Subscribed : Len(buffer[c]) >= Capacity}
    IN
    /\ published' = Append(published, e)
    /\ history' = Newest(Append(history, n))
    /\ buffer' = [c \in Connections |->
           IF c \in Subscribed \ Full THEN Append(buffer[c], n) ELSE buffer[c]]
    /\ lost' = [c \in Connections |->
           IF c \in Full THEN lost[c] \cup {n} ELSE lost[c]]

\* A fault: the offset that is committed is that of the record after the next.
CommitOneMore == committed' \in {committed, position + 2}

\* CommitRecords: its error is ignored.
CommitRecords == committed' \in {committed, position + 1}

\* The loop's next record; one that holds no status event is only committed.
\* Between the two, only a stop of the process would tell the difference, and
\* it is the same as a commit that failed.
Consume ==
    /\ position < Len(Topic)
    /\ position' = position + 1
    /\ IF Topic[position + 1] = 0
         THEN UNCHANGED <<hub, buffer, lost>>
         ELSE publish(Topic[position + 1])
    /\ CommitRecords
    /\ UNCHANGED <<kafka, handler, last, from, replay, sent, at, pages, faults>>

-----------------------------------------------------------------------------
(***************************************************************************)
(* stream.                                                                 *)
(***************************************************************************)
\* A fault: a page that has no id yet gets nothing.
AfterKnown(id) ==
    LET Found == {i \in DOMAIN history : published[history[i]] = id}
    IN  IF Found = {} THEN <<>>
        ELSE SubSeq(history, (CHOOSE i \in Found : \A j \in Found : i <= j) + 1,
                    Len(history))

\* The envelopes of the history after the first that has the id, in order.
After(id) ==
    LET Found == {i \in DOMAIN history : published[history[i]] = id}
    IN  IF id = 0 THEN history
        ELSE IF Found = {} THEN <<>>
        ELSE SubSeq(history, (CHOOSE i \in Found : \A j \in Found : i <= j) + 1,
                    Len(history))

\* subscribe: registered and the replay taken under one lock.
subscribe(c) ==
    /\ handler[c] = "accepted"
    /\ handler' = [handler EXCEPT ![c] = "subscribed"]
    /\ replay' = [replay EXCEPT ![c] = After(last[c])]
    /\ at' = [at EXCEPT ![c] = Len(published)]
    /\ UNCHANGED <<kafka, consumer, hub, last, from, buffer, sent, lost, pages, faults>>

SendReplay(c) ==
    /\ c \in Subscribed /\ replay[c] # <<>>
    /\ sent' = [sent EXCEPT ![c] = Append(@, Head(replay[c]))]
    /\ replay' = [replay EXCEPT ![c] = Tail(@)]
    /\ UNCHANGED <<kafka, consumer, hub, handler, last, from, buffer, at, lost, pages,
                   faults>>

\* A fault: the channel is read while there is still something to replay.
SendEither(c) ==
    /\ c \in Subscribed /\ buffer[c] # <<>>
    /\ sent' = [sent EXCEPT ![c] = Append(@, Head(buffer[c]))]
    /\ buffer' = [buffer EXCEPT ![c] = Tail(@)]
    /\ UNCHANGED <<kafka, consumer, hub, handler, last, from, replay, at, lost, pages,
                   faults>>

\* The loop reads the channel only when the replay is through.
SendLive(c) ==
    /\ c \in Subscribed /\ replay[c] = <<>> /\ buffer[c] # <<>>
    /\ sent' = [sent EXCEPT ![c] = Append(@, Head(buffer[c]))]
    /\ buffer' = [buffer EXCEPT ![c] = Tail(@)]
    /\ UNCHANGED <<kafka, consumer, hub, handler, last, from, replay, at, lost, pages,
                   faults>>

\* The connections of S come to their ends, and their channels with them.
Ends(S) ==
    /\ handler' = [c \in Connections |-> IF c \in S THEN "ended" ELSE handler[c]]
    /\ replay' = [c \in Connections |-> IF c \in S THEN <<>> ELSE replay[c]]
    /\ buffer' = [c \in Connections |-> IF c \in S THEN <<>> ELSE buffer[c]]
    /\ sent' = [c \in Connections |-> IF c \in S THEN <<>> ELSE sent[c]]
    /\ at' = [c \in Connections |-> IF c \in S THEN 0 ELSE at[c]]
    /\ lost' = [c \in Connections |-> IF c \in S THEN {} ELSE lost[c]]
    /\ from' = [c \in Connections |-> IF c \in S THEN 0 ELSE from[c]]
    /\ UNCHANGED last

\* The select takes the context's end, some time after the client is gone;
\* until then the handler writes into the void.
Done(c) ==
    /\ c \in Subscribed /\ replay[c] = <<>>
    /\ \A p \in Clients : stream[p] # c
    /\ Ends({c})
    /\ UNCHANGED <<kafka, consumer, hub, pages, faults>>

-----------------------------------------------------------------------------
(***************************************************************************)
(* useOrderStream: the page.                                               *)
(***************************************************************************)
\* The EventSource connects, or connects again, with the id it has; the
\* service writes the headers before it subscribes.
Connect(p) ==
    /\ stream[p] = <<>> /\ mode[p] # "closed"
    /\ \E k \in Attempts :
         LET c == <<p, k>> IN
         /\ handler[c] = "none"
         /\ \A i \in Attempts : handler[<<p, i>>] = "none" => k <= i
         /\ handler' = [handler EXCEPT ![c] = "accepted"]
         /\ last' = [last EXCEPT ![c] = lastId[p]]
         /\ from' = [from EXCEPT ![c] = place[p]]
         /\ stream' = [stream EXCEPT ![p] = c]
    /\ UNCHANGED <<kafka, consumer, hub, replay, buffer, sent, at, lost, mode,
                   received, lastId, place, shown, refresh, faults>>

\* onopen: nothing is read again.
onopen(p) ==
    /\ stream[p] # <<>> /\ mode[p] # "live"
    /\ mode' = [mode EXCEPT ![p] = "live"]
    /\ UNCHANGED <<kafka, consumer, hub, connections, stream, received, lastId,
                   place, shown, refresh, faults>>

\* The state of a page after its connections broke.
Falls(P, m) ==
    /\ stream' = [p \in Clients |-> IF p \in P THEN <<>> ELSE stream[p]]
    /\ mode' = [p \in Clients |-> IF p \in P THEN m ELSE mode[p]]
    /\ received' = [p \in Clients |-> IF p \in P THEN 0 ELSE received[p]]
    /\ refresh' = [p \in Clients |-> refresh[p] \/ p \in P]
    /\ UNCHANGED <<lastId, shown>>

\* onerror: a connection breaks, and what was under way is gone; or there is
\* an answer that is no stream, and the EventSource gives up.
onerror(p) ==
    /\ stream[p] # <<>> /\ breaks < MaxBreaks
    /\ breaks' = breaks + 1
    /\ Falls({p}, "fallback")
    /\ UNCHANGED <<kafka, consumer, place, hub, connections, restarts>>

Refused(p) ==
    /\ stream[p] = <<>> /\ mode[p] # "closed"
    /\ Falls({p}, "closed")
    /\ UNCHANGED <<kafka, consumer, place, hub, connections, faults>>

\* A fault: only the first event makes the page read the order again.
receiveFirst(p) ==
    LET c == stream[p] IN
    /\ c # <<>> /\ mode[p] = "live" /\ received[p] < Len(sent[c])
    /\ received' = [received EXCEPT ![p] = @ + 1]
    /\ place' = [place EXCEPT ![p] = sent[c][received[p] + 1]]
    /\ lastId' = [lastId EXCEPT ![p] = published[place'[p]]]
    /\ refresh' = [refresh EXCEPT ![p] = @ \/ lastId[p] = 0]
    /\ UNCHANGED <<kafka, consumer, hub, connections, stream, mode, shown, faults>>

\* receiveStatus: the page reads the order again.
receiveStatus(p) ==
    LET c == stream[p] IN
    /\ c # <<>> /\ mode[p] = "live" /\ received[p] < Len(sent[c])
    /\ received' = [received EXCEPT ![p] = @ + 1]
    /\ place' = [place EXCEPT ![p] = sent[c][received[p] + 1]]
    /\ lastId' = [lastId EXCEPT ![p] = published[place'[p]]]
    /\ refresh' = [refresh EXCEPT ![p] = TRUE]
    /\ UNCHANGED <<kafka, consumer, hub, connections, stream, mode, shown, faults>>

\* The query: when it was invalidated, and every 15 seconds in fallback.  A
\* query that is under way when it is invalidated is done again, so that it
\* counts from when the order service answers it.
GetOrder(p) ==
    /\ refresh[p] \/ mode[p] \in {"fallback", "closed"}
    /\ shown' = [shown EXCEPT ![p] = Status]
    /\ refresh' = [refresh EXCEPT ![p] = FALSE]
    /\ UNCHANGED <<kafka, consumer, hub, connections, stream, mode, received,
                   lastId, place, faults>>

-----------------------------------------------------------------------------
\* The service stops: what it kept in memory is gone, and it will start
\* from the committed offset.
Restart ==
    /\ restarts < MaxRestarts
    /\ restarts' = restarts + 1
    /\ position' = committed
    /\ published' = <<>> /\ history' = <<>>
    /\ Ends({c \in Connections : handler[c] # "none"})
    /\ Falls({p \in Clients : stream[p] # <<>>}, "fallback")
    /\ place' = [p \in Clients |-> 0]
    /\ UNCHANGED <<kafka, committed, breaks>>

Next ==
    \/ OrderChanges
    \/ \E e \in Events : Deliver(e)
    \/ Consume \/ Restart
    \/ \E c \in Connections :
         subscribe(c) \/ SendReplay(c) \/ SendLive(c) \/ Done(c)
    \/ \E p \in Clients :
         \/ Connect(p) \/ onopen(p) \/ onerror(p) \/ Refused(p)
         \/ receiveStatus(p) \/ GetOrder(p)

Spec == Init /\ [][Next]_vars

-----------------------------------------------------------------------------
Values(s) == {s[i] : i \in DOMAIN s}

\* Everything a connection is sent, in the order in which it is sent.
Stream(c) == sent[c] \o replay[c] \o buffer[c]

\* The page sent no id, or that of an envelope of this process that is kept.
Known(c) == last[c] = 0 \/ (from[c] # 0 /\ from[c] + HistorySize > at[c])

\* The envelopes up to here are none of the connection's business.
ResumePoint(c) ==
    IF last[c] = 0
      THEN IF at[c] > HistorySize THEN at[c] - HistorySize ELSE 0
      ELSE IF Known(c) THEN from[c] ELSE at[c]

\* A connection gets its envelopes in the order they were published, none of
\* them twice: replay and live part do not overlap, however publish and
\* subscribe interleave and however often records repeat (main.go:46-62).
InOrderOnce ==
    \A c \in Subscribed : \A i, j \in DOMAIN Stream(c) :
        i < j => Stream(c)[i] < Stream(c)[j]

\* Nothing falls between replay and live part, or between the envelope a page
\* had last and the first it gets on its next connection: what was published
\* since is sent, will be, or was lost to a full channel.
NothingMissed ==
    \A c \in Subscribed :
        (ResumePoint(c) + 1)..Len(published) \subseteq Values(Stream(c)) \cup lost[c]

\* There is something a page has not received yet.
Outstanding(p) ==
    LET c == stream[p]
    IN  replay[c] # <<>> \/ buffer[c] # <<>> \/ received[p] < Len(sent[c])

\* A page that has a stream, and is through with all of it, shows a status no
\* older than any that was published, even if its channel was full at times:
\* an event is lost only behind others, and each makes the page read the
\* order again.  It holds where the page's last event is still known
\* ("Reconnect does not leave the UI permanently stale",
\* docs/SEQUENCE_ALIGNMENT_REFACTOR_PLAN.md:260).
PageIsNotBehind ==
    \A p \in Clients :
        LET c == stream[p] IN
        /\ c \in Subscribed
        /\ Known(c)
        /\ ~Outstanding(p) /\ ~refresh[p]
        => \A i \in DOMAIN published : published[i] <= shown[p]

-----------------------------------------------------------------------------
(***************************************************************************)
(* The loops of the service, its handlers, the browser's reconnects and    *)
(* its queries go on; a connection need not break nor the service stop.    *)
(* The outbox delivers every event (OutboxRelay!ImplementsChannel).        *)
(***************************************************************************)
Fairness ==
    /\ \A e \in Events \ {0} : WF_vars(e \in Due /\ Deliver(e))
    /\ WF_vars(Consume)
    /\ \A c \in Connections :
         WF_vars(subscribe(c)) /\ WF_vars(SendReplay(c)) /\ WF_vars(SendLive(c))
    /\ \A p \in Clients :
         /\ WF_vars(Connect(p)) /\ WF_vars(onopen(p))
         /\ WF_vars(receiveStatus(p)) /\ WF_vars(GetOrder(p))

FairSpec == Spec /\ Fairness

\* A page comes to show every status the order reaches, through drops,
\* breaks and repeats, unless it has a stream and the service no longer knows
\* what the page has seen: it restarted, or it has cut its history.
PagesAreRefreshed ==
    \A p \in Clients, s \in Events :
        Status >= s ~>
            \/ shown[p] >= s
            \/ mode[p] = "live" /\ (restarts > 0 \/ ~Known(stream[p]))
=============================================================================
