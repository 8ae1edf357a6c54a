---------------------------- MODULE EventChannel ----------------------------
(***************************************************************************)
(* What an outbox with its worker promises to the consumers of its topics: *)
(* only events of committed transactions are delivered, each at least      *)
(* once, in whatever order and however often.  The producers inside        *)
(* OrderEvents (Accept and Publish) are such a channel.                    *)
(***************************************************************************)
EXTENDS Sequences

CONSTANTS Rows, Streams, Stream, Deliverable

VARIABLES accepted, log

vars == <<accepted, log>>

Init ==
    /\ accepted = {}
    /\ log = [x \in Streams |-> <<>>]

Accept(r) ==
    /\ r \notin accepted
    /\ accepted' = accepted \cup {r}
    /\ UNCHANGED log

Deliver(r) ==
    /\ r \in accepted
    /\ log' = [log EXCEPT ![Stream[r]] = Append(@, r)]
    /\ UNCHANGED accepted

Next == \E r \in Rows : Accept(r) \/ Deliver(r)

Delivered(r) == \E i \in DOMAIN log[Stream[r]] : log[Stream[r]][i] = r

AtLeastOnce == \A r \in Deliverable : r \in accepted ~> Delivered(r)

Spec == Init /\ [][Next]_vars /\ AtLeastOnce
=============================================================================
