----------------------- MODULE NotificationHub_proofs -----------------------
(***************************************************************************)
(* Safety of the notification service and its pages, for any clients and   *)
(* attempts, any sizes of history and channels, and any number of events,  *)
(* records, breaks and stops: a connection gets its envelopes in order and *)
(* once, nothing is missed that was not lost to a full channel, and a page *)
(* that is through with its stream is not behind.                          *)
(***************************************************************************)
EXTENDS NotificationHub, SequenceTheorems, FiniteSetTheorems, TLAPS

\* The order has gone through its changes one by one, and only changes that
\* were made are published.
StatusInv ==
    /\ \E n \in Nat : accepted \ {0} = 1..n
    /\ \A i \in DOMAIN published : published[i] \in accepted

\* The history holds the newest envelopes, as many as there are or as it may.
HistoryInv ==
    /\ Len(history) = IF Len(published) > HistorySize THEN HistorySize
                                                      ELSE Len(published)
    /\ \A i \in DOMAIN history : history[i] = Len(published) - Len(history) + i

\* A handler has nothing before it subscribes and when it has ended.
HandlerInv ==
    \A c \in Connections : handler[c] # "subscribed" =>
        /\ replay[c] = <<>> /\ buffer[c] = <<>> /\ sent[c] = <<>>
        /\ at[c] = 0 /\ lost[c] = {}
        /\ handler[c] # "accepted" => from[c] = 0

\* What the histories say of the last event of a page, and of the one it named
\* when it connected.
PlaceInv ==
    /\ \A c \in Connections : from[c] # 0 => published[from[c]] = last[c]
    /\ \A p \in Clients : place[p] # 0 => published[place[p]] = lastId[p]

\* A page reads the connection it has made, which is served as long as it does;
\* what it names when it connects is what it has had last.
Following(p) ==
    LET c == stream[p] IN
    /\ c = <<>> => received[p] = 0
    /\ c # <<>> => /\ handler[c] \in {"accepted", "subscribed"}
                   /\ received[p] <= Len(sent[c])
                   /\ handler[c] = "accepted" => from[c] = place[p]

PageInv == \A p \in Clients : Following(p)

\* A page that is not to read the order again shows a status no older than any
\* published up to the last envelope it has had.
SeenInv ==
    \A p \in Clients : ~refresh[p] =>
        \A i \in 1..place[p] : published[i] <= shown[p]

HubInv ==
    /\ TypeOK
    /\ StatusInv
    /\ HistoryInv
    /\ HandlerInv
    /\ PlaceInv
    /\ InOrderOnce
    /\ NothingMissed
    /\ PageInv
    /\ SeenInv
    /\ PageIsNotBehind

-----------------------------------------------------------------------------
(***************************************************************************)
(* Sequences.                                                              *)
(***************************************************************************)
\* What is taken from the front of one part is at the end of the other.
LEMMA HeadMoves ==
    ASSUME NEW S, NEW s \in Seq(S), NEW r \in Seq(S), r # <<>>
    PROVE  /\ Head(r) \in S /\ Tail(r) \in Seq(S) /\ Append(s, Head(r)) \in Seq(S)
           /\ Append(s, Head(r)) \o Tail(r) = s \o r
<1>1. /\ Head(r) \in S /\ Tail(r) \in Seq(S) /\ Head(r) = r[1]
      /\ Len(r) \in Nat /\ 1 <= Len(r)
  <2>1. Head(r) \in S /\ Tail(r) \in Seq(S)
    BY HeadTailProperties
  <2>2. Len(r) \in Nat /\ Len(r) # 0
    BY LenProperties, EmptySeq
  <2>3. Head(r) = r[1]
    OBVIOUS
  <2> QED BY <2>1, <2>2, <2>3
<1>2. Append(s, Head(r)) \in Seq(S) /\ Append(s, Head(r)) = s \o <<Head(r)>>
  BY <1>1, AppendProperties, AppendIsConcat
<1>3. r = <<Head(r)>> \o Tail(r)
  <2>1. SubSeq(r, 1, Len(r)) = <<r[1]>> \o SubSeq(r, 1 + 1, Len(r))
    BY <1>1, SubSeqRecursiveFirst
  <2>2. SubSeq(r, 1, Len(r)) = r
    BY SubSeqFull
  <2>3. Tail(r) = SubSeq(r, 2, Len(r))
    BY TailIsSubSeq
  <2> QED BY <1>1, <2>1, <2>2, <2>3
<1>4. <<Head(r)>> \in Seq(S)
  BY <1>1
<1>5. s \o (<<Head(r)>> \o Tail(r)) = (s \o <<Head(r)>>) \o Tail(r)
  BY <1>1, <1>4, ConcatAssociative
<1> QED BY <1>1, <1>2, <1>3, <1>5

\* Appending to the last part appends to the whole.
LEMMA LastPart ==
    ASSUME NEW S, NEW s \in Seq(S), NEW t \in Seq(S), NEW e \in S
    PROVE  s \o Append(t, e) = Append(s \o t, e) /\ Append(t, e) # <<>>
<1>1. <<e>> \in Seq(S) /\ s \o t \in Seq(S)
  BY ConcatProperties
<1>2. Append(t, e) = t \o <<e>> /\ Append(s \o t, e) = (s \o t) \o <<e>>
  BY <1>1, AppendIsConcat
<1>3. s \o (t \o <<e>>) = (s \o t) \o <<e>>
  BY <1>1, ConcatAssociative
<1>4. Append(t, e) # <<>>
  BY AppendProperties
<1> QED BY <1>2, <1>3, <1>4

\* Sequences over a set are sequences over a larger one.
LEMMA LargerSet ==
    ASSUME NEW S, NEW T, S \subseteq T
    PROVE  Seq(S) \subseteq Seq(T)
BY SeqMonotonic

\* A set of numbers that is not empty has a least one.
LEMMA LeastNumber ==
    ASSUME NEW T, T \subseteq Nat, T # {}
    PROVE  \E x \in T : \A y \in T : x <= y
<1>1. \E x \in T : \A y \in T : <<y, x>> \notin OpToRel(<, Nat)
  BY NatLessThanWellFounded, WFMin
<1>2. \A x, y \in Nat : <<y, x>> \notin OpToRel(<, Nat) => x <= y
  BY DEF OpToRel
<1> QED BY <1>1, <1>2

-----------------------------------------------------------------------------
(***************************************************************************)
(* The hub's history.                                                      *)
(***************************************************************************)
LEMMA Lengths ==
    ASSUME TypeOK
    PROVE  /\ Len(published) \in Nat /\ Len(history) \in Nat
           /\ DOMAIN published = 1..Len(published)
           /\ DOMAIN history = 1..Len(history)
           /\ HistorySize \in Nat \ {0} /\ Capacity \in Nat \ {0}
<1>1. history \in Seq(1..Len(published)) /\ published \in Seq(Events \ {0})
  BY DEF TypeOK, Positions
<1> QED BY <1>1, LenProperties, HubAssumption

\* The newest of a run of envelopes are a run to the same end.
LEMMA NewestOfRun ==
    ASSUME NEW n \in Nat, NEW s \in Seq(1..n),
           \A i \in 1..Len(s) : s[i] = n - Len(s) + i
    PROVE  LET t == Newest(s) IN
           /\ t \in Seq(1..n)
           /\ Len(t) = IF Len(s) > HistorySize THEN HistorySize ELSE Len(s)
           /\ \A i \in 1..Len(t) : t[i] = n - Len(t) + i
<1>1. PICK h \in Nat : h = Len(s)
  BY LenProperties
<1>2. PICK m \in Nat \ {0} :
        /\ m = IF h > HistorySize THEN h - HistorySize + 1 ELSE 1
        /\ m <= h + 1
        /\ h - m + 1 = IF h > HistorySize THEN HistorySize ELSE h
  <2> DEFINE mm == IF h > HistorySize THEN h - HistorySize + 1 ELSE 1
  <2>1. /\ mm \in Nat \ {0} /\ mm <= h + 1
        /\ h - mm + 1 = IF h > HistorySize THEN HistorySize ELSE h
    BY HubAssumption
  <2> QED BY <2>1
<1>3. Newest(s) = SubSeq(s, m, h)
  BY <1>1, <1>2 DEF Newest
<1>4. \A i \in 1..h : s[i] = n - h + i
  BY <1>1
<1>5. \A i \in m..h : s[i] \in 1..n
  BY <1>1, <1>2, ElementOfSeq
<1>6. PICK t : t = SubSeq(s, m, h)
  OBVIOUS
<1>7. /\ t \in Seq(1..n)
      /\ Len(t) = h - m + 1
      /\ \A i \in 1..(h - m + 1) : t[i] = s[m + i - 1]
  <2>1. /\ t \in Seq(1..n) /\ Len(t) = IF m <= h THEN h - m + 1 ELSE 0
        /\ \A i \in 1..(h - m + 1) : t[i] = s[m + i - 1]
    BY <1>5, <1>6, SubSeqProperties
  <2> QED BY <1>2, <2>1
<1>8. ASSUME NEW i \in 1..(h - m + 1)
      PROVE  t[i] = n - (h - m + 1) + i
  <2>1. m + i - 1 \in 1..h /\ n - h + (m + i - 1) = n - (h - m + 1) + i
    <3>1. h \in Nat /\ m \in Nat \ {0} /\ i \in Int /\ 1 <= i /\ i <= h - m + 1
      BY <1>1, <1>2
    <3> QED BY <3>1
  <2>2. s[m + i - 1] = n - h + (m + i - 1)
    BY <1>4, <2>1
  <2> QED BY <1>7, <2>1, <2>2
<1>9. \A i \in 1..Len(t) : t[i] = n - Len(t) + i
  BY <1>7, <1>8
<1>10. /\ Newest(s) = t
       /\ Len(t) = IF Len(s) > HistorySize THEN HistorySize ELSE Len(s)
  BY <1>1, <1>2, <1>3, <1>6, <1>7
<1> QED BY <1>7, <1>9, <1>10

\* With one more envelope the history is again the newest of them.
LEMMA HistoryMoves ==
    ASSUME TypeOK, HistoryInv
    PROVE  LET n == Len(published) + 1
               t == Newest(Append(history, n))
           IN  /\ n \in Nat
               /\ t \in Seq(1..n)
               /\ Len(t) = IF n > HistorySize THEN HistorySize ELSE n
               /\ \A i \in 1..Len(t) : t[i] = n - Len(t) + i
<1>0. PICK m \in Nat : m = Len(published)
  BY Lengths
<1>1. PICK h \in Nat : h = Len(history)
  BY Lengths
<1> DEFINE n == m + 1
<1>2. /\ history \in Seq(1..n) /\ n \in 1..n
      /\ h = IF m > HistorySize THEN HistorySize ELSE m
      /\ \A i \in 1..h : history[i] = m - h + i
  <2>1. history \in Seq(1..m) /\ 1..m \subseteq 1..n
    BY <1>0, <1>1 DEF TypeOK, Positions
  <2>2. history \in Seq(1..n)
    BY <2>1, LargerSet
  <2> QED BY <1>0, <1>1, <2>2, Lengths DEF HistoryInv
<1>3. PICK s : s = Append(history, n)
  OBVIOUS
<1>4. /\ s \in Seq(1..n) /\ Len(s) = h + 1 /\ s[h + 1] = n
      /\ \A i \in 1..h : s[i] = history[i]
  <2>1. /\ Append(history, n) \in Seq(1..n)
        /\ Len(Append(history, n)) = Len(history) + 1
        /\ \A i \in 1..Len(history) : Append(history, n)[i] = history[i]
        /\ Append(history, n)[Len(history) + 1] = n
    <3> HIDE DEF n
    <3> QED BY <1>2, AppendProperties
  <2> QED BY <1>1, <1>3, <2>1
<1>5. ASSUME NEW i \in 1..(h + 1)
      PROVE  s[i] = n - (h + 1) + i
  <2>1. CASE i \in 1..h
    BY <1>2, <1>4, <2>1
  <2>2. CASE i = h + 1
    BY <1>4, <2>2
  <2> QED BY <2>1, <2>2
<1>6. /\ Newest(s) \in Seq(1..n)
      /\ Len(Newest(s)) = IF h + 1 > HistorySize THEN HistorySize ELSE h + 1
      /\ \A i \in 1..Len(Newest(s)) : Newest(s)[i] = n - Len(Newest(s)) + i
  <2>1. n \in Nat /\ \A i \in 1..Len(s) : s[i] = n - Len(s) + i
    BY <1>4, <1>5
  <2> HIDE DEF n
  <2> QED BY <1>4, <2>1, NewestOfRun
<1>7. (IF h + 1 > HistorySize THEN HistorySize ELSE h + 1)
        = IF n > HistorySize THEN HistorySize ELSE n
  BY <1>2, HubAssumption
<1> QED BY <1>0, <1>3, <1>6, <1>7

\* What is replayed to a connection is what was published after some place,
\* one after the other: after what has been cut from the history, if it knows
\* nothing, and else not after any envelope in the history with its id.
LEMMA ReplayIsRun ==
    ASSUME TypeOK, HistoryInv, NEW id
    PROVE  LET n == Len(published)
               h == Len(history)
               s == After(id)
           IN  \E m \in 0..n :
                 /\ s \in Positions /\ Len(s) = n - m
                 /\ \A i \in DOMAIN s : s[i] = m + i
                 /\ id = 0 => m = n - h
                 /\ id # 0 => \A f \in (n - h + 1)..n : published[f] = id => m <= f
<1> DEFINE n == Len(published)
           h == Len(history)
           Found == {i \in DOMAIN history : published[history[i]] = id}
           k == CHOOSE i \in Found : \A j \in Found : i <= j
<1>1. /\ n \in Nat /\ h \in Nat /\ h <= n
      /\ history \in Positions /\ DOMAIN history = 1..h
      /\ \A i \in 1..h : history[i] = n - h + i
  <2>1. /\ n \in Nat /\ h \in Nat /\ DOMAIN history = 1..h
        /\ HistorySize \in Nat
    BY Lengths
  <2>2. h = IF n > HistorySize THEN HistorySize ELSE n
    BY DEF HistoryInv
  <2>3. h <= n
    BY <2>1, <2>2
  <2>4. history \in Positions
    BY DEF TypeOK
  <2>5. \A i \in 1..h : history[i] = n - h + i
    BY <2>1 DEF HistoryInv
  <2> QED BY <2>1, <2>3, <2>4, <2>5
<1> HIDE DEF n, h
<1>2. CASE id = 0
  <2>1. After(id) = history
    BY <1>2 DEF After
  <2>2. n - h \in 0..n /\ h = n - (n - h)
    BY <1>1
  <2> QED BY <1>1, <1>2, <2>1, <2>2 DEF n, h
<1>3. ASSUME NEW f \in (n - h + 1)..n, published[f] = id
      PROVE  f - (n - h) \in Found
  BY <1>1, <1>3
<1>4. CASE id # 0 /\ Found = {}
  <2>1. After(id) = <<>>
    BY <1>4 DEF After
  <2>2. <<>> \in Positions /\ Len(<<>>) = n - n /\ n \in 0..n /\ DOMAIN <<>> = {}
    BY <1>1, EmptySeq DEF Positions
  <2> QED BY <1>3, <1>4, <2>1, <2>2 DEF n, h
<1>5. CASE id # 0 /\ Found # {}
  <2>1. k \in Found /\ \A j \in Found : k <= j
    <3>1. Found \subseteq Nat
      BY <1>1
    <3> HIDE DEF Found
    <3> QED BY <1>5, <3>1, LeastNumber
  <2>2. k \in 1..h
    BY <1>1, <2>1
  <2>3. After(id) = SubSeq(history, k + 1, h)
    BY <1>5 DEF After, h
  <2> HIDE DEF k, Found
  <2>4. \A i \in (k + 1)..h : history[i] \in 1..n
    BY <1>1, <2>2
  <2>5. /\ SubSeq(history, k + 1, h) \in Seq(1..n)
        /\ Len(SubSeq(history, k + 1, h)) = h - k
        /\ \A i \in 1..(h - k) : SubSeq(history, k + 1, h)[i] = history[k + i]
    <3>1. /\ k + 1 \in Int /\ h \in Int
          /\ h - (k + 1) + 1 = h - k /\ \A i \in Int : k + 1 + i - 1 = k + i
          /\ (IF k + 1 <= h THEN h - (k + 1) + 1 ELSE 0) = h - k
      BY <1>1, <2>2
    <3> QED BY <2>4, <3>1, SubSeqProperties
  <2>6. DOMAIN After(id) = 1..(h - k)
    BY <2>3, <2>5, LenProperties
  <2>7. n - h + k \in 0..n /\ h - k = n - (n - h + k)
    BY <1>1, <2>2
  <2>8. \A i \in DOMAIN After(id) : After(id)[i] = n - h + k + i
    <3> SUFFICES ASSUME NEW i \in 1..(h - k)
                 PROVE  After(id)[i] = n - h + k + i
      BY <2>6
    <3>1. k + i \in 1..h /\ n - h + (k + i) = n - h + k + i
      BY <1>1, <2>2
    <3>2. After(id)[i] = history[k + i]
      BY <2>3, <2>5
    <3>3. history[k + i] = n - h + (k + i)
      BY <1>1, <3>1
    <3> QED BY <3>1, <3>2, <3>3
  <2>9. \A f \in (n - h + 1)..n : published[f] = id => n - h + k <= f
    BY <1>1, <1>3, <2>1, <2>2
  <2> QED BY <1>5, <2>3, <2>5, <2>7, <2>8, <2>9 DEF n, h, Positions
<1> QED BY <1>2, <1>4, <1>5

\* What it means to publish an envelope.
LEMMA PublishedMore ==
    ASSUME TypeOK, NEW e \in Events \ {0}, published' = Append(published, e)
    PROVE  LET n == Len(published) IN
           /\ n \in Nat /\ Len(published)' = n + 1
           /\ published' \in Seq(Events \ {0})
           /\ DOMAIN published = 1..n /\ DOMAIN published' = 1..(n + 1)
           /\ \A i \in 1..n : published'[i] = published[i]
           /\ published'[n + 1] = e
           /\ 1..n \subseteq 1..(n + 1) /\ 0..n \subseteq 0..(n + 1)
           /\ Positions \subseteq Positions'
<1>1. published \in Seq(Events \ {0}) /\ Len(published) \in Nat
  BY Lengths DEF TypeOK
<1>2. /\ published' \in Seq(Events \ {0}) /\ Len(published') = Len(published) + 1
      /\ \A i \in 1..Len(published) : published'[i] = published[i]
      /\ published'[Len(published) + 1] = e
  BY <1>1, AppendProperties
<1>3. DOMAIN published = 1..Len(published) /\ DOMAIN published' = 1..(Len(published) + 1)
  BY <1>1, <1>2, LenProperties
<1>4. /\ 1..Len(published) \subseteq 1..(Len(published) + 1)
      /\ 0..Len(published) \subseteq 0..(Len(published) + 1)
  BY <1>1
<1>5. Positions \subseteq Positions'
  BY <1>2, <1>4, LargerSet DEF Positions
<1> QED BY <1>1, <1>2, <1>3, <1>4, <1>5

-----------------------------------------------------------------------------
(***************************************************************************)
(* Types.                                                                  *)
(***************************************************************************)
\* Types of what the service keeps of its connections.
ConnectionType ==
    /\ handler \in [Connections -> {"none", "accepted", "subscribed", "ended"}]
    /\ last \in [Connections -> Events]
    /\ from \in [Connections -> 0..Len(published)]
    /\ replay \in [Connections -> Positions]
    /\ buffer \in [Connections -> Positions]
    /\ sent \in [Connections -> Positions]
    /\ at \in [Connections -> 0..Len(published)]
    /\ lost \in [Connections -> SUBSET (1..Len(published))]

PageType ==
    /\ stream \in [Clients -> Connections \cup {<<>>}]
    /\ mode \in [Clients -> {"connecting", "live", "fallback", "closed"}]
    /\ received \in [Clients -> Nat]
    /\ lastId \in [Clients -> Events]
    /\ place \in [Clients -> 0..Len(published)]
    /\ shown \in [Clients -> Events]
    /\ refresh \in [Clients -> BOOLEAN]

HubType ==
    /\ published \in Seq(Events \ {0})
    /\ history \in Positions

KafkaType ==
    /\ accepted \subseteq Events
    /\ log \in [{"order"} -> Seq(accepted)]
    /\ committed \in 0..position
    /\ position \in 0..Len(Topic)

FaultType == breaks \in 0..MaxBreaks /\ restarts \in 0..MaxRestarts

LEMMA TypeParts ==
    /\ TypeOK => KafkaType /\ HubType /\ ConnectionType /\ PageType /\ FaultType
    /\ KafkaType' /\ HubType' /\ ConnectionType' /\ PageType' /\ FaultType' => TypeOK'
BY DEF TypeOK, KafkaType, HubType, ConnectionType, PageType, FaultType

LEMMA TopicLength ==
    ASSUME KafkaType
    PROVE  /\ Topic \in Seq(accepted) /\ Len(Topic) \in Nat
           /\ position \in Nat /\ committed \in Nat
           /\ position < Len(Topic) => /\ Topic[position + 1] \in accepted
                                       /\ position + 1 \in 0..Len(Topic)
<1>1. Topic \in Seq(accepted)
  BY DEF KafkaType, Topic
<1>2. Len(Topic) \in Nat /\ DOMAIN Topic = 1..Len(Topic)
  BY <1>1, LenProperties
<1>3. position \in Nat /\ committed \in Nat
  BY <1>2 DEF KafkaType
<1>4. position < Len(Topic) => position + 1 \in 1..Len(Topic)
  BY <1>2, <1>3
<1>5. position < Len(Topic) => Topic[position + 1] \in accepted
  BY <1>1, <1>4, ElementOfSeq
<1> QED BY <1>1, <1>2, <1>3, <1>4, <1>5

\* What is the same is of the same type.
LEMMA HubTypeSame ==
    ASSUME HubType, UNCHANGED hub PROVE HubType'
BY DEF HubType, hub, Positions

LEMMA ConnectionTypeSame ==
    ASSUME ConnectionType, UNCHANGED <<hub, connections>> PROVE ConnectionType'
BY DEF ConnectionType, hub, connections, Positions

LEMMA PageTypeSame ==
    ASSUME PageType, UNCHANGED <<hub, pages>> PROVE PageType'
BY DEF PageType, hub, pages, Positions

LEMMA KafkaTypeSame ==
    ASSUME KafkaType, UNCHANGED <<kafka, consumer>> PROVE KafkaType'
BY DEF KafkaType, kafka, consumer, Topic

LEMMA ConsumeType ==
    ASSUME TypeOK, HistoryInv, Consume PROVE TypeOK'
<1>1. KafkaType /\ HubType /\ ConnectionType /\ PageType /\ FaultType
  BY TypeParts
<1>2. KafkaType'
  <2>1. /\ accepted' = accepted /\ log' = log /\ Topic' = Topic
        /\ position' = position + 1 /\ position + 1 \in 0..Len(Topic)
        /\ committed' \in {committed, position + 1}
    BY <1>1, TopicLength DEF Consume, CommitRecords, kafka, Topic
  <2>2. committed' \in 0..(position + 1)
    BY <1>1, <2>1, TopicLength DEF KafkaType
  <2> QED BY <1>1, <2>1, <2>2 DEF KafkaType
<1>3. CASE UNCHANGED <<hub, buffer, lost>>
  <2>1. UNCHANGED <<hub, connections, pages, faults>>
    BY <1>3 DEF Consume, connections
  <2> QED BY <1>1, <1>2, <2>1, HubTypeSame, ConnectionTypeSame, PageTypeSame, TypeParts
          DEF FaultType, faults
<1>4. ASSUME NEW e \in Events \ {0}, publish(e) PROVE TypeOK'
  <2> DEFINE n == Len(published)
  <2>1. /\ n \in Nat /\ Len(published)' = n + 1
        /\ published' \in Seq(Events \ {0})
        /\ 1..n \subseteq 1..(n + 1) /\ 0..n \subseteq 0..(n + 1)
        /\ Positions \subseteq Positions' /\ n + 1 \in 1..(n + 1)
    BY <1>4, PublishedMore DEF publish
  <2>2. history' \in Positions'
    BY <1>4, <2>1, HistoryMoves DEF publish, Positions
  <2>3. HubType'
    BY <2>1, <2>2 DEF HubType
  <2>4. /\ UNCHANGED <<handler, last, from, replay, sent, at>>
        /\ UNCHANGED pages /\ UNCHANGED faults
    BY DEF Consume
  <2>5. ASSUME NEW c \in Connections PROVE buffer'[c] \in Positions'
    <3>1. buffer[c] \in Positions'
      BY <1>1, <2>1 DEF ConnectionType
    <3>2. Append(buffer[c], n + 1) \in Positions'
      BY <2>1, <3>1, AppendProperties DEF Positions
    <3> QED BY <1>4, <3>1, <3>2 DEF publish
  <2>6. ASSUME NEW c \in Connections PROVE lost'[c] \subseteq 1..(n + 1)
    BY <1>1, <1>4, <2>1 DEF publish, ConnectionType
  <2>7. /\ buffer' = [c \in Connections |-> buffer'[c]]
        /\ lost' = [c \in Connections |-> lost'[c]]
    BY <1>4 DEF publish
  <2>8. buffer' \in [Connections -> Positions']
    BY <2>5, <2>7
  <2>9. lost' \in [Connections -> SUBSET (1..(n + 1))]
    BY <2>6, <2>7
  <2> HIDE DEF n
  <2>10. ConnectionType'
    BY <1>1, <2>1, <2>4, <2>8, <2>9 DEF ConnectionType, n
  <2>11. PageType'
    BY <1>1, <2>1, <2>4 DEF PageType, pages, n
  <2> QED BY <1>1, <1>2, <2>3, <2>4, <2>10, <2>11, TypeParts DEF FaultType, faults
<1>5. Topic[position + 1] # 0 => Topic[position + 1] \in Events \ {0}
  BY <1>1, TopicLength DEF Consume, KafkaType
<1> QED BY <1>3, <1>4, <1>5 DEF Consume

\* The status of the order is the greatest event that was accepted.
LEMMA StatusIs ==
    ASSUME TypeOK, StatusInv
    PROVE  /\ Status \in Events
           /\ accepted \ {0} = 1..Status
           /\ \A i \in DOMAIN published : published[i] <= Status
<1>1. PICK n \in Nat : accepted \ {0} = 1..n
  BY DEF StatusInv
<1>2. Status = n
  <2>1. Cardinality(1..n) = n
    BY FS_Interval
  <2> QED BY <1>1, <2>1 DEF Status
<1>3. n \in Events
  <2>1. n # 0 => n \in 1..n
    OBVIOUS
  <2>2. n # 0 => n \in accepted
    BY <1>1, <2>1
  <2>3. accepted \subseteq Events /\ 0 \in Events
    BY HubAssumption DEF TypeOK, Events
  <2> QED BY <2>2, <2>3
<1>4. ASSUME NEW i \in DOMAIN published PROVE published[i] <= n
  <2>1. published[i] \in accepted
    BY DEF StatusInv
  <2>2. published[i] \in Events \ {0}
    BY Lengths, ElementOfSeq DEF TypeOK
  <2> QED BY <1>1, <2>1, <2>2
<1> QED BY <1>1, <1>2, <1>3, <1>4

LEMMA ChannelType ==
    ASSUME TypeOK, OrderChanges \/ \E e \in Events : Deliver(e)
    PROVE  TypeOK'
<1>1. KafkaType /\ HubType /\ ConnectionType /\ PageType /\ FaultType
  BY TypeParts
<1>2. UNCHANGED <<hub, connections, pages, faults, committed, position>>
  BY DEF OrderChanges, Deliver, consumer
<1>3. HubType' /\ ConnectionType' /\ PageType' /\ FaultType'
  BY <1>1, <1>2, HubTypeSame, ConnectionTypeSame, PageTypeSame DEF FaultType, faults
<1>4. ASSUME NEW e \in Events, Channel!Accept(e) PROVE KafkaType'
  <2>1. accepted' = accepted \cup {e} /\ log' = log
    BY <1>4 DEF Channel!Accept
  <2>2. Seq(accepted) \subseteq Seq(accepted')
    BY <2>1, LargerSet
  <2> QED BY <1>1, <1>2, <2>1, <2>2 DEF KafkaType, Topic
<1>5. ASSUME NEW e \in Events, Channel!Deliver(e) PROVE KafkaType'
  <2>1. /\ accepted' = accepted /\ e \in accepted
        /\ log' = [log EXCEPT !["order"] = Append(@, e)]
    BY <1>5 DEF Channel!Deliver
  <2>2. /\ Append(log["order"], e) \in Seq(accepted)
        /\ Len(Append(log["order"], e)) = Len(log["order"]) + 1
    BY <1>1, <2>1, AppendProperties DEF KafkaType
  <2>3. log' \in [{"order"} -> Seq(accepted)] /\ log'["order"] = Append(log["order"], e)
    BY <1>1, <2>1, <2>2 DEF KafkaType
  <2>4. position \in 0..(Len(Topic) + 1)
    BY <1>1, TopicLength DEF KafkaType
  <2> QED BY <1>1, <1>2, <2>1, <2>2, <2>3, <2>4 DEF KafkaType, Topic
<1>6. KafkaType'
  BY <1>4, <1>5 DEF OrderChanges, Deliver
<1> QED BY <1>3, <1>6, TypeParts

\* The history keeps what it replays.
LEMMA AfterType ==
    ASSUME TypeOK, HistoryInv, NEW id
    PROVE  After(id) \in Positions
BY ReplayIsRun

\* The end of connections takes what they had.
LEMMA EndsType ==
    ASSUME HubType, ConnectionType, NEW S, Ends(S), UNCHANGED published
    PROVE  ConnectionType'
<1>1. <<>> \in Positions /\ 0 \in 0..Len(published)
  <2>1. Len(published) \in Nat
    BY LenProperties DEF HubType
  <2> QED BY <2>1, EmptySeq DEF Positions
<1>2. \A c \in Connections :
        /\ handler'[c] \in {"none", "accepted", "subscribed", "ended"}
        /\ from'[c] \in 0..Len(published) /\ at'[c] \in 0..Len(published)
        /\ replay'[c] \in Positions /\ buffer'[c] \in Positions /\ sent'[c] \in Positions
        /\ lost'[c] \subseteq 1..Len(published)
  BY <1>1 DEF Ends, ConnectionType
<1>3. last' = last
  BY DEF Ends
<1>4. /\ handler' = [c \in Connections |-> handler'[c]]
      /\ from' = [c \in Connections |-> from'[c]] /\ at' = [c \in Connections |-> at'[c]]
      /\ replay' = [c \in Connections |-> replay'[c]]
      /\ buffer' = [c \in Connections |-> buffer'[c]]
      /\ sent' = [c \in Connections |-> sent'[c]]
      /\ lost' = [c \in Connections |-> lost'[c]]
  BY DEF Ends
<1>5. Positions' = Positions
  BY DEF Positions
<1> QED BY <1>2, <1>3, <1>4, <1>5 DEF ConnectionType

LEMMA HandlerType ==
    ASSUME TypeOK, HistoryInv, NEW c \in Connections,
           subscribe(c) \/ SendReplay(c) \/ SendLive(c) \/ Done(c)
    PROVE  TypeOK'
<1>1. KafkaType /\ HubType /\ ConnectionType /\ PageType /\ FaultType
  BY TypeParts
<1>2. UNCHANGED <<kafka, consumer, hub, pages, faults>>
  BY DEF subscribe, SendReplay, SendLive, Done
<1>3. KafkaType' /\ HubType' /\ PageType' /\ FaultType'
  BY <1>1, <1>2, KafkaTypeSame, HubTypeSame, PageTypeSame DEF FaultType, faults
<1>4. Positions' = Positions /\ published' = published
  BY <1>2 DEF Positions, hub
<1>5. CASE subscribe(c)
  <2>1. After(last[c]) \in Positions
    BY AfterType
  <2>2. Len(published) \in 0..Len(published)
    BY Lengths
  <2> QED BY <1>1, <1>3, <1>4, <1>5, <2>1, <2>2, TypeParts
          DEF subscribe, ConnectionType, PageType
<1>6. CASE SendReplay(c)
  <2>1. /\ Append(sent[c], Head(replay[c])) \in Positions
        /\ Tail(replay[c]) \in Positions
    BY <1>1, <1>6, HeadMoves DEF SendReplay, ConnectionType, Positions
  <2> QED BY <1>1, <1>3, <1>4, <1>6, <2>1, TypeParts DEF SendReplay, ConnectionType
<1>7. CASE SendLive(c)
  <2>1. /\ Append(sent[c], Head(buffer[c])) \in Positions
        /\ Tail(buffer[c]) \in Positions
    BY <1>1, <1>7, HeadMoves DEF SendLive, ConnectionType, Positions
  <2> QED BY <1>1, <1>3, <1>4, <1>7, <2>1, TypeParts DEF SendLive, ConnectionType
<1>8. CASE Done(c)
  BY <1>1, <1>3, <1>4, <1>8, EndsType, TypeParts DEF Done
<1> QED BY <1>5, <1>6, <1>7, <1>8

LEMMA FallsType ==
    ASSUME PageType, NEW P, NEW m \in {"fallback", "closed"}, Falls(P, m),
           Len(published)' \in Nat, place' \in [Clients -> 0..Len(published)']
    PROVE  PageType'
<1>1. /\ stream' \in [Clients -> Connections \cup {<<>>}]
      /\ mode' \in [Clients -> {"connecting", "live", "fallback", "closed"}]
      /\ received' \in [Clients -> Nat]
  BY DEF PageType, Falls
<1>2. refresh' \in [Clients -> BOOLEAN]
  BY DEF PageType, Falls
<1> QED BY <1>1, <1>2 DEF PageType, Falls

LEMMA PageActionType ==
    ASSUME HubInv, NEW p \in Clients,
           \/ Connect(p) \/ onopen(p) \/ onerror(p) \/ Refused(p)
           \/ receiveStatus(p) \/ GetOrder(p)
    PROVE  TypeOK'
<1>0. TypeOK /\ StatusInv
  BY DEF HubInv
<1>1. KafkaType /\ HubType /\ ConnectionType /\ PageType /\ FaultType
  BY <1>0, TypeParts
<1>2. UNCHANGED <<kafka, consumer, hub>>
  BY DEF Connect, onopen, onerror, Refused, receiveStatus, GetOrder
<1>3. KafkaType' /\ HubType'
  BY <1>1, <1>2, KafkaTypeSame, HubTypeSame
<1>4. /\ Positions' = Positions /\ published' = published
      /\ Len(published) \in Nat
  BY <1>0, <1>2, Lengths DEF Positions, hub
<1>5. ASSUME UNCHANGED <<connections, faults>>, PageType' PROVE TypeOK'
  BY <1>1, <1>2, <1>3, <1>5, ConnectionTypeSame, TypeParts DEF FaultType, faults
<1>6. CASE Connect(p)
  <2>1. PICK k \in Attempts :
          /\ handler' = [handler EXCEPT ![<<p, k>>] = "accepted"]
          /\ last' = [last EXCEPT ![<<p, k>>] = lastId[p]]
          /\ from' = [from EXCEPT ![<<p, k>>] = place[p]]
          /\ stream' = [stream EXCEPT ![p] = <<p, k>>]
    BY <1>6 DEF Connect
  <2>2. <<p, k>> \in Connections
    BY DEF Connections
  <2>3. ConnectionType'
    BY <1>1, <1>4, <1>6, <2>1, <2>2 DEF ConnectionType, PageType, Connect
  <2>4. PageType'
    BY <1>1, <1>4, <1>6, <2>1, <2>2 DEF PageType, Connect
  <2> QED BY <1>1, <1>3, <1>6, <2>3, <2>4, TypeParts DEF Connect, FaultType, faults
<1>7. CASE onopen(p)
  BY <1>1, <1>4, <1>5, <1>7 DEF onopen, PageType
<1>8. CASE onerror(p)
  <2>1. PageType'
    BY <1>1, <1>4, <1>8, FallsType DEF onerror, PageType
  <2>2. FaultType'
    BY <1>1, <1>8, HubAssumption DEF onerror, FaultType
  <2>3. ConnectionType'
    BY <1>1, <1>2, <1>8, ConnectionTypeSame DEF onerror
  <2> QED BY <1>3, <2>1, <2>2, <2>3, TypeParts
<1>9. CASE Refused(p)
  <2>1. PageType'
    BY <1>1, <1>4, <1>9, FallsType DEF Refused, PageType
  <2> QED BY <1>5, <1>9, <2>1 DEF Refused
<1>10. CASE receiveStatus(p)
  <2> DEFINE c == stream[p]
             i == received[p] + 1
  <2>1. /\ c # <<>> /\ received[p] < Len(sent[c])
        /\ place' = [place EXCEPT ![p] = sent[c][i]]
        /\ lastId' = [lastId EXCEPT ![p] = published[place'[p]]]
    BY <1>10 DEF receiveStatus
  <2>2. sent[c] \in Positions /\ received[p] \in Nat
    BY <1>1, <2>1 DEF ConnectionType, PageType
  <2>3. i \in 1..Len(sent[c])
    BY <2>1, <2>2, LenProperties DEF Positions
  <2>4. sent[c][i] \in 1..Len(published)
    BY <2>2, <2>3, ElementOfSeq DEF Positions
  <2>5. published[sent[c][i]] \in Events
    BY <1>1, <2>4, ElementOfSeq DEF HubType
  <2>6. i \in Nat
    BY <2>2
  <2> HIDE DEF c, i
  <2>7. place' \in [Clients -> 0..Len(published)] /\ place'[p] = sent[c][i]
    BY <1>1, <1>4, <2>1, <2>4 DEF PageType
  <2>8. lastId' \in [Clients -> Events]
    BY <1>1, <2>1, <2>5, <2>7 DEF PageType
  <2>9. received' \in [Clients -> Nat] /\ refresh' \in [Clients -> BOOLEAN]
    BY <1>1, <1>10 DEF receiveStatus, PageType
  <2>10. PageType'
    BY <1>1, <1>4, <1>10, <2>7, <2>8, <2>9 DEF receiveStatus, PageType
  <2> QED BY <1>5, <1>10, <2>10 DEF receiveStatus
<1>11. CASE GetOrder(p)
  <2>1. Status \in Events
    BY <1>0, StatusIs
  <2>2. PageType'
    BY <1>1, <1>4, <1>11, <2>1 DEF GetOrder, PageType
  <2> QED BY <1>5, <1>11, <2>2 DEF GetOrder
<1> QED BY <1>6, <1>7, <1>8, <1>9, <1>10, <1>11

\* After a stop there is nothing.
LEMMA RestartEmpties ==
    ASSUME HubInv, Restart
    PROVE  /\ published' = <<>> /\ history' = <<>>
           /\ \A c \in Connections :
                /\ handler'[c] \in {"none", "ended"}
                /\ replay'[c] = <<>> /\ buffer'[c] = <<>> /\ sent'[c] = <<>>
                /\ from'[c] = 0 /\ at'[c] = 0 /\ lost'[c] = {} /\ last'[c] = last[c]
           /\ \A p \in Clients :
                /\ stream'[p] = <<>> /\ received'[p] = 0 /\ place'[p] = 0
<1>1. \A c \in Connections : handler[c] = "none" =>
        /\ replay[c] = <<>> /\ buffer[c] = <<>> /\ sent[c] = <<>>
        /\ from[c] = 0 /\ at[c] = 0 /\ lost[c] = {}
  BY DEF HubInv, HandlerInv
<1>2. ASSUME NEW c \in Connections
      PROVE  /\ handler'[c] \in {"none", "ended"}
             /\ replay'[c] = <<>> /\ buffer'[c] = <<>> /\ sent'[c] = <<>>
             /\ from'[c] = 0 /\ at'[c] = 0 /\ lost'[c] = {} /\ last'[c] = last[c]
  BY <1>1 DEF Restart, Ends
<1>3. ASSUME NEW p \in Clients
      PROVE  stream'[p] = <<>> /\ received'[p] = 0 /\ place'[p] = 0
  BY DEF HubInv, PageInv, Following, Restart, Falls
<1> QED BY <1>2, <1>3 DEF Restart

LEMMA RestartType ==
    ASSUME HubInv, Restart PROVE TypeOK'
<1>1. KafkaType /\ HubType /\ ConnectionType /\ PageType /\ FaultType
  BY TypeParts DEF HubInv
<1>2. published' = <<>> /\ history' = <<>> /\ Len(published)' = 0
  BY EmptySeq DEF Restart
<1>3. <<>> \in Positions' /\ 0 \in (0..Len(published))'
  BY <1>2, EmptySeq DEF Positions
<1>4. HubType'
  BY <1>2, <1>3, EmptySeq DEF HubType
<1>5. KafkaType'
  <2>1. /\ accepted' = accepted /\ log' = log /\ Topic' = Topic
        /\ position' = committed /\ committed' = committed
    BY DEF Restart, kafka, Topic
  <2>2. committed \in 0..committed /\ committed \in 0..Len(Topic)
    BY <1>1, TopicLength DEF KafkaType
  <2> QED BY <1>1, <2>1, <2>2 DEF KafkaType
<1>6. ConnectionType'
  <2>1. \A c \in Connections :
          /\ handler'[c] \in {"none", "accepted", "subscribed", "ended"}
          /\ from'[c] \in (0..Len(published))' /\ at'[c] \in (0..Len(published))'
          /\ replay'[c] \in Positions' /\ buffer'[c] \in Positions'
          /\ sent'[c] \in Positions' /\ lost'[c] \subseteq (1..Len(published))'
    BY <1>3, RestartEmpties
  <2>2. /\ handler' = [c \in Connections |-> handler'[c]]
        /\ from' = [c \in Connections |-> from'[c]] /\ at' = [c \in Connections |-> at'[c]]
        /\ replay' = [c \in Connections |-> replay'[c]]
        /\ buffer' = [c \in Connections |-> buffer'[c]]
        /\ sent' = [c \in Connections |-> sent'[c]]
        /\ lost' = [c \in Connections |-> lost'[c]] /\ last' = last
    BY DEF Restart, Ends
  <2> QED BY <1>1, <2>1, <2>2 DEF ConnectionType
<1>7. PageType'
  <2>1. place' \in [Clients -> 0..Len(published)'] /\ Len(published)' \in Nat
    BY <1>2, <1>3 DEF Restart
  <2> QED BY <1>1, <2>1, FallsType DEF Restart
<1>8. FaultType'
  BY <1>1, HubAssumption DEF Restart, FaultType
<1> QED BY <1>4, <1>5, <1>6, <1>7, <1>8, TypeParts

LEMMA TypeStep == HubInv /\ [Next]_vars => TypeOK'
<1> SUFFICES ASSUME HubInv, [Next]_vars PROVE TypeOK'
  OBVIOUS
<1>1. TypeOK /\ HistoryInv
  BY DEF HubInv
<1>2. CASE UNCHANGED vars
  <2>1. KafkaType' /\ HubType' /\ ConnectionType' /\ PageType' /\ FaultType'
    BY <1>1, <1>2, TypeParts, KafkaTypeSame, HubTypeSame, ConnectionTypeSame,
       PageTypeSame DEF vars, FaultType, faults
  <2> QED BY <2>1, TypeParts
<1>3. CASE OrderChanges \/ \E e \in Events : Deliver(e)
  BY <1>1, <1>3, ChannelType
<1>4. CASE Consume
  BY <1>1, <1>4, ConsumeType
<1>5. CASE Restart
  BY <1>5, RestartType
<1>6. ASSUME NEW c \in Connections,
             subscribe(c) \/ SendReplay(c) \/ SendLive(c) \/ Done(c)
      PROVE  TypeOK'
  BY <1>1, <1>6, HandlerType
<1>7. ASSUME NEW p \in Clients,
             \/ Connect(p) \/ onopen(p) \/ onerror(p) \/ Refused(p)
             \/ receiveStatus(p) \/ GetOrder(p)
      PROVE  TypeOK'
  BY <1>7, PageActionType
<1> QED BY <1>2, <1>3, <1>4, <1>5, <1>6, <1>7 DEF Next

-----------------------------------------------------------------------------
(***************************************************************************)
(* What a step does to the hub, to a connection, and to a page.            *)
(***************************************************************************)
LEMMA HubMoves ==
    ASSUME TypeOK, [Next]_vars
    PROVE  \/ UNCHANGED hub
           \/ Consume /\ \E e \in accepted \ {0} : e \in Events /\ publish(e)
           \/ Restart
<1>1. CASE Consume
  <2>1. Topic[position + 1] \in accepted /\ accepted \subseteq Events
    BY <1>1, TypeParts, TopicLength DEF Consume, TypeOK
  <2> QED BY <1>1, <2>1 DEF Consume
<1>2. CASE UNCHANGED vars
  BY <1>2 DEF vars
<1>3. CASE OrderChanges \/ \E e \in Events : Deliver(e)
  BY <1>3 DEF OrderChanges, Deliver
<1>4. ASSUME NEW c \in Connections,
             subscribe(c) \/ SendReplay(c) \/ SendLive(c) \/ Done(c)
      PROVE  UNCHANGED hub
  BY <1>4 DEF subscribe, SendReplay, SendLive, Done
<1>5. ASSUME NEW p \in Clients,
             \/ Connect(p) \/ onopen(p) \/ onerror(p) \/ Refused(p)
             \/ receiveStatus(p) \/ GetOrder(p)
      PROVE  UNCHANGED hub
  BY <1>5 DEF Connect, onopen, onerror, Refused, receiveStatus, GetOrder
<1> QED BY <1>1, <1>2, <1>3, <1>4, <1>5 DEF Next

\* Nothing of a connection changes.
Kept(c) ==
    /\ handler'[c] = handler[c] /\ last'[c] = last[c] /\ from'[c] = from[c]
    /\ replay'[c] = replay[c] /\ buffer'[c] = buffer[c] /\ sent'[c] = sent[c]
    /\ at'[c] = at[c] /\ lost'[c] = lost[c]

\* The page of a new connection names what it has had last.
Connected(p, c) ==
    /\ c \in Connections /\ handler[c] = "none" /\ stream[p] = <<>>
    /\ handler'[c] = "accepted" /\ last'[c] = lastId[p] /\ from'[c] = place[p]
    /\ replay'[c] = replay[c] /\ buffer'[c] = buffer[c] /\ sent'[c] = sent[c]
    /\ at'[c] = at[c] /\ lost'[c] = lost[c]
    /\ stream' = [stream EXCEPT ![p] = c]
    /\ \A d \in Connections \ {c} : Kept(d)
    /\ UNCHANGED <<hub, received, place, lastId, shown, refresh>>

LEMMA ConnectIs ==
    ASSUME TypeOK, NEW p \in Clients, Connect(p)
    PROVE  \E c : Connected(p, c)
<1>1. PICK k \in Attempts :
        /\ handler[<<p, k>>] = "none"
        /\ handler' = [handler EXCEPT ![<<p, k>>] = "accepted"]
        /\ last' = [last EXCEPT ![<<p, k>>] = lastId[p]]
        /\ from' = [from EXCEPT ![<<p, k>>] = place[p]]
        /\ stream' = [stream EXCEPT ![p] = <<p, k>>]
  BY DEF Connect
<1>2. <<p, k>> \in Connections
  BY DEF Connections
<1>3. PICK c \in Connections : c = <<p, k>>
  BY <1>2
<1>4. Connected(p, c)
  BY <1>1, <1>3 DEF Connect, Connected, Kept, TypeOK
<1> QED BY <1>4

LEMMA ConnectionMoves ==
    ASSUME TypeOK, [Next]_vars, NEW c \in Connections
    PROVE  \/ Kept(c) /\ UNCHANGED hub
           \/ Consume /\ \E e \in Events \ {0} : publish(e)
           \/ subscribe(c) \/ SendReplay(c) \/ SendLive(c) \/ Done(c)
           \/ \E p \in Clients : Connected(p, c)
           \/ Restart
<1>1. CASE Consume
  <2>1. UNCHANGED <<hub, buffer, lost>> => Kept(c) /\ UNCHANGED hub
    BY <1>1 DEF Consume, Kept
  <2>2. Topic[position + 1] \in accepted /\ accepted \subseteq Events
    BY <1>1, TypeParts, TopicLength DEF Consume, TypeOK
  <2> QED BY <1>1, <2>1, <2>2 DEF Consume
<1>2. CASE UNCHANGED vars
  BY <1>2 DEF vars, connections, Kept
<1>3. CASE OrderChanges \/ \E e \in Events : Deliver(e)
  BY <1>3 DEF OrderChanges, Deliver, connections, Kept
<1>4. ASSUME NEW d \in Connections,
             subscribe(d) \/ SendReplay(d) \/ SendLive(d) \/ Done(d), d # c
      PROVE  Kept(c) /\ UNCHANGED hub
  <2>1. CASE subscribe(d)
    BY <1>4, <2>1 DEF subscribe, Kept, TypeOK
  <2>2. CASE SendReplay(d)
    BY <1>4, <2>2 DEF SendReplay, Kept, TypeOK
  <2>3. CASE SendLive(d)
    BY <1>4, <2>3 DEF SendLive, Kept, TypeOK
  <2>4. CASE Done(d)
    BY <1>4, <2>4 DEF Done, Ends, Kept
  <2> QED BY <1>4, <2>1, <2>2, <2>3, <2>4
<1>5. ASSUME NEW p \in Clients,
             \/ onopen(p) \/ onerror(p) \/ Refused(p)
             \/ receiveStatus(p) \/ GetOrder(p)
      PROVE  Kept(c) /\ UNCHANGED hub
  BY <1>5 DEF onopen, onerror, Refused, receiveStatus, GetOrder, connections, Kept
<1>6. ASSUME NEW p \in Clients, Connect(p)
      PROVE  Connected(p, c) \/ (Kept(c) /\ UNCHANGED hub)
  BY <1>6, ConnectIs DEF Connected
<1> QED BY <1>1, <1>2, <1>3, <1>4, <1>5, <1>6 DEF Next

-----------------------------------------------------------------------------
(***************************************************************************)
(* The parts of the invariant.                                             *)
(***************************************************************************)
LEMMA StatusStep == HubInv /\ [Next]_vars => StatusInv'
<1> SUFFICES ASSUME HubInv, [Next]_vars PROVE StatusInv'
  OBVIOUS
<1>1. TypeOK /\ StatusInv
  BY DEF HubInv
<1>2. accepted' = accepted \/ accepted' = accepted \cup {0}
        \/ accepted' = accepted \cup {Status + 1}
  <2>1. CASE OrderChanges
    BY <2>1 DEF OrderChanges, Channel!Accept
  <2>2. CASE UNCHANGED vars
    BY <2>2 DEF vars, kafka
  <2>3. ASSUME NEW e \in Events, Deliver(e) PROVE accepted' = accepted
    BY <2>3 DEF Deliver, Channel!Deliver
  <2>4. CASE Consume \/ Restart
    BY <2>4 DEF Consume, Restart, kafka
  <2>5. ASSUME NEW c \in Connections,
               subscribe(c) \/ SendReplay(c) \/ SendLive(c) \/ Done(c)
        PROVE  accepted' = accepted
    BY <2>5 DEF subscribe, SendReplay, SendLive, Done, kafka
  <2>6. ASSUME NEW p \in Clients,
               \/ Connect(p) \/ onopen(p) \/ onerror(p) \/ Refused(p)
               \/ receiveStatus(p) \/ GetOrder(p)
        PROVE  accepted' = accepted
    BY <2>6 DEF Connect, onopen, onerror, Refused, receiveStatus, GetOrder, kafka
  <2> QED BY <2>1, <2>2, <2>3, <2>4, <2>5, <2>6 DEF Next
<1>3. \E n \in Nat : accepted' \ {0} = 1..n
  <2>1. accepted \ {0} = 1..Status /\ Status \in Nat
    BY <1>1, StatusIs DEF Events
  <2>2. 1..Status \cup {Status + 1} = 1..(Status + 1) /\ Status + 1 \in Nat
        /\ Status + 1 # 0
    BY <2>1
  <2>3. \/ accepted' \ {0} = accepted \ {0}
        \/ accepted' \ {0} = (accepted \ {0}) \cup {Status + 1}
    BY <1>2, <2>2
  <2> QED BY <2>1, <2>2, <2>3
<1>4. accepted \subseteq accepted'
  BY <1>2
<1>5. ASSUME NEW i \in DOMAIN published' PROVE published'[i] \in accepted'
  <2>1. CASE UNCHANGED hub
    BY <1>1, <1>4, <2>1 DEF hub, StatusInv
  <2>2. ASSUME NEW e \in accepted \ {0}, e \in Events, publish(e)
        PROVE  published'[i] \in accepted'
    <3>1. /\ DOMAIN published = 1..Len(published) /\ Len(published) \in Nat
          /\ DOMAIN published' = 1..(Len(published) + 1)
          /\ \A j \in 1..Len(published) : published'[j] = published[j]
          /\ published'[Len(published) + 1] = e
      BY <1>1, <2>2, PublishedMore DEF publish
    <3>2. i \in 1..Len(published) \/ i = Len(published) + 1
      BY <3>1
    <3> QED BY <1>1, <1>4, <2>2, <3>1, <3>2 DEF StatusInv
  <2>3. CASE Restart
    BY <2>3 DEF Restart
  <2> QED BY <1>1, <2>1, <2>2, <2>3, HubMoves
<1> QED BY <1>3, <1>5 DEF StatusInv

LEMMA HistoryStep == HubInv /\ [Next]_vars => HistoryInv'
<1> SUFFICES ASSUME HubInv, [Next]_vars PROVE HistoryInv'
  OBVIOUS
<1>1. TypeOK /\ HistoryInv
  BY DEF HubInv
<1>2. CASE UNCHANGED hub
  BY <1>1, <1>2 DEF hub, HistoryInv
<1>3. ASSUME NEW e \in Events \ {0}, publish(e) PROVE HistoryInv'
  <2> DEFINE n == Len(published) + 1
             t == Newest(Append(history, n))
  <2>1. /\ t \in Seq(1..n)
        /\ Len(t) = IF n > HistorySize THEN HistorySize ELSE n
        /\ \A i \in 1..Len(t) : t[i] = n - Len(t) + i
    BY <1>1, HistoryMoves
  <2>2. Len(published') = n
    BY <1>1, <1>3, PublishedMore DEF publish
  <2>3. history' = t
    BY <1>3 DEF publish
  <2> HIDE DEF n, t
  <2>4. DOMAIN t = 1..Len(t)
    BY <2>1, LenProperties
  <2> QED BY <2>1, <2>2, <2>3, <2>4 DEF HistoryInv
<1>4. CASE Restart
  BY <1>4, EmptySeq, HubAssumption DEF Restart, HistoryInv
<1> QED BY <1>1, <1>2, <1>3, <1>4, HubMoves

LEMMA HandlerStep == HubInv /\ [Next]_vars => HandlerInv'
<1> SUFFICES ASSUME HubInv, [Next]_vars, NEW c \in Connections,
                    handler'[c] # "subscribed"
             PROVE  /\ replay'[c] = <<>> /\ buffer'[c] = <<>> /\ sent'[c] = <<>>
                    /\ at'[c] = 0 /\ lost'[c] = {}
                    /\ handler'[c] # "accepted" => from'[c] = 0
  BY DEF HandlerInv
<1>1. TypeOK /\ HandlerInv
  BY DEF HubInv
<1>2. CASE Kept(c)
  BY <1>1, <1>2 DEF Kept, HandlerInv
<1>3. CASE Consume /\ \E e \in Events \ {0} : publish(e)
  BY <1>1, <1>3 DEF Consume, publish, HandlerInv, Subscribed
<1>4. CASE subscribe(c) \/ SendReplay(c) \/ SendLive(c)
  BY <1>1, <1>4 DEF subscribe, SendReplay, SendLive, Subscribed, TypeOK
<1>5. CASE Done(c)
  BY <1>5 DEF Done, Ends
<1>6. CASE \E p \in Clients : Connected(p, c)
  BY <1>1, <1>6 DEF Connected, HandlerInv
<1>7. CASE Restart
  BY <1>7, RestartEmpties
<1> QED BY <1>1, <1>2, <1>3, <1>4, <1>5, <1>6, <1>7, ConnectionMoves

-----------------------------------------------------------------------------
(***************************************************************************)
(* What a connection is sent.                                              *)
(***************************************************************************)
LEMMA StreamType ==
    ASSUME TypeOK, NEW c \in Connections
    PROVE  /\ sent[c] \in Positions /\ replay[c] \in Positions /\ buffer[c] \in Positions
           /\ sent[c] \o replay[c] \in Positions /\ Stream(c) \in Positions
           /\ DOMAIN Stream(c) = 1..Len(Stream(c)) /\ Len(Stream(c)) \in Nat
<1>1. sent[c] \in Positions /\ replay[c] \in Positions /\ buffer[c] \in Positions
  BY DEF TypeOK
<1>2. sent[c] \o replay[c] \in Positions /\ Stream(c) \in Positions
  BY <1>1, ConcatProperties DEF Positions, Stream
<1> QED BY <1>1, <1>2, LenProperties DEF Positions

\* Sending does not change what is sent in all.
LEMMA StreamSends ==
    ASSUME TypeOK, NEW c \in Connections, SendReplay(c) \/ SendLive(c)
    PROVE  Stream(c)' = Stream(c)
<1>1. /\ sent[c] \in Positions /\ replay[c] \in Positions /\ buffer[c] \in Positions
      /\ sent \in [Connections -> Positions] /\ replay \in [Connections -> Positions]
      /\ buffer \in [Connections -> Positions]
  BY DEF TypeOK
<1>2. CASE SendReplay(c)
  <2>1. /\ sent'[c] = Append(sent[c], Head(replay[c])) /\ replay'[c] = Tail(replay[c])
        /\ buffer'[c] = buffer[c] /\ replay[c] # <<>>
    BY <1>1, <1>2 DEF SendReplay
  <2>2. Append(sent[c], Head(replay[c])) \o Tail(replay[c]) = sent[c] \o replay[c]
    <3> DEFINE s == sent[c]
               r == replay[c]
               P == 1..Len(published)
    <3>1. s \in Seq(P) /\ r \in Seq(P) /\ r # <<>>
      BY <1>1, <2>1 DEF Positions
    <3> HIDE DEF s, r, P
    <3>2. Append(s, Head(r)) \o Tail(r) = s \o r
      BY <3>1, HeadMoves
    <3> QED BY <3>2 DEF s, r
  <2> QED BY <2>1, <2>2 DEF Stream
<1>3. CASE SendLive(c)
  <2>1. /\ sent'[c] = Append(sent[c], Head(buffer[c])) /\ buffer'[c] = Tail(buffer[c])
        /\ replay'[c] = <<>> /\ replay[c] = <<>> /\ buffer[c] # <<>>
    BY <1>1, <1>3 DEF SendLive
  <2>2. /\ Append(sent[c], Head(buffer[c])) \in Positions
        /\ Append(sent[c], Head(buffer[c])) \o Tail(buffer[c]) = sent[c] \o buffer[c]
    <3> DEFINE s == sent[c]
               b == buffer[c]
    <3>1. s \in Seq(1..Len(published)) /\ b \in Seq(1..Len(published)) /\ b # <<>>
      BY <1>1, <2>1 DEF Positions
    <3> HIDE DEF s, b
    <3>2. /\ Append(s, Head(b)) \in Seq(1..Len(published))
          /\ Append(s, Head(b)) \o Tail(b) = s \o b
      BY <3>1, HeadMoves
    <3> QED BY <3>2 DEF s, b, Positions
  <2>3. /\ sent[c] \o <<>> = sent[c]
        /\ Append(sent[c], Head(buffer[c])) \o <<>> = Append(sent[c], Head(buffer[c]))
    BY <1>1, <2>2, ConcatEmptySeq DEF Positions
  <2> QED BY <2>1, <2>2, <2>3 DEF Stream
<1> QED BY <1>2, <1>3

LEMMA OneIsSent ==
    ASSUME TypeOK, NEW c \in Connections, SendReplay(c) \/ SendLive(c)
    PROVE  /\ Len(sent'[c]) = Len(sent[c]) + 1 /\ Len(sent[c]) \in Nat
           /\ handler'[c] = "subscribed"
<1>1. /\ sent[c] \in Seq(1..Len(published)) /\ replay[c] \in Seq(1..Len(published))
      /\ buffer[c] \in Seq(1..Len(published)) /\ handler'[c] = "subscribed"
      /\ \/ replay[c] # <<>> /\ sent'[c] = Append(sent[c], Head(replay[c]))
         \/ buffer[c] # <<>> /\ sent'[c] = Append(sent[c], Head(buffer[c]))
  BY DEF SendReplay, SendLive, Subscribed, TypeOK, Positions
<1>2. ASSUME NEW s \in Seq(1..Len(published)), s # <<>>
      PROVE  /\ Len(Append(sent[c], Head(s))) = Len(sent[c]) + 1
             /\ Len(sent[c]) \in Nat
  BY <1>1, <1>2, HeadTailProperties, AppendProperties, LenProperties
<1> QED BY <1>1, <1>2

\* An envelope comes last, or is lost.
LEMMA StreamPublishes ==
    ASSUME TypeOK, NEW c \in Subscribed, NEW e \in Events \ {0}, Consume, publish(e)
    PROVE  LET n == Len(published) + 1 IN
           \/ /\ Stream(c)' = Append(Stream(c), n) /\ lost'[c] = lost[c]
              /\ buffer'[c] # <<>>
           \/ /\ Stream(c)' = Stream(c) /\ lost'[c] = lost[c] \cup {n}
              /\ buffer'[c] = buffer[c] /\ Len(buffer[c]) >= Capacity
<1> DEFINE n == Len(published) + 1
<1>1. c \in Connections /\ sent'[c] = sent[c] /\ replay'[c] = replay[c]
  BY DEF Subscribed, Consume
<1>2. CASE Len(buffer[c]) >= Capacity
  BY <1>1, <1>2 DEF publish, Stream
<1>3. CASE ~(Len(buffer[c]) >= Capacity)
  <2>1. buffer'[c] = Append(buffer[c], n) /\ lost'[c] = lost[c]
    BY <1>1, <1>3 DEF publish
  <2>2. /\ sent[c] \o replay[c] \in Seq(1..n) /\ buffer[c] \in Seq(1..n) /\ n \in 1..n
    <3>1. Len(published) \in Nat
      BY Lengths
    <3>2. 1..Len(published) \subseteq 1..n /\ n \in 1..n
      BY <3>1
    <3> QED BY <1>1, <3>2, StreamType, LargerSet DEF Positions
  <2> DEFINE s == sent[c] \o replay[c]
             b == buffer[c]
  <2> HIDE DEF n, s, b
  <2>3. s \o Append(b, n) = Append(s \o b, n) /\ Append(b, n) # <<>>
    <3> DEFINE P == 1..n
    <3>1. s \in Seq(P) /\ b \in Seq(P) /\ n \in P
      BY <2>2 DEF s, b
    <3> HIDE DEF P
    <3> QED BY <3>1, LastPart
  <2>4. buffer'[c] # <<>>
    BY <2>1, <2>3 DEF b
  <2> QED BY <1>1, <2>1, <2>3, <2>4 DEF Stream, n, s, b
<1> QED BY <1>2, <1>3

\* A connection begins with what is replayed to it.
LEMMA StreamBegins ==
    ASSUME TypeOK, HistoryInv, HandlerInv, NEW c \in Connections, subscribe(c)
    PROVE  /\ Stream(c)' = After(last[c]) /\ replay'[c] = After(last[c])
           /\ buffer'[c] = <<>> /\ sent'[c] = <<>>
           /\ lost'[c] = {} /\ at'[c] = Len(published)
           /\ last'[c] = last[c] /\ from'[c] = from[c] /\ published' = published
<1>1. /\ replay'[c] = After(last[c]) /\ sent'[c] = <<>> /\ buffer'[c] = <<>>
      /\ lost'[c] = {} /\ at'[c] = Len(published)
      /\ last'[c] = last[c] /\ from'[c] = from[c] /\ published' = published
  BY DEF subscribe, HandlerInv, TypeOK, hub
<1>2. After(last[c]) \in Positions
  BY AfterType
<1>3. (<<>> \o After(last[c])) \o <<>> = After(last[c])
  BY <1>2, ConcatEmptySeq DEF Positions
<1> QED BY <1>1, <1>3 DEF Stream

Ordered(s) == \A i, j \in DOMAIN s : i < j => s[i] < s[j]

LEMMA OrderStep == HubInv /\ [Next]_vars => InOrderOnce'
<1> SUFFICES ASSUME HubInv, [Next]_vars, NEW c \in Connections,
                    handler'[c] = "subscribed"
             PROVE  Ordered(Stream(c)')
  BY DEF InOrderOnce, Ordered, Subscribed
<1>1. TypeOK /\ HistoryInv /\ HandlerInv
  BY DEF HubInv
<1>2. c \in Subscribed => Ordered(Stream(c))
  BY DEF HubInv, InOrderOnce, Ordered
<1>3. CASE Kept(c)
  BY <1>2, <1>3 DEF Kept, Stream, Subscribed
<1>4. ASSUME NEW e \in Events \ {0}, Consume, publish(e)
      PROVE  Ordered(Stream(c)')
  <2> DEFINE n == Len(published) + 1
             s == Stream(c)
  <2>1. c \in Subscribed
    BY <1>4 DEF Consume, Subscribed
  <2>2. /\ s \in Seq(1..Len(published)) /\ DOMAIN s = 1..Len(s) /\ Len(s) \in Nat
        /\ Len(published) \in Nat
    BY <1>1, StreamType, Lengths DEF Positions
  <2>3. Ordered(s)
    BY <1>2, <2>1
  <2>4. Stream(c)' = Append(s, n) \/ Stream(c)' = s
    BY <1>1, <1>4, <2>1, StreamPublishes
  <2> HIDE DEF s
  <2>5. /\ DOMAIN Append(s, n) = 1..(Len(s) + 1)
        /\ \A i \in 1..Len(s) : Append(s, n)[i] = s[i] /\ s[i] \in 1..Len(published)
        /\ Append(s, n)[Len(s) + 1] = n
    <3>1. s \in Seq(1..n) /\ n \in 1..n
      <4>1. 1..Len(published) \subseteq 1..n /\ n \in 1..n
        BY <2>2
      <4> QED BY <2>2, <4>1, LargerSet
    <3>2. \A i \in 1..Len(s) : s[i] \in 1..Len(published)
      BY <2>2, ElementOfSeq
    <3> HIDE DEF n
    <3>3. /\ Append(s, n) \in Seq(1..n) /\ Len(Append(s, n)) = Len(s) + 1
          /\ \A i \in 1..Len(s) : Append(s, n)[i] = s[i]
          /\ Append(s, n)[Len(s) + 1] = n
      BY <3>1, AppendProperties
    <3> QED BY <3>2, <3>3, LenProperties
  <2>6. ASSUME NEW i \in 1..(Len(s) + 1), NEW j \in 1..(Len(s) + 1), i < j
        PROVE  Append(s, n)[i] < Append(s, n)[j]
    <3>1. i \in 1..Len(s)
      BY <2>2, <2>6
    <3>2. CASE j \in 1..Len(s)
      BY <2>2, <2>3, <2>5, <2>6, <3>1, <3>2 DEF Ordered
    <3>3. CASE j = Len(s) + 1
      BY <2>2, <2>5, <3>1, <3>3
    <3> QED BY <2>2, <3>2, <3>3
  <2> QED BY <2>3, <2>4, <2>5, <2>6 DEF Ordered
<1>5. CASE subscribe(c)
  <2>1. Stream(c)' = After(last[c])
    BY <1>1, <1>5, StreamBegins
  <2>2. PICK m \in 0..Len(published) :
          \A i \in DOMAIN After(last[c]) : After(last[c])[i] = m + i
    BY <1>1, ReplayIsRun
  <2>3. DOMAIN After(last[c]) \subseteq Nat /\ m \in Nat
    BY <1>1, AfterType, LenProperties, Lengths DEF Positions
  <2> QED BY <2>1, <2>2, <2>3 DEF Ordered
<1>6. CASE SendReplay(c) \/ SendLive(c)
  BY <1>1, <1>2, <1>6, StreamSends DEF SendReplay, SendLive
<1>7. CASE Done(c) \/ (\E p \in Clients : Connected(p, c)) \/ Restart
  BY <1>7, RestartEmpties DEF Done, Ends, Connected
<1> QED BY <1>1, <1>3, <1>4, <1>5, <1>6, <1>7, ConnectionMoves

\* The envelopes a connection has to get are sent, will be, or are lost.
Covered(c) ==
    (ResumePoint(c) + 1)..Len(published) \subseteq Values(Stream(c)) \cup lost[c]

LEMMA ResumeType ==
    ASSUME TypeOK, NEW c \in Connections
    PROVE  ResumePoint(c) \in Nat
<1>1. at[c] \in Nat /\ from[c] \in Nat /\ HistorySize \in Nat
  BY Lengths DEF TypeOK
<1> QED BY <1>1 DEF ResumePoint

LEMMA MissedStep == HubInv /\ [Next]_vars => NothingMissed'
<1> SUFFICES ASSUME HubInv, [Next]_vars, NEW c \in Connections,
                    handler'[c] = "subscribed"
             PROVE  Covered(c)'
  BY DEF NothingMissed, Covered, Subscribed
<1>1. TypeOK /\ HistoryInv /\ HandlerInv /\ PlaceInv
  BY DEF HubInv
<1>2. c \in Subscribed => Covered(c)
  BY DEF HubInv, NothingMissed, Covered
<1>3. CASE Kept(c) /\ UNCHANGED hub
  <2>1. Stream(c)' = Stream(c) /\ ResumePoint(c)' = ResumePoint(c) /\ published' = published
    BY <1>3 DEF Kept, Stream, ResumePoint, Known, hub
  <2> QED BY <1>2, <1>3, <2>1 DEF Kept, Covered, Subscribed
<1>4. ASSUME NEW e \in Events \ {0}, Consume, publish(e)
      PROVE  Covered(c)'
  <2> DEFINE n == Len(published)
             r == ResumePoint(c)
  <2>1. c \in Subscribed
    BY <1>4 DEF Consume, Subscribed
  <2>2. r' = r /\ r \in Nat /\ Len(published)' = n + 1 /\ n \in Nat
    BY <1>1, <1>4, ResumeType, PublishedMore DEF Consume, publish, ResumePoint, Known
  <2>3. Values(Stream(c)) \subseteq Values(Stream(c)') /\ lost[c] \subseteq lost'[c]
        /\ n + 1 \in Values(Stream(c)') \cup lost'[c]
    <3>1. CASE /\ Stream(c)' = Stream(c) /\ lost'[c] = lost[c] \cup {n + 1}
      BY <3>1
    <3>2. CASE /\ Stream(c)' = Append(Stream(c), n + 1) /\ lost'[c] = lost[c]
      <4> DEFINE s == Stream(c)
                 t == Append(s, n + 1)
      <4>1. s \in Seq(1..n)
        BY <1>1, StreamType DEF Positions
      <4>2. s \in Seq(Nat) /\ n + 1 \in Nat
        BY <2>2, <4>1, LargerSet
      <4> HIDE DEF s, n
      <4>3. /\ DOMAIN s = 1..Len(s) /\ DOMAIN t = 1..(Len(s) + 1) /\ Len(s) \in Nat
            /\ \A i \in 1..Len(s) : t[i] = s[i]
            /\ t[Len(s) + 1] = n + 1
        BY <4>2, AppendProperties, LenProperties
      <4> HIDE DEF t
      <4>4. Len(s) + 1 \in DOMAIN t /\ DOMAIN s \subseteq DOMAIN t
        BY <4>3
      <4>5. Values(s) \subseteq Values(t) /\ n + 1 \in Values(t)
        BY <4>3, <4>4 DEF Values
      <4> QED BY <3>2, <4>5 DEF s, t
    <3> QED BY <1>1, <1>4, <2>1, <3>1, <3>2, StreamPublishes
  <2>4. (r + 1)..(n + 1) \subseteq ((r + 1)..n) \cup {n + 1}
    BY <2>2
  <2>5. (r + 1)..n \subseteq Values(Stream(c)) \cup lost[c]
    BY <1>2, <2>1 DEF Covered
  <2>6. Values(Stream(c))' = Values(Stream(c)')
    BY DEF Values
  <2> HIDE DEF n, r
  <2>7. (r + 1)..(n + 1) \subseteq Values(Stream(c))' \cup lost'[c]
    BY <2>3, <2>4, <2>5, <2>6
  <2> QED BY <2>2, <2>7 DEF Covered, r
<1>5. CASE subscribe(c)
  <2> DEFINE n == Len(published)
             h == Len(history)
             s == After(last[c])
  <2>1. /\ Stream(c)' = s /\ lost'[c] = {} /\ at'[c] = n
        /\ last'[c] = last[c] /\ from'[c] = from[c] /\ published' = published
    BY <1>1, <1>5, StreamBegins
  <2>2. PICK m \in 0..n :
          /\ s \in Positions /\ Len(s) = n - m
          /\ \A i \in DOMAIN s : s[i] = m + i
          /\ last[c] = 0 => m = n - h
          /\ last[c] # 0 =>
               \A f \in (n - h + 1)..n : published[f] = last[c] => m <= f
    BY <1>1, ReplayIsRun
  <2>3. /\ n \in Nat /\ h \in Nat /\ m \in Nat /\ HistorySize \in Nat \ {0}
        /\ h = IF n > HistorySize THEN HistorySize ELSE n
        /\ from[c] \in 0..n
    <3>1. n \in Nat /\ h \in Nat /\ HistorySize \in Nat \ {0}
      BY <1>1, Lengths
    <3>2. h = IF n > HistorySize THEN HistorySize ELSE n
      BY <1>1 DEF HistoryInv
    <3>3. from[c] \in 0..n
      BY <1>1 DEF TypeOK
    <3> QED BY <2>2, <3>1, <3>2, <3>3
  <2>4. DOMAIN s = 1..(n - m)
    BY <2>2, LenProperties DEF Positions
  <2>5. from[c] # 0 => published[from[c]] = last[c]
    BY <1>1 DEF PlaceInv
  <2>6. ResumePoint(c)' =
          IF last[c] = 0 THEN IF n > HistorySize THEN n - HistorySize ELSE 0
          ELSE IF from[c] # 0 /\ from[c] + HistorySize > n THEN from[c] ELSE n
    BY <2>1 DEF ResumePoint, Known
  <2> HIDE DEF n, h, s
  <2>7. m <= ResumePoint(c)'
    <3>1. CASE last[c] = 0
      BY <2>2, <2>3, <2>6, <3>1
    <3>2. CASE last[c] # 0 /\ from[c] # 0 /\ from[c] + HistorySize > n
      <4>1. from[c] \in (n - h + 1)..n
        BY <2>3, <3>2
      <4> QED BY <2>2, <2>5, <2>6, <3>2, <4>1
    <3>3. CASE last[c] # 0 /\ ~(from[c] # 0 /\ from[c] + HistorySize > n)
      BY <2>2, <2>3, <2>6, <3>3
    <3> QED BY <3>1, <3>2, <3>3
  <2>8. ResumePoint(c)' \in Nat
    BY <2>3, <2>6
  <2>9. ASSUME NEW x \in (ResumePoint(c)' + 1)..n PROVE x \in Values(s)
    <3>1. x - m \in 1..(n - m) /\ m + (x - m) = x
      BY <2>3, <2>7, <2>8
    <3>2. s[x - m] = x
      BY <2>2, <2>4, <3>1
    <3> QED BY <2>4, <3>1, <3>2 DEF Values
  <2>10. Values(Stream(c))' = Values(s)
    BY <2>1 DEF Values
  <2> QED BY <2>1, <2>9, <2>10 DEF Covered, n
<1>6. CASE SendReplay(c) \/ SendLive(c)
  <2>1. Stream(c)' = Stream(c)
    BY <1>1, <1>6, StreamSends
  <2>2. /\ c \in Subscribed /\ published' = published /\ lost' = lost
        /\ ResumePoint(c)' = ResumePoint(c)
    BY <1>6 DEF SendReplay, SendLive, hub, ResumePoint, Known
  <2> QED BY <1>2, <2>1, <2>2 DEF Covered, Values
<1>7. CASE Done(c) \/ (\E p \in Clients : Connected(p, c)) \/ Restart
  BY <1>7, RestartEmpties DEF Done, Ends, Connected
<1> QED BY <1>1, <1>3, <1>4, <1>5, <1>6, <1>7, ConnectionMoves

-----------------------------------------------------------------------------
(***************************************************************************)
(* The pages.                                                              *)
(***************************************************************************)
\* Nothing of a page changes but what it thinks of its stream's state.
PageKept(p) ==
    /\ stream'[p] = stream[p] /\ received'[p] = received[p]
    /\ place'[p] = place[p] /\ lastId'[p] = lastId[p]
    /\ shown'[p] = shown[p] /\ refresh'[p] = refresh[p]

\* Its stream breaks, or it gets none.
Fallen(p) ==
    /\ stream'[p] = <<>> /\ received'[p] = 0 /\ refresh'[p] = TRUE
    /\ place'[p] = place[p] /\ lastId'[p] = lastId[p] /\ shown'[p] = shown[p]
    /\ UNCHANGED hub

\* It reads an envelope that was sent, and is to read the order again.
Received(p) ==
    LET c == stream[p]
        i == received[p] + 1
    IN  /\ c \in Connections /\ i \in 1..Len(sent[c]) /\ i \in Nat
        /\ stream'[p] = c /\ received'[p] = i /\ refresh'[p] = TRUE
        /\ place'[p] \in 1..Len(published) /\ lastId'[p] = published[place'[p]]
        /\ UNCHANGED <<hub, connections>>

\* It reads the order.
HasRead(p) ==
    /\ stream'[p] = stream[p] /\ received'[p] = received[p]
    /\ place'[p] = place[p] /\ lastId'[p] = lastId[p]
    /\ shown'[p] = Status
    /\ UNCHANGED <<hub, connections>>

LEMMA OtherPages ==
    ASSUME TypeOK, NEW p \in Clients, NEW q \in Clients \ {p},
           \/ Connect(q) \/ onopen(q) \/ onerror(q) \/ Refused(q)
           \/ receiveStatus(q) \/ GetOrder(q)
    PROVE  PageKept(p)
<1>1. CASE Connect(q)
  BY <1>1 DEF Connect, PageKept, TypeOK
<1>2. CASE onopen(q)
  BY <1>2 DEF onopen, PageKept
<1>3. CASE onerror(q)
  BY <1>3 DEF onerror, Falls, PageKept, TypeOK
<1>4. CASE Refused(q)
  BY <1>4 DEF Refused, Falls, PageKept, TypeOK
<1>5. CASE receiveStatus(q)
  BY <1>5 DEF receiveStatus, PageKept, TypeOK
<1>6. CASE GetOrder(q)
  BY <1>6 DEF GetOrder, PageKept, TypeOK
<1> QED BY <1>1, <1>2, <1>3, <1>4, <1>5, <1>6

LEMMA ReceiveIs ==
    ASSUME TypeOK, NEW p \in Clients, receiveStatus(p)
    PROVE  Received(p)
<1> DEFINE c == stream[p]
           i == received[p] + 1
<1>1. /\ c # <<>> /\ received[p] < Len(sent[c])
      /\ received' = [received EXCEPT ![p] = @ + 1]
      /\ place' = [place EXCEPT ![p] = sent[c][i]]
      /\ lastId' = [lastId EXCEPT ![p] = published[place'[p]]]
      /\ refresh' = [refresh EXCEPT ![p] = TRUE]
      /\ UNCHANGED <<hub, connections>> /\ stream' = stream
  BY DEF receiveStatus
<1>2. c \in Connections /\ sent[c] \in Positions /\ received[p] \in Nat
  BY <1>1 DEF TypeOK
<1>3. i \in 1..Len(sent[c]) /\ i \in Nat
  BY <1>1, <1>2, LenProperties DEF Positions
<1>4. sent[c][i] \in 1..Len(published)
  BY <1>2, <1>3, ElementOfSeq DEF Positions
<1>5. received'[p] = i /\ refresh'[p] = TRUE /\ stream'[p] = c
  BY <1>1 DEF TypeOK
<1> HIDE DEF c, i
<1>6. place'[p] = sent[c][i] /\ lastId'[p] = published[place'[p]]
  BY <1>1 DEF TypeOK
<1> QED BY <1>1, <1>2, <1>3, <1>4, <1>5, <1>6 DEF Received, c, i

LEMMA PageMoves ==
    ASSUME TypeOK, [Next]_vars, NEW p \in Clients
    PROVE  \/ PageKept(p)
           \/ \E c : Connected(p, c)
           \/ Fallen(p) /\ UNCHANGED connections
           \/ Received(p)
           \/ HasRead(p)
           \/ Restart
<1>1. CASE Consume \/ UNCHANGED vars
  BY <1>1 DEF Consume, vars, pages, PageKept
<1>2. CASE OrderChanges \/ \E e \in Events : Deliver(e)
  BY <1>2 DEF OrderChanges, Deliver, pages, PageKept
<1>3. ASSUME NEW c \in Connections,
             subscribe(c) \/ SendReplay(c) \/ SendLive(c) \/ Done(c)
      PROVE  PageKept(p)
  BY <1>3 DEF subscribe, SendReplay, SendLive, Done, pages, PageKept
<1>4. ASSUME NEW q \in Clients \ {p},
             \/ Connect(q) \/ onopen(q) \/ onerror(q) \/ Refused(q)
             \/ receiveStatus(q) \/ GetOrder(q)
      PROVE  PageKept(p)
  BY <1>4, OtherPages
<1>5. Connect(p) => \E c : Connected(p, c)
  BY ConnectIs
<1>6. onopen(p) => PageKept(p)
  BY DEF onopen, PageKept
<1>7. onerror(p) => Fallen(p) /\ UNCHANGED connections
  BY DEF onerror, Falls, Fallen, TypeOK
<1>8. Refused(p) => Fallen(p) /\ UNCHANGED connections
  BY DEF Refused, Falls, Fallen, TypeOK
<1>9. receiveStatus(p) => Received(p)
  BY ReceiveIs
<1>10. GetOrder(p) => HasRead(p)
  BY DEF GetOrder, HasRead, TypeOK
<1> QED
  BY <1>1, <1>2, <1>3, <1>4, <1>5, <1>6, <1>7, <1>8, <1>9, <1>10 DEF Next

\* What was published stays in its place, but for a stop.
LEMMA PublishedStays ==
    ASSUME TypeOK, [Next]_vars
    PROVE  \/ \A i \in 1..Len(published) : published'[i] = published[i]
           \/ Restart
BY HubMoves, PublishedMore DEF hub, publish

LEMMA PlaceStep == HubInv /\ [Next]_vars => PlaceInv'
<1> SUFFICES ASSUME HubInv, [Next]_vars PROVE PlaceInv'
  OBVIOUS
<1>1. TypeOK /\ PlaceInv
  BY DEF HubInv
<1>2. \/ \A i \in 1..Len(published) : published'[i] = published[i]
      \/ Restart
  BY <1>1, PublishedStays
<1>3. ASSUME NEW c \in Connections, from'[c] # 0
      PROVE  published'[from'[c]] = last'[c]
  <2>1. from[c] # 0 => from[c] \in 1..Len(published) /\ published[from[c]] = last[c]
    BY <1>1, Lengths DEF TypeOK, PlaceInv
  <2>2. CASE from'[c] = from[c] /\ last'[c] = last[c] /\ ~Restart
    BY <1>2, <1>3, <2>1, <2>2
  <2>3. CASE subscribe(c) \/ SendReplay(c) \/ SendLive(c)
    BY <1>3, <2>1, <2>3 DEF subscribe, SendReplay, SendLive, hub
  <2>4. CASE Done(c) \/ Restart
    BY <1>3, <2>4, RestartEmpties DEF Done, Ends
  <2>5. CASE \E p \in Clients : Connected(p, c)
    BY <1>1, <1>3, <2>5 DEF Connected, PlaceInv, hub
  <2>6. CASE Kept(c)
    BY <2>2, <2>4, <2>6 DEF Kept
  <2>7. CASE Consume
    BY <2>2, <2>4, <2>7 DEF Consume
  <2> QED BY <1>1, <2>3, <2>4, <2>5, <2>6, <2>7, ConnectionMoves
<1>4. ASSUME NEW p \in Clients, place'[p] # 0
      PROVE  published'[place'[p]] = lastId'[p]
  <2>1. place[p] # 0 => place[p] \in 1..Len(published) /\ published[place[p]] = lastId[p]
    BY <1>1, Lengths DEF TypeOK, PlaceInv
  <2>2. CASE place'[p] = place[p] /\ lastId'[p] = lastId[p] /\ ~Restart
    BY <1>2, <1>4, <2>1, <2>2
  <2>3. CASE Received(p)
    BY <2>3 DEF Received, hub
  <2>4. CASE Restart
    BY <1>4, <2>4, RestartEmpties
  <2>5. CASE \/ PageKept(p) \/ (\E c : Connected(p, c)) \/ Fallen(p) \/ HasRead(p)
    BY <2>2, <2>4, <2>5 DEF PageKept, Connected, Fallen, HasRead
  <2> QED BY <1>1, <2>3, <2>4, <2>5, PageMoves
<1> QED BY <1>3, <1>4 DEF PlaceInv

LEMMA NoConnection == <<>> \notin Connections
BY DEF Connections

LEMMA PageStep == HubInv /\ [Next]_vars => PageInv'
<1> SUFFICES ASSUME HubInv, [Next]_vars, NEW p \in Clients
             PROVE  Following(p)'
  BY DEF PageInv
<1>1. TypeOK /\ HandlerInv /\ Following(p)
  BY DEF HubInv, PageInv
<1>2. CASE PageKept(p) /\ stream[p] = <<>>
  BY <1>1, <1>2 DEF PageKept, Following
<1>3. CASE PageKept(p) /\ stream[p] # <<>>
  <2> DEFINE c == stream[p]
  <2>1. /\ c \in Connections /\ received[p] \in Nat /\ handler[c] \in {"accepted", "subscribed"}
        /\ received[p] <= Len(sent[c])
        /\ handler[c] = "accepted" => from[c] = place[p]
        /\ stream'[p] = c /\ received'[p] = received[p] /\ place'[p] = place[p]
    BY <1>1, <1>3 DEF TypeOK, Following, PageKept
  <2> SUFFICES /\ handler'[c] \in {"accepted", "subscribed"}
               /\ received[p] <= Len(sent'[c])
               /\ handler'[c] = "accepted" => from'[c] = place[p]
    BY <1>3, <2>1 DEF Following
  <2> HIDE DEF c
  <2>2. CASE Kept(c)
    BY <2>1, <2>2 DEF Kept
  <2>3. CASE Consume
    BY <2>1, <2>3 DEF Consume
  <2>4. CASE subscribe(c)
    BY <1>1, <2>1, <2>4 DEF subscribe, TypeOK
  <2>5. CASE SendReplay(c) \/ SendLive(c)
    BY <1>1, <2>1, <2>5, OneIsSent
  <2>6. CASE Done(c)
    BY <2>1, <2>6 DEF Done, c
  <2>7. CASE \E q \in Clients : Connected(q, c)
    BY <2>1, <2>7 DEF Connected
  <2>8. CASE Restart
    BY <2>1, <2>8, RestartEmpties, NoConnection
  <2> QED BY <1>1, <2>1, <2>2, <2>3, <2>4, <2>5, <2>6, <2>7, <2>8, ConnectionMoves
<1>4. ASSUME NEW c, Connected(p, c) PROVE Following(p)'
  <2>1. /\ c \in Connections /\ stream'[p] = c /\ received'[p] = 0
        /\ handler'[c] = "accepted" /\ from'[c] = place'[p] /\ sent'[c] = sent[c]
    BY <1>1, <1>4 DEF Connected, Following, TypeOK
  <2>2. Len(sent[c]) \in Nat
    BY <1>1, <2>1, StreamType, LenProperties DEF Positions
  <2> QED BY <2>1, <2>2 DEF Following
<1>5. CASE Fallen(p)
  BY <1>5 DEF Fallen, Following
<1>6. CASE Received(p)
  <2> DEFINE c == stream[p]
  <2>1. /\ c \in Connections /\ received'[p] \in 1..Len(sent[c]) /\ stream'[p] = c
        /\ sent' = sent /\ handler' = handler /\ c # <<>>
    BY <1>6, NoConnection DEF Received, connections
  <2>2. handler[c] \in {"accepted", "subscribed"}
    BY <1>1, <2>1 DEF Following
  <2>3. handler[c] # "accepted"
    BY <1>1, <2>1, EmptySeq DEF HandlerInv
  <2> HIDE DEF c
  <2>4. received'[p] <= Len(sent[c])
    BY <1>1, <2>1, StreamType, LenProperties DEF Positions
  <2> QED BY <2>1, <2>2, <2>3, <2>4 DEF Following
<1>7. CASE HasRead(p)
  BY <1>1, <1>7 DEF HasRead, Following, connections
<1>8. CASE Restart
  BY <1>8, RestartEmpties DEF Following
<1> QED BY <1>1, <1>2, <1>3, <1>4, <1>5, <1>6, <1>7, <1>8, PageMoves

LEMMA SeenStep == HubInv /\ [Next]_vars => SeenInv'
<1> SUFFICES ASSUME HubInv, [Next]_vars, NEW p \in Clients, ~refresh'[p],
                    NEW i \in 1..place'[p]
             PROVE  published'[i] <= shown'[p]
  BY DEF SeenInv
<1>1. TypeOK /\ StatusInv /\ SeenInv
  BY DEF HubInv
<1>2. place[p] \in Nat /\ 1..place[p] \subseteq 1..Len(published)
  BY <1>1, Lengths DEF TypeOK
<1>3. ASSUME ~Restart, place'[p] = place[p], shown'[p] = shown[p], refresh'[p] = refresh[p]
      PROVE  published'[i] <= shown'[p]
  BY <1>1, <1>2, <1>3, PublishedStays DEF SeenInv
<1>4. CASE Restart
  BY <1>4, RestartEmpties
<1>5. CASE PageKept(p) \/ \E c : Connected(p, c)
  BY <1>3, <1>4, <1>5 DEF PageKept, Connected
<1>6. CASE Fallen(p) \/ Received(p)
  BY <1>6 DEF Fallen, Received
<1>7. CASE HasRead(p)
  <2>1. published'[i] = published[i] /\ shown'[p] = Status /\ i \in DOMAIN published
    BY <1>1, <1>2, <1>7, Lengths DEF HasRead, hub
  <2> QED BY <1>1, <2>1, StatusIs
<1> QED BY <1>1, <1>4, <1>5, <1>6, <1>7, PageMoves

\* A page that is through with its stream.
Through(p) ==
    /\ stream[p] \in Subscribed /\ Known(stream[p])
    /\ ~Outstanding(p) /\ ~refresh[p]

LEMMA BehindStep == HubInv /\ [Next]_vars => PageIsNotBehind'
<1> SUFFICES ASSUME HubInv, [Next]_vars, NEW p \in Clients, Through(p)',
                    NEW i \in DOMAIN published'
             PROVE  published'[i] <= shown'[p]
  BY DEF PageIsNotBehind, Through
<1>1. /\ TypeOK /\ StatusInv /\ HistoryInv /\ HandlerInv /\ PlaceInv /\ SeenInv
      /\ Following(p)
      /\ Through(p) => \A j \in DOMAIN published : published[j] <= shown[p]
  BY DEF HubInv, PageInv, PageIsNotBehind, Through
<1>2. stream'[p] \in Connections /\ handler'[stream'[p]] = "subscribed" /\ ~refresh'[p]
  BY DEF Through, Subscribed
<1>3. CASE PageKept(p)
  <2> DEFINE c == stream[p]
  <2>1. /\ c \in Connections /\ c # <<>> /\ stream'[p] = c
        /\ received'[p] = received[p] /\ shown'[p] = shown[p] /\ refresh'[p] = refresh[p]
        /\ received[p] <= Len(sent[c]) /\ received[p] \in Nat
        /\ ~refresh[p] /\ handler'[c] = "subscribed"
        /\ handler[c] = "accepted" => from[c] = place[p]
    BY <1>1, <1>2, <1>3, NoConnection DEF PageKept, Following, TypeOK
  <2>2. /\ replay'[c] = <<>> /\ buffer'[c] = <<>> /\ ~(received[p] < Len(sent'[c]))
        /\ Known(c)'
    BY <2>1 DEF Through, Outstanding, Known
  <2>3. CASE Kept(c) /\ UNCHANGED hub
    <3>1. Through(p)
      BY <2>1, <2>2, <2>3 DEF Through, Outstanding, Kept, Known, Subscribed
    <3> QED BY <1>1, <2>1, <2>3, <3>1 DEF hub
  <2>4. ASSUME NEW e \in Events \ {0}, Consume, publish(e) PROVE FALSE
    <3>1. c \in Subscribed
      BY <2>1, <2>4 DEF Consume, Subscribed
    <3>2. buffer[c] = <<>> /\ Len(buffer[c]) >= Capacity
      BY <1>1, <2>2, <2>4, <3>1, StreamPublishes
    <3> QED BY <3>2, EmptySeq, HubAssumption
  <2>5. CASE subscribe(c)
    <3>1. /\ After(last[c]) = <<>> /\ published' = published /\ handler[c] = "accepted"
          /\ last[c] = 0 \/ (from[c] # 0 /\ from[c] + HistorySize > Len(published))
      BY <1>1, <2>1, <2>2, <2>5, StreamBegins DEF Known, subscribe
    <3> DEFINE n == Len(published)
               h == Len(history)
    <3>2. PICK m \in 0..n :
            /\ 0 = n - m
            /\ last[c] = 0 => m = n - h
            /\ last[c] # 0 =>
                 \A f \in (n - h + 1)..n : published[f] = last[c] => m <= f
      BY <1>1, <3>1, ReplayIsRun, EmptySeq
    <3>3. /\ n \in Nat /\ h \in Nat /\ HistorySize \in Nat \ {0} /\ from[c] \in 0..n
          /\ h = IF n > HistorySize THEN HistorySize ELSE n
          /\ DOMAIN published = 1..n
      BY <1>1, <2>1, Lengths DEF HistoryInv, TypeOK
    <3> HIDE DEF n, h
    <3>4. CASE last[c] = 0
      <4>1. n = 0
        BY <3>2, <3>3, <3>4
      <4> QED BY <3>1, <3>3, <4>1
    <3>5. CASE last[c] # 0
      <4>1. from[c] \in (n - h + 1)..n /\ from[c] # 0
        BY <3>1, <3>3, <3>5 DEF n
      <4>2. n <= from[c]
        BY <1>1, <2>1, <3>2, <3>3, <3>5, <4>1 DEF PlaceInv
      <4>3. place[p] = n
        BY <2>1, <3>1, <3>3, <4>1, <4>2
      <4> QED BY <1>1, <2>1, <3>1, <3>3, <4>3 DEF SeenInv
    <3> QED BY <3>4, <3>5
  <2>6. CASE SendReplay(c) \/ SendLive(c)
    BY <1>1, <2>1, <2>2, <2>6, OneIsSent
  <2>7. CASE Done(c) \/ (\E q \in Clients : Connected(q, c)) \/ Restart
    BY <2>1, <2>7, RestartEmpties DEF Done, Ends, Connected
  <2> QED BY <1>1, <2>1, <2>3, <2>4, <2>5, <2>6, <2>7, ConnectionMoves
<1>4. CASE \E c : Connected(p, c)
  BY <1>1, <1>2, <1>4 DEF Connected, TypeOK
<1>5. CASE Fallen(p) \/ Received(p)
  BY <1>2, <1>5 DEF Fallen, Received
<1>6. CASE HasRead(p)
  BY <1>1, <1>6, StatusIs DEF HasRead, hub
<1>7. CASE Restart
  BY <1>2, <1>7, RestartEmpties
<1> QED BY <1>1, <1>3, <1>4, <1>5, <1>6, <1>7, PageMoves

-----------------------------------------------------------------------------
LEMMA HubInit == Init => HubInv
<1> SUFFICES ASSUME Init PROVE HubInv
  OBVIOUS
<1>1. published = <<>> /\ history = <<>> /\ Len(published) = 0 /\ DOMAIN published = {}
  BY EmptySeq DEF Init
<1>2. <<>> \in Positions /\ 0 \in 0..Len(published) /\ 0 \in Events
  BY <1>1, EmptySeq, HubAssumption DEF Positions, Events
<1>3. TypeOK
  <2>1. /\ accepted \subseteq Events /\ log \in [{"order"} -> Seq(accepted)]
        /\ Topic = <<>> /\ Len(Topic) = 0
    BY EmptySeq DEF Init, Channel!Init, Topic
  <2>2. committed \in 0..position /\ position \in 0..Len(Topic)
    BY <2>1 DEF Init
  <2>3. published \in Seq(Events \ {0})
    BY <1>1, EmptySeq
  <2>4. breaks \in 0..MaxBreaks /\ restarts \in 0..MaxRestarts
    BY HubAssumption DEF Init
  <2> QED BY <1>1, <1>2, <2>1, <2>2, <2>3, <2>4 DEF Init, TypeOK
<1>4. StatusInv
  <2>1. accepted \ {0} = 1..0
    BY DEF Init, Channel!Init
  <2> QED BY <1>1, <2>1 DEF StatusInv
<1>5. HistoryInv
  BY <1>1, HubAssumption DEF HistoryInv
<1>6. \A c \in Connections : handler[c] = "none"
  BY DEF Init
<1>7. HandlerInv /\ PlaceInv /\ PageInv
  BY DEF Init, HandlerInv, PlaceInv, PageInv, Following
<1>8. SeenInv
  BY DEF Init, SeenInv
<1>9. InOrderOnce /\ NothingMissed /\ PageIsNotBehind
  BY <1>6 DEF InOrderOnce, NothingMissed, PageIsNotBehind, Subscribed
<1> QED BY <1>3, <1>4, <1>5, <1>7, <1>8, <1>9 DEF HubInv

\* The invariant of the service and its pages.
THEOREM HubIsSafe == Spec => []HubInv
<1>1. HubInv /\ [Next]_vars => HubInv'
  BY TypeStep, StatusStep, HistoryStep, HandlerStep, PlaceStep, OrderStep, MissedStep,
     PageStep, SeenStep, BehindStep DEF HubInv
<1> QED BY <1>1, HubInit, PTL DEF Spec

\* The consumer, the hub, the connections and the pages keep their types.
THEOREM HubTypeCorrect == Spec => []TypeOK
<1>1. HubInv => TypeOK
  BY DEF HubInv
<1> QED BY <1>1, HubIsSafe, PTL

\* A connection gets its envelopes in the order they were published, none of
\* them twice.
THEOREM SentInOrder == Spec => []InOrderOnce
<1>1. HubInv => InOrderOnce
  BY DEF HubInv
<1> QED BY <1>1, HubIsSafe, PTL

\* Nothing that was published since a page had its last envelope (or, if that
\* is not known, since it subscribed) is missed, but for what a full channel
\* did not take.
THEOREM NoneIsMissed == Spec => []NothingMissed
<1>1. HubInv => NothingMissed
  BY DEF HubInv
<1> QED BY <1>1, HubIsSafe, PTL

\* A page whose last envelope is known, and that is through with its stream,
\* shows a status no older than any that was published.
THEOREM PagesAreNotBehind == Spec => []PageIsNotBehind
<1>1. HubInv => PageIsNotBehind
  BY DEF HubInv
<1> QED BY <1>1, HubIsSafe, PTL
=============================================================================
