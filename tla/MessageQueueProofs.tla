------------------------- MODULE MessageQueueProofs -------------------------
(***************************************************************************)
(* Proofs about MessageQueue, for any number of senders and receivers, any *)
(* set of messages and any limit.                                          *)
(***************************************************************************)
EXTENDS MessageQueue, SequenceTheorems, TLAPS

\* A thread in the middle of an operation holds the mutex.
HoldsMutex ==
    \A t \in Threads :
        pc[t] \in {"appending", "shifting", "leaving"} => mutex = t

\* What the threads have in their hands.  An adder that evicted a message
\* did so because the queue was full, one that did not because it was not.
HandsOK ==
    \A t \in Threads :
        /\ pc[t] = "adding" => Len(hand[t]) = 1
        /\ pc[t] = "appending" =>
              \/ Len(hand[t]) = 1 /\ ~QueueIsFull(messages, MaximalLength)
              \/ Len(hand[t]) = 2 /\ Len(messages) + 1 = MaximalLength
        /\ pc[t] = "shifting" => messages # <<>> /\ hand[t] = <<messages[1]>>

-----------------------------------------------------------------------------
\* The records of messages that leave are as many as these messages.
LEMMA LeavingType ==
    ASSUME NEW s \in Seq(Message), NEW f \in Fifo!Fate
    PROVE  /\ Fifo!Leaving(s, f) \in Seq([message : Message, fate : Fifo!Fate])
           /\ Len(Fifo!Leaving(s, f)) = Len(s)
           /\ \A i \in 1..Len(s) : Fifo!Leaving(s, f)[i].message = s[i]
<1> DEFINE L == Fifo!Leaving(s, f)
<1>1. L = [i \in 1..Len(s) |-> [message |-> s[i], fate |-> f]]
  BY DEF Fifo!Leaving
<1>2. Len(s) \in Nat /\ \A i \in 1..Len(s) : s[i] \in Message
  BY ElementOfSeq, LenProperties
<1>3. \A i \in 1..Len(s) :
         [message |-> s[i], fate |-> f] \in [message : Message, fate : Fifo!Fate]
  BY <1>2
<1>4. L \in Seq([message : Message, fate : Fifo!Fate]) /\ Len(L) = Len(s)
  BY <1>1, <1>2, <1>3, IsASeq, LenProperties
<1> QED BY <1>1, <1>2, <1>4

\* Records appended to a history add their messages to it.
LEMMA LeftOfLeaving ==
    ASSUME NEW d \in Seq([message : Message, fate : Fifo!Fate]),
           NEW s \in Seq(Message), NEW f \in Fifo!Fate
    PROVE  /\ Fifo!Left(d) \in Seq(Message)
           /\ Fifo!Left(d \o Fifo!Leaving(s, f)) = Fifo!Left(d) \o s
<1> DEFINE R == [message : Message, fate : Fifo!Fate]
           e == Fifo!Leaving(s, f)
<1>1. e \in Seq(R) /\ Len(e) = Len(s) /\ \A i \in 1..Len(s) : e[i].message = s[i]
  BY LeavingType
<1>2. \A r \in Seq(R) : /\ Fifo!Left(r) \in Seq(Message)
                         /\ Len(Fifo!Left(r)) = Len(r)
                         /\ \A i \in 1..Len(r) : Fifo!Left(r)[i] = r[i].message
  <2> SUFFICES ASSUME NEW r \in Seq(R)
               PROVE  /\ Fifo!Left(r) \in Seq(Message)
                      /\ Len(Fifo!Left(r)) = Len(r)
                      /\ \A i \in 1..Len(r) : Fifo!Left(r)[i] = r[i].message
    OBVIOUS
  <2>1. \A i \in 1..Len(r) : r[i] \in R
    BY ElementOfSeq
  <2>2. Fifo!Left(r) = [i \in 1..Len(r) |-> r[i].message]
    BY DEF Fifo!Left
  <2> QED BY <2>1, <2>2, IsASeq, LenProperties
<1> DEFINE l == Fifo!Left(d)
           u == Fifo!Left(d \o e)
           v == l \o s
<1>3. d \in Seq(R) /\ Len(d) \in Nat /\ Len(s) \in Nat
  BY LenProperties
<1> HIDE DEF e, R
<1>4. /\ d \o e \in Seq(R) /\ Len(d \o e) = Len(d) + Len(e)
      /\ \A i \in 1..(Len(d) + Len(e)) :
            (d \o e)[i] = IF i <= Len(d) THEN d[i] ELSE e[i - Len(d)]
  BY <1>1, <1>3, ConcatProperties
<1>5. l \in Seq(Message) /\ Len(l) = Len(d) /\ \A i \in 1..Len(d) : l[i] = d[i].message
  BY <1>2, <1>3
<1>6. /\ u \in Seq(Message) /\ Len(u) = Len(d \o e)
      /\ \A i \in 1..Len(d \o e) : u[i] = (d \o e)[i].message
  BY <1>2, <1>4
<1> HIDE DEF l, u
<1>7. /\ v \in Seq(Message) /\ Len(v) = Len(l) + Len(s)
      /\ \A i \in 1..(Len(l) + Len(s)) :
            v[i] = IF i <= Len(l) THEN l[i] ELSE s[i - Len(l)]
  BY <1>5, ConcatProperties
<1> HIDE DEF v
<1>8. Len(u) = Len(v)
  BY <1>1, <1>4, <1>5, <1>6, <1>7
<1>9. ASSUME NEW i \in 1..Len(u) PROVE u[i] = v[i]
  <2>1. /\ i \in 1..(Len(d) + Len(e)) /\ i \in 1..(Len(l) + Len(s))
        /\ u[i] = (d \o e)[i].message
    BY <1>4, <1>6, <1>7, <1>8
  <2>2. CASE i <= Len(d)
    <3>1. i \in 1..Len(d)
      BY <2>1, <2>2, <1>3
    <3> QED BY <2>1, <2>2, <3>1, <1>4, <1>5, <1>7
  <2>3. CASE ~(i <= Len(d))
    <3>1. i - Len(d) \in 1..Len(s)
      BY <2>1, <2>3, <1>1, <1>3
    <3> QED BY <2>1, <2>3, <3>1, <1>1, <1>4, <1>5, <1>7
  <2> QED BY <2>2, <2>3
<1>10. u = v
  BY <1>6, <1>7, <1>8, <1>9, SeqEqual
<1> QED BY <1>5, <1>10 DEF e, l, u, v

\* Short sequences and their parts.
LEMMA TailOfPair ==
    ASSUME NEW s \in Seq(Message), Len(s) = 2
    PROVE  Tail(s) = <<s[2]>>
<1>1. \A m, v \in Message : Tail(<<m, v>>) = <<v>>
  OBVIOUS
<1>2. s = <<s[1], s[2]>> /\ s[1] \in Message /\ s[2] \in Message
  OBVIOUS
<1> QED BY <1>1, <1>2

LEMMA TailOfOne ==
    ASSUME NEW s \in Seq(Message), Len(s) = 1
    PROVE  Tail(s) = <<>>
<1>1. Tail(s) \in Seq(Message) /\ Len(Tail(s)) = 0
  OBVIOUS
<1> QED BY <1>1, EmptySeq

LEMMA HeadThenTail ==
    ASSUME NEW s \in Seq(Message), s # <<>>
    PROVE  <<Head(s)>> \o Tail(s) = s
OBVIOUS

\* The elementary operations on the array of messages.
LEMMA QueueOpsType ==
    ASSUME NEW s \in Seq(Message)
    PROVE  /\ QueueIsFull(s, MaximalLength) => s # <<>>
           /\ QueueShift(s) \in Seq(Message)
           /\ s # <<>> => Len(QueueShift(s)) = Len(s) - 1
           /\ QueueEvicted(s, MaximalLength) \in Seq(Message)
           /\ Len(QueueEvicted(s, MaximalLength)) =
                 IF QueueIsFull(s, MaximalLength) THEN 1 ELSE 0
<1>1. QueueIsFull(s, MaximalLength) => s # <<>>
  BY QueueAssumption, LenProperties DEF QueueIsFull
<1>2. CASE s = <<>>
  BY <1>1, <1>2 DEF QueueShift, QueueEvicted
<1>3. CASE s # <<>>
  <2>1. /\ Head(s) \in Message
        /\ Tail(s) \in Seq(Message)
        /\ Len(Tail(s)) = Len(s) - 1
    BY <1>3, HeadTailProperties
  <2> QED BY <1>3, <2>1 DEF QueueShift, QueueEvicted
<1> QED BY <1>2, <1>3

-----------------------------------------------------------------------------
IInv == TypeOK /\ HoldsMutex /\ HandsOK /\ FifoOrder /\ Limit

\* Outside of the short time between an eviction and the append, what the
\* queue promises is what the array holds.
LEMMA ContentsIsMessages ==
    ASSUME TypeOK, \/ mutex = NoThread
                   \/ mutex \in Threads /\ pc[mutex] # "appending"
    PROVE  Contents = messages
BY QueueAssumption DEF Contents, Appending

\* A step that leaves the messages where they are keeps their order.
LEMMA QuietStep ==
    ASSUME IInv, UNCHANGED <<messages, entered, departed>>, Contents' = Contents
    PROVE  FifoOrder' /\ Limit'
BY DEF IInv, FifoOrder, Limit

LEMMA InitIInv == Init => IInv
<1> SUFFICES ASSUME Init PROVE IInv OBVIOUS
<1>1. TypeOK
  BY QueueAssumption DEF Init, TypeOK, Wanting, Places
<1>2. Contents = <<>>
  BY <1>1, ContentsIsMessages DEF Init
<1>3. FifoOrder
  <2>1. Fifo!Left(<<>>) = <<>>
    BY DEF Fifo!Left
  <2> QED BY <2>1, <1>2 DEF Init, FifoOrder
<1>4. HoldsMutex /\ HandsOK /\ Limit
  BY QueueAssumption DEF Init, HoldsMutex, HandsOK, Limit
<1> QED BY <1>1, <1>3, <1>4 DEF IInv

\* The steps that only move threads: to and from the mutex, into an
\* operation, to sleep and awake.
LEMMA ThreadSteps ==
    ASSUME IInv,
           \/ Wakeup
           \/ \E t \in Threads :
                 \/ Lock(t) \/ Unlock(t) \/ GetCall(t) \/ GetWait(t)
                 \/ TimeOut(t) \/ GetNothing(t) \/ ClearCall(t)
    PROVE  IInv'
<1> USE DEF IInv, Wanting, Places
<1>1. TypeOK'
  BY DEF TypeOK, Lock, Unlock, GetCall, GetWait, TimeOut, GetNothing,
         ClearCall, Wakeup, PastWait
<1>2. HoldsMutex'
  BY QueueAssumption DEF HoldsMutex, TypeOK, Lock, Unlock, GetCall, GetWait,
         TimeOut, GetNothing, ClearCall, Wakeup, PastWait
<1>3. HandsOK'
  BY DEF HandsOK, TypeOK, Lock, Unlock, GetCall, GetWait, TimeOut, GetNothing,
         ClearCall, Wakeup, PastWait
<1>4. Contents' = Contents
  BY QueueAssumption
     DEF Contents, Appending, HoldsMutex, TypeOK, Lock, Unlock, GetCall, GetWait,
         TimeOut, GetNothing, ClearCall, Wakeup, PastWait
<1>5. UNCHANGED <<messages, entered, departed>>
  BY DEF Lock, Unlock, GetCall, GetWait, TimeOut, GetNothing, ClearCall, Wakeup
<1> QED BY <1>1, <1>2, <1>3, <1>4, <1>5, QuietStep

LEMMA AddCallStep ==
    ASSUME IInv, NEW t \in Threads, NEW m \in Message, AddCall(t, m)
    PROVE  IInv'
<1> USE DEF IInv, Wanting, Places
<1>1. TypeOK' /\ HoldsMutex'
  BY DEF TypeOK, HoldsMutex, AddCall
<1>2. HandsOK'
  BY DEF HandsOK, TypeOK, AddCall
<1>3. Contents' = Contents
  BY QueueAssumption DEF Contents, Appending, TypeOK, AddCall
<1> QED BY <1>1, <1>2, <1>3, QuietStep DEF AddCall

LEMMA AddEvictStep ==
    ASSUME IInv, NEW t \in Threads, AddEvict(t)
    PROVE  IInv' /\ Contents' = Contents
<1> USE DEF IInv, Wanting, Places
<1> DEFINE evicted == QueueEvicted(messages, MaximalLength)
<1>1. /\ mutex = t /\ mutex' = t /\ pc[t] = "adding" /\ pc'[t] = "appending"
      /\ hand'[t] = hand[t] \o evicted /\ hand[t] \in Seq(Message)
      /\ Len(hand[t]) = 1
  BY DEF AddEvict, TypeOK, HandsOK
<1>2. /\ hand'[t] \in Seq(Message)
      /\ Len(hand'[t]) = 1 + Len(evicted)
      /\ Len(hand'[t]) = 2 => hand'[t][2] = evicted[1]
  BY <1>1, QueueOpsType, ConcatProperties DEF TypeOK
<1>3. TypeOK'
  BY <1>1, <1>2, QueueOpsType DEF TypeOK, AddEvict
<1>4. HoldsMutex'
  BY <1>1 DEF HoldsMutex, AddEvict, TypeOK
<1>5. \A u \in Threads : u # t =>
        pc'[u] = pc[u] /\ hand'[u] = hand[u] /\ pc[u] \notin {"appending", "shifting"}
  BY <1>1 DEF AddEvict, TypeOK, HoldsMutex
<1>6. \/ Len(hand'[t]) = 1 /\ ~QueueIsFull(messages', MaximalLength)
      \/ Len(hand'[t]) = 2 /\ Len(messages') + 1 = MaximalLength
  <2>1. CASE QueueIsFull(messages, MaximalLength)
    <3>1. Len(messages) = MaximalLength /\ MaximalLength \in Nat
      BY <2>1, QueueAssumption, LenProperties DEF QueueIsFull, Limit, TypeOK
    <3>2. Len(messages') = Len(messages) - 1
      BY <2>1, QueueOpsType DEF AddEvict, TypeOK
    <3>3. Len(evicted) = 1
      BY <2>1, QueueOpsType DEF TypeOK
    <3>4. Len(hand'[t]) = 2
      BY <3>3, <1>2
    <3> QED BY <3>1, <3>2, <3>4
  <2>2. CASE ~QueueIsFull(messages, MaximalLength)
    BY <2>2, <1>2, QueueOpsType DEF AddEvict, TypeOK
  <2> QED BY <2>1, <2>2
<1>7. HandsOK'
  BY <1>1, <1>5, <1>6 DEF HandsOK
<1>8. Contents' = Tail(hand'[t]) \o messages'
  BY <1>1 DEF Contents, Appending
<1>9. Contents = messages
  BY <1>1, ContentsIsMessages
<1>10. Tail(hand'[t]) \o messages' = messages
  <2>1. CASE QueueIsFull(messages, MaximalLength)
    <3>1. messages # <<>> /\ messages \in Seq(Message)
      BY <2>1, QueueOpsType DEF TypeOK
    <3>2. evicted = <<Head(messages)>> /\ Len(evicted) = 1
      BY <2>1 DEF QueueEvicted
    <3>3. Tail(hand'[t]) = <<Head(messages)>>
      BY <1>2, <3>2, TailOfPair
    <3>4. messages' = Tail(messages)
      BY <2>1, <3>1 DEF AddEvict, QueueShift
    <3> QED BY <3>1, <3>3, <3>4, HeadThenTail
  <2>2. CASE ~QueueIsFull(messages, MaximalLength)
    <3>1. Tail(hand'[t]) = <<>> /\ messages' = messages
      BY <2>2, <1>2, QueueOpsType, TailOfOne DEF AddEvict, TypeOK
    <3> QED BY <3>1, ConcatEmptySeq DEF TypeOK
  <2> QED BY <2>1, <2>2
<1>11. Contents' = Contents
  BY <1>8, <1>9, <1>10
<1>12. FifoOrder'
  BY <1>11 DEF FifoOrder, AddEvict
<1>13. Limit'
  BY <1>6, QueueAssumption, <1>3 DEF Limit, QueueIsFull, TypeOK
<1> QED BY <1>3, <1>4, <1>7, <1>11, <1>12, <1>13


\* Messages leave at the head and enter at the tail: the order is kept.
LEMMA FifoStep ==
    ASSUME TypeOK, FifoOrder,
           NEW lost \in Seq(Message), NEW rest \in Seq(Message),
           NEW new \in Seq(Message), NEW fate \in Fifo!Fate,
           Contents = lost \o rest,
           Contents' = rest \o new,
           departed' = departed \o Fifo!Leaving(lost, fate),
           entered' = entered \o new
    PROVE  FifoOrder'
<1> DEFINE gone == Fifo!Left(departed)
<1>1. gone \in Seq(Message)
  BY LeftOfLeaving DEF TypeOK
<1>2. Fifo!Left(departed') = gone \o lost
  BY LeftOfLeaving DEF TypeOK
<1>3. entered = gone \o (lost \o rest)
  BY DEF FifoOrder
<1> HIDE DEF gone
<1> DEFINE left == gone \o lost
<1>4. left \in Seq(Message)
  BY <1>1, ConcatProperties
<1>5. entered = left \o rest
  <2>1. gone \o (lost \o rest) = (gone \o lost) \o rest
    BY <1>1, ConcatAssociative
  <2> QED BY <1>3, <2>1, Zenon
<1> HIDE DEF left
<1>6. (left \o rest) \o new = left \o (rest \o new)
  BY <1>4, ConcatAssociative
<1>7. entered' = left \o (rest \o new)
  BY <1>5, <1>6, Zenon
<1>8. Fifo!Left(departed') \o Contents' = left \o (rest \o new)
  BY <1>2, Zenon DEF left
<1> QED BY <1>7, <1>8, Zenon DEF FifoOrder

\* What an adder has in its hand when it appends: the new message and the
\* messages that it evicted.
LEMMA AppendingHand ==
    ASSUME IInv, NEW t \in Threads, mutex = t, pc[t] = "appending"
    PROVE  /\ Head(hand[t]) \in Message
           /\ Tail(hand[t]) \in Seq(Message)
           /\ Contents = Tail(hand[t]) \o messages
           /\ \/ Tail(hand[t]) = <<>> /\ ~QueueIsFull(messages, MaximalLength)
              \/ /\ Tail(hand[t]) = <<hand[t][2]>> /\ hand[t][2] \in Message
                 /\ Len(messages) + 1 = MaximalLength
<1>1. hand[t] \in Seq(Message)
  BY DEF IInv, TypeOK
<1>2. \/ Len(hand[t]) = 1 /\ ~QueueIsFull(messages, MaximalLength)
      \/ Len(hand[t]) = 2 /\ Len(messages) + 1 = MaximalLength
  BY DEF IInv, HandsOK
<1>3. hand[t] # <<>>
  <2>1. Len(hand[t]) # 0
    BY <1>2
  <2> QED BY <2>1
<1>4. Head(hand[t]) \in Message /\ Tail(hand[t]) \in Seq(Message)
  BY <1>1, <1>3, HeadTailProperties
<1>5. Contents = Tail(hand[t]) \o messages
  BY DEF Contents, Appending
<1>6. CASE Len(hand[t]) = 1 /\ ~QueueIsFull(messages, MaximalLength)
  BY <1>1, <1>4, <1>5, <1>6, TailOfOne
<1>7. CASE Len(hand[t]) = 2 /\ Len(messages) + 1 = MaximalLength
  <2>1. hand[t][2] \in Message
    BY <1>1, <1>7, ElementOfSeq
  <2> QED BY <1>1, <1>4, <1>5, <1>7, <2>1, TailOfPair
<1> QED BY <1>2, <1>6, <1>7

LEMMA AddAppendStep ==
    ASSUME IInv, NEW t \in Threads, AddAppend(t)
    PROVE  IInv'
<1> USE DEF Wanting, Places
<1> DEFINE m == Head(hand[t])
           evicted == Tail(hand[t])
<1>1. /\ mutex = t /\ mutex' = t /\ pc[t] = "appending" /\ pc'[t] = "leaving"
      /\ pc' \in [Threads -> Places]
      /\ \A u \in Threads : u # t =>
            \/ pc'[u] = pc[u]
            \/ pc[u] = "waiting" /\ pc'[u] = "woken"
  BY DEF AddAppend, SignalIfFirst, Waiting, IInv, TypeOK
<1>2. /\ messages' = Append(messages, m) /\ entered' = Append(entered, m)
      /\ departed' = departed \o Fifo!Leaving(evicted, "destroyed")
      /\ hand' = [hand EXCEPT ![t] = <<>>]
  BY DEF AddAppend
<1>3. /\ m \in Message /\ evicted \in Seq(Message)
      /\ Contents = evicted \o messages
  BY <1>1, AppendingHand
<1>4. "destroyed" \in Fifo!Fate
  BY DEF Fifo!Fate
<1>5. messages \in Seq(Message) /\ entered \in Seq(Message)
  BY DEF IInv, TypeOK
<1> HIDE DEF m, evicted
<1>6. TypeOK'
  <2>1. departed' \in Seq([message : Message, fate : Fifo!Fate])
    BY <1>2, <1>3, <1>4, LeavingType, ConcatProperties DEF IInv, TypeOK
  <2>2. messages' \in Seq(Message) /\ entered' \in Seq(Message)
    BY <1>2, <1>3, <1>5, AppendProperties
  <2>3. mutex' \in Threads \cup {NoThread} /\ hand' \in [Threads -> Seq(Message)]
    BY <1>1, <1>2 DEF IInv, TypeOK
  <2> QED BY <1>1, <2>1, <2>2, <2>3 DEF TypeOK
<1>7. HoldsMutex'
  BY <1>1 DEF IInv, HoldsMutex
<1>8. HandsOK'
  BY <1>1, <1>2, <1>7 DEF IInv, HandsOK, HoldsMutex, TypeOK
<1>9. FifoOrder'
  <2>1. Contents' = messages'
    BY <1>1 DEF Contents, Appending
  <2>2. <<m>> \in Seq(Message) /\ messages' = messages \o <<m>>
        /\ entered' = entered \o <<m>>
    BY <1>2, <1>3, <1>5, AppendIsConcat
  <2> QED BY <2>1, <2>2, <1>2, <1>3, <1>4, <1>5, FifoStep DEF IInv
<1>10. Limit'
  <2>1. Len(messages') = Len(messages) + 1 /\ Len(messages) \in Nat
    BY <1>2, <1>3, <1>5, AppendProperties, LenProperties
  <2>2. \/ ~QueueIsFull(messages, MaximalLength)
        \/ Len(messages) + 1 = MaximalLength
    BY <1>1, AppendingHand
  <2> QED BY <2>1, <2>2, QueueAssumption DEF Limit, QueueIsFull
<1> QED BY <1>6, <1>7, <1>8, <1>9, <1>10 DEF IInv

\* Reading the oldest message does not remove it yet.
LEMMA GetOldestStep ==
    ASSUME IInv, NEW t \in Threads, GetOldest(t)
    PROVE  IInv' /\ Contents' = Contents
<1> USE DEF IInv, Wanting, Places
<1>1. /\ mutex = t /\ mutex' = t /\ messages # <<>> /\ messages' = messages
      /\ pc[t] \in {"getting", "woken"} /\ pc' = [pc EXCEPT ![t] = "shifting"]
      /\ hand' = [hand EXCEPT ![t] = <<messages[1]>>]
      /\ UNCHANGED <<entered, departed>>
  BY DEF GetOldest
<1>2. messages \in Seq(Message) /\ Len(messages) # 0 /\ Len(messages) \in Nat
  BY <1>1, EmptySeq, LenProperties DEF TypeOK
<1>3. messages[1] \in Message
  BY <1>2, ElementOfSeq
<1>4. TypeOK'
  BY <1>1, <1>3 DEF TypeOK
<1>5. HoldsMutex' /\ HandsOK'
  BY <1>1 DEF HoldsMutex, HandsOK, TypeOK
<1>6. Contents' = Contents
  BY <1>1 DEF Contents, Appending, TypeOK
<1> QED BY <1>1, <1>4, <1>5, <1>6, QuietStep

LEMMA GetShiftStep ==
    ASSUME IInv, NEW t \in Threads, GetShift(t)
    PROVE  /\ IInv'
           /\ Contents # <<>>
           /\ Contents' = Tail(Contents)
           /\ departed' = departed \o
                             Fifo!Leaving(<<Head(Contents)>>, "delivered")
<1>1. /\ mutex = t /\ mutex' = t /\ pc[t] = "shifting"
      /\ messages' = QueueShift(messages) /\ entered' = entered
      /\ departed' = departed \o Fifo!Leaving(hand[t], "delivered")
      /\ hand' = [hand EXCEPT ![t] = <<>>] /\ pc' = [pc EXCEPT ![t] = "leaving"]
  BY DEF GetShift
<1>2. messages # <<>> /\ hand[t] = <<messages[1]>> /\ messages \in Seq(Message)
  BY <1>1 DEF IInv, HandsOK, TypeOK
<1>3. /\ Head(messages) \in Message /\ Tail(messages) \in Seq(Message)
      /\ Len(Tail(messages)) = Len(messages) - 1 /\ Len(messages) \in Nat
  BY <1>2, HeadTailProperties, LenProperties
<1>4. messages' = Tail(messages) /\ hand[t] = <<Head(messages)>>
  BY <1>1, <1>2 DEF QueueShift
<1>5. Contents = messages /\ Contents' = messages'
  BY <1>1 DEF Contents, Appending, IInv, TypeOK
<1>6. departed' = departed \o Fifo!Leaving(<<Head(messages)>>, "delivered")
  BY <1>1, <1>4
<1>7. <<Head(messages)>> \in Seq(Message) /\ "delivered" \in Fifo!Fate
  BY <1>3 DEF Fifo!Fate
<1>8. TypeOK'
  <2>1. departed' \in Seq([message : Message, fate : Fifo!Fate])
    BY <1>6, <1>7, LeavingType, ConcatProperties DEF IInv, TypeOK
  <2> QED BY <2>1, <1>1, <1>3, <1>4 DEF IInv, TypeOK, Places
<1>9. HoldsMutex' /\ HandsOK'
  BY <1>1 DEF IInv, HoldsMutex, HandsOK, TypeOK
<1>10. FifoOrder'
  <2>1. messages = <<Head(messages)>> \o Tail(messages)
    BY <1>2, HeadThenTail
  <2>2. Tail(messages) = Tail(messages) \o <<>> /\ entered = entered \o <<>>
    BY <1>3, ConcatEmptySeq DEF IInv, TypeOK
  <2>3. <<>> \in Seq(Message)
    OBVIOUS
  <2>4. /\ Contents = <<Head(messages)>> \o Tail(messages)
        /\ Contents' = Tail(messages) \o <<>>
        /\ entered' = entered \o <<>>
    BY <2>1, <2>2, <1>1, <1>4, <1>5, Zenon
  <2> QED BY <2>3, <2>4, <1>3, <1>6, <1>7, FifoStep DEF IInv
<1>11. Limit'
  BY <1>3, <1>4, QueueAssumption DEF IInv, Limit
<1> QED BY <1>2, <1>4, <1>5, <1>6, <1>8, <1>9, <1>10, <1>11 DEF IInv

LEMMA ClearAllStep ==
    ASSUME IInv, NEW t \in Threads, ClearAll(t)
    PROVE  /\ IInv'
           /\ Contents' = <<>>
           /\ departed' = departed \o Fifo!Leaving(Contents, "destroyed")
<1>1. /\ mutex = t /\ mutex' = t /\ pc[t] = "clearing" /\ messages' = <<>>
      /\ departed' = departed \o Fifo!Leaving(messages, "destroyed")
      /\ pc' = [pc EXCEPT ![t] = "leaving"] /\ UNCHANGED <<hand, entered>>
  BY DEF ClearAll
<1>2. messages \in Seq(Message) /\ entered \in Seq(Message)
      /\ "destroyed" \in Fifo!Fate
  BY DEF IInv, TypeOK, Fifo!Fate
<1>3. Contents = messages /\ Contents' = <<>>
  BY <1>1 DEF Contents, Appending, IInv, TypeOK
<1>4. TypeOK'
  <2>1. departed' \in Seq([message : Message, fate : Fifo!Fate])
    BY <1>1, <1>2, LeavingType, ConcatProperties DEF IInv, TypeOK
  <2> QED BY <2>1, <1>1 DEF IInv, TypeOK, Places
<1>5. HoldsMutex' /\ HandsOK'
  BY <1>1 DEF IInv, HoldsMutex, HandsOK, TypeOK
<1>6. FifoOrder'
  <2>1. messages = messages \o <<>> /\ entered = entered \o <<>>
    BY <1>2, ConcatEmptySeq
  <2>2. <<>> \in Seq(Message) /\ <<>> = <<>> \o <<>>
    OBVIOUS
  <2>3. /\ Contents = messages \o <<>>
        /\ Contents' = <<>> \o <<>>
        /\ entered' = entered \o <<>>
    BY <2>1, <2>2, <1>1, <1>3, Zenon
  <2> QED BY <2>2, <2>3, <1>1, <1>2, FifoStep DEF IInv
<1>7. Limit'
  BY <1>1, QueueAssumption DEF Limit
<1> QED BY <1>1, <1>3, <1>4, <1>5, <1>6, <1>7 DEF IInv

LEMMA NextIInv ==
    ASSUME IInv, [Next]_vars
    PROVE  IInv'
<1>1. CASE \/ Wakeup
           \/ \E t \in Threads :
                 \/ Lock(t) \/ Unlock(t) \/ GetCall(t) \/ GetWait(t)
                 \/ TimeOut(t) \/ GetNothing(t) \/ ClearCall(t)
  BY <1>1, ThreadSteps
<1>2. CASE \E t \in Threads : \E m \in Message : AddCall(t, m)
  BY <1>2, AddCallStep
<1>3. CASE \E t \in Threads : AddEvict(t)
  BY <1>3, AddEvictStep
<1>4. CASE \E t \in Threads : AddAppend(t)
  BY <1>4, AddAppendStep
<1>5. CASE \E t \in Threads : GetOldest(t)
  BY <1>5, GetOldestStep
<1>6. CASE \E t \in Threads : GetShift(t)
  BY <1>6, GetShiftStep
<1>7. CASE \E t \in Threads : ClearAll(t)
  BY <1>7, ClearAllStep
<1>8. CASE UNCHANGED vars
  BY <1>8
     DEF vars, IInv, TypeOK, HoldsMutex, HandsOK, FifoOrder, Limit, Contents,
         Appending
<1> QED
  BY <1>1, <1>2, <1>3, <1>4, <1>5, <1>6, <1>7, <1>8
     DEF Next, Add, Receive, Empty, Threads

\* The invariant that the theorems below are read off.
THEOREM Invariance == Spec => []IInv
<1>1. IInv /\ [Next]_vars => IInv'
  BY NextIInv
<1> QED BY InitIInv, <1>1, PTL DEF Spec

\* Every field of the queue and of its threads keeps its type (queue.h:11-29).
THEOREM TypeCorrect == Spec => []TypeOK
<1>1. IInv => TypeOK
  BY DEF IInv
<1> QED BY Invariance, <1>1, PTL

\* No message is lost, duplicated or overtaken (queue.c:91-149), for any
\* number of senders and receivers.
THEOREM OrderIsKept == Spec => []FifoOrder
<1>1. IInv => FifoOrder
  BY DEF IInv
<1> QED BY Invariance, <1>1, PTL

\* A limited queue stays within its limit (queue.c:100-105).
THEOREM LimitIsKept == Spec => []Limit
<1>1. IInv => Limit
  BY DEF IInv
<1> QED BY Invariance, <1>1, PTL

-----------------------------------------------------------------------------
(* One receiver.                                                           *)

OneReceiver == \A g, h \in Getters : g = h

SleepInv ==
    /\ \A t \in Threads : pc[t] = "waiting" => t \in Getters
    /\ NoSleepOnMessage

LEMMA SleepInvStep ==
    ASSUME OneReceiver, IInv, SleepInv, [Next]_vars
    PROVE  SleepInv'
<1>1. messages \in Seq(Message) /\ pc \in [Threads -> Places]
  BY DEF IInv, TypeOK
<1>2. CASE \E t \in Threads : AddAppend(t)
  <2>1. PICK t \in Threads : AddAppend(t)
    BY <1>2
  <2>2. CASE messages = <<>> /\ Waiting # {}
    <3>1. messages' = <<Head(hand[t])>> /\ Len(messages') = 1
      BY <2>1, <2>2 DEF AddAppend
    <3>2. PICK w \in Waiting :
             pc' = [pc EXCEPT ![t] = "leaving", ![w] = "woken"]
      BY <2>1, <2>2, <3>1 DEF AddAppend, SignalIfFirst
    <3>3. \A u \in Threads : pc'[u] # "waiting"
      BY <1>1, <3>2 DEF OneReceiver, SleepInv, Waiting
    <3> QED BY <3>3 DEF SleepInv, NoSleepOnMessage, Waiting
  <2>3. CASE Waiting = {}
    <3>1. pc' = [pc EXCEPT ![t] = "leaving"]
      BY <2>1, <2>3 DEF AddAppend, SignalIfFirst
    <3> QED BY <1>1, <2>3, <3>1 DEF SleepInv, NoSleepOnMessage, Waiting
  <2>4. messages = <<>> \/ Waiting = {}
    BY DEF SleepInv, NoSleepOnMessage
  <2> QED BY <2>2, <2>3, <2>4
<1>3. CASE \E t \in Getters : GetWait(t)
  BY <1>1, <1>3 DEF GetWait, SleepInv, NoSleepOnMessage, Waiting, Threads
<1>4. CASE \/ \E t \in Threads :
                \/ Lock(t) \/ Unlock(t) \/ GetCall(t) \/ TimeOut(t)
                \/ GetNothing(t) \/ ClearCall(t) \/ GetOldest(t)
                \/ \E m \in Message : AddCall(t, m)
           \/ Wakeup \/ UNCHANGED vars
  <2>1. messages' = messages
    BY <1>4
       DEF Lock, Unlock, GetCall, TimeOut, GetNothing, ClearCall, GetOldest,
           AddCall, Wakeup, vars
  <2>2. \A u \in Threads : pc'[u] = "waiting" => pc[u] = "waiting"
    BY <1>1, <1>4
       DEF Lock, Unlock, GetCall, TimeOut, GetNothing, ClearCall, GetOldest,
           AddCall, Wakeup, vars
  <2> QED BY <2>1, <2>2 DEF SleepInv, NoSleepOnMessage, Waiting
<1>5. CASE \E t \in Threads : AddEvict(t) \/ GetShift(t) \/ ClearAll(t)
  <2>1. messages = <<>> => messages' = <<>>
    BY <1>5 DEF AddEvict, GetShift, ClearAll, QueueShift
  <2>2. \A u \in Threads : pc'[u] = "waiting" => pc[u] = "waiting"
    BY <1>1, <1>5 DEF AddEvict, GetShift, ClearAll
  <2> QED BY <2>1, <2>2 DEF SleepInv, NoSleepOnMessage, Waiting
<1> QED
  BY <1>2, <1>3, <1>4, <1>5 DEF Next, Add, Receive, Empty, Threads

\* Where one thread receives, as from each queue of fast, nobody sleeps while
\* a message is in the queue: the single signal of queue.c:115-117 is enough.
THEOREM NobodySleepsOnAMessage ==
    ASSUME OneReceiver
    PROVE  Spec => []NoSleepOnMessage
<1>1. Init => SleepInv
  BY DEF Init, SleepInv, NoSleepOnMessage
<1>2. IInv /\ SleepInv /\ [Next]_vars => SleepInv'
  BY SleepInvStep
<1>3. SleepInv => NoSleepOnMessage
  BY DEF SleepInv
<1> QED BY Invariance, <1>1, <1>2, <1>3, PTL DEF Spec

-----------------------------------------------------------------------------
(* MessageQueue implements BoundedFifo: an addition takes effect when the  *)
(* message is appended, a reception at the shift, the rest is invisible.   *)

LEMMA Prepended ==
    ASSUME NEW v \in Message, NEW s \in Seq(Message)
    PROVE  /\ <<v>> \o s # <<>>
           /\ Len(<<v>> \o s) = Len(s) + 1
           /\ Head(<<v>> \o s) = v
           /\ Tail(<<v>> \o s) = s
<1>1. Len(s) \in Nat
  BY LenProperties
<1>2. /\ <<v>> \o s \in Seq(Message) /\ Len(<<v>> \o s) = Len(s) + 1
      /\ (<<v>> \o s)[1] = v
  BY ConcatProperties
<1>3. Head(<<v>> \o s) = v /\ <<v>> \o s # <<>>
  BY <1>1, <1>2
<1>4. Tail(<<v>> \o s) = s
  OBVIOUS
<1> QED BY <1>2, <1>3, <1>4

LEMMA AddAppendPuts ==
    ASSUME IInv, NEW t \in Threads, AddAppend(t)
    PROVE  \E m \in Message : Fifo!Put(m)
<1> DEFINE m == Head(hand[t])
           evicted == Tail(hand[t])
<1>1. /\ mutex = t /\ mutex' = t /\ pc[t] = "appending" /\ pc'[t] = "leaving"
      /\ messages' = Append(messages, m)
      /\ departed' = departed \o Fifo!Leaving(evicted, "destroyed")
  BY DEF AddAppend, SignalIfFirst, Waiting, IInv, TypeOK
<1>2. /\ m \in Message /\ Contents = evicted \o messages
      /\ \/ evicted = <<>> /\ ~QueueIsFull(messages, MaximalLength)
         \/ /\ evicted = <<hand[t][2]>> /\ hand[t][2] \in Message
            /\ Len(messages) + 1 = MaximalLength
  BY <1>1, AppendingHand
<1>3. Contents' = messages'
  BY <1>1 DEF Contents, Appending
<1>4. messages \in Seq(Message)
  BY DEF IInv, TypeOK
<1> HIDE DEF m, evicted
<1>5. CASE evicted = <<>> /\ ~QueueIsFull(messages, MaximalLength)
  <2>1. Contents = messages
    BY <1>2, <1>4, <1>5, ConcatEmptySeq
  <2>2. Fifo!QueueEvicted(Contents, MaximalLength) = evicted
    BY <1>5, <2>1 DEF QueueIsFull, Fifo!QueueEvicted, Fifo!QueueIsFull
  <2>3. Fifo!QueueAdd(Contents, m, MaximalLength) = Append(messages, m)
    BY <1>5, <2>1 DEF QueueIsFull, Fifo!QueueAdd, Fifo!QueueIsFull
  <2> QED BY <1>1, <1>2, <1>3, <2>2, <2>3 DEF Fifo!Put
<1>6. CASE /\ evicted = <<hand[t][2]>> /\ hand[t][2] \in Message
           /\ Len(messages) + 1 = MaximalLength
  <2>1. Contents = <<hand[t][2]>> \o messages
    BY <1>2, <1>6
  <2>2. /\ Contents # <<>> /\ Len(Contents) = MaximalLength
        /\ Head(Contents) = hand[t][2] /\ Tail(Contents) = messages
    BY <1>4, <1>6, <2>1, Prepended
  <2>3. Fifo!QueueIsFull(Contents, MaximalLength)
    BY <1>4, <1>6, <2>2, LenProperties DEF Fifo!QueueIsFull
  <2>4. Fifo!QueueEvicted(Contents, MaximalLength) = evicted
    BY <1>6, <2>2, <2>3 DEF Fifo!QueueEvicted
  <2>5. Fifo!QueueAdd(Contents, m, MaximalLength) = Append(messages, m)
    BY <2>2, <2>3 DEF Fifo!QueueAdd, Fifo!QueueShift
  <2> QED BY <1>1, <1>2, <1>3, <2>4, <2>5 DEF Fifo!Put
<1> QED BY <1>2, <1>5, <1>6

LEMMA ThreadStepsStutter ==
    ASSUME IInv,
           \/ Wakeup
           \/ \E t \in Threads :
                 \/ Lock(t) \/ Unlock(t) \/ GetCall(t) \/ GetWait(t)
                 \/ TimeOut(t) \/ GetNothing(t) \/ ClearCall(t)
           \/ \E t \in Threads : \E m \in Message : AddCall(t, m)
           \/ UNCHANGED vars
    PROVE  UNCHANGED <<Contents, departed>>
<1>1. Contents' = Contents
  BY QueueAssumption
     DEF IInv, Contents, Appending, HoldsMutex, TypeOK, Lock, Unlock, GetCall,
         GetWait, TimeOut, GetNothing, ClearCall, Wakeup, PastWait, AddCall,
         Wanting, Places, vars
<1>2. departed' = departed
  BY DEF Lock, Unlock, GetCall, GetWait, TimeOut, GetNothing, ClearCall, Wakeup,
         AddCall, vars
<1> QED BY <1>1, <1>2

LEMMA StepsImplement ==
    ASSUME IInv, [Next]_vars
    PROVE  [Fifo!FifoNext]_(Fifo!fifoVars)
<1> USE DEF Fifo!fifoVars
<1>1. CASE \/ Wakeup
           \/ \E t \in Threads :
                 \/ Lock(t) \/ Unlock(t) \/ GetCall(t) \/ GetWait(t)
                 \/ TimeOut(t) \/ GetNothing(t) \/ ClearCall(t)
           \/ \E t \in Threads : \E m \in Message : AddCall(t, m)
           \/ UNCHANGED vars
  BY <1>1, ThreadStepsStutter
<1>2. CASE \E t \in Threads : AddEvict(t)
  BY <1>2, AddEvictStep DEF AddEvict
<1>3. CASE \E t \in Threads : GetOldest(t)
  BY <1>3, GetOldestStep DEF GetOldest
<1>4. CASE \E t \in Threads : AddAppend(t)
  BY <1>4, AddAppendPuts DEF Fifo!FifoNext
<1>5. CASE \E t \in Threads : GetShift(t)
  BY <1>5, GetShiftStep DEF Fifo!FifoNext, Fifo!Get
<1>6. CASE \E t \in Threads : ClearAll(t)
  BY <1>6, ClearAllStep DEF Fifo!FifoNext, Fifo!Clear
<1> QED
  BY <1>1, <1>2, <1>3, <1>4, <1>5, <1>6 DEF Next, Add, Receive, Empty, Threads

\* The queue of queue.c is a bounded FIFO whose operations are indivisible,
\* as the specification of the daemon takes it to be.
THEOREM QueueIsAFifo == Spec => ImplementsFifo
<1>1. Init => Fifo!FifoInit
  <2> SUFFICES ASSUME Init PROVE Fifo!FifoInit
    OBVIOUS
  <2>1. Contents = <<>>
    BY InitIInv, ContentsIsMessages DEF IInv, Init
  <2> QED BY <2>1 DEF Init, Fifo!FifoInit
<1>2. IInv /\ [Next]_vars => [Fifo!FifoNext]_(Fifo!fifoVars)
  BY StepsImplement
<1> QED BY Invariance, <1>1, <1>2, PTL DEF Spec, ImplementsFifo, Fifo!FifoSpec
=============================================================================
