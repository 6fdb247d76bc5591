---------------------------- MODULE MessageQueue ----------------------------
(***************************************************************************)
(* queue.c: the queue of messages between the threads of fast, at the      *)
(* grain of its mutex, its condition variable and its accesses to the      *)
(* array of messages.                                                      *)
(*                                                                         *)
(* A thread is outside of the queue ("idle"), wants the mutex or holds it  *)
(* at the start of an operation ("adding", "getting", "clearing", or       *)
(* "woken" on its way back from the condition variable), is in the middle  *)
(* of one ("appending" after the eviction, "shifting" after the oldest     *)
(* message was read), sleeps on the condition variable ("waiting"), or has *)
(* only the mutex to give back ("leaving").                                *)
(***************************************************************************)
EXTENDS QueueOps

CONSTANTS
    Adders, Getters,  \* the threads that send and those that receive
    NoThread,         \* the holder of a free mutex
    Message,          \* the messages; each is sent once (bounds the model)
    MaximalLength,    \* queue->maximal_length
    Waits             \* queue->timeout > 0: an empty queue is waited for

Threads == Adders \cup Getters

ASSUME QueueAssumption ==
    /\ NoThread \notin Threads
    /\ MaximalLength \in Nat
    /\ Waits \in BOOLEAN

VARIABLES
    mutex,      \* queue->mutex: the thread that holds it, or NoThread
    messages,   \* queue->messages[0 .. length-1]
    pc,         \* where each thread is
    hand,       \* the messages that each thread has in its local variables
    entered,    \* history: the messages in the order they were appended
    departed    \* history: how messages left, in order (as in BoundedFifo)

vars == <<mutex, messages, pc, hand, entered, departed>>

\* A full queue whose oldest message has been evicted to make room is still
\* seen with that message in it: nobody else can look before the append.
Appending == {t \in Threads : pc[t] = "appending"}
Contents ==
    IF mutex \in Appending THEN Tail(hand[mutex]) \o messages ELSE messages

\* The promise, used below for its constants and as a specification.
Fifo == INSTANCE BoundedFifo WITH contents <- Contents

Wanting == {"adding", "getting", "clearing", "woken"}
Places ==
    Wanting \cup {"idle", "appending", "shifting", "waiting", "leaving"}
Waiting == {t \in Threads : pc[t] = "waiting"}

Init ==
    /\ mutex = NoThread
    /\ messages = <<>>
    /\ pc = [t \in Threads |-> "idle"]
    /\ hand = [t \in Threads |-> <<>>]
    /\ entered = <<>>
    /\ departed = <<>>

-----------------------------------------------------------------------------
\* pthread_mutex_lock and pthread_mutex_unlock around every operation, and
\* the reacquisition of the mutex inside pthread_cond_timedwait.
Lock(t) ==
    /\ mutex = NoThread
    /\ pc[t] \in Wanting
    /\ mutex' = t
    /\ UNCHANGED <<messages, pc, hand, entered, departed>>

Unlock(t) ==
    /\ mutex = t
    /\ pc[t] = "leaving"
    /\ mutex' = NoThread
    /\ pc' = [pc EXCEPT ![t] = "idle"]
    /\ UNCHANGED <<messages, hand, entered, departed>>

-----------------------------------------------------------------------------
\* queue_add_with_destructor is called with a message not sent before.
AddCall(t, m) ==
    /\ pc[t] = "idle"
    /\ \A i \in 1..Len(entered) : entered[i] # m
    /\ \A a \in Threads : \A i \in 1..Len(hand[a]) : hand[a][i] # m
    /\ pc' = [pc EXCEPT ![t] = "adding"]
    /\ hand' = [hand EXCEPT ![t] = <<m>>]
    /\ UNCHANGED <<mutex, messages, entered, departed>>

\* The oldest message of a full queue is destroyed and the queue shifted;
\* the thread remembers the victim (history) behind the message it adds.
AddEvict(t) ==
    /\ mutex = t
    /\ pc[t] = "adding"
    /\ pc' = [pc EXCEPT ![t] = "appending"]
    /\ hand' = [hand EXCEPT ![t] = @ \o QueueEvicted(messages, MaximalLength)]
    /\ messages' = IF QueueIsFull(messages, MaximalLength)
                      THEN QueueShift(messages) ELSE messages
    /\ UNCHANGED <<mutex, entered, departed>>

\* The definitions named Mutated... are mistakes to be noticed: see QueueOps.
\* Here, the length is compared before the message is counted.
MutatedSignal(t) ==
    IF Len(messages) = 1 /\ Waiting # {}
       THEN \E w \in Waiting :
               pc' = [pc EXCEPT ![t] = "leaving", ![w] = "woken"]
       ELSE pc' = [pc EXCEPT ![t] = "leaving"]

\* pthread_cond_signal: sent only when the new message is alone in the
\* queue; it wakes one of the sleepers.
SignalIfFirst(t) ==
    IF Len(messages') = 1 /\ Waiting # {}
       THEN \E w \in Waiting :
               pc' = [pc EXCEPT ![t] = "leaving", ![w] = "woken"]
       ELSE pc' = [pc EXCEPT ![t] = "leaving"]

AddAppend(t) ==
    /\ mutex = t
    /\ pc[t] = "appending"
    /\ messages' = Append(messages, Head(hand[t]))
    /\ entered' = Append(entered, Head(hand[t]))
    /\ departed' = departed \o Fifo!Leaving(Tail(hand[t]), "destroyed")
    /\ hand' = [hand EXCEPT ![t] = <<>>]
    /\ SignalIfFirst(t)
    /\ UNCHANGED mutex

-----------------------------------------------------------------------------
GetCall(t) ==
    /\ pc[t] = "idle"
    /\ pc' = [pc EXCEPT ![t] = "getting"]
    /\ UNCHANGED <<mutex, messages, hand, entered, departed>>

\* An empty queue with a timeout: pthread_cond_timedwait gives the mutex
\* back and puts the thread to sleep in one step.
GetWait(t) ==
    /\ mutex = t
    /\ pc[t] = "getting"
    /\ messages = <<>> /\ Waits
    /\ mutex' = NoThread
    /\ pc' = [pc EXCEPT ![t] = "waiting"]
    /\ UNCHANGED <<messages, hand, entered, departed>>

\* The end of the sleep without a signal: the timeout, or a spurious wakeup.
TimeOut(t) ==
    /\ pc[t] = "waiting"
    /\ pc' = [pc EXCEPT ![t] = "woken"]
    /\ UNCHANGED <<mutex, messages, hand, entered, departed>>

\* Past the wait, of which there is at most one per call.
PastWait(t) == pc[t] = "woken" \/ (pc[t] = "getting" /\ ~Waits)

GetNothing(t) ==
    /\ mutex = t
    /\ PastWait(t) /\ messages = <<>>
    /\ pc' = [pc EXCEPT ![t] = "leaving"]
    /\ UNCHANGED <<mutex, messages, hand, entered, departed>>

GetOldest(t) ==
    /\ mutex = t
    /\ pc[t] \in {"getting", "woken"} /\ messages # <<>>
    /\ hand' = [hand EXCEPT ![t] = <<messages[1]>>]
    /\ pc' = [pc EXCEPT ![t] = "shifting"]
    /\ UNCHANGED <<mutex, messages, entered, departed>>

MutatedGet(t) ==                              \* queue_shift is missing
    /\ mutex = t
    /\ pc[t] = "shifting"
    /\ departed' = departed \o Fifo!Leaving(hand[t], "delivered")
    /\ hand' = [hand EXCEPT ![t] = <<>>]
    /\ pc' = [pc EXCEPT ![t] = "leaving"]
    /\ UNCHANGED <<mutex, messages, entered>>

GetShift(t) ==
    /\ mutex = t
    /\ pc[t] = "shifting"
    /\ messages' = QueueShift(messages)
    /\ departed' = departed \o Fifo!Leaving(hand[t], "delivered")
    /\ hand' = [hand EXCEPT ![t] = <<>>]
    /\ pc' = [pc EXCEPT ![t] = "leaving"]
    /\ UNCHANGED <<mutex, entered>>

-----------------------------------------------------------------------------
\* queue_clear, called by a sender.
ClearCall(t) ==
    /\ pc[t] = "idle"
    /\ pc' = [pc EXCEPT ![t] = "clearing"]
    /\ UNCHANGED <<mutex, messages, hand, entered, departed>>

MutatedClear(t) ==                            \* length is not reset
    /\ mutex = t
    /\ pc[t] = "clearing"
    /\ messages' = [i \in 1..Len(messages) |-> "freed"]
    /\ departed' = departed \o Fifo!Leaving(messages, "destroyed")
    /\ pc' = [pc EXCEPT ![t] = "leaving"]
    /\ UNCHANGED <<mutex, hand, entered>>

ClearAll(t) ==
    /\ mutex = t
    /\ pc[t] = "clearing"
    /\ messages' = <<>>
    /\ departed' = departed \o Fifo!Leaving(messages, "destroyed")
    /\ pc' = [pc EXCEPT ![t] = "leaving"]
    /\ UNCHANGED <<mutex, hand, entered>>

\* queue_wakeup broadcasts without taking the mutex.
Wakeup ==
    /\ pc' = [t \in Threads |->
                IF pc[t] = "waiting" THEN "woken" ELSE pc[t]]
    /\ UNCHANGED <<mutex, messages, hand, entered, departed>>

-----------------------------------------------------------------------------
Add(t) == (\E m \in Message : AddCall(t, m)) \/ AddEvict(t) \/ AddAppend(t)
Receive(t) ==
    \/ GetCall(t) \/ GetWait(t) \/ TimeOut(t)
    \/ GetNothing(t) \/ GetOldest(t) \/ GetShift(t)
Empty(t) == ClearCall(t) \/ ClearAll(t)

Next ==
    \/ \E t \in Threads : Lock(t) \/ Unlock(t)
    \/ \E t \in Adders : Add(t) \/ Empty(t)
    \/ \E t \in Getters : Receive(t)
    \/ Wakeup

Spec == Init /\ [][Next]_vars

\* The receivers keep calling queue_get, as the loops of the workers do, and
\* a thread inside of the queue keeps running when it is not asleep.  A
\* sleeper is NOT promised to time out, and nobody has to send.
Fairness ==
    /\ \A t \in Threads : WF_vars(Lock(t)) /\ WF_vars(Unlock(t))
    /\ \A t \in Adders :
         WF_vars(AddEvict(t)) /\ WF_vars(AddAppend(t)) /\ WF_vars(ClearAll(t))
    /\ \A t \in Getters :
         /\ WF_vars(GetCall(t)) /\ WF_vars(GetWait(t))
         /\ WF_vars(GetNothing(t) \/ GetOldest(t) \/ GetShift(t))

FairSpec == Spec /\ Fairness
-----------------------------------------------------------------------------
TypeOK ==
    /\ mutex \in Threads \cup {NoThread}
    /\ messages \in Seq(Message)
    /\ pc \in [Threads -> Places]
    /\ hand \in [Threads -> Seq(Message)]
    /\ entered \in Seq(Message)
    /\ departed \in Seq([message : Message, fate : Fifo!Fate])

\* Nothing is lost, duplicated or overtaken: the messages that have left,
\* followed by those still in the queue, are exactly the messages that were
\* appended, in the order of their appending.  queue_get hands each message
\* over once and never after an eviction destroyed it (queue.c:100-105 and
\* 145-149, under the mutex).
FifoOrder == entered = Fifo!Left(departed) \o Contents

\* A limited queue never grows beyond maximal_length, however many senders
\* find it full at the same time (queue.c:100-105).
Limit == MaximalLength # 0 => Len(messages) <= MaximalLength

\* With one receiving thread, as each queue of fast has, nobody sleeps on
\* the condition variable while a message is in the queue, although the
\* signal is sent only for the first message of an empty queue
\* (queue.c:115-117, 129-143).
NoSleepOnMessage == messages # <<>> => Waiting = {}

\* The queue of queue.c keeps the promise of BoundedFifo: each call to it
\* takes effect at one point, and calls that only wait are invisible.
ImplementsFifo == Fifo!FifoSpec

\* A message put in the queue leaves it, though no sleeper ever times out:
\* the wakeup of queue.c:116-117 is not lost between the test of
\* queue.c:129 and the sleep.
EveryMessageLeaves ==
    \A m \in Message :
        (\E i \in 1..Len(messages) : messages[i] = m)
            ~> (\A i \in 1..Len(messages) : messages[i] # m)

\* The comment at queue.c:115 on the signal of an addition, "Wakeup the
\* first client waiting for a message, if any": an addition that finds
\* sleepers leaves one fewer of them.
AddWakesAWaiter ==
    [][\A t \in Adders : AddAppend(t) /\ Waiting # {} => Waiting' # Waiting]_vars
=============================================================================
