---------------------------- MODULE BoundedFifo ----------------------------
(***************************************************************************)
(* What the users of a message queue of fast are promised: a FIFO that     *)
(* never blocks a sender.  A message leaves at the head only, either       *)
(* because a receiver gets it, or because it is destroyed: by the arrival  *)
(* of a message at a full queue, or when the whole queue is cleared.       *)
(* Every operation is one indivisible step; no thread is mentioned.        *)
(***************************************************************************)
EXTENDS QueueOps

CONSTANTS
    Message,        \* the messages that may be put
    MaximalLength   \* the limit of the queue, 0 when it has none

VARIABLES
    contents,       \* the messages in the queue, the oldest first
    departed        \* how messages left, in the order in which they did

fifoVars == <<contents, departed>>

Fate == {"delivered", "destroyed"}

\* The records appended to departed when the messages of a sequence leave.
Leaving(messages, fate) ==
    [i \in 1..Len(messages) |-> [message |-> messages[i], fate |-> fate]]

\* Conversely, the messages of such records.
Left(records) == [i \in 1..Len(records) |-> records[i].message]

FifoInit == contents = <<>> /\ departed = <<>>

Put(m) ==
    /\ contents' = QueueAdd(contents, m, MaximalLength)
    /\ departed' = departed \o
                     Leaving(QueueEvicted(contents, MaximalLength), "destroyed")

Get ==
    /\ contents # <<>>
    /\ contents' = Tail(contents)
    /\ departed' = departed \o Leaving(<<Head(contents)>>, "delivered")

Clear ==
    /\ contents' = <<>>
    /\ departed' = departed \o Leaving(contents, "destroyed")

FifoNext == Get \/ Clear \/ \E m \in Message : Put(m)

FifoSpec == FifoInit /\ [][FifoNext]_fifoVars
=============================================================================
