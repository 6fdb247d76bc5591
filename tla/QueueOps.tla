------------------------------ MODULE QueueOps ------------------------------
(***************************************************************************)
(* The array operations of queue.c, as operators on the sequence of the    *)
(* messages that a queue holds, the oldest first.  They are shared by the  *)
(* specification of the queue itself and by the specification of the       *)
(* daemon, which uses three queues.                                        *)
(***************************************************************************)
EXTENDS Naturals, Sequences

\* The definitions named Mutated... are plausible mistakes in the definition
\* that follows them.  Nothing refers to them: put in its place, they show
\* that the properties of the specifications notice the mistake.
MutatedIsFull(messages, maximalLength) ==     \* off by one
    /\ maximalLength # 0
    /\ Len(messages) > maximalLength

\* queue_add_with_destructor evicts when the queue is limited and at (or
\* above) its limit; maximal_length = 0 means that the queue is unlimited.
QueueIsFull(messages, maximalLength) ==
    /\ maximalLength # 0
    /\ Len(messages) >= maximalLength

MutatedShift(messages) ==                     \* the memmove is missing
    IF messages = <<>> THEN <<>> ELSE SubSeq(messages, 1, Len(messages) - 1)

\* queue_shift: the oldest message leaves, the others move up by one place.
\* It returns at once when there is nothing to shift.
QueueShift(messages) == IF messages = <<>> THEN <<>> ELSE Tail(messages)

\* The messages whose data an addition destroys: the oldest one of a full
\* queue, whatever it is, and none otherwise.
QueueEvicted(messages, maximalLength) ==
    IF QueueIsFull(messages, maximalLength) THEN <<Head(messages)>> ELSE <<>>

\* What queue_add_with_destructor leaves in the queue.
QueueAdd(messages, message, maximalLength) ==
    Append(IF QueueIsFull(messages, maximalLength)
              THEN QueueShift(messages) ELSE messages, message)
=============================================================================
