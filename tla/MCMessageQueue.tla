--------------------------- MODULE MCMessageQueue ---------------------------
(***************************************************************************)
(* Instances of MessageQueue for TLC: two senders that add and clear, one  *)
(* or two receivers, and a queue shorter than the number of messages, so   *)
(* that it is found full and found empty.                                  *)
(***************************************************************************)
EXTENDS MessageQueue, TLC

\* The messages are only compared with each other, and so are the threads of
\* each role.
Symmetry == UNION {Permutations(S) : S \in {Message, Adders, Getters}}
=============================================================================
