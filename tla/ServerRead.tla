----------------------------- MODULE ServerRead -----------------------------
(***************************************************************************)
(* What server_connection_read of server.c does with the bytes of a        *)
(* connection, and what the hook of the user does with a line.             *)
(*                                                                         *)
(* A byte is Terminator (NUL, CR or LF, which the code does not tell       *)
(* apart), or a character.  The hook is not a part of server.c: a line     *)
(* whose first character is                                                *)
(*   Binary   makes it call server_connection_wait_for_binary,             *)
(*   Quit     makes it call server_connection_close,                       *)
(*   Ask      makes it answer with server_connection_message,              *)
(* and any other line changes nothing in the server.                       *)
(***************************************************************************)
EXTENDS Naturals, Sequences, SequencesExt, FiniteSets

CONSTANTS Terminator, Binary, Quit, Ask, Letter
CONSTANT BinaryLength  \* the length that the hook waits for

Bytes == {Terminator, Binary, Quit, Ask, Letter}

ASSUME ServerReadAssumption ==
    /\ Cardinality(Bytes) = 5
    /\ BinaryLength \in Nat \ {0}

\* The fields of a connection that reading changes: the read buffer, the
\* length of the block waited for (0: is_binary is FALSE) and is_finished;
\* what was handed to the hooks, and how many answers the hook wrote.
Reading(buffer, binary, finished) ==
    [buffer |-> buffer, binary |-> binary, finished |-> finished,
     handed |-> <<>>, answers |-> 0]

CallLineHook(r, line) ==
    [r EXCEPT !.handed = Append(@, line),
              !.binary = IF Head(line) = Binary THEN BinaryLength ELSE @,
              !.finished = @ \/ Head(line) = Quit,
              !.answers = IF Head(line) = Ask THEN @ + 1 ELSE @]

\* The definitions named Mutated... are mistakes to be noticed: see QueueOps.
MutatedAwaitsText(r) == ~r.finished           \* is_binary is not looked at

AwaitsText(r) == r.binary = 0 /\ ~r.finished

\* One turn of the loop over the bytes.  r.buffer holds the bytes since the
\* last line end, and, once the loop has stopped, all that follow it.
ParseByte(r, byte) ==
    IF AwaitsText(r) /\ byte = Terminator
    THEN LET line == r.buffer
             ended == [r EXCEPT !.buffer = <<>>]
         IN  IF line = <<>> THEN ended ELSE CallLineHook(ended, line)
    ELSE [r EXCEPT !.buffer = Append(@, byte)]

ReadLines(r) ==
    LET after[i \in 0 .. Len(r.buffer)] ==
            IF i = 0 THEN [r EXCEPT !.buffer = <<>>] ELSE ParseByte(after[i - 1], r.buffer[i])
    IN  IF r.binary # 0 THEN r ELSE after[Len(r.buffer)]

\* A complete block goes to binary_read_hook and ends the binary mode; what
\* follows it stays in the buffer until the next read.
ReadBinary(r) ==
    IF r.binary = 0 \/ Len(r.buffer) < r.binary THEN r
    ELSE [r EXCEPT !.handed = Append(@, SubSeq(r.buffer, 1, r.binary)),
                   !.buffer = SubSeq(@, r.binary + 1, Len(@)),
                   !.binary = 0]

\* Bytes arrived, or the end of the stream did.
ReadData(r) == ReadBinary(ReadLines(r))
ReadEnd(r) ==
    IF r.buffer = <<>> \/ r.binary # 0 THEN r ELSE CallLineHook(r, r.buffer)
=============================================================================
