-------------------------- MODULE ServerProperties --------------------------
(***************************************************************************)
(* What server.c owes to its user and to the other ends.                   *)
(***************************************************************************)
EXTENDS Server

LinkStates == {"none", "connecting", "up", "refused", "closed"}

ConnectionType ==
    [socket : Sockets \cup {NoSocket}, connected : BOOLEAN, waiting : BOOLEAN,
     finished : BOOLEAN, in : Seq(Bytes), out : Seq(Nat),
     binary : {0, BinaryLength}, written : Nat, handed : Seq(Seq(Bytes))]
LinkType ==
    [state : LinkStates, sent : Seq(Bytes), wire : Seq(Bytes),
     got : Seq(Nat), way : Seq(Nat)]

\* Type correctness.  A descriptor belongs to one connection, and no freed
\* connection has one: closing happens at every end.
TypeOK ==
    /\ list \in Seq(used) /\ used \subseteq Connections /\ IsInjective(list)
    /\ conn \in [Connections -> ConnectionType]
    /\ link \in [Connections -> LinkType]
    /\ timers \in Seq([conn : Connections, expired : BOOLEAN])
    /\ pc \in {"idle", "walk", "accept", "timers"}
    /\ cursor \in Connections \cup {ListHead}
    /\ rset \subseteq Sockets /\ wset \subseteq Sockets
    /\ listening \in BOOLEAN /\ knocking \in BOOLEAN
    /\ \A c \in Connections : HasSocket(c) =>
        /\ c \in Listed
        /\ \A d \in Connections \ {c} : conn[d].socket # conn[c].socket

\* The loop over the connections never stands on a connection that was
\* removed and freed in it, although reading frees the one it stands on
\* (server.c:775).
CursorIsAlive == pc = "walk" => cursor \in Listed \cup {ListHead}

\* A restart timer refers to a connection that is in the list, waits for the
\* restart and has no socket, and to each such connection refers one timer:
\* the callback (server.c:468) touches no freed memory and closes no socket
\* in use.
TimersMatch ==
    /\ \A i \in DOMAIN timers :
        LET c == timers[i].conn
        IN  c \in Listed /\ conn[c].waiting /\ ~HasSocket(c) /\ ~conn[c].connected
    /\ \A i, j \in DOMAIN timers : timers[i].conn = timers[j].conn => i = j
    /\ \A c \in Listed : conn[c].waiting => \E i \in DOMAIN timers : timers[i].conn = c

\* The descriptors left in the snapshot of select belong to connections that
\* are as select saw them: what is left in rset can be read, so that read
\* does not find the socket empty and take that for the end of the stream.
\* A descriptor closed and given out again in the same cycle would break it.
SnapshotIsTrue ==
    pc = "walk" =>
        \A c \in Listed : HasSocket(c) =>
            /\ conn[c].socket \in rset => Readable(c)
            /\ conn[c].socket \in wset => Writable(c)

\* What the hooks of a stream should get, from the whole stream: a line is
\* what stands before a terminator, empty ones left out, and BinaryLength
\* bytes follow a line that asks for them.
HasLine(s) == Terminator \in ToSet(s)
LineEnd(s) == Min({i \in DOMAIN s : s[i] = Terminator})
FirstLine(s) == SubSeq(s, 1, LineEnd(s) - 1)
AfterLine(s) == SubSeq(s, LineEnd(s) + 1, Len(s))
AfterBlock(s) == SubSeq(s, BinaryLength + 1, Len(s))

Frames[s \in Seq(Bytes)] ==
    LET line == FirstLine(s)
        rest == AfterLine(s)
    IN  IF ~HasLine(s) THEN <<>>
        ELSE IF line = <<>> THEN Frames[rest]
        ELSE <<line>> \o
             (IF Head(line) = Quit \/ (Head(line) = Binary /\ Len(rest) < BinaryLength) THEN <<>>
              ELSE IF Head(line) = Binary
              THEN <<SubSeq(rest, 1, BinaryLength)>> \o Frames[AfterBlock(rest)]
              ELSE Frames[rest])

\* However the stream of the other end is cut into reads, the hooks get its
\* lines and blocks whole, in order and once (server.c:548-614), and a line
\* of text as soon as its end was read.  Lines behind a block wait for the
\* next read.
FramesAreWhole ==
    \A c \in Connections : link[c].state \in {"up", "closed"} =>
        LET l == link[c]
            frames == Frames[SubSeq(l.sent, 1, Len(l.sent) - Len(l.wire))]
        IN  /\ IsPrefix(conn[c].handed, frames)
            /\ Binary \notin ToSet(l.sent) => conn[c].handed = frames

\* Messages arrive in the order in which they were written, none twice and
\* none left out: those that arrived, those under way and those in the
\* buffer are all that were written on this socket (server.c:310, 343).
MessagesInOrder ==
    \A c \in Connections :
        link[c].state \in {"connecting", "up"} =>
            link[c].got \o link[c].way \o conn[c].out = [i \in 1 .. conn[c].written |-> i]

\* Everything that arrives, and the end of the stream, is noticed, although
\* closing a connection makes the loop leave out the next one in that cycle,
\* and nobody has to ask for the close (server.c:781).
EverythingIsRead ==
    \A c \in Connections :
        link[c].wire # <<>> \/ link[c].state = "closed"
            ~> link[c].wire = <<>> /\ link[c].state # "closed"
=============================================================================
