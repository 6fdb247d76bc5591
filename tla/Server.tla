------------------------------- MODULE Server -------------------------------
(***************************************************************************)
(* server.c: the connections of a server and the timers that restart them, *)
(* in the one thread that calls server_cycle, against the clients and      *)
(* servers at the other ends, which act between any two steps of it.       *)
(*                                                                         *)
(* server_cycle takes a snapshot with select and then walks the list of    *)
(* connections, from which reading removes.  A descriptor is a number, and *)
(* the lowest free one is given out, so that a closed one is soon used     *)
(* again.  Neither data_read_hook nor the custom socket is modelled:       *)
(* nothing in the repository sets them.                                    *)
(***************************************************************************)
EXTENDS Integers, FiniteSets, FiniteSetsExt, ServerRead

CONSTANTS
    Incoming,     \* connections that server_accept makes
    Outgoing,     \* connections that server_add_connection makes
    Active,       \* the outgoing ones for which the user sets is_active
    Unresolved,   \* the outgoing ones whose host cannot be looked up
    ListHead,     \* &server->connections
    Sockets,      \* descriptors
    PeerBytes,    \* what the other ends send
    Window,       \* messages on their way to the other end that fit in TCP
    MaxSent,      \* bound: bytes sent to a connection on one socket
    MaxWritten    \* bound: no broadcast when that many messages were written

Connections == Incoming \cup Outgoing
NoSocket == -1

ASSUME ServerAssumption ==
    /\ Incoming \cap Outgoing = {} /\ ListHead \notin Connections
    /\ Active \subseteq Outgoing /\ Unresolved \subseteq Outgoing
    /\ Sockets \subseteq Nat /\ IsFiniteSet(Sockets)
    /\ PeerBytes \subseteq Bytes
    /\ Window \in Nat \ {0} /\ MaxSent \in Nat /\ MaxWritten \in Nat

VARIABLES
    list,      \* server->connections, the newest connection first
    used,      \* history: the connections ever made
    conn,      \* the fields of each connection
    timers,    \* server->timers, the newest first
    pc,        \* where server_cycle is: "idle" outside of it, "walk" in the
               \* loop over the connections, "accept" and "timers" after it
    cursor,    \* the variable connection of that loop
    rset, wset, listening, \* what is left of the snapshot of select
    link,      \* the other end of a connection's socket, and the wire to it
    knocking   \* is a client waiting to be accepted?

snapshot == <<rset, wset, listening>>
vars == <<list, used, conn, timers, pc, cursor, snapshot, link, knocking>>

-----------------------------------------------------------------------------
\* The fields of connection_str.  written and handed are history: how many
\* messages were written and what was handed to the hooks on this socket.
NewConnection(socket, connected) ==
    [socket |-> socket, connected |-> connected, waiting |-> FALSE,
     finished |-> FALSE, in |-> <<>>, out |-> <<>>, binary |-> 0,
     written |-> 0, handed |-> <<>>]

\* The other end: all that it sent and what of it was not read yet, what it
\* has received and what is on its way there.
NewLink(state) ==
    [state |-> state, sent |-> <<>>, wire |-> <<>>, got |-> <<>>, way |-> <<>>]

UsedSockets == {conn[c].socket : c \in Connections} \ {NoSocket}
FreeSockets == Sockets \ UsedSockets

\* create_socket: -1 on failure, else a socket with a connect under way.
NewSocket(c) ==
    IF c \in Unresolved \/ FreeSockets = {} THEN NoSocket ELSE Min(FreeSockets)
LinkFor(socket) == NewLink(IF socket = NoSocket THEN "none" ELSE "connecting")

Listed == ToSet(list)
HasSocket(c) == conn[c].socket # NoSocket

\* del_from_list.
Without(c) == RemoveAt(list, Min({i \in DOMAIN list : list[i] = c}))

\* e->next: the list is a ring through its head.
Ring == <<ListHead>> \o list \o <<ListHead>>
Next1(c) == Ring[1 + Min({i \in DOMAIN Ring : Ring[i] = c})]

Init ==
    /\ list = <<>> /\ used = {} /\ timers = <<>> /\ pc = "idle"
    /\ conn = [c \in Connections |-> NewConnection(NoSocket, FALSE)]
    /\ link = [c \in Connections |-> NewLink("none")]
    /\ cursor = ListHead /\ rset = {} /\ wset = {} /\ listening = FALSE
    /\ knocking = FALSE

-----------------------------------------------------------------------------
(* Operations of the user, between two cycles. *)

\* server_add_connection: at the head of the list, the connect under way.
AddConnection(c) ==
    /\ pc = "idle" /\ c \in Outgoing \ used
    /\ used' = used \cup {c} /\ list' = <<c>> \o list
    /\ conn' = [conn EXCEPT ![c] = NewConnection(NewSocket(c), FALSE)]
    /\ link' = [link EXCEPT ![c] = LinkFor(NewSocket(c))]
    /\ UNCHANGED <<timers, pc, cursor, snapshot, knocking>>

\* server_connection_write: how many messages go out before send fails.
Sendable(x, l) ==
    IF x.socket = NoSocket \/ ~x.connected \/ l.state # "up" THEN 0
    ELSE Min({Len(x.out), Window - Len(l.way)})
MutatedSent(x, l) ==                           \* the rest is not kept
    [x EXCEPT !.out = IF Sendable(x, l) > 0 THEN <<>> ELSE @]

Sent(x, l) == [x EXCEPT !.out = SubSeq(@, Sendable(x, l) + 1, Len(@))]
Carried(x, l) == [l EXCEPT !.way = @ \o SubSeq(x.out, 1, Sendable(x, l))]

\* server_connection_write_block up to the write: n messages, each a number
\* that tells its place among those written.  Nothing without a socket.
WriteBlock(x, n) ==
    IF x.socket = NoSocket THEN x
    ELSE [x EXCEPT !.written = @ + n,
                   !.out = @ \o [i \in 1 .. n |-> x.written + i]]

\* server_broadcast_message, also to connections that are not yet connected.
Broadcast ==
    LET x(c) == WriteBlock(conn[c], 1) IN
    /\ pc = "idle" /\ list # <<>>
    /\ \A c \in Listed : conn[c].written < MaxWritten
    /\ conn' = [c \in Connections |-> IF c \in Listed THEN Sent(x(c), link[c]) ELSE conn[c]]
    /\ link' = [c \in Connections |-> IF c \in Listed THEN Carried(x(c), link[c]) ELSE link[c]]
    /\ UNCHANGED <<list, used, timers, pc, cursor, snapshot, knocking>>

-----------------------------------------------------------------------------
(* server_cycle: select and the loop over the connections *)

RestartTimer(c) == [conn |-> c, expired |-> FALSE]

\* Connections that have no socket and are to get a new one.
NeedsRestart(c) == ~HasSocket(c) /\ c \in Active /\ ~conn[c].waiting

\* The timers with those of the first connections of the list.
WithRestarts[i \in 0 .. Len(list)] ==
    IF i = 0 THEN timers
    ELSE IF NeedsRestart(list[i]) THEN <<RestartTimer(list[i])>> \o WithRestarts[i - 1]
    ELSE WithRestarts[i - 1]

MutatedReadable(c) == conn[c].connected /\ link[c].wire # <<>> \* not at the end

Readable(c) == conn[c].connected /\ (link[c].wire # <<>> \/ link[c].state = "closed")
Writable(c) ==
    IF conn[c].connected
    THEN conn[c].out # <<>> /\ (Len(link[c].way) < Window \/ link[c].state = "closed")
    ELSE link[c].state # "connecting"
SocketsThat(Is(_)) == {conn[c].socket : c \in {d \in Listed : HasSocket(d) /\ Is(d)}}

Select ==
    /\ pc = "idle" /\ pc' = "walk" /\ cursor' = ListHead
    /\ rset' = SocketsThat(Readable) /\ wset' = SocketsThat(Writable)
    /\ listening' = knocking
    /\ timers' = WithRestarts[Len(list)]
    /\ conn' = [c \in Connections |->
                  [conn[c] EXCEPT !.waiting = @ \/ (c \in Listed /\ NeedsRestart(c))]]
    /\ UNCHANGED <<list, used, link, knocking>>

\* The loop has come to c.
At(c) == pc = "walk" /\ c = Next1(cursor) /\ c # ListHead
Selected(c, set) == HasSocket(c) /\ conn[c].socket \in set

\* FD_CLR.
MutatedClear(set, c) == set                    \* the bit stays

Clear(set, c) == set \ {conn[c].socket}

Pass(c) ==
    /\ At(c) /\ ~Selected(c, wset) /\ ~Selected(c, rset)
    /\ cursor' = c
    /\ UNCHANGED <<list, used, conn, timers, pc, snapshot, link, knocking>>

\* The asynchronous connect has ended.  When the other end has accepted and
\* closed again, SO_ERROR may hold an error or not.
FinishConnect(c) ==
    /\ At(c) /\ Selected(c, wset) /\ ~conn[c].connected
    /\ wset' = Clear(wset, c)
    /\ \/ /\ link[c].state # "refused"
          /\ conn' = [conn EXCEPT ![c].connected = TRUE]
          /\ UNCHANGED link
       \/ /\ link[c].state \in {"refused", "closed"}
          /\ conn' = [conn EXCEPT ![c].socket = NoSocket]
          /\ link' = [link EXCEPT ![c] = NewLink("none")]
    /\ UNCHANGED <<list, used, timers, pc, cursor, rset, listening, knocking>>

Write(c) ==
    /\ At(c) /\ Selected(c, wset) /\ conn[c].connected
    /\ wset' = Clear(wset, c)
    /\ conn' = [conn EXCEPT ![c] = Sent(@, link[c])]
    /\ link' = [link EXCEPT ![c] = Carried(conn[c], @)]
    /\ UNCHANGED <<list, used, timers, pc, cursor, rset, listening, knocking>>

-----------------------------------------------------------------------------
(* server_connection_read, which takes all that has arrived.  Reading      *)
(* nothing counts as the end of the stream.                                *)

ReadNow(c) ==
    /\ At(c) /\ Selected(c, rset) /\ ~Selected(c, wset)
    /\ rset' = Clear(rset, c)
    /\ UNCHANGED <<used, pc, wset, listening, knocking>>

Result(c) ==
    LET r == Reading(conn[c].in \o link[c].wire, conn[c].binary, conn[c].finished)
    IN  IF link[c].wire = <<>> THEN ReadEnd(r) ELSE ReadData(r)

\* What the hooks have done to the connection, their answers included.
Handled(c) ==
    LET r == Result(c)
    IN  WriteBlock([conn[c] EXCEPT !.in = r.buffer, !.binary = r.binary,
                        !.finished = r.finished, !.handed = @ \o r.handed],
                   r.answers)

\* server_connection_cleanup: only two fields and the history stay.
CleanedUp(x) ==
    [NewConnection(NoSocket, FALSE) EXCEPT
        !.waiting = x.waiting, !.finished = x.finished, !.handed = x.handed]

Restarts(c) == link[c].wire = <<>> /\ c \in Active /\ ~conn[c].waiting
Leaves(c) == IF link[c].wire = <<>> THEN ~Restarts(c) ELSE Result(c).finished

\* The connection goes on.
ReadOn(c) ==
    /\ ReadNow(c) /\ ~Restarts(c) /\ ~Leaves(c)
    /\ conn' = [conn EXCEPT ![c] = Sent(Handled(c), link[c])]
    /\ link' = [link EXCEPT ![c] = [Carried(Handled(c), @) EXCEPT !.wire = <<>>]]
    /\ cursor' = c
    /\ UNCHANGED <<list, timers>>

\* server_connection_restart: the connection stays in the list.
MutatedRestart(c) ==                           \* is_waiting_for_restart not set
    /\ ReadNow(c) /\ Restarts(c)
    /\ conn' = [conn EXCEPT ![c] = CleanedUp(Handled(c))]
    /\ link' = [link EXCEPT ![c] = NewLink("none")]
    /\ timers' = <<RestartTimer(c)>> \o timers
    /\ cursor' = c
    /\ UNCHANGED list

ReadRestart(c) ==
    /\ ReadNow(c) /\ Restarts(c)
    /\ conn' = [conn EXCEPT ![c] = [CleanedUp(Handled(c)) EXCEPT !.waiting = TRUE]]
    /\ link' = [link EXCEPT ![c] = NewLink("none")]
    /\ timers' = <<RestartTimer(c)>> \o timers
    /\ cursor' = c
    /\ UNCHANGED list

MutatedClose(c) ==                             \* on from the freed connection
    /\ ReadNow(c) /\ Leaves(c)
    /\ list' = Without(c)
    /\ conn' = [conn EXCEPT ![c] = CleanedUp(Handled(c))]
    /\ link' = [link EXCEPT ![c] = NewLink("none")]
    /\ cursor' = c
    /\ UNCHANGED timers

\* server_close_connection.  The loop goes on from prev->next, which skips
\* the connection after c, and starts again when c was the last one.
ReadClose(c) ==
    /\ ReadNow(c) /\ Leaves(c)
    /\ list' = Without(c)
    /\ conn' = [conn EXCEPT ![c] = CleanedUp(Handled(c))]
    /\ link' = [link EXCEPT ![c] = NewLink("none")]
    /\ cursor' = Next1(c)
    /\ UNCHANGED timers

Read(c) == ReadOn(c) \/ ReadRestart(c) \/ ReadClose(c)

EndOfWalk ==
    /\ pc = "walk" /\ Next1(cursor) = ListHead
    /\ pc' = "accept"
    /\ UNCHANGED <<list, used, conn, timers, cursor, snapshot, link, knocking>>

-----------------------------------------------------------------------------
(* The rest of server_cycle *)

\* server_accept: its result is not looked at, so that without a free
\* descriptor a connection with socket -1 is put in the list, and the client
\* goes on knocking.
Accept(c) ==
    LET socket == IF FreeSockets = {} THEN NoSocket ELSE Min(FreeSockets) IN
    /\ pc = "accept" /\ listening /\ c \in Incoming \ used
    /\ pc' = "timers" /\ listening' = FALSE
    /\ used' = used \cup {c} /\ list' = <<c>> \o list
    /\ conn' = [conn EXCEPT ![c] = NewConnection(socket, TRUE)]
    /\ link' = [link EXCEPT ![c] = NewLink(IF socket = NoSocket THEN "none" ELSE "up")]
    /\ knocking' = (socket = NoSocket /\ Incoming \ used # {c})
    /\ UNCHANGED <<timers, cursor, rset, wset>>

AcceptNothing ==
    /\ pc = "accept" /\ ~listening
    /\ pc' = "timers"
    /\ UNCHANGED <<list, used, conn, timers, cursor, snapshot, link, knocking>>

\* The first expired timer of the list: restart_connection_callback, which
\* closes a socket that is there, and the timer is deleted.
Expired == {i \in DOMAIN timers : timers[i].expired}
RestartConnection ==
    LET i == Min(Expired)
        c == timers[i].conn
        socket == NewSocket(c)
    IN
    /\ pc = "timers" /\ Expired # {}
    /\ conn' = [conn EXCEPT ![c].waiting = FALSE, ![c].socket = socket,
                            ![c].handed = <<>>]
    /\ link' = [link EXCEPT ![c] = LinkFor(socket)]
    /\ timers' = RemoveAt(timers, i)
    /\ UNCHANGED <<list, used, pc, cursor, snapshot, knocking>>

EndOfCycle ==
    /\ pc = "timers" /\ Expired = {}
    /\ pc' = "idle"
    /\ UNCHANGED <<list, used, conn, timers, cursor, snapshot, link, knocking>>

Cycle ==
    \/ Select \/ EndOfWalk \/ AcceptNothing \/ RestartConnection \/ EndOfCycle
    \/ \E c \in Connections :
        Pass(c) \/ FinishConnect(c) \/ Write(c) \/ Read(c) \/ Accept(c)

-----------------------------------------------------------------------------
(* The other ends and the time. *)

Knock ==
    /\ ~knocking /\ ~(Incoming \subseteq used) /\ knocking' = TRUE
    /\ UNCHANGED <<list, used, conn, timers, pc, cursor, snapshot, link>>

ConnectEnds(c) ==
    /\ link[c].state = "connecting"
    /\ \E state \in {"up", "refused"} : link' = [link EXCEPT ![c].state = state]

PeerSends(c) ==
    /\ link[c].state = "up" /\ Len(link[c].sent) < MaxSent
    /\ \E b \in PeerBytes :
        link' = [link EXCEPT ![c].sent = Append(@, b), ![c].wire = Append(@, b)]

PeerReceives(c) ==
    /\ link[c].state = "up" /\ link[c].way # <<>>
    /\ link' = [link EXCEPT ![c].got = Append(@, Head(link[c].way)), ![c].way = Tail(@)]

PeerCloses(c) ==
    /\ link[c].state = "up" /\ link' = [link EXCEPT ![c].state = "closed"]

Peer(c) ==
    /\ ConnectEnds(c) \/ PeerSends(c) \/ PeerReceives(c) \/ PeerCloses(c)
    /\ UNCHANGED <<list, used, conn, timers, pc, cursor, snapshot, knocking>>

\* A second goes by for the oldest timer that has not expired.
Second ==
    /\ \E i \in DOMAIN timers :
        /\ ~timers[i].expired /\ \A j \in i + 1 .. Len(timers) : timers[j].expired
        /\ timers' = [timers EXCEPT ![i].expired = TRUE]
    /\ UNCHANGED <<list, used, conn, pc, cursor, snapshot, link, knocking>>

Next ==
    \/ Cycle \/ Broadcast \/ Knock \/ Second
    \/ \E c \in Connections : AddConnection(c) \/ Peer(c)

\* The main thread calls server_cycle for ever, time goes by, and a connect
\* ends some time, one way or the other.
Fairness ==
    /\ WF_vars(Cycle) /\ WF_vars(Second)
    /\ \A c \in Connections :
        WF_vars(ConnectEnds(c) /\ UNCHANGED <<list, used, conn, timers, pc, cursor,
                                              snapshot, knocking>>)

Spec == Init /\ [][Next]_vars /\ Fairness
=============================================================================
