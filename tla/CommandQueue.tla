---------------------------- MODULE CommandQueue ----------------------------
(***************************************************************************)
(* command_queue.c: the commands that were sent to some device and wait    *)
(* for its answer, with the device at the other end.  The names of         *)
(* commands are all that an answer and the queue have in common.           *)
(*                                                                         *)
(* The walk of command_queue_check calls the timeout callback of the user  *)
(* between its steps, and the user may then change the list.  What it must *)
(* not do there is to remove the command it is told about, which the walk  *)
(* frees itself: the guard Spared.  Prefixes are left out.                 *)
(*                                                                         *)
(* A command is the number of its sending, and it is added to the tail of  *)
(* the list: commands_sent is the set of the numbers in the list, which    *)
(* are in their order there.                                               *)
(***************************************************************************)
EXTENDS Naturals, Sequences, FiniteSets

CONSTANTS
    Names,        \* names of commands
    Connections,  \* clients to which answers are passed
    NoConnection, \* NULL: answers go to the handler
    Timeouts,     \* the timeouts of commands
    MaxCommands,  \* bound: how many commands are sent
    MaxTime       \* bound: the clock stops there

VARIABLES
    commands_sent, \* the list, as the set of the commands in it
    command,       \* the fields of each command
    now,           \* time_current()
    walk,          \* the local variables of command_queue_check
    open,          \* connections that are open
    device,        \* commands that the device is working on
    wire,          \* answers on their way from the device, in order
    outcome        \* history: what was reported of each command

vars == <<commands_sent, command, now, walk, open, device, wire, outcome>>

Sent == DOMAIN command
ListHead == 0
NoWalk == [active |-> FALSE, calling |-> FALSE, time |-> 0, cursor |-> ListHead]

Init ==
    /\ commands_sent = {} /\ command = <<>> /\ now = 0 /\ walk = NoWalk
    /\ open = Connections /\ device = {} /\ wire = <<>> /\ outcome = <<>>

\* e->next and e->prev in the list, a ring through its head.
Later(e) == {n \in commands_sent : n > e}
Earlier(e) == {n \in commands_sent : n < e}
After(e) == IF Later(e) = {} THEN ListHead
            ELSE CHOOSE n \in Later(e) : \A m \in Later(e) : n <= m
Before(e) == IF Earlier(e) = {} THEN ListHead
             ELSE CHOOSE n \in Earlier(e) : \A m \in Earlier(e) : m <= n

\* The user's code runs: not inside of command_queue_check, or called by it.
UserRuns == ~walk.active \/ walk.calling

\* The commands of a set may be removed now.
Spared(set) == walk.calling => walk.cursor \notin set

\* A message "name_kind" for each command of a set.
Report(set, kind) ==
    [n \in Sent |-> IF n \in set THEN Append(outcome[n], kind) ELSE outcome[n]]

\* The definitions named Mutated... are mistakes to be noticed: see QueueOps.
MutatedWithout(set) == IF set = {} THEN commands_sent
                       ELSE commands_sent \ {CHOOSE n \in set : TRUE} \* break

Without(set) == commands_sent \ set
Named(name) == {n \in commands_sent : command[n].name = name}
Of(connection) == {n \in commands_sent : command[n].connection = connection}

-----------------------------------------------------------------------------
\* command_queue_add, with the command on its way to the device.
Add(connection, name, timeout) ==
    /\ UserRuns /\ Len(command) < MaxCommands
    /\ connection \in open \cup {NoConnection}
    /\ command' = Append(command, [name |-> name, connection |-> connection,
                                   time |-> now, timeout |-> timeout])
    /\ commands_sent' = commands_sent \cup {Len(command')}
    /\ outcome' = Append(outcome, <<>>)
    /\ device' = device \cup {Len(command')}
    /\ UNCHANGED <<now, walk, open, wire>>

\* command_queue_done and command_queue_failure, called with the oldest
\* answer of the device: every command of the name is answered by it.
Answered ==
    LET answer == Head(wire)
        set == Named(answer.name)
    IN
    /\ ~walk.active /\ wire # <<>>
    /\ commands_sent' = Without(set)
    /\ outcome' = Report(set, answer.kind)
    /\ wire' = Tail(wire)
    /\ UNCHANGED <<command, now, walk, open, device>>

\* command_queue_failure, without an answer: the user gives a command up.
Failure(name) ==
    LET set == Named(name) IN
    /\ UserRuns /\ set # {} /\ Spared(set)
    /\ commands_sent' = Without(set)
    /\ outcome' = Report(set, "failure")
    /\ UNCHANGED <<command, now, walk, open, device, wire>>

\* command_queue_remove.
RemoveNamed(name) ==
    LET set == Named(name) IN
    /\ UserRuns /\ set # {} /\ Spared(set)
    /\ commands_sent' = Without(set)
    /\ outcome' = Report(set, "removed")
    /\ UNCHANGED <<command, now, walk, open, device, wire>>

\* command_queue_remove_with_connection, in the hook of a lost connection.
RemoveWithConnection(connection) ==
    LET set == Of(connection) IN
    /\ ~walk.active /\ connection \in open
    /\ open' = open \ {connection}
    /\ commands_sent' = Without(set)
    /\ outcome' = Report(set, "removed")
    /\ UNCHANGED <<command, now, walk, device, wire>>

-----------------------------------------------------------------------------
(* command_queue_check *)

Expired(n) == walk.time - command[n].time > command[n].timeout

Check ==
    /\ ~walk.active
    /\ walk' = [NoWalk EXCEPT !.active = TRUE, !.time = now]
    /\ UNCHANGED <<commands_sent, command, now, open, device, wire, outcome>>

\* The next command has not expired.
CheckPass ==
    LET n == After(walk.cursor) IN
    /\ walk.active /\ ~walk.calling /\ n # ListHead /\ ~Expired(n)
    /\ walk' = [walk EXCEPT !.cursor = n]
    /\ UNCHANGED <<commands_sent, command, now, open, device, wire, outcome>>

\* The next command has expired: the message, and the timeout callback.
CheckTimeout ==
    LET n == After(walk.cursor) IN
    /\ walk.active /\ ~walk.calling /\ n # ListHead /\ Expired(n)
    /\ outcome' = Report({n}, "timeout")
    /\ walk' = [walk EXCEPT !.cursor = n, !.calling = TRUE]
    /\ UNCHANGED <<commands_sent, command, now, open, device, wire>>

MutatedGoOnFrom(n) == After(n)                 \* the one after it is skipped

\* del_from_list_in_foreach_and_run steps back, so that none is skipped.
GoOnFrom(n) == Before(n)

\* The callback returns: the command is removed.
CheckRemove ==
    LET n == walk.cursor IN
    /\ walk.calling
    /\ walk' = [walk EXCEPT !.calling = FALSE, !.cursor = GoOnFrom(n)]
    /\ commands_sent' = commands_sent \ {n}
    /\ UNCHANGED <<command, now, open, device, wire, outcome>>

CheckEnd ==
    /\ walk.active /\ ~walk.calling /\ After(walk.cursor) = ListHead
    /\ walk' = NoWalk
    /\ UNCHANGED <<commands_sent, command, now, open, device, wire, outcome>>

CheckStep == CheckPass \/ CheckTimeout \/ CheckRemove \/ CheckEnd

-----------------------------------------------------------------------------
(* The device and the time. *)

\* The device is through with a command, in any order, or never is.
Finish(n) ==
    /\ n \in device /\ device' = device \ {n}
    /\ \E kind \in {"done", "failure"} :
        wire' = Append(wire, [name |-> command[n].name, kind |-> kind])
    /\ UNCHANGED <<commands_sent, command, now, walk, open, outcome>>

Tick ==
    /\ now < MaxTime /\ now' = now + 1
    /\ UNCHANGED <<commands_sent, command, walk, open, device, wire, outcome>>

Next ==
    \/ \E c \in Connections \cup {NoConnection}, name \in Names, t \in Timeouts :
        Add(c, name, t)
    \/ Answered \/ Check \/ CheckStep \/ Tick
    \/ \E name \in Names : Failure(name) \/ RemoveNamed(name)
    \/ \E c \in Connections : RemoveWithConnection(c)
    \/ \E n \in 1 .. MaxCommands : Finish(n)

\* "Check timeouts, should be called periodically" (command_queue.h:57).
Spec == Init /\ [][Next]_vars

-----------------------------------------------------------------------------
\* The types.
TypeOK ==
    /\ command \in Seq([name : Names, connection : Connections \cup {NoConnection},
                        time : 0 .. MaxTime, timeout : Timeouts])
    /\ Len(command) <= MaxCommands
    /\ commands_sent \subseteq Sent
    /\ now \in 0 .. MaxTime /\ open \subseteq Connections /\ device \subseteq Sent

\* The walk stands on a command of the list or on its head, never on one that
\* was freed, whatever the callback removes (command_queue.c:201).
WalkOnList == walk.cursor \in commands_sent \cup {ListHead}

\* A command waits for its outcome or has exactly one: an answer, a timeout
\* and a removal may race, and none of them reports twice or forgets
\* (command_queue.c:77-222).  The timeout is reported before the removal.
OneOutcome ==
    \A n \in Sent :
        Len(outcome[n]) =
            IF n \in commands_sent /\ ~(walk.calling /\ walk.cursor = n) THEN 0 ELSE 1

\* No command of a lost connection is kept, so that no message goes to a
\* connection that was freed (command_queue.c:160, 208).
NoLostConnection ==
    \A n \in commands_sent : command[n].connection \in open \cup {NoConnection}

\* The walk meets every command that has expired, also those next to one
\* that it removes or that the callback removes (command_queue.c:201).
NoneSkipped ==
    [][CheckEnd => \A n \in commands_sent : ~Expired(n)]_vars
=============================================================================
