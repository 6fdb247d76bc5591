----------------------------- MODULE WebGateway -----------------------------
(***************************************************************************)
(* webfast.py, which shows the daemon to web browsers: FastProtocol, one   *)
(* connection to the daemon after the other, and the pages of WebFast.     *)
(*                                                                         *)
(* The daemon is what the gateway sees of it: frames, some of its commands *)
(* and their answers, and the flux that it broadcasts.  Both ways are      *)
(* streams.  A line arrives as one unit, since a part of one just waits in *)
(* the buffer; a picture arrives as Length units, and data are cut         *)
(* anywhere.  A picture is told by its frame, or by the last of its sum.   *)
(* The LoopingCall of a lost connection goes on for ever, writing into a   *)
(* closed transport: it is left out.                                       *)
(***************************************************************************)
EXTENDS Naturals, Sequences

CONSTANTS
    None,            \* no picture yet
    Length,          \* of a picture, not 0
    MaxSeries,       \* 100000 points of the flux are kept
    MaxFrames,       \* bound: frames of the daemon
    MaxPending,      \* bound: nothing is asked for with more than that on the wire
    MaxConnections   \* bound: connections, one after the other

VARIABLES
    acquisition, nframes, total, \* the daemon: is_acquisition, the number of the
                                 \* latest frame, is there a cumulative image?
    connected, connections,      \* is there a connection, and the how manieth?
    requests,    \* on their way to the daemon
    wire,        \* on its way to the gateway
    protocol,    \* the fields of FastProtocol
    object       \* those of Fast, for the pages

daemon == <<acquisition, nframes, total>>
vars == <<daemon, connected, connections, requests, wire, protocol, object>>

Unit(name, value) == [name |-> name, value |-> value]
Picture(name, value) == [i \in 1 .. Length |-> Unit(name, value)]

NewProtocol ==
    [buffer |-> <<>>, is_binary |-> FALSE, type |-> None,
     wait_current |-> FALSE, wait_total |-> FALSE]
NewObject == [image |-> None, total_image |-> None, series |-> <<>>]

Init ==
    /\ acquisition = FALSE /\ nframes = 0 /\ total = FALSE
    /\ connected = FALSE /\ connections = 0 /\ requests = <<>> /\ wire = <<>>
    /\ protocol = NewProtocol /\ object = NewObject

-----------------------------------------------------------------------------
(* FastProtocol *)

\* requestStatus: no picture is asked for while one is waited for.
Asked(p) ==
    <<"get_status">> \o (IF p.wait_current THEN <<>> ELSE <<"get_current_frame">>)
                     \o (IF p.wait_total THEN <<>> ELSE <<"get_total_frame">>)
Waiting(p) == [p EXCEPT !.wait_current = TRUE, !.wait_total = TRUE]

\* connectionMade, with the first call of requestStatus.
Connect ==
    /\ ~connected /\ connections < MaxConnections
    /\ connected' = TRUE /\ connections' = connections + 1
    /\ protocol' = Waiting(NewProtocol) /\ requests' = Asked(NewProtocol)
    /\ object' = NewObject
    /\ UNCHANGED <<daemon, wire>>

\* connectionLost, with all that is on its way.
Lose ==
    /\ connected /\ connected' = FALSE
    /\ requests' = <<>> /\ wire' = <<>> /\ object' = NewObject
    /\ UNCHANGED <<daemon, connections, protocol>>

\* A second has gone by.
RequestStatus ==
    /\ connected /\ requests = <<>> /\ Len(wire) <= MaxPending
    /\ requests' = Asked(protocol) /\ protocol' = Waiting(protocol)
    /\ UNCHANGED <<daemon, connected, connections, wire, object>>

\* processMessage; the protocol and the object are fields of s.
MutatedProcessMessage(s, m) ==                 \* waits also after a timeout
    CASE m.name = "current_frame" ->
            [s EXCEPT !.p.wait_current = FALSE, !.p.is_binary = TRUE, !.p.type = "current"]
      [] m.name = "total_frame" ->
            [s EXCEPT !.p.wait_total = FALSE, !.p.is_binary = TRUE, !.p.type = "total"]
      [] OTHER -> s

ProcessMessage(s, m) ==
    CASE m.name = "current_frame" ->
            [s EXCEPT !.p.wait_current = FALSE, !.p.is_binary = TRUE, !.p.type = "current"]
      [] m.name = "current_frame_timeout" -> [s EXCEPT !.p.wait_current = FALSE]
      [] m.name = "total_frame" ->
            [s EXCEPT !.p.wait_total = FALSE, !.p.is_binary = TRUE, !.p.type = "total"]
      [] m.name = "total_frame_timeout" -> [s EXCEPT !.p.wait_total = FALSE]
      [] m.name = "status" -> [s EXCEPT !.o.series = IF m.value = 0 THEN <<>> ELSE @]
      [] m.name = "current_flux" ->
            [s EXCEPT !.o.series = Append(IF Len(@) > MaxSeries THEN <<>> ELSE @, m.value)]
      [] OTHER -> s

\* processBinary
ProcessBinary(s, block) ==
    IF s.p.type = "current" THEN [s EXCEPT !.o.image = block]
    ELSE [s EXCEPT !.o.total_image = block]

\* dataReceived, one unit after the other.
MutatedComplete(buffer) == TRUE                \* whatever has arrived
Complete(buffer) == Len(buffer) = Length
Received(s, unit) ==
    IF ~s.p.is_binary THEN ProcessMessage(s, unit)
    ELSE LET block == Append(s.p.buffer, unit)
         IN  IF Complete(block)
             THEN [ProcessBinary(s, block) EXCEPT !.p.buffer = <<>>, !.p.is_binary = FALSE]
             ELSE [s EXCEPT !.p.buffer = block]

\* What has become of both after that many units.
AfterUnits[n \in 0 .. Len(wire)] ==
    IF n = 0 THEN [p |-> protocol, o |-> object] ELSE Received(AfterUnits[n - 1], wire[n])

DataReceived ==
    /\ connected /\ wire # <<>>
    /\ \E n \in 1 .. Len(wire) :
        /\ protocol' = AfterUnits[n].p /\ object' = AfterUnits[n].o
        /\ wire' = SubSeq(wire, n + 1, Len(wire))
    /\ UNCHANGED <<daemon, connected, connections, requests>>

-----------------------------------------------------------------------------
(* WebFast *)

\* What a page shows.  A plot of the whole series needs a first point, that
\* of its end does not.
Page(path) ==
    CASE path = "image.jpg" -> IF object.image = None THEN "No images" ELSE object.image
      [] path = "total_image.jpg" ->
            IF object.total_image = None THEN "No images" ELSE object.total_image
      [] path = "total_flux.jpg" -> IF object.series = <<>> THEN "IndexError" ELSE object.series
      [] path = "current_flux.jpg" -> object.series

\* The page "command", which passes its argument on.
Command(command) ==
    /\ connected /\ requests = <<>> /\ Len(wire) <= MaxPending
    /\ requests' = <<command>>
    /\ UNCHANGED <<daemon, connected, connections, wire, protocol, object>>

-----------------------------------------------------------------------------
(* The daemon, as fast.c has it; its grabber obeys at once. *)

\* process_image: a frame, and its flux to all who are connected.
NewFrame ==
    /\ acquisition /\ nframes < MaxFrames
    /\ nframes' = nframes + 1 /\ total' = TRUE
    /\ wire' = IF connected THEN Append(wire, Unit("current_flux", nframes + 1)) ELSE wire
    /\ UNCHANGED <<acquisition, connected, connections, requests, protocol, object>>

\* process_command.
Answer(request) ==
    CASE request = "get_status" -> <<Unit("status", IF acquisition THEN 1 ELSE 0)>>
      [] request = "get_current_frame" ->
            IF nframes = 0 \/ ~acquisition THEN <<Unit("current_frame_timeout", 0)>>
            ELSE <<Unit("current_frame", nframes)>> \o Picture("current", nframes)
                     \o <<Unit("current_frame_done", 0)>>
      [] request = "get_total_frame" ->
            IF ~total \/ ~acquisition THEN <<Unit("total_frame_timeout", 0)>>
            ELSE <<Unit("total_frame", nframes)>> \o Picture("total", nframes)
                     \o <<Unit("total_frame_done", 0)>>
      [] OTHER -> <<>>

ProcessCommand ==
    LET request == Head(requests) IN
    /\ connected /\ requests # <<>>
    /\ requests' = Tail(requests) /\ wire' = wire \o Answer(request)
    /\ acquisition' = (request = "start" \/ (acquisition /\ request # "stop"))
    /\ total' = (total /\ request # "start")
    /\ UNCHANGED <<nframes, connected, connections, protocol, object>>

Next ==
    \/ Connect \/ Lose \/ RequestStatus \/ DataReceived
    \/ NewFrame \/ ProcessCommand
    \/ \E command \in {"start", "stop"} : Command(command)

\* The daemon goes round, and the gateway's reactor does.
Fairness == WF_vars(ProcessCommand) /\ WF_vars(DataReceived)

Spec == Init /\ [][Next]_vars /\ Fairness

-----------------------------------------------------------------------------
InWire(name) == {i \in DOMAIN wire : wire[i].name = name}

\* What the pages show is whole and of its kind, however the stream is cut
\* and in whatever order pictures, timeouts and fluxes are mixed in it: a
\* picture is one picture of one frame, never another or a part of a line;
\* those under way are no older; and the plotted series has every frame from
\* its first on, once, through stops, starts and lost connections
\* (webfast.py:69-89, 140-187).
PagesAreTrue ==
    /\ \A kind \in {"current", "total"} :
        LET page == Page(IF kind = "current" THEN "image.jpg" ELSE "total_image.jpg")
        IN  page # "No images" =>
                \E n \in 1 .. nframes :
                    /\ page = Picture(kind, n)
                    /\ \A i \in InWire(kind) : n <= wire[i].value
    /\ LET series == Page("current_flux.jpg")
       IN  \A i \in DOMAIN series : series[i] = series[1] + i - 1

\* While a picture is waited for, its request, or the answer to it, is under
\* way, or the connection is lost: the gateway, which does not ask again, is
\* not left waiting (webfast.py:126-163); and the answer comes.
AnswersCome ==
    /\ protocol.wait_current ~> ~protocol.wait_current \/ ~connected
    /\ protocol.wait_total ~> ~protocol.wait_total \/ ~connected
=============================================================================
