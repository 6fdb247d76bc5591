------------------------------- MODULE Parts -------------------------------
(***************************************************************************)
(* The parts of the repository that know nothing of each other: each       *)
(* behaviour is one of one part, a camera driver or a module of the        *)
(* daemon's library, and the variables of the others keep their first      *)
(* values.  The driver of the GXCCD cameras, for which the Makefile builds *)
(* the daemon, is the one that is EXTENDed.  The parser of commands is     *)
(* taken with the classes of characters, all have the parameters below.    *)
(***************************************************************************)
EXTENDS GxccdCamera, Sequences, FiniteSets

CONSTANTS
    Binnings,                        \* of a PVCAM and an Andor camera
    Addresses, AndorBinnings, RingSize, MaxFaults,          \* see AndorBuffers
    Areas, ValidAreas, FullArea, MaxFrames,                 \* see Andor2Camera
    MaxMemory, MaxRefusals,                                 \* see PvcamCamera
    Names, Connections, Timeouts, MaxCommands, MaxTime,     \* see CommandQueue
    DayLength, Million, Thousand, Zone, Deltas, LastSecond, \* see LocalClock
    LineLength,                                             \* see CommandParse
    ParameterNames, PatternLists, MaxTokens,                \* see CommandArgs
    PictureLength, MaxSeries, MaxPictures, MaxPending,
    MaxConnections,                                         \* see WebGateway
    FirstYear, LastYear, MorningHour                        \* see Calendar

ASSUME PartsAssumption ==
    /\ AndorBinnings \subseteq Nat /\ AndorBinnings # {} /\ RingSize \in Nat \ {0}
    /\ None \notin Binnings /\ None \notin Areas /\ None \notin Connections
    /\ {DayLength, Million, Thousand} \subseteq Nat \ {0} /\ Million % Thousand = 0
    /\ Zone \in Int /\ Deltas \subseteq Int \X (0 .. Million - 1)
    /\ PatternLists \subseteq Seq(ParameterNames \cup {None})
    /\ PictureLength \in Nat \ {0}
    /\ FirstYear \in Nat /\ LastYear \in Nat /\ FirstYear >= 1583 /\ LastYear <= 9999
    /\ FirstYear <= LastYear

VARIABLES
    part,
    binning, acquiring, heap, chunks, queue, filled, adding, faults, freedTwice, shot,
    commands_sent, command, now, walk, open, remote, wire, outcome,
    date, hour, clock, timer, string, tokens, patterns,
    kind, param, time, bin, known, running, image, circular_buffer, stream, memory,
    allocated, refusals, taken,
    delay, area, factor, setting, active, frames, acquired, fetched,
    acquisition, nframes, total, connected, connections, requests, network, protocol, object

andorVars == <<binning, acquiring, heap, chunks, queue, filled, adding, faults, freedTwice, shot>>
commandVars == <<commands_sent, command, now, walk, open, remote, wire, outcome>>
calendarVars == <<date, hour>>
clockVars == <<clock, timer>>
argsVars == <<tokens, patterns>>
pvcamVars ==
    <<kind, param, time, bin, known, running, image, circular_buffer, stream, memory,
      allocated, refusals, taken>>
andor2Vars == <<delay, area, factor, setting, active, frames, acquired, fetched>>
webVars ==
    <<acquisition, nframes, total, connected, connections, requests, network, protocol, object>>

Andor == INSTANCE AndorBuffers WITH
    frame <- shot, NoFrame <- None, Binnings <- AndorBinnings

Commanded == INSTANCE CommandQueue WITH device <- remote, NoConnection <- None

\* The years of the Gregorian calendar that have four digits.
Cal == INSTANCE Calendar

\* A zone without summer time.
Clock == INSTANCE LocalClock WITH
    now <- clock, DstStart <- 0, DstEnd <- 0, DstShift <- 1, MaxTime <- LastSecond

Parser == INSTANCE CommandParse WITH
    Letter <- "x", Equals <- "=", Quote <- "'", DoubleQuote <- "\"", Space <- " ",
    Other <- "~", MaxLength <- LineLength, Alphabet <- {"x", "=", "'", "\"", " ", "~"}

Arguments == INSTANCE CommandArgs WITH NoName <- None, Names <- ParameterNames

Pvcam == INSTANCE PvcamCamera WITH
    exposure <- time, binning <- bin, is_acquiring <- running, heap <- memory, frame <- taken

Andor2 == INSTANCE Andor2Camera WITH
    exposure <- delay, binning <- factor, acquiring <- active, frame <- fetched

Web == INSTANCE WebGateway WITH
    wire <- network, Length <- PictureLength, MaxFrames <- MaxPictures

\* The variables of a part begin in any of its states, those of the others in
\* one that does not matter.
PartNames ==
    {"GXCCD", "ANDOR", "ANDOR2", "PVCAM", "commands", "calendar", "clock", "parser",
     "arguments", "web"}
PartInit ==
    /\ part \in PartNames
    /\ Init /\ Andor!Init /\ Commanded!Init /\ Cal!Init /\ Clock!Init /\ Parser!Init
    /\ Arguments!Init /\ Pvcam!Init /\ Andor2!Init /\ Web!Init
    /\ part # "GXCCD" => plugged /\ exposure = (CHOOSE e \in Exposures : TRUE)
    /\ part # "ANDOR" => binning = (CHOOSE b \in AndorBinnings : TRUE)
    /\ part # "ANDOR2" => delay = (CHOOSE e \in Exposures : TRUE)
    /\ part # "PVCAM" =>
        kind = "circular" /\ param = DefaultValue /\ time = (CHOOSE e \in Exposures : TRUE)
    /\ part # "arguments" => patterns = (CHOOSE p \in PatternLists : TRUE)

Others(p) ==
    /\ p # "GXCCD" => UNCHANGED vars
    /\ p # "ANDOR" => UNCHANGED andorVars
    /\ p # "ANDOR2" => UNCHANGED andor2Vars
    /\ p # "PVCAM" => UNCHANGED pvcamVars
    /\ p # "commands" => UNCHANGED commandVars
    /\ p # "calendar" => UNCHANGED calendarVars
    /\ p # "clock" => UNCHANGED clockVars
    /\ p # "parser" => UNCHANGED string
    /\ p # "arguments" => UNCHANGED argsVars
    /\ p # "web" => UNCHANGED webVars
PartNext ==
    /\ UNCHANGED part
    /\ \/ part = "GXCCD" /\ Next
       \/ part = "ANDOR" /\ Andor!Next
       \/ part = "ANDOR2" /\ Andor2!Next
       \/ part = "PVCAM" /\ Pvcam!Next
       \/ part = "commands" /\ Commanded!Next
       \/ part = "calendar" /\ Cal!Next
       \/ part = "clock" /\ Clock!Next
       \/ part = "parser" /\ Parser!Next
       \/ part = "arguments" /\ Arguments!Next
       \/ part = "web" /\ Web!Next
    /\ Others(part)
PartVars ==
    <<part, vars, andorVars, commandVars, calendarVars, clockVars, string, argsVars,
      pvcamVars, andor2Vars, webVars>>
\* Fairness, and that of Web, for the one part that does something: what the
\* others could do stays possible for ever.
PartFairness ==
    /\ WF_vars(part = "GXCCD" /\ WaitImage)
    /\ WF_vars(part = "GXCCD" /\ Tick)
    /\ WF_vars(part = "GXCCD" /\ ExposureEnds)
    /\ WF_webVars(part = "web" /\ Web!ProcessCommand)
    /\ WF_webVars(part = "web" /\ Web!DataReceived)
PartSpec == PartInit /\ [][PartNext]_PartVars /\ PartFairness

\* See AndorBuffers (grabber_andor.c:366-403) and PvcamCamera
\* (grabber_pvcam.c:404-470).
BuffersAreKept == Andor!RingIsKept /\ Pvcam!MemoryIsKept
\* See AndorBuffers (grabber_andor.c:470), Andor2Camera
\* (grabber_andor2.c:261-333) and PvcamCamera (grabber_pvcam.c:533-572).
FramesTellTheirSettings ==
    Andor!FramesTellTheirBinning /\ Andor2!FramesTellTheirSettings
    /\ Pvcam!FramesTellTheirSettings
\* See CommandQueue (command_queue.c:77-222, 160, 201, 208).
OneOutcome ==
    part = "commands" =>
        Commanded!OneOutcome /\ Commanded!NoLostConnection /\ Commanded!WalkOnList
\* See CommandQueue (command_queue.c:201).
NoneSkipped == Commanded!NoneSkipped
\* See Calendar (time_str.c:130, 232, 331, 492).
DatesAreRight == part = "calendar" => Cal!DatesAreRight
\* See LocalClock (time_str.c:302, server.c:688).
TimesAreExact == part = "clock" => Clock!TimesAreExact
\* See CommandParse (command.c:75-123, 172-189).
LinesAreTokens == part = "parser" => Parser!LinesAreTokens
\* See CommandArgs (command.c:302, 345-370).
ParametersFindTheirArguments == part = "arguments" => Arguments!ParametersFindTheirArguments
\* See WebGateway (webfast.py:69-89, 140-187).
PagesAreTrue == part = "web" => Web!PagesAreTrue
\* See WebGateway (webfast.py:126-163).
AnswersCome == Web!AnswersCome
=============================================================================
