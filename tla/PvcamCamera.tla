----------------------------- MODULE PvcamCamera -----------------------------
(***************************************************************************)
(* The driver grabber_pvcam.c under grabber_worker of fast_grabber.c: the  *)
(* memory into which a camera writes, and the settings that frames are     *)
(* labelled with.                                                          *)
(*                                                                         *)
(* A camera has a circular buffer, takes one exposure at a time, or is     *)
(* simulated when there is none.  Of the parameters that are set in the    *)
(* camera there is one, and memory is told by its address; an address is   *)
(* never given out twice, so that what was freed stays known.              *)
(***************************************************************************)
EXTENDS Naturals, FiniteSets

CONSTANTS
    None,        \* NULL, and an option that a command does not have
    Exposures,   \* exposure times
    Binnings,    \* positive: with 0 the next start divides by it
    Values,      \* values of a parameter
    MaxMemory,   \* bound: how often memory is allocated
    MaxRefusals  \* bound: how often the library refuses something

VARIABLES
    kind,        \* is_circular and is_simcam: "circular", "sequence" or "simulated"
    param,       \* a parameter in the camera
    exposure, binning, known, \* fields of the driver; known: the parameter as read last
    is_acquiring, image, circular_buffer, \* fields of the driver
    stream,      \* where the camera writes, and what
    heap, allocated, \* memory in use, and how much of it there ever was
    refusals,    \* how often the library refused something
    frame        \* history: the last frame

fields == <<exposure, binning, known, is_acquiring, image, circular_buffer>>
vars == <<kind, param, fields, stream, heap, allocated, refusals, frame>>

NoStream == [on |-> FALSE, buffer |-> None, binning |-> None, exposure |-> None, param |-> None]
StreamTo(buffer) ==
    [on |-> TRUE, buffer |-> buffer, binning |-> binning, exposure |-> exposure, param |-> param]

Accept == refusals' = refusals
Refuse == refusals < MaxRefusals /\ refusals' = refusals + 1

\* get_pvcam_param, which is taken to succeed: 0 without a camera.
GetParam == IF kind = "simulated" THEN 0 ELSE param

\* grabber_update_params(grabber, TRUE); a simulated camera reads nothing.
UpdateParams == known' = IF kind = "simulated" THEN known ELSE GetParam

\* grabber_create, and the stop with which grabber_worker begins.
Init ==
    /\ kind \in {"circular", "sequence", "simulated"}
    /\ param \in Values /\ known = GetParam
    /\ exposure \in Exposures /\ binning = 1
    /\ is_acquiring = FALSE /\ image = None /\ circular_buffer = None
    /\ stream = NoStream /\ heap = {} /\ allocated = 0 /\ refusals = 0 /\ frame = None

-----------------------------------------------------------------------------
(* The messages of grabber_worker. *)

\* FAST_MSG_START: grabber_acquisition_start.  What was allocated by an
\* earlier start that was not followed by a stop is forgotten.
Allocated(n) == allocated' = allocated + n /\ allocated + n <= MaxMemory
Picture(a) == [at |-> a, binning |-> binning]

\* A camera with a circular buffer begins to fill it.
StartCircular ==
    /\ kind = "circular"
    /\ image' = Picture(allocated + 1) /\ circular_buffer' = allocated + 2
    /\ stream' = StreamTo(allocated + 2)
    /\ heap' = heap \cup {allocated + 1, allocated + 2} /\ Allocated(2)
    /\ is_acquiring' = TRUE /\ Accept

\* The others write when an image is waited for.
StartOther ==
    /\ kind # "circular"
    /\ image' = Picture(allocated + 1) /\ heap' = heap \cup {allocated + 1} /\ Allocated(1)
    /\ is_acquiring' = TRUE /\ Accept
    /\ UNCHANGED <<circular_buffer, stream>>

\* "Incorrect size!": the setup was refused, and size is still 0.
StartRefused ==
    /\ kind # "simulated" /\ Refuse
    /\ image' = Picture(allocated + 1)
    /\ IF kind = "circular"
       THEN circular_buffer' = allocated + 2 /\ Allocated(2)
            /\ heap' = heap \cup {allocated + 1, allocated + 2}
       ELSE UNCHANGED circular_buffer /\ Allocated(1) /\ heap' = heap \cup {allocated + 1}
    /\ is_acquiring' = FALSE
    /\ UNCHANGED stream

Start ==
    /\ StartCircular \/ StartOther \/ StartRefused
    /\ UpdateParams
    /\ UNCHANGED <<kind, param, exposure, binning, frame>>

\* grabber_acquisition_stop: the camera is halted before its memory is freed.
\* The definitions named Mutated... are mistakes to be noticed: see QueueOps.
MutatedHalt == UNCHANGED stream                \* freed under the camera

Halt == stream' = IF kind = "circular" THEN NoStream ELSE stream
AcquisitionStop ==
    IF is_acquiring
    THEN /\ Halt
         /\ heap' = heap \ {image.at, circular_buffer}
         /\ image' = None /\ circular_buffer' = None /\ is_acquiring' = FALSE
    ELSE UNCHANGED <<stream, heap, image, circular_buffer, is_acquiring>>

\* FAST_MSG_STOP
Stop ==
    /\ AcquisitionStop /\ UpdateParams
    /\ UNCHANGED <<kind, param, exposure, binning, allocated, refusals, frame>>

\* set_pvcam_param: a parameter that is not there or cannot be written stays.
SetParam(value) ==
    IF kind = "simulated" THEN param' = param /\ Accept
    ELSE \/ param' = value /\ Accept
         \/ param' = param /\ Refuse

\* FAST_MSG_COMMAND: process_grabber_command, which stops the acquisition and
\* does not start it again.
Command(e, b, value) ==
    /\ AcquisitionStop
    /\ exposure' = IF e = None THEN exposure ELSE e
    /\ binning' = IF b = None THEN binning ELSE b
    /\ IF value = None THEN UNCHANGED param /\ Accept ELSE SetParam(value)
    /\ known' = IF kind # "simulated" THEN param' ELSE IF value = None THEN known ELSE value
    /\ UNCHANGED <<kind, allocated, frame>>

Commands ==
    \E e \in Exposures \cup {None}, b \in Binnings \cup {None}, value \in Values \cup {None} :
        Command(e, b, value)

-----------------------------------------------------------------------------
(* grabber_wait_image *)

\* A frame, with the keywords of now.
FrameOf(s, size) ==
    [EXPOSURE |-> exposure, BINNING |-> binning, MGAIN |-> known, size |-> size, taken |-> s]

\* Nothing is acquired, or not yet.
NoImage ==
    /\ ~is_acquiring \/ kind = "circular"
    /\ IF is_acquiring THEN UNCHANGED known ELSE UpdateParams
    /\ UNCHANGED <<kind, param, exposure, binning, is_acquiring, image, circular_buffer, stream,
                   heap, allocated, refusals, frame>>

\* A copy out of the circular buffer.
CopyImage ==
    /\ is_acquiring /\ kind = "circular"
    /\ frame' = FrameOf(stream, image.binning)
    /\ UNCHANGED <<kind, param, fields, stream, heap, allocated, refusals>>

\* One exposure, to the end or to an error; the image is handed over, and
\* another takes its place.
TakeImage ==
    /\ is_acquiring /\ kind = "sequence"
    /\ \/ /\ frame' = FrameOf(StreamTo(image.at), image.binning)
          /\ image' = [image EXCEPT !.at = allocated + 1]
          /\ heap' = (heap \ {image.at}) \cup {allocated + 1} /\ Allocated(1) /\ Accept
       \/ Refuse /\ UNCHANGED <<frame, image, heap, allocated>>
    /\ UNCHANGED <<kind, param, exposure, binning, known, is_acquiring, circular_buffer, stream>>

\* A simulated image.
MakeImage ==
    /\ is_acquiring /\ kind = "simulated"
    /\ frame' = FrameOf([StreamTo(image.at) EXCEPT !.param = known], image.binning)
    /\ UNCHANGED <<kind, param, fields, stream, heap, allocated, refusals>>

Next ==
    \/ Start \/ Stop \/ Commands
    \/ NoImage \/ CopyImage \/ TakeImage \/ MakeImage

Spec == Init /\ [][Next]_vars

-----------------------------------------------------------------------------
\* The camera writes into memory that is in use, also after a start was
\* refused or followed another start, and what acquisition needs is there
\* (grabber_pvcam.c:404-470).
MemoryIsKept ==
    /\ stream.on => stream.buffer \in heap
    /\ is_acquiring => image.at \in heap /\ (kind = "circular" => circular_buffer \in heap)
    /\ is_acquiring /\ kind = "circular" => stream.on /\ stream.buffer = circular_buffer

\* A frame has the size that the camera writes and tells the settings that it
\* was taken with, whatever was set, refused or started in between
\* (fast_grabber.c:43, grabber_pvcam.c:533-572).
FramesTellTheirSettings ==
    frame # None =>
        /\ frame.size = frame.taken.binning /\ frame.BINNING = frame.taken.binning
        /\ frame.EXPOSURE = frame.taken.exposure /\ frame.MGAIN = frame.taken.param
=============================================================================
