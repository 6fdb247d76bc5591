----------------------------- MODULE GxccdCamera -----------------------------
(***************************************************************************)
(* The driver grabber_gxccd.c under grabber_worker of fast_grabber.c: the  *)
(* exposures of a camera on the USB that may be pulled out and plugged in  *)
(* again at any moment.                                                    *)
(*                                                                         *)
(* grabber_worker calls grabber_wait_image in every turn, then handles a   *)
(* message; the calls are actions here, in any order.  gain, fps and the   *)
(* temperatures that are only read from the camera are left out, and       *)
(* "parameter" stands for those that are set in it: binning, read mode,    *)
(* filter, preflash and target temperature.  is_first is always FALSE.     *)
(***************************************************************************)
EXTENDS Integers

CONSTANTS
    None,            \* NULL, and an option that a command does not have
    Exposures,       \* exposure times
    Values,          \* values of a parameter
    DefaultValue,    \* the one that grabber_init_camera sets
    Windows,         \* windows <<x0, y0, width, height>> of set_grabber
    MaxWidth, MaxHeight, \* the chip
    ReconnectDelay   \* 10 s between attempts to connect

ASSUME GxccdAssumption ==
    /\ DefaultValue \in Values
    /\ None \notin {"ok", "lost"}
    /\ None \notin Values /\ None \notin Exposures /\ None \notin Windows
    /\ Windows \subseteq Int \X Int \X Int \X Int
    /\ MaxWidth \in Nat \ {0} /\ MaxHeight \in Nat \ {0}
    /\ ReconnectDelay \in Nat \ {0}

VARIABLES
    plugged,        \* is the camera on the USB?
    camera,         \* grabber->camera: None, or a handle that is "ok" or "lost"
    exposing,       \* the exposure in the camera, and whether it is ready
    device,         \* the parameter in the camera
    is_acquiring, exposure, parameter, window,  \* fields of the driver
    is_acquisition, \* that of fast_str, which clients are told
    waited,         \* time since time_reconnect, up to ReconnectDelay
    frame,          \* history: the last frame
    renewed         \* history: connected again since the last start or stop

settings == <<exposure, parameter, window>>
vars == <<plugged, camera, exposing, device, is_acquiring, settings, is_acquisition,
          waited, frame, renewed>>

FullWindow == <<0, 0, MaxWidth, MaxHeight>>
Shape(w) == <<w[3], w[4]>>

NoExposure == [on |-> FALSE, ready |-> FALSE, time |-> None, window |-> None]
NewExposure(time, w) == [on |-> TRUE, ready |-> FALSE, time |-> time, window |-> w]

\* Does a call get through to the camera?  If so it succeeds, but for the
\* reading of an image.
Works == camera = "ok"

-----------------------------------------------------------------------------
\* grabber_init_camera with the setters it calls, on a camera that is there.
\* is_acquiring stays as it is.
\* The definitions named Mutated... are mistakes to be noticed: see QueueOps.
MutatedInitCamera ==                           \* relies on the last values
    /\ camera' = "ok" /\ exposing' = NoExposure /\ device' = DefaultValue
    /\ UNCHANGED parameter
    /\ window' = FullWindow

InitCamera ==
    /\ camera' = "ok" /\ exposing' = NoExposure
    /\ parameter' = DefaultValue /\ device' = DefaultValue
    /\ window' = FullWindow

\* grabber_create, and the stop with which grabber_worker begins.  Without
\* a camera malloc leaves the parameter and the window as they are.
Init ==
    /\ plugged \in BOOLEAN
    /\ IF plugged THEN camera = "ok" /\ parameter = DefaultValue /\ window = FullWindow
       ELSE camera = None /\ parameter \in Values /\ window \in Windows \cup {FullWindow}
    /\ device = DefaultValue /\ exposing = NoExposure
    /\ exposure \in Exposures
    /\ is_acquiring = FALSE /\ is_acquisition = FALSE
    /\ waited = 0 /\ frame = None /\ renewed = FALSE

-----------------------------------------------------------------------------
(* grabber_wait_image *)

MutatedKeepTime == waited' = 0                 \* set at every look

\* No attempt yet: time_reconnect stays.
KeepTime == UNCHANGED waited

\* The camera is found to be disconnected, and is released; soon after the
\* last attempt nothing else happens.
WaitToReconnect ==
    /\ ~Works /\ waited < ReconnectDelay
    /\ camera' = None
    /\ KeepTime
    /\ UNCHANGED <<plugged, exposing, device, is_acquiring, settings, is_acquisition,
                   frame, renewed>>

TryToReconnect ==
    /\ ~Works /\ waited = ReconnectDelay /\ waited' = 0
    /\ IF plugged THEN InitCamera /\ renewed' = TRUE
       ELSE camera' = None /\ UNCHANGED <<exposing, device, parameter, window, renewed>>
    /\ UNCHANGED <<plugged, is_acquiring, exposure, is_acquisition, frame>>

\* The camera is connected, and no image is ready.
NoImage ==
    /\ Works /\ is_acquiring /\ ~exposing.ready
    /\ UNCHANGED vars

MutatedNextExposure(read) ==                   \* only after a good frame
    exposing' = IF read THEN NewExposure(exposure, window) ELSE NoExposure

\* The next exposure, with the settings of now and a window at the corner of
\* the chip.
NextExposure(read) ==
    exposing' = NewExposure(exposure, <<0, 0, window[3], window[4]>>)

\* An image is ready.  It is read into a buffer for the window of now, which
\* fails when this is not what was exposed; its keywords are those of now.
ReadImage ==
    /\ Works /\ is_acquiring /\ exposing.ready
    /\ \E read \in BOOLEAN :
        /\ frame' = IF read /\ Shape(exposing.window) = Shape(window)
                    THEN [EXPOSURE |-> exposure, exposed |-> exposing.time,
                          window |-> window, taken |-> exposing.window]
                    ELSE frame
        /\ NextExposure(read)
    /\ UNCHANGED <<plugged, camera, device, is_acquiring, settings, is_acquisition,
                   waited, renewed>>

WaitImage == WaitToReconnect \/ TryToReconnect \/ NoImage \/ ReadImage

-----------------------------------------------------------------------------
(* The messages of grabber_worker. *)

\* FAST_MSG_START: grabber_acquisition_start does nothing without a camera.
\* An exposure that is under way may be replaced or go on.
Start ==
    /\ is_acquisition' = TRUE
    /\ IF camera = None THEN UNCHANGED <<exposing, is_acquiring, renewed>>
       ELSE /\ is_acquiring' = TRUE /\ renewed' = FALSE
            /\ \/ Works /\ exposing' = NewExposure(exposure, window)
               \/ (~Works \/ exposing.on) /\ UNCHANGED exposing
    /\ UNCHANGED <<plugged, camera, device, settings, waited, frame>>

MutatedAbort == UNCHANGED exposing             \* is_acquiring is cleared only

\* gxccd_abort_exposure.
Abort == exposing' = IF Works THEN NoExposure ELSE exposing

\* FAST_MSG_STOP: grabber_acquisition_stop does nothing without a camera.
Stop ==
    /\ is_acquisition' = FALSE
    /\ IF camera = None \/ ~is_acquiring THEN UNCHANGED <<exposing, is_acquiring, renewed>>
       ELSE is_acquiring' = FALSE /\ renewed' = FALSE /\ Abort
    /\ UNCHANGED <<plugged, camera, device, settings, waited, frame>>

\* grabber_set_window: the full window for one that does not fit.
WindowFor(w) ==
    IF w[3] \in 1 .. MaxWidth /\ w[4] \in 1 .. MaxHeight THEN w ELSE FullWindow

\* FAST_MSG_COMMAND: process_grabber_command.  The exposure is set also
\* without a camera; a parameter is remembered though the call may fail.
Command(e, value, w) ==
    /\ exposure' = IF e = None THEN exposure ELSE e
    /\ IF value = None \/ camera = None THEN UNCHANGED <<parameter, device>>
       ELSE /\ parameter' = value
            /\ device' = IF Works THEN value ELSE device
    /\ window' = IF w = None \/ camera = None THEN window ELSE WindowFor(w)
    /\ UNCHANGED <<plugged, camera, exposing, is_acquiring, is_acquisition, waited,
                   frame, renewed>>

Commands ==
    \E e \in Exposures \cup {None}, value \in Values \cup {None},
       w \in Windows \cup {None} : Command(e, value, w)

-----------------------------------------------------------------------------
(* The camera and the time. *)

\* An exposure ends.  What is pulled out is forgotten.
ExposureEnds ==
    /\ Works /\ exposing.on /\ exposing' = [exposing EXCEPT !.ready = TRUE]
    /\ UNCHANGED <<plugged, camera, device, is_acquiring, settings, is_acquisition,
                   waited, frame, renewed>>

Unplug ==
    /\ plugged /\ plugged' = FALSE
    /\ camera' = IF camera = None THEN None ELSE "lost"
    /\ exposing' = NoExposure
    /\ UNCHANGED <<device, is_acquiring, settings, is_acquisition, waited, frame, renewed>>

PlugIn ==
    /\ ~plugged /\ plugged' = TRUE
    /\ UNCHANGED <<camera, exposing, device, is_acquiring, settings, is_acquisition,
                   waited, frame, renewed>>

Tick ==
    /\ waited < ReconnectDelay /\ waited' = waited + 1
    /\ UNCHANGED <<plugged, camera, exposing, device, is_acquiring, settings,
                   is_acquisition, frame, renewed>>

Next ==
    \/ WaitImage \/ Start \/ Stop \/ Commands
    \/ ExposureEnds \/ Unplug \/ PlugIn \/ Tick

\* grabber_worker goes round, the time passes, exposures end.
Fairness == WF_vars(WaitImage) /\ WF_vars(Tick) /\ WF_vars(ExposureEnds)

Spec == Init /\ [][Next]_vars /\ Fairness

-----------------------------------------------------------------------------
\* The types, and the handle: a camera that was pulled out is known to be
\* lost or released, and the window of one that works fits the chip
\* (grabber_gxccd.c:315, 376).
TypeOK ==
    /\ plugged \in BOOLEAN /\ camera \in {None, "ok", "lost"}
    /\ is_acquiring \in BOOLEAN /\ is_acquisition \in BOOLEAN /\ renewed \in BOOLEAN
    /\ exposure \in Exposures /\ parameter \in Values /\ device \in Values
    /\ window \in Windows \cup {FullWindow} /\ waited \in 0 .. ReconnectDelay
    /\ camera = "ok" => plugged /\ Shape(window) \in (1 .. MaxWidth) \X (1 .. MaxHeight)

\* Acquisition goes on: unless the camera was connected anew, it is exposing
\* or has an image ready, also when a frame could not be read because the
\* window was changed during the exposure (grabber_gxccd.c:458).
AcquisitionGoesOn == camera = "ok" /\ is_acquiring /\ ~renewed => exposing.on

\* A stopped camera is idle, so that the first frame after the next start is
\* not one of the past (grabber_gxccd.c:232), also when it was stopped while
\* it was away.
IdleWhenStopped == camera = "ok" /\ ~is_acquiring => ~exposing.on

\* What the driver writes in the keywords of a frame is what is set in the
\* camera, also after a reconnection (grabber_gxccd.c:136, 426).
ParametersAreSet == camera = "ok" => device = parameter

\* A camera that is plugged in and stays so is connected (grabber_gxccd.c:390).
Reconnects == <>[]plugged => <>[](camera = "ok")
=============================================================================
