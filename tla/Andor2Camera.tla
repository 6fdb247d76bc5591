---------------------------- MODULE Andor2Camera ----------------------------
(***************************************************************************)
(* The driver grabber_andor2.c under grabber_worker of fast_grabber.c: the *)
(* area of the chip that is read out, and the frames that wait in the      *)
(* camera library until they are fetched, the oldest first.                *)
(*                                                                         *)
(* The settings that reach the camera at once, amplification, cooling,     *)
(* shutter and speeds, are left out but for the exposure.  An area stands  *)
(* for x1, y1, x2, y2; one that is not valid, which the driver does not    *)
(* look at, is refused by SetImage.                                        *)
(***************************************************************************)
EXTENDS Naturals, Sequences

CONSTANTS
    None,          \* no frame, and an option that a command does not have
    Exposures,     \* exposure times
    Areas,         \* areas of the chip that commands ask for
    ValidAreas,    \* those that are possible
    FullArea,      \* the chip
    Binnings,      \* 1 to 4
    MaxFrames      \* bound: exposures of one acquisition

VARIABLES
    exposure, area, binning, \* fields of the driver
    setting,     \* what the camera was set to by SetImage and SetExposureTime
    acquiring,   \* GetStatus() = DRV_ACQUIRING
    frames,      \* in the camera library: frames not yet fetched
    acquired,    \* GetTotalNumberImagesAcquired()
    frame        \* history: the last frame

settings == <<exposure, area, binning>>
vars == <<settings, setting, acquiring, frames, acquired, frame>>

\* grabber_create.
Init ==
    /\ exposure \in Exposures /\ area = FullArea /\ binning = 1
    /\ setting = [area |-> FullArea, binning |-> 1, exposure |-> exposure]
    /\ acquiring = FALSE /\ frames = <<>> /\ acquired = 0 /\ frame = None

-----------------------------------------------------------------------------
(* The messages of grabber_worker. *)

\* SetImage, which fails for an impossible area and while acquiring.
SetImage(a, b, now) ==
    IF a \in ValidAreas /\ ~now THEN [area |-> a, binning |-> b] ELSE
        [area |-> setting.area, binning |-> setting.binning]

\* grabber_acquisition_start, with the settings a and b, by a camera that is
\* acquiring now or not; what waited in the library is forgotten.
AcquisitionStart(e, a, b, now) ==
    /\ setting' = [area |-> SetImage(a, b, now).area, binning |-> SetImage(a, b, now).binning,
                   exposure |-> e]
    /\ acquiring' = TRUE
    /\ IF now THEN UNCHANGED <<frames, acquired>> ELSE frames' = <<>> /\ acquired' = 0

\* FAST_MSG_START
Start ==
    /\ AcquisitionStart(exposure, area, binning, acquiring)
    /\ UNCHANGED <<settings, frame>>

\* FAST_MSG_STOP: grabber_acquisition_stop.  Frames stay in the library, but
\* nobody fetches them.
Stop ==
    /\ acquiring' = FALSE
    /\ UNCHANGED <<settings, setting, frames, acquired, frame>>

Option(given, value) == IF given = None THEN value ELSE given

\* The definitions named Mutated... are mistakes to be noticed: see QueueOps.
MutatedShouldRestart(e, a, b) ==               \* sets while acquiring
    /\ setting' = [setting EXCEPT !.exposure = e]
    /\ UNCHANGED <<acquiring, frames, acquired>>

\* A camera that was acquiring is stopped before the settings are changed,
\* and started again with them.  grabber_set_exposure sets it at once, the
\* area and the binning reach it with the start.
ShouldRestart(e, a, b) ==
    IF acquiring THEN AcquisitionStart(e, a, b, FALSE)
    ELSE /\ setting' = [setting EXCEPT !.exposure = e]
         /\ UNCHANGED <<acquiring, frames, acquired>>

\* FAST_MSG_COMMAND: process_grabber_command.
Command(e, a, b) ==
    /\ exposure' = Option(e, exposure) /\ area' = Option(a, area)
    /\ binning' = Option(b, binning)
    /\ ShouldRestart(exposure', area', binning')
    /\ UNCHANGED frame

Commands ==
    \E e \in Exposures \cup {None}, a \in Areas \cup {None}, b \in Binnings \cup {None} :
        Command(e, a, b)

-----------------------------------------------------------------------------
\* grabber_wait_image: not acquiring, or nothing in time.
NoImage == (~acquiring \/ frames = <<>>) /\ UNCHANGED vars

\* The oldest frame goes into an image of the size that the settings have;
\* the library refuses when that is not its size, and the pixels are not set.
\* The number of the frame is that of the newest one.
WaitImage ==
    /\ acquiring /\ frames # <<>>
    /\ frame' = [FRAMENUMBER |-> acquired - 1, EXPOSURE |-> exposure,
                 area |-> area, binning |-> binning, taken |-> Head(frames)]
    /\ frames' = Tail(frames)
    /\ UNCHANGED <<settings, setting, acquiring, acquired>>

\* The camera.  It may stop acquiring by an error.
Exposure ==
    /\ acquiring /\ acquired < MaxFrames
    /\ frames' = Append(frames, [number |-> acquired, setting |-> setting])
    /\ acquired' = acquired + 1
    /\ UNCHANGED <<settings, setting, acquiring, frame>>
Failure ==
    /\ acquiring /\ acquiring' = FALSE
    /\ UNCHANGED <<settings, setting, frames, acquired, frame>>

Next == Start \/ Stop \/ Commands \/ NoImage \/ WaitImage \/ Exposure \/ Failure

Spec == Init /\ [][Next]_vars

-----------------------------------------------------------------------------
\* The size of the image into which a frame is copied, and the keywords that
\* tell its exposure and its area, are those with which it was taken, as long
\* as the area was possible, though settings change at any time
\* (fast_grabber.c:244, 274, grabber_andor2.c:261, 319-333).  The number that
\* it tells is never too small: with frames waiting behind it, it is theirs
\* (grabber_andor2.c:264, 291).
FramesTellTheirSettings ==
    frame # None =>
        /\ frame.taken.number <= frame.FRAMENUMBER
        /\ frame.EXPOSURE = frame.taken.setting.exposure
        /\ frame.area \in ValidAreas =>
            frame.area = frame.taken.setting.area /\ frame.binning = frame.taken.setting.binning
=============================================================================
