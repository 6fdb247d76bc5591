----------------------------- MODULE FastImages -----------------------------
(***************************************************************************)
(* The images of the main thread of fast.c: the latest frame, the          *)
(* cumulative image, the running sum, the dark frame, the region of        *)
(* interest, and the JPEG previews that are kept until they are out of     *)
(* date.  Fast leaves them out.                                            *)
(*                                                                         *)
(* An image is the frames added up in it, its size and its time; its       *)
(* pixels, and those of a preview, are told by what it was made of.        *)
(***************************************************************************)
EXTENDS Integers, Sequences, FiniteSets

CONSTANTS
    None,          \* NULL
    Sizes,         \* the sizes <<width, height>> a frame can have
    Regions,       \* the regions <<x1, y1, x2, y2>> given to set_region
    Darks,         \* sizes of the dark frames given to set_dark
    RunningTimes,  \* the arguments of set_accumulation
    Postprocess,   \* the arguments of set_postprocess
    Zooms,         \* the arguments of set_zoom
    JpegParams,    \* the arguments of jpeg_params
    Exposure,      \* the keyword EXPOSURE of every frame
    StorePeriod,   \* 5 s, the interval of the stored averages
    MaxFrames,     \* bound: how many frames are processed
    MaxTime        \* bound: the time of the last frame

ASSUME FastImagesAssumption ==
    /\ Sizes \subseteq (Nat \ {0}) \X (Nat \ {0}) /\ Darks \subseteq (Nat \ {0}) \X (Nat \ {0})
    /\ Regions \subseteq Int \X Int \X Int \X Int
    /\ RunningTimes \subseteq Nat /\ Postprocess \subseteq Nat /\ Zooms \subseteq Nat
    /\ Exposure \in Nat /\ StorePeriod \in Nat /\ MaxFrames \in Nat /\ MaxTime \in Nat
    /\ None \notin Sizes \cup Darks

VARIABLES
    image, imageTotal, totalLength,
    running, runningAccum, runningLength, runningAccumLength, runningTime,
    lastTotalStored,            \* time_last_total_stored
    dark, region, postprocess, zoom, jpeg, \* settings, jpeg those of image_jpeg.c
    isAcquisition,              \* set by the grabber thread
    currentFrame, totalFrame,   \* the previews, None when there is none
    measured,                   \* history: what the last two get_flux saw
    averaged,                   \* history: the last average sent to storage
    reply,                      \* history: the last answer to get_..._frame
    nframes                     \* history: how many frames were processed

sums == <<image, imageTotal, totalLength, running, runningAccum, runningLength,
          runningAccumLength, lastTotalStored>>
settings == <<runningTime, dark, region, postprocess, zoom, jpeg>>
previews == <<currentFrame, totalFrame>>
history == <<measured, averaged, reply, nframes>>
vars == <<sums, settings, isAcquisition, previews, history>>

-----------------------------------------------------------------------------
Sum(frames, size, time) == [frames |-> frames, size |-> size, time |-> time]
Width(size) == size[1]
Height(size) == size[2]

\* What get_flux sums up: the region of an image of some size, less length
\* times the dark frame.
GetFlux(size, length, area) ==
    [size |-> size, length |-> length, area |-> area, dark |-> dark]

NoReply == [kind |-> "none", made |-> None, wanted |-> None]

Init ==
    /\ image = None /\ imageTotal = None /\ totalLength = 0
    /\ running = None /\ runningAccum = None
    /\ runningLength = 0 /\ runningAccumLength = 0 /\ runningTime = 1
    /\ lastTotalStored = - StorePeriod - 1       \* time_zero, long ago
    /\ dark = None /\ region = <<0, 0, 0, 0>> /\ postprocess = 1 /\ zoom = 0
    /\ jpeg \in JpegParams
    /\ isAcquisition = FALSE /\ currentFrame = None /\ totalFrame = None
    /\ measured = <<>> /\ averaged = None /\ reply = NoReply /\ nframes = 0

-----------------------------------------------------------------------------
(* process_image *)

\* The region is replaced by the whole frame unless it lies in it; line 0
\* counts as outside.
MutatedRegionFor(size) ==                      \* only the first corner
    IF region[1] \in 0 .. Width(size) - 1 /\ region[2] \in 1 .. Height(size) - 1
    THEN region ELSE <<0, 0, Width(size) - 1, Height(size) - 1>>

RegionFor(size) ==
    IF /\ region[1] \in 0 .. Width(size) - 1 /\ region[2] \in 1 .. Height(size) - 1
       /\ region[3] \in 0 .. Width(size) - 1 /\ region[4] \in 1 .. Height(size) - 1
    THEN region ELSE <<0, 0, Width(size) - 1, Height(size) - 1>>

\* A sum, begun anew when there is none or its frames had another size.
MutatedContinues(sum, frame) == sum # None     \* whatever the size

Continues(sum, frame) == sum # None /\ sum.size = frame.size
AddTo(sum, frame) ==
    IF Continues(sum, frame) THEN [sum EXCEPT !.frames = @ \o frame.frames] ELSE frame
CountIn(sum, length, frame) == IF Continues(sum, frame) THEN length + 1 ELSE 1

\* The running sum is complete with this frame.  When it is, it becomes the
\* one that is shown, and the next frame begins another.
MutatedBegun(complete, accum) == accum         \* the next frame is added to it

Begun(complete, accum) == IF complete THEN None ELSE accum
Completes(sum, frame) == frame.time - sum.time + Exposure > runningTime

MutatedReset == currentFrame' = None /\ UNCHANGED totalFrame

ResetPreviews == currentFrame' = None /\ totalFrame' = None

ProcessImage(size, time) ==
    LET frame == Sum(<<[number |-> nframes + 1, size |-> size]>>, size, time)
        total == AddTo(imageTotal, frame)
        length == CountIn(imageTotal, totalLength, frame)
        accum == AddTo(runningAccum, frame)
        accumLength == CountIn(runningAccum, runningAccumLength, frame)
        complete == Completes(accum, frame)
    IN
    /\ nframes < MaxFrames /\ (image # None => time >= image.time)
    /\ nframes' = nframes + 1
    /\ image' = frame
    /\ region' = RegionFor(size)
    /\ imageTotal' = total /\ totalLength' = length
    /\ runningAccum' = Begun(complete, accum)
    /\ runningAccumLength' = IF complete THEN 0 ELSE accumLength
    /\ running' = IF complete THEN accum ELSE running
    /\ runningLength' = IF complete THEN accumLength ELSE runningLength
    /\ measured' = <<GetFlux(size, 1, RegionFor(size))>>
                     \o IF complete THEN <<GetFlux(accum.size, accumLength, RegionFor(size))>>
                        ELSE <<>>
    /\ IF time - lastTotalStored > StorePeriod
       THEN averaged' = [sum |-> total, length |-> length] /\ lastTotalStored' = time
       ELSE UNCHANGED <<averaged, lastTotalStored>>
    /\ ResetPreviews
    /\ UNCHANGED <<runningTime, dark, postprocess, zoom, jpeg, isAcquisition, reply>>

-----------------------------------------------------------------------------
(* get_current_frame, get_total_frame and get_running_frame *)

\* postprocess_image subtracts a dark frame of the size of the image, and
\* forgets one of another size.
DarkFor(size) == IF postprocess >= 1 /\ dark # None /\ dark # size THEN None ELSE dark

\* A preview: what of an image the settings of this moment show.
Preview(sum, length) ==
    [frames |-> sum.frames, size |-> sum.size, length |-> length,
     dark |-> IF postprocess >= 1 THEN DarkFor(sum.size) ELSE None,
     postprocess |-> postprocess, zoom |-> zoom, jpeg |-> jpeg]

Answer(kind, made, wanted) == [kind |-> kind, made |-> made, wanted |-> wanted]
Timeout(kind) ==
    /\ reply' = Answer(kind, None, None)
    /\ UNCHANGED <<dark, previews>>

GetCurrentFrame ==
    /\ IF image = None \/ ~isAcquisition THEN Timeout("current")
       ELSE LET wanted == Preview(image, 1)
                made == IF currentFrame = None THEN wanted ELSE currentFrame
            IN  /\ currentFrame' = made
                /\ dark' = IF currentFrame = None THEN DarkFor(image.size) ELSE dark
                /\ reply' = Answer("current", made, wanted)
                /\ UNCHANGED totalFrame
    /\ UNCHANGED <<sums, runningTime, region, postprocess, zoom, jpeg, isAcquisition,
                   measured, averaged, nframes>>

GetTotalFrame ==
    /\ IF imageTotal = None \/ ~isAcquisition THEN Timeout("total")
       ELSE LET wanted == Preview(imageTotal, totalLength)
                made == IF totalFrame = None THEN wanted ELSE totalFrame
            IN  /\ totalFrame' = made
                /\ dark' = IF totalFrame = None THEN DarkFor(imageTotal.size) ELSE dark
                /\ reply' = Answer("total", made, wanted)
                /\ UNCHANGED currentFrame
    /\ UNCHANGED <<sums, runningTime, region, postprocess, zoom, jpeg, isAcquisition,
                   measured, averaged, nframes>>

\* Always a timeout, by the "|| TRUE" of its condition.
GetRunningFrame ==
    /\ Timeout("running")
    /\ UNCHANGED <<sums, runningTime, region, postprocess, zoom, jpeg, isAcquisition,
                   measured, averaged, nframes>>

-----------------------------------------------------------------------------
(* The other commands.  Only jpeg_params drops the previews. *)

Unmeasured == UNCHANGED <<isAcquisition, history>>

\* start: reset_images.  The previews stay, and so do the lengths.
Start ==
    /\ imageTotal' = None /\ running' = None /\ runningAccum' = None
    /\ UNCHANGED <<image, totalLength, runningLength, runningAccumLength, lastTotalStored,
                   settings, previews>>
    /\ Unmeasured

SetAccumulation ==
    /\ runningTime' \in RunningTimes
    /\ UNCHANGED <<sums, dark, region, postprocess, zoom, jpeg, previews>> /\ Unmeasured
SetPostprocess ==
    /\ postprocess' \in Postprocess
    /\ UNCHANGED <<sums, runningTime, dark, region, zoom, jpeg, previews>> /\ Unmeasured
\* set_dark: without a file, or with one that cannot be read or holds other
\* numbers than doubles, there is no dark frame any more.
SetDark ==
    /\ dark' \in Darks \cup {None}
    /\ UNCHANGED <<sums, runningTime, region, postprocess, zoom, jpeg, previews>> /\ Unmeasured
SetRegion ==
    /\ region' \in Regions
    /\ UNCHANGED <<sums, runningTime, dark, postprocess, zoom, jpeg, previews>> /\ Unmeasured
SetZoom ==
    /\ zoom' \in Zooms
    /\ UNCHANGED <<sums, runningTime, dark, region, postprocess, jpeg, previews>> /\ Unmeasured

JpegParamsCommand ==
    /\ jpeg' \in JpegParams /\ ResetPreviews
    /\ UNCHANGED <<sums, runningTime, dark, region, postprocess, zoom>> /\ Unmeasured

\* The grabber thread starts and stops acquisition.
Acquisition ==
    /\ isAcquisition' = ~isAcquisition
    /\ UNCHANGED <<sums, settings, previews, history>>

Next ==
    \/ \E size \in Sizes, time \in 0 .. MaxTime : ProcessImage(size, time)
    \/ GetCurrentFrame \/ GetTotalFrame \/ GetRunningFrame
    \/ Start \/ SetAccumulation \/ SetPostprocess \/ SetDark \/ SetRegion \/ SetZoom
    \/ JpegParamsCommand \/ Acquisition

Spec == Init /\ [][Next]_vars
=============================================================================
