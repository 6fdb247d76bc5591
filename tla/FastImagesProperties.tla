------------------------ MODULE FastImagesProperties ------------------------
(***************************************************************************)
(* What the main thread owes to those who look at its images.              *)
(***************************************************************************)
EXTENDS FastImages

Frames == Seq([number : 1 .. MaxFrames, size : Sizes])
Images ==
    [frames : Frames, size : Sizes, time : 0 .. MaxTime]
Previews ==
    [frames : Frames, size : Sizes, length : Nat,
     dark : Darks \cup {None}, postprocess : Nat, zoom : Nat, jpeg : JpegParams]

\* Type correctness.  The length of a sum, by which its average is divided,
\* is not 0.
TypeOK ==
    /\ image \in Images \cup {None} /\ imageTotal \in Images \cup {None}
    /\ running \in Images \cup {None} /\ runningAccum \in Images \cup {None}
    /\ totalLength \in 0 .. MaxFrames /\ runningLength \in 0 .. MaxFrames
    /\ imageTotal # None => totalLength # 0
    /\ runningAccumLength \in 0 .. MaxFrames /\ runningTime \in Nat
    /\ lastTotalStored \in Int /\ dark \in Darks \cup {None}
    /\ region \in Int \X Int \X Int \X Int /\ postprocess \in Nat /\ zoom \in Nat
    /\ jpeg \in JpegParams /\ isAcquisition \in BOOLEAN /\ nframes \in 0 .. MaxFrames
    /\ currentFrame \in Previews \cup {None} /\ totalFrame \in Previews \cup {None}

\* A preview that is handed out shows the latest frame, or the cumulative
\* image as it is now, with the parameters of jpeg_params as they are now,
\* however long it has been kept and whatever was reset in between
\* (fast.c:365-373, 682-690).  set_zoom, set_postprocess and set_dark show
\* only from the next frame on.
PreviewsAreFresh ==
    reply.made # None =>
        /\ reply.made.frames = reply.wanted.frames
        /\ reply.made.length = reply.wanted.length
        /\ reply.made.jpeg = reply.wanted.jpeg

\* A sum holds one run of consecutive frames of one size, and its length
\* counts them, through changes of size, completed sums and starts
\* (fast.c:296-346).
IsRun(sum) ==
    \A i \in 1 .. Len(sum.frames) :
        /\ sum.frames[i].number = sum.frames[1].number + i - 1
        /\ sum.frames[i].size = sum.size
SumsAreExact ==
    /\ imageTotal # None => IsRun(imageTotal) /\ totalLength = Len(imageTotal.frames)
    /\ runningAccum # None =>
        IsRun(runningAccum) /\ runningAccumLength = Len(runningAccum.frames)
    /\ running # None => IsRun(running) /\ runningLength = Len(running.frames)
    /\ averaged # None => averaged.length = Len(averaged.sum.frames)

\* What is in one sum was not yet in another: a frame is in the running sum
\* that is complete or in the one under way, not in both (fast.c:338-346).
RunningSumsAreDisjoint ==
    running # None /\ runningAccum # None =>
        running.frames[Len(running.frames)].number < runningAccum.frames[1].number

\* No pixel is read that an image does not have: the flux is summed up over
\* pixels of the image, whatever region was asked for and however the size of
\* the frames changes, and a dark frame that is subtracted from a preview has
\* its size (fast.c:196-203, 275-283).
PixelsExist ==
    /\ \A i \in DOMAIN measured :
        LET m == measured[i] IN
        /\ m.area[1] >= 0 /\ m.area[3] < Width(m.size)
        /\ m.area[2] >= 0 /\ m.area[4] < Height(m.size)
    /\ \A preview \in {currentFrame, totalFrame} \ {None} :
        preview.dark \in {None, preview.size}
=============================================================================
