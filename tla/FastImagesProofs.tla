-------------------------- MODULE FastImagesProofs --------------------------
(***************************************************************************)
(* Proofs about the images of the main thread: for all sizes of frames,    *)
(* regions and settings and any number of frames.                          *)
(***************************************************************************)
EXTENDS FastImagesProperties, SequenceTheorems, TLAPS

Frame == [number : Nat, size : Sizes]

\* A sum of consecutive frames.
Run(sum) ==
    /\ sum = [frames |-> sum.frames, size |-> sum.size, time |-> sum.time]
    /\ sum.frames \in Seq(Frame) /\ Len(sum.frames) > 0
    /\ IsRun(sum)

\* The numbers of its first and its last frame.
FirstOf(sum) == sum.frames[1].number
LastOf(sum) == sum.frames[Len(sum.frames)].number

\* A sum to which the next frame may be added: it ends with the latest one.
Open(sum, length, n) == Run(sum) /\ LastOf(sum) = n /\ length = Len(sum.frames)

Frame1(size, time) == Sum(<<[number |-> nframes + 1, size |-> size]>>, size, time)

More(sum, frame) == [sum EXCEPT !.frames = @ \o frame.frames]

-----------------------------------------------------------------------------
(* Sums *)

\* One frame is a sum.
LEMMA OneFrame ==
    ASSUME nframes \in Nat, NEW size \in Sizes, NEW time
    PROVE  /\ Open(Frame1(size, time), 1, nframes + 1)
           /\ FirstOf(Frame1(size, time)) = nframes + 1
BY DEF Open, Run, IsRun, FirstOf, LastOf, Frame1, Sum, Frame

\* A sum stays one when the next frame of its size is added.
LEMMA OneMore ==
    ASSUME nframes \in Nat, NEW size \in Sizes, NEW time, NEW sum, NEW length,
           Open(sum, length, nframes), sum.size = size
    PROVE  LET more == More(sum, Frame1(size, time))
           IN  /\ Open(more, length + 1, nframes + 1) /\ more.size = size
               /\ FirstOf(more) = FirstOf(sum)
<1> DEFINE more == More(sum, Frame1(size, time))
           new == [number |-> nframes + 1, size |-> size]
<1>1. sum.frames \in Seq(Frame) /\ Len(sum.frames) \in Nat /\ Len(sum.frames) > 0
    BY DEF Open, Run
<1>2. new \in Frame
    BY DEF Frame
<1>3. more.frames = sum.frames \o <<new>> /\ more.size = size /\ more.time = sum.time
      /\ more = [frames |-> more.frames, size |-> more.size, time |-> more.time]
    <2>1. sum = [frames |-> sum.frames, size |-> sum.size, time |-> sum.time]
        BY DEF Open, Run
    <2>2. Frame1(size, time).frames = <<new>>
        BY DEF Frame1, Sum
    <2> DEFINE f == sum.frames \o <<new>>
    <2>3. more = [sum EXCEPT !.frames = f]
        BY <2>2 DEF More
    <2> HIDE DEF more, f
    <2>4. more = [frames |-> f, size |-> sum.size, time |-> sum.time]
        BY <2>1, <2>3
    <2> QED BY <2>4 DEF f
<1> HIDE DEF more, new
<1>4. /\ more.frames \in Seq(Frame) /\ Len(more.frames) = Len(sum.frames) + 1
      /\ more.frames[Len(sum.frames) + 1] = new
      /\ \A i \in 1 .. Len(sum.frames) : more.frames[i] = sum.frames[i]
    BY <1>1, <1>2, <1>3
<1>5. FirstOf(more) = FirstOf(sum)
    BY <1>1, <1>4 DEF FirstOf
<1>6. LastOf(more) = nframes + 1
    BY <1>1, <1>4 DEF LastOf, new
<1>7. \A i \in 1 .. Len(sum.frames) :
        sum.frames[i].number = FirstOf(sum) + i - 1 /\ sum.frames[i].size = size
    BY DEF Open, Run, IsRun, FirstOf
<1>8. FirstOf(sum) \in Nat /\ FirstOf(sum) + Len(sum.frames) - 1 = nframes
    <2>1. sum.frames[1] \in Frame
        BY <1>1
    <2>2. FirstOf(sum) \in Nat
        BY <2>1 DEF FirstOf, Frame
    <2> QED BY <2>2, <1>1, <1>7 DEF Open, LastOf
<1>9. IsRun(more)
    <2> SUFFICES ASSUME NEW i \in 1 .. Len(more.frames)
                 PROVE  more.frames[i].number = FirstOf(more) + i - 1
                        /\ more.frames[i].size = more.size
        BY DEF IsRun, FirstOf
    <2>1. CASE i \in 1 .. Len(sum.frames)
        BY <2>1, <1>3, <1>4, <1>5, <1>7
    <2>2. CASE i = Len(sum.frames) + 1
        BY <2>2, <1>1, <1>3, <1>4, <1>5, <1>8 DEF new
    <2> QED BY <2>1, <2>2, <1>1, <1>4
<1>10. length = Len(sum.frames)
    BY DEF Open
<1>11. /\ Open(more, length + 1, nframes + 1) /\ more.size = size
       /\ FirstOf(more) = FirstOf(sum)
    BY <1>1, <1>3, <1>4, <1>5, <1>6, <1>9, <1>10 DEF Open, Run
<1> QED BY <1>11 DEF more

\* What process_image makes of a sum and its length.
LEMMA AddToIsOpen ==
    ASSUME nframes \in Nat, NEW size \in Sizes, NEW time, NEW sum, NEW length,
           sum # None => Open(sum, length, nframes)
    PROVE  LET frame == Frame1(size, time)
           IN  /\ Open(AddTo(sum, frame), CountIn(sum, length, frame), nframes + 1)
               /\ AddTo(sum, frame).size = size
               /\ FirstOf(AddTo(sum, frame)) =
                      IF Continues(sum, frame) THEN FirstOf(sum) ELSE nframes + 1
<1> DEFINE frame == Frame1(size, time)
<1>1. frame.size = size
    BY DEF Frame1, Sum
<1>2. CASE Continues(sum, frame)
    <2>1. sum # None /\ sum.size = size
        BY <1>1, <1>2 DEF Continues
    <2>2. AddTo(sum, frame) = More(sum, frame) /\ CountIn(sum, length, frame) = length + 1
        BY <1>2 DEF AddTo, CountIn, More
    <2>3. /\ Open(More(sum, frame), length + 1, nframes + 1)
          /\ More(sum, frame).size = size /\ FirstOf(More(sum, frame)) = FirstOf(sum)
        BY <2>1, OneMore
    <2> HIDE DEF frame
    <2> QED BY <2>2, <2>3, <1>2 DEF frame
<1>3. CASE ~Continues(sum, frame)
    <2>1. AddTo(sum, frame) = frame /\ CountIn(sum, length, frame) = 1
        BY <1>3 DEF AddTo, CountIn
    <2> HIDE DEF frame
    <2>2. Open(frame, 1, nframes + 1) /\ FirstOf(frame) = nframes + 1
        BY OneFrame DEF frame
    <2> QED BY <2>1, <2>2, <1>1, <1>3 DEF frame
<1> QED BY <1>2, <1>3

-----------------------------------------------------------------------------
(* The invariant of the sums. *)

SumsInv ==
    /\ nframes \in Nat
    /\ imageTotal # None => Open(imageTotal, totalLength, nframes)
    /\ runningAccum # None => Open(runningAccum, runningAccumLength, nframes)
    /\ running # None =>
        Run(running) /\ LastOf(running) <= nframes /\ runningLength = Len(running.frames)
    /\ averaged # None => averaged.length = Len(averaged.sum.frames)
Apart ==
    running # None /\ runningAccum # None => LastOf(running) < FirstOf(runningAccum)

\* The variables that the two speak of.
sumVars == <<nframes, imageTotal, totalLength, runningAccum, runningAccumLength, running,
             runningLength, averaged>>

LEMMA SumsImply == SumsInv /\ Apart => SumsAreExact /\ RunningSumsAreDisjoint
BY DEF SumsInv, Apart, SumsAreExact, RunningSumsAreDisjoint, Open, Run, LastOf, FirstOf

LEMMA SumsInit == Init => SumsInv /\ Apart
BY DEF Init, SumsInv, Apart

\* All that does not concern the sums leaves them alone.
LEMMA OtherSteps ==
    ASSUME [Next]_vars
    PROVE  \/ \E size \in Sizes, time \in 0 .. MaxTime : ProcessImage(size, time)
           \/ Start
           \/ UNCHANGED sumVars
BY DEF Next, vars, sums, settings, previews, history, sumVars, Unmeasured, Timeout,
       GetCurrentFrame, GetTotalFrame, GetRunningFrame, SetAccumulation, SetPostprocess,
       SetDark, SetRegion, SetZoom, JpegParamsCommand, Acquisition

LEMMA StartSums == SumsInv /\ Apart /\ Start => SumsInv' /\ Apart'
BY DEF Start, Unmeasured, history, SumsInv, Apart

LEMMA ProcessImageSums ==
    ASSUME SumsInv, Apart, NEW size \in Sizes, NEW time, ProcessImage(size, time)
    PROVE  SumsInv' /\ Apart'
<1> DEFINE frame == Frame1(size, time)
           accum == AddTo(runningAccum, frame)
           length == CountIn(runningAccum, runningAccumLength, frame)
           total == AddTo(imageTotal, frame)
           totals == CountIn(imageTotal, totalLength, frame)
           complete == Completes(accum, frame)
<1>1. nframes \in Nat
    BY DEF SumsInv
<1>2. Open(total, totals, nframes + 1)
    BY <1>1, AddToIsOpen DEF SumsInv
<1>3. /\ Open(accum, length, nframes + 1)
      /\ FirstOf(accum) = IF Continues(runningAccum, frame) THEN FirstOf(runningAccum)
                          ELSE nframes + 1
    BY <1>1, AddToIsOpen DEF SumsInv
<1>4. /\ nframes' = nframes + 1 /\ imageTotal' = total /\ totalLength' = totals
      /\ runningAccum' = Begun(complete, accum)
      /\ runningAccumLength' = IF complete THEN 0 ELSE length
      /\ running' = IF complete THEN accum ELSE running
      /\ runningLength' = IF complete THEN length ELSE runningLength
      /\ averaged' = [sum |-> total, length |-> totals] \/ averaged' = averaged
    BY DEF ProcessImage, Frame1
<1>5. Continues(runningAccum, frame) => runningAccum # None
    BY DEF Continues
<1> HIDE DEF frame, accum, length, total, totals, complete
<1>6. averaged' # None => averaged'.length = Len(averaged'.sum.frames)
    BY <1>2, <1>4 DEF SumsInv, Open
<1>7. imageTotal' # None => Open(imageTotal', totalLength', nframes')
    BY <1>2, <1>4
<1>8. CASE complete
    <2>1. /\ running' = accum /\ runningLength' = length /\ runningAccum' = None
        BY <1>4, <1>8 DEF Begun
    <2>2. Run(accum) /\ LastOf(accum) <= nframes' /\ length = Len(accum.frames)
        BY <1>1, <1>3, <1>4 DEF Open
    <2> QED BY <1>1, <1>4, <1>6, <1>7, <2>1, <2>2 DEF SumsInv, Apart
<1>9. CASE ~complete
    <2>1. /\ running' = running /\ runningLength' = runningLength
          /\ runningAccum' = accum /\ runningAccumLength' = length
        BY <1>4, <1>9 DEF Begun
    <2>2. running # None => LastOf(running) \in Int /\ LastOf(running) <= nframes
        <3> SUFFICES ASSUME running # None PROVE LastOf(running) \in Int
            BY DEF SumsInv
        <3>1. running.frames[Len(running.frames)] \in Frame
            BY DEF SumsInv, Run
        <3> QED BY <3>1 DEF LastOf, Frame
    <2>3. running # None => LastOf(running) < FirstOf(accum)
        BY <1>1, <1>3, <1>5, <2>2 DEF Apart
    <2>4. Apart'
        BY <2>1, <2>3 DEF Apart
    <2>5. running' # None =>
            Run(running') /\ LastOf(running') <= nframes' /\ runningLength' = Len(running'.frames)
        BY <1>1, <1>4, <2>1, <2>2 DEF SumsInv
    <2>6. runningAccum' # None => Open(runningAccum', runningAccumLength', nframes')
        BY <1>3, <1>4, <2>1
    <2> QED BY <1>1, <1>4, <1>6, <1>7, <2>4, <2>5, <2>6 DEF SumsInv
<1> QED BY <1>8, <1>9

LEMMA SumsStep == SumsInv /\ Apart /\ [Next]_vars => SumsInv' /\ Apart'
<1> SUFFICES ASSUME SumsInv, Apart, [Next]_vars PROVE SumsInv' /\ Apart'
    OBVIOUS
<1>1. CASE UNCHANGED sumVars
    BY <1>1 DEF sumVars, SumsInv, Apart
<1> QED BY <1>1, OtherSteps, StartSums, ProcessImageSums

\* A sum holds one run of consecutive frames of one size, which its length
\* counts, and so does the average that is stored (fast.c:296-346).
THEOREM ImagesSums == Spec => []SumsAreExact
<1> QED BY SumsInit, SumsStep, SumsImply, PTL DEF Spec

\* No frame is in two running sums (fast.c:338-346).
THEOREM ImagesDisjoint == Spec => []RunningSumsAreDisjoint
<1> QED BY SumsInit, SumsStep, SumsImply, PTL DEF Spec

-----------------------------------------------------------------------------
(* Previews and pixels. *)

\* A preview that is kept shows what there is now, unless the image it was
\* made of is gone: then nobody is given it before the next frame.
KeptPreviews ==
    /\ image # None /\ currentFrame # None =>
        /\ currentFrame.frames = image.frames /\ currentFrame.length = 1
        /\ currentFrame.jpeg = jpeg
    /\ imageTotal # None /\ totalFrame # None =>
        /\ totalFrame.frames = imageTotal.frames /\ totalFrame.length = totalLength
        /\ totalFrame.jpeg = jpeg

LEMMA PreviewStep ==
    ASSUME KeptPreviews, PreviewsAreFresh, [Next]_vars
    PROVE  KeptPreviews' /\ PreviewsAreFresh'
<1> USE DEF KeptPreviews, PreviewsAreFresh
<1>1. ASSUME NEW size \in Sizes, NEW time \in 0 .. MaxTime, ProcessImage(size, time)
      PROVE  KeptPreviews' /\ PreviewsAreFresh'
    BY <1>1 DEF ProcessImage, ResetPreviews
<1>2. CASE GetCurrentFrame
    <2>1. CASE image = None \/ ~isAcquisition
        BY <1>2, <2>1 DEF GetCurrentFrame, Timeout, Answer, previews, sums
    <2>2. CASE image # None /\ isAcquisition
        BY <1>2, <2>2 DEF GetCurrentFrame, Preview, Answer, sums
    <2> QED BY <2>1, <2>2
<1>3. CASE GetTotalFrame
    <2>1. CASE imageTotal = None \/ ~isAcquisition
        BY <1>3, <2>1 DEF GetTotalFrame, Timeout, Answer, previews, sums
    <2>2. CASE imageTotal # None /\ isAcquisition
        BY <1>3, <2>2 DEF GetTotalFrame, Preview, Answer, sums
    <2> QED BY <2>1, <2>2
<1>4. CASE GetRunningFrame
    BY <1>4 DEF GetRunningFrame, Timeout, Answer, previews, sums
<1>5. CASE Start
    BY <1>5 DEF Start, Unmeasured, history, settings, previews
<1>6. CASE SetAccumulation \/ SetPostprocess \/ SetDark \/ SetRegion \/ SetZoom
    BY <1>6 DEF SetAccumulation, SetPostprocess, SetDark, SetRegion, SetZoom, Unmeasured,
                history, sums, previews
<1>7. CASE JpegParamsCommand
    BY <1>7 DEF JpegParamsCommand, ResetPreviews, Unmeasured, history, sums
<1>8. CASE Acquisition \/ UNCHANGED vars
    BY <1>8 DEF Acquisition, vars, history, sums, settings, previews
<1> QED BY <1>1, <1>2, <1>3, <1>4, <1>5, <1>6, <1>7, <1>8 DEF Next

\* A preview that is handed out shows the image of now with the parameters of
\* now, however long it was kept (fast.c:365-373, 682-690).
THEOREM ImagesPreviews == Spec => []PreviewsAreFresh
<1>1. Init => KeptPreviews /\ PreviewsAreFresh
    BY DEF Init, KeptPreviews, PreviewsAreFresh, NoReply
<1>2. KeptPreviews /\ PreviewsAreFresh /\ [Next]_vars => KeptPreviews' /\ PreviewsAreFresh'
    BY PreviewStep
<1> QED BY <1>1, <1>2, PTL DEF Spec

\* The region that is used lies in the frame.
Inside(area, size) ==
    area[1] >= 0 /\ area[3] < Width(size) /\ area[2] >= 0 /\ area[4] < Height(size)

LEMMA RegionIsInside ==
    ASSUME NEW size \in Sizes
    PROVE  Inside(RegionFor(size), size)
<1> USE FastImagesAssumption DEF FastImagesAssumption
<1>1. Width(size) \in Nat \ {0} /\ Height(size) \in Nat \ {0}
    BY DEF Width, Height
<1>2. CASE RegionFor(size) = region /\ region[1] \in 0 .. Width(size) - 1
           /\ region[2] \in 1 .. Height(size) - 1 /\ region[3] \in 0 .. Width(size) - 1
           /\ region[4] \in 1 .. Height(size) - 1
    BY <1>1, <1>2 DEF Inside
<1>3. CASE RegionFor(size) = <<0, 0, Width(size) - 1, Height(size) - 1>>
    BY <1>1, <1>3 DEF Inside
<1> QED BY <1>2, <1>3 DEF RegionFor

\* A frame is added to a sum of its size, so that the region fits both.
LEMMA SumHasSizeOfFrame ==
    ASSUME NEW size, NEW time, NEW sum
    PROVE  AddTo(sum, Frame1(size, time)).size = size
<1> DEFINE frame == Frame1(size, time)
<1>1. frame.size = size
    BY DEF Frame1, Sum
<1> HIDE DEF frame
<1>2. CASE Continues(sum, frame)
    <2>1. sum.size = size
        BY <1>1, <1>2 DEF Continues
    <2>2. AddTo(sum, frame).size = sum.size
        BY <1>2 DEF AddTo
    <2> QED BY <2>1, <2>2 DEF frame
<1>3. CASE ~Continues(sum, frame)
    BY <1>1, <1>3 DEF AddTo, frame
<1> QED BY <1>2, <1>3

Measured == \A i \in DOMAIN measured : Inside(measured[i].area, measured[i].size)
DarkFits ==
    /\ currentFrame # None => currentFrame.dark \in {None, currentFrame.size}
    /\ totalFrame # None => totalFrame.dark \in {None, totalFrame.size}

LEMMA MeasuredStep == ASSUME Measured, [Next]_vars PROVE Measured'
<1>1. ASSUME NEW size \in Sizes, NEW time \in 0 .. MaxTime, ProcessImage(size, time)
      PROVE  Measured'
    <2> DEFINE accum == AddTo(runningAccum, Frame1(size, time))
               one == GetFlux(size, 1, RegionFor(size))
               other == GetFlux(accum.size,
                                CountIn(runningAccum, runningAccumLength, Frame1(size, time)),
                                RegionFor(size))
    <2>1. accum.size = size
        BY SumHasSizeOfFrame
    <2>2. measured' = <<one>> \o <<other>> \/ measured' = <<one>> \o <<>>
        BY <1>1 DEF ProcessImage, Frame1
    <2>3. Inside(one.area, one.size)
        BY RegionIsInside DEF GetFlux
    <2>4. Inside(other.area, other.size)
        BY <2>1, RegionIsInside DEF GetFlux
    <2> HIDE DEF one, other, accum
    <2> DEFINE S == {one, other}
    <2>5. <<one>> \in Seq(S) /\ <<other>> \in Seq(S) /\ <<>> \in Seq(S)
        OBVIOUS
    <2> HIDE DEF S
    <2>6. measured' \in Seq(S)
        <3> DEFINE s1 == <<one>>  s2 == <<other>>
        <3> HIDE DEF s1, s2
        <3>1. s1 \in Seq(S) /\ s2 \in Seq(S) /\ <<>> \in Seq(S)
            BY <2>5 DEF s1, s2
        <3>2. s1 \o s2 \in Seq(S) /\ s1 \o <<>> \in Seq(S)
            BY <3>1, ConcatProperties
        <3> QED BY <2>2, <3>2 DEF s1, s2
    <2>7. \A i \in DOMAIN measured' : measured'[i] \in S
        BY <2>6
    <2> QED BY <2>3, <2>4, <2>7 DEF Measured, S
<1>2. ASSUME UNCHANGED measured PROVE Measured'
    BY <1>2 DEF Measured
<1>3. \/ \E size \in Sizes, time \in 0 .. MaxTime : ProcessImage(size, time)
      \/ UNCHANGED measured
    BY DEF Next, vars, history, Unmeasured, GetCurrentFrame, GetTotalFrame, GetRunningFrame,
           Start, SetAccumulation, SetPostprocess, SetDark, SetRegion, SetZoom,
           JpegParamsCommand, Acquisition
<1> QED BY <1>1, <1>2, <1>3

\* A dark frame of another size is forgotten before it is subtracted.
LEMMA PreviewDark ==
    ASSUME NEW sum, NEW length
    PROVE  Preview(sum, length).dark \in {None, Preview(sum, length).size}
BY DEF Preview, DarkFor

LEMMA DarkStep == ASSUME DarkFits, [Next]_vars PROVE DarkFits'
<1> USE DEF DarkFits
<1>1. ASSUME NEW size \in Sizes, NEW time \in 0 .. MaxTime, ProcessImage(size, time)
      PROVE  DarkFits'
    BY <1>1 DEF ProcessImage, ResetPreviews
<1>2. CASE GetCurrentFrame
    <2>1. UNCHANGED totalFrame
        BY <1>2 DEF GetCurrentFrame, Timeout, previews
    <2>2. currentFrame' = currentFrame \/ currentFrame' = Preview(image, 1)
        BY <1>2 DEF GetCurrentFrame, Timeout, previews
    <2> QED BY <2>1, <2>2, PreviewDark
<1>3. CASE GetTotalFrame
    <2>1. UNCHANGED currentFrame
        BY <1>3 DEF GetTotalFrame, Timeout, previews
    <2>2. totalFrame' = totalFrame \/ totalFrame' = Preview(imageTotal, totalLength)
        BY <1>3 DEF GetTotalFrame, Timeout, previews
    <2> QED BY <2>1, <2>2, PreviewDark
<1>4. CASE JpegParamsCommand
    BY <1>4 DEF JpegParamsCommand, ResetPreviews
<1>5. ASSUME UNCHANGED previews PROVE DarkFits'
    BY <1>5 DEF previews
<1>6. \/ \E size \in Sizes, time \in 0 .. MaxTime : ProcessImage(size, time)
      \/ GetCurrentFrame \/ GetTotalFrame \/ JpegParamsCommand \/ UNCHANGED previews
    BY DEF Next, vars, GetRunningFrame, Timeout, Start, SetAccumulation, SetPostprocess,
           SetDark, SetRegion, SetZoom, Acquisition
<1> QED BY <1>1, <1>2, <1>3, <1>4, <1>5, <1>6

LEMMA PixelsImply == Measured /\ DarkFits => PixelsExist
BY DEF Measured, DarkFits, PixelsExist, Inside

\* No pixel is read that an image does not have, and a dark frame that is
\* subtracted has the size of the preview (fast.c:196-203, 275-283).
THEOREM ImagesPixels == Spec => []PixelsExist
<1>1. Init => Measured /\ DarkFits
    BY DEF Init, Measured, DarkFits
<1>2. Measured /\ [Next]_vars => Measured'
    BY MeasuredStep
<1>3. DarkFits /\ [Next]_vars => DarkFits'
    BY DarkStep
<1> QED BY <1>1, <1>2, <1>3, PixelsImply, PTL DEF Spec
=============================================================================
