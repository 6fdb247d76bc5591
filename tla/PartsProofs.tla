---------------------------- MODULE PartsProofs ----------------------------
(***************************************************************************)
(* Proofs about the drivers of the cameras, GXCCD, Andor of both versions  *)
(* and PVCAM, and about the queue of sent commands.  They hold for any     *)
(* number of buffers, frames, commands and failures, for every chip and    *)
(* delay, and for all settings, names and connections.  Each part has an   *)
(* inductive invariant, named after it; the theorems, on each part and on  *)
(* all of them side by side, are at the end.                               *)
(***************************************************************************)
EXTENDS Parts, FiniteSetTheorems, SequenceTheorems, WellFoundedInduction, TLAPS

-----------------------------------------------------------------------------
(* The GXCCD driver: the order of commands, pulled cables, reconnections   *)
(* and exposures.                                                          *)

ExposureOK ==
    /\ exposing.on \in BOOLEAN /\ exposing.ready \in BOOLEAN
    /\ exposing = [on |-> exposing.on, ready |-> exposing.ready, time |-> exposing.time,
                   window |-> exposing.window]

\* The driver's fields and the camera's are of their types, and an exposure
\* is a record.
GxccdInv == TypeOK /\ ExposureOK

\* The full window fits the chip.
LEMMA FullWindowFits ==
    /\ FullWindow \in Windows \cup {FullWindow}
    /\ Shape(FullWindow) \in (1 .. MaxWidth) \X (1 .. MaxHeight)
BY GxccdAssumption DEF GxccdAssumption, FullWindow, Shape

\* A new exposure is a record.
LEMMA NewExposureIsOne ==
    ASSUME NEW t, NEW w, exposing' = NewExposure(t, w)
    PROVE  ExposureOK' /\ exposing'.on
BY DEF NewExposure, ExposureOK

\* So is none.
LEMMA NoExposureIsOne ==
    ASSUME exposing' = NoExposure
    PROVE  ExposureOK' /\ ~exposing'.on
BY DEF NoExposure, ExposureOK

\* set_grabber gives a window of the chip.
LEMMA WindowForFits ==
    ASSUME NEW w \in Windows
    PROVE  /\ WindowFor(w) \in Windows \cup {FullWindow}
           /\ Shape(WindowFor(w)) \in (1 .. MaxWidth) \X (1 .. MaxHeight)
<1>1. CASE w[3] \in 1 .. MaxWidth /\ w[4] \in 1 .. MaxHeight
    BY <1>1 DEF WindowFor, Shape
<1>2. CASE ~(w[3] \in 1 .. MaxWidth /\ w[4] \in 1 .. MaxHeight)
    BY <1>2, FullWindowFits DEF WindowFor
<1> QED BY <1>1, <1>2

\* What a reconnection sets is of its type.
LEMMA InitCameraTyped ==
    ASSUME InitCamera, plugged' = TRUE
    PROVE  /\ camera' = "ok" /\ ExposureOK' /\ ~exposing'.on
           /\ parameter' \in Values /\ device' \in Values /\ device' = parameter'
           /\ window' \in Windows \cup {FullWindow}
           /\ Shape(window') \in (1 .. MaxWidth) \X (1 .. MaxHeight)
BY FullWindowFits, NoExposureIsOne, GxccdAssumption DEF InitCamera, GxccdAssumption

LEMMA GxccdInit == Init => GxccdInv
<1> SUFFICES ASSUME Init PROVE GxccdInv
    OBVIOUS
<1>1. ExposureOK
    BY DEF Init, NoExposure, ExposureOK
<1>2. device \in Values /\ parameter \in Values
    BY GxccdAssumption DEF Init, GxccdAssumption
<1>3. /\ window \in Windows \cup {FullWindow}
      /\ camera = "ok" => plugged /\ Shape(window) \in (1 .. MaxWidth) \X (1 .. MaxHeight)
    BY FullWindowFits, GxccdAssumption DEF Init, GxccdAssumption
<1>4. waited \in 0 .. ReconnectDelay
    BY GxccdAssumption DEF Init, GxccdAssumption
<1>5. /\ plugged \in BOOLEAN /\ is_acquiring \in BOOLEAN
      /\ is_acquisition \in BOOLEAN /\ renewed \in BOOLEAN
      /\ camera \in {None, "ok", "lost"} /\ exposure \in Exposures
    BY DEF Init
<1> QED BY <1>1, <1>2, <1>3, <1>4, <1>5 DEF GxccdInv, TypeOK

LEMMA GxccdStep == GxccdInv /\ [Next]_vars => GxccdInv'
<1> SUFFICES ASSUME GxccdInv, [Next]_vars PROVE GxccdInv'
    OBVIOUS
<1> USE DEF GxccdInv
<1>1. CASE WaitToReconnect
    BY <1>1, GxccdAssumption DEF GxccdAssumption, WaitToReconnect, KeepTime, TypeOK, ExposureOK, settings
<1>2. CASE TryToReconnect
    <2>1. CASE plugged
        <3>1. InitCamera /\ plugged' = TRUE /\ waited' = 0 /\ renewed' = TRUE
            BY <1>2, <2>1 DEF TryToReconnect
        <3>2. waited' \in 0 .. ReconnectDelay
            BY <3>1, GxccdAssumption DEF GxccdAssumption
        <3> QED BY <1>2, <3>1, <3>2, InitCameraTyped DEF TryToReconnect, TypeOK
    <2>2. CASE ~plugged
        <3>1. waited' \in 0 .. ReconnectDelay
            BY <1>2, GxccdAssumption DEF GxccdAssumption, TryToReconnect
        <3> QED BY <1>2, <2>2, <3>1, GxccdAssumption
                DEF GxccdAssumption, TryToReconnect, TypeOK, ExposureOK
    <2> QED BY <2>1, <2>2
<1>3. CASE ReadImage
    <2>1. ExposureOK'
        BY <1>3, NewExposureIsOne DEF ReadImage, NextExposure
    <2> QED BY <1>3, <2>1 DEF ReadImage, TypeOK, settings
<1>4. CASE Start
    <2>1. ExposureOK'
        BY <1>4, NewExposureIsOne DEF Start, ExposureOK
    <2> QED BY <1>4, <2>1 DEF Start, TypeOK, settings
<1>5. CASE Stop
    <2>1. ExposureOK'
        BY <1>5, NoExposureIsOne DEF Stop, Abort, ExposureOK
    <2> QED BY <1>5, <2>1 DEF Stop, TypeOK, settings
<1>6. CASE Commands
    <2> PICK e \in Exposures \cup {None}, value \in Values \cup {None},
             w \in Windows \cup {None} : Command(e, value, w)
        BY <1>6 DEF Commands
    <2>1. ExposureOK'
        BY DEF Command, ExposureOK
    <2>2. exposure' \in Exposures /\ parameter' \in Values /\ device' \in Values
        BY DEF Command, TypeOK
    <2>3. /\ window' \in Windows \cup {FullWindow}
          /\ camera = "ok" => Shape(window') \in (1 .. MaxWidth) \X (1 .. MaxHeight)
        BY WindowForFits DEF Command, TypeOK
    <2> QED BY <2>1, <2>2, <2>3 DEF Command, TypeOK
<1>7. CASE ExposureEnds
    <2>1. ExposureOK'
        BY <1>7 DEF ExposureEnds, ExposureOK
    <2> QED BY <1>7, <2>1 DEF ExposureEnds, TypeOK, settings
<1>8. CASE Unplug
    <2>1. ExposureOK'
        BY <1>8, NoExposureIsOne DEF Unplug
    <2>2. camera' \in {None, "lost"} /\ plugged' = FALSE
        BY <1>8 DEF Unplug
    <2>3. camera' # "ok"
        BY <2>2, GxccdAssumption DEF GxccdAssumption
    <2> QED BY <1>8, <2>1, <2>2, <2>3 DEF Unplug, TypeOK, settings
<1>9. CASE PlugIn
    BY <1>9 DEF PlugIn, TypeOK, ExposureOK, settings
<1>10. CASE Tick
    BY <1>10, GxccdAssumption DEF GxccdAssumption, Tick, TypeOK, ExposureOK, settings
<1>11. CASE UNCHANGED vars
    BY <1>11 DEF vars, settings, TypeOK, ExposureOK
<1> QED BY <1>1, <1>2, <1>3, <1>4, <1>5, <1>6, <1>7, <1>8, <1>9, <1>10, <1>11
        DEF Next, WaitImage, NoImage

LEMMA GxccdInvAlways == Init /\ [][Next]_vars => []GxccdInv
<1> QED BY GxccdInit, GxccdStep, PTL

(* Three invariants that each step keeps by itself. *)

LEMMA GoesOnStep == AcquisitionGoesOn /\ GxccdInv /\ [Next]_vars => AcquisitionGoesOn'
<1> SUFFICES ASSUME AcquisitionGoesOn, GxccdInv, [Next]_vars PROVE AcquisitionGoesOn'
    OBVIOUS
<1> USE DEF AcquisitionGoesOn, GxccdInv
<1>1. CASE WaitToReconnect
    BY <1>1, GxccdAssumption DEF GxccdAssumption, WaitToReconnect
<1>2. CASE TryToReconnect
    BY <1>2, GxccdAssumption DEF GxccdAssumption, TryToReconnect
<1>3. CASE ReadImage
    BY <1>3, NewExposureIsOne DEF ReadImage, NextExposure
<1>4. CASE Start
    BY <1>4, NewExposureIsOne DEF Start, Works
<1>5. CASE Stop
    BY <1>5, GxccdAssumption DEF GxccdAssumption, Stop
<1>6. CASE Commands
    BY <1>6 DEF Commands, Command
<1>7. CASE ExposureEnds
    BY <1>7 DEF ExposureEnds, ExposureOK
<1>8. CASE Unplug
    BY <1>8, GxccdAssumption DEF GxccdAssumption, Unplug
<1>9. CASE PlugIn
    BY <1>9 DEF PlugIn
<1>10. CASE Tick
    BY <1>10 DEF Tick
<1>11. CASE UNCHANGED vars
    BY <1>11 DEF vars
<1> QED BY <1>1, <1>2, <1>3, <1>4, <1>5, <1>6, <1>7, <1>8, <1>9, <1>10, <1>11
        DEF Next, WaitImage, NoImage

LEMMA IdleStep == IdleWhenStopped /\ GxccdInv /\ [Next]_vars => IdleWhenStopped'
<1> SUFFICES ASSUME IdleWhenStopped, GxccdInv, [Next]_vars PROVE IdleWhenStopped'
    OBVIOUS
<1> USE DEF IdleWhenStopped, GxccdInv
<1>1. CASE WaitToReconnect
    BY <1>1, GxccdAssumption DEF GxccdAssumption, WaitToReconnect
<1>2. CASE TryToReconnect
    BY <1>2, GxccdAssumption DEF GxccdAssumption, TryToReconnect, InitCamera, NoExposure
<1>3. CASE ReadImage
    BY <1>3 DEF ReadImage
<1>4. CASE Start
    BY <1>4, GxccdAssumption DEF GxccdAssumption, Start
<1>5. CASE Stop
    BY <1>5, NoExposureIsOne, GxccdAssumption DEF GxccdAssumption, Stop, Abort, Works
<1>6. CASE Commands
    BY <1>6 DEF Commands, Command
<1>7. CASE ExposureEnds
    BY <1>7 DEF ExposureEnds, Works
<1>8. CASE Unplug
    BY <1>8, GxccdAssumption DEF GxccdAssumption, Unplug
<1>9. CASE PlugIn
    BY <1>9 DEF PlugIn
<1>10. CASE Tick
    BY <1>10 DEF Tick
<1>11. CASE UNCHANGED vars
    BY <1>11 DEF vars
<1> QED BY <1>1, <1>2, <1>3, <1>4, <1>5, <1>6, <1>7, <1>8, <1>9, <1>10, <1>11
        DEF Next, WaitImage, NoImage

LEMMA ParametersStep == ParametersAreSet /\ [Next]_vars => ParametersAreSet'
<1> SUFFICES ASSUME ParametersAreSet, [Next]_vars PROVE ParametersAreSet'
    OBVIOUS
<1> USE DEF ParametersAreSet
<1>1. CASE WaitToReconnect
    BY <1>1, GxccdAssumption DEF GxccdAssumption, WaitToReconnect
<1>2. CASE TryToReconnect
    BY <1>2, GxccdAssumption DEF GxccdAssumption, TryToReconnect, InitCamera
<1>3. CASE ReadImage
    BY <1>3 DEF ReadImage, settings
<1>4. CASE Start \/ Stop
    BY <1>4 DEF Start, Stop, settings
<1>5. CASE Commands
    BY <1>5, GxccdAssumption DEF GxccdAssumption, Commands, Command, Works
<1>6. CASE ExposureEnds \/ PlugIn \/ Tick
    BY <1>6 DEF ExposureEnds, PlugIn, Tick, settings
<1>7. CASE Unplug
    BY <1>7, GxccdAssumption DEF GxccdAssumption, Unplug
<1>8. CASE UNCHANGED vars
    BY <1>8 DEF vars, settings
<1> QED BY <1>1, <1>2, <1>3, <1>4, <1>5, <1>6, <1>7, <1>8 DEF Next, WaitImage, NoImage

-----------------------------------------------------------------------------
(* The Andor driver: buffers that go round.                                *)

Bufs(s) == {s[i].buf : i \in 1..Len(s)}
Distinct(s) == \A i, j \in 1..Len(s) : s[i].buf = s[j].buf => i = j

EmptyBuffers == [buf : Addresses, size : AndorBinnings]
FilledBuffers == [buf : Addresses, size : AndorBinnings, exposed : AndorBinnings]

\* An idle driver has nothing in the SDK, so that what is there has the size
\* and the binning of now.
AndorSettings ==
    /\ binning \in AndorBinnings /\ adding \in Nat
    /\ queue \in Seq(EmptyBuffers) /\ filled \in Seq(FilledBuffers)
    /\ ~acquiring => filled = <<>> /\ (adding = 0 => queue = <<>>)
    /\ \A i \in 1..Len(queue) : queue[i].size = binning
    /\ \A i \in 1..Len(filled) : filled[i].exposed = binning
    /\ Andor!FramesTellTheirBinning

\* The buffers in the SDK are distinct, and those of the table; with those
\* that a start has still to add they are a ring.
AndorRing ==
    /\ chunks = Bufs(queue) \cup Bufs(filled) /\ heap = chunks
    /\ Distinct(queue) /\ Distinct(filled) /\ Bufs(queue) \cap Bufs(filled) = {}
    /\ IsFiniteSet(chunks) /\ Cardinality(chunks) = Len(queue) + Len(filled)
    /\ acquiring \/ adding > 0 => Cardinality(chunks) + adding >= RingSize

AndorInv ==
    /\ faults \in Nat /\ AndorSettings
    /\ faults = 0 => AndorRing

LEMMA BufsAppend ==
    ASSUME NEW S, NEW s \in Seq(S), NEW x \in S
    PROVE  /\ Append(s, x) \in Seq(S) /\ Len(Append(s, x)) = Len(s) + 1 /\ Len(s) \in Nat
           /\ \A i \in 1..Len(Append(s, x)) :
                 \/ i \in 1..Len(s) /\ Append(s, x)[i] = s[i]
                 \/ i = Len(s) + 1 /\ Append(s, x)[i] = x
           /\ Bufs(Append(s, x)) = Bufs(s) \cup {x.buf}
           /\ Distinct(s) /\ x.buf \notin Bufs(s) => Distinct(Append(s, x))
<1> DEFINE t == Append(s, x)
<1>1. /\ t \in Seq(S) /\ Len(t) = Len(s) + 1 /\ Len(s) \in Nat
      /\ \A i \in 1..Len(s) : t[i] = s[i]
      /\ t[Len(s) + 1] = x
    BY AppendProperties, LenProperties
<1> HIDE DEF t
<1>2. \A i \in 1..Len(t) : \/ i \in 1..Len(s) /\ t[i] = s[i]
                           \/ i = Len(s) + 1 /\ t[i] = x
    BY <1>1
<1>3. Bufs(t) = Bufs(s) \cup {x.buf}
    BY <1>1, <1>2 DEF Bufs
<1>4. ASSUME Distinct(s), x.buf \notin Bufs(s) PROVE Distinct(t)
    BY <1>1, <1>2, <1>4 DEF Distinct, Bufs
<1>5. QED
    BY <1>1, <1>2, <1>3, <1>4 DEF t

LEMMA BufsTail ==
    ASSUME NEW S, NEW s \in Seq(S), s # <<>>
    PROVE  /\ Tail(s) \in Seq(S) /\ Len(Tail(s)) = Len(s) - 1 /\ Len(s) \in Nat \ {0}
           /\ Head(s) = s[1] /\ Head(s) \in S
           /\ \A i \in 1..Len(Tail(s)) : i + 1 \in 1..Len(s) /\ Tail(s)[i] = s[i + 1]
           /\ Bufs(s) = Bufs(Tail(s)) \cup {Head(s).buf}
           /\ Distinct(s) => Distinct(Tail(s)) /\ Head(s).buf \notin Bufs(Tail(s))
<1> DEFINE t == Tail(s)
<1>1. /\ t \in Seq(S) /\ Len(t) = Len(s) - 1 /\ Len(s) \in Nat \ {0}
      /\ Head(s) = s[1] /\ Head(s) \in S
      /\ \A i \in 1..Len(t) : t[i] = s[i + 1]
    BY HeadTailProperties, LenProperties, ElementOfSeq, EmptySeq
<1> HIDE DEF t
<1>2. \A i \in 1..Len(t) : i + 1 \in 1..Len(s)
    BY <1>1
<1>3. \A i \in 1..Len(s) : i = 1 \/ (i - 1 \in 1..Len(t) /\ t[i - 1] = s[i])
    BY <1>1
<1>4. 1 \in 1..Len(s)
    BY <1>1
<1>5. Bufs(s) \subseteq Bufs(t) \cup {Head(s).buf}
    BY <1>1, <1>3 DEF Bufs
<1>6. Bufs(t) \cup {Head(s).buf} \subseteq Bufs(s)
    BY <1>1, <1>2, <1>4 DEF Bufs
<1>7. ASSUME Distinct(s) PROVE Distinct(t) /\ Head(s).buf \notin Bufs(t)
  <2>1. Distinct(t)
    <3> SUFFICES ASSUME NEW i \in 1..Len(t), NEW j \in 1..Len(t), t[i].buf = t[j].buf
                 PROVE  i = j
        BY DEF Distinct
    <3>1. i + 1 = j + 1
        BY <1>1, <1>2, <1>7 DEF Distinct
    <3>2. QED
        BY <1>1, <3>1
  <2>2. ASSUME NEW i \in 1..Len(t), t[i].buf = s[1].buf PROVE FALSE
    <3>1. i + 1 = 1
        BY <1>1, <1>2, <1>4, <1>7, <2>2 DEF Distinct
    <3>2. QED
        BY <1>1, <3>1
  <2>3. QED
      BY <1>1, <2>1, <2>2 DEF Bufs
<1>8. QED
    BY <1>1, <1>2, <1>5, <1>6, <1>7 DEF t

LEMMA NoBufs ==
    /\ Bufs(<<>>) = {} /\ Distinct(<<>>) /\ Len(<<>>) = 0 /\ 1..Len(<<>>) = {}
    /\ <<>> \in Seq(EmptyBuffers) /\ <<>> \in Seq(FilledBuffers)
<1>1. Len(<<>>) = 0 /\ <<>> \in Seq(EmptyBuffers) /\ <<>> \in Seq(FilledBuffers)
    BY EmptySeq
<1>2. 1..Len(<<>>) = {}
    BY <1>1
<1>3. QED
    BY <1>1, <1>2 DEF Bufs, Distinct

\* The module's own instance of FiniteSets counts as every other.
LEMMA SameCardinality == ASSUME NEW S PROVE Andor!Cardinality(S) = Cardinality(S)
    BY DEF Andor!Cardinality, Cardinality

LEMMA AndorInvImplies == AndorInv => Andor!RingIsKept /\ Andor!FramesTellTheirBinning
<1> SUFFICES ASSUME AndorInv PROVE Andor!RingIsKept /\ Andor!FramesTellTheirBinning
    OBVIOUS
<1>1. /\ queue \in Seq(EmptyBuffers) /\ filled \in Seq(FilledBuffers)
      /\ binning \in Nat /\ Andor!FramesTellTheirBinning
    BY PartsAssumption DEF AndorInv, AndorSettings
<1>2. DOMAIN queue = 1..Len(queue)
    BY <1>1, LenProperties
<1>3. \A i \in DOMAIN queue : Andor!LargeEnough(queue[i])
    BY <1>1, <1>2 DEF AndorInv, AndorSettings, Andor!LargeEnough
<1>4. Andor!Buffers(queue \o filled) = Bufs(queue) \cup Bufs(filled)
  <2> DEFINE S == EmptyBuffers \cup FilledBuffers
             c == queue \o filled
  <2>1. queue \in Seq(S) /\ filled \in Seq(S)
      BY <1>1, SeqMonotonic
  <2>2. /\ c \in Seq(S) /\ Len(c) = Len(queue) + Len(filled)
        /\ Len(queue) \in Nat /\ Len(filled) \in Nat
        /\ \A i \in 1..Len(c) : c[i] = IF i <= Len(queue) THEN queue[i]
                                       ELSE filled[i - Len(queue)]
      BY <2>1, ConcatProperties, LenProperties
  <2>3. DOMAIN c = 1..Len(c)
      BY <2>2, LenProperties
  <2> HIDE DEF S, c
  <2>4. \A i \in 1..Len(c) : \/ i \in 1..Len(queue) /\ c[i] = queue[i]
                             \/ /\ i - Len(queue) \in 1..Len(filled)
                                /\ c[i] = filled[i - Len(queue)]
      BY <2>2
  <2>5. Andor!Buffers(c) \subseteq Bufs(queue) \cup Bufs(filled)
      BY <2>3, <2>4 DEF Andor!Buffers, Bufs
  <2>6. \A i \in 1..Len(queue) : i \in 1..Len(c) /\ c[i] = queue[i]
      BY <2>2
  <2>7. \A i \in 1..Len(filled) : i + Len(queue) \in 1..Len(c)
                                    /\ c[i + Len(queue)] = filled[i]
      BY <2>2
  <2>8. Bufs(queue) \subseteq Andor!Buffers(c) /\ Bufs(filled) \subseteq Andor!Buffers(c)
      BY <2>3, <2>6, <2>7 DEF Andor!Buffers, Bufs
  <2>9. QED
      BY <2>5, <2>8 DEF c
<1>5. faults = 0 /\ acquiring /\ adding = 0 => Cardinality(chunks) >= RingSize
  <2>1. SUFFICES ASSUME faults = 0, acquiring /\ adding = 0
                 PROVE  Cardinality(chunks) >= RingSize
      OBVIOUS
  <2>2. Cardinality(chunks) \in Nat /\ Cardinality(chunks) + 0 >= RingSize
      BY <2>1, FS_CardinalityType DEF AndorInv, AndorRing
  <2>3. QED
      BY <2>2
<1>6. faults = 0 => /\ chunks = Andor!Buffers(queue \o filled) /\ heap = chunks
                    /\ Cardinality(chunks) = Len(queue) + Len(filled)
    BY <1>4 DEF AndorInv, AndorRing
<1>7. QED
    BY <1>1, <1>3, <1>5, <1>6, SameCardinality DEF Andor!RingIsKept

LEMMA AndorInit == Andor!Init => AndorInv
<1> SUFFICES ASSUME Andor!Init PROVE AndorInv
    OBVIOUS
<1>1. /\ binning \in AndorBinnings /\ acquiring = FALSE /\ heap = {} /\ chunks = {}
      /\ queue = <<>> /\ filled = <<>> /\ adding = 0 /\ faults = 0 /\ shot = None
    BY DEF Andor!Init
<1>2. IsFiniteSet(chunks) /\ Cardinality(chunks) = 0 /\ Len(<<>>) = 0
    BY <1>1, FS_EmptySet
<1>3. AndorSettings
    BY <1>1, NoBufs DEF AndorSettings, Andor!FramesTellTheirBinning
<1>4. AndorRing
    BY <1>1, <1>2, NoBufs DEF AndorRing
<1>5. QED
    BY <1>1, <1>3, <1>4 DEF AndorInv

\* A buffer is added to the queue, or the SDK refuses it.
LEMMA AddBufferSettings ==
    ASSUME AndorInv, NEW table, NEW done, Andor!AddBuffer(table, done), binning' = binning
    PROVE  /\ queue' \in Seq(EmptyBuffers) /\ faults' \in Nat
           /\ \A i \in 1..Len(queue') : queue'[i].size = binning
           /\ faults' = 0 =>
                /\ faults = 0
                /\ \E b \in Addresses \ heap :
                     /\ queue' = Append(queue, Andor!Buffer(b)) /\ chunks' = table \cup {b}
                     /\ heap' = (heap \cup ({b} \ table)) \ done
<1>1. PICK b \in Addresses \ heap :
        /\ \/ /\ faults' = faults /\ queue' = Append(queue, Andor!Buffer(b))
              /\ heap' = (heap \cup ({b} \ table)) \ done
           \/ faults' = faults + 1 /\ queue' = queue
        /\ chunks' = table \cup {b}
    BY DEF Andor!AddBuffer, Andor!NoFault, Andor!Fault
<1>2. /\ queue \in Seq(EmptyBuffers) /\ faults \in Nat /\ binning \in AndorBinnings
      /\ \A i \in 1..Len(queue) : queue[i].size = binning
    BY DEF AndorInv, AndorSettings
<1>3. Andor!Buffer(b) \in EmptyBuffers /\ Andor!Buffer(b).size = binning
    BY <1>2 DEF Andor!Buffer, EmptyBuffers
<1>4. CASE faults' = faults + 1 /\ queue' = queue
    BY <1>2, <1>4
<1>5. CASE /\ faults' = faults /\ queue' = Append(queue, Andor!Buffer(b))
           /\ heap' = (heap \cup ({b} \ table)) \ done
  <2>1. /\ queue' \in Seq(EmptyBuffers)
        /\ \A i \in 1..Len(queue') : \/ i \in 1..Len(queue) /\ queue'[i] = queue[i]
                                     \/ queue'[i] = Andor!Buffer(b)
      BY <1>2, <1>3, <1>5, BufsAppend
  <2>2. QED
      BY <1>1, <1>2, <1>3, <1>5, <2>1
<1>6. QED
    BY <1>1, <1>4, <1>5

LEMMA AndorStart == ASSUME AndorInv, Andor!Start PROVE AndorInv'
<1>1. /\ adding' = RingSize /\ RingSize \in Nat \ {0}
      /\ UNCHANGED <<binning, acquiring, heap, chunks, queue, filled, faults, shot>>
    BY PartsAssumption DEF Andor!Start
<1>2. AndorSettings'
    BY <1>1 DEF AndorInv, AndorSettings, Andor!FramesTellTheirBinning
<1>3. ASSUME faults = 0 PROVE AndorRing'
  <2>1. AndorRing /\ Cardinality(chunks) \in Nat
      BY <1>3, FS_CardinalityType DEF AndorInv, AndorRing
  <2>2. /\ Bufs(queue)' = Bufs(queue) /\ Bufs(filled)' = Bufs(filled)
        /\ Distinct(queue)' = Distinct(queue) /\ Distinct(filled)' = Distinct(filled)
      BY <1>1 DEF Bufs, Distinct
  <2>3. Cardinality(chunks') + adding' >= RingSize
      BY <1>1, <2>1
  <2>4. QED
      BY <1>1, <2>1, <2>2, <2>3 DEF AndorRing
<1>4. QED
    BY <1>1, <1>2, <1>3 DEF AndorInv

LEMMA AndorAdd == ASSUME AndorInv, Andor!StartAdd \/ Andor!StartLast PROVE AndorInv'
<1>1. /\ Andor!AddBuffer(chunks, {}) /\ UNCHANGED <<binning, filled, shot>>
      /\ adding \in Nat \ {0} /\ adding' = adding - 1
      /\ \/ acquiring' = acquiring /\ adding > 1
         \/ acquiring' = TRUE
    BY DEF Andor!StartAdd, Andor!StartLast, AndorInv, AndorSettings
<1>2. /\ queue' \in Seq(EmptyBuffers) /\ faults' \in Nat
      /\ \A i \in 1..Len(queue') : queue'[i].size = binning
    BY <1>1, AddBufferSettings
<1>3. AndorSettings'
  <2>1. ~acquiring' => filled' = <<>> /\ adding' # 0
      BY <1>1 DEF AndorInv, AndorSettings
  <2>2. adding' \in Nat
      BY <1>1
  <2>3. QED
      BY <1>1, <1>2, <2>1, <2>2 DEF AndorInv, AndorSettings, Andor!FramesTellTheirBinning
<1>4. ASSUME faults' = 0 PROVE AndorRing'
  <2>1. PICK b \in Addresses \ heap :
            /\ queue' = Append(queue, Andor!Buffer(b)) /\ chunks' = chunks \cup {b}
            /\ heap' = (heap \cup ({b} \ chunks)) \ {}
      BY <1>1, <1>4, AddBufferSettings
  <2>2. faults = 0
      BY <1>1, <1>4, AddBufferSettings
  <2>3. AndorRing /\ Cardinality(chunks) \in Nat
      BY <2>2, FS_CardinalityType DEF AndorInv, AndorRing
  <2>4. Andor!Buffer(b) \in EmptyBuffers /\ Andor!Buffer(b).buf = b
      BY DEF AndorInv, AndorSettings, Andor!Buffer, EmptyBuffers
  <2>5. queue \in Seq(EmptyBuffers) /\ filled \in Seq(FilledBuffers)
      BY DEF AndorInv, AndorSettings
  <2>6. b \notin Bufs(queue) /\ b \notin Bufs(filled) /\ b \notin chunks
      BY <2>3 DEF AndorRing
  <2>7. /\ Len(queue') = Len(queue) + 1 /\ Len(queue) \in Nat /\ Len(filled) \in Nat
        /\ Bufs(queue') = Bufs(queue) \cup {b} /\ Distinct(queue')
      BY <2>1, <2>3, <2>4, <2>5, <2>6, BufsAppend, LenProperties DEF AndorRing
  <2>8. IsFiniteSet(chunks') /\ Cardinality(chunks') = Cardinality(chunks) + 1
      BY <2>1, <2>3, <2>6, FS_AddElement DEF AndorRing
  <2>9. /\ chunks' = Bufs(queue') \cup Bufs(filled') /\ heap' = chunks'
        /\ Distinct(filled') /\ Bufs(queue') \cap Bufs(filled') = {}
      BY <1>1, <2>1, <2>3, <2>6, <2>7 DEF AndorRing
  <2>10. Cardinality(chunks') = Len(queue') + Len(filled')
      BY <1>1, <2>3, <2>7, <2>8 DEF AndorRing
  <2>11. Cardinality(chunks') + adding' >= RingSize
      BY <1>1, <2>3, <2>8, PartsAssumption DEF AndorRing
  <2>12. QED
      BY <2>7, <2>8, <2>9, <2>10, <2>11 DEF AndorRing
<1>5. QED
    BY <1>2, <1>3, <1>4 DEF AndorInv

\* After a stop nothing is left.
LEMMA AndorStopped ==
    ASSUME AndorInv, Andor!AcquisitionStop, faults' = faults, shot' = shot,
           binning' \in AndorBinnings, adding' \in {0, RingSize}
    PROVE  AndorInv'
<1>1. /\ acquiring' = FALSE /\ queue' = <<>> /\ filled' = <<>> /\ chunks' = {}
      /\ heap' = heap \ chunks
    BY DEF Andor!AcquisitionStop, Andor!Flush
<1>2. AndorSettings'
  <2>1. adding' \in Nat
      BY PartsAssumption
  <2>2. QED
      BY <1>1, <2>1, NoBufs DEF AndorInv, AndorSettings, Andor!FramesTellTheirBinning
<1>3. ASSUME faults = 0 PROVE AndorRing'
  <2>1. heap' = {}
      BY <1>1, <1>3 DEF AndorInv, AndorRing
  <2>2. IsFiniteSet({}) /\ Cardinality({}) = 0 /\ Len(<<>>) = 0
      BY FS_EmptySet
  <2>3. adding' > 0 => 0 + adding' >= RingSize
    <3>1. RingSize \in Nat /\ adding' \in Nat
        BY PartsAssumption
    <3>2. CASE adding' = 0
        BY <3>2
    <3>3. CASE adding' = RingSize
        BY <3>1, <3>3
    <3>4. QED
        BY <3>2, <3>3
  <2>4. Bufs(queue') = {} /\ Bufs(filled') = {} /\ Distinct(queue') /\ Distinct(filled')
      BY <1>1, NoBufs
  <2>5. QED
      BY <1>1, <2>1, <2>2, <2>3, <2>4 DEF AndorRing
<1>4. QED
    BY <1>2, <1>3 DEF AndorInv

LEMMA AndorCommand == ASSUME AndorInv, Andor!Command PROVE AndorInv'
<1>1. /\ Andor!StopToSet /\ binning' \in AndorBinnings /\ adding = 0
      /\ faults' = faults /\ shot' = shot
    BY DEF Andor!Command
<1>2. CASE acquiring
    BY <1>1, <1>2, AndorStopped DEF Andor!StopToSet
<1>3. CASE ~acquiring
  <2>1. UNCHANGED <<acquiring, heap, chunks, queue, filled, adding>>
      BY <1>1, <1>3 DEF Andor!StopToSet
  <2>2. queue = <<>> /\ filled = <<>>
      BY <1>1, <1>3 DEF AndorInv, AndorSettings
  <2>3. AndorSettings'
      BY <1>1, <1>3, <2>1, <2>2, NoBufs
         DEF AndorInv, AndorSettings, Andor!FramesTellTheirBinning
  <2>4. AndorRing => AndorRing'
    <3>1. /\ Bufs(queue)' = Bufs(queue) /\ Bufs(filled)' = Bufs(filled)
          /\ Distinct(queue)' = Distinct(queue) /\ Distinct(filled)' = Distinct(filled)
        BY <2>1 DEF Bufs, Distinct
    <3>2. QED
        BY <2>1, <3>1 DEF AndorRing
  <2>5. QED
      BY <1>1, <2>3, <2>4 DEF AndorInv
<1>4. QED
    BY <1>2, <1>3

\* The oldest of the filled buffers leaves the SDK.
LEMMA AndorTaken ==
    ASSUME AndorInv, filled # <<>>, filled' = Tail(filled), binning' = binning
    PROVE  /\ filled' \in Seq(FilledBuffers)
           /\ \A i \in 1..Len(filled') : filled'[i].exposed = binning
           /\ Head(filled).exposed = binning
           /\ acquiring
<1>1. /\ filled \in Seq(FilledBuffers) /\ acquiring
      /\ \A i \in 1..Len(filled) : filled[i].exposed = binning
    BY DEF AndorInv, AndorSettings
<1>2. /\ Tail(filled) \in Seq(FilledBuffers) /\ Head(filled) = filled[1]
      /\ Len(filled) \in Nat \ {0}
      /\ \A i \in 1..Len(Tail(filled)) : i + 1 \in 1..Len(filled)
                                           /\ Tail(filled)[i] = filled[i + 1]
    BY <1>1, BufsTail
<1>3. QED
    BY <1>1, <1>2

LEMMA AndorWrong == ASSUME AndorInv, Andor!WrongBuffer PROVE AndorInv'
<1>1. /\ filled # <<>> /\ Head(filled).buf \notin chunks /\ filled' = Tail(filled)
      /\ UNCHANGED <<binning, acquiring, heap, chunks, queue, adding, faults, shot>>
    BY DEF Andor!WrongBuffer
<1>2. AndorSettings'
    BY <1>1, AndorTaken DEF AndorInv, AndorSettings, Andor!FramesTellTheirBinning
<1>3. ASSUME faults = 0 PROVE FALSE
  <2>1. Head(filled).buf \in Bufs(filled)
      BY <1>1, BufsTail DEF AndorInv, AndorSettings
  <2>2. QED
      BY <1>1, <1>3, <2>1 DEF AndorInv, AndorRing
<1>4. QED
    BY <1>1, <1>2, <1>3 DEF AndorInv

LEMMA AndorWait == ASSUME AndorInv, Andor!WaitImage PROVE AndorInv'
<1> DEFINE h == Head(filled).buf
<1>1. /\ adding = 0 /\ filled # <<>> /\ h \in chunks /\ filled' = Tail(filled)
      /\ Andor!AddBuffer(chunks \ {h}, {h})
      /\ shot' = [BINNING |-> binning, exposed |-> Head(filled).exposed]
      /\ UNCHANGED <<binning, acquiring, adding>>
    BY DEF Andor!WaitImage
<1> HIDE DEF h
<1>2. /\ queue' \in Seq(EmptyBuffers) /\ faults' \in Nat
      /\ \A i \in 1..Len(queue') : queue'[i].size = binning
    BY <1>1, AddBufferSettings
<1>3. AndorSettings'
    BY <1>1, <1>2, AndorTaken DEF AndorInv, AndorSettings, Andor!FramesTellTheirBinning
<1>4. ASSUME faults' = 0 PROVE AndorRing'
  <2>1. PICK b \in Addresses \ heap :
            /\ queue' = Append(queue, Andor!Buffer(b)) /\ chunks' = (chunks \ {h}) \cup {b}
            /\ heap' = (heap \cup ({b} \ (chunks \ {h}))) \ {h}
      BY <1>1, <1>4, AddBufferSettings
  <2>2. faults = 0
      BY <1>1, <1>4, AddBufferSettings
  <2>3. AndorRing /\ Cardinality(chunks) \in Nat
      BY <2>2, FS_CardinalityType DEF AndorInv, AndorRing
  <2>4. Andor!Buffer(b) \in EmptyBuffers /\ Andor!Buffer(b).buf = b
      BY DEF AndorInv, AndorSettings, Andor!Buffer, EmptyBuffers
  <2>5. queue \in Seq(EmptyBuffers) /\ filled \in Seq(FilledBuffers)
      BY DEF AndorInv, AndorSettings
  <2>6. b \notin Bufs(queue) /\ b \notin Bufs(filled) /\ b \notin chunks
      BY <2>3 DEF AndorRing
  <2>7. /\ Len(queue') = Len(queue) + 1 /\ Len(queue) \in Nat
        /\ Bufs(queue') = Bufs(queue) \cup {b} /\ Distinct(queue')
      BY <2>1, <2>3, <2>4, <2>5, <2>6, BufsAppend DEF AndorRing
  <2>8. /\ Len(filled') = Len(filled) - 1 /\ Len(filled) \in Nat \ {0}
        /\ Bufs(filled) = Bufs(filled') \cup {h}
        /\ Distinct(filled') /\ h \notin Bufs(filled')
      BY <1>1, <2>3, <2>5, BufsTail DEF AndorRing, h
  <2>9. h \notin Bufs(queue) /\ b # h /\ h \in heap
      BY <1>1, <2>3, <2>6, <2>8 DEF AndorRing
  <2>10. /\ IsFiniteSet(chunks \ {h}) /\ Cardinality(chunks \ {h}) = Cardinality(chunks) - 1
      BY <1>1, <2>3, FS_RemoveElement DEF AndorRing
  <2>11. IsFiniteSet(chunks') /\ Cardinality(chunks') = Cardinality(chunks)
    <3>1. b \notin chunks \ {h}
        BY <2>6
    <3>2. /\ IsFiniteSet((chunks \ {h}) \cup {b})
          /\ Cardinality((chunks \ {h}) \cup {b}) = Cardinality(chunks \ {h}) + 1
        BY <2>10, <3>1, FS_AddElement
    <3>3. QED
        BY <2>1, <2>3, <2>10, <3>2
  <2>12. /\ chunks' = Bufs(queue') \cup Bufs(filled')
         /\ Bufs(queue') \cap Bufs(filled') = {}
      BY <2>1, <2>3, <2>6, <2>7, <2>8, <2>9 DEF AndorRing
  <2>13. heap' = chunks'
      BY <2>1, <2>3, <2>6, <2>9 DEF AndorRing
  <2>14. Cardinality(chunks') = Len(queue') + Len(filled')
      BY <2>3, <2>7, <2>8, <2>11 DEF AndorRing
  <2>15. Cardinality(chunks') + adding' >= RingSize
      BY <1>1, <2>3, <2>11, AndorTaken DEF AndorRing
  <2>16. QED
      BY <2>7, <2>8, <2>11, <2>12, <2>13, <2>14, <2>15 DEF AndorRing
<1>5. QED
    BY <1>2, <1>3, <1>4 DEF AndorInv

LEMMA AndorExposure == ASSUME AndorInv, Andor!Exposure PROVE AndorInv'
<1> DEFINE f == Andor!Filled(Head(queue))
<1>1. /\ acquiring /\ queue # <<>> /\ queue' = Tail(queue) /\ filled' = Append(filled, f)
      /\ UNCHANGED <<binning, acquiring, heap, chunks, adding, faults, shot>>
    BY DEF Andor!Exposure
<1>2. /\ queue \in Seq(EmptyBuffers) /\ filled \in Seq(FilledBuffers)
      /\ binning \in AndorBinnings
    BY DEF AndorInv, AndorSettings
<1>3. /\ queue' \in Seq(EmptyBuffers) /\ Len(queue') = Len(queue) - 1
      /\ Len(queue) \in Nat \ {0} /\ Head(queue) \in EmptyBuffers
      /\ \A i \in 1..Len(queue') : i + 1 \in 1..Len(queue) /\ queue'[i] = queue[i + 1]
      /\ Bufs(queue) = Bufs(queue') \cup {Head(queue).buf}
      /\ Distinct(queue) => Distinct(queue') /\ Head(queue).buf \notin Bufs(queue')
    BY <1>1, <1>2, BufsTail
<1>4. f \in FilledBuffers /\ f.buf = Head(queue).buf /\ f.exposed = binning
    BY <1>2, <1>3 DEF Andor!Filled, FilledBuffers, EmptyBuffers
<1> HIDE DEF f
<1>5. /\ filled' \in Seq(FilledBuffers) /\ Len(filled') = Len(filled) + 1
      /\ Len(filled) \in Nat
      /\ \A i \in 1..Len(filled') : \/ i \in 1..Len(filled) /\ filled'[i] = filled[i]
                                    \/ filled'[i] = f
      /\ Bufs(filled') = Bufs(filled) \cup {Head(queue).buf}
      /\ Distinct(filled) /\ Head(queue).buf \notin Bufs(filled) => Distinct(filled')
    BY <1>1, <1>2, <1>4, BufsAppend
<1>6. AndorSettings'
  <2>1. \A i \in 1..Len(queue') : queue'[i].size = binning
      BY <1>3 DEF AndorInv, AndorSettings
  <2>2. \A i \in 1..Len(filled') : filled'[i].exposed = binning
      BY <1>4, <1>5 DEF AndorInv, AndorSettings
  <2>3. QED
      BY <1>1, <1>3, <1>5, <2>1, <2>2 DEF AndorInv, AndorSettings, Andor!FramesTellTheirBinning
<1>7. ASSUME faults = 0 PROVE AndorRing'
  <2>1. AndorRing
      BY <1>7 DEF AndorInv
  <2>2. Head(queue).buf \notin Bufs(filled)
      BY <1>3, <2>1 DEF AndorRing
  <2>3. /\ Distinct(queue') /\ Distinct(filled')
        /\ chunks' = Bufs(queue') \cup Bufs(filled')
        /\ Bufs(queue') \cap Bufs(filled') = {}
      BY <1>1, <1>3, <1>5, <2>1, <2>2 DEF AndorRing
  <2>4. Len(queue') + Len(filled') = Len(queue) + Len(filled)
      BY <1>3, <1>5
  <2>5. QED
      BY <1>1, <2>1, <2>3, <2>4 DEF AndorRing
<1>8. QED
    BY <1>1, <1>6, <1>7 DEF AndorInv

LEMMA AndorStep == AndorInv /\ [Andor!Next]_Andor!vars => AndorInv'
<1> SUFFICES ASSUME AndorInv, [Andor!Next]_Andor!vars PROVE AndorInv'
    OBVIOUS
<1>1. CASE Andor!NoImage \/ UNCHANGED Andor!vars
  <2>1. UNCHANGED <<binning, acquiring, heap, chunks, queue, filled, adding, faults, shot>>
      BY <1>1 DEF Andor!NoImage, Andor!vars
  <2>2. AndorSettings'
      BY <2>1 DEF AndorInv, AndorSettings, Andor!FramesTellTheirBinning
  <2>3. AndorRing => AndorRing'
    <3>1. /\ Bufs(queue)' = Bufs(queue) /\ Bufs(filled)' = Bufs(filled)
          /\ Distinct(queue)' = Distinct(queue) /\ Distinct(filled)' = Distinct(filled)
        BY <2>1 DEF Bufs, Distinct
    <3>2. QED
        BY <2>1, <3>1 DEF AndorRing
  <2>4. QED
      BY <2>1, <2>2, <2>3 DEF AndorInv
<1>2. CASE Andor!Stop
    BY <1>2, AndorStopped DEF Andor!Stop, AndorInv, AndorSettings
<1>3. QED
    BY <1>1, <1>2, AndorStart, AndorAdd, AndorCommand, AndorWrong, AndorWait, AndorExposure
       DEF Andor!Next

-----------------------------------------------------------------------------
(* The driver of the PVCAM cameras. *)

\* What is acquired goes into an image of the binning of now, in memory that
\* is in use; the binning cannot change meanwhile.
ImageKept ==
    running =>
        /\ image = [at |-> image.at, binning |-> image.binning]
        /\ image.at \in memory /\ image.binning = bin

\* A camera with a circular buffer writes into the one there is, and with the
\* settings of now.  No other camera writes by itself.
StreamKept ==
    /\ stream.on => stream.buffer \in memory /\ kind = "circular"
    /\ running /\ kind = "circular" =>
        /\ circular_buffer \in memory /\ stream.on /\ stream.buffer = circular_buffer
        /\ stream.binning = bin /\ stream.exposure = time /\ stream.param = param

\* The parameter of a camera is known.
ParamKnown == kind # "simulated" => known = param

PvcamInv ==
    /\ ImageKept /\ StreamKept /\ ParamKnown /\ Pvcam!FramesTellTheirSettings

LEMMA PvcamInvImplies == PvcamInv => Pvcam!MemoryIsKept /\ Pvcam!FramesTellTheirSettings
BY DEF PvcamInv, ImageKept, StreamKept, Pvcam!MemoryIsKept

LEMMA PvcamInit == Pvcam!Init => PvcamInv
BY DEF Pvcam!Init, PvcamInv, ImageKept, StreamKept, ParamKnown,
       Pvcam!FramesTellTheirSettings, Pvcam!NoStream, Pvcam!GetParam

-----------------------------------------------------------------------------
(* The messages. *)

LEMMA PvcamStart == ASSUME PvcamInv, Pvcam!Start PROVE PvcamInv'
<1>1. /\ kind' = kind /\ param' = param /\ time' = time /\ bin' = bin
      /\ taken' = taken
    BY DEF Pvcam!Start
<1>2. ParamKnown'
    BY <1>1 DEF Pvcam!Start, Pvcam!UpdateParams, Pvcam!GetParam, PvcamInv, ParamKnown
<1>3. Pvcam!FramesTellTheirSettings'
    BY <1>1 DEF PvcamInv, Pvcam!FramesTellTheirSettings
<1>4. CASE Pvcam!StartCircular
    <2>1. ImageKept'
        BY <1>1, <1>4 DEF Pvcam!StartCircular, Pvcam!Picture, ImageKept
    <2>2. StreamKept'
        BY <1>1, <1>4 DEF Pvcam!StartCircular, Pvcam!StreamTo, StreamKept
    <2> QED BY <1>2, <1>3, <2>1, <2>2 DEF PvcamInv
<1>5. CASE Pvcam!StartOther
    <2>1. ImageKept'
        BY <1>1, <1>5 DEF Pvcam!StartOther, Pvcam!Picture, ImageKept
    <2>2. StreamKept'
        BY <1>1, <1>5 DEF Pvcam!StartOther, PvcamInv, StreamKept
    <2> QED BY <1>2, <1>3, <2>1, <2>2 DEF PvcamInv
<1>6. CASE Pvcam!StartRefused
    <2>1. ImageKept' /\ running' = FALSE
        BY <1>6 DEF Pvcam!StartRefused, ImageKept
    <2>2. memory \subseteq memory' /\ stream' = stream
        BY <1>6 DEF Pvcam!StartRefused
    <2>3. StreamKept'
        BY <1>1, <2>1, <2>2 DEF PvcamInv, StreamKept
    <2> QED BY <1>2, <1>3, <2>1, <2>3 DEF PvcamInv
<1> QED BY <1>4, <1>5, <1>6 DEF Pvcam!Start

\* Nothing is acquired after a stop, and what is written to is not freed.
LEMMA PvcamAcquisitionStop ==
    ASSUME PvcamInv, Pvcam!AcquisitionStop, kind' = kind
    PROVE  ImageKept' /\ StreamKept'
<1>1. CASE running
    <2>1. running' = FALSE
        BY <1>1 DEF Pvcam!AcquisitionStop
    <2>2. stream'.on => stream.on /\ kind # "circular"
        BY <1>1 DEF Pvcam!AcquisitionStop, Pvcam!Halt, Pvcam!NoStream
    <2> QED BY <2>1, <2>2 DEF ImageKept, StreamKept, PvcamInv
<1>2. CASE ~running
    BY <1>2 DEF Pvcam!AcquisitionStop, ImageKept, StreamKept, PvcamInv
<1> QED BY <1>1, <1>2

LEMMA PvcamCommands == ASSUME PvcamInv, Pvcam!Commands PROVE PvcamInv'
<1> PICK e \in Exposures \cup {None}, b \in Binnings \cup {None},
         value \in Values \cup {None} :
        Pvcam!Command(e, b, value)
    BY DEF Pvcam!Commands
<1>1. Pvcam!AcquisitionStop /\ kind' = kind /\ taken' = taken
    BY DEF Pvcam!Command
<1>2. ParamKnown'
    BY <1>1 DEF Pvcam!Command, ParamKnown
<1>3. Pvcam!FramesTellTheirSettings'
    BY <1>1 DEF PvcamInv, Pvcam!FramesTellTheirSettings
<1> QED BY <1>1, <1>2, <1>3, PvcamAcquisitionStop DEF PvcamInv

LEMMA PvcamStop == ASSUME PvcamInv, Pvcam!Stop PROVE PvcamInv'
<1>1. Pvcam!AcquisitionStop /\ kind' = kind /\ taken' = taken
    BY DEF Pvcam!Stop
<1>2. ParamKnown'
    BY <1>1 DEF Pvcam!Stop, Pvcam!UpdateParams, Pvcam!GetParam, ParamKnown
<1>3. Pvcam!FramesTellTheirSettings'
    BY <1>1 DEF PvcamInv, Pvcam!FramesTellTheirSettings
<1> QED BY <1>1, <1>2, <1>3, PvcamAcquisitionStop DEF PvcamInv

-----------------------------------------------------------------------------
(* Images *)

LEMMA PvcamCopy == ASSUME PvcamInv, Pvcam!CopyImage PROVE PvcamInv'
<1>1. UNCHANGED <<kind, param, Pvcam!fields, stream, memory>>
    BY DEF Pvcam!CopyImage
<1>2. ImageKept' /\ StreamKept' /\ ParamKnown'
    BY <1>1 DEF Pvcam!fields, PvcamInv, ImageKept, StreamKept, ParamKnown
<1>3. /\ image.binning = bin /\ stream.binning = bin /\ stream.exposure = time
      /\ stream.param = known /\ taken' = Pvcam!FrameOf(stream, image.binning)
    BY DEF Pvcam!CopyImage, PvcamInv, ImageKept, StreamKept, ParamKnown
<1>4. Pvcam!FramesTellTheirSettings'
    BY <1>3 DEF Pvcam!FrameOf, Pvcam!FramesTellTheirSettings
<1> QED BY <1>2, <1>4 DEF PvcamInv

LEMMA PvcamTake == ASSUME PvcamInv, Pvcam!TakeImage PROVE PvcamInv'
<1>1. /\ UNCHANGED <<kind, param, time, bin, known, running, circular_buffer, stream>>
      /\ running /\ kind = "sequence"
    BY DEF Pvcam!TakeImage
<1>2. ParamKnown' /\ ~stream.on /\ known = param
    BY <1>1 DEF PvcamInv, ParamKnown, StreamKept
<1>3. StreamKept'
    BY <1>1, <1>2 DEF StreamKept
<1>4. CASE /\ taken' = Pvcam!FrameOf(Pvcam!StreamTo(image.at), image.binning)
           /\ image' = [image EXCEPT !.at = allocated + 1]
           /\ memory' = (memory \ {image.at}) \cup {allocated + 1}
    <2>1. /\ image = [at |-> image.at, binning |-> image.binning] /\ image.binning = bin
        BY <1>1 DEF PvcamInv, ImageKept
    <2>2. image' = [at |-> allocated + 1, binning |-> bin]
        BY <1>4, <2>1
    <2>3. ImageKept'
        <3>1. image'.at = allocated + 1 /\ image'.binning = bin
            BY <2>2
        <3>2. image' = [at |-> image'.at, binning |-> image'.binning]
            BY <2>2, <3>1
        <3>3. image'.at \in memory' /\ bin' = bin
            BY <1>1, <1>4, <3>1
        <3> QED BY <3>1, <3>2, <3>3 DEF ImageKept
    <2>4. Pvcam!FramesTellTheirSettings'
        BY <1>2, <1>4, <2>1
           DEF Pvcam!FrameOf, Pvcam!StreamTo, Pvcam!FramesTellTheirSettings
    <2> QED BY <1>2, <1>3, <2>3, <2>4 DEF PvcamInv
<1>5. CASE UNCHANGED <<taken, image, memory, allocated>>
    <2>1. ImageKept' /\ Pvcam!FramesTellTheirSettings'
        BY <1>1, <1>5 DEF PvcamInv, ImageKept, Pvcam!FramesTellTheirSettings
    <2> QED BY <1>2, <1>3, <2>1 DEF PvcamInv
<1> QED BY <1>4, <1>5 DEF Pvcam!TakeImage

LEMMA PvcamMake == ASSUME PvcamInv, Pvcam!MakeImage PROVE PvcamInv'
<1>1. UNCHANGED <<kind, param, Pvcam!fields, stream, memory>> /\ running
    BY DEF Pvcam!MakeImage
<1>2. ImageKept' /\ StreamKept' /\ ParamKnown' /\ image.binning = bin
    BY <1>1 DEF Pvcam!fields, PvcamInv, ImageKept, StreamKept, ParamKnown
<1>3. taken' = Pvcam!FrameOf([Pvcam!StreamTo(image.at) EXCEPT !.param = known], image.binning)
    BY DEF Pvcam!MakeImage
<1>4. Pvcam!FramesTellTheirSettings'
    BY <1>2, <1>3 DEF Pvcam!FrameOf, Pvcam!StreamTo, Pvcam!FramesTellTheirSettings
<1> QED BY <1>2, <1>4 DEF PvcamInv

LEMMA PvcamStep == PvcamInv /\ [Pvcam!Next]_Pvcam!vars => PvcamInv'
<1> SUFFICES ASSUME PvcamInv, [Pvcam!Next]_Pvcam!vars PROVE PvcamInv'
    OBVIOUS
<1>1. CASE Pvcam!NoImage
    BY <1>1
       DEF Pvcam!NoImage, Pvcam!UpdateParams, Pvcam!GetParam, PvcamInv, ImageKept,
           StreamKept, ParamKnown,
                Pvcam!FramesTellTheirSettings
<1>2. CASE UNCHANGED Pvcam!vars
    BY <1>2
       DEF Pvcam!vars, Pvcam!fields, PvcamInv, ImageKept, StreamKept, ParamKnown,
           Pvcam!FramesTellTheirSettings
<1> QED BY <1>1, <1>2, PvcamStart, PvcamStop, PvcamCommands, PvcamCopy, PvcamTake,
           PvcamMake DEF Pvcam!Next

-----------------------------------------------------------------------------
(* The driver of the Andor cameras of version 2. *)

LibraryFrames ==
    [number : Nat, setting : [area : ValidAreas \cup {FullArea}, binning : Binnings \cup {1},
                              exposure : Exposures]]

Andor2Typed ==
    /\ delay \in Exposures /\ area \in Areas \cup {FullArea} /\ factor \in Binnings \cup {1}
    /\ setting \in [area : ValidAreas \cup {FullArea}, binning : Binnings \cup {1},
                    exposure : Exposures]
    /\ frames \in Seq(LibraryFrames) /\ acquired \in Nat

\* The camera has the settings of the driver while it acquires, if they are
\* possible, and the frames that wait were taken with them.
Andor2Acquiring ==
    active =>
        /\ setting.exposure = delay
        /\ area \in ValidAreas => setting.area = area /\ setting.binning = factor
        /\ \A i \in 1 .. Len(frames) :
            frames[i].setting = setting /\ frames[i].number < acquired

Andor2Inv == Andor2Typed /\ Andor2Acquiring /\ Andor2!FramesTellTheirSettings

\* "No option" is none.
NoneIsNone == None \notin Exposures /\ None \notin Areas /\ None \notin Binnings
LEMMA NoneIsApart == NoneIsNone
BY GxccdAssumption, PartsAssumption DEF NoneIsNone

LEMMA Andor2Init == Andor2!Init => Andor2Inv
BY DEF Andor2!Init, Andor2Inv, Andor2Typed, Andor2Acquiring,
       Andor2!FramesTellTheirSettings

-----------------------------------------------------------------------------
\* A start that is obeyed begins with no frames.
LEMMA Andor2FreshStart ==
    ASSUME Andor2Inv, NEW e \in Exposures, NEW a \in Areas \cup {FullArea},
           NEW b \in Binnings \cup {1}, Andor2!AcquisitionStart(e, a, b, FALSE),
           delay' = e, area' = a, factor' = b, fetched' = fetched
    PROVE  Andor2Inv'
<1> DEFINE s == Andor2!SetImage(a, b, FALSE)
<1>1. /\ s.area \in ValidAreas \cup {FullArea} /\ s.binning \in Binnings \cup {1}
      /\ a \in ValidAreas => s.area = a /\ s.binning = b
    <2>1. CASE a \in ValidAreas
        BY <2>1 DEF Andor2!SetImage
    <2>2. CASE a \notin ValidAreas
        BY <2>2 DEF Andor2!SetImage, Andor2Inv, Andor2Typed
    <2> QED BY <2>1, <2>2
<1>2. /\ setting' = [area |-> s.area, binning |-> s.binning, exposure |-> e]
      /\ frames' = <<>> /\ acquired' = 0
    BY DEF Andor2!AcquisitionStart
<1> HIDE DEF s
<1>3. Andor2Typed'
    BY <1>1, <1>2 DEF Andor2Typed
<1>4. Andor2Acquiring'
    BY <1>1, <1>2 DEF Andor2Acquiring
<1>5. Andor2!FramesTellTheirSettings'
    BY DEF Andor2Inv, Andor2!FramesTellTheirSettings
<1> QED BY <1>3, <1>4, <1>5 DEF Andor2Inv

LEMMA Andor2Start == ASSUME Andor2Inv, Andor2!Start PROVE Andor2Inv'
<1>1. delay \in Exposures /\ area \in Areas \cup {FullArea} /\ factor \in Binnings \cup {1}
    BY DEF Andor2Inv, Andor2Typed
<1>2. /\ UNCHANGED <<Andor2!settings, fetched>>
      /\ Andor2!AcquisitionStart(delay, area, factor, active)
    BY DEF Andor2!Start
<1>3. CASE active = TRUE
    <2>1. setting' = setting /\ frames' = frames /\ acquired' = acquired
        <3> DEFINE img == Andor2!SetImage(area, factor, TRUE)
        <3>1. img = [area |-> setting.area, binning |-> setting.binning]
            BY DEF Andor2!SetImage
        <3>2. setting = [area |-> setting.area, binning |-> setting.binning,
                         exposure |-> setting.exposure]
              /\ setting.exposure = delay
            BY <1>3 DEF Andor2Inv, Andor2Typed, Andor2Acquiring
        <3>3. /\ setting' = [area |-> img.area, binning |-> img.binning, exposure |-> delay]
              /\ frames' = frames /\ acquired' = acquired
            BY <1>2, <1>3 DEF Andor2!AcquisitionStart
        <3> HIDE DEF img
        <3>4. img.area = setting.area /\ img.binning = setting.binning
            BY <3>1
        <3>5. setting' = [area |-> setting.area, binning |-> setting.binning,
                          exposure |-> setting.exposure]
            BY <3>2, <3>3, <3>4
        <3> QED BY <3>2, <3>3, <3>5
    <2> QED BY <1>2, <1>3, <2>1
               DEF Andor2!settings, Andor2Inv, Andor2Typed, Andor2Acquiring,
                   Andor2!FramesTellTheirSettings
<1>4. CASE active # TRUE
    <2>1. Andor2!AcquisitionStart(delay, area, factor, FALSE)
        BY <1>2, <1>4 DEF Andor2!AcquisitionStart, Andor2!SetImage
    <2> QED BY <1>1, <1>2, <2>1, Andor2FreshStart DEF Andor2!settings
<1> QED BY <1>3, <1>4

LEMMA Andor2Commands == ASSUME NoneIsNone, Andor2Inv, Andor2!Commands PROVE Andor2Inv'
<1> PICK e \in Exposures \cup {None}, a \in Areas \cup {None}, b \in Binnings \cup {None} :
        Andor2!Command(e, a, b)
    BY DEF Andor2!Commands
<1>1. /\ delay' \in Exposures /\ area' \in Areas \cup {FullArea}
      /\ factor' \in Binnings \cup {1} /\ fetched' = fetched
      /\ Andor2!ShouldRestart(delay', area', factor')
    BY DEF Andor2!Command, Andor2!Option, Andor2Inv, Andor2Typed
<1>2. CASE active
    BY <1>1, <1>2, Andor2FreshStart DEF Andor2!ShouldRestart
<1>3. CASE ~active
    <2>1. setting' = [setting EXCEPT !.exposure = delay']
          /\ UNCHANGED <<active, frames, acquired>>
        BY <1>1, <1>3 DEF Andor2!ShouldRestart
    <2>2. Andor2Typed'
        BY <1>1, <2>1 DEF Andor2Inv, Andor2Typed
    <2> QED BY <1>1, <1>3, <2>1, <2>2
               DEF Andor2Inv, Andor2Acquiring, Andor2!FramesTellTheirSettings
<1> QED BY <1>2, <1>3

LEMMA Andor2Wait == ASSUME Andor2Inv, Andor2!WaitImage PROVE Andor2Inv'
<1>1. /\ active /\ frames # <<>> /\ frames \in Seq(LibraryFrames)
      /\ UNCHANGED <<Andor2!settings, setting, active, acquired>>
      /\ frames' = Tail(frames)
    BY DEF Andor2!WaitImage, Andor2Inv, Andor2Typed
<1>2. /\ Len(frames) > 0 /\ Len(frames') = Len(frames) - 1 /\ frames' \in Seq(LibraryFrames)
      /\ \A i \in 1 .. Len(frames') : frames'[i] = frames[i + 1]
    BY <1>1
<1>3. Andor2Typed'
    BY <1>1, <1>2 DEF Andor2!settings, Andor2Inv, Andor2Typed
<1>4. Andor2Acquiring'
    BY <1>1, <1>2 DEF Andor2!settings, Andor2Inv, Andor2Acquiring
<1>5. frames[1] \in LibraryFrames /\ Head(frames) = frames[1]
    BY <1>1, <1>2
<1>6. /\ frames[1].setting = setting /\ frames[1].number < acquired
      /\ setting.exposure = delay
      /\ area \in ValidAreas => setting.area = area /\ setting.binning = factor
      /\ frames[1].number \in Nat /\ acquired \in Nat
    BY <1>1, <1>2, <1>5 DEF Andor2Inv, Andor2Typed, Andor2Acquiring, LibraryFrames
<1>7. fetched' = [FRAMENUMBER |-> acquired - 1, EXPOSURE |-> delay,
                area |-> area, binning |-> factor, taken |-> frames[1]]
    BY <1>5 DEF Andor2!WaitImage
<1>8. Andor2!FramesTellTheirSettings'
    BY <1>6, <1>7 DEF Andor2!FramesTellTheirSettings
<1> QED BY <1>3, <1>4, <1>8 DEF Andor2Inv

LEMMA Andor2Exposure == ASSUME Andor2Inv, Andor2!Exposure PROVE Andor2Inv'
<1> DEFINE new == [number |-> acquired, setting |-> setting]
<1>1. /\ active /\ frames \in Seq(LibraryFrames) /\ acquired \in Nat
      /\ UNCHANGED <<Andor2!settings, setting, active, fetched>>
      /\ frames' = Append(frames, new) /\ acquired' = acquired + 1
    BY DEF Andor2!Exposure, Andor2Inv, Andor2Typed
<1>2. new \in LibraryFrames
    BY <1>1 DEF Andor2Inv, Andor2Typed, LibraryFrames
<1>3. new.setting = setting /\ new.number = acquired
    OBVIOUS
<1> HIDE DEF new
<1>4. /\ frames' \in Seq(LibraryFrames) /\ Len(frames') = Len(frames) + 1
      /\ frames'[Len(frames) + 1] = new
      /\ \A i \in 1 .. Len(frames) : frames'[i] = frames[i] /\ frames[i] \in LibraryFrames
    BY <1>1, <1>2
<1>5. Andor2Typed'
    BY <1>1, <1>4 DEF Andor2!settings, Andor2Inv, Andor2Typed
<1>6. \A i \in 1 .. Len(frames') :
        frames'[i].setting = setting /\ frames'[i].number < acquired + 1
    <2> SUFFICES ASSUME NEW i \in 1 .. Len(frames')
                 PROVE  frames'[i].setting = setting /\ frames'[i].number < acquired + 1
        OBVIOUS
    <2>1. CASE i \in 1 .. Len(frames)
        <3>1. /\ frames[i].setting = setting /\ frames[i].number < acquired
              /\ frames[i].number \in Nat
            BY <1>1, <1>4, <2>1 DEF Andor2Inv, Andor2Acquiring, LibraryFrames
        <3> QED BY <1>1, <1>4, <2>1, <3>1
    <2>2. CASE i = Len(frames) + 1
        BY <1>1, <1>3, <1>4, <2>2
    <2> QED BY <1>1, <1>4, <2>1, <2>2
<1>7. Andor2Acquiring'
    BY <1>1, <1>6 DEF Andor2!settings, Andor2Inv, Andor2Acquiring
<1>8. Andor2!FramesTellTheirSettings'
    BY <1>1 DEF Andor2Inv, Andor2!FramesTellTheirSettings
<1> QED BY <1>5, <1>7, <1>8 DEF Andor2Inv

LEMMA Andor2Step == NoneIsNone /\ Andor2Inv /\ [Andor2!Next]_Andor2!vars => Andor2Inv'
<1> SUFFICES ASSUME NoneIsNone, Andor2Inv, [Andor2!Next]_Andor2!vars PROVE Andor2Inv'
    OBVIOUS
<1>1. CASE Andor2!Stop \/ Andor2!Failure
    BY <1>1
       DEF Andor2!Stop, Andor2!Failure, Andor2!settings, Andor2Inv, Andor2Typed,
           Andor2Acquiring, Andor2!FramesTellTheirSettings
<1>2. CASE Andor2!NoImage \/ UNCHANGED Andor2!vars
    BY <1>2
       DEF Andor2!NoImage, Andor2!vars, Andor2!settings, Andor2Inv, Andor2Typed,
           Andor2Acquiring, Andor2!FramesTellTheirSettings
<1> QED BY <1>1, <1>2, Andor2Start, Andor2Commands, Andor2Wait, Andor2Exposure
           DEF Andor2!Next

-----------------------------------------------------------------------------
(* The queue of commands.                                                  *)

Kinds == {"done", "failure", "removed", "timeout"}
CommandFields ==
    [name : Names, connection : Connections \cup {None}, time : Nat, timeout : Timeouts]

\* What the lists and the walk hold.  When the walk is not active, it stands
\* on the head of the list.
CommandTypes ==
    /\ command \in Seq(CommandFields) /\ outcome \in Seq(Seq(Kinds))
    /\ Len(outcome) = Len(command)
    /\ commands_sent \subseteq 1..Len(command)
    /\ now \in Nat /\ open \subseteq Connections
    /\ remote \subseteq 1..Len(command)
    /\ wire \in Seq([name : Names, kind : {"done", "failure"}])
    /\ walk \in [active : BOOLEAN, calling : BOOLEAN, time : Nat, cursor : Nat]
    /\ walk.calling => walk.active /\ walk.cursor \in commands_sent
    /\ walk.cursor \in commands_sent \cup {0} /\ (~walk.active => walk.cursor = 0)

\* A command has an outcome when it has left the list, or while its callback
\* runs.
Pending(n) == n \in commands_sent /\ ~(walk.calling /\ walk.cursor = n)
CommandOutcomes ==
    \A n \in 1..Len(command) : Len(outcome[n]) = IF Pending(n) THEN 0 ELSE 1

\* What the walk has passed, and left in the list, has not expired.
CommandsPassed ==
    walk.active =>
        \A n \in commands_sent : Pending(n) /\ n <= walk.cursor => ~Commanded!Expired(n)

CommandInv ==
    /\ CommandTypes /\ CommandOutcomes /\ CommandsPassed /\ Commanded!NoLostConnection

LEMMA Smallest ==
    ASSUME NEW T, T \subseteq Nat, T # {}
    PROVE  \E x \in T : \A y \in T : x <= y
<1>1. PICK x \in T : \A y \in T : ~ (<<y, x>> \in OpToRel(<, Nat))
    BY WFMin, NatLessThanWellFounded, Zenon
<1>2. ASSUME NEW y \in T PROVE x <= y
  <2>1. ~ (y < x)
      BY <1>1, Zenon DEF OpToRel
  <2>2. QED
      BY <2>1
<1>3. QED
    BY <1>2

\* The next of the list: there is none between.
LEMMA NextCommand ==
    ASSUME CommandTypes, NEW e \in Nat
    PROVE  /\ Commanded!After(e) = 0 => \A m \in commands_sent : m <= e
           /\ Commanded!After(e) # 0 =>
                /\ Commanded!After(e) \in commands_sent /\ Commanded!After(e) > e
                /\ \A m \in commands_sent : m < Commanded!After(e) => m <= e
<1> DEFINE L == Commanded!Later(e)
<1>1. commands_sent \subseteq Nat \ {0} /\ L = {n \in commands_sent : n > e}
    BY DEF CommandTypes, Commanded!Later
<1>2. CASE L = {}
    BY <1>1, <1>2 DEF Commanded!After, Commanded!ListHead
<1>3. CASE L # {}
  <2> DEFINE a == CHOOSE n \in L : \A m \in L : n <= m
  <2>1. \E n \in L : \A m \in L : n <= m
      BY <1>1, <1>3, Smallest
  <2>2. a \in L /\ \A m \in L : a <= m
      BY <2>1
  <2>3. Commanded!After(e) = a
      BY <1>3 DEF Commanded!After
  <2> HIDE DEF a, L
  <2>4. QED
      BY <1>1, <2>2, <2>3
<1>4. QED
    BY <1>2, <1>3

\* The one before it in the list.
LEMMA PreviousCommand ==
    ASSUME CommandTypes, NEW e \in Nat
    PROVE  \/ Commanded!Before(e) = 0
           \/ Commanded!Before(e) \in commands_sent /\ Commanded!Before(e) < e
<1> DEFINE L == Commanded!Earlier(e)
<1>1. commands_sent \subseteq Nat \ {0} /\ L = {n \in commands_sent : n < e}
    BY DEF CommandTypes, Commanded!Earlier
<1>2. CASE L = {}
    BY <1>1, <1>2 DEF Commanded!Before, Commanded!ListHead
<1>3. CASE L # {}
  <2> DEFINE T == {e - n : n \in L}
             a == CHOOSE n \in L : \A m \in L : m <= n
  <2>1. \E n \in L : \A m \in L : m <= n
    <3> HIDE DEF L
    <3>1. L \subseteq Nat /\ \A n \in L : n < e
        BY <1>1
    <3>2. T \subseteq Nat
        BY <3>1
    <3>3. T # {}
        BY <1>3
    <3>4. PICK x \in T : \A y \in T : x <= y
        BY <3>2, <3>3, Smallest
    <3>5. PICK n \in L : x = e - n
        OBVIOUS
    <3>6. ASSUME NEW m \in L PROVE m <= n
      <4>1. e - m \in T
          OBVIOUS
      <4>2. x <= e - m
          BY <3>4, <4>1
      <4>3. QED
          BY <3>1, <3>5, <4>2
    <3>7. QED
        BY <3>6
  <2>2. a \in L
      BY <2>1
  <2>3. Commanded!Before(e) = a
      BY <1>3 DEF Commanded!Before
  <2> HIDE DEF a, L
  <2>4. QED
      BY <1>1, <2>2, <2>3
<1>4. QED
    BY <1>2, <1>3

LEMMA CommandInit == Commanded!Init => CommandInv
<1> SUFFICES ASSUME Commanded!Init PROVE CommandInv
    OBVIOUS
<1>1. /\ commands_sent = {} /\ command = <<>> /\ now = 0 /\ open = Connections
      /\ remote = {} /\ wire = <<>> /\ outcome = <<>>
      /\ walk = [active |-> FALSE, calling |-> FALSE, time |-> 0, cursor |-> 0]
    BY DEF Commanded!Init, Commanded!NoWalk, Commanded!ListHead
<1>2. Len(<<>>) = 0 /\ 1..Len(<<>>) = {}
    BY EmptySeq
<1>3. /\ <<>> \in Seq(CommandFields) /\ <<>> \in Seq(Seq(Kinds))
      /\ <<>> \in Seq([name : Names, kind : {"done", "failure"}])
    BY EmptySeq
<1>4. CommandTypes
    BY <1>1, <1>2, <1>3 DEF CommandTypes
<1>5. CommandOutcomes /\ CommandsPassed /\ Commanded!NoLostConnection
    BY <1>1, <1>2 DEF CommandOutcomes, CommandsPassed, Commanded!NoLostConnection
<1>6. QED
    BY <1>4, <1>5 DEF CommandInv

LEMMA Appended ==
    ASSUME NEW S, NEW s \in Seq(S), NEW x \in S
    PROVE  /\ Append(s, x) \in Seq(S) /\ Len(s) \in Nat /\ Len(Append(s, x)) = Len(s) + 1
           /\ \A n \in 1..Len(s) : Append(s, x)[n] = s[n]
           /\ Append(s, x)[Len(s) + 1] = x
BY AppendProperties, LenProperties

\* A command is added behind what the walk has passed.
LEMMA CommandAdd ==
    ASSUME CommandInv, NEW c \in Connections \cup {None}, NEW name \in Names,
           NEW t \in Timeouts, Commanded!Add(c, name, t)
    PROVE  CommandInv'
<1> DEFINE new == [name |-> name, connection |-> c, time |-> now, timeout |-> t]
<1> PICK k : k = Len(command)
    OBVIOUS
<1>1. /\ c \in open \cup {None} /\ command' = Append(command, new)
      /\ commands_sent' = commands_sent \cup {Len(command')}
      /\ outcome' = Append(outcome, <<>>) /\ remote' = remote \cup {Len(command')}
      /\ UNCHANGED <<now, walk, open, wire>>
    BY DEF Commanded!Add
<1>2. CommandTypes
    BY DEF CommandInv
<1>3. new \in CommandFields /\ new.connection = c
    BY <1>2 DEF CommandTypes, CommandFields
<1> HIDE DEF new
<1>4. /\ k \in Nat /\ Len(command') = k + 1 /\ Len(outcome) = k /\ Len(outcome') = k + 1
      /\ command' \in Seq(CommandFields) /\ outcome' \in Seq(Seq(Kinds))
      /\ \A n \in 1..k : command'[n] = command[n] /\ outcome'[n] = outcome[n]
      /\ command'[k + 1] = new /\ outcome'[k + 1] = <<>>
  <2>1. <<>> \in Seq(Kinds)
      BY EmptySeq
  <2>2. /\ command \in Seq(CommandFields) /\ outcome \in Seq(Seq(Kinds))
        /\ Len(outcome) = k
      BY <1>2 DEF CommandTypes
  <2>3. /\ command' \in Seq(CommandFields) /\ k \in Nat /\ Len(command') = k + 1
        /\ \A n \in 1..k : command'[n] = command[n]
        /\ command'[k + 1] = new
      BY <1>1, <1>3, <2>2, Appended
  <2>4. /\ outcome' \in Seq(Seq(Kinds)) /\ Len(outcome') = k + 1
        /\ \A n \in 1..k : outcome'[n] = outcome[n]
        /\ outcome'[k + 1] = <<>>
      BY <1>1, <2>1, <2>2, Appended
  <2>5. QED
      BY <2>2, <2>3, <2>4
<1>5. /\ commands_sent \subseteq 1..k /\ remote \subseteq 1..k
      /\ walk.cursor \in commands_sent \cup {0}
      /\ walk.calling => walk.cursor \in commands_sent
    BY <1>2 DEF CommandTypes
<1>6. CommandTypes'
  <2>1. k \in Nat /\ Len(command') = k + 1
      BY <1>4
  <2>2. 1..k \subseteq 1..(k + 1) /\ k + 1 \in 1..(k + 1)
      BY <2>1
  <2>3. commands_sent' \subseteq 1..(k + 1) /\ remote' \subseteq 1..(k + 1)
      BY <1>1, <1>5, <2>1, <2>2
  <2>4. QED
      BY <1>1, <1>2, <1>4, <2>3 DEF CommandTypes
<1>7. \A n \in 1..k : Pending(n)' <=> Pending(n)
    BY <1>1, <1>4 DEF Pending
<1>8. Pending(k + 1)'
    BY <1>1, <1>4, <1>5 DEF Pending
<1>9. CommandOutcomes'
  <2> SUFFICES ASSUME NEW n \in 1..(k + 1)
               PROVE  Len(outcome'[n]) = IF Pending(n)' THEN 0 ELSE 1
      BY <1>4 DEF CommandOutcomes
  <2>1. CASE n \in 1..k
      BY <1>4, <1>7, <2>1 DEF CommandInv, CommandOutcomes
  <2>2. CASE n = k + 1
    <3>1. Len(<<>>) = 0
        BY EmptySeq
    <3>2. QED
        BY <1>4, <1>8, <2>2, <3>1
  <2>3. QED
      BY <1>4, <2>1, <2>2
<1>10. CommandsPassed'
  <2> SUFFICES ASSUME walk.active, NEW n \in commands_sent', Pending(n)', n <= walk.cursor
               PROVE  ~Commanded!Expired(n)'
      BY <1>1 DEF CommandsPassed
  <2>1. n \in 1..k /\ n \in commands_sent
    <3>1. k \in Nat
        BY <1>4
    <3>2. n # k + 1
      <4>1. walk.cursor \in 1..k \/ walk.cursor = 0
          BY <1>5
      <4>2. QED
          BY <3>1, <4>1
    <3>3. QED
        BY <1>1, <1>4, <1>5, <3>2
  <2>2. Pending(n) /\ ~Commanded!Expired(n)
      BY <1>7, <2>1 DEF CommandInv, CommandsPassed
  <2>3. QED
      BY <1>1, <1>4, <2>1, <2>2 DEF Commanded!Expired
<1>11. Commanded!NoLostConnection'
  <2> SUFFICES ASSUME NEW n \in commands_sent'
               PROVE  command'[n].connection \in open \cup {None}
      BY <1>1 DEF Commanded!NoLostConnection
  <2>1. CASE n \in commands_sent
      BY <1>4, <1>5, <2>1 DEF CommandInv, Commanded!NoLostConnection
  <2>2. CASE n = k + 1
      BY <1>1, <1>3, <1>4, <2>2
  <2>3. QED
      BY <1>1, <1>4, <2>1, <2>2
<1>12. QED
    BY <1>6, <1>9, <1>10, <1>11 DEF CommandInv

\* What Report gives to the outcomes.
LEMMA Reported ==
    ASSUME CommandTypes, NEW set, set \subseteq commands_sent, NEW k \in Kinds,
           outcome' = Commanded!Report(set, k)
    PROVE  /\ outcome' \in Seq(Seq(Kinds)) /\ Len(outcome') = Len(command)
           /\ \A n \in 1..Len(command) :
                outcome'[n] = IF n \in set THEN Append(outcome[n], k) ELSE outcome[n]
           /\ \A n \in 1..Len(command) :
                /\ Len(outcome[n]) \in Nat
                /\ Len(outcome'[n]) = Len(outcome[n]) + IF n \in set THEN 1 ELSE 0
<1>1. /\ command \in Seq(CommandFields) /\ outcome \in Seq(Seq(Kinds))
      /\ Len(outcome) = Len(command) /\ Len(command) \in Nat
    BY LenProperties DEF CommandTypes
<1>2. Commanded!Sent = 1..Len(command)
    BY <1>1, LenProperties DEF Commanded!Sent
<1>3. outcome' = [n \in 1..Len(command) |->
                    IF n \in set THEN Append(outcome[n], k) ELSE outcome[n]]
    BY <1>2 DEF Commanded!Report
<1>4. \A n \in 1..Len(command) : outcome[n] \in Seq(Kinds)
    BY <1>1, ElementOfSeq
<1>5. \A n \in 1..Len(command) :
        /\ Append(outcome[n], k) \in Seq(Kinds)
        /\ Len(Append(outcome[n], k)) = Len(outcome[n]) + 1 /\ Len(outcome[n]) \in Nat
    BY <1>4, Appended
<1>6. outcome' \in [1..Len(command) -> Seq(Kinds)]
    BY <1>3, <1>4, <1>5
<1>7. outcome' \in Seq(Seq(Kinds)) /\ Len(outcome') = Len(command)
  <2>1. Len(command) \in Nat
      BY <1>1
  <2>2. \E len \in Nat : outcome' \in [1..len -> Seq(Kinds)]
      BY <1>6, <2>1
  <2>3. outcome' \in Seq(Seq(Kinds))
    <3>1. Seq(Seq(Kinds)) = UNION {[1..len -> Seq(Kinds)] : len \in Nat}
        BY SeqDef
    <3>2. QED
        BY <2>2, <3>1
  <2>4. DOMAIN outcome' = 1..Len(command) /\ DOMAIN outcome' = 1..Len(outcome')
      BY <1>6, <2>3, LenProperties
  <2>5. Len(outcome') \in Nat
      BY <2>3, LenProperties
  <2>6. QED
      BY <2>1, <2>3, <2>4, <2>5
<1>8. \A n \in 1..Len(command) :
        outcome'[n] = IF n \in set THEN Append(outcome[n], k) ELSE outcome[n]
    BY <1>3
<1>9. ASSUME NEW n \in 1..Len(command)
      PROVE  Len(outcome'[n]) = Len(outcome[n]) + IF n \in set THEN 1 ELSE 0
  <2>1. CASE n \in set
      BY <1>5, <1>8, <2>1
  <2>2. CASE n \notin set
      BY <1>5, <1>8, <2>2
  <2>3. QED
      BY <2>1, <2>2
<1>10. QED
    BY <1>5, <1>7, <1>8, <1>9

\* The commands of a set leave the list, with an outcome.
LEMMA CommandLeaves ==
    ASSUME CommandInv, NEW set, set \subseteq commands_sent, NEW k \in Kinds,
           walk.calling => walk.cursor \notin set,
           ~walk.active \/ walk.calling,
           commands_sent' = commands_sent \ set, outcome' = Commanded!Report(set, k),
           UNCHANGED <<command, now, walk, remote>>,
           open' \subseteq open, wire' \in Seq([name : Names, kind : {"done", "failure"}]),
           \A n \in commands_sent' : command[n].connection \in open' \cup {None}
    PROVE  CommandInv'
<1>1. CommandTypes
    BY DEF CommandInv
<1>2. /\ outcome' \in Seq(Seq(Kinds)) /\ Len(outcome') = Len(command)
      /\ \A n \in 1..Len(command) :
           /\ Len(outcome[n]) \in Nat
           /\ Len(outcome'[n]) = Len(outcome[n]) + IF n \in set THEN 1 ELSE 0
    BY <1>1, Reported
<1>3. CommandTypes'
    BY <1>1, <1>2 DEF CommandTypes
<1>4. \A n : Pending(n)' <=> Pending(n) /\ n \notin set
    BY DEF Pending
<1>5. \A n \in set : Pending(n)
    BY DEF Pending
<1>6. CommandOutcomes'
  <2> SUFFICES ASSUME NEW n \in 1..Len(command)
               PROVE  Len(outcome'[n]) = IF Pending(n)' THEN 0 ELSE 1
      BY DEF CommandOutcomes
  <2>1. Len(outcome[n]) = IF Pending(n) THEN 0 ELSE 1
      BY DEF CommandInv, CommandOutcomes
  <2>2. CASE n \in set
    <3>1. Pending(n) /\ ~Pending(n)'
        BY <1>4, <1>5, <2>2
    <3>2. Len(outcome'[n]) = Len(outcome[n]) + 1 /\ Len(outcome[n]) = 0
        BY <1>2, <2>1, <2>2, <3>1
    <3>3. QED
        BY <3>1, <3>2
  <2>3. CASE n \notin set
    <3>1. Pending(n)' <=> Pending(n)
        BY <1>4, <2>3
    <3>2. Len(outcome'[n]) = Len(outcome[n]) + 0 /\ Len(outcome[n]) \in Nat
        BY <1>2, <2>3
    <3>3. QED
        BY <2>1, <3>1, <3>2
  <2>4. QED
      BY <2>2, <2>3
<1>7. CommandsPassed'
    BY <1>4 DEF CommandInv, CommandsPassed, Commanded!Expired
<1>8. Commanded!NoLostConnection'
    BY DEF Commanded!NoLostConnection
<1>9. QED
    BY <1>3, <1>6, <1>7, <1>8 DEF CommandInv

-----------------------------------------------------------------------------
(* The actions of the queue. *)

LEMMA CommandAnswered == ASSUME CommandInv, Commanded!Answered PROVE CommandInv'
<1> DEFINE set == Commanded!Named(Head(wire).name)
<1>1. /\ ~walk.active /\ wire # <<>> /\ commands_sent' = commands_sent \ set
      /\ outcome' = Commanded!Report(set, Head(wire).kind) /\ wire' = Tail(wire)
      /\ UNCHANGED <<command, now, walk, open, remote>>
    BY DEF Commanded!Answered, Commanded!Without
<1>2. wire \in Seq([name : Names, kind : {"done", "failure"}])
    BY DEF CommandInv, CommandTypes
<1>3. /\ Head(wire) \in [name : Names, kind : {"done", "failure"}]
      /\ wire' \in Seq([name : Names, kind : {"done", "failure"}])
    BY <1>1, <1>2, HeadTailProperties
<1>4. Head(wire).kind \in Kinds
    BY <1>3 DEF Kinds
<1>5. set \subseteq commands_sent
    BY DEF Commanded!Named
<1>6. ~walk.calling
    BY <1>1 DEF CommandInv, CommandTypes
<1>7. \A n \in commands_sent' : command[n].connection \in open' \cup {None}
    BY <1>1 DEF CommandInv, Commanded!NoLostConnection
<1> HIDE DEF set
<1>8. QED
    BY <1>1, <1>3, <1>4, <1>5, <1>6, <1>7, CommandLeaves

\* The user gives up the commands of a name, also in the callback.
LEMMA CommandGivenUp ==
    ASSUME CommandInv, NEW name \in Names,
           Commanded!Failure(name) \/ Commanded!RemoveNamed(name)
    PROVE  CommandInv'
<1> DEFINE set == Commanded!Named(name)
<1>1. PICK k \in Kinds :
        /\ Commanded!UserRuns /\ Commanded!Spared(set) /\ commands_sent' = commands_sent \ set
        /\ outcome' = Commanded!Report(set, k)
        /\ UNCHANGED <<command, now, walk, open, remote, wire>>
    BY DEF Commanded!Failure, Commanded!RemoveNamed, Commanded!Without, Kinds
<1>2. set \subseteq commands_sent
    BY DEF Commanded!Named
<1>3. /\ ~walk.active \/ walk.calling
      /\ walk.calling => walk.cursor \notin set
    BY <1>1 DEF Commanded!UserRuns, Commanded!Spared
<1>4. /\ wire' \in Seq([name : Names, kind : {"done", "failure"}])
      /\ \A n \in commands_sent' : command[n].connection \in open' \cup {None}
    BY <1>1 DEF CommandInv, CommandTypes, Commanded!NoLostConnection
<1> HIDE DEF set
<1>5. QED
    BY <1>1, <1>2, <1>3, <1>4, CommandLeaves

LEMMA CommandConnectionLost ==
    ASSUME CommandInv, NEW c \in Connections, Commanded!RemoveWithConnection(c)
    PROVE  CommandInv'
<1> DEFINE set == Commanded!Of(c)
<1>1. /\ ~walk.active /\ open' = open \ {c} /\ commands_sent' = commands_sent \ set
      /\ outcome' = Commanded!Report(set, "removed")
      /\ UNCHANGED <<command, now, walk, remote, wire>>
    BY DEF Commanded!RemoveWithConnection, Commanded!Without
<1>2. set \subseteq commands_sent /\ "removed" \in Kinds
    BY DEF Commanded!Of, Kinds
<1>3. ~walk.calling /\ wire' \in Seq([name : Names, kind : {"done", "failure"}])
    BY <1>1 DEF CommandInv, CommandTypes
<1>4. \A n \in commands_sent' : command[n].connection \in open' \cup {None}
    BY <1>1 DEF CommandInv, Commanded!NoLostConnection, Commanded!Of
<1> HIDE DEF set
<1>5. QED
    BY <1>1, <1>2, <1>3, <1>4, CommandLeaves

\* The steps that leave the list and the outcomes alone.
LEMMA CommandElse ==
    ASSUME CommandInv, UNCHANGED <<commands_sent, command, open, outcome>>,
           now' \in Nat, remote' \subseteq remote,
           wire' \in Seq([name : Names, kind : {"done", "failure"}]),
           UNCHANGED walk
    PROVE  CommandInv'
<1>1. CommandTypes'
    BY DEF CommandInv, CommandTypes
<1>2. CommandOutcomes' /\ CommandsPassed' /\ Commanded!NoLostConnection'
    BY DEF CommandInv, CommandOutcomes, CommandsPassed, Pending, Commanded!Expired,
           Commanded!NoLostConnection
<1>3. QED
    BY <1>1, <1>2 DEF CommandInv

LEMMA CommandFinish == ASSUME CommandInv, NEW n, Commanded!Finish(n) PROVE CommandInv'
<1>1. PICK k \in {"done", "failure"} :
        wire' = Append(wire, [name |-> command[n].name, kind |-> k])
    BY DEF Commanded!Finish
<1>2. /\ n \in remote /\ remote' \subseteq remote
      /\ UNCHANGED <<commands_sent, command, now, walk, open, outcome>>
    BY DEF Commanded!Finish
<1>3. /\ command \in Seq(CommandFields) /\ n \in 1..Len(command) /\ now \in Nat
      /\ wire \in Seq([name : Names, kind : {"done", "failure"}])
    BY <1>2 DEF CommandInv, CommandTypes
<1>4. command[n].name \in Names
  <2>1. command[n] \in CommandFields
      BY <1>3, ElementOfSeq
  <2>2. QED
      BY <2>1 DEF CommandFields
<1>5. [name |-> command[n].name, kind |-> k] \in [name : Names, kind : {"done", "failure"}]
    BY <1>4
<1>6. wire' \in Seq([name : Names, kind : {"done", "failure"}])
    BY <1>1, <1>3, <1>5, Appended
<1>7. QED
    BY <1>2, <1>3, <1>6, CommandElse

-----------------------------------------------------------------------------
(* The walk. *)

LEMMA CommandCheck == ASSUME CommandInv, Commanded!Check PROVE CommandInv'
<1>1. /\ ~walk.active
      /\ walk' = [active |-> TRUE, calling |-> FALSE, time |-> now, cursor |-> 0]
      /\ UNCHANGED <<commands_sent, command, now, open, remote, wire, outcome>>
    BY DEF Commanded!Check, Commanded!NoWalk, Commanded!ListHead
<1>2. CommandTypes /\ ~walk.calling /\ commands_sent \subseteq Nat \ {0}
    BY <1>1 DEF CommandInv, CommandTypes
<1>3. CommandTypes'
    BY <1>1, <1>2 DEF CommandTypes
<1>4. CommandOutcomes' /\ Commanded!NoLostConnection'
    BY <1>1, <1>2 DEF CommandInv, CommandOutcomes, Pending, Commanded!NoLostConnection
<1>5. CommandsPassed'
    BY <1>1, <1>2 DEF CommandsPassed
<1>6. QED
    BY <1>3, <1>4, <1>5 DEF CommandInv

LEMMA CommandPass == ASSUME CommandInv, Commanded!CheckPass PROVE CommandInv'
<1>1. PICK n : n = Commanded!After(walk.cursor)
    OBVIOUS
<1>2. /\ walk.active /\ ~walk.calling /\ n # 0 /\ ~Commanded!Expired(n)
      /\ walk' = [walk EXCEPT !.cursor = n]
      /\ UNCHANGED <<commands_sent, command, now, open, remote, wire, outcome>>
    BY <1>1 DEF Commanded!CheckPass, Commanded!ListHead
<1>3. CommandTypes /\ walk.cursor \in Nat
    BY DEF CommandInv, CommandTypes
<1>4. /\ n \in commands_sent /\ n > walk.cursor
      /\ \A m \in commands_sent : m < n => m <= walk.cursor
    BY <1>1, <1>2, <1>3, NextCommand
<1>5. /\ walk'.active /\ ~walk'.calling /\ walk'.time = walk.time /\ walk'.cursor = n
      /\ walk' \in [active : BOOLEAN, calling : BOOLEAN, time : Nat, cursor : Nat]
      /\ commands_sent \subseteq Nat
  <2>1. /\ walk \in [active : BOOLEAN, calling : BOOLEAN, time : Nat, cursor : Nat]
        /\ commands_sent \subseteq Nat
      BY <1>3 DEF CommandTypes
  <2>2. n \in Nat
      BY <1>4, <2>1
  <2>3. QED
      BY <1>2, <2>1, <2>2
<1>6. CommandTypes'
    BY <1>2, <1>3, <1>4, <1>5 DEF CommandTypes
<1>7. CommandOutcomes' /\ Commanded!NoLostConnection'
    BY <1>2, <1>5 DEF CommandInv, CommandOutcomes, Pending, Commanded!NoLostConnection
<1>8. CommandsPassed'
  <2> SUFFICES ASSUME NEW m \in commands_sent, m <= n PROVE ~Commanded!Expired(m)'
      BY <1>2, <1>5 DEF CommandsPassed
  <2>1. ~Commanded!Expired(m)
    <3>1. CASE m = n
        BY <1>2, <3>1
    <3>2. CASE m # n
      <4>1. m <= walk.cursor
          BY <1>4, <1>5, <3>2
      <4>2. QED
          BY <1>2, <4>1 DEF CommandInv, CommandsPassed, Pending
    <3>3. QED
        BY <3>1, <3>2
  <2>2. QED
      BY <1>2, <1>5, <2>1 DEF Commanded!Expired
<1>9. QED
    BY <1>6, <1>7, <1>8 DEF CommandInv

LEMMA CommandTimeout == ASSUME CommandInv, Commanded!CheckTimeout PROVE CommandInv'
<1>1. PICK n : n = Commanded!After(walk.cursor)
    OBVIOUS
<1>2. /\ walk.active /\ ~walk.calling /\ n # 0
      /\ outcome' = Commanded!Report({n}, "timeout")
      /\ walk' = [walk EXCEPT !.cursor = n, !.calling = TRUE]
      /\ UNCHANGED <<commands_sent, command, now, open, remote, wire>>
    BY <1>1 DEF Commanded!CheckTimeout, Commanded!ListHead
<1>3. CommandTypes /\ walk.cursor \in Nat
    BY DEF CommandInv, CommandTypes
<1>4. /\ n \in commands_sent /\ n > walk.cursor
      /\ \A m \in commands_sent : m < n => m <= walk.cursor
    BY <1>1, <1>2, <1>3, NextCommand
<1>5. /\ walk'.active /\ walk'.calling /\ walk'.time = walk.time /\ walk'.cursor = n
      /\ walk' \in [active : BOOLEAN, calling : BOOLEAN, time : Nat, cursor : Nat]
      /\ commands_sent \subseteq Nat
  <2>1. /\ walk \in [active : BOOLEAN, calling : BOOLEAN, time : Nat, cursor : Nat]
        /\ commands_sent \subseteq Nat
      BY <1>3 DEF CommandTypes
  <2>2. n \in Nat
      BY <1>4, <2>1
  <2>3. QED
      BY <1>2, <2>1, <2>2
<1>6. /\ outcome' \in Seq(Seq(Kinds)) /\ Len(outcome') = Len(command)
      /\ \A m \in 1..Len(command) :
           /\ Len(outcome[m]) \in Nat
           /\ Len(outcome'[m]) = Len(outcome[m]) + IF m \in {n} THEN 1 ELSE 0
  <2>1. "timeout" \in Kinds /\ {n} \subseteq commands_sent
      BY <1>4 DEF Kinds
  <2>2. QED
      BY <1>2, <1>3, <2>1, Reported
<1>7. CommandTypes'
    BY <1>2, <1>3, <1>4, <1>5, <1>6 DEF CommandTypes
<1>8. CommandOutcomes'
  <2> SUFFICES ASSUME NEW m \in 1..Len(command)
               PROVE  Len(outcome'[m]) = IF Pending(m)' THEN 0 ELSE 1
      BY <1>2 DEF CommandOutcomes
  <2>1. Len(outcome[m]) = IF Pending(m) THEN 0 ELSE 1
      BY DEF CommandInv, CommandOutcomes
  <2>2. CASE m = n
    <3>1. Pending(m) /\ ~Pending(m)'
        BY <1>2, <1>4, <1>5, <2>2 DEF Pending
    <3>2. Len(outcome'[m]) = Len(outcome[m]) + 1 /\ Len(outcome[m]) = 0
        BY <1>6, <2>1, <2>2, <3>1
    <3>3. QED
        BY <3>1, <3>2
  <2>3. CASE m # n
    <3>1. Pending(m)' <=> Pending(m)
        BY <1>2, <1>5, <2>3 DEF Pending
    <3>2. Len(outcome'[m]) = Len(outcome[m]) + 0 /\ Len(outcome[m]) \in Nat
        BY <1>6, <2>3
    <3>3. QED
        BY <2>1, <3>1, <3>2
  <2>4. QED
      BY <2>2, <2>3
<1>9. CommandsPassed'
  <2> SUFFICES ASSUME NEW m \in commands_sent, m # n, m <= n PROVE ~Commanded!Expired(m)'
      BY <1>2, <1>5 DEF CommandsPassed, Pending
  <2>1. m <= walk.cursor
      BY <1>4, <1>5
  <2>2. ~Commanded!Expired(m)
      BY <1>2, <2>1 DEF CommandInv, CommandsPassed, Pending
  <2>3. QED
      BY <1>2, <1>5, <2>2 DEF Commanded!Expired
<1>10. Commanded!NoLostConnection'
    BY <1>2 DEF CommandInv, Commanded!NoLostConnection
<1>11. QED
    BY <1>7, <1>8, <1>9, <1>10 DEF CommandInv

\* The command whose callback ran is removed; the walk goes on behind the one
\* before it.
LEMMA CommandRemove == ASSUME CommandInv, Commanded!CheckRemove PROVE CommandInv'
<1>1. PICK n : n = walk.cursor
    OBVIOUS
<1>2. PICK b : b = Commanded!Before(n)
    OBVIOUS
<1>3. /\ walk.calling /\ walk' = [walk EXCEPT !.calling = FALSE, !.cursor = b]
      /\ commands_sent' = commands_sent \ {n}
      /\ UNCHANGED <<command, now, open, remote, wire, outcome>>
    BY <1>1, <1>2 DEF Commanded!CheckRemove, Commanded!GoOnFrom
<1>4. /\ CommandTypes /\ n \in Nat /\ n \in commands_sent /\ walk.active
      /\ commands_sent \subseteq Nat \ {0}
    BY <1>1, <1>3 DEF CommandInv, CommandTypes
<1>5. b \in Nat /\ (b = 0 \/ b \in commands_sent') /\ (b = 0 \/ b < n)
  <2>1. b = 0 \/ (b \in commands_sent /\ b < n)
      BY <1>2, <1>4, PreviousCommand
  <2>2. b < n => b # n
      BY <1>4, <2>1
  <2>3. QED
      BY <1>3, <1>4, <2>1, <2>2
<1>6. /\ walk'.active /\ ~walk'.calling /\ walk'.time = walk.time /\ walk'.cursor = b
      /\ walk' \in [active : BOOLEAN, calling : BOOLEAN, time : Nat, cursor : Nat]
    BY <1>3, <1>4, <1>5 DEF CommandTypes
<1>7. CommandTypes'
    BY <1>3, <1>4, <1>5, <1>6 DEF CommandTypes
<1>8. \A m : Pending(m)' <=> Pending(m)
    BY <1>1, <1>3, <1>4, <1>6 DEF Pending
<1>9. CommandOutcomes' /\ Commanded!NoLostConnection'
    BY <1>3, <1>8 DEF CommandInv, CommandOutcomes, Commanded!NoLostConnection
<1>10. CommandsPassed'
  <2> SUFFICES ASSUME NEW m \in commands_sent', Pending(m)', m <= b
               PROVE  ~Commanded!Expired(m)'
      BY <1>6 DEF CommandsPassed
  <2>1. m \in commands_sent /\ Pending(m)
      BY <1>3, <1>8
  <2>2. m <= n
      BY <1>4, <1>5, <2>1
  <2>3. ~Commanded!Expired(m)
      BY <1>1, <1>4, <2>1, <2>2 DEF CommandInv, CommandsPassed
  <2>4. QED
      BY <1>3, <1>6, <2>3 DEF Commanded!Expired
<1>11. QED
    BY <1>7, <1>9, <1>10 DEF CommandInv

LEMMA CommandEnd ==
    ASSUME CommandInv, Commanded!CheckEnd
    PROVE  CommandInv' /\ \A n \in commands_sent : ~Commanded!Expired(n)
<1>1. /\ walk.active /\ ~walk.calling /\ Commanded!After(walk.cursor) = 0
      /\ walk' = [active |-> FALSE, calling |-> FALSE, time |-> 0, cursor |-> 0]
      /\ UNCHANGED <<commands_sent, command, now, open, remote, wire, outcome>>
    BY DEF Commanded!CheckEnd, Commanded!ListHead, Commanded!NoWalk
<1>2. CommandTypes /\ walk.cursor \in Nat
    BY DEF CommandInv, CommandTypes
<1>3. \A n \in commands_sent : n <= walk.cursor
    BY <1>1, <1>2, NextCommand
<1>4. \A n \in commands_sent : ~Commanded!Expired(n)
    BY <1>1, <1>3 DEF CommandInv, CommandsPassed, Pending
<1>5. CommandTypes'
    BY <1>1, <1>2 DEF CommandTypes
<1>6. CommandOutcomes' /\ Commanded!NoLostConnection'
    BY <1>1 DEF CommandInv, CommandOutcomes, Pending, Commanded!NoLostConnection
<1>7. CommandsPassed'
    BY <1>1 DEF CommandsPassed
<1>8. QED
    BY <1>4, <1>5, <1>6, <1>7 DEF CommandInv

LEMMA CommandStep == CommandInv /\ [Commanded!Next]_Commanded!vars => CommandInv'
<1> SUFFICES ASSUME CommandInv, [Commanded!Next]_Commanded!vars PROVE CommandInv'
    OBVIOUS
<1>1. /\ now \in Nat /\ remote \subseteq remote
      /\ wire \in Seq([name : Names, kind : {"done", "failure"}])
    BY DEF CommandInv, CommandTypes
<1>2. CASE Commanded!Tick
  <2>1. /\ now' = now + 1
        /\ UNCHANGED <<commands_sent, command, walk, open, remote, wire, outcome>>
      BY <1>2 DEF Commanded!Tick
  <2>2. QED
      BY <1>1, <2>1, CommandElse
<1>3. CASE UNCHANGED Commanded!vars
  <2>1. UNCHANGED <<commands_sent, command, now, walk, open, remote, wire, outcome>>
      BY <1>3 DEF Commanded!vars
  <2>2. QED
      BY <1>1, <2>1, CommandElse
<1>4. CASE Commanded!CheckStep
    BY <1>4, CommandPass, CommandTimeout, CommandRemove, CommandEnd DEF Commanded!CheckStep
<1>5. QED
    BY <1>2, <1>3, <1>4, CommandAdd, CommandAnswered, CommandGivenUp, CommandConnectionLost,
       CommandCheck, CommandFinish DEF Commanded!Next

LEMMA CommandInvImplies ==
    CommandInv => Commanded!OneOutcome /\ Commanded!NoLostConnection /\ Commanded!WalkOnList
<1> SUFFICES ASSUME CommandInv
             PROVE  Commanded!OneOutcome /\ Commanded!NoLostConnection /\ Commanded!WalkOnList
    OBVIOUS
<1>1. Commanded!Sent = 1..Len(command)
    BY LenProperties DEF CommandInv, CommandTypes, Commanded!Sent
<1>2. Commanded!OneOutcome
    BY <1>1 DEF CommandInv, CommandOutcomes, Pending, Commanded!OneOutcome
<1>3. QED
    BY <1>2 DEF CommandInv, CommandTypes, Commanded!WalkOnList, Commanded!ListHead

-----------------------------------------------------------------------------
(* The theorems. *)

\* The driver's fields, the handle of the camera and the window are of their
\* types; a camera that works is plugged in and its window fits
\* (grabber_gxccd.c:315, 376).
THEOREM GxccdTyped == Spec => []TypeOK
<1>1. Init => GxccdInv
    BY GxccdInit
<1>2. GxccdInv /\ [Next]_vars => GxccdInv'
    BY GxccdStep
<1>3. GxccdInv => TypeOK
    BY DEF GxccdInv
<1> QED BY <1>1, <1>2, <1>3, PTL DEF Spec

\* Unless it was connected anew, a camera that acquires is exposing or has
\* an image ready (grabber_gxccd.c:458), also after it could not be read.
THEOREM GxccdGoesOn == Spec => []AcquisitionGoesOn
<1>1. Init => AcquisitionGoesOn
    BY DEF Init, AcquisitionGoesOn
<1> QED BY <1>1, GoesOnStep, GxccdInvAlways, PTL DEF Spec

\* A stopped camera is idle, also when it was stopped while it was away
\* (grabber_gxccd.c:232).
THEOREM GxccdIdle == Spec => []IdleWhenStopped
<1>1. Init => IdleWhenStopped
    BY DEF Init, IdleWhenStopped, NoExposure
<1> QED BY <1>1, IdleStep, GxccdInvAlways, PTL DEF Spec

\* The parameters that are told of a frame are those in the camera, also
\* after a reconnection (grabber_gxccd.c:136, 426).
THEOREM GxccdParameters == Spec => []ParametersAreSet
<1>1. Init => ParametersAreSet
    BY GxccdAssumption DEF Init, ParametersAreSet, GxccdAssumption
<1> QED BY <1>1, ParametersStep, PTL DEF Spec

\* The queue of buffers of the Andor driver is kept, whatever the order of
\* starts, stops, commands, frames and failing calls (grabber_andor.c:366-403).
THEOREM AndorRingIsKept == Andor!Spec => []Andor!RingIsKept
<1> QED BY AndorInit, AndorStep, AndorInvImplies, PTL DEF Andor!Spec

\* The binning that a frame of that driver tells is the one it was exposed
\* with (grabber_andor.c:470).
THEOREM AndorTellsItsBinning == Andor!Spec => []Andor!FramesTellTheirBinning
<1> QED BY AndorInit, AndorStep, AndorInvImplies, PTL DEF Andor!Spec

\* A PVCAM camera never writes into memory that was freed
\* (grabber_pvcam.c:404-470).
THEOREM PvcamMemory == Pvcam!Spec => []Pvcam!MemoryIsKept
<1> QED BY PvcamInit, PvcamStep, PvcamInvImplies, PTL DEF Pvcam!Spec

\* What its frames tell of the settings is what they were exposed with
\* (grabber_pvcam.c:533-572).
THEOREM PvcamSettings == Pvcam!Spec => []Pvcam!FramesTellTheirSettings
<1> QED BY PvcamInit, PvcamStep, PvcamInvImplies, PTL DEF Pvcam!Spec

\* The size of a frame and the exposure that it tells are those it was taken
\* with, though settings change while frames wait, and its number is never
\* too small (fast_grabber.c:244, 274, grabber_andor2.c:261-333).
THEOREM Andor2Settings == Andor2!Spec => []Andor2!FramesTellTheirSettings
<1>1. Andor2Inv => Andor2!FramesTellTheirSettings
    BY DEF Andor2Inv
<1>2. Andor2Inv /\ [Andor2!Next]_Andor2!vars => Andor2Inv'
    BY Andor2Step, NoneIsApart
<1> QED BY <1>1, <1>2, Andor2Init, PTL DEF Andor2!Spec

\* A command waits for its outcome or has one, its connection is open, and
\* the walk stands on the list (command_queue.c:77-222).
THEOREM CommandsAreAnsweredOnce ==
    Commanded!Spec =>
        [](Commanded!OneOutcome /\ Commanded!NoLostConnection /\ Commanded!WalkOnList)
<1> QED BY CommandInit, CommandStep, CommandInvImplies, PTL DEF Commanded!Spec

\* When the walk of command_queue_check is over, nothing that had expired when
\* it began is left, whatever the callbacks removed or added
\* (command_queue.c:201).
THEOREM WalkSkipsNone == Commanded!Spec => Commanded!NoneSkipped
<1>1. CommandInv /\ [Commanded!Next]_Commanded!vars =>
        [Commanded!CheckEnd => \A n \in commands_sent : ~Commanded!Expired(n)]_Commanded!vars
    BY CommandEnd
<1> QED BY <1>1, CommandInit, CommandStep, PTL DEF Commanded!Spec, Commanded!NoneSkipped

\* A step of all the parts is a step or a stutter of each of them.
LEMMA StepsOfParts ==
    [PartNext]_PartVars =>
        /\ [Next]_vars /\ [Andor!Next]_Andor!vars /\ [Andor2!Next]_Andor2!vars
        /\ [Pvcam!Next]_Pvcam!vars /\ [Commanded!Next]_Commanded!vars
<1> SUFFICES ASSUME [PartNext]_PartVars
             PROVE  /\ [Next]_vars /\ [Andor!Next]_Andor!vars /\ [Andor2!Next]_Andor2!vars
                    /\ [Pvcam!Next]_Pvcam!vars /\ [Commanded!Next]_Commanded!vars
    OBVIOUS
<1>0. Next \/ UNCHANGED vars
    BY DEF PartNext, PartVars, Others
<1>1. Andor!Next \/ UNCHANGED andorVars
    BY DEF PartNext, PartVars, Others
<1>2. Andor2!Next \/ UNCHANGED andor2Vars
    BY DEF PartNext, PartVars, Others
<1>3. Pvcam!Next \/ UNCHANGED pvcamVars
    BY DEF PartNext, PartVars, Others
<1>4. Commanded!Next \/ UNCHANGED commandVars
    BY DEF PartNext, PartVars, Others
<1>5. UNCHANGED andorVars => UNCHANGED Andor!vars
    BY DEF andorVars, Andor!vars
<1>6. UNCHANGED andor2Vars => UNCHANGED Andor2!vars
    BY DEF andor2Vars, Andor2!vars, Andor2!settings
<1>7. UNCHANGED pvcamVars => UNCHANGED Pvcam!vars
    BY DEF pvcamVars, Pvcam!vars, Pvcam!fields
<1>8. UNCHANGED commandVars => UNCHANGED Commanded!vars
    BY DEF commandVars, Commanded!vars
<1>9. QED
    BY <1>0, <1>1, <1>2, <1>3, <1>4, <1>5, <1>6, <1>7, <1>8

\* The parts side by side implement each part, so that what was shown of a
\* part, a driver or the queue of commands, holds of what the run explores.
\* Of the GXCCD driver this is without its fairness, which is for TLC.
THEOREM PartsImplementEach ==
    PartSpec =>
        /\ Init /\ [][Next]_vars
        /\ Andor!Spec /\ Andor2!Spec /\ Pvcam!Spec /\ Commanded!Spec
<1>1. PartInit => Init /\ Andor!Init /\ Andor2!Init /\ Pvcam!Init /\ Commanded!Init
    BY DEF PartInit
<1> QED BY <1>1, StepsOfParts, PTL
        DEF PartSpec, Andor!Spec, Andor2!Spec, Pvcam!Spec, Commanded!Spec

\* The GXCCD driver among the parts: its types, an acquisition that goes on, a
\* stopped camera that is idle, and parameters that are those in the camera
\* (grabber_gxccd.c:136, 232, 458).
THEOREM GxccdAmongParts ==
    PartSpec => [](TypeOK /\ AcquisitionGoesOn /\ IdleWhenStopped /\ ParametersAreSet)
<1>1. Init => AcquisitionGoesOn /\ IdleWhenStopped /\ ParametersAreSet
    BY GxccdAssumption
       DEF Init, AcquisitionGoesOn, IdleWhenStopped, ParametersAreSet, NoExposure, GxccdAssumption
<1>2. GxccdInv => TypeOK
    BY DEF GxccdInv
<1> QED BY <1>1, <1>2, PartsImplementEach, GxccdInvAlways, GoesOnStep, IdleStep,
           ParametersStep, PTL

\* The buffers of the Andor driver and the memory of the PVCAM driver
\* (grabber_andor.c:366-403, grabber_pvcam.c:404-470).
THEOREM AllBuffersAreKept == PartSpec => []BuffersAreKept
<1> QED BY PartsImplementEach, AndorRingIsKept, PvcamMemory, PTL DEF BuffersAreKept

\* What a frame tells of the settings, for the drivers of the Andor cameras of
\* both versions and of the PVCAM cameras (grabber_andor.c:470,
\* grabber_andor2.c:261-333, grabber_pvcam.c:533-572).
THEOREM AllFramesTellTheirSettings == PartSpec => []FramesTellTheirSettings
<1> QED BY PartsImplementEach, AndorTellsItsBinning, Andor2Settings, PvcamSettings, PTL
        DEF FramesTellTheirSettings

\* No command is reported twice or forgotten, and none of a lost connection
\* is kept (command_queue.c:77-222).
THEOREM EveryCommandHasOneOutcome == PartSpec => []OneOutcome
<1>1. Commanded!OneOutcome /\ Commanded!NoLostConnection /\ Commanded!WalkOnList => OneOutcome
    BY DEF OneOutcome
<1> QED BY <1>1, PartsImplementEach, CommandsAreAnsweredOnce, PTL

\* The walk meets every command that has expired (command_queue.c:201).
THEOREM NoExpiredCommandIsSkipped == PartSpec => NoneSkipped
<1> QED BY PartsImplementEach, WalkSkipsNone, PTL DEF NoneSkipped
=============================================================================
