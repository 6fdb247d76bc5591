------------------------------ MODULE FrameFlow ------------------------------
(***************************************************************************)
(* What the daemon promises about the frames of its camera: they are kept  *)
(* in the order in which they came, each of them only while frames are     *)
(* being stored and when no older one is still waiting, and one is lost    *)
(* for two reasons only: because it was its turn and nothing was being     *)
(* stored, or because there was no room.  No thread and no queue is        *)
(* mentioned.                                                              *)
(***************************************************************************)
EXTENDS Naturals, Sequences

VARIABLES
    delivered,  \* how many frames the camera has delivered
    kept,       \* the numbers of those on the disk, as they got there
    lost,       \* the numbers of those that are lost
    storing,    \* whether frames are being stored
    crowded     \* there is no room: of the environment, which may change it

flow == <<delivered, kept, lost, storing>>

Kept == {kept[i] : i \in DOMAIN kept}
Waiting == (1..delivered) \ (Kept \cup lost)
IsNext(k) == k \in Waiting /\ \A j \in Waiting : k <= j

FlowInit == delivered = 0 /\ kept = <<>> /\ lost = {} /\ storing = FALSE

\* A frame that is waiting makes room, if there is none.
MakeRoom == crowded /\ \E k \in Waiting : lost' = lost \cup {k}

\* The camera delivers a frame.
Deliver ==
    /\ delivered' = delivered + 1
    /\ MakeRoom \/ UNCHANGED lost
    /\ UNCHANGED <<kept, storing>>

\* Something else needs room.
Overflow == MakeRoom /\ UNCHANGED <<delivered, kept, storing>>

\* The turn of a frame has come.
Keep ==
    /\ storing
    /\ \E k \in Waiting : IsNext(k) /\ kept' = Append(kept, k)
    /\ UNCHANGED <<delivered, lost, storing>>
Discard ==
    /\ ~storing
    /\ \E k \in Waiting : IsNext(k) /\ lost' = lost \cup {k}
    /\ UNCHANGED <<delivered, kept, storing>>

\* Frames begin or cease to be stored.
Switch == storing' = ~storing /\ UNCHANGED <<delivered, kept, lost>>

FlowNext == Deliver \/ Overflow \/ Keep \/ Discard \/ Switch

FlowSpec == FlowInit /\ [][FlowNext]_flow
=============================================================================
