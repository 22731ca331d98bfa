---------------------------- MODULE StreamBuffer ----------------------------
(***************************************************************************)
(* StreamBuffer of src/types.rs: reassembly of JPEG frames from the        *)
(* fragments the camera sends (msg_flag 250 start, 251 middle, 252 end)    *)
(* and the bounded list of complete frames the web endpoints read.         *)
(*                                                                         *)
(* A fragment is what of a packet the buffer keeps: its payload.  It is    *)
(* given here a stamp (which arrival it was) and the kind of packet it     *)
(* came from, which the code forgets, so that properties can speak of      *)
(* them; no action reads the stamp or the kind of a stored fragment.       *)
(* Sizes are abstracted: what matters of a payload is whether its last     *)
(* four bytes read as a number in 1 .. 999999, for then assemble_frame     *)
(* takes them for the frame size and cuts them off.                        *)
(***************************************************************************)
EXTENDS Integers, Sequences

CONSTANTS
    Payload,        \* the payloads packets may carry
    SizeTail,       \* those that end in four bytes readable as a frame size
    MaxFrames,      \* frames kept (100 in CameraConnection::new)
    MaxArrivals     \* bound: packets looked at

ASSUME PayloadAssumption == SizeTail \subseteq Payload
ASSUME MaxFramesAssumption == MaxFrames \in Nat \ {0}
ASSUME MaxArrivalsAssumption == MaxArrivals \in Nat

VARIABLES
    frames,         \* frames: the complete frames, oldest first
    current_frame,  \* current_frame: fragments so far, <<>> standing for None
    arrivals        \* packets seen so far: the stamp of the latest

vars == <<frames, current_frame, arrivals>>

Part == {"start", "middle", "end"}
Fragment == [stamp : Nat, part : Part, payload : Payload]
Frame == [parts : Seq(Fragment), cut : BOOLEAN]

TypeOK ==
    /\ frames \in Seq(Frame)
    /\ current_frame \in Seq(Fragment)
    /\ arrivals \in Nat

-----------------------------------------------------------------------------
(* The fragment that arrives next. *)
NextFragment(part, payload) ==
    [stamp |-> arrivals + 1, part |-> part, payload |-> payload]

(* assemble_frame: the payloads one after the other, the last four bytes of *)
(* the last one cut off whenever they read as a size.                       *)
assemble_frame(fragments) ==
    [parts |-> fragments,
     cut   |-> fragments[Len(fragments)].payload \in SizeTail]

(* mutant: room is made one frame too late *)
AddFrameLate(frame) ==
    frames' = Append(IF Len(frames) > MaxFrames THEN Tail(frames) ELSE frames,
                     frame)

(* add_complete_frame: the oldest frame makes room in a full buffer. *)
add_complete_frame(frame) ==
    frames' = Append(IF Len(frames) >= MaxFrames THEN Tail(frames) ELSE frames,
                     frame)

Arrive == arrivals < MaxArrivals /\ arrivals' = arrivals + 1

(* mutant: a start does not drop the frame that never ended *)
StartKeepsOld(payload) ==
    /\ Arrive
    /\ current_frame' = Append(current_frame, NextFragment("start", payload))
    /\ UNCHANGED frames

(* start_new_frame: whatever was being assembled is dropped. *)
StartNewFrame(payload) ==
    /\ Arrive
    /\ current_frame' = <<NextFragment("start", payload)>>
    /\ UNCHANGED frames

(* add_frame_fragment: a middle fragment without a frame is ignored. *)
AddFrameFragment(payload) ==
    /\ Arrive
    /\ current_frame' =
          IF current_frame = <<>> THEN <<>>
          ELSE Append(current_frame, NextFragment("middle", payload))
    /\ UNCHANGED frames

(* mutant: the frame is published but not taken *)
CompleteWithoutTaking(payload) ==
    /\ Arrive
    /\ UNCHANGED current_frame
    /\ IF current_frame = <<>>
       THEN UNCHANGED frames
       ELSE add_complete_frame(assemble_frame(
                Append(current_frame, NextFragment("end", payload))))

(* mutant: the end fragment itself is left out *)
CompleteWithoutEnd(payload) ==
    /\ Arrive
    /\ current_frame' = <<>>
    /\ IF current_frame = <<>> THEN UNCHANGED frames
                              ELSE add_complete_frame(assemble_frame(current_frame))

(* mutant: the test for several fragments comes before the end is added *)
CompleteOnlyLong(payload) ==
    /\ Arrive
    /\ current_frame' = <<>>
    /\ IF Len(current_frame) <= 1
       THEN UNCHANGED frames
       ELSE add_complete_frame(assemble_frame(
                Append(current_frame, NextFragment("end", payload))))

(* complete_frame: an end fragment without a frame is ignored. *)
CompleteFrame(payload) ==
    /\ Arrive
    /\ current_frame' = <<>>
    /\ IF current_frame = <<>>
       THEN UNCHANGED frames
       ELSE add_complete_frame(assemble_frame(
                Append(current_frame, NextFragment("end", payload))))

(* Audio packets (cmd 6), TCP video frames (msg_flag 0) and unknown pairs   *)
(* reach add_fragment and leave the buffer as it is.                        *)
OtherPacket ==
    /\ Arrive
    /\ UNCHANGED <<frames, current_frame>>

(* mutant: as_ref() for take(), so that the frame goes on being assembled *)
TickWithoutTaking ==
    /\ Len(current_frame) > 1
    /\ add_complete_frame(assemble_frame(current_frame))
    /\ UNCHANGED <<current_frame, arrivals>>

(* complete_incomplete_frame: the periodic task publishes what there is if  *)
(* it has at least two fragments, and drops a lone start fragment.          *)
CompleteIncompleteFrame ==
    /\ current_frame # <<>>
    /\ IF Len(current_frame) > 1
       THEN add_complete_frame(assemble_frame(current_frame))
       ELSE UNCHANGED frames
    /\ current_frame' = <<>>
    /\ UNCHANGED arrivals

(* clear: stop_streaming forgets all frames. *)
Clear ==
    /\ frames' = <<>>
    /\ current_frame' = <<>>
    /\ UNCHANGED arrivals

Init ==
    /\ frames = <<>>
    /\ current_frame = <<>>
    /\ arrivals = 0

Next ==
    \/ \E payload \in Payload : StartNewFrame(payload)
    \/ \E payload \in Payload : AddFrameFragment(payload)
    \/ \E payload \in Payload : CompleteFrame(payload)
    \/ OtherPacket
    \/ CompleteIncompleteFrame
    \/ Clear

Spec == Init /\ [][Next]_vars

-----------------------------------------------------------------------------
(* The stamps of a list of fragments strictly increase. *)
InArrivalOrder(fragments) ==
    \A i, j \in 1 .. Len(fragments) :
        i < j => fragments[i].stamp < fragments[j].stamp

FirstStamp(fragments) == fragments[1].stamp
LastStamp(fragments) == fragments[Len(fragments)].stamp

(* ArrivalOrder: frames hold fragments in the order they arrived, later     *)
(* frames hold later fragments, and what is being assembled is later than   *)
(* every complete frame.  A start that drops an unfinished frame, the       *)
(* periodic task that closes one, and eviction from a full buffer must all  *)
(* keep it: no packet is ever shown twice or out of order.                  *)
ArrivalOrder ==
    /\ \A n \in 1 .. Len(frames) : InArrivalOrder(frames[n].parts)
    /\ \A m, n \in 1 .. Len(frames) :
          m < n => LastStamp(frames[m].parts) < FirstStamp(frames[n].parts)
    /\ InArrivalOrder(current_frame)
    /\ current_frame # <<>> =>
          \A n \in 1 .. Len(frames) :
              LastStamp(frames[n].parts) < FirstStamp(current_frame)

(* FrameShape: a complete frame has at least two fragments, begins at a     *)
(* start fragment and has no other, and an end fragment can only be its     *)
(* last: two frames are never glued together at a start or an end that did  *)
(* arrive.                                                                  *)
WellShaped(fragments) ==
    /\ fragments[1].part = "start"
    /\ \A i \in 2 .. Len(fragments) : fragments[i].part # "start"
    /\ \A i \in 1 .. Len(fragments) - 1 : fragments[i].part # "end"

FrameShape ==
    \A n \in 1 .. Len(frames) :
        Len(frames[n].parts) >= 2 /\ WellShaped(frames[n].parts)

(* Bounded: add_complete_frame, called from the packet path and from the    *)
(* periodic task, never lets the list pass max_frames.                      *)
Bounded == Len(frames) <= MaxFrames

(* The buffer as a log of arrival intervals.  What is closed ends just      *)
(* before the frame being assembled, or at the latest arrival.              *)
Interval(frame) == <<FirstStamp(frame.parts), LastStamp(frame.parts)>>

Log == INSTANCE FrameLog WITH
    Capacity <- MaxFrames,
    log      <- [n \in 1 .. Len(frames) |-> Interval(frames[n])],
    closed   <- IF current_frame = <<>> THEN arrivals
                ELSE FirstStamp(current_frame) - 1,
    clock    <- arrivals

(* ImplementsFrameLog: every step of the buffer is a step of the abstract   *)
(* log, or changes nothing of it.                                           *)
ImplementsFrameLog == Log!LogSpec
=============================================================================
