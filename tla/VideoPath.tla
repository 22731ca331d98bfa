------------------------------ MODULE VideoPath ------------------------------
(***************************************************************************)
(* The video of one camera, from its fragments to the frames on show: a    *)
(* camera that sends each JPEG frame as a start, some middle and an end    *)
(* packet (external to src/), a UDP path that keeps their order and may    *)
(* lose some kinds of them (external), handle_video_frame of               *)
(* src/router/udp.rs, which feeds them to the StreamBuffer one at a time   *)
(* under the camera's lock, and the periodic_incomplete_frame_task and     *)
(* stop_streaming, which come at any moment between two packets.           *)
(***************************************************************************)
EXTENDS StreamBuffer

CONSTANTS
    MaxSent,        \* bound: frames the camera sends
    MaxMiddles,     \* bound: middle fragments in a frame
    Lossy           \* the kinds of packet the network may lose

ASSUME SenderAssumption == MaxSent \in Nat /\ MaxMiddles \in Nat
ASSUME LossyAssumption == Lossy \subseteq Part

VARIABLES
    sent,           \* number of the frame the camera is sending or sent last
    next,           \* index of its next fragment, 0 between two frames
    channel,        \* packets on their way
    lost,           \* packets that did not arrive
    hit             \* ghost: frames the timer or a stop found in assembly

pathVars == <<sent, next, channel, lost, hit>>
allVars == <<vars, pathVars>>

(* What tells packets apart: the frame they belong to and their place in it. *)
Packet == [frame : 1 .. MaxSent, part : Part, index : 0 .. MaxMiddles + 1]

(* They are all the buffer is given, and an end packet ends in the size of  *)
(* its frame.                                                               *)
ASSUME PacketAssumption == Payload = Packet
ASSUME SizeAssumption ==
    \A packet \in Packet : packet.part = "end" => packet \in SizeTail

PathTypeOK ==
    /\ TypeOK
    /\ sent \in 0 .. MaxSent
    /\ next \in 0 .. MaxMiddles + 1
    /\ channel \in Seq(Packet)
    /\ lost \subseteq Packet
    /\ hit \subseteq 1 .. MaxSent

-----------------------------------------------------------------------------
Put(frame, part, index) ==
    channel' = Append(channel, [frame |-> frame, part |-> part, index |-> index])

SendStart ==
    /\ next = 0 /\ sent < MaxSent
    /\ sent' = sent + 1
    /\ next' = 1
    /\ Put(sent + 1, "start", 0)
    /\ UNCHANGED <<vars, lost, hit>>

SendMiddle ==
    /\ next \in 1 .. MaxMiddles
    /\ next' = next + 1
    /\ Put(sent, "middle", next)
    /\ UNCHANGED <<vars, sent, lost, hit>>

SendEnd ==
    /\ next > 0
    /\ next' = 0
    /\ Put(sent, "end", next)
    /\ UNCHANGED <<vars, sent, lost, hit>>

(* handle_video_frame on the next datagram: add_fragment picks the method   *)
(* by the packet's msg_flag.                                                *)
handle_video_frame ==
    /\ channel # <<>>
    /\ LET packet == Head(channel) IN
          \/ packet.part = "start" /\ StartNewFrame(packet)
          \/ packet.part = "middle" /\ AddFrameFragment(packet)
          \/ packet.part = "end" /\ CompleteFrame(packet)
    /\ channel' = Tail(channel)
    /\ UNCHANGED <<sent, next, lost, hit>>

Lose ==
    /\ channel # <<>> /\ Head(channel).part \in Lossy
    /\ channel' = Tail(channel)
    /\ lost' = lost \cup {Head(channel)}
    /\ UNCHANGED <<vars, sent, next, hit>>

HitAssembly ==
    hit' = hit \cup {current_frame[n].payload.frame : n \in DOMAIN current_frame}

(* periodic_incomplete_frame_task: whatever is being assembled is closed,   *)
(* however recent it is.                                                    *)
periodic_incomplete_frame_task ==
    /\ CompleteIncompleteFrame
    /\ HitAssembly
    /\ UNCHANGED <<sent, next, channel, lost>>

(* stop_streaming, when its try_writes succeed: all frames are forgotten.   *)
(* Packets still on their way, and those the camera sends before it heeds   *)
(* the stop, go on coming.                                                  *)
stop_streaming ==
    /\ Clear
    /\ HitAssembly
    /\ UNCHANGED <<sent, next, channel, lost>>

PathInit ==
    /\ Init
    /\ sent = 0 /\ next = 0
    /\ channel = <<>>
    /\ lost = {}
    /\ hit = {}

PathNext ==
    \/ SendStart \/ SendMiddle \/ SendEnd
    \/ handle_video_frame \/ Lose
    \/ periodic_incomplete_frame_task \/ stop_streaming

PathSpec == PathInit /\ [][PathNext]_allVars

-----------------------------------------------------------------------------
FrameOf(n) == frames[n].parts[1].payload.frame
LastPart(n) == frames[n].parts[Len(frames[n].parts)]

(* NoMixedFrames: package ids are not looked at, and still fragments of two *)
(* frames are shown as one only if all that could have told them apart is   *)
(* lost: the end of the first and the start of the second.                  *)
NoMixedFrames ==
    \A n \in 1 .. Len(frames) : \A i \in 2 .. Len(frames[n].parts) :
        LET before == frames[n].parts[i - 1].payload
            after == frames[n].parts[i].payload
        IN  before.frame # after.frame =>
                /\ \E packet \in lost :
                      packet.part = "end" /\ packet.frame = before.frame
                /\ \E packet \in lost :
                      packet.part = "start" /\ packet.frame = after.frame

(* NoFrameTwice: frames are shown in the order the camera sent them and     *)
(* none twice, also when the timer closed a frame whose packets were still  *)
(* coming in.                                                               *)
NoFrameTwice ==
    \A m, n \in 1 .. Len(frames) : m < n => FrameOf(m) < FrameOf(n)

(* A frame no timer closed, no stop dropped and no packet of was lost.     *)
Intact(f) == f \notin hit /\ \A packet \in lost : packet.frame # f

(* WholeFrames: an intact frame, whatever became of those before and after  *)
(* it, is shown as it was sent: all its fragments, in order, from start to  *)
(* end, without the size at the end and without losing any other byte.      *)
WholeFrames ==
    \A n \in 1 .. Len(frames) : Intact(FrameOf(n)) =>
        /\ \A i \in 1 .. Len(frames[n].parts) :
              /\ frames[n].parts[i].payload.frame = FrameOf(n)
              /\ frames[n].parts[i].payload.index = i - 1
        /\ LastPart(n).payload.part = "end"
        /\ frames[n].cut

(* ShownAtItsEnd: when the end of an intact frame is handled the frame is   *)
(* the newest on show.  So an intact frame is never left out or kept back,  *)
(* whatever was in assembly when it began and however often the timer and   *)
(* stops came before it; with WholeFrames it is shown whole.                *)
ShownAtItsEnd ==
    [][\A f \in 1 .. MaxSent :
          handle_video_frame /\ Head(channel).part = "end" /\ Head(channel).frame = f
              /\ Intact(f)
          => frames' # <<>> /\ FrameOf(Len(frames))' = f]_allVars
=============================================================================
