--------------------------- MODULE VideoPath_proofs ---------------------------
(***************************************************************************)
(* Proofs about StreamBuffer, about FrameLog, which it implements, and     *)
(* about VideoPath, which feeds it: for every set of payloads, every       *)
(* capacity and any number of arrivals; for any number of frames,          *)
(* fragments and losses, and a timer that comes at any moment.             *)
(*                                                                         *)
(* The buffer.  None of its properties is inductive alone: that a          *)
(* published frame has the right shape and comes later than the others     *)
(* follows from what is known of the frame being assembled (CurrentOpen)   *)
(* and from the stamps in use never being ahead of the arrivals            *)
(* (StampsPast).                                                           *)
(*                                                                         *)
(* The path.  Packets are lost at the head of the channel only, so that    *)
(* what is in it is always the end of what was sent, without gaps          *)
(* (ChannelWhole).  The place of the next packet to leave it, NextFrame    *)
(* and NextIndex, tells then what became of all before: of the frame in    *)
(* assembly, what lies between its last fragment and that place was lost   *)
(* (CurrentKnown).                                                         *)
(***************************************************************************)
EXTENDS VideoPath, FrameLog, SequenceTheorems, TLAPS

(* What is being assembled is one start fragment and then middle ones. *)
CurrentOpen ==
    current_frame # <<>> =>
        /\ current_frame[1].part = "start"
        /\ \A i \in 2 .. Len(current_frame) : current_frame[i].part = "middle"

(* No fragment is from the future, and stamps begin at 1. *)
StampsPast ==
    /\ \A i \in 1 .. Len(current_frame) : current_frame[i].stamp \in 1 .. arrivals
    /\ \A n \in 1 .. Len(frames) :
          /\ FirstStamp(frames[n].parts) >= 1
          /\ LastStamp(frames[n].parts) <= arrivals

IInv == TypeOK /\ CurrentOpen /\ StampsPast /\ ArrivalOrder /\ FrameShape /\ Bounded

-----------------------------------------------------------------------------
(* Making room in the list shifts it by one place or leaves it alone. *)
LEMMA MakeRoom ==
    ASSUME frames \in Seq(Frame), Bounded,
           NEW frame \in Frame, add_complete_frame(frame)
    PROVE  \E d \in {0, 1} :
              /\ Len(frames') = Len(frames) - d + 1
              /\ Len(frames') \in 1 .. MaxFrames
              /\ frames' \in Seq(Frame)
              /\ \A n \in 1 .. Len(frames') - 1 :
                    n + d \in 1 .. Len(frames) /\ frames'[n] = frames[n + d]
              /\ frames'[Len(frames')] = frame
<1> DEFINE kept == IF Len(frames) >= MaxFrames THEN Tail(frames) ELSE frames
<1>1. MaxFrames \in Nat /\ MaxFrames >= 1 /\ Len(frames) \in Nat
    BY MaxFramesAssumption
<1>2. frames' = Append(kept, frame)
    BY DEF add_complete_frame
<1>3. PICK d \in {0, 1} :
          /\ kept \in Seq(Frame)
          /\ Len(kept) = Len(frames) - d
          /\ Len(kept) + 1 <= MaxFrames
          /\ \A n \in 1 .. Len(kept) :
                n + d \in 1 .. Len(frames) /\ kept[n] = frames[n + d]
    <2>1. CASE Len(frames) >= MaxFrames
        <3>1. kept = Tail(frames) /\ frames # <<>> /\ Len(frames) = MaxFrames
            BY <1>1, <2>1 DEF Bounded
        <3>2. /\ Tail(frames) \in Seq(Frame)
              /\ Len(Tail(frames)) = Len(frames) - 1
              /\ \A n \in 1 .. Len(Tail(frames)) : Tail(frames)[n] = frames[n + 1]
            BY <3>1, HeadTailProperties
        <3> QED
            BY <1>1, <3>1, <3>2
    <2>2. CASE ~(Len(frames) >= MaxFrames)
        BY <1>1, <2>2
    <2> QED
        BY <2>1, <2>2
<1> HIDE DEF kept
<1>4. /\ frames' \in Seq(Frame)
      /\ Len(frames') = Len(kept) + 1
      /\ \A n \in 1 .. Len(kept) : frames'[n] = kept[n]
      /\ frames'[Len(kept) + 1] = frame
    BY <1>2, <1>3, AppendProperties
<1>5. Len(frames') - 1 = Len(kept) /\ Len(frames') \in 1 .. MaxFrames
    <2>1. Len(kept) \in Nat
        BY <1>3, LenProperties
    <2> QED
        BY <1>1, <1>3, <1>4, <2>1
<1> WITNESS d \in {0, 1}
<1> QED
    BY <1>1, <1>3, <1>4, <1>5

(* The first and last stamps of a list of fragments are numbers. *)
LEMMA StampsAreNumbers ==
    ASSUME NEW fragments \in Seq(Fragment), Len(fragments) >= 1
    PROVE  FirstStamp(fragments) \in Nat /\ LastStamp(fragments) \in Nat
<1>1. Len(fragments) \in Nat
    BY LenProperties
<1>2. fragments[1] \in Fragment /\ fragments[Len(fragments)] \in Fragment
    BY <1>1, ElementOfSeq
<1> QED
    BY <1>2 DEF Fragment, FirstStamp, LastStamp

LEMMA FramesHaveParts ==
    ASSUME frames \in Seq(Frame), NEW n \in 1 .. Len(frames)
    PROVE  frames[n].parts \in Seq(Fragment)
<1>1. frames[n] \in Frame
    BY ElementOfSeq
<1> QED
    BY <1>1 DEF Frame

(* Publishing a well shaped list of fragments, later than every published  *)
(* frame, keeps the invariant: the last step of complete_frame and of      *)
(* complete_incomplete_frame alike.                                        *)
LEMMA PublishKeeps ==
    ASSUME IInv,
           NEW fragments \in Seq(Fragment),
           Len(fragments) >= 2,
           WellShaped(fragments),
           InArrivalOrder(fragments),
           \A n \in 1 .. Len(frames) :
               LastStamp(frames[n].parts) < FirstStamp(fragments),
           FirstStamp(fragments) >= 1,
           LastStamp(fragments) <= arrivals',
           arrivals' \in Nat, arrivals <= arrivals',
           add_complete_frame(assemble_frame(fragments)),
           current_frame' = <<>>
    PROVE  IInv'
<1> DEFINE frame == assemble_frame(fragments)
<1>1. frame \in Frame /\ frame.parts = fragments
    BY DEF assemble_frame, Frame
<1>2. PICK d \in {0, 1} :
              /\ Len(frames') = Len(frames) - d + 1
              /\ Len(frames') \in 1 .. MaxFrames
              /\ frames' \in Seq(Frame)
              /\ \A n \in 1 .. Len(frames') - 1 :
                    n + d \in 1 .. Len(frames) /\ frames'[n] = frames[n + d]
              /\ frames'[Len(frames')] = frame
    BY <1>1, MakeRoom DEF IInv, TypeOK
<1> DEFINE last == Len(frames')
<1> HIDE DEF frame
<1>3. last \in Nat /\ last >= 1 /\ Len(frames) \in Nat /\ arrivals \in Nat
    <2>1. frames' \in Seq(Frame) /\ frames'[last] = frame /\ frames \in Seq(Frame)
        BY <1>2 DEF IInv, TypeOK
    <2>2. last \in Nat /\ Len(frames) \in Nat /\ arrivals \in Nat
        BY <2>1, LenProperties DEF IInv, TypeOK
    <2> QED
        BY <1>2, <2>2, MaxFramesAssumption
<1>4. TypeOK'
    BY <1>2 DEF TypeOK
<1>5. CurrentOpen'
    BY DEF CurrentOpen
<1>6. StampsPast'
    <2>1. \A i \in 1 .. Len(current_frame') : FALSE
        OBVIOUS
    <2>2. ASSUME NEW n \in 1 .. last
          PROVE  /\ FirstStamp(frames'[n].parts) >= 1
                 /\ LastStamp(frames'[n].parts) <= arrivals'
        <3>1. CASE n = last
            BY <1>1, <1>2, <3>1
        <3>2. CASE n # last
            <4>1. n \in 1 .. last - 1
                BY <1>3, <3>2
            <4>2. n + d \in 1 .. Len(frames) /\ frames'[n] = frames[n + d]
                BY <1>2, <4>1
            <4>3. /\ FirstStamp(frames[n + d].parts) >= 1
                  /\ LastStamp(frames[n + d].parts) <= arrivals
                BY <4>2 DEF IInv, StampsPast
            <4>4. LastStamp(frames[n + d].parts) \in Nat
                <5>1. frames[n + d].parts \in Seq(Fragment)
                    BY <4>2, FramesHaveParts DEF IInv, TypeOK
                <5>2. Len(frames[n + d].parts) >= 2
                    BY <4>2 DEF IInv, FrameShape
                <5> QED
                    BY <5>1, <5>2, StampsAreNumbers
            <4> QED
                BY <1>3, <4>2, <4>3, <4>4
        <3> QED
            BY <3>1, <3>2
    <2> QED
        BY <2>1, <2>2 DEF StampsPast, FirstStamp, LastStamp
<1>7. ArrivalOrder'
    <2>1. ASSUME NEW n \in 1 .. last
          PROVE  InArrivalOrder(frames'[n].parts)
        <3>1. CASE n = last
            BY <1>1, <1>2, <3>1
        <3>2. CASE n # last
            <4>1. n \in 1 .. last - 1
                BY <1>3, <3>2
            <4> QED
                BY <1>2, <4>1 DEF IInv, ArrivalOrder
        <3> QED
            BY <3>1, <3>2
    <2>2. ASSUME NEW m \in 1 .. last, NEW n \in 1 .. last, m < n
          PROVE  LastStamp(frames'[m].parts) < FirstStamp(frames'[n].parts)
        <3>1. m \in 1 .. last - 1
            BY <1>3, <2>2
        <3>2. m + d \in 1 .. Len(frames) /\ frames'[m] = frames[m + d]
            BY <1>2, <3>1
        <3>3. CASE n = last
            BY <1>1, <1>2, <3>2, <3>3
        <3>4. CASE n # last
            <4>1. n \in 1 .. last - 1
                BY <1>3, <3>4
            <4>2. n + d \in 1 .. Len(frames) /\ frames'[n] = frames[n + d]
                BY <1>2, <4>1
            <4>3. m + d < n + d
                BY <1>3, <2>2
            <4> QED
                BY <3>2, <4>2, <4>3 DEF IInv, ArrivalOrder
        <3> QED
            BY <3>3, <3>4
    <2>3. InArrivalOrder(current_frame')
        BY DEF InArrivalOrder
    <2> QED
        BY <2>1, <2>2, <2>3 DEF ArrivalOrder, InArrivalOrder, FirstStamp, LastStamp
<1>8. FrameShape'
    <2>1. ASSUME NEW n \in 1 .. last
          PROVE  Len(frames'[n].parts) >= 2 /\ WellShaped(frames'[n].parts)
        <3>1. CASE n = last
            BY <1>1, <1>2, <3>1
        <3>2. CASE n # last
            <4>1. n \in 1 .. last - 1
                BY <1>3, <3>2
            <4> QED
                BY <1>2, <4>1 DEF IInv, FrameShape
        <3> QED
            BY <3>1, <3>2
    <2> QED
        BY <2>1 DEF FrameShape, WellShaped
<1>9. Bounded'
    BY <1>2 DEF Bounded
<1> QED
    BY <1>4, <1>5, <1>6, <1>7, <1>8, <1>9 DEF IInv
(* The frame being assembled, with the fragment that arrives next. *)
LEMMA Extend ==
    ASSUME IInv, current_frame # <<>>,
           NEW part \in Part, NEW payload \in Payload
    PROVE  LET more == Append(current_frame, NextFragment(part, payload)) IN
           /\ more \in Seq(Fragment)
           /\ Len(more) >= 2
           /\ more # <<>>
           /\ more[1].part = "start"
           /\ \A i \in 2 .. Len(more) - 1 : more[i].part = "middle"
           /\ more[Len(more)].part = part
           /\ \A i \in 1 .. Len(more) : more[i].stamp \in 1 .. arrivals + 1
           /\ InArrivalOrder(more)
           /\ FirstStamp(more) = FirstStamp(current_frame)
           /\ LastStamp(more) = arrivals + 1
<1> DEFINE fragment == NextFragment(part, payload)
           more == Append(current_frame, fragment)
           len == Len(current_frame)
<1>1. arrivals \in Nat /\ current_frame \in Seq(Fragment) /\ len \in Nat
    BY LenProperties DEF IInv, TypeOK
<1>2. len >= 1
    BY <1>1, EmptySeq
<1>3. fragment \in Fragment /\ fragment.stamp = arrivals + 1 /\ fragment.part = part
    BY <1>1 DEF NextFragment, Fragment
<1> HIDE DEF fragment
<1>4. /\ more \in Seq(Fragment)
      /\ Len(more) = len + 1
      /\ \A i \in 1 .. len : more[i] = current_frame[i]
      /\ more[len + 1] = fragment
    BY <1>1, <1>3, AppendProperties
<1> HIDE DEF more
<1>5. \A i \in 1 .. len : current_frame[i].stamp \in 1 .. arrivals
    BY DEF IInv, StampsPast
<1>6. \A i \in 1 .. len + 1 : more[i].stamp \in 1 .. arrivals + 1
    <2>1. ASSUME NEW i \in 1 .. len + 1 PROVE more[i].stamp \in 1 .. arrivals + 1
        <3>1. CASE i = len + 1
            BY <1>1, <1>3, <1>4, <3>1
        <3>2. CASE i # len + 1
            <4>1. i \in 1 .. len
                BY <1>1, <3>2
            <4> QED
                BY <1>1, <1>4, <1>5, <4>1
        <3> QED
            BY <3>1, <3>2
    <2> QED
        BY <2>1
<1>7. InArrivalOrder(more)
    <2>1. ASSUME NEW i \in 1 .. len + 1, NEW j \in 1 .. len + 1, i < j
          PROVE  more[i].stamp < more[j].stamp
        <3>1. i \in 1 .. len
            BY <1>1, <2>1
        <3>2. CASE j = len + 1
            BY <1>1, <1>3, <1>4, <1>5, <3>1, <3>2
        <3>3. CASE j # len + 1
            <4>1. j \in 1 .. len
                BY <1>1, <3>3
            <4> QED
                BY <1>4, <2>1, <3>1, <4>1 DEF IInv, ArrivalOrder, InArrivalOrder
        <3> QED
            BY <3>2, <3>3
    <2> QED
        BY <1>4, <2>1 DEF InArrivalOrder
<1>8. more[1].part = "start" /\ \A i \in 2 .. len : more[i].part = "middle"
    <2>1. /\ current_frame[1].part = "start"
          /\ \A i \in 2 .. len : current_frame[i].part = "middle"
        BY DEF IInv, CurrentOpen
    <2> QED
        BY <1>1, <1>2, <1>4, <2>1
<1>9. FirstStamp(more) = FirstStamp(current_frame) /\ LastStamp(more) = arrivals + 1
    BY <1>1, <1>2, <1>3, <1>4 DEF FirstStamp, LastStamp
<1> QED
    BY <1>1, <1>2, <1>3, <1>4, <1>6, <1>7, <1>8, <1>9 DEF more, fragment

(* The published part of the invariant is kept by a step that publishes    *)
(* nothing while packets go on arriving.                                   *)
LEMMA FramesKept ==
    ASSUME IInv, UNCHANGED frames, arrivals' \in Nat, arrivals <= arrivals'
    PROVE  /\ FrameShape' /\ Bounded'
           /\ \A n \in 1 .. Len(frames') :
                 /\ InArrivalOrder(frames'[n].parts)
                 /\ FirstStamp(frames'[n].parts) >= 1
                 /\ LastStamp(frames'[n].parts) <= arrivals'
           /\ \A m, n \in 1 .. Len(frames') :
                 m < n => LastStamp(frames'[m].parts) < FirstStamp(frames'[n].parts)
<1>1. FrameShape' /\ Bounded'
    BY DEF IInv, FrameShape, WellShaped, Bounded
<1>2. ASSUME NEW n \in 1 .. Len(frames)
      PROVE  LastStamp(frames[n].parts) <= arrivals'
    <2>1. frames[n].parts \in Seq(Fragment) /\ Len(frames[n].parts) >= 2
        BY FramesHaveParts DEF IInv, TypeOK, FrameShape
    <2>2. LastStamp(frames[n].parts) \in Nat
        BY <2>1, StampsAreNumbers
    <2> QED
        BY <2>2 DEF IInv, TypeOK, StampsPast
<1> QED
    BY <1>1, <1>2 DEF IInv, ArrivalOrder, StampsPast

(* The stamps of the frame being assembled. *)
LEMMA CurrentStamps ==
    ASSUME IInv, current_frame # <<>>
    PROVE  /\ FirstStamp(current_frame) \in 1 .. arrivals
           /\ LastStamp(current_frame) \in 1 .. arrivals
<1>1. Len(current_frame) \in Nat /\ Len(current_frame) >= 1
    BY LenProperties, EmptySeq DEF IInv, TypeOK
<1> QED
    BY <1>1 DEF IInv, StampsPast, FirstStamp, LastStamp

-----------------------------------------------------------------------------
LEMMA InitIInv == Init => IInv
BY MaxFramesAssumption DEF Init, IInv, TypeOK, CurrentOpen, StampsPast,
    ArrivalOrder, InArrivalOrder, FrameShape, Bounded

LEMMA StartKeeps ==
    ASSUME IInv, NEW payload \in Payload, StartNewFrame(payload)
    PROVE  IInv'
<1> DEFINE fragment == NextFragment("start", payload)
<1>1. arrivals \in Nat /\ arrivals' = arrivals + 1 /\ UNCHANGED frames
    BY DEF IInv, TypeOK, StartNewFrame, Arrive
<1>2. fragment \in Fragment /\ fragment.stamp = arrivals + 1 /\ fragment.part = "start"
    BY <1>1 DEF NextFragment, Fragment, Part
<1>3. current_frame' = <<fragment>>
    BY DEF StartNewFrame
<1> HIDE DEF fragment
<1>4. /\ current_frame' \in Seq(Fragment) /\ Len(current_frame') = 1
      /\ current_frame'[1] = fragment
    BY <1>2, <1>3
<1>5. TypeOK' /\ CurrentOpen'
    BY <1>1, <1>2, <1>4 DEF IInv, TypeOK, CurrentOpen
<1>6. StampsPast'
    BY <1>1, <1>2, <1>4, FramesKept DEF StampsPast, FirstStamp, LastStamp
<1>7. ASSUME NEW n \in 1 .. Len(frames)
      PROVE  LastStamp(frames[n].parts) < arrivals + 1
    <2>1. frames[n].parts \in Seq(Fragment) /\ Len(frames[n].parts) >= 2
        BY FramesHaveParts DEF IInv, TypeOK, FrameShape
    <2>2. LastStamp(frames[n].parts) \in Nat
        BY <2>1, StampsAreNumbers
    <2> QED
        BY <1>1, <2>2 DEF IInv, StampsPast
<1>8. ArrivalOrder'
    <2>1. InArrivalOrder(current_frame')
        BY <1>4 DEF InArrivalOrder
    <2>2. FirstStamp(current_frame') = arrivals + 1
        BY <1>2, <1>4 DEF FirstStamp
    <2> QED
        BY <1>1, <1>7, <2>1, <2>2 DEF IInv, ArrivalOrder, InArrivalOrder, FirstStamp, LastStamp
<1> QED
    BY <1>1, <1>5, <1>6, <1>8, FramesKept DEF IInv

(* A step that changes neither frames nor the frame being assembled. *)
LEMMA IgnoreKeeps ==
    ASSUME IInv, UNCHANGED <<frames, current_frame>>,
           arrivals' \in Nat, arrivals <= arrivals'
    PROVE  IInv'
<1>1. TypeOK' /\ CurrentOpen'
    BY DEF IInv, TypeOK, CurrentOpen
<1>2. StampsPast'
    <2>1. \A i \in 1 .. Len(current_frame) : current_frame[i].stamp \in 1 .. arrivals'
        BY DEF IInv, TypeOK, StampsPast
    <2> QED
        BY <2>1, FramesKept DEF StampsPast, FirstStamp, LastStamp
<1>3. ArrivalOrder'
    BY DEF IInv, ArrivalOrder, InArrivalOrder, FirstStamp, LastStamp
<1> QED
    BY <1>1, <1>2, <1>3, FramesKept DEF IInv

LEMMA MiddleKeeps ==
    ASSUME IInv, NEW payload \in Payload, AddFrameFragment(payload)
    PROVE  IInv'
<1>1. arrivals \in Nat /\ arrivals' = arrivals + 1 /\ UNCHANGED frames
    BY DEF IInv, TypeOK, AddFrameFragment, Arrive
<1>2. CASE current_frame = <<>>
    BY <1>1, <1>2, IgnoreKeeps DEF AddFrameFragment
<1>3. CASE current_frame # <<>>
    <2> DEFINE more == Append(current_frame, NextFragment("middle", payload))
    <2>1. current_frame' = more
        BY <1>3 DEF AddFrameFragment
    <2>2. /\ more \in Seq(Fragment)
          /\ Len(more) >= 2
          /\ more[1].part = "start"
          /\ \A i \in 2 .. Len(more) - 1 : more[i].part = "middle"
          /\ more[Len(more)].part = "middle"
          /\ \A i \in 1 .. Len(more) : more[i].stamp \in 1 .. arrivals + 1
          /\ InArrivalOrder(more)
          /\ FirstStamp(more) = FirstStamp(current_frame)
        BY <1>3, Extend DEF Part
    <2> HIDE DEF more
    <2>3. Len(more) \in Nat
        BY <2>2, LenProperties
    <2>4. TypeOK'
        BY <1>1, <2>1, <2>2 DEF IInv, TypeOK
    <2>5. CurrentOpen'
        BY <2>1, <2>2, <2>3 DEF CurrentOpen
    <2>6. StampsPast'
        BY <1>1, <2>1, <2>2, FramesKept DEF StampsPast, FirstStamp, LastStamp
    <2>7. ArrivalOrder'
        <3>1. \A n \in 1 .. Len(frames) :
                  LastStamp(frames[n].parts) < FirstStamp(more)
            BY <1>3, <2>2 DEF IInv, ArrivalOrder
        <3> QED
            BY <1>1, <2>1, <2>2, <3>1
            DEF IInv, ArrivalOrder, InArrivalOrder, FirstStamp, LastStamp
    <2> QED
        BY <1>1, <2>4, <2>5, <2>6, <2>7, FramesKept DEF IInv
<1> QED
    BY <1>2, <1>3

LEMMA EndKeeps ==
    ASSUME IInv, NEW payload \in Payload, CompleteFrame(payload)
    PROVE  IInv'
<1>1. arrivals \in Nat /\ arrivals' = arrivals + 1 /\ current_frame' = <<>>
    BY DEF IInv, TypeOK, CompleteFrame, Arrive
<1>2. CASE current_frame = <<>>
    BY <1>1, <1>2, IgnoreKeeps DEF CompleteFrame
<1>3. CASE current_frame # <<>>
    <2> DEFINE more == Append(current_frame, NextFragment("end", payload))
    <2>1. add_complete_frame(assemble_frame(more))
        BY <1>3 DEF CompleteFrame
    <2>2. /\ more \in Seq(Fragment)
          /\ Len(more) >= 2
          /\ more[1].part = "start"
          /\ \A i \in 2 .. Len(more) - 1 : more[i].part = "middle"
          /\ more[Len(more)].part = "end"
          /\ InArrivalOrder(more)
          /\ FirstStamp(more) = FirstStamp(current_frame)
          /\ LastStamp(more) = arrivals + 1
        BY <1>3, Extend DEF Part
    <2> HIDE DEF more
    <2>3. Len(more) \in Nat
        BY <2>2, LenProperties
    <2>4. WellShaped(more)
        BY <2>2, <2>3 DEF WellShaped
    <2>5. \A n \in 1 .. Len(frames) : LastStamp(frames[n].parts) < FirstStamp(more)
        BY <1>3, <2>2 DEF IInv, ArrivalOrder
    <2>6. FirstStamp(more) >= 1
        BY <1>1, <1>3, <2>2, CurrentStamps
    <2> QED
        BY <1>1, <2>1, <2>2, <2>4, <2>5, <2>6, PublishKeeps
<1> QED
    BY <1>2, <1>3

LEMMA TickKeeps ==
    ASSUME IInv, CompleteIncompleteFrame
    PROVE  IInv'
<1>1. /\ arrivals \in Nat /\ arrivals' = arrivals
      /\ current_frame # <<>> /\ current_frame' = <<>>
      /\ current_frame \in Seq(Fragment) /\ Len(current_frame) \in Nat
    BY LenProperties DEF IInv, TypeOK, CompleteIncompleteFrame
<1>2. CASE Len(current_frame) > 1
    <2>1. add_complete_frame(assemble_frame(current_frame))
        BY <1>2 DEF CompleteIncompleteFrame
    <2>2. WellShaped(current_frame)
        BY <1>1 DEF IInv, CurrentOpen, WellShaped
    <2>3. /\ InArrivalOrder(current_frame)
          /\ \A n \in 1 .. Len(frames) :
                LastStamp(frames[n].parts) < FirstStamp(current_frame)
        BY <1>1 DEF IInv, ArrivalOrder
    <2> QED
        BY <1>1, <1>2, <2>1, <2>2, <2>3, CurrentStamps, PublishKeeps
<1>3. CASE ~(Len(current_frame) > 1)
    <2>1. UNCHANGED frames
        BY <1>3 DEF CompleteIncompleteFrame
    <2>2. TypeOK' /\ CurrentOpen'
        BY <1>1, <2>1 DEF IInv, TypeOK, CurrentOpen
    <2>3. StampsPast'
        BY <1>1, <2>1, FramesKept DEF StampsPast, FirstStamp, LastStamp
    <2>4. ArrivalOrder'
        BY <1>1, <2>1 DEF IInv, ArrivalOrder, InArrivalOrder, FirstStamp, LastStamp
    <2> QED
        BY <1>1, <2>1, <2>2, <2>3, <2>4, FramesKept DEF IInv
<1> QED
    BY <1>2, <1>3

LEMMA ClearKeeps ==
    ASSUME IInv, Clear
    PROVE  IInv'
<1>1. frames' = <<>> /\ current_frame' = <<>> /\ arrivals' = arrivals
    BY DEF Clear
<1> QED
    BY <1>1, MaxFramesAssumption DEF IInv, TypeOK, CurrentOpen, StampsPast,
        ArrivalOrder, InArrivalOrder, FrameShape, Bounded

(* The invariant is inductive. *)
LEMMA NextKeeps == IInv /\ [Next]_vars => IInv'
<1> SUFFICES ASSUME IInv, [Next]_vars PROVE IInv'
    OBVIOUS
<1>1. ASSUME NEW payload \in Payload, StartNewFrame(payload) PROVE IInv'
    BY <1>1, StartKeeps
<1>2. ASSUME NEW payload \in Payload, AddFrameFragment(payload) PROVE IInv'
    BY <1>2, MiddleKeeps
<1>3. ASSUME NEW payload \in Payload, CompleteFrame(payload) PROVE IInv'
    BY <1>3, EndKeeps
<1>4. CASE OtherPacket
    BY <1>4, IgnoreKeeps DEF OtherPacket, Arrive, IInv, TypeOK
<1>5. CASE CompleteIncompleteFrame
    BY <1>5, TickKeeps
<1>6. CASE Clear
    BY <1>6, ClearKeeps
<1>7. CASE UNCHANGED vars
    BY <1>7, IgnoreKeeps DEF vars, IInv, TypeOK
<1> QED
    BY <1>1, <1>2, <1>3, <1>4, <1>5, <1>6, <1>7 DEF Next

LEMMA Invariance == Spec => []IInv
BY InitIInv, NextKeeps, PTL DEF Spec

(* Every variable of the stream buffer keeps its type. *)
THEOREM TypeCorrect == Spec => []TypeOK
<1>1. IInv => TypeOK
    BY DEF IInv
<1> QED
    BY Invariance, <1>1, PTL

(* No packet is shown twice or out of order: frames and the fragments in   *)
(* them follow one another in order of arrival, whatever the periodic      *)
(* task, a lost end fragment or an eviction does in between.               *)
THEOREM FramesInOrder == Spec => []ArrivalOrder
<1>1. IInv => ArrivalOrder
    BY DEF IInv
<1> QED
    BY Invariance, <1>1, PTL

(* Every frame the buffer shows begins at a start fragment and is cut at   *)
(* every start and end that arrived.                                       *)
THEOREM FramesWellShaped == Spec => []FrameShape
<1>1. IInv => FrameShape
    BY DEF IInv
<1> QED
    BY Invariance, <1>1, PTL

(* The list never holds more than max_frames frames.                       *)
THEOREM FramesBounded == Spec => []Bounded
<1>1. IInv => Bounded
    BY DEF IInv
<1> QED
    BY Invariance, <1>1, PTL

-----------------------------------------------------------------------------
(* The log of intervals that FrameLog sees. *)
MappedLog == [n \in 1 .. Len(frames) |-> Interval(frames[n])]

LEMMA MappedLogIsSeq ==
    ASSUME frames \in Seq(Frame)
    PROVE  /\ MappedLog \in Seq({Interval(f) : f \in Frame})
           /\ Len(MappedLog) = Len(frames)
           /\ \A n \in 1 .. Len(frames) : MappedLog[n] = Interval(frames[n])
<1>1. Len(frames) \in Nat /\ \A n \in 1 .. Len(frames) : frames[n] \in Frame
    BY LenProperties, ElementOfSeq
<1>2. \A n \in 1 .. Len(frames) : Interval(frames[n]) \in {Interval(f) : f \in Frame}
    BY <1>1
<1>3. MappedLog \in Seq({Interval(f) : f \in Frame})
    BY <1>1, <1>2 DEF MappedLog
<1> QED
    BY <1>1, <1>3, LenProperties DEF MappedLog

(* Publishing a frame publishes its interval. *)
LEMMA PublishMaps ==
    ASSUME frames \in Seq(Frame), Bounded,
           NEW frame \in Frame, add_complete_frame(frame)
    PROVE  MappedLog' = Log!Keep(MappedLog, Interval(frame))
<1> DEFINE Entry == {Interval(f) : f \in Frame}
           entry == Interval(frame)
           kept == IF Len(frames) >= MaxFrames THEN Tail(frames) ELSE frames
           room == IF Len(MappedLog) < MaxFrames THEN MappedLog ELSE Tail(MappedLog)
<1>1. MaxFrames \in Nat /\ MaxFrames >= 1 /\ Len(frames) \in Nat
    BY MaxFramesAssumption, LenProperties
<1>2. /\ MappedLog \in Seq(Entry)
      /\ Len(MappedLog) = Len(frames)
      /\ \A n \in 1 .. Len(frames) : MappedLog[n] = Interval(frames[n])
    BY MappedLogIsSeq
<1>3. entry \in Entry
    OBVIOUS
<1>4. /\ kept \in Seq(Frame) /\ room \in Seq(Entry)
      /\ Len(kept) = Len(room) /\ Len(kept) \in Nat
      /\ \A n \in 1 .. Len(kept) : room[n] = Interval(kept[n])
    <2>1. CASE Len(frames) >= MaxFrames
        <3>1. frames # <<>> /\ MappedLog # <<>>
            BY <1>1, <1>2, <2>1
        <3>2. /\ Tail(frames) \in Seq(Frame)
              /\ Len(Tail(frames)) = Len(frames) - 1
              /\ \A n \in 1 .. Len(Tail(frames)) : Tail(frames)[n] = frames[n + 1]
            BY <3>1, HeadTailProperties
        <3>3. /\ Tail(MappedLog) \in Seq(Entry)
              /\ Len(Tail(MappedLog)) = Len(MappedLog) - 1
              /\ \A n \in 1 .. Len(Tail(MappedLog)) :
                    Tail(MappedLog)[n] = MappedLog[n + 1]
            BY <1>2, <3>1, HeadTailProperties
        <3>4. kept = Tail(frames) /\ room = Tail(MappedLog)
            BY <1>1, <1>2, <2>1
        <3> HIDE DEF kept, room, Entry
        <3> QED
            BY <1>1, <1>2, <3>2, <3>3, <3>4
    <2>2. CASE ~(Len(frames) >= MaxFrames)
        <3>1. kept = frames /\ room = MappedLog
            BY <1>1, <1>2, <2>2
        <3> HIDE DEF kept, room, Entry
        <3> QED
            BY <1>1, <1>2, <3>1
    <2> QED
        BY <2>1, <2>2
<1>5. frames' = Append(kept, frame)
    BY DEF add_complete_frame
<1>6. Log!Keep(MappedLog, entry) = Append(room, entry)
    BY DEF Log!Keep
<1> HIDE DEF kept, room, Entry, entry
<1>7. /\ frames' \in Seq(Frame)
      /\ Len(frames') = Len(kept) + 1
      /\ \A n \in 1 .. Len(kept) : frames'[n] = kept[n]
      /\ frames'[Len(kept) + 1] = frame
    BY <1>4, <1>5, AppendProperties
<1>8. /\ Append(room, entry) \in Seq(Entry)
      /\ Len(Append(room, entry)) = Len(room) + 1
      /\ \A n \in 1 .. Len(room) : Append(room, entry)[n] = room[n]
      /\ Append(room, entry)[Len(room) + 1] = entry
    BY <1>3, <1>4, AppendProperties
<1>9. /\ MappedLog' \in Seq(Entry)
      /\ Len(MappedLog') = Len(frames')
      /\ \A n \in 1 .. Len(frames') : MappedLog'[n] = Interval(frames'[n])
    <2>1. \A n \in 1 .. Len(frames') : frames'[n] \in Frame
        BY <1>7, ElementOfSeq
    <2>2. \A n \in 1 .. Len(frames') : Interval(frames'[n]) \in Entry
        BY <2>1 DEF Entry
    <2>3. MappedLog' = [n \in 1 .. Len(frames') |-> Interval(frames'[n])]
        BY DEF MappedLog, Interval, FirstStamp, LastStamp
    <2>4. Len(frames') \in Nat
        BY <1>4, <1>7
    <2>5. MappedLog' \in Seq(Entry)
        BY <2>2, <2>3, <2>4
    <2> QED
        BY <2>3, <2>4, <2>5, LenProperties
<1>10. Len(MappedLog') = Len(Append(room, entry))
    BY <1>4, <1>7, <1>8, <1>9
<1>11. ASSUME NEW n \in 1 .. Len(MappedLog')
       PROVE  MappedLog'[n] = Append(room, entry)[n]
    <2>1. MappedLog'[n] = Interval(frames'[n]) /\ n \in 1 .. Len(kept) + 1
        BY <1>7, <1>9
    <2>2. CASE n = Len(kept) + 1
        BY <1>4, <1>7, <1>8, <2>1, <2>2 DEF entry
    <2>3. CASE n # Len(kept) + 1
        <3>1. n \in 1 .. Len(kept)
            BY <1>4, <2>1, <2>3
        <3> QED
            BY <1>4, <1>7, <1>8, <2>1, <3>1
    <2> QED
        BY <2>2, <2>3
<1> QED
    BY <1>6, <1>8, <1>9, <1>10, <1>11, SeqEqual DEF entry

(* What FrameLog sees as closed. *)
MappedClosed == IF current_frame = <<>> THEN arrivals ELSE FirstStamp(current_frame) - 1

LEMMA ClosedRange ==
    ASSUME IInv
    PROVE  MappedClosed \in Nat /\ MappedClosed <= arrivals
BY CurrentStamps DEF MappedClosed, IInv, TypeOK

(* A step that publishes nothing only moves the boundary of what is closed. *)
LEMMA QuietSteps ==
    ASSUME IInv, IInv', UNCHANGED frames,
           arrivals' \in {arrivals, arrivals + 1},
           MappedClosed <= MappedClosed'
    PROVE  Log!Advance
<1>1. MappedClosed \in Nat /\ MappedClosed' \in Nat /\ MappedClosed' <= arrivals'
    BY ClosedRange DEF MappedClosed, IInv, TypeOK, CurrentOpen, StampsPast,
       ArrivalOrder, InArrivalOrder, FrameShape, Bounded, WellShaped, FirstStamp, LastStamp
<1>2. MappedClosed' \in MappedClosed .. arrivals'
    BY <1>1 DEF IInv, TypeOK
<1>3. MappedLog' = MappedLog
    BY DEF MappedLog, Interval, FirstStamp, LastStamp
<1> QED
    BY <1>2, <1>3 DEF Log!Advance, MappedLog, MappedClosed

(* Publishing is a step of the log. *)
LEMMA PublishSteps ==
    ASSUME IInv,
           NEW fragments \in Seq(Fragment),
           Len(fragments) >= 2,
           InArrivalOrder(fragments),
           FirstStamp(fragments) = FirstStamp(current_frame),
           LastStamp(fragments) <= arrivals',
           arrivals' \in {arrivals, arrivals + 1},
           add_complete_frame(assemble_frame(fragments)),
           current_frame # <<>>, current_frame' = <<>>
    PROVE  Log!Publish
<1> DEFINE first == FirstStamp(fragments)
           last == LastStamp(fragments)
<1>1. arrivals \in Nat /\ Len(fragments) \in Nat
    BY LenProperties DEF IInv, TypeOK
<1>2. first \in Nat /\ last \in Nat /\ first < last
    BY <1>1, StampsAreNumbers DEF InArrivalOrder, FirstStamp, LastStamp
<1>3. MappedClosed = first - 1 /\ MappedClosed' = arrivals'
    BY DEF MappedClosed
<1>4. assemble_frame(fragments) \in Frame /\ Interval(assemble_frame(fragments)) = <<first, last>>
    BY DEF assemble_frame, Frame, Interval
<1>5. MappedLog' = Log!Keep(MappedLog, <<first, last>>)
    BY <1>4, PublishMaps DEF IInv, TypeOK
<1>6. first \in MappedClosed + 1 .. arrivals' /\ last \in MappedClosed + 1 .. arrivals'
    BY <1>1, <1>2, <1>3
<1> QED
    BY <1>2, <1>3, <1>5, <1>6 DEF Log!Publish, MappedLog, MappedClosed

LEMMA InitMaps == Init => Log!LogInit
<1> SUFFICES ASSUME Init PROVE Log!LogInit
    OBVIOUS
<1>1. frames = <<>> /\ current_frame = <<>> /\ arrivals = 0
    BY DEF Init
<1>2. [n \in 1 .. Len(frames) |-> Interval(frames[n])] = <<>>
    BY <1>1
<1> QED
    BY <1>1, <1>2 DEF Log!LogInit

LEMMA StepMaps == IInv /\ IInv' /\ [Next]_vars => [Log!LogNext]_(Log!logVars)
<1> SUFFICES ASSUME IInv, IInv', [Next]_vars
             PROVE  Log!LogNext \/ UNCHANGED Log!logVars
    BY DEF Log!logVars
<1> USE DEF Log!LogNext
<1>1. arrivals \in Nat /\ MappedClosed <= arrivals
    BY ClosedRange DEF IInv, TypeOK
<1>2. ASSUME NEW payload \in Payload, StartNewFrame(payload) PROVE Log!Advance
    <2>1. FirstStamp(current_frame') = arrivals + 1 /\ current_frame' # <<>>
        BY <1>2 DEF StartNewFrame, NextFragment, FirstStamp
    <2>2. MappedClosed' = arrivals
        BY <1>1, <2>1 DEF MappedClosed, FirstStamp
    <2> QED
        BY <1>1, <1>2, <2>2, QuietSteps DEF StartNewFrame, Arrive
<1>3. ASSUME NEW payload \in Payload, AddFrameFragment(payload) PROVE Log!Advance
    <2>1. arrivals' = arrivals + 1 /\ UNCHANGED frames
        BY <1>3 DEF AddFrameFragment, Arrive
    <2>2. CASE current_frame = <<>>
        BY <1>1, <1>3, <2>1, <2>2, QuietSteps DEF AddFrameFragment, MappedClosed
    <2>3. CASE current_frame # <<>>
        <3>1. /\ current_frame' # <<>>
              /\ FirstStamp(current_frame') = FirstStamp(current_frame)
            BY <1>3, <2>3, Extend DEF AddFrameFragment, FirstStamp, Part
        <3>2. MappedClosed' = MappedClosed
            BY <2>3, <3>1 DEF MappedClosed, FirstStamp
        <3>3. MappedClosed \in Nat
            BY ClosedRange
        <3> QED
            BY <1>1, <2>1, <3>2, <3>3, QuietSteps
    <2> QED
        BY <2>2, <2>3
<1>4. ASSUME NEW payload \in Payload, CompleteFrame(payload)
      PROVE  Log!Advance \/ Log!Publish
    <2>1. arrivals' = arrivals + 1 /\ current_frame' = <<>>
        BY <1>4 DEF CompleteFrame, Arrive
    <2>2. CASE current_frame = <<>>
        BY <1>1, <1>4, <2>1, <2>2, QuietSteps DEF CompleteFrame, MappedClosed
    <2>3. CASE current_frame # <<>>
        <3> DEFINE more == Append(current_frame, NextFragment("end", payload))
        <3>1. add_complete_frame(assemble_frame(more))
            BY <1>4, <2>3 DEF CompleteFrame
        <3>2. /\ more \in Seq(Fragment)
              /\ Len(more) >= 2
              /\ InArrivalOrder(more)
              /\ FirstStamp(more) = FirstStamp(current_frame)
              /\ LastStamp(more) = arrivals + 1
            BY <2>3, Extend DEF Part
        <3> HIDE DEF more
        <3> QED
            BY <1>1, <2>1, <2>3, <3>1, <3>2, PublishSteps
    <2> QED
        BY <2>2, <2>3
<1>5. CASE OtherPacket
    <2>1. MappedClosed' >= MappedClosed
        BY <1>1, <1>5, ClosedRange DEF OtherPacket, Arrive, MappedClosed
    <2> QED
        BY <1>5, <2>1, QuietSteps DEF OtherPacket, Arrive
<1>6. CASE CompleteIncompleteFrame
    <2>1. arrivals' = arrivals /\ current_frame # <<>> /\ current_frame' = <<>>
        BY <1>6 DEF CompleteIncompleteFrame
    <2>2. CASE Len(current_frame) > 1
        <3>1. add_complete_frame(assemble_frame(current_frame))
            BY <1>6, <2>2 DEF CompleteIncompleteFrame
        <3>2. /\ current_frame \in Seq(Fragment)
              /\ Len(current_frame) >= 2
              /\ InArrivalOrder(current_frame)
              /\ LastStamp(current_frame) <= arrivals
            BY <2>1, <2>2, CurrentStamps, LenProperties DEF IInv, TypeOK, ArrivalOrder
        <3> QED
            BY <2>1, <3>1, <3>2, PublishSteps
    <2>3. CASE ~(Len(current_frame) > 1)
        <3>1. UNCHANGED frames
            BY <1>6, <2>3 DEF CompleteIncompleteFrame
        <3>2. MappedClosed' = arrivals
            BY <2>1 DEF MappedClosed
        <3> QED
            BY <1>1, <2>1, <3>1, <3>2, QuietSteps
    <2> QED
        BY <2>2, <2>3
<1>7. CASE Clear
    <2>1. frames' = <<>> /\ current_frame' = <<>> /\ arrivals' = arrivals
        BY <1>7 DEF Clear
    <2>2. [n \in 1 .. Len(frames') |-> Interval(frames'[n])] = <<>>
        BY <2>1
    <2> QED
        BY <2>1, <2>2 DEF Log!Forget, Interval, FirstStamp, LastStamp
<1>8. CASE UNCHANGED vars
    BY <1>8 DEF vars, Log!logVars, Interval, FirstStamp, LastStamp
<1> QED
    BY <1>2, <1>3, <1>4, <1>5, <1>6, <1>7, <1>8 DEF Next

(* The stream buffer implements the abstract log of frames: each packet,   *)
(* each run of the periodic task and each stop is a step of the log or     *)
(* leaves it alone.                                                        *)
THEOREM BufferRefinesLog == Spec => ImplementsFrameLog
<1>1. Spec => Log!LogInit /\ [][Log!LogNext]_(Log!logVars)
    BY Invariance, InitMaps, StepMaps, PTL DEF Spec
<1> QED
    BY <1>1 DEF ImplementsFrameLog, Log!LogSpec

-----------------------------------------------------------------------------
(* The log by itself, with the variables of FrameLog: what the refinement   *)
(* gives the readers of the buffer.                                         *)
LogInv ==
    /\ log \in Seq(Nat \X Nat)
    /\ closed \in Nat
    /\ clock \in Nat
    /\ LogOrdered

(* Keeping an entry shifts the log by one place or leaves it alone. *)
LEMMA KeepShifts ==
    ASSUME Capacity \in Nat \ {0}, NEW entries \in Seq(Nat \X Nat),
           Len(entries) <= Capacity, NEW entry \in Nat \X Nat
    PROVE  \E d \in {0, 1} :
              /\ Keep(entries, entry) \in Seq(Nat \X Nat)
              /\ Len(Keep(entries, entry)) = Len(entries) - d + 1
              /\ Len(entries) - d + 1 <= Capacity
              /\ \A n \in 1 .. Len(entries) - d :
                    n + d \in 1 .. Len(entries) /\ Keep(entries, entry)[n] = entries[n + d]
              /\ Keep(entries, entry)[Len(entries) - d + 1] = entry
<1>1. Len(entries) \in Nat
    BY LenProperties
<1>2. CASE Len(entries) < Capacity
    <2>1. Keep(entries, entry) = Append(entries, entry)
        BY <1>2 DEF Keep
    <2>2. /\ Append(entries, entry) \in Seq(Nat \X Nat)
          /\ Len(Append(entries, entry)) = Len(entries) + 1
          /\ \A n \in 1 .. Len(entries) : Append(entries, entry)[n] = entries[n]
          /\ Append(entries, entry)[Len(entries) + 1] = entry
        BY AppendProperties
    <2> WITNESS 0 \in {0, 1}
    <2> QED
        BY <1>1, <1>2, <2>1, <2>2
<1>3. CASE ~(Len(entries) < Capacity)
    <2> DEFINE rest == Tail(entries)
    <2>1. Keep(entries, entry) = Append(rest, entry) /\ entries # <<>>
        BY <1>1, <1>3 DEF Keep
    <2>2. /\ rest \in Seq(Nat \X Nat)
          /\ Len(rest) = Len(entries) - 1
          /\ \A n \in 1 .. Len(rest) : rest[n] = entries[n + 1]
        BY <2>1, HeadTailProperties
    <2> HIDE DEF rest
    <2>3. /\ Append(rest, entry) \in Seq(Nat \X Nat)
          /\ Len(Append(rest, entry)) = Len(rest) + 1
          /\ \A n \in 1 .. Len(rest) : Append(rest, entry)[n] = rest[n]
          /\ Append(rest, entry)[Len(rest) + 1] = entry
        BY <2>2, AppendProperties
    <2> WITNESS 1 \in {0, 1}
    <2> QED
        BY <1>1, <1>3, <2>1, <2>2, <2>3
<1> QED
    BY <1>2, <1>3

LEMMA PublishKeepsOrder ==
    ASSUME Capacity \in Nat \ {0}, LogInv, Publish
    PROVE  LogInv'
<1>1. /\ clock' \in Nat /\ closed' = clock' /\ clock <= clock' /\ closed <= clock
      /\ closed \in Nat
    BY DEF Publish, LogInv, LogOrdered
<1>2. PICK first, last \in closed + 1 .. clock' :
          first < last /\ log' = Keep(log, <<first, last>>)
    BY DEF Publish
<1> DEFINE entry == <<first, last>>
<1>3. /\ entry \in Nat \X Nat /\ entry[1] = first /\ entry[2] = last
      /\ log' = Keep(log, entry)
    BY <1>1, <1>2
<1> HIDE DEF entry
<1>4. log \in Seq(Nat \X Nat) /\ Len(log) \in Nat /\ Len(log) <= Capacity
    BY LenProperties DEF LogInv, LogOrdered
<1>5. PICK d \in {0, 1} :
          /\ log' \in Seq(Nat \X Nat)
          /\ Len(log') = Len(log) - d + 1
          /\ Len(log) - d + 1 <= Capacity
          /\ \A n \in 1 .. Len(log) - d : n + d \in 1 .. Len(log) /\ log'[n] = log[n + d]
          /\ log'[Len(log) - d + 1] = entry
    <2> DEFINE kept == Keep(log, entry)
    <2>1. \E d \in {0, 1} :
              /\ kept \in Seq(Nat \X Nat)
              /\ Len(kept) = Len(log) - d + 1
              /\ Len(log) - d + 1 <= Capacity
              /\ \A n \in 1 .. Len(log) - d :
                    n + d \in 1 .. Len(log) /\ kept[n] = log[n + d]
              /\ kept[Len(log) - d + 1] = entry
        BY <1>3, <1>4, KeepShifts, ZenonT(30)
    <2>2. log' = kept
        BY <1>3
    <2> HIDE DEF kept
    <2> QED
        BY <2>1, <2>2
<1>6. d \in Int /\ d <= 1 /\ 0 <= d
    OBVIOUS
<1>7. \A n \in 1 .. Len(log) :
          /\ log[n][1] \in Nat /\ log[n][2] \in Nat
          /\ log[n][1] < log[n][2] /\ log[n][2] <= closed
    BY <1>4, ElementOfSeq DEF LogInv, LogOrdered
<1>8. ASSUME NEW n \in 1 .. Len(log')
      PROVE  log'[n][1] < log'[n][2] /\ log'[n][2] <= closed'
    <2>1. CASE n = Len(log')
        <3>1. log'[n] = entry
            BY <1>5, <2>1
        <3>2. first < last /\ last <= clock'
            BY <1>1, <1>2
        <3> QED
            BY <1>1, <1>3, <3>1, <3>2
    <2>2. CASE n # Len(log')
        <3>1. n \in 1 .. Len(log) - d
            BY <1>4, <1>5, <1>6, <2>2
        <3>2. /\ n + d \in 1 .. Len(log)
              /\ log'[n] = log[n + d]
            BY <1>5, <3>1
        <3>3. /\ log[n + d][1] < log[n + d][2]
              /\ log[n + d][2] \in Nat /\ log[n + d][2] <= closed
            BY <1>7, <3>2
        <3> QED
            BY <1>1, <3>2, <3>3
    <2> QED
        BY <2>1, <2>2
<1>9. ASSUME NEW i \in 1 .. Len(log'), NEW j \in 1 .. Len(log'), i < j
      PROVE  log'[i][2] < log'[j][1]
    <2>1. /\ i \in 1 .. Len(log) - d
          /\ i + d \in 1 .. Len(log)
          /\ log'[i] = log[i + d]
        <3>1. i \in 1 .. Len(log) - d
            BY <1>4, <1>5, <1>9, <1>6
        <3> QED
            BY <1>5, <3>1
    <2>2. CASE j = Len(log')
        <3>1. log'[j] = entry
            BY <1>5, <2>2
        <3>2. log[i + d][2] \in Nat /\ log[i + d][2] <= closed
            BY <1>7, <2>1
        <3> QED
            BY <1>1, <1>2, <1>3, <2>1, <3>1, <3>2
    <2>3. CASE j # Len(log')
        <3>1. /\ j + d \in 1 .. Len(log)
              /\ log'[j] = log[j + d]
              /\ i + d < j + d
            <4>1. j \in 1 .. Len(log) - d
                BY <1>4, <1>5, <1>6, <2>3
            <4>2. j + d \in 1 .. Len(log) /\ log'[j] = log[j + d]
                BY <1>5, <4>1
            <4>3. i + d < j + d
                BY <1>9, <1>6
            <4> QED
                BY <4>2, <4>3
        <3> QED
            BY <2>1, <3>1 DEF LogInv, LogOrdered
    <2> QED
        BY <2>2, <2>3
<1> QED
    BY <1>1, <1>5, <1>8, <1>9 DEF LogInv, LogOrdered

LEMMA NextLogInv ==
    ASSUME Capacity \in Nat \ {0}, LogInv, [LogNext]_logVars
    PROVE  LogInv'
<1>1. CASE Advance
    <2>1. /\ clock' \in Nat /\ closed' \in Nat /\ log' = log
          /\ closed <= closed' /\ closed' <= clock' /\ closed \in Nat
        BY <1>1 DEF Advance, LogInv, LogOrdered
    <2>2. \A n \in 1 .. Len(log) : log[n][2] \in Nat /\ log[n][2] <= closed
        BY ElementOfSeq DEF LogInv, LogOrdered
    <2>3. \A n \in 1 .. Len(log) : log[n][2] <= closed'
        BY <2>1, <2>2
    <2> QED
        BY <2>1, <2>3 DEF LogInv, LogOrdered
<1>2. CASE Publish
    BY <1>2, PublishKeepsOrder
<1>3. CASE Forget
    <2>1. log' = <<>> /\ closed' = clock /\ clock' = clock
        BY <1>3 DEF Forget
    <2> QED
        BY <2>1 DEF LogInv, LogOrdered
<1>4. CASE UNCHANGED logVars
    BY <1>4 DEF logVars, LogInv, LogOrdered
<1> QED
    BY <1>1, <1>2, <1>3, <1>4 DEF LogNext

(* A log of any capacity shows its readers intervals that follow one        *)
(* another, publishes nothing that was closed, and stays within bounds.     *)
THEOREM LogKeepsOrder == Capacity \in Nat \ {0} => (LogSpec => []LogOrdered)
<1> SUFFICES ASSUME Capacity \in Nat \ {0} PROVE LogSpec => []LogOrdered
    OBVIOUS
<1>1. LogInit => LogInv
    BY DEF LogInit, LogInv, LogOrdered
<1>2. LogInv /\ [LogNext]_logVars => LogInv'
    BY NextLogInv
<1>3. LogInv => LogOrdered
    BY DEF LogInv
<1> QED
    BY <1>1, <1>2, <1>3, PTL DEF LogSpec

-----------------------------------------------------------------------------
(* The frame and index the camera sends next. *)
CameraFrame == IF next = 0 THEN sent + 1 ELSE sent

(* Those of the packet that is handled or lost next. *)
NextFrame == IF channel = <<>> THEN CameraFrame ELSE channel[1].frame
NextIndex == IF channel = <<>> THEN next ELSE channel[1].index

(* What follows packet p in the order of sending. *)
Leads(p, frame, index) ==
    IF p.part = "end" THEN frame = p.frame + 1 /\ index = 0
                      ELSE frame = p.frame /\ index = p.index + 1

ChannelWhole ==
    /\ next > 0 => sent > 0
    /\ \A i \in 1 .. Len(channel) : channel[i].part = "start" <=> channel[i].index = 0
    /\ \A i \in 1 .. Len(channel) - 1 :
          Leads(channel[i], channel[i + 1].frame, channel[i + 1].index)
    /\ channel # <<>> => Leads(channel[Len(channel)], CameraFrame, next)

(* The start packet of frame f has left the channel. *)
StartPast(f) == f < NextFrame \/ (f = NextFrame /\ NextIndex > 0)

LostIn(gone, f, part) == \E packet \in gone : packet.part = part /\ packet.frame = f

(* Where two frames meet among fragments, all between them is gone. *)
Unmixed(fragments, gone) ==
    \A i \in 2 .. Len(fragments) :
        LET before == fragments[i - 1].payload
            after == fragments[i].payload
        IN  before.frame # after.frame =>
                LostIn(gone, before.frame, "end") /\ LostIn(gone, after.frame, "start")

(* All fragments are of frame f, the first ones it has. *)
Leading(fragments, f) ==
    \A i \in 1 .. Len(fragments) :
        fragments[i].payload.frame = f /\ fragments[i].payload.index = i - 1

CurrentKnown ==
    current_frame # <<>> =>
        LET first == current_frame[1].payload.frame
            last == current_frame[Len(current_frame)].payload.frame
        IN  /\ StartPast(first)
            /\ \A n \in 1 .. Len(frames) : FrameOf(n) < first
            /\ Unmixed(current_frame, lost)
            /\ last \in 1 .. NextFrame
            /\ last < NextFrame => LostIn(lost, last, "end")
            /\ \A g \in Nat : last < g /\ StartPast(g) => LostIn(lost, g, "start")
            /\ Intact(first) =>
                  /\ Leading(current_frame, first)
                  /\ NextFrame = first /\ NextIndex = Len(current_frame)

FramesKnown ==
    \A n \in 1 .. Len(frames) : StartPast(FrameOf(n)) /\ Unmixed(frames[n].parts, lost)

PInv ==
    /\ IInv /\ PathTypeOK
    /\ ChannelWhole /\ CurrentKnown /\ FramesKnown
    /\ NoFrameTwice /\ WholeFrames

-----------------------------------------------------------------------------
(* The place of the next packet are numbers. *)
LEMMA PlaceTypes ==
    ASSUME PInv
    PROVE  /\ NextFrame \in Nat /\ NextFrame >= 1 /\ NextIndex \in Nat
           /\ Len(channel) \in Nat /\ channel \in Seq(Packet)
           /\ channel # <<>> => Len(channel) >= 1 /\ channel[1] \in Packet
<1>1. /\ sent \in Nat /\ next \in Nat /\ channel \in Seq(Packet)
      /\ next > 0 => sent > 0
    BY SenderAssumption DEF PInv, PathTypeOK, ChannelWhole
<1>2. /\ Len(channel) \in Nat
      /\ channel # <<>> => Len(channel) >= 1 /\ channel[1] \in Packet
    BY <1>1, EmptySeq, LenProperties, ElementOfSeq
<1>3. \A packet \in Packet : packet.frame \in Nat /\ packet.frame >= 1 /\ packet.index \in Nat
    BY SenderAssumption DEF Packet
<1> QED
    BY <1>1, <1>2, <1>3 DEF NextFrame, NextIndex, CameraFrame

(* A packet leaves the channel: the place that follows it is next.          *)
LEMMA HeadLeaves ==
    ASSUME PInv, channel # <<>>, channel' = Tail(channel), UNCHANGED <<sent, next>>
    PROVE  /\ channel[1] \in Packet
           /\ NextFrame = channel[1].frame /\ NextIndex = channel[1].index
           /\ channel[1].part = "start" <=> channel[1].index = 0
           /\ Leads(channel[1], NextFrame', NextIndex')
           /\ ChannelWhole' /\ channel' \in Seq(Packet)
<1>1. Len(channel) \in Nat /\ Len(channel) >= 1 /\ channel \in Seq(Packet) /\ channel[1] \in Packet
    BY PlaceTypes
<1>2. /\ channel' \in Seq(Packet)
      /\ Len(channel') = Len(channel) - 1
      /\ \A i \in 1 .. Len(channel') : channel'[i] = channel[i + 1]
    BY <1>1, HeadTailProperties
<1>3. CameraFrame' = CameraFrame /\ next' = next
    BY DEF CameraFrame
<1>4. CASE Len(channel) = 1
    <2>1. channel' = <<>>
        BY <1>2, <1>4, EmptySeq
    <2>2. Len(channel') = 0
        BY <1>2, <1>4
    <2>3. Leads(channel[1], CameraFrame, next)
        BY <1>4 DEF PInv, ChannelWhole
    <2>4. NextFrame' = CameraFrame /\ NextIndex' = next
        BY <1>3, <2>1 DEF NextFrame, NextIndex
    <2>5. ChannelWhole'
        BY <1>3, <2>1, <2>2 DEF PInv, ChannelWhole
    <2> QED
        BY <1>1, <1>2, <2>3, <2>4, <2>5 DEF PInv, ChannelWhole, NextFrame, NextIndex
<1>5. CASE Len(channel) # 1
    <2>1. Len(channel) > 1
        <3>1. PICK n \in Nat : n = Len(channel)
            BY <1>1
        <3>2. n >= 1 /\ n # 1
            BY <1>1, <1>5, <3>1
        <3>3. n > 1
            BY <3>2
        <3> QED
            BY <3>1, <3>3
    <2>2. channel' # <<>> /\ Len(channel') >= 1 /\ channel'[1] = channel[2]
        <3>1. 1 \in 1 .. Len(channel') /\ 1 + 1 = 2
            BY <1>1, <1>2, <2>1
        <3>2. channel'[1] = channel[2]
            BY <1>2, <3>1
        <3> QED
            BY <1>2, <3>1, <3>2, EmptySeq
    <2>3. Leads(channel[1], channel[2].frame, channel[2].index)
        BY <1>1, <2>1 DEF PInv, ChannelWhole
    <2>4. NextFrame' = channel[2].frame /\ NextIndex' = channel[2].index
        BY <2>2 DEF NextFrame, NextIndex
    <2>5. ASSUME NEW i \in 1 .. Len(channel')
          PROVE  /\ channel'[i].part = "start" <=> channel'[i].index = 0
                 /\ i < Len(channel') =>
                        Leads(channel'[i], channel'[i + 1].frame, channel'[i + 1].index)
        <3>1. i + 1 \in 1 .. Len(channel) /\ channel'[i] = channel[i + 1]
            BY <1>1, <1>2
        <3>2. i < Len(channel') => i + 1 \in 1 .. Len(channel) - 1
                                   /\ channel'[i + 1] = channel[(i + 1) + 1]
            BY <1>1, <1>2
        <3> QED
            BY <3>1, <3>2 DEF PInv, ChannelWhole
    <2>6. channel'[Len(channel')] = channel[Len(channel)]
        BY <1>1, <1>2, <2>1
    <2>7. ChannelWhole'
        BY <1>1, <1>2, <1>3, <2>5, <2>6 DEF PInv, ChannelWhole, Leads
    <2> QED
        BY <1>1, <1>2, <2>3, <2>4, <2>7 DEF PInv, ChannelWhole, NextFrame, NextIndex
<1> QED
    BY <1>4, <1>5

(* A packet is sent: what leaves the channel next stays what it was. *)
LEMMA TailGrows ==
    ASSUME PInv, NEW packet \in Packet, channel' = Append(channel, packet),
           packet.frame = CameraFrame, packet.index = next,
           packet.part = "start" <=> next = 0,
           Leads(packet, CameraFrame', next'),
           next' > 0 => sent' > 0
    PROVE  /\ NextFrame' = NextFrame /\ NextIndex' = NextIndex
           /\ ChannelWhole' /\ channel' \in Seq(Packet)
<1>1. Len(channel) \in Nat /\ channel \in Seq(Packet)
    BY PlaceTypes
<1>2. /\ channel' \in Seq(Packet)
      /\ Len(channel') = Len(channel) + 1
      /\ \A i \in 1 .. Len(channel) : channel'[i] = channel[i]
      /\ channel'[Len(channel) + 1] = packet
    BY <1>1, AppendProperties
<1>3. channel' # <<>>
    BY <1>1, <1>2
<1>4. NextFrame' = NextFrame /\ NextIndex' = NextIndex
    <2>1. CASE channel = <<>>
        <3>1. channel'[1] = packet
            BY <1>2, <2>1
        <3> QED
            BY <1>3, <2>1, <3>1 DEF NextFrame, NextIndex
    <2>2. CASE channel # <<>>
        <3>1. channel'[1] = channel[1]
            BY <1>2, <2>2, PlaceTypes
        <3> QED
            BY <1>3, <2>2, <3>1 DEF NextFrame, NextIndex
    <2> QED
        BY <2>1, <2>2
<1>5. ASSUME NEW i \in 1 .. Len(channel')
      PROVE  channel'[i].part = "start" <=> channel'[i].index = 0
    BY <1>1, <1>2 DEF PInv, ChannelWhole
<1>6. ASSUME NEW i \in 1 .. Len(channel') - 1
      PROVE  Leads(channel'[i], channel'[i + 1].frame, channel'[i + 1].index)
    <2>1. i \in 1 .. Len(channel) /\ channel'[i] = channel[i]
        BY <1>1, <1>2
    <2>2. CASE i = Len(channel)
        <3>1. channel'[i + 1] = packet /\ channel # <<>>
            BY <1>1, <1>2, <2>1, <2>2
        <3> QED
            BY <2>1, <2>2, <3>1 DEF PInv, ChannelWhole
    <2>3. CASE i # Len(channel)
        <3>1. i \in 1 .. Len(channel) - 1 /\ channel'[i + 1] = channel[i + 1]
            BY <1>1, <1>2, <2>1, <2>3
        <3> QED
            BY <2>1, <3>1 DEF PInv, ChannelWhole
    <2> QED
        BY <2>2, <2>3
<1>7. ChannelWhole'
    BY <1>1, <1>2, <1>5, <1>6 DEF ChannelWhole, Leads
<1> QED
    BY <1>2, <1>4, <1>7

(* How the place moves when a packet leaves: over its frame only. *)
LEMMA PlaceMoves ==
    ASSUME PInv, channel # <<>>, channel' = Tail(channel), UNCHANGED <<sent, next>>
    PROVE  /\ channel[1].frame \in Nat /\ channel[1].frame >= 1 /\ channel[1].index \in Nat
           /\ NextFrame' \in Nat /\ NextFrame <= NextFrame'
           /\ NextFrame < NextFrame' => channel[1].part = "end"
           /\ \A g \in Nat : g = channel[1].frame => StartPast(g)'
           /\ \A g \in Nat : StartPast(g) => StartPast(g)'
           /\ \A g \in Nat :
                 StartPast(g)' => StartPast(g)
                                  \/ (channel[1].part = "start" /\ g = channel[1].frame)
<1>1. PICK packet : packet = channel[1]
    OBVIOUS
<1>2. /\ NextFrame = packet.frame /\ NextIndex = packet.index
      /\ packet.part = "start" <=> packet.index = 0
      /\ Leads(packet, NextFrame', NextIndex')
    BY <1>1, HeadLeaves
<1>3. NextFrame \in Nat /\ NextFrame >= 1 /\ NextIndex \in Nat
    BY PlaceTypes
<1>4. PICK f \in Nat, k \in Nat : f = NextFrame /\ k = NextIndex
    BY <1>3
<1>5. CASE packet.part = "end"
    <2>1. NextFrame' = f + 1 /\ NextIndex' = 0 /\ k # 0
        BY <1>2, <1>4, <1>5 DEF Leads
    <2> QED
        BY <1>1, <1>2, <1>3, <1>4, <1>5, <2>1 DEF StartPast
<1>6. CASE packet.part # "end"
    <2>1. NextFrame' = f /\ NextIndex' = k + 1
        BY <1>2, <1>4, <1>6 DEF Leads
    <2>2. k = 0 => packet.part = "start"
        BY <1>2, <1>4
    <2> QED
        BY <1>1, <1>2, <1>3, <1>4, <2>1, <2>2 DEF StartPast
<1> QED
    BY <1>5, <1>6

(* The numbers of the frames on show, and of the fragments in assembly. *)
LEMMA FragmentFrames ==
    ASSUME NEW fragments \in Seq(Fragment), NEW i \in 1 .. Len(fragments)
    PROVE  /\ fragments[i].payload \in Packet
           /\ fragments[i].payload.frame \in Nat /\ fragments[i].payload.frame >= 1
           /\ fragments[i].payload.index \in Nat
<1>1. fragments[i] \in Fragment
    BY ElementOfSeq
<1>2. fragments[i].payload \in Packet
    BY <1>1, PacketAssumption DEF Fragment
<1> QED
    BY <1>2, SenderAssumption DEF Packet

LEMMA FrameNumbers ==
    ASSUME PInv, NEW n \in 1 .. Len(frames)
    PROVE  FrameOf(n) \in Nat /\ frames[n].parts \in Seq(Fragment) /\ Len(frames[n].parts) >= 2
<1>1. frames[n].parts \in Seq(Fragment) /\ Len(frames[n].parts) >= 2
    BY FramesHaveParts DEF PInv, IInv, TypeOK, FrameShape
<1>2. 1 \in 1 .. Len(frames[n].parts)
    BY <1>1, LenProperties
<1> QED
    BY <1>1, <1>2, FragmentFrames DEF FrameOf

LEMMA LossesOnlyAdd ==
    ASSUME lost \subseteq lost'
    PROVE  \A fragments : Unmixed(fragments, lost) => Unmixed(fragments, lost')
BY DEF Unmixed, LostIn

(* What holds of the frames on show goes on holding: losses and the timer  *)
(* only ever add to what excuses them.                                     *)
LEMMA FramesStay ==
    ASSUME PInv, UNCHANGED frames, lost \subseteq lost', hit \subseteq hit',
           \A g \in Nat : StartPast(g) => StartPast(g)'
    PROVE  FramesKnown' /\ NoFrameTwice' /\ WholeFrames'
<1>1. \A n : FrameOf(n)' = FrameOf(n) /\ LastPart(n)' = LastPart(n)
    BY DEF FrameOf, LastPart
<1>2. FramesKnown'
    <2>1. ASSUME NEW n \in 1 .. Len(frames')
          PROVE  StartPast(FrameOf(n))' /\ Unmixed(frames'[n].parts, lost')
        <3>1. FrameOf(n) \in Nat /\ StartPast(FrameOf(n)) /\ Unmixed(frames[n].parts, lost)
            BY FrameNumbers DEF PInv, FramesKnown
        <3>2. PICK f \in Nat : f = FrameOf(n)
            BY <3>1
        <3>3. StartPast(f)'
            BY <3>1, <3>2
        <3>4. StartPast(FrameOf(n))'
            BY <1>1, <3>2, <3>3 DEF StartPast
        <3>5. Unmixed(frames'[n].parts, lost')
            BY <3>1 DEF Unmixed, LostIn
        <3> QED
            BY <3>4, <3>5
    <2> QED
        BY <2>1 DEF FramesKnown, Unmixed, LostIn
<1>3. NoFrameTwice'
    BY <1>1 DEF PInv, NoFrameTwice
<1>4. WholeFrames'
    <2>1. \A f : Intact(f)' => Intact(f)
        BY DEF Intact
    <2>2. ASSUME NEW n \in 1 .. Len(frames'), Intact(FrameOf(n))'
          PROVE  Intact(FrameOf(n))
        BY <1>1, <2>2 DEF Intact
    <2> QED
        BY <1>1, <2>2 DEF PInv, WholeFrames
<1> QED
    BY <1>2, <1>3, <1>4

(* Publishing frame f, later than all on show: the last step of            *)
(* complete_frame and of complete_incomplete_frame alike.                  *)
LEMMA PublishPath ==
    ASSUME PInv, lost \subseteq lost', hit \subseteq hit',
           \A g \in Nat : StartPast(g) => StartPast(g)',
           NEW fragments \in Seq(Fragment), Len(fragments) >= 2,
           add_complete_frame(assemble_frame(fragments)),
           NEW f \in Nat, f = fragments[1].payload.frame, StartPast(f)',
           \A n \in 1 .. Len(frames) : FrameOf(n) < f,
           Unmixed(fragments, lost),
           Intact(f)' => /\ Leading(fragments, f)
                         /\ fragments[Len(fragments)].payload.part = "end"
    PROVE  FramesKnown' /\ NoFrameTwice' /\ WholeFrames'
<1> DEFINE frame == assemble_frame(fragments)
<1>1. /\ frame \in Frame /\ frame.parts = fragments
      /\ frame.cut = (fragments[Len(fragments)].payload \in SizeTail)
    BY DEF Frame, assemble_frame
<1>2. frames \in Seq(Frame) /\ Len(frames) \in Nat /\ Bounded
    BY LenProperties DEF PInv, IInv, TypeOK
<1>3. fragments[Len(fragments)].payload \in Packet
    BY LenProperties, FragmentFrames
<1> HIDE DEF frame
<1>4. PICK d \in {0, 1} :
          /\ Len(frames') = Len(frames) - d + 1
          /\ Len(frames') \in 1 .. MaxFrames
          /\ frames' \in Seq(Frame)
          /\ \A n \in 1 .. Len(frames') - 1 :
                n + d \in 1 .. Len(frames) /\ frames'[n] = frames[n + d]
          /\ frames'[Len(frames')] = frame
    BY <1>1, <1>2, MakeRoom DEF frame
<1>5. PICK m \in Nat : m = Len(frames')
    BY <1>4, LenProperties
<1>6. FrameOf(m)' = f /\ LastPart(m)' = fragments[Len(fragments)]
    BY <1>1, <1>4, <1>5 DEF FrameOf, LastPart
<1>7. ASSUME NEW n \in 1 .. m - 1
      PROVE  /\ n + d \in 1 .. Len(frames) /\ frames'[n] = frames[n + d]
             /\ FrameOf(n)' = FrameOf(n + d) /\ LastPart(n)' = LastPart(n + d)
             /\ FrameOf(n + d) \in Nat /\ FrameOf(n + d) < f
    <2>1. n + d \in 1 .. Len(frames) /\ frames'[n] = frames[n + d]
        BY <1>4, <1>5
    <2> QED
        BY <2>1, FrameNumbers DEF FrameOf, LastPart
<1>8. FramesKnown'
    <2>1. ASSUME NEW n \in 1 .. m - 1
          PROVE  StartPast(FrameOf(n))' /\ Unmixed(frames'[n].parts, lost')
        <3>1. StartPast(FrameOf(n + d)) /\ Unmixed(frames[n + d].parts, lost)
            BY <1>7 DEF PInv, FramesKnown
        <3>2. PICK g \in Nat : g = FrameOf(n + d)
            BY <1>7
        <3>3. StartPast(g)' /\ g = FrameOf(n)'
            BY <1>7, <3>1, <3>2
        <3>4. StartPast(FrameOf(n))'
            BY <3>3 DEF StartPast
        <3>5. Unmixed(frames'[n].parts, lost')
            BY <1>7, <3>1, LossesOnlyAdd
        <3> QED
            BY <3>4, <3>5
    <2>2. StartPast(FrameOf(m))'
        BY <1>6 DEF StartPast
    <2>3. Unmixed(frames'[m].parts, lost')
        BY <1>1, <1>4, <1>5, LossesOnlyAdd
    <2>4. \A n \in 1 .. Len(frames') : n = m \/ n \in 1 .. m - 1
        BY <1>5
    <2>5. ASSUME NEW n \in 1 .. Len(frames')
          PROVE  StartPast(FrameOf(n))' /\ Unmixed(frames'[n].parts, lost')
        <3>1. CASE n = m
            <4>1. StartPast(FrameOf(n))'
                BY <1>6, <2>2, <3>1 DEF StartPast, FrameOf
            <4> QED
                BY <2>3, <3>1, <4>1
        <3>2. CASE n \in 1 .. m - 1
            BY <2>1, <3>2
        <3> QED
            BY <2>4, <3>1, <3>2
    <2> QED
        BY <2>5 DEF FramesKnown, Unmixed, LostIn
<1>9. NoFrameTwice'
    <2>1. ASSUME NEW k \in 1 .. m, NEW n \in 1 .. m, k < n
          PROVE  FrameOf(k)' < FrameOf(n)'
        <3>1. k \in 1 .. m - 1 /\ (n = m \/ n \in 1 .. m - 1)
            BY <2>1
        <3>2. CASE n = m
            BY <1>6, <1>7, <3>1, <3>2
        <3>3. CASE n \in 1 .. m - 1
            BY <1>2, <1>7, <2>1, <3>1, <3>3 DEF PInv, NoFrameTwice
        <3> QED
            BY <3>1, <3>2, <3>3
    <2> QED
        BY <1>5, <2>1 DEF NoFrameTwice
<1>10. WholeFrames'
    <2> DEFINE Whole(n) ==
                /\ \A i \in 1 .. Len(frames[n].parts) :
                      /\ frames[n].parts[i].payload.frame = FrameOf(n)
                      /\ frames[n].parts[i].payload.index = i - 1
                /\ LastPart(n).payload.part = "end"
                /\ frames[n].cut
    <2>1. ASSUME NEW n \in 1 .. m - 1, Intact(FrameOf(n))'
          PROVE  Whole(n)'
        <3>1. Intact(FrameOf(n + d))
            BY <1>7, <2>1 DEF Intact
        <3>2. Whole(n + d)
            BY <1>7, <3>1 DEF PInv, WholeFrames
        <3> QED
            BY <1>7, <3>2
    <2>2. ASSUME Intact(FrameOf(m))'
          PROVE  Whole(m)'
        <3>1. Intact(f)'
            BY <1>6, <2>2 DEF Intact
        <3>2. fragments[Len(fragments)].payload \in SizeTail
            BY <1>3, <3>1, SizeAssumption
        <3> QED
            BY <1>1, <1>4, <1>5, <1>6, <3>1, <3>2 DEF Leading
    <2>3. \A n \in 1 .. Len(frames') : n = m \/ n \in 1 .. m - 1
        BY <1>5
    <2>4. ASSUME NEW n \in 1 .. Len(frames'), Intact(FrameOf(n))'
          PROVE  Whole(n)'
        <3>1. CASE n = m
            <4>1. Intact(FrameOf(m))'
                BY <2>4, <3>1 DEF Intact, FrameOf
            <4>2. Whole(m)'
                BY <2>2, <4>1
            <4> QED
                BY <3>1, <4>2 DEF FrameOf, LastPart
        <3>2. CASE n \in 1 .. m - 1
            BY <2>1, <2>4, <3>2
        <3> QED
            BY <2>3, <3>1, <3>2
    <2> QED
        BY <2>4 DEF WholeFrames
<1> QED
    BY <1>8, <1>9, <1>10

(* The frame in assembly: the numbers of its first and last fragment. *)
LEMMA CurrentFrames ==
    ASSUME PInv, current_frame # <<>>
    PROVE  /\ current_frame \in Seq(Fragment)
           /\ Len(current_frame) \in Nat /\ Len(current_frame) >= 1
           /\ current_frame[1].payload.frame \in Nat
           /\ current_frame[Len(current_frame)].payload.frame \in Nat
<1>1. /\ current_frame \in Seq(Fragment)
      /\ Len(current_frame) \in Nat /\ Len(current_frame) >= 1
    BY LenProperties, EmptySeq DEF PInv, IInv, TypeOK
<1>2. 1 \in 1 .. Len(current_frame) /\ Len(current_frame) \in 1 .. Len(current_frame)
    BY <1>1
<1> QED
    BY <1>1, <1>2, FragmentFrames

(* A middle or an end joins the frame in assembly: where it is of another  *)
(* frame than the fragment before it, an end and a start were lost; and an *)
(* intact frame gets exactly its next fragment.                            *)
LEMMA JoinPath ==
    ASSUME PInv, current_frame # <<>>, channel # <<>>,
           channel' = Tail(channel), UNCHANGED <<sent, next>>,
           NEW part \in Part, part # "start", channel[1].part = part
    PROVE  LET more == Append(current_frame, NextFragment(part, channel[1])) IN
           /\ more \in Seq(Fragment) /\ Len(more) = Len(current_frame) + 1
           /\ Len(more) >= 2
           /\ more[1] = current_frame[1]
           /\ more[Len(more)].payload = channel[1]
           /\ Unmixed(more, lost)
           /\ Intact(current_frame[1].payload.frame) =>
                 Leading(more, current_frame[1].payload.frame)
<1> DEFINE fragment == NextFragment(part, channel[1])
           more == Append(current_frame, fragment)
           top == Len(current_frame)
<1>1. /\ channel[1] \in Packet
      /\ NextFrame = channel[1].frame /\ NextIndex = channel[1].index
      /\ NextIndex # 0
    BY HeadLeaves
<1>2. /\ NextFrame \in Nat /\ NextIndex \in Nat
    BY PlaceTypes
<1>3. fragment \in Fragment /\ fragment.payload = channel[1]
    BY <1>1, PacketAssumption DEF NextFragment, Fragment, PInv, IInv, TypeOK
<1>4. /\ current_frame \in Seq(Fragment) /\ top \in Nat /\ top >= 1
      /\ current_frame[1].payload.frame \in Nat
      /\ current_frame[top].payload.frame \in Nat
    BY CurrentFrames
<1> HIDE DEF fragment
<1>5. /\ more \in Seq(Fragment) /\ Len(more) = top + 1
      /\ \A i \in 1 .. top : more[i] = current_frame[i]
      /\ more[top + 1] = fragment
    BY <1>3, <1>4, AppendProperties
<1> HIDE DEF more
<1>6. PICK last \in Nat : last = current_frame[top].payload.frame
    BY <1>4
<1>7. PICK now \in Nat : now = channel[1].frame
    BY <1>1, <1>2
<1>8. /\ Unmixed(current_frame, lost)
      /\ last \in 1 .. NextFrame
      /\ last < NextFrame => LostIn(lost, last, "end")
      /\ \A g \in Nat : last < g /\ StartPast(g) => LostIn(lost, g, "start")
    BY <1>6 DEF PInv, CurrentKnown
<1>9. last # now => LostIn(lost, last, "end") /\ LostIn(lost, now, "start")
    <2>1. StartPast(now)
        BY <1>1, <1>2, <1>7 DEF StartPast
    <2>2. last # now => last < now
        BY <1>1, <1>2, <1>7, <1>8
    <2> QED
        BY <1>1, <1>7, <1>8, <2>1, <2>2
<1>10. Unmixed(more, lost)
    <2>1. ASSUME NEW i \in 2 .. Len(more),
                 more[i - 1].payload.frame # more[i].payload.frame
          PROVE  /\ LostIn(lost, more[i - 1].payload.frame, "end")
                 /\ LostIn(lost, more[i].payload.frame, "start")
        <3>1. CASE i = top + 1
            <4>1. i - 1 = top /\ more[i - 1] = current_frame[top] /\ more[i] = fragment
                BY <1>4, <1>5, <3>1
            <4> QED
                BY <1>3, <1>6, <1>7, <1>9, <2>1, <4>1
        <3>2. CASE i # top + 1
            <4>1. /\ i \in 2 .. top
                  /\ more[i - 1] = current_frame[i - 1] /\ more[i] = current_frame[i]
                BY <1>4, <1>5, <3>2
            <4> QED
                BY <1>8, <2>1, <4>1 DEF Unmixed
        <3> QED
            BY <3>1, <3>2
    <2> QED
        BY <2>1 DEF Unmixed
<1>11. ASSUME Intact(current_frame[1].payload.frame)
       PROVE  Leading(more, current_frame[1].payload.frame)
    <2>1. PICK first \in Nat : first = current_frame[1].payload.frame
        BY <1>4
    <2>2. Leading(current_frame, first) /\ NextFrame = first /\ NextIndex = top
        BY <1>11, <2>1 DEF PInv, CurrentKnown
    <2>3. ASSUME NEW i \in 1 .. Len(more)
          PROVE  more[i].payload.frame = first /\ more[i].payload.index = i - 1
        <3>1. CASE i = top + 1
            <4>1. more[i].payload = channel[1]
                BY <1>3, <1>5, <3>1
            <4>2. channel[1].frame = first /\ channel[1].index = top
                BY <1>1, <2>2
            <4>3. i - 1 = top
                BY <1>4, <3>1
            <4> QED
                BY <4>1, <4>2, <4>3
        <3>2. CASE i # top + 1
            <4>1. i \in 1 .. top
                BY <1>4, <1>5, <3>2
            <4> QED
                BY <1>5, <2>2, <4>1 DEF Leading
        <3> QED
            BY <3>1, <3>2
    <2> QED
        BY <2>1, <2>3 DEF Leading
<1>12. 1 \in 1 .. top /\ top + 1 >= 2
    BY <1>4
<1> QED
    BY <1>3, <1>5, <1>10, <1>11, <1>12 DEF more, fragment

-----------------------------------------------------------------------------
LEMMA InitPInv == PathInit => PInv
<1> SUFFICES ASSUME PathInit PROVE PInv
    OBVIOUS
<1>1. IInv
    BY InitIInv DEF PathInit
<1>2. frames = <<>> /\ current_frame = <<>> /\ channel = <<>> /\ next = 0 /\ sent = 0
    BY DEF PathInit, Init
<1>3. PathTypeOK
    BY <1>1, <1>2, SenderAssumption DEF PathInit, PathTypeOK, IInv
<1>4. ChannelWhole
    BY <1>2 DEF ChannelWhole
<1>5. CurrentKnown /\ FramesKnown /\ NoFrameTwice /\ WholeFrames
    BY <1>2 DEF CurrentKnown, FramesKnown, NoFrameTwice, WholeFrames
<1> QED
    BY <1>1, <1>3, <1>4, <1>5 DEF PInv

(* The camera sends: what it sends is at the other end of the channel. *)
LEMMA SendsKeep ==
    ASSUME PInv, UNCHANGED <<vars, lost, hit>>,
           NEW packet \in Packet, channel' = Append(channel, packet),
           packet.frame = CameraFrame, packet.index = next,
           packet.part = "start" <=> next = 0,
           Leads(packet, CameraFrame', next'),
           sent' \in 0 .. MaxSent, next' \in 0 .. MaxMiddles + 1, next' > 0 => sent' > 0
    PROVE  PInv'
<1>1. UNCHANGED <<frames, current_frame, arrivals>>
    BY DEF vars
<1>2. IInv'
    BY NextKeeps DEF PInv
<1>3. /\ NextFrame' = NextFrame /\ NextIndex' = NextIndex
      /\ ChannelWhole' /\ channel' \in Seq(Packet)
    BY TailGrows
<1>4. PathTypeOK'
    BY <1>2, <1>3 DEF PInv, PathTypeOK, IInv
<1>5. \A g \in Nat : StartPast(g)' <=> StartPast(g)
    BY <1>3 DEF StartPast
<1>6. FramesKnown' /\ NoFrameTwice' /\ WholeFrames'
    BY <1>1, <1>5, FramesStay
<1>7. CurrentKnown'
    BY <1>1, <1>3 DEF PInv, CurrentKnown, StartPast, FrameOf, Unmixed, LostIn, Intact, Leading
<1> QED
    BY <1>2, <1>3, <1>4, <1>6, <1>7 DEF PInv

(* The place of the next packet does not move while the camera sends. *)
LEMMA SendPlace ==
    ASSUME PInv, SendStart \/ SendMiddle \/ SendEnd \/ UNCHANGED allVars
    PROVE  NextFrame' = NextFrame /\ NextIndex' = NextIndex
<1>1. sent \in 0 .. MaxSent /\ next \in 0 .. MaxMiddles + 1 /\ (next > 0 => sent > 0)
    BY DEF PInv, PathTypeOK, ChannelWhole
<1>2. ASSUME NEW frame \in 1 .. MaxSent, NEW part \in Part, NEW index \in 0 .. MaxMiddles + 1,
             Put(frame, part, index), frame = CameraFrame, index = next
      PROVE  NextFrame' = NextFrame /\ NextIndex' = NextIndex
    <2> DEFINE packet == [frame |-> frame, part |-> part, index |-> index]
    <2>1. packet \in Packet /\ packet.frame = CameraFrame /\ packet.index = next
        BY <1>2 DEF Packet
    <2>2. channel' = Append(channel, packet)
        BY <1>2 DEF Put
    <2> HIDE DEF packet
    <2>3. Len(channel) \in Nat /\ channel \in Seq(Packet)
        BY PlaceTypes
    <2>4. /\ Len(channel') = Len(channel) + 1
          /\ \A i \in 1 .. Len(channel) : channel'[i] = channel[i]
          /\ channel'[Len(channel) + 1] = packet
        BY <2>1, <2>2, <2>3, AppendProperties
    <2>5. channel' # <<>>
        BY <2>3, <2>4
    <2>6. CASE channel = <<>>
        <3>1. channel'[1] = packet
            BY <2>4, <2>6
        <3> QED
            BY <2>1, <2>5, <2>6, <3>1 DEF NextFrame, NextIndex
    <2>7. CASE channel # <<>>
        <3>1. channel'[1] = channel[1]
            BY <2>4, <2>7, PlaceTypes
        <3> QED
            BY <2>5, <2>7, <3>1 DEF NextFrame, NextIndex
    <2> QED
        BY <2>6, <2>7
<1>3. CASE SendStart
    <2>1. sent + 1 \in 1 .. MaxSent /\ sent + 1 = CameraFrame /\ next = 0
        BY <1>1, <1>3, SenderAssumption DEF SendStart, CameraFrame
    <2>2. 0 \in 0 .. MaxMiddles + 1 /\ "start" \in Part /\ Put(sent + 1, "start", 0)
        BY <1>3, SenderAssumption DEF SendStart, Part
    <2> QED
        BY <1>2, <2>1, <2>2
<1>4. CASE SendMiddle \/ SendEnd
    <2>1. next > 0
        BY <1>4, SenderAssumption DEF SendMiddle, SendEnd
    <2>2. sent \in 1 .. MaxSent /\ sent = CameraFrame
        BY <1>1, <2>1 DEF CameraFrame
    <2>3. \E part \in Part : Put(sent, part, next)
        BY <1>4 DEF SendMiddle, SendEnd, Part
    <2> QED
        BY <1>1, <1>2, <2>2, <2>3
<1>5. CASE UNCHANGED allVars
    BY <1>5 DEF allVars, pathVars, NextFrame, NextIndex, CameraFrame
<1> QED
    BY <1>3, <1>4, <1>5

LEMMA SendStartKeeps == PInv /\ SendStart => PInv'
<1> SUFFICES ASSUME PInv, SendStart PROVE PInv'
    OBVIOUS
<1> DEFINE packet == [frame |-> sent + 1, part |-> "start", index |-> 0]
<1>1. sent \in Nat /\ sent < MaxSent /\ next = 0 /\ sent' = sent + 1 /\ next' = 1
    BY SenderAssumption DEF PInv, PathTypeOK, SendStart
<1>2. packet \in Packet
    BY <1>1, SenderAssumption DEF Packet, Part
<1>3. /\ packet.frame = CameraFrame /\ packet.index = next /\ packet.part = "start"
      /\ Leads(packet, CameraFrame', next')
    BY <1>1 DEF CameraFrame, Leads
<1>4. sent' \in 0 .. MaxSent /\ next' \in 0 .. MaxMiddles + 1 /\ sent' > 0
    BY <1>1, SenderAssumption
<1>5. channel' = Append(channel, packet) /\ UNCHANGED <<vars, lost, hit>>
    BY DEF SendStart, Put
<1> HIDE DEF packet
<1> QED
    BY <1>1, <1>2, <1>3, <1>4, <1>5, SendsKeep

LEMMA SendMiddleKeeps == PInv /\ SendMiddle => PInv'
<1> SUFFICES ASSUME PInv, SendMiddle PROVE PInv'
    OBVIOUS
<1> DEFINE packet == [frame |-> sent, part |-> "middle", index |-> next]
<1>1. /\ sent \in 0 .. MaxSent /\ sent > 0 /\ next \in 1 .. MaxMiddles
      /\ sent' = sent /\ next' = next + 1
    BY SenderAssumption DEF PInv, PathTypeOK, ChannelWhole, SendMiddle
<1>2. packet \in Packet
    BY <1>1, SenderAssumption DEF Packet, Part
<1>3. /\ packet.frame = CameraFrame /\ packet.index = next
      /\ packet.part # "start" /\ next # 0
      /\ Leads(packet, CameraFrame', next')
    BY <1>1, SenderAssumption DEF CameraFrame, Leads
<1>4. sent' \in 0 .. MaxSent /\ next' \in 0 .. MaxMiddles + 1 /\ sent' > 0
    BY <1>1, SenderAssumption
<1>5. channel' = Append(channel, packet) /\ UNCHANGED <<vars, lost, hit>>
    BY DEF SendMiddle, Put
<1> HIDE DEF packet
<1> QED
    BY <1>1, <1>2, <1>3, <1>4, <1>5, SendsKeep

LEMMA SendEndKeeps == PInv /\ SendEnd => PInv'
<1> SUFFICES ASSUME PInv, SendEnd PROVE PInv'
    OBVIOUS
<1> DEFINE packet == [frame |-> sent, part |-> "end", index |-> next]
<1>1. /\ sent \in 0 .. MaxSent /\ sent > 0 /\ next \in 0 .. MaxMiddles + 1 /\ next > 0
      /\ sent' = sent /\ next' = 0
    BY SenderAssumption DEF PInv, PathTypeOK, ChannelWhole, SendEnd
<1>2. packet \in Packet
    BY <1>1, SenderAssumption DEF Packet, Part
<1>3. /\ packet.frame = CameraFrame /\ packet.index = next
      /\ packet.part # "start" /\ next # 0
      /\ Leads(packet, CameraFrame', next')
    BY <1>1, SenderAssumption DEF CameraFrame, Leads
<1>4. sent' \in 0 .. MaxSent /\ next' \in 0 .. MaxMiddles + 1 /\ ~ (next' > 0)
    BY <1>1, SenderAssumption
<1>5. channel' = Append(channel, packet) /\ UNCHANGED <<vars, lost, hit>>
    BY DEF SendEnd, Put
<1> HIDE DEF packet
<1> QED
    BY <1>1, <1>2, <1>3, <1>4, <1>5, SendsKeep

-----------------------------------------------------------------------------
(* What every packet that leaves the channel brings about, handled or lost. *)
LEMMA LeavingKeeps ==
    ASSUME PInv, channel # <<>>, channel' = Tail(channel), UNCHANGED <<sent, next, hit>>,
           lost' \in {lost, lost \cup {channel[1]}}, [Next]_vars
    PROVE  IInv' /\ PathTypeOK' /\ ChannelWhole'
<1>1. IInv'
    BY NextKeeps DEF PInv
<1>2. ChannelWhole' /\ channel' \in Seq(Packet) /\ channel[1] \in Packet
    BY HeadLeaves
<1>3. PathTypeOK'
    BY <1>1, <1>2 DEF PInv, PathTypeOK, IInv
<1> QED
    BY <1>1, <1>2, <1>3

(* A start packet: whatever was in assembly is dropped. *)
LEMMA HandleStartKeeps ==
    ASSUME PInv, channel # <<>>, channel' = Tail(channel),
           UNCHANGED <<sent, next, lost, hit>>,
           channel[1].part = "start", StartNewFrame(channel[1])
    PROVE  PInv'
<1> DEFINE fragment == NextFragment("start", channel[1])
<1>1. /\ channel[1] \in Packet
      /\ NextFrame = channel[1].frame /\ NextIndex = channel[1].index
      /\ NextIndex = 0
      /\ Leads(channel[1], NextFrame', NextIndex')
    BY HeadLeaves
<1>2. PICK now \in Nat : now = NextFrame
    BY PlaceTypes
<1>3. now >= 1 /\ NextFrame' = now /\ NextIndex' = 1
    BY <1>1, <1>2, PlaceTypes DEF Leads
<1>4. [Next]_vars
    BY <1>1, PacketAssumption DEF Next
<1>5. IInv' /\ PathTypeOK' /\ ChannelWhole'
    BY <1>4, LeavingKeeps
<1>6. FramesKnown' /\ NoFrameTwice' /\ WholeFrames'
    BY PlaceMoves, FramesStay DEF StartNewFrame
<1>7. fragment.payload = channel[1]
    BY DEF NextFragment
<1> HIDE DEF fragment
<1>8. current_frame' = <<fragment>> /\ UNCHANGED frames
    BY DEF StartNewFrame, fragment
<1>9. /\ Len(current_frame') = 1 /\ current_frame'[1].payload = channel[1]
      /\ current_frame'[1].payload.frame = now
    BY <1>1, <1>2, <1>7, <1>8
<1>10. ASSUME NEW n \in 1 .. Len(frames) PROVE FrameOf(n) < now
    <2>1. FrameOf(n) \in Nat /\ StartPast(FrameOf(n))
        BY FrameNumbers DEF PInv, FramesKnown
    <2> QED
        BY <1>1, <1>2, <2>1 DEF StartPast
<1>11. \A n : FrameOf(n)' = FrameOf(n)
    BY <1>8 DEF FrameOf
<1>12. CurrentKnown'
    <2>1. Unmixed(current_frame', lost')
        BY <1>9 DEF Unmixed
    <2>2. Leading(current_frame', now)
        <3>1. current_frame'[1].payload.index = 0
            BY <1>1, <1>9
        <3>2. \A i \in 1 .. Len(current_frame') : i = 1
            BY <1>9
        <3> QED
            BY <1>9, <3>1, <3>2 DEF Leading
    <2>3. \A g \in Nat : now < g => ~ StartPast(g)'
        BY <1>3 DEF StartPast
    <2>4. now \in 1 .. NextFrame' /\ ~ (now < NextFrame')
        BY <1>3
    <2>5. current_frame'[1].payload.frame = now
          /\ current_frame'[Len(current_frame')].payload.frame = now
        BY <1>9
    <2>6. Intact(current_frame[1].payload.frame)' =>
              NextFrame' = now /\ NextIndex' = Len(current_frame')
        BY <1>3, <1>9
    <2> QED
        BY <1>3, <1>8, <1>9, <1>10, <1>11, <2>1, <2>2, <2>3, <2>4, <2>5, <2>6
        DEF CurrentKnown, StartPast, Unmixed, LostIn, Leading, Intact
<1> QED
    BY <1>5, <1>6, <1>12 DEF PInv

(* A packet leaves and touches neither the frames nor a frame in assembly:  *)
(* a middle or an end that finds none.                                      *)
LEMMA HandleIgnoredKeeps ==
    ASSUME PInv, channel # <<>>, channel' = Tail(channel),
           UNCHANGED <<sent, next, lost, hit>>, [Next]_vars,
           UNCHANGED frames, current_frame' = <<>>
    PROVE  PInv'
<1>1. IInv' /\ PathTypeOK' /\ ChannelWhole'
    BY LeavingKeeps
<1>2. FramesKnown' /\ NoFrameTwice' /\ WholeFrames'
    BY PlaceMoves, FramesStay
<1>3. CurrentKnown'
    BY DEF CurrentKnown
<1> QED
    BY <1>1, <1>2, <1>3 DEF PInv

(* A middle packet. *)
LEMMA HandleMiddleKeeps ==
    ASSUME PInv, channel # <<>>, channel' = Tail(channel),
           UNCHANGED <<sent, next, lost, hit>>,
           channel[1].part = "middle", AddFrameFragment(channel[1])
    PROVE  PInv'
<1>1. /\ channel[1] \in Packet
      /\ NextFrame = channel[1].frame /\ NextIndex = channel[1].index
      /\ NextFrame' = channel[1].frame /\ NextIndex' = channel[1].index + 1
    BY HeadLeaves DEF Leads
<1>2. PICK now \in Nat, k \in Nat : now = NextFrame /\ k = NextIndex
    BY PlaceTypes
<1>3. [Next]_vars /\ UNCHANGED frames
    BY <1>1, PacketAssumption DEF Next, AddFrameFragment
<1>4. IInv' /\ PathTypeOK' /\ ChannelWhole'
    BY <1>3, LeavingKeeps
<1>5. FramesKnown' /\ NoFrameTwice' /\ WholeFrames'
    BY <1>3, PlaceMoves, FramesStay
<1>6. CASE current_frame = <<>>
    BY <1>3, <1>6, HandleIgnoredKeeps DEF AddFrameFragment
<1>7. CASE current_frame # <<>>
    <2> DEFINE more == Append(current_frame, NextFragment("middle", channel[1]))
    <2>1. current_frame' = more
        BY <1>7 DEF AddFrameFragment
    <2>2. PICK first \in Nat, top \in Nat :
              /\ first = current_frame[1].payload.frame
              /\ top = Len(current_frame)
        BY <1>7, CurrentFrames
    <2>3. /\ more \in Seq(Fragment) /\ Len(more) = Len(current_frame) + 1
          /\ Len(more) >= 2
          /\ more[1] = current_frame[1]
          /\ more[Len(more)].payload = channel[1]
          /\ Unmixed(more, lost)
          /\ Intact(current_frame[1].payload.frame) =>
                Leading(more, current_frame[1].payload.frame)
        BY <1>7, JoinPath DEF Part
    <2> HIDE DEF more
    <2>4. /\ Len(current_frame') = top + 1
          /\ current_frame'[1].payload.frame = first
          /\ current_frame'[Len(current_frame')].payload.frame = now
        BY <1>1, <1>2, <2>1, <2>2, <2>3
    <2>5. /\ StartPast(first)
          /\ \A n \in 1 .. Len(frames) : FrameOf(n) < first
          /\ Intact(first) => NextFrame = first /\ NextIndex = top
        BY <1>7, <2>2 DEF PInv, CurrentKnown
    <2>6. StartPast(first)'
        BY <2>5, PlaceMoves
    <2>7. NextFrame' = now /\ NextIndex' = k + 1 /\ now \in 1 .. now
        BY <1>1, <1>2, PlaceTypes
    <2>8. Intact(first)' => /\ Leading(current_frame', first)
                            /\ NextFrame' = first /\ NextIndex' = top + 1
        BY <1>2, <2>1, <2>2, <2>3, <2>5, <2>7 DEF Intact
    <2>9. \A g \in Nat : now < g => ~ StartPast(g)'
        BY <2>7 DEF StartPast
    <2>10. \A n : FrameOf(n)' = FrameOf(n)
        BY <1>3 DEF FrameOf
    <2>11. CurrentKnown'
        <3> HIDE DEF StartPast
        <3>1. Unmixed(current_frame', lost')
            BY <2>1, <2>3
        <3>2. first < NextFrame' \/ (first = NextFrame' /\ NextIndex' > 0)
            BY <2>6 DEF StartPast
        <3>3. ~ (now < NextFrame') /\ now \in 1 .. NextFrame'
            BY <2>7
        <3> QED
            BY <1>3, <2>4, <2>5, <2>8, <2>9, <2>10, <3>1, <3>2, <3>3
            DEF CurrentKnown, StartPast, Unmixed, LostIn, Leading, Intact
    <2> QED
        BY <1>4, <1>5, <2>11 DEF PInv
<1> QED
    BY <1>6, <1>7

(* An end packet closes the frame in assembly and publishes it. *)
LEMMA HandleEndKeeps ==
    ASSUME PInv, channel # <<>>, channel' = Tail(channel),
           UNCHANGED <<sent, next, lost, hit>>,
           channel[1].part = "end", CompleteFrame(channel[1])
    PROVE  PInv'
<1>1. channel[1] \in Packet
    BY HeadLeaves
<1>2. [Next]_vars /\ current_frame' = <<>>
    BY <1>1, PacketAssumption DEF Next, CompleteFrame
<1>3. CASE current_frame = <<>>
    BY <1>2, <1>3, HandleIgnoredKeeps DEF CompleteFrame
<1>4. CASE current_frame # <<>>
    <2> DEFINE more == Append(current_frame, NextFragment("end", channel[1]))
    <2>1. add_complete_frame(assemble_frame(more))
        BY <1>4 DEF CompleteFrame
    <2>2. PICK first \in Nat : first = current_frame[1].payload.frame
        BY <1>4, CurrentFrames
    <2>3. /\ more \in Seq(Fragment) /\ Len(more) >= 2
          /\ more[1] = current_frame[1]
          /\ more[Len(more)].payload = channel[1]
          /\ Unmixed(more, lost)
          /\ Intact(first) => Leading(more, first)
        BY <1>4, <2>2, JoinPath DEF Part
    <2> HIDE DEF more
    <2>4. StartPast(first) /\ \A n \in 1 .. Len(frames) : FrameOf(n) < first
        BY <1>4, <2>2 DEF PInv, CurrentKnown
    <2>5. StartPast(first)' /\ \A g \in Nat : StartPast(g) => StartPast(g)'
        BY <2>4, PlaceMoves
    <2>6. Intact(first)' => /\ Leading(more, first)
                            /\ more[Len(more)].payload.part = "end"
        BY <2>3 DEF Intact
    <2>7. FramesKnown' /\ NoFrameTwice' /\ WholeFrames'
        BY <2>1, <2>2, <2>3, <2>4, <2>5, <2>6, PublishPath
    <2>8. IInv' /\ PathTypeOK' /\ ChannelWhole'
        BY <1>2, LeavingKeeps
    <2>9. CurrentKnown'
        BY <1>2 DEF CurrentKnown
    <2> QED
        BY <2>7, <2>8, <2>9 DEF PInv
<1> QED
    BY <1>3, <1>4

(* handle_video_frame, whatever the packet. *)
LEMMA HandleKeeps == PInv /\ handle_video_frame => PInv'
<1> SUFFICES ASSUME PInv, handle_video_frame PROVE PInv'
    OBVIOUS
<1>1. Head(channel) = channel[1]
    BY PlaceTypes
<1>2. channel # <<>> /\ channel' = Tail(channel) /\ UNCHANGED <<sent, next, lost, hit>>
    BY DEF handle_video_frame
<1>3. CASE channel[1].part = "start" /\ StartNewFrame(channel[1])
    BY <1>2, <1>3, HandleStartKeeps
<1>4. CASE channel[1].part = "middle" /\ AddFrameFragment(channel[1])
    BY <1>2, <1>4, HandleMiddleKeeps
<1>5. CASE channel[1].part = "end" /\ CompleteFrame(channel[1])
    BY <1>2, <1>5, HandleEndKeeps
<1> QED
    BY <1>1, <1>3, <1>4, <1>5 DEF handle_video_frame

(* A loss: a frame in assembly waits for a packet that will not come, which *)
(* is then among those lost.                                                *)
LEMMA LoseKeeps == PInv /\ Lose => PInv'
<1> SUFFICES ASSUME PInv, Lose PROVE PInv'
    OBVIOUS
<1>1. /\ channel # <<>> /\ channel' = Tail(channel)
      /\ lost' = lost \cup {channel[1]}
      /\ UNCHANGED <<frames, current_frame, sent, next, hit>> /\ [Next]_vars
    BY PlaceTypes DEF Lose, vars
<1>2. IInv' /\ PathTypeOK' /\ ChannelWhole'
    BY <1>1, LeavingKeeps
<1>3. FramesKnown' /\ NoFrameTwice' /\ WholeFrames'
    BY <1>1, PlaceMoves, FramesStay
<1>4. CurrentKnown'
    <2> SUFFICES ASSUME current_frame # <<>> PROVE CurrentKnown'
        BY <1>1 DEF CurrentKnown
    <2>1. PICK first \in Nat, last \in Nat :
              /\ first = current_frame[1].payload.frame
              /\ last = current_frame[Len(current_frame)].payload.frame
        BY CurrentFrames
    <2>2. PICK packet : packet = channel[1]
        OBVIOUS
    <2>3. PICK now \in Nat : now = NextFrame
        BY PlaceTypes
    <2>4. packet.frame = now
        BY <1>1, <2>2, <2>3, HeadLeaves
    <2>5. /\ StartPast(first)
          /\ \A n \in 1 .. Len(frames) : FrameOf(n) < first
          /\ Unmixed(current_frame, lost)
          /\ last \in 1 .. now
          /\ last < now => LostIn(lost, last, "end")
          /\ \A g \in Nat : last < g /\ StartPast(g) => LostIn(lost, g, "start")
          /\ Intact(first) => now = first
        BY <2>1, <2>3 DEF PInv, CurrentKnown
    <2>6. /\ NextFrame' \in Nat /\ now <= NextFrame'
          /\ now < NextFrame' => packet.part = "end"
          /\ StartPast(first)'
          /\ \A g \in Nat :
                StartPast(g)' => StartPast(g) \/ (packet.part = "start" /\ g = packet.frame)
        BY <1>1, <2>2, <2>3, <2>5, PlaceMoves
    <2>7. last \in 1 .. NextFrame'
        BY <2>5, <2>6
    <2>8. last < NextFrame' => LostIn(lost', last, "end")
        <3>1. CASE last < now
            BY <1>1, <2>5, <3>1 DEF LostIn
        <3>2. CASE last = now
            BY <1>1, <2>2, <2>4, <2>6, <3>2 DEF LostIn
        <3> QED
            BY <2>5, <3>1, <3>2
    <2>9. \A g \in Nat : last < g /\ StartPast(g)' => LostIn(lost', g, "start")
        BY <1>1, <2>2, <2>5, <2>6 DEF LostIn
    <2>10. ~ Intact(first)'
        BY <1>1, <2>2, <2>4, <2>5 DEF Intact
    <2>11. \A n : FrameOf(n)' = FrameOf(n)
        BY <1>1 DEF FrameOf
    <2>12. Unmixed(current_frame', lost')
        BY <1>1, <2>5, LossesOnlyAdd
    <2>13. first < NextFrame' \/ (first = NextFrame' /\ NextIndex' > 0)
        BY <2>6 DEF StartPast
    <2> QED
        BY <1>1, <2>1, <2>5, <2>7, <2>8, <2>9, <2>10, <2>11, <2>12, <2>13
        DEF CurrentKnown, StartPast, Unmixed, LostIn, Leading, Intact
<1> QED
    BY <1>2, <1>3, <1>4 DEF PInv

(* The timer publishes what there is, or drops a lone start; in either case *)
(* the frame is hit from then on.                                           *)
LEMMA TimerKeeps == PInv /\ periodic_incomplete_frame_task => PInv'
<1> SUFFICES ASSUME PInv, periodic_incomplete_frame_task PROVE PInv'
    OBVIOUS
<1>1. /\ current_frame # <<>> /\ current_frame' = <<>>
      /\ UNCHANGED <<sent, next, channel, lost>>
      /\ hit' = hit \cup {current_frame[n].payload.frame : n \in DOMAIN current_frame}
      /\ [Next]_vars
    BY DEF periodic_incomplete_frame_task, CompleteIncompleteFrame, HitAssembly, Next
<1>2. IInv'
    BY <1>1, NextKeeps DEF PInv
<1>3. /\ current_frame \in Seq(Fragment)
      /\ Len(current_frame) \in Nat /\ Len(current_frame) >= 1
    BY <1>1, CurrentFrames
<1>4. PathTypeOK'
    <2>1. \A n \in 1 .. Len(current_frame) : current_frame[n].payload \in Packet
        BY <1>3, FragmentFrames
    <2>2. \A packet \in Packet : packet.frame \in 1 .. MaxSent
        BY DEF Packet
    <2>3. DOMAIN current_frame = 1 .. Len(current_frame)
        BY <1>3
    <2>4. hit' \subseteq 1 .. MaxSent
        BY <1>1, <2>1, <2>2, <2>3 DEF PInv, PathTypeOK
    <2> QED
        BY <1>1, <1>2, <2>4 DEF PInv, PathTypeOK, IInv
<1>5. NextFrame' = NextFrame /\ NextIndex' = NextIndex
    BY <1>1 DEF NextFrame, NextIndex, CameraFrame
<1>6. ChannelWhole'
    BY <1>1 DEF PInv, ChannelWhole, CameraFrame, Leads
<1>7. \A g \in Nat : StartPast(g)' <=> StartPast(g)
    BY <1>5 DEF StartPast
<1>8. CurrentKnown'
    BY <1>1 DEF CurrentKnown
<1>9. FramesKnown' /\ NoFrameTwice' /\ WholeFrames'
    <2>1. CASE Len(current_frame) > 1
        <3>1. PICK first \in Nat : first = current_frame[1].payload.frame
            BY <1>1, CurrentFrames
        <3>2. /\ StartPast(first) /\ Unmixed(current_frame, lost)
              /\ \A n \in 1 .. Len(frames) : FrameOf(n) < first
            BY <1>1, <3>1 DEF PInv, CurrentKnown
        <3>3. ~ Intact(first)'
            <4>1. 1 \in DOMAIN current_frame
                BY <1>3
            <4> QED
                BY <1>1, <3>1, <4>1 DEF Intact
        <3>4. add_complete_frame(assemble_frame(current_frame)) /\ Len(current_frame) >= 2
            BY <1>3, <2>1 DEF periodic_incomplete_frame_task, CompleteIncompleteFrame
        <3> QED
            BY <1>1, <1>3, <1>7, <3>1, <3>2, <3>3, <3>4, PublishPath
    <2>2. CASE ~ (Len(current_frame) > 1)
        <3>1. UNCHANGED frames
            BY <2>2 DEF periodic_incomplete_frame_task, CompleteIncompleteFrame
        <3> QED
            BY <1>1, <1>7, <3>1, FramesStay
    <2> QED
        BY <2>1, <2>2
<1> QED
    BY <1>2, <1>4, <1>6, <1>8, <1>9 DEF PInv

-----------------------------------------------------------------------------
(* A stop forgets every frame; the one in assembly is hit from then on. *)
LEMMA StopKeeps == PInv /\ stop_streaming => PInv'
<1> SUFFICES ASSUME PInv, stop_streaming PROVE PInv'
    OBVIOUS
<1>1. /\ frames' = <<>> /\ current_frame' = <<>>
      /\ UNCHANGED <<sent, next, channel, lost>>
      /\ hit' = hit \cup {current_frame[n].payload.frame : n \in DOMAIN current_frame}
      /\ [Next]_vars
    BY DEF stop_streaming, Clear, HitAssembly, Next
<1>2. IInv'
    BY <1>1, NextKeeps DEF PInv
<1>3. PathTypeOK'
    <2>1. current_frame \in Seq(Fragment) /\ DOMAIN current_frame = 1 .. Len(current_frame)
        BY DEF PInv, IInv, TypeOK
    <2>2. \A n \in 1 .. Len(current_frame) : current_frame[n].payload \in Packet
        BY <2>1, FragmentFrames
    <2>3. \A packet \in Packet : packet.frame \in 1 .. MaxSent
        BY DEF Packet
    <2>4. hit' \subseteq 1 .. MaxSent
        BY <1>1, <2>1, <2>2, <2>3 DEF PInv, PathTypeOK
    <2> QED
        BY <1>1, <1>2, <2>4 DEF PInv, PathTypeOK, IInv
<1>4. ChannelWhole'
    BY <1>1 DEF PInv, ChannelWhole, CameraFrame, Leads
<1>5. CurrentKnown' /\ FramesKnown' /\ NoFrameTwice' /\ WholeFrames'
    BY <1>1 DEF CurrentKnown, FramesKnown, NoFrameTwice, WholeFrames
<1> QED
    BY <1>2, <1>3, <1>4, <1>5 DEF PInv

LEMMA PathStutterKeeps == PInv /\ UNCHANGED allVars => PInv'
<1> SUFFICES ASSUME PInv, UNCHANGED allVars PROVE PInv'
    OBVIOUS
<1>1. /\ UNCHANGED vars
      /\ UNCHANGED <<frames, current_frame, arrivals, sent, next, channel, lost, hit>>
    BY DEF allVars, vars, pathVars
<1>2. IInv'
    BY <1>1, NextKeeps DEF PInv
<1>3. NextFrame' = NextFrame /\ NextIndex' = NextIndex
    BY <1>1 DEF NextFrame, NextIndex, CameraFrame
<1>4. \A g \in Nat : StartPast(g)' <=> StartPast(g)
    BY <1>3 DEF StartPast
<1>5. FramesKnown' /\ NoFrameTwice' /\ WholeFrames'
    BY <1>1, <1>4, FramesStay
<1>6. ChannelWhole'
    BY <1>1 DEF PInv, ChannelWhole, CameraFrame, Leads
<1>7. PathTypeOK'
    BY <1>1, <1>2 DEF PInv, PathTypeOK, IInv
<1>8. CurrentKnown'
    BY <1>1, <1>3 DEF PInv, CurrentKnown, StartPast, FrameOf, Unmixed, LostIn, Intact, Leading
<1> QED
    BY <1>2, <1>5, <1>6, <1>7, <1>8 DEF PInv

(* The invariant is inductive. *)
LEMMA PathNextKeeps == PInv /\ [PathNext]_allVars => PInv'
BY SendStartKeeps, SendMiddleKeeps, SendEndKeeps, HandleKeeps, LoseKeeps, TimerKeeps,
   StopKeeps, PathStutterKeeps DEF PathNext

LEMMA PathInvariance == PathSpec => []PInv
BY InitPInv, PathNextKeeps, PTL DEF PathSpec

(* Every variable of the video path keeps its type.                        *)
THEOREM PathTypes == PathSpec => []PathTypeOK
<1>1. PInv => PathTypeOK
    BY DEF PInv
<1> QED
    BY PathInvariance, <1>1, PTL

(* handle_video_frame does not look at package ids; still no frame on show *)
(* holds fragments of two frames next to each other unless the end of the  *)
(* first and the start of the second were both lost on the way.            *)
THEOREM NeverMixed == PathSpec => []NoMixedFrames
<1>1. PInv => NoMixedFrames
    BY DEF PInv, FramesKnown, NoMixedFrames, Unmixed, LostIn
<1> QED
    BY PathInvariance, <1>1, PTL

(* Frames are shown in the order the camera sent them, and none twice,     *)
(* although the timer may close a frame whose packets are still coming.    *)
THEOREM NeverTwice == PathSpec => []NoFrameTwice
<1>1. PInv => NoFrameTwice
    BY DEF PInv
<1> QED
    BY PathInvariance, <1>1, PTL

(* A frame that lost no packet and that neither the timer nor a stop cut is *)
(* shown whole, in order and without its size trailer, whatever losses      *)
(* befell the frames around it.                                             *)
THEOREM IntactWhole == PathSpec => []WholeFrames
<1>1. PInv => WholeFrames
    BY DEF PInv
<1> QED
    BY PathInvariance, <1>1, PTL

-----------------------------------------------------------------------------
(* As long as the frame whose packets come next is intact and its start has *)
(* come, it is the one in assembly.                                         *)
IntactOpen ==
    NextIndex > 0 /\ Intact(NextFrame) =>
        current_frame # <<>> /\ current_frame[1].payload.frame = NextFrame

(* A packet that leaves the channel, handled or lost, keeps it so. *)
LEMMA LeavingKeepsOpen ==
    ASSUME PInv, IntactOpen, handle_video_frame \/ Lose
    PROVE  IntactOpen'
<1>1. channel # <<>> /\ channel' = Tail(channel) /\ UNCHANGED <<sent, next, hit>>
    BY DEF handle_video_frame, Lose
<1>2. PICK packet : packet = channel[1] /\ packet = Head(channel)
    BY <1>1, PlaceTypes
<1>3. /\ NextFrame = packet.frame /\ NextIndex = packet.index
      /\ packet.part = "start" <=> packet.index = 0
      /\ Leads(packet, NextFrame', NextIndex')
      /\ packet.frame \in Nat /\ packet.index \in Nat
    BY <1>1, <1>2, HeadLeaves, PlaceTypes
<1>4. CASE packet.part = "end"
    BY <1>3, <1>4 DEF IntactOpen, Leads
<1>5. CASE packet.part # "end"
    <2>1. NextFrame' = NextFrame
        BY <1>3, <1>5 DEF Leads
    <2>2. CASE Lose
        <3>1. ~ Intact(NextFrame)'
            BY <1>2, <1>3, <2>1, <2>2 DEF Lose, Intact
        <3> QED
            BY <3>1 DEF IntactOpen, Intact
    <2>3. CASE handle_video_frame /\ packet.part = "start"
        <3>1. StartNewFrame(packet)
            BY <1>2, <2>3 DEF handle_video_frame
        <3> DEFINE fragment == NextFragment("start", packet)
        <3>2. fragment.payload = packet
            BY DEF NextFragment
        <3> HIDE DEF fragment
        <3>3. current_frame' = <<fragment>>
            BY <3>1 DEF StartNewFrame, fragment
        <3> QED
            BY <1>3, <2>1, <3>2, <3>3 DEF IntactOpen
    <2>4. CASE handle_video_frame /\ packet.part # "start"
        <3>1. AddFrameFragment(packet) /\ UNCHANGED lost
            BY <1>2, <1>5, <2>4 DEF handle_video_frame
        <3>2. NextIndex > 0
            BY <1>3, <2>4
        <3>3. Intact(NextFrame)' => Intact(NextFrame)
            BY <1>1, <2>1, <3>1 DEF Intact
        <3> SUFFICES ASSUME Intact(NextFrame)'
                     PROVE  /\ current_frame' # <<>>
                            /\ current_frame'[1].payload.frame = NextFrame'
            BY DEF IntactOpen
        <3>4. current_frame # <<>> /\ current_frame[1].payload.frame = NextFrame
            BY <3>2, <3>3 DEF IntactOpen
        <3>5. /\ current_frame \in Seq(Fragment)
              /\ Len(current_frame) \in Nat /\ Len(current_frame) >= 1
            BY <3>4, CurrentFrames
        <3> DEFINE fragment == NextFragment("middle", packet)
        <3>6. packet \in Packet
            BY <1>1, <1>2, HeadLeaves
        <3>7. fragment \in Fragment
            BY <3>6, PacketAssumption DEF NextFragment, Fragment, Part, PInv, IInv, TypeOK
        <3>8. current_frame' = Append(current_frame, fragment)
            BY <3>1, <3>4 DEF AddFrameFragment
        <3> HIDE DEF fragment
        <3>9. current_frame' # <<>> /\ current_frame'[1] = current_frame[1]
            BY <3>5, <3>7, <3>8, AppendProperties
        <3> QED
            BY <2>1, <3>4, <3>9
    <2> QED
        BY <2>2, <2>3, <2>4
<1> QED
    BY <1>4, <1>5

(* The timer and a stop hit what is in assembly. *)
LEMMA HitKeepsOpen ==
    ASSUME PInv, IntactOpen, periodic_incomplete_frame_task \/ stop_streaming
    PROVE  IntactOpen'
<1>1. UNCHANGED <<sent, next, channel, lost>> /\ HitAssembly
    BY DEF periodic_incomplete_frame_task, stop_streaming
<1>2. NextFrame' = NextFrame /\ NextIndex' = NextIndex
    BY <1>1 DEF NextFrame, NextIndex, CameraFrame
<1> SUFFICES ASSUME NextIndex > 0, Intact(NextFrame)' PROVE FALSE
    BY <1>2 DEF IntactOpen
<1>3. Intact(NextFrame)
    BY <1>1, <1>2 DEF Intact, HitAssembly
<1>4. current_frame # <<>> /\ current_frame[1].payload.frame = NextFrame
    BY <1>3 DEF IntactOpen
<1>5. 1 \in DOMAIN current_frame
    BY <1>4, CurrentFrames
<1>6. NextFrame \in hit'
    BY <1>1, <1>4, <1>5 DEF HitAssembly
<1> QED
    BY <1>2, <1>6 DEF Intact

(* The camera sends, or nothing happens. *)
LEMMA SendKeepsOpen ==
    ASSUME PInv, IntactOpen, SendStart \/ SendMiddle \/ SendEnd \/ UNCHANGED allVars
    PROVE  IntactOpen'
<1>1. UNCHANGED <<vars, lost, hit>>
    BY DEF SendStart, SendMiddle, SendEnd, allVars, pathVars
<1>2. NextFrame' = NextFrame /\ NextIndex' = NextIndex
    BY SendPlace
<1> QED
    BY <1>1, <1>2 DEF IntactOpen, Intact, vars

LEMMA OpenInvariance == PathSpec => [](PInv /\ IntactOpen)
<1>1. PathInit => IntactOpen
    BY DEF PathInit, IntactOpen, NextIndex
<1>2. PInv /\ IntactOpen /\ [PathNext]_allVars => IntactOpen'
    BY LeavingKeepsOpen, HitKeepsOpen, SendKeepsOpen DEF PathNext
<1> QED
    BY InitPInv, PathNextKeeps, <1>1, <1>2, PTL DEF PathSpec

(* A frame that lost no packet and met neither the timer nor a stop is the  *)
(* newest on show once its end is handled, whatever was in assembly when it *)
(* began and whatever was lost before it.                                   *)
THEOREM IntactShown == PathSpec => ShownAtItsEnd
<1> DEFINE Shown(f) ==
        handle_video_frame /\ Head(channel).part = "end" /\ Head(channel).frame = f
            /\ Intact(f)
        => frames' # <<>> /\ FrameOf(Len(frames))' = f
<1>1. ASSUME PInv, IntactOpen, NEW f \in 1 .. MaxSent,
             handle_video_frame, Head(channel).part = "end", Head(channel).frame = f,
             Intact(f)
      PROVE  frames' # <<>> /\ FrameOf(Len(frames))' = f
    <2>1. channel # <<>> /\ channel' = Tail(channel) /\ UNCHANGED <<sent, next>>
        BY <1>1 DEF handle_video_frame
    <2>2. PICK packet : packet = channel[1] /\ packet = Head(channel)
        BY <2>1, PlaceTypes
    <2>3. /\ packet \in Packet /\ CompleteFrame(packet)
          /\ NextFrame = f /\ NextIndex = packet.index /\ packet.index # 0
          /\ packet.index \in Nat
        BY <1>1, <2>1, <2>2, HeadLeaves, PlaceTypes DEF handle_video_frame
    <2>4. current_frame # <<>> /\ current_frame[1].payload.frame = f
        BY <1>1, <2>3 DEF IntactOpen
    <2>5. /\ current_frame \in Seq(Fragment)
          /\ Len(current_frame) \in Nat /\ Len(current_frame) >= 1
        BY <1>1, <2>4, CurrentFrames
    <2> DEFINE fragment == NextFragment("end", packet)
               more == Append(current_frame, fragment)
               frame == assemble_frame(more)
    <2>6. fragment \in Fragment
        BY <1>1, <2>3, PacketAssumption DEF NextFragment, Fragment, Part, PInv, IInv, TypeOK
    <2>7. add_complete_frame(frame)
        BY <2>3, <2>4 DEF CompleteFrame
    <2> HIDE DEF fragment
    <2>8. more \in Seq(Fragment) /\ more[1] = current_frame[1]
        BY <2>5, <2>6, AppendProperties
    <2> HIDE DEF more
    <2>9. frame \in Frame /\ frame.parts = more
        BY <2>8 DEF assemble_frame, Frame
    <2> HIDE DEF frame
    <2>10. frames \in Seq(Frame) /\ Bounded
        BY <1>1 DEF PInv, IInv, TypeOK
    <2>11. /\ frames' \in Seq(Frame)
           /\ Len(frames') \in 1 .. MaxFrames
           /\ frames'[Len(frames')] = frame
        BY <2>7, <2>9, <2>10, MakeRoom
    <2>12. frames' # <<>>
        BY <2>11
    <2> QED
        BY <2>4, <2>8, <2>9, <2>11, <2>12 DEF FrameOf
<1>2. PInv /\ IntactOpen => \A f \in 1 .. MaxSent : Shown(f)
    BY <1>1
<1>3. PInv /\ IntactOpen /\ [PathNext]_allVars => [\A f \in 1 .. MaxSent : Shown(f)]_allVars
    BY <1>2
<1> QED
    BY OpenInvariance, <1>3, PTL DEF PathSpec, ShownAtItsEnd

(* Camera, network and timer drive the buffer through its own operations   *)
(* only: what is proved of StreamBuffer for any packets holds on the path. *)
THEOREM PathUsesBuffer == PathSpec => Spec
<1>1. PathInit => Init
    BY DEF PathInit
<1>2. PInv /\ [PathNext]_allVars => [Next]_vars
    <2> SUFFICES ASSUME PInv, [PathNext]_allVars PROVE [Next]_vars
        OBVIOUS
    <2>1. CASE SendStart \/ SendMiddle \/ SendEnd \/ Lose
        BY <2>1 DEF SendStart, SendMiddle, SendEnd, Lose
    <2>2. CASE handle_video_frame
        <3>1. Head(channel) \in Payload
            BY <2>2, PlaceTypes, PacketAssumption DEF handle_video_frame
        <3> QED
            BY <2>2, <3>1 DEF handle_video_frame, Next
    <2>3. CASE periodic_incomplete_frame_task
        BY <2>3 DEF periodic_incomplete_frame_task, Next
    <2>4. CASE stop_streaming
        BY <2>4 DEF stop_streaming, Next
    <2>5. CASE UNCHANGED allVars
        BY <2>5 DEF allVars
    <2> QED
        BY <2>1, <2>2, <2>3, <2>4, <2>5 DEF PathNext
<1> QED
    BY PathInvariance, <1>1, <1>2, PTL DEF PathSpec, Spec
=============================================================================
