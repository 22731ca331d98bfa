-------------------------- MODULE VideoIngest_proofs --------------------------
(***************************************************************************)
(* Proofs about the retransmission lists of VideoIngest, for any packets   *)
(* in any number.                                                          *)
(*                                                                         *)
(* That the bucket holds what came since the last batch is inductive once  *)
(* the batches are known to lie in the past; that received_packages is     *)
(* whole needs to say what it lacks while an end fragment is under way.    *)
(***************************************************************************)
EXTENDS VideoIngest, SequenceTheorems, TLAPS

(* Batches were taken after no more packets than have come. *)
BatchesPast == \A n \in 1 .. Len(batches) : batches[n].upto \in 0 .. Len(log)

(* While an end fragment is under way, it is the last packet that came and  *)
(* the only one received_packages does not have yet.                        *)
LastLacking ==
    ending # <<>> =>
        /\ Len(log) > 0
        /\ ending = <<log[Len(log)].id>>
        /\ Holds(received_packages, Window(log, 0, Len(log) - 1))

IInv == IngestTypeOK /\ BatchesPast /\ BucketIsWindow /\ LastLacking /\ ReceivedWhole

-----------------------------------------------------------------------------
(* Push adds an id to those a list holds, and to no list twice. *)
LEMMA PushHolds ==
    ASSUME NEW S, NEW list \in Seq(S), NEW id \in S, NEW ids, Holds(list, ids)
    PROVE  Push(list, id) \in Seq(S) /\ Holds(Push(list, id), ids \cup {id})
<1>1. CASE id \in Range(list)
    BY <1>1 DEF Push, Holds
<1>2. CASE id \notin Range(list)
    <2> DEFINE longer == Append(list, id)
    <2>1. /\ longer \in Seq(S)
          /\ DOMAIN list = 1 .. Len(list)
          /\ DOMAIN longer = 1 .. Len(list) + 1
          /\ longer[Len(list) + 1] = id
          /\ \A i \in 1 .. Len(list) : longer[i] = list[i]
          /\ Len(list) \in Nat
        OBVIOUS
    <2>2. Range(longer) = Range(list) \cup {id}
        <3>1. Range(longer) \subseteq Range(list) \cup {id}
            BY <2>1 DEF Range
        <3>2. Range(list) \subseteq Range(longer)
            BY <2>1 DEF Range
        <3>3. id \in Range(longer)
            BY <2>1 DEF Range
        <3> QED
            BY <3>1, <3>2, <3>3
    <2>3. IsInjective(longer)
        <3>1. \A i \in 1 .. Len(list) : list[i] # id
            BY <1>2, <2>1 DEF Range
        <3>2. \A i, j \in DOMAIN list : list[i] = list[j] => i = j
            BY DEF Holds, IsInjective
        <3>3. SUFFICES ASSUME NEW i \in 1 .. Len(list) + 1,
                              NEW j \in 1 .. Len(list) + 1,
                              longer[i] = longer[j]
                       PROVE  i = j
            BY <2>1 DEF IsInjective
        <3> QED
            BY <2>1, <3>1, <3>2, <3>3
    <2> QED
        BY <1>2, <2>1, <2>2, <2>3 DEF Push, Holds
<1> QED
    BY <1>1, <1>2

(* A packet that comes joins the last window and leaves older ones alone. *)
LEMMA WindowGrows ==
    ASSUME NEW packets \in Seq(Logged), NEW packet \in Logged
    PROVE  LET longer == Append(packets, packet) IN
           /\ longer \in Seq(Logged)
           /\ Len(longer) = Len(packets) + 1
           /\ longer[Len(packets) + 1] = packet
           /\ \A m, n \in 0 .. Len(packets) :
                 Window(longer, m, n) = Window(packets, m, n)
           /\ \A m \in 0 .. Len(packets) :
                 Window(longer, m, Len(packets) + 1)
                     = Window(packets, m, Len(packets)) \cup {packet.id}
<1> DEFINE longer == Append(packets, packet)
<1>1. /\ longer \in Seq(Logged)
      /\ Len(packets) \in Nat
      /\ Len(longer) = Len(packets) + 1
      /\ longer[Len(packets) + 1] = packet
      /\ \A s \in 1 .. Len(packets) : longer[s] = packets[s]
    OBVIOUS
<1>2. ASSUME NEW m \in 0 .. Len(packets), NEW n \in 0 .. Len(packets)
      PROVE  Window(longer, m, n) = Window(packets, m, n)
    BY <1>1 DEF Window
<1>3. ASSUME NEW m \in 0 .. Len(packets)
      PROVE  Window(longer, m, Len(packets) + 1)
                 = Window(packets, m, Len(packets)) \cup {packet.id}
    <2>1. m + 1 .. Len(packets) + 1 = (m + 1 .. Len(packets)) \cup {Len(packets) + 1}
        BY <1>1
    <2> QED
        BY <1>1, <2>1 DEF Window
<1> QED
    BY <1>1, <1>2, <1>3
-----------------------------------------------------------------------------
LEMMA Initially == IngestInit => IInv
<1> SUFFICES ASSUME IngestInit PROVE IInv
    OBVIOUS
<1>1. /\ bucket = <<>> /\ received_packages = <<>> /\ log = <<>>
      /\ batches = <<>> /\ ending = <<>>
      /\ confirmed \in Nat /\ first_retransmission_sent \in BOOLEAN
    BY DEF IngestInit
<1>2. Holds(<<>>, {})
    BY DEF Holds, Range, IsInjective
<1>3. Window(log, 0, 0) = {}
    BY DEF Window
<1> QED
    BY <1>1, <1>2, <1>3
    DEF IInv, IngestTypeOK, BatchesPast, BucketIsWindow, LastLacking,
        ReceivedWhole, Upto

(* Older batches keep their windows when packets come and batches are taken. *)
LEMMA BatchesKept ==
    ASSUME IngestTypeOK, BatchesPast, BucketIsWindow,
           NEW packet \in Logged, log' = Append(log, packet),
           batches' = batches
    PROVE  /\ BatchesPast'
           /\ \A n \in 1 .. Len(batches) :
                 Holds(batches[n].ids, Window(log, Upto(n - 1), Upto(n)))'
           /\ Upto(Len(batches)) \in 0 .. Len(log)
           /\ Upto(Len(batches))' = Upto(Len(batches))
<1>1. /\ log \in Seq(Logged) /\ Len(log') = Len(log) + 1 /\ Len(log) \in Nat
      /\ Len(batches) \in Nat
    BY WindowGrows DEF IngestTypeOK
<1>2. \A n \in 0 .. Len(batches) : Upto(n) \in 0 .. Len(log)
    BY <1>1 DEF Upto, BatchesPast
<1>3. \A n \in 0 .. Len(batches) : Upto(n)' = Upto(n)
    BY DEF Upto
<1>4. ASSUME NEW n \in 1 .. Len(batches)
      PROVE  Holds(batches[n].ids, Window(log, Upto(n - 1), Upto(n)))'
    <2>1. n - 1 \in 0 .. Len(batches) /\ n \in 0 .. Len(batches)
        BY <1>1
    <2>2. Window(log', Upto(n - 1), Upto(n)) = Window(log, Upto(n - 1), Upto(n))
        BY <1>1, <1>2, <2>1, WindowGrows
    <2> QED
        BY <1>3, <2>1, <2>2 DEF BucketIsWindow
<1> QED
    BY <1>1, <1>2, <1>3, <1>4 DEF BatchesPast
(* An id pushed with its packet keeps the last window whole. *)
LEMMA BucketFollows ==
    ASSUME IngestTypeOK, BatchesPast, BucketIsWindow,
           NEW kind \in Kind, NEW id \in Payload,
           log' = Append(log, [kind |-> kind, id |-> id])
    PROVE  /\ [kind |-> kind, id |-> id] \in Logged
           /\ Push(bucket, id) \in Seq(Payload)
           /\ Holds(Push(bucket, id),
                    Window(log', Upto(Len(batches)), Len(log) + 1))
<1> DEFINE packet == [kind |-> kind, id |-> id]
<1>1. packet \in Logged /\ packet.id = id
    BY DEF Logged
<1>2. Upto(Len(batches)) \in 0 .. Len(log)
    BY DEF Upto, BatchesPast, IngestTypeOK
<1>3. Window(log', Upto(Len(batches)), Len(log) + 1)
          = Window(log, Upto(Len(batches)), Len(log)) \cup {id}
    BY <1>1, <1>2, WindowGrows DEF IngestTypeOK
<1> QED
    BY <1>1, <1>3, PushHolds DEF BucketIsWindow, IngestTypeOK

(* Likewise the list of all packets. *)
LEMMA ReceivedFollows ==
    ASSUME IngestTypeOK, NEW n \in Nat, Holds(received_packages, Window(log, 0, n)),
           NEW id \in Payload, NEW ids, ids = Window(log, 0, n) \cup {id}
    PROVE  /\ Push(received_packages, id) \in Seq(Payload)
           /\ Holds(Push(received_packages, id), ids)
BY PushHolds DEF IngestTypeOK

LEMMA HandleKeeps ==
    ASSUME IInv, NEW kind \in Kind, NEW id \in Payload, handle_video_frame(kind, id)
    PROVE  IInv'
<1> DEFINE packet == [kind |-> kind, id |-> id]
<1>1. /\ ending = <<>> /\ ending' = <<>>
      /\ log' = Append(log, packet)
      /\ bucket' = Push(bucket, id)
      /\ received_packages' = Push(received_packages, id)
      /\ batches' = batches /\ confirmed' = confirmed
      /\ first_retransmission_sent' = first_retransmission_sent
    BY DEF handle_video_frame, Take, GuardFree
<1>2. /\ packet \in Logged
      /\ bucket' \in Seq(Payload)
      /\ Holds(bucket', Window(log', Upto(Len(batches)), Len(log) + 1))
    BY <1>1, BucketFollows DEF IInv
<1>3. /\ log' \in Seq(Logged) /\ Len(log') = Len(log) + 1
      /\ Window(log', 0, Len(log) + 1) = Window(log, 0, Len(log)) \cup {id}
      /\ Len(log) \in Nat
    <2>1. log \in Seq(Logged) /\ Len(log) \in Nat /\ 0 \in 0 .. Len(log)
        BY DEF IInv, IngestTypeOK
    <2>2. packet.id = id
        OBVIOUS
    <2> QED
        BY <1>1, <1>2, <2>1, <2>2, WindowGrows
<1>4. /\ received_packages' \in Seq(Payload)
      /\ Holds(received_packages', Window(log', 0, Len(log) + 1))
    BY <1>1, <1>3, ReceivedFollows DEF IInv, ReceivedWhole, GuardFree
<1>5. IngestTypeOK'
    BY <1>1, <1>2, <1>3, <1>4 DEF IInv, IngestTypeOK
<1>6. BatchesPast' /\ BucketIsWindow'
    <2>1. /\ BatchesPast'
          /\ \A n \in 1 .. Len(batches) :
                Holds(batches[n].ids, Window(log, Upto(n - 1), Upto(n)))'
          /\ Upto(Len(batches))' = Upto(Len(batches))
        BY <1>1, <1>2, BatchesKept DEF IInv
    <2> QED
        BY <1>1, <1>2, <1>3, <2>1 DEF BucketIsWindow
<1>7. LastLacking' /\ ReceivedWhole'
    BY <1>1, <1>3, <1>4 DEF LastLacking, ReceivedWhole
<1> QED
    BY <1>5, <1>6, <1>7 DEF IInv

(* What both kinds of end fragment do to received_packages: nothing yet. *)
LEMMA EndLacks ==
    ASSUME IInv, NEW kind \in EndFlag, NEW id \in Payload,
           ending = <<>>, ending' = <<id>>,
           log' = Append(log, [kind |-> kind, id |-> id]),
           received_packages' = received_packages
    PROVE  /\ log' \in Seq(Logged) /\ Len(log') = Len(log) + 1
           /\ Len(log) \in Nat
           /\ LastLacking' /\ ReceivedWhole'
<1> DEFINE packet == [kind |-> kind, id |-> id]
<1>1. packet \in Logged /\ packet.id = id
    BY DEF Logged, Kind, Part, EndFlag
<1>2. /\ log' \in Seq(Logged) /\ Len(log') = Len(log) + 1
      /\ log'[Len(log) + 1] = packet
      /\ Len(log) \in Nat
      /\ Window(log', 0, Len(log)) = Window(log, 0, Len(log))
    BY <1>1, WindowGrows DEF IInv, IngestTypeOK
<1>3. Holds(received_packages, Window(log, 0, Len(log)))
    BY DEF IInv, ReceivedWhole, GuardFree
<1>4. ending' # <<>> /\ ending'[1] = id
    OBVIOUS
<1>5. LastLacking'
    BY <1>1, <1>2, <1>3, <1>4 DEF LastLacking
<1> QED
    BY <1>2, <1>4, <1>5 DEF ReceivedWhole, GuardFree

LEMMA FirstEndKeeps ==
    ASSUME IInv, NEW kind \in Kind, NEW id \in Payload, FirstEnd(kind, id)
    PROVE  IInv'
<1> DEFINE packet == [kind |-> kind, id |-> id]
<1>1. /\ ending = <<>> /\ ending' = <<id>>
      /\ log' = Append(log, packet)
      /\ bucket' = Push(bucket, id)
      /\ received_packages' = received_packages
      /\ batches' = batches /\ confirmed' = confirmed
      /\ first_retransmission_sent' \in BOOLEAN
      /\ kind \in EndFlag
    BY DEF FirstEnd, Take, GuardFree
<1>2. /\ packet \in Logged
      /\ bucket' \in Seq(Payload)
      /\ Holds(bucket', Window(log', Upto(Len(batches)), Len(log) + 1))
    BY <1>1, BucketFollows DEF IInv
<1>3. /\ log' \in Seq(Logged) /\ Len(log') = Len(log) + 1
      /\ LastLacking' /\ ReceivedWhole'
    BY <1>1, EndLacks
<1>4. ending' \in Seq(Payload)
    BY <1>1
<1>5. IngestTypeOK'
    BY <1>1, <1>2, <1>3, <1>4 DEF IInv, IngestTypeOK
<1>6. BatchesPast' /\ BucketIsWindow'
    <2>1. /\ BatchesPast'
          /\ \A n \in 1 .. Len(batches) :
                Holds(batches[n].ids, Window(log, Upto(n - 1), Upto(n)))'
          /\ Upto(Len(batches))' = Upto(Len(batches))
        BY <1>1, <1>2, BatchesKept DEF IInv
    <2> QED
        BY <1>1, <1>2, <1>3, <2>1 DEF BucketIsWindow
<1> QED
    BY <1>3, <1>5, <1>6 DEF IInv
(* The bucket becomes the newest batch, and the window after it is empty. *)
LEMMA LaterEndKeeps ==
    ASSUME IInv, NEW kind \in Kind, NEW id \in Payload, LaterEnd(kind, id)
    PROVE  IInv'
<1> DEFINE packet == [kind |-> kind, id |-> id]
           batch == [ids |-> Push(bucket, id), upto |-> Len(log) + 1]
<1> PICK k : k = Len(batches)
    OBVIOUS
<1>1. /\ ending = <<>> /\ ending' = <<id>>
      /\ log' = Append(log, packet)
      /\ bucket' = <<>>
      /\ received_packages' = received_packages
      /\ batches' = Append(batches, batch) /\ confirmed' = confirmed
      /\ first_retransmission_sent' = first_retransmission_sent
      /\ kind \in EndFlag
    BY DEF LaterEnd, Take, GuardFree
<1>2. /\ packet \in Logged
      /\ Push(bucket, id) \in Seq(Payload)
      /\ Holds(Push(bucket, id), Window(log', Upto(k), Len(log) + 1))
    BY <1>1, BucketFollows DEF IInv
<1>3. /\ log' \in Seq(Logged) /\ Len(log') = Len(log) + 1
      /\ Len(log) \in Nat
      /\ LastLacking' /\ ReceivedWhole'
    BY <1>1, EndLacks
<1>4. ending' \in Seq(Payload) /\ batch \in Batch
    BY <1>1, <1>2, <1>3 DEF Batch
<1>5. /\ batches' \in Seq(Batch)
      /\ k \in Nat /\ Len(batches') = k + 1
      /\ batches'[k + 1] = batch
      /\ \A n \in 1 .. k : batches'[n] = batches[n]
    BY <1>1, <1>4 DEF IInv, IngestTypeOK
<1>6. IngestTypeOK'
    BY <1>1, <1>3, <1>4, <1>5 DEF IInv, IngestTypeOK
<1>7. \A n \in 0 .. k : Upto(n) \in 0 .. Len(log) /\ Upto(n)' = Upto(n)
    BY <1>3, <1>5 DEF Upto, IInv, BatchesPast
<1>8. Upto(k + 1)' = Len(log) + 1
    BY <1>5 DEF Upto
<1>9. BatchesPast'
    BY <1>3, <1>5 DEF IInv, BatchesPast
<1>10. ASSUME NEW n \in 1 .. k + 1
       PROVE  Holds(batches'[n].ids, Window(log', Upto(n - 1)', Upto(n)'))
    <2>1. CASE n = k + 1
        <3>1. n - 1 = k /\ k \in 0 .. k
            BY <1>5, <2>1
        <3>2. Upto(n - 1)' = Upto(k) /\ Upto(n)' = Len(log) + 1
            BY <1>7, <1>8, <2>1, <3>1
        <3> QED
            BY <1>2, <1>5, <2>1, <3>2
    <2>2. CASE n \in 1 .. k
        <3>1. n - 1 \in 0 .. k /\ n \in 0 .. k
            BY <1>5, <2>2
        <3>2. Window(log', Upto(n - 1), Upto(n)) = Window(log, Upto(n - 1), Upto(n))
            <4>1. log \in Seq(Logged)
                BY DEF IInv, IngestTypeOK
            <4>2. Upto(n - 1) \in 0 .. Len(log) /\ Upto(n) \in 0 .. Len(log)
                BY <1>7, <3>1
            <4> QED
                BY <1>1, <1>2, <4>1, <4>2, WindowGrows
        <3> QED
            BY <1>5, <1>7, <2>2, <3>1, <3>2 DEF IInv, BucketIsWindow
    <2> QED
        BY <1>5, <2>1, <2>2
<1>11. Holds(bucket', Window(log', Len(log) + 1, Len(log) + 1))
    <2>1. Len(log) + 1 + 1 .. Len(log) + 1 = {}
        BY <1>3
    <2>2. Window(log', Len(log) + 1, Len(log) + 1) = {}
        BY <2>1 DEF Window
    <2> QED
        BY <1>1, <2>2 DEF Holds, Range, IsInjective
<1>12. BucketIsWindow'
    BY <1>3, <1>5, <1>8, <1>10, <1>11 DEF BucketIsWindow
<1> QED
    BY <1>3, <1>6, <1>9, <1>12 DEF IInv

(* The end fragment's id joins received_packages, sent or not. *)
LEMMA ConfirmKeeps ==
    ASSUME IInv, Confirm
    PROVE  IInv'
<1>1. /\ ending # <<>> /\ ending' = <<>>
      /\ log' = log /\ bucket' = bucket /\ batches' = batches
      /\ first_retransmission_sent' = first_retransmission_sent
      /\ received_packages' = Push(received_packages, ending[1])
      /\ confirmed' \in Nat
    BY DEF Confirm, GuardFree, IInv, IngestTypeOK
<1> DEFINE last == log[Len(log)]
<1>2. /\ log \in Seq(Logged) /\ Len(log) \in Nat /\ Len(log) > 0
      /\ ending[1] = last.id /\ last.id \in Payload
      /\ Holds(received_packages, Window(log, 0, Len(log) - 1))
    BY <1>1 DEF IInv, IngestTypeOK, LastLacking, Logged
<1>3. Window(log, 0, Len(log)) = Window(log, 0, Len(log) - 1) \cup {last.id}
    <2>1. 0 + 1 .. Len(log) = (0 + 1 .. Len(log) - 1) \cup {Len(log)}
        BY <1>2
    <2> QED
        BY <2>1 DEF Window
<1>4. /\ received_packages' \in Seq(Payload)
      /\ Holds(received_packages', Window(log, 0, Len(log)))
    <2>1. Len(log) - 1 \in Nat
        BY <1>2
    <2> QED
        BY <1>1, <1>2, <1>3, <2>1, ReceivedFollows DEF IInv
<1>5. IngestTypeOK'
    BY <1>1, <1>4 DEF IInv, IngestTypeOK
<1>6. BatchesPast' /\ BucketIsWindow'
    BY <1>1 DEF IInv, BatchesPast, BucketIsWindow, Upto
<1>7. LastLacking' /\ ReceivedWhole'
    BY <1>1, <1>4 DEF LastLacking, ReceivedWhole
<1> QED
    BY <1>5, <1>6, <1>7 DEF IInv

(* Starting and stopping the stream and the timer leave the lists alone. *)
LEMMA OthersKeep ==
    ASSUME IInv, first_retransmission_sent' \in BOOLEAN,
           UNCHANGED <<bucket, received_packages, ending, confirmed, log, batches>>
    PROVE  IInv'
BY DEF IInv, IngestTypeOK, BatchesPast, BucketIsWindow, Upto, LastLacking,
       ReceivedWhole, GuardFree

(* ListsInvariant: what handle_video_frame keeps true of its two lists of   *)
(* packages, the batches taken and the end fragment under way.              *)
THEOREM ListsInvariant == IngestSpec => []IInv
<1>1. ASSUME IInv, [IngestNext]_allVars
      PROVE  IInv'
    <2>1. CASE \E kind \in Kind, id \in Payload : handle_video_frame(kind, id)
        BY <1>1, <2>1, HandleKeeps
    <2>2. CASE \E kind \in Kind, id \in Payload : FirstEnd(kind, id)
        BY <1>1, <2>2, FirstEndKeeps
    <2>3. CASE \E kind \in Kind, id \in Payload : LaterEnd(kind, id)
        BY <1>1, <2>3, LaterEndKeeps
    <2>4. CASE Confirm
        BY <1>1, <2>4, ConfirmKeeps
    <2>5. CASE StartStreaming
        BY <1>1, <2>5, OthersKeep DEF StartStreaming
    <2>6. CASE StopStreaming \/ periodic_incomplete_frame_task \/ UNCHANGED allVars
        <3>1. UNCHANGED ingestVars /\ first_retransmission_sent \in BOOLEAN
            BY <1>1, <2>6
            DEF StopStreaming, periodic_incomplete_frame_task, allVars, IInv,
                IngestTypeOK
        <3> QED
            BY <1>1, <3>1, OthersKeep DEF ingestVars
    <2> QED
        BY <1>1, <2>1, <2>2, <2>3, <2>4, <2>5, <2>6 DEF IngestNext
<1> QED
    BY <1>1, Initially, PTL DEF IngestSpec

-----------------------------------------------------------------------------
(* EveryPackageInOneBatch: whatever packets come, and however often the     *)
(* stream is started and stopped, each batch taken from the bucket has the  *)
(* ids of the packets since the batch before it, each once, and the bucket  *)
(* the rest.                                                                *)
THEOREM EveryPackageInOneBatch == IngestSpec => []BucketIsWindow
<1>1. IInv => BucketIsWindow
    BY DEF IInv
<1> QED
    BY <1>1, ListsInvariant, PTL

(* ReceivedAgrees: the second list of packages never loses one, though it   *)
(* is written only after an attempt to send that may fail.                  *)
THEOREM ReceivedAgrees == IngestSpec => []ReceivedWhole
<1>1. IInv => ReceivedWhole
    BY DEF IInv
<1> QED
    BY <1>1, ListsInvariant, PTL
===============================================================================
