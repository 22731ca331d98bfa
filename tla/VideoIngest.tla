----------------------------- MODULE VideoIngest -----------------------------
(***************************************************************************)
(* handle_video_frame of src/router/udp.rs as a whole: besides feeding the *)
(* StreamBuffer it keeps the list of package ids that a CMD 605 message is *)
(* to confirm when a frame ends.  The handler holds the camera's write     *)
(* guard from the first to the last line; only an end fragment gives way   *)
(* while it does, for it awaits the manager before it sends.  So any other *)
(* packet is one step and an end fragment two, and between the two nothing *)
(* else gets at the camera: the other routers and start_streaming wait for *)
(* the guard, the timer and stop_streaming try for it and pass on.         *)
(*                                                                         *)
(* A packet's payload is its package id.  Audio and the like (cmd 4, 6 and *)
(* 7) come here as well: the buffer ignores them, the lists do not, and    *)
(* msg_flag 252 is an end whatever the cmd.                                *)
(***************************************************************************)
EXTENDS StreamBuffer, FiniteSets, Functions

VARIABLES
    bucket,                     \* retransmission_bucket
    first_retransmission_sent,
    received_packages,
    ending,     \* <<id>> of the end fragment whose handler holds the guard
    confirmed,  \* ghost: number of CMD 605 messages sent for end fragments
    log,        \* ghost: the packets handled, in order
    batches     \* ghost: what was taken out of the bucket, and after how many packets

ingestVars == <<bucket, first_retransmission_sent, received_packages, ending,
                confirmed, log, batches>>
allVars == <<vars, ingestVars>>

GuardFree == ending = <<>>

(* A packet by its cmd and msg_flag: "other" and "other-end" are not cmd 1. *)
Kind == Part \cup {"other", "other-end"}
EndFlag == {"end", "other-end"}
Logged == [kind : Kind, id : Payload]
Batch == [ids : Seq(Payload), upto : Nat]

(* Of the variables StreamBuffer does not have. *)
IngestTypeOK ==
    /\ bucket \in Seq(Payload)
    /\ first_retransmission_sent \in BOOLEAN
    /\ received_packages \in Seq(Payload)
    /\ ending \in Seq(Payload)
    /\ confirmed \in Nat
    /\ log \in Seq(Logged)
    /\ batches \in Seq(Batch)

-----------------------------------------------------------------------------
(* add_to_retransmission_bucket and add_received_package *)
Push(list, id) == IF id \in Range(list) THEN list ELSE Append(list, id)

(* add_fragment: the match on cmd and msg_flag. *)
add_fragment(kind, id) ==
    \/ kind = "start" /\ StartNewFrame(id)
    \/ kind = "middle" /\ AddFrameFragment(id)
    \/ kind = "end" /\ CompleteFrame(id)
    \/ kind \in {"other", "other-end"} /\ OtherPacket

(* What handle_video_frame does with every packet before it looks at its    *)
(* msg_flag, but for the bucket.                                            *)
Take(kind, id) ==
    /\ GuardFree
    /\ add_fragment(kind, id)
    /\ log' = Append(log, [kind |-> kind, id |-> id])

handle_video_frame(kind, id) ==
    /\ kind \notin EndFlag
    /\ Take(kind, id)
    /\ bucket' = Push(bucket, id)
    /\ received_packages' = Push(received_packages, id)
    /\ UNCHANGED <<first_retransmission_sent, ending, confirmed, batches>>

(* The first end fragment since streaming was started: an empty             *)
(* confirmation is due, and the bucket goes on filling.                     *)
FirstEnd(kind, id) ==
    /\ kind \in EndFlag
    /\ ~ first_retransmission_sent
    /\ Take(kind, id)
    /\ first_retransmission_sent' = TRUE
    /\ bucket' = Push(bucket, id)
    /\ ending' = <<id>>
    /\ UNCHANGED <<received_packages, confirmed, batches>>

(* mutant: the bucket is copied and not cleared *)
LaterEndKeepsBucket(kind, id) ==
    /\ kind \in EndFlag
    /\ first_retransmission_sent
    /\ Take(kind, id)
    /\ bucket' = Push(bucket, id)
    /\ batches' = Append(batches, [ids |-> Push(bucket, id), upto |-> Len(log) + 1])
    /\ ending' = <<id>>
    /\ UNCHANGED <<first_retransmission_sent, received_packages, confirmed>>

(* Any later end fragment: get_and_clear_retransmission_bucket, which is    *)
(* never empty as it has the end's own id.                                  *)
LaterEnd(kind, id) ==
    /\ kind \in EndFlag
    /\ first_retransmission_sent
    /\ Take(kind, id)
    /\ bucket' = <<>>
    /\ batches' = Append(batches, [ids |-> Push(bucket, id), upto |-> Len(log) + 1])
    /\ ending' = <<id>>
    /\ UNCHANGED <<first_retransmission_sent, received_packages, confirmed>>

(* try_read on the camera, by a task that awaited the manager in between:   *)
(* it succeeds unless somebody holds the camera's write guard.              *)
TryRead == GuardFree

(* mutant: a failed confirmation ends the handler, as ? would *)
ConfirmAndGo ==
    /\ ~ GuardFree
    /\ ending' = <<>>
    /\ UNCHANGED <<vars, confirmed, received_packages, bucket,
                   first_retransmission_sent, log, batches>>

(* send_empty_ and send_batch_retransmission_confirmation once the manager  *)
(* is theirs: without a port found for the camera nothing is sent and only  *)
(* a warning logged.  Then the rest of handle_video_frame.                  *)
Confirm ==
    /\ ~ GuardFree
    /\ confirmed' = IF TryRead THEN confirmed + 1 ELSE confirmed
    /\ received_packages' = Push(received_packages, ending[1])
    /\ ending' = <<>>
    /\ UNCHANGED <<vars, bucket, first_retransmission_sent, log, batches>>

(* start_streaming_for_camera *)
StartStreaming ==
    /\ GuardFree
    /\ first_retransmission_sent' = FALSE
    /\ UNCHANGED <<vars, bucket, received_packages, ending, confirmed, log, batches>>

(* stop_streaming, when its try_write gets the guard: the frames go, what   *)
(* is kept for retransmission stays.                                        *)
StopStreaming ==
    /\ GuardFree
    /\ Clear
    /\ UNCHANGED ingestVars

periodic_incomplete_frame_task ==
    /\ GuardFree
    /\ CompleteIncompleteFrame
    /\ UNCHANGED ingestVars

IngestInit ==
    /\ Init
    /\ bucket = <<>>
    /\ first_retransmission_sent = FALSE
    /\ received_packages = <<>>
    /\ ending = <<>>
    /\ confirmed = 0
    /\ log = <<>>
    /\ batches = <<>>

IngestNext ==
    \/ \E kind \in Kind, id \in Payload : handle_video_frame(kind, id)
    \/ \E kind \in Kind, id \in Payload : FirstEnd(kind, id)
    \/ \E kind \in Kind, id \in Payload : LaterEnd(kind, id)
    \/ Confirm
    \/ StartStreaming
    \/ StopStreaming
    \/ periodic_incomplete_frame_task

IngestSpec == IngestInit /\ [][IngestNext]_allVars

-----------------------------------------------------------------------------
(* The ids of packets[m + 1] to packets[n]. *)
Window(packets, m, n) == {packets[s].id : s \in m + 1 .. n}

(* How many packets had come when batch n was taken; none before the first. *)
Upto(n) == IF n = 0 THEN 0 ELSE batches[n].upto

Holds(list, ids) == Range(list) = ids /\ IsInjective(list)

(* BucketIsWindow: each batch taken from the bucket has exactly the ids of  *)
(* the packets since the batch before it, each once, and the bucket those   *)
(* that came since the last batch: whatever ends, starts and stops come in  *)
(* between.  This is about what is taken; it is not sent (ingest_confirm),  *)
(* and is then gone.  Batches do not follow the ends: the first end after   *)
(* a start takes none, so that the next batch has the ids of two frames.    *)
BucketIsWindow ==
    /\ \A n \in 1 .. Len(batches) :
          Holds(batches[n].ids, Window(log, Upto(n - 1), Upto(n)))
    /\ Holds(bucket, Window(log, Upto(Len(batches)), Len(log)))

(* ReceivedWhole: received_packages, the second list of the same packets,   *)
(* agrees with the first: whenever no handler is under way it has every id  *)
(* that is in the bucket or was in a batch, also when the confirmation of   *)
(* an end fragment could not be sent.                                       *)
ReceivedWhole ==
    GuardFree => Holds(received_packages, Window(log, 0, Len(log)))

(* EndFramesConfirmed: what README.md says of the retransmission system:    *)
(* an end frame is answered with CMD 605, the first with an empty list and  *)
(* later ones with the ids collected.                                       *)
EndFramesConfirmed ==
    GuardFree =>
        confirmed >= Cardinality({s \in DOMAIN log : log[s].kind = "end"})
=============================================================================
