------------------------------ MODULE FrameLog ------------------------------
(***************************************************************************)
(* What the stream buffer of one camera promises to those who read it: a   *)
(* bounded log of frames, each covering an interval of packet arrivals.    *)
(* Intervals are published in arrival order and never overlap, so that no  *)
(* packet is shown twice and the picture never goes back in time; when the *)
(* log is full its oldest entry makes room.                                *)
(***************************************************************************)
EXTENDS Integers, Sequences

CONSTANT
    Capacity    \* frames kept, at least one

VARIABLES
    log,        \* the published intervals <<first, last>>, oldest first
    closed,     \* no arrival up to this one can enter a later frame
    clock       \* packets arrived so far

logVars == <<log, closed, clock>>

(* The log with one more entry, the oldest gone if it was full. *)
Keep(entries, entry) ==
    IF Len(entries) < Capacity THEN Append(entries, entry)
                               ELSE Append(Tail(entries), entry)

LogInit ==
    /\ log = <<>>
    /\ closed = 0
    /\ clock = 0

(* Packets arrive, and some are given up for good; no frame is published. *)
Advance ==
    /\ clock' \in {clock, clock + 1}
    /\ closed' \in closed .. clock'
    /\ UNCHANGED log

(* A frame is published that covers arrivals not yet closed. *)
Publish ==
    /\ clock' \in {clock, clock + 1}
    /\ closed' = clock'
    /\ \E first, last \in closed + 1 .. clock' :
          /\ first < last
          /\ log' = Keep(log, <<first, last>>)

(* The log is emptied, and what was being assembled with it. *)
Forget ==
    /\ log' = <<>>
    /\ closed' = clock
    /\ UNCHANGED clock

LogNext == Advance \/ Publish \/ Forget

LogSpec == LogInit /\ [][LogNext]_logVars

(* LogOrdered: what a reader relies on.  The published intervals follow one *)
(* another, nothing closed is published again, and the log stays bounded.   *)
LogOrdered ==
    /\ \A i \in 1 .. Len(log) : log[i][1] < log[i][2] /\ log[i][2] <= closed
    /\ \A i, j \in 1 .. Len(log) : i < j => log[i][2] < log[j][1]
    /\ closed <= clock
    /\ Len(log) <= Capacity
=============================================================================
