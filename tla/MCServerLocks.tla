---------------------------- MODULE MCServerLocks ----------------------------
(* Who runs what, for the runs of ServerLocks.  Each run takes the tasks it *)
(* needs; a task runs one job at a time, in any order, for ever.            *)
EXTENDS ServerLocks, TLC

CONSTANTS c1, c2,                       \* cameras
          tcp, udp, udp2, timer, web    \* tasks

OneCamera == <<c1>>
TwoCameras == <<c1, c2>>

MCTopRank == 3

(* ServerProgram with its values worked out once. *)
MCProgram == <<>> @@ ServerProgram

AllJobs == Jobs(Handler, Camera)

(* Every handler: the connection of a camera, a UDP router, its timer, and  *)
(* requests with the tasks they leave behind.                               *)
EveryRuns ==
    tcp :> Jobs(TcpHandlers \cup {"device_info"}, Camera) @@
    udp :> Jobs(UdpHandlers \cup {"frame_end"}, Camera) @@
    timer :> Jobs(TimerHandlers, {c1}) @@
    web :> Jobs(WebHandlers \cup SpawnedHandlers \cup {"camera_info"}, Camera)

(* One handler of each shape that does not nest, for liveness; two cameras  *)
(* for the timer and the list to go through.                                *)
LivenessRuns ==
    tcp :> Jobs({"keepalive", "nat_probe"}, {c1}) @@
    udp :> Jobs({"frame", "udp_heartbeat"}, Camera) @@
    timer :> Jobs(TimerHandlers, {c1}) @@
    web :> Jobs({"list", "stop_task"}, {c1})

(* An end fragment at one router, packets and a heartbeat at another. *)
EndFragmentRuns ==
    udp :> Jobs({"frame", "frame_end"}, {c1}) @@
    udp2 :> Jobs({"frame", "frame_end", "udp_heartbeat"}, {c1})
=============================================================================
