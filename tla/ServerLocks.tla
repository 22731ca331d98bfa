----------------------------- MODULE ServerLocks -----------------------------
(***************************************************************************)
(* The handlers of the server as programs over its locks:                  *)
(*   Mgr        the RwLock around CameraManager, shared by everything,     *)
(*   Cam(c)     the RwLock around the CameraConnection of camera c,        *)
(*   Socket(c)  the Mutex around the write half of c's TCP connection.     *)
(* Program, Lock and Rank of LockDiscipline are given these values; which  *)
(* task runs which handler is left to the model.                           *)
(*                                                                         *)
(* What a handler computes, and its UDP and channel I/O, are left out: no  *)
(* lock is asked for or dropped there.  A camera in the map is never taken *)
(* out again (remove_camera has no caller), so a handler finds it; a       *)
(* request for a device id no camera has ends where its search ends, with  *)
(* no other guard than those of a search that finds one.                   *)
(***************************************************************************)
EXTENDS LockDiscipline

CONSTANTS
    CameraSeq       \* the cameras in the order the HashMap iterates over them

Camera == Elements(CameraSeq)
Mgr == <<"manager">>
Cam(c) == <<"camera", c>>
Socket(c) == <<"socket", c>>

ServerLock == {Mgr} \cup {Cam(c) : c \in Camera} \cup {Socket(c) : c \in Camera}
ServerRank == [l \in ServerLock |->
                  IF l = Mgr THEN 1 ELSE IF l[1] = "camera" THEN 2 ELSE 3]

ASSUME CameraAssumption == CameraSeq \in Seq(Camera)

-----------------------------------------------------------------------------
(* Guards, by lock, mode and how they are asked for. *)
Ask(lock, mode, how) == [lock |-> lock, mode |-> mode, how |-> how, nest |-> 0]
Rm == Ask(Mgr, "R", "await")
Wm == Ask(Mgr, "W", "await")
Rc(c) == Ask(Cam(c), "R", "await")
Wc(c) == Ask(Cam(c), "W", "await")
Ls(c) == Ask(Socket(c), "W", "await")
LsIfConnected(c) == Ask(Socket(c), "W", "maybe")
Nested(g) == [g EXCEPT !.nest = 1]

(* Steps: hold exactly these guards, write while holding them. *)
Hold(guards) == [held |-> guards, io |-> "none"]
Send(guards, io) == [held |-> guards, io |-> io]

(* mutant: the guard is a temporary of the first write *)
TwoGuards(guards) == <<Send(guards, "header"), Hold({}), Send({}, "message")>>

(* A message goes out in one write_all, or as header and body. *)
OneWrite(guards) == <<Send(guards, "message")>>
TwoWrites(guards) == <<Send(guards, "header"), Send(guards, "message")>>

(* A guard and its scope, and a second one inside the scope of a first. *)
Scope(g) == <<Hold({g}), Hold({})>>
Inside(g, h) == <<Hold({g}), Hold({g, h}), Hold({})>>

(* write().await on the manager, then on the camera, and drop both: how     *)
(* every handler changes a camera.                                          *)
WriteCamera(c) == Inside(Wm, Wc(c))

(* read().await on both and, if connected, lock the socket and answer while *)
(* holding all three.                                                       *)
Answer(c, writes) ==
    LET all == {Rm, Rc(c), LsIfConnected(c)}
    IN  <<Hold({Rm}), Hold({Rm, Rc(c)}), Hold(all)>> \o writes \o <<Hold({})>>

(* Clone tcp_conn under both read locks, drop them, then lock the socket. *)
CloneConn(c) == Inside(Rm, Rc(c))
SendOnClone(c, how, writes) ==
    <<Hold({Ask(Socket(c), "W", how)})>> \o writes \o <<Hold({})>>

(* A handler that goes through the cameras with the manager in hand: for    *)
(* each, one guard taken and dropped.                                       *)
Visit(manager, guards) ==
    [i \in 1 .. 2 * Len(guards) + 1 |->
        Hold(IF i % 2 = 1 THEN {manager} ELSE {manager, guards[i \div 2]})]

(* The search for a camera comes to its end there. *)
Index(c) == CHOOSE i \in 1 .. Len(CameraSeq) : CameraSeq[i] = c

-----------------------------------------------------------------------------
(* tcp.rs: the task of a connection and what it is sent *)
ConnectionOpen(c) == WriteCamera(c)
ConnectionClose(c) == WriteCamera(c)

handle_registration(c) ==
    WriteCamera(c) \o Answer(c, OneWrite({Rm, Rc(c), LsIfConnected(c)})) \o WriteCamera(c)

handle_snapshot_request(c) ==
    Answer(c, OneWrite({Rm, Rc(c), LsIfConnected(c)})) \o WriteCamera(c)

(* The camera's state is written inside the scope of the read guards. *)
handle_device_info_request(c) ==
    LET all == {Rm, Rc(c), LsIfConnected(c)} IN
    <<Hold({Rm}), Hold({Rm, Rc(c)}), Hold(all)>> \o TwoWrites(all) \o
    <<Hold(all \cup {Nested(Wm)}),
      Hold(all \cup {Nested(Wm), Nested(Wc(c))}),
      Hold({})>>

handle_nat_probe_response(c) ==
    LET held == {LsIfConnected(c)} IN
    CloneConn(c) \o
    SendOnClone(c, "maybe", TwoWrites(held) \o TwoWrites(held) \o TwoWrites(held)) \o
    WriteCamera(c)

send_streaming_command(c) ==
    CloneConn(c) \o SendOnClone(c, "maybe", TwoWrites({LsIfConnected(c)}))

send_stop_streaming_command(c) ==
    CloneConn(c) \o SendOnClone(c, "maybe", TwoWrites({LsIfConnected(c)}))

handle_streaming_request(c) ==
    Answer(c, OneWrite({Rm, Rc(c), LsIfConnected(c)})) \o WriteCamera(c)

handle_heartbeat(c) == WriteCamera(c)

handle_keepalive(c) == Answer(c, OneWrite({Rm, Rc(c), LsIfConnected(c)}))

(* The manager is let go of before the camera is asked for. *)
handle_video_frame_tcp(c) == Scope(Wm) \o Scope(Wc(c))

(* Called by the web server, on a task of its own. *)
start_streaming_for_camera(c) ==
    Answer(c, TwoWrites({Rm, Rc(c), LsIfConnected(c)})) \o WriteCamera(c)

-----------------------------------------------------------------------------
(* udp.rs: datagrams, and the task that runs every 500 ms *)
handle_video_frame(c) == Scope(Wm) \o Scope(Wc(c))

(* An end fragment: send_empty_ or send_batch_retransmission_confirmation   *)
(* reads the manager and tries the camera, which the caller holds.          *)
handle_video_frame_end(c) ==
    LET try == Ask(Cam(c), "R", "try") IN
    Scope(Wm) \o
    <<Hold({Wc(c)}), Hold({Wc(c), Rm}), Hold({Wc(c), Rm, try}),
      Hold({Wc(c), Rm}), Hold({Wc(c)}), Hold({})>>

handle_udp_probe(c) == WriteCamera(c)
handle_code51_response(c) == Scope(Wm) \o Scope(Wc(c))

(* mutant: the camera is locked before it is looked up *)
HeartbeatCameraFirst(c) == Inside(Wc(c), Wm)

handle_udp_heartbeat(c) == WriteCamera(c)

(* mutant: write().await for try_write(), and the manager once more for each *)
TimerNests ==
    Visit(Wm, [i \in 1 .. Len(CameraSeq) |-> Nested(Rm)]) \o <<Hold({})>>

periodic_incomplete_frame_task ==
    Visit(Wm, [i \in 1 .. Len(CameraSeq) |-> Ask(Cam(CameraSeq[i]), "W", "try")]) \o
    <<Hold({})>>

-----------------------------------------------------------------------------
(* camera_endpoints.rs: HTTP requests, and the tasks they leave behind *)
list_cameras ==
    Visit(Rm, [i \in 1 .. Len(CameraSeq) |-> Rc(CameraSeq[i])]) \o <<Hold({})>>

(* get_video_stream, get_mjpeg_stream and debug_buffer alike *)
get_video_stream(c) ==
    Visit(Rm, [i \in 1 .. Index(c) |-> Rc(CameraSeq[i])]) \o <<Hold({})>>

(* The manager is read a second time while the first guard is still held. *)
get_camera_info(c) ==
    LET try == Ask(Cam(c), "R", "try") IN
    Visit(Rm, [i \in 1 .. Index(c) |-> Rc(CameraSeq[i])]) \o
    <<Hold({Rm, Nested(Rm)}), Hold({Rm, Nested(Rm), try}),
      Hold({Rm, Nested(Rm)}), Hold({})>>

(* Finding the camera of a device id: cameras that are busy are passed over *)
(* and not found.                                                           *)
FindDevice(c) ==
    LET how(i) == IF i = Index(c) THEN "need" ELSE "try"
    IN  Visit(Rm, [i \in 1 .. Index(c) |-> Ask(Cam(CameraSeq[i]), "R", how(i))]) \o
        <<Hold({})>>

(* Then its connection, and 500 if that is not to be had at once. *)
TryClone(c) == Inside(Rm, Ask(Cam(c), "R", "need"))

start_streaming(c) == FindDevice(c) \o TryClone(c)
trigger_snapshot(c) == FindDevice(c) \o TryClone(c)
stop_streaming(c) == FindDevice(c)

(* The task stop_streaming spawns: reset the camera if nothing is in the    *)
(* way, then tell the camera, if nothing is in the way.                     *)
StopStreamingTask(c) ==
    Inside(Ask(Mgr, "W", "try"), Ask(Cam(c), "W", "try")) \o
    Inside(Ask(Mgr, "R", "need"), Ask(Cam(c), "R", "need")) \o
    SendOnClone(c, "maybe", OneWrite({LsIfConnected(c)}))

(* The task trigger_snapshot spawns. *)
send_tcp_message(c) == SendOnClone(c, "await", OneWrite({Ls(c)}))

-----------------------------------------------------------------------------
(* A job is a handler at work for a camera. *)
TcpHandlers == {"open", "close", "registration", "snapshot", "nat_probe",
    "send_streaming", "send_stop", "streaming_request", "heartbeat", "keepalive",
    "tcp_frame"}
UdpHandlers == {"frame", "probe", "code51", "udp_heartbeat"}
WebHandlers == {"list", "video", "start", "trigger", "stop"}
SpawnedHandlers == {"start_task", "stop_task", "snapshot_task"}
TimerHandlers == {"incomplete"}
NestedHandlers == {"device_info", "frame_end", "camera_info"}

Handler == TcpHandlers \cup UdpHandlers \cup WebHandlers \cup SpawnedHandlers
           \cup TimerHandlers \cup NestedHandlers
Jobs(handlers, cameras) == [handler : handlers, camera : cameras]

ProgramOf(h, c) ==
    CASE h = "open" -> ConnectionOpen(c)
      [] h = "close" -> ConnectionClose(c)
      [] h = "registration" -> handle_registration(c)
      [] h = "snapshot" -> handle_snapshot_request(c)
      [] h = "device_info" -> handle_device_info_request(c)
      [] h = "nat_probe" -> handle_nat_probe_response(c)
      [] h = "send_streaming" -> send_streaming_command(c)
      [] h = "send_stop" -> send_stop_streaming_command(c)
      [] h = "streaming_request" -> handle_streaming_request(c)
      [] h = "heartbeat" -> handle_heartbeat(c)
      [] h = "keepalive" -> handle_keepalive(c)
      [] h = "tcp_frame" -> handle_video_frame_tcp(c)
      [] h = "start_task" -> start_streaming_for_camera(c)
      [] h = "frame" -> handle_video_frame(c)
      [] h = "frame_end" -> handle_video_frame_end(c)
      [] h = "probe" -> handle_udp_probe(c)
      [] h = "code51" -> handle_code51_response(c)
      [] h = "udp_heartbeat" -> handle_udp_heartbeat(c)
      [] h = "incomplete" -> periodic_incomplete_frame_task
      [] h = "list" -> list_cameras
      [] h = "video" -> get_video_stream(c)
      [] h = "camera_info" -> get_camera_info(c)
      [] h = "start" -> start_streaming(c)
      [] h = "trigger" -> trigger_snapshot(c)
      [] h = "stop" -> stop_streaming(c)
      [] h = "stop_task" -> StopStreamingTask(c)
      [] h = "snapshot_task" -> send_tcp_message(c)

ServerProgram == [j \in Job |-> ProgramOf(j.handler, j.camera)]

ASSUME ServerAssumption ==
    /\ Job \subseteq Jobs(Handler, Camera)
    /\ Program = ServerProgram
    /\ Lock = ServerLock
    /\ Rank = ServerRank

-----------------------------------------------------------------------------
(* t has sent the header of a message to c and not its body. *)
MidMessage(t, c) ==
    /\ job[t] # Idle /\ job[t].camera = c
    /\ \E i \in 1 .. at[t] :
          /\ Program[job[t]][i].io = "header"
          /\ \A k \in i + 1 .. at[t] : Program[job[t]][k].io = "none"

(* t is about to write to c and nothing keeps it from doing so. *)
ReadyToWrite(t, c) ==
    /\ job[t] # Idle /\ job[t].camera = c
    /\ Asked(t) = {}
    /\ Program[job[t]][at[t] + 1].io # "none"

(* OnlyNestedOutOfOrder: of all handlers, whatever runs beside them, just   *)
(* three wait for a lock against the order of manager, camera, socket, each *)
(* at one place: device info asks for the manager while it reads it, an end *)
(* fragment asks for the manager while it holds the camera, and camera info *)
(* reads the manager twice.                                                 *)
AsksAgainstOrder(t) ==
    \E g \in Asked(t), h \in Held(t) :
        g.how \in {"await", "maybe"} /\ Rank[h.lock] >= Rank[g.lock]

OnlyNestedOutOfOrder ==
    \A t \in Task : AsksAgainstOrder(t) =>
        /\ job[t].handler \in NestedHandlers
        /\ \A g \in Asked(t) : g.lock = Mgr

(* CirclesExplained: every circle of tasks that wait for one another goes   *)
(* through one of these places, and in one of three ways: device info waits *)
(* for itself; an end fragment holds the camera a holder of the manager     *)
(* waits for; camera info, with the manager in hand, stands behind a writer *)
(* of the manager.  Without such a partner an end fragment and camera info  *)
(* are harmless, and no other handlers ever block each other.               *)
Circles ==
    {S \in SUBSET {t \in Task : Waiting(t)} :
        S # {} /\ \A t \in S : \E u \in S : WaitsFor(t, u)}

Holds(t, l) == \E g \in Held(t) : g.lock = l
AwaitsIn(t, l, mode) ==
    Waiting(t) /\ \E g \in Asked(t) : g.lock = l /\ g.mode = mode

CirclesExplained ==
    \A S \in Circles : \E t \in S :
        /\ AsksAgainstOrder(t)
        /\ \/ job[t].handler = "device_info" /\ WaitsFor(t, t)
           \/ /\ job[t].handler = "frame_end"
              /\ \E u \in S : Holds(u, Mgr) /\ \E m \in {"R", "W"} :
                    AwaitsIn(u, Cam(job[t].camera), m)
           \/ /\ job[t].handler = "camera_info"
              /\ \E u \in S : AwaitsIn(u, Mgr, "W")

(* NoTornMessage: between the header and the body of a message to a camera  *)
(* no other task can write to the same connection, whichever tasks answer   *)
(* the camera, start, stop or trigger a snapshot at the time.               *)
NoTornMessage ==
    \A c \in Camera, t \in Task :
        MidMessage(t, c) => \A u \in Task \ {t} : ~ReadyToWrite(u, c)
=============================================================================
