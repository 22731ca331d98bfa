---------------------------- MODULE CameraSession ----------------------------
(***************************************************************************)
(* The connection and the protocol state of one camera, as the tasks of    *)
(* the server set them: a task per TCP connection (handle_connection of    *)
(* src/router/tcp.rs and the handlers it runs), and the tasks start_,      *)
(* stop_streaming and trigger_snapshot of src/web/camera_endpoints.rs      *)
(* leave behind when they have answered.                                   *)
(*                                                                         *)
(* A step is what a task does under one holding of the camera's guard or   *)
(* of the socket; between two the others run.  A write goes to the         *)
(* connection that is in tcp_conn at that moment, which need not be the    *)
(* one the request came from, and may fail whenever there is a network.    *)
(*                                                                         *)
(* Nothing keeps a camera from connecting anew while an older connection   *)
(* of it is still served: the two tasks then share what is stored for the  *)
(* address.  And a code 51 stops the server: its task waits for the        *)
(* manager's write guard under a read guard of its own (label "stuck").    *)
(***************************************************************************)
CONSTANTS
    Conn,       \* the connections the camera makes
    Web,        \* places for tasks spawned by web requests
    None        \* no connection

ASSUME NoneAssumption == None \notin Conn

VARIABLES
    tcp_conn,   \* tcp_conn: the connection whose write half is stored
    state,      \* state
    device_id,  \* whether the camera has registered, so that requests find it
    pc,         \* what the task of each connection does next
    used,       \* the connection its handler has cloned
    open,       \* connections the camera holds open
    webpc,      \* what each spawned task does next
    webconn,    \* the connection it has cloned
    byOrder,    \* ghost: whether a web task was the last to set state
    overlapped  \* ghost: two connections have overlapped, and not all the
                \* tasks under way since then have ended

vars == <<tcp_conn, state, device_id, pc, used, open, webpc, webconn, byOrder,
          overlapped>>

web == <<webpc, webconn>>

ProtocolState ==
    {"Disconnected", "Configuring", "Registering", "Idle", "Streaming"}

(* "reply-x": a reply to whatever connection is stored is due, "send-x": one *)
(* to the connection cloned before; then the task goes on with x.           *)
Label == {"new", "accepted", "reading", "reply-reading", "reply-idle",
          "reply-streaming", "send-reading", "send-streaming",
          "set-idle", "set-streaming", "stuck", "closing", "done"}
WebLabel == {"free", "start-send", "start-set", "stop-reset", "stop-clone",
             "stop-send", "snapshot-send"}

TypeOK ==
    /\ tcp_conn \in Conn \cup {None}
    /\ state \in ProtocolState
    /\ device_id \in BOOLEAN
    /\ pc \in [Conn -> Label]
    /\ used \in [Conn -> Conn \cup {None}]
    /\ open \in [Conn -> BOOLEAN]
    /\ webpc \in [Web -> WebLabel]
    /\ webconn \in [Web -> Conn \cup {None}]
    /\ byOrder \in BOOLEAN
    /\ overlapped \in BOOLEAN

-----------------------------------------------------------------------------
(* The camera (external): it may connect again before the server has seen   *)
(* the end of an older connection.                                          *)
Ended(c) == pc[c] \in {"new", "done"}
Running(c) == ~ Ended(c)

Connect(c) ==
    /\ pc[c] = "new"
    /\ pc' = [pc EXCEPT ![c] = "accepted"]
    /\ open' = [open EXCEPT ![c] = TRUE]
    /\ overlapped' = (overlapped \/ \E d \in Conn : Running(d))
    /\ UNCHANGED <<tcp_conn, state, byOrder, device_id, used, web>>

(* The camera closes a connection, or the network does. *)
Disconnect(c) ==
    /\ open[c]
    /\ open' = [open EXCEPT ![c] = FALSE]
    /\ UNCHANGED <<tcp_conn, state, byOrder, device_id, pc, used, web, overlapped>>

-----------------------------------------------------------------------------
(* The task of a connection. *)
Go(c, from, to) ==
    /\ pc[c] = from
    /\ pc' = [pc EXCEPT ![c] = to]

Rest(c) == UNCHANGED <<open, web, overlapped>>

SetTo(s) == state' = s /\ byOrder' = FALSE

(* No task is stuck, with the manager held for reading, its own write       *)
(* queued behind that, and the stored connection's socket held as well:     *)
(* then read() and write() on the manager wait for good.                    *)
ManagerFree == \A c \in Conn : pc[c] # "stuck"
SocketFree(conn) == ManagerFree \/ conn # tcp_conn

(* handle_connection: the write half is stored, whatever was there before. *)
Store(c) ==
    /\ ManagerFree
    /\ Go(c, "accepted", "reading")
    /\ tcp_conn' = c
    /\ SetTo("Configuring")
    /\ UNCHANGED <<device_id, used>> /\ Rest(c)

handle_registration(c) ==
    /\ ManagerFree
    /\ Go(c, "reading", "reply-idle")
    /\ device_id' = TRUE
    /\ SetTo("Registering")
    /\ UNCHANGED <<tcp_conn, used>> /\ Rest(c)

(* Requests that begin with their reply: code 201, code 301 with a uid, and *)
(* the keepalive, which is nothing else.                                    *)
Request(c, next) ==
    /\ Go(c, "reading", next)
    /\ UNCHANGED <<tcp_conn, state, byOrder, device_id, used>> /\ Rest(c)

handle_snapshot_request(c) == Request(c, "reply-idle")
handle_streaming_request(c) == Request(c, "reply-streaming")
handle_keepalive(c) == Request(c, "reply-reading")

(* What follows a reply that went out, or was skipped for want of a         *)
(* connection.                                                              *)
After(label) ==
    CASE label \in {"reply-reading", "send-reading"}     -> "reading"
      [] label = "reply-idle"                            -> "set-idle"
      [] label \in {"reply-streaming", "send-streaming"} -> "set-streaming"

(* mutant: a handler that fails leaves the connection's task by ? *)
ReplyOrReturn(c) ==
    /\ ManagerFree
    /\ pc[c] \in {"reply-reading", "reply-idle", "reply-streaming"}
    /\ \/ pc' = [pc EXCEPT ![c] = After(pc[c])]
       \/ tcp_conn # None /\ pc' = [pc EXCEPT ![c] = "done"]
    /\ UNCHANGED <<tcp_conn, state, byOrder, device_id, used>> /\ Rest(c)

Reply(c) ==
    /\ ManagerFree
    /\ pc[c] \in {"reply-reading", "reply-idle", "reply-streaming"}
    /\ \/ pc' = [pc EXCEPT ![c] = After(pc[c])]
       \/ tcp_conn # None /\ pc' = [pc EXCEPT ![c] = "closing"]
    /\ UNCHANGED <<tcp_conn, state, byOrder, device_id, used>> /\ Rest(c)

(* Handlers that clone the connection, then write to it with no other guard *)
(* than the socket's.                                                       *)
Clone(c, next) ==
    /\ ManagerFree
    /\ Go(c, "reading", next)
    /\ used' = [used EXCEPT ![c] = tcp_conn]
    /\ UNCHANGED <<tcp_conn, state, byOrder, device_id>> /\ Rest(c)

handle_nat_probe_response(c) == Clone(c, "send-streaming")
send_streaming_command(c) == Clone(c, "send-reading")
send_stop_streaming_command(c) == Clone(c, "send-reading")

SendClone(c) ==
    /\ SocketFree(used[c])
    /\ pc[c] \in {"send-reading", "send-streaming"}
    /\ \/ pc' = [pc EXCEPT ![c] = After(pc[c])]
       \/ used[c] # None /\ pc' = [pc EXCEPT ![c] = "closing"]
    /\ used' = [used EXCEPT ![c] = None]
    /\ UNCHANGED <<tcp_conn, state, byOrder, device_id>> /\ Rest(c)

(* handle_device_info_request: code 50 is written under the manager's read  *)
(* guard, and the write guard then asked for under that one; with no        *)
(* connection stored nothing is done.                                       *)
handle_device_info_request(c) ==
    /\ ManagerFree
    /\ \/ tcp_conn = None /\ Go(c, "reading", "reading")
       \/ tcp_conn # None /\ (Go(c, "reading", "stuck") \/ Go(c, "reading", "closing"))
    /\ UNCHANGED <<tcp_conn, state, byOrder, device_id, used>> /\ Rest(c)

(* The last step of registration and of a snapshot, and of the NAT probe    *)
(* response and a streaming request.                                        *)
SetState(c) ==
    /\ ManagerFree
    /\ \/ Go(c, "set-idle", "reading") /\ SetTo("Idle")
       \/ Go(c, "set-streaming", "reading") /\ SetTo("Streaming")
    /\ UNCHANGED <<tcp_conn, device_id, used>> /\ Rest(c)

(* A read returns 0 or an error. *)
EndOfStream(c) ==
    /\ ~ open[c]
    /\ Go(c, "reading", "closing")
    /\ UNCHANGED <<tcp_conn, state, byOrder, device_id, used>> /\ Rest(c)

(* The task ends, and both halves of the connection go. *)
End(c) ==
    /\ ManagerFree
    /\ Go(c, "closing", "done")
    /\ open' = [open EXCEPT ![c] = FALSE]
    /\ overlapped' = (overlapped /\ \E d \in Conn \ {c} : Running(d))
    /\ UNCHANGED <<device_id, used, web>>

(* mutant: the state is reset, the write half left for the next connection *)
CleanupStateOnly(c) == End(c) /\ SetTo("Disconnected") /\ UNCHANGED tcp_conn

(* mutant: the write half goes, the state is left to the next connection *)
CleanupConnOnly(c) == End(c) /\ tcp_conn' = None /\ UNCHANGED <<state, byOrder>>

(* The end of handle_connection, after a read or a handler failed: whatever *)
(* is stored for the address is reset.                                      *)
Cleanup(c) ==
    /\ End(c)
    /\ tcp_conn' = None
    /\ SetTo("Disconnected")

-----------------------------------------------------------------------------
(* The web endpoints. *)
WebGo(w, from, to) ==
    /\ webpc[w] = from
    /\ webpc' = [webpc EXCEPT ![w] = to]

Session == <<tcp_conn, state, byOrder, device_id, pc, used, open, overlapped>>
Link == <<tcp_conn, device_id, pc, used, open, overlapped>>

(* A web task sets the state, whatever has become of the connection. *)
Order(s) == state' = s /\ byOrder' = TRUE

(* start_streaming: 200 if a connection is there at this moment, else 500. *)
start_streaming(w) ==
    /\ ManagerFree /\ device_id /\ tcp_conn # None
    /\ WebGo(w, "free", "start-send")
    /\ UNCHANGED <<Session, webconn>>

(* start_streaming_for_camera: code 11 if there is a connection now; a      *)
(* write that fails ends the task.                                          *)
StartSend(w) ==
    /\ ManagerFree
    /\ \/ WebGo(w, "start-send", "start-set")
       \/ tcp_conn # None /\ WebGo(w, "start-send", "free")
    /\ UNCHANGED <<Session, webconn>>

StartSet(w) ==
    /\ ManagerFree
    /\ WebGo(w, "start-set", "free")
    /\ Order("Streaming")
    /\ UNCHANGED <<Link, webconn>>

(* stop_streaming: 200 whenever the camera is known. *)
stop_streaming(w) ==
    /\ ManagerFree /\ device_id
    /\ WebGo(w, "free", "stop-reset")
    /\ UNCHANGED <<Session, webconn>>

(* try_write on manager and camera: skipped when either is in use. *)
StopReset(w) ==
    /\ WebGo(w, "stop-reset", "stop-clone")
    /\ (ManagerFree /\ Order("Idle")) \/ UNCHANGED <<state, byOrder>>
    /\ UNCHANGED <<Link, webconn>>

(* The connection is looked up by try_read: given up when in use or none. *)
StopClone(w) ==
    /\ \/ WebGo(w, "stop-clone", "free") /\ UNCHANGED webconn
       \/ /\ ManagerFree /\ tcp_conn # None
          /\ WebGo(w, "stop-clone", "stop-send")
          /\ webconn' = [webconn EXCEPT ![w] = tcp_conn]
    /\ UNCHANGED Session

(* 301/0 on the cloned connection. *)
StopSend(w) ==
    /\ SocketFree(webconn[w])
    /\ WebGo(w, "stop-send", "free")
    /\ webconn' = [webconn EXCEPT ![w] = None]
    /\ UNCHANGED Session

(* trigger_snapshot clones the connection before it answers. *)
trigger_snapshot(w) ==
    /\ ManagerFree /\ device_id /\ tcp_conn # None
    /\ WebGo(w, "free", "snapshot-send")
    /\ webconn' = [webconn EXCEPT ![w] = tcp_conn]
    /\ UNCHANGED Session

SnapshotSend(w) ==
    /\ SocketFree(webconn[w])
    /\ WebGo(w, "snapshot-send", "free")
    /\ webconn' = [webconn EXCEPT ![w] = None]
    /\ UNCHANGED Session

-----------------------------------------------------------------------------
Init ==
    /\ tcp_conn = None
    /\ state = "Disconnected"
    /\ device_id = FALSE
    /\ pc = [c \in Conn |-> "new"]
    /\ used = [c \in Conn |-> None]
    /\ open = [c \in Conn |-> FALSE]
    /\ webpc = [w \in Web |-> "free"]
    /\ webconn = [w \in Web |-> None]
    /\ byOrder = FALSE
    /\ overlapped = FALSE

(* A message is read: it may have been sent before the camera closed. *)
process_message(c) ==
    \/ handle_registration(c)
    \/ handle_snapshot_request(c)
    \/ handle_streaming_request(c)
    \/ handle_nat_probe_response(c)
    \/ handle_device_info_request(c)
    \/ send_streaming_command(c)
    \/ send_stop_streaming_command(c)
    \/ handle_keepalive(c)

(* What a connection's task does without waiting for the camera. *)
Continue(c) ==
    \/ Store(c) \/ Reply(c) \/ SendClone(c) \/ SetState(c)
    \/ EndOfStream(c) \/ Cleanup(c)

WebTask(w) ==
    \/ StartSend(w) \/ StartSet(w)
    \/ StopReset(w) \/ StopClone(w) \/ StopSend(w)
    \/ SnapshotSend(w)

Next ==
    \/ \E c \in Conn : Connect(c) \/ Disconnect(c)
    \/ \E c \in Conn : process_message(c)
    \/ \E c \in Conn : Continue(c)
    \/ \E w \in Web : start_streaming(w) \/ stop_streaming(w) \/ trigger_snapshot(w)
    \/ \E w \in Web : WebTask(w)

Spec == Init /\ [][Next]_vars

-----------------------------------------------------------------------------
(* NoDeadConnection: whatever connections overlap and whatever the web      *)
(* tasks do, the stored write half is never that of a connection whose task *)
(* has ended: a camera is never taken for reachable through a connection    *)
(* nobody reads any more.                                                   *)
NoDeadConnection == tcp_conn # None => Running(tcp_conn)

(* ImplementsSession: while a camera makes one connection after the other,  *)
(* its state agrees with its connection at every moment, but for what       *)
(* start_streaming and stop_streaming set, whatever steps of theirs come    *)
(* between those of the connection: and that lasts no longer than to the    *)
(* next step of a connection that sets the state.  What two overlapping     *)
(* connections do to each other ends with the last of them: the session     *)
(* after that begins as if it had not been.                                 *)
Abstract == INSTANCE Session WITH link <- tcp_conn, phase <- state
ImplementsSession == Abstract!SessionSpec

(* ConnectedHasConnection: a camera that is_connected (Idle or Streaming)   *)
(* has a connection, as the comments on ProtocolState say, unless it is a   *)
(* web task that said so last, or connections of it overlap.                *)
ConnectedHasConnection ==
    (state \in {"Idle", "Streaming"} /\ ~ byOrder /\ ~ overlapped) => tcp_conn # None

(* DisconnectedMeansNone: what types.rs:13 says of Disconnected: no         *)
(* connection.                                                              *)
DisconnectedMeansNone ==
    state = "Disconnected" => \A c \in Conn : ~ (pc[c] = "reading" /\ open[c])
=============================================================================
