------------------------- MODULE CameraSession_proofs -------------------------
(***************************************************************************)
(* Proofs about CameraSession for any number of connections and web tasks. *)
(* NoDeadConnection needs only types.  That a camera implements Session    *)
(* rests on this: as long as no connections overlap, at most one task is   *)
(* under way, and tcp_conn is its connection from the step that stored it  *)
(* (Alone); and as long as they do, some task has still to end.            *)
(***************************************************************************)
EXTENDS CameraSession, TLAPS

DInv == TypeOK /\ NoDeadConnection

LEMMA SessionTypes == ASSUME TypeOK, [Next]_vars PROVE TypeOK'
<1> USE DEF TypeOK, Go, Rest, SetTo, web, Label, ProtocolState
<1>1. CASE \E c \in Conn : Connect(c) \/ Disconnect(c)
    BY <1>1 DEF Connect, Disconnect
<1>2. ASSUME NEW c \in Conn, process_message(c) PROVE TypeOK'
    <2>1. CASE handle_registration(c)
        BY <2>1 DEF handle_registration
    <2>2. CASE handle_snapshot_request(c) \/ handle_streaming_request(c) \/ handle_keepalive(c)
        BY <2>2 DEF handle_snapshot_request, handle_streaming_request,
            handle_keepalive, Request
    <2>3. CASE \/ handle_nat_probe_response(c) \/ send_streaming_command(c)
               \/ send_stop_streaming_command(c)
        BY <2>3 DEF handle_nat_probe_response, send_streaming_command,
            send_stop_streaming_command, Clone
    <2>4. CASE handle_device_info_request(c)
        BY <2>4 DEF handle_device_info_request
    <2> QED
        BY <1>2, <2>1, <2>2, <2>3, <2>4 DEF process_message
<1>3. ASSUME NEW c \in Conn, Continue(c) PROVE TypeOK'
    <2>1. CASE Store(c)
        BY <2>1 DEF Store
    <2>2. CASE Reply(c)
        BY <2>2 DEF Reply, After
    <2>3. CASE SendClone(c)
        BY <2>3 DEF SendClone, After
    <2>4. CASE SetState(c)
        BY <2>4 DEF SetState
    <2>5. CASE EndOfStream(c)
        BY <2>5 DEF EndOfStream
    <2>6. CASE Cleanup(c)
        BY <2>6 DEF Cleanup, End
    <2> QED
        BY <1>3, <2>1, <2>2, <2>3, <2>4, <2>5, <2>6 DEF Continue
<1>4. CASE \E w \in Web : start_streaming(w) \/ stop_streaming(w) \/ trigger_snapshot(w)
    BY <1>4 DEF start_streaming, stop_streaming, trigger_snapshot, WebGo,
        Session, WebLabel
<1>5. ASSUME NEW w \in Web, WebTask(w) PROVE TypeOK'
    <2>1. CASE StartSend(w) \/ StartSet(w)
        BY <2>1 DEF StartSend, StartSet, WebGo, Session, Link, Order, WebLabel
    <2>2. CASE StopReset(w) \/ StopClone(w)
        BY <2>2 DEF StopReset, StopClone, WebGo, Session, Link, Order, WebLabel
    <2>3. CASE StopSend(w) \/ SnapshotSend(w)
        BY <2>3 DEF StopSend, SnapshotSend, WebGo, Session, Link, Order, WebLabel
    <2> QED
        BY <1>5, <2>1, <2>2, <2>3 DEF WebTask
<1>6. CASE UNCHANGED vars
    BY <1>6 DEF vars
<1> QED
    BY <1>1, <1>2, <1>3, <1>4, <1>5, <1>6 DEF Next

(* The steps of the web tasks leave connections alone. *)
LEMMA WebKeepsConnections ==
    ASSUME NEW w \in Web,
           \/ start_streaming(w) \/ stop_streaming(w) \/ trigger_snapshot(w)
           \/ WebTask(w)
    PROVE  UNCHANGED <<tcp_conn, pc, used, open, device_id, overlapped>>
BY DEF start_streaming, stop_streaming, trigger_snapshot, WebTask, StartSend,
    StartSet, StopReset, StopClone, StopSend, SnapshotSend, Session, Link

LEMMA DeadStep == ASSUME DInv, [Next]_vars PROVE NoDeadConnection'
<1> USE DEF NoDeadConnection, Running, Ended, TypeOK, DInv, Go
<1>1. CASE \E c \in Conn : Connect(c) \/ Disconnect(c)
    BY <1>1 DEF Connect, Disconnect
<1>2. CASE \E c \in Conn : process_message(c)
    BY <1>2 DEF process_message, handle_registration, Request, Clone,
        handle_snapshot_request, handle_streaming_request, handle_keepalive,
        handle_nat_probe_response, send_streaming_command,
        send_stop_streaming_command, handle_device_info_request
<1>3. ASSUME NEW c \in Conn, Continue(c) PROVE NoDeadConnection'
    <2>1. CASE Store(c)
        BY <2>1 DEF Store
    <2>2. CASE Reply(c)
        BY <2>2 DEF Reply, After
    <2>3. CASE SendClone(c)
        BY <2>3 DEF SendClone, After
    <2>4. CASE SetState(c)
        BY <2>4 DEF SetState
    <2>5. CASE EndOfStream(c)
        BY <2>5 DEF EndOfStream
    <2>6. CASE Cleanup(c)
        BY <2>6 DEF Cleanup
    <2> QED
        BY <1>3, <2>1, <2>2, <2>3, <2>4, <2>5, <2>6 DEF Continue
<1>4. CASE \E w \in Web : \/ start_streaming(w) \/ stop_streaming(w)
                          \/ trigger_snapshot(w) \/ WebTask(w)
    BY <1>4, WebKeepsConnections
<1>5. CASE UNCHANGED vars
    BY <1>5 DEF vars
<1> QED
    BY <1>1, <1>2, <1>3, <1>4, <1>5 DEF Next

(* NeverDead: however many connections of a camera overlap and whatever the *)
(* web tasks do, the stored connection is one whose task is still running.  *)
THEOREM NeverDead == Spec => []NoDeadConnection
<1>1. Init => DInv
    BY DEF Init, DInv, TypeOK, NoDeadConnection, Label, WebLabel, ProtocolState
<1>2. DInv /\ [Next]_vars => DInv'
    BY SessionTypes, DeadStep DEF DInv
<1>3. DInv => NoDeadConnection
    BY DEF DInv
<1> QED
    BY <1>1, <1>2, <1>3, PTL DEF Spec
-----------------------------------------------------------------------------
Stored(c) == pc[c] \notin {"new", "accepted", "done"}

(* At most one task is under way; from the step that stored its connection  *)
(* to its end that connection is in tcp_conn, and only then is one there;   *)
(* a state other than Disconnected without one is by order of a web task.   *)
Alone ==
    /\ \A c, d \in Conn : Running(c) /\ Running(d) => c = d
    /\ \A c \in Conn : Stored(c) => tcp_conn = c
    /\ tcp_conn # None => Stored(tcp_conn)
    /\ (tcp_conn = None /\ ~ byOrder) => state = "Disconnected"

(* Overlapping connections have a task that has still to end. *)
Overlaps ==
    /\ overlapped => \E c \in Conn : Running(c)
    /\ ~ overlapped => Alone

AInv == TypeOK /\ Overlaps

SessionStep == [Abstract!SessionNext]_(Abstract!sessionVars)

LEMMA ConnectsApart ==
    ASSUME AInv, NEW c \in Conn, Connect(c) \/ Disconnect(c)
    PROVE  Overlaps' /\ SessionStep
<1> USE DEF SessionStep, Abstract!SessionNext, Abstract!sessionVars, Abstract!Overlap
<1>1. CASE Connect(c)
    <2>1. /\ pc[c] = "new" /\ pc'[c] = "accepted"
          /\ \A d \in Conn : d # c => pc'[d] = pc[d]
          /\ UNCHANGED <<tcp_conn, state, byOrder>>
          /\ overlapped' = (overlapped \/ \E d \in Conn : Running(d))
        BY <1>1 DEF Connect, AInv, TypeOK
    <2>2. CASE \E d \in Conn : Running(d)
        BY <2>1, <2>2 DEF Overlaps, Running, Ended
    <2>3. CASE ~ \E d \in Conn : Running(d)
        <3>1. ~ overlapped /\ overlapped' = overlapped /\ Alone
            BY <2>1, <2>3 DEF AInv, TypeOK, Overlaps
        <3>2. Alone'
            BY <2>1, <2>3, <3>1 DEF Alone, AInv, TypeOK, Stored, Running, Ended
        <3> QED
            BY <2>1, <3>1, <3>2 DEF Overlaps
    <2> QED
        BY <2>2, <2>3
<1>2. CASE Disconnect(c)
    BY <1>2 DEF Disconnect, AInv, Overlaps, Alone, Stored, Running, Ended
<1> QED
    BY <1>1, <1>2

(* A step of a task whose connection is stored, and stays so. *)
LEMMA GoesOn ==
    ASSUME AInv, NEW c \in Conn, NEW next \in Label \ {"new", "accepted", "done"},
           Stored(c), pc' = [pc EXCEPT ![c] = next],
           UNCHANGED <<tcp_conn, overlapped>>,
           \/ UNCHANGED <<state, byOrder>>
           \/ state' \in {"Registering", "Idle", "Streaming"} /\ byOrder' = FALSE
    PROVE  Overlaps' /\ SessionStep
<1> USE DEF SessionStep, Abstract!SessionNext, Abstract!sessionVars
<1>1. pc'[c] = next /\ \A d \in Conn : d # c => pc'[d] = pc[d]
    BY DEF AInv, TypeOK
<1>2. \A d \in Conn : (Stored(d)' <=> Stored(d)) /\ (Running(d)' <=> Running(d))
    BY <1>1 DEF Stored, Running, Ended
<1>3. CASE overlapped
    BY <1>2, <1>3 DEF AInv, TypeOK, Overlaps, Abstract!Disturbed
<1>4. CASE ~ overlapped
    <2>1. Alone /\ tcp_conn = c /\ c # None
        BY <1>4, NoneAssumption DEF AInv, Overlaps, Alone
    <2>2. Alone'
        BY <1>2, <2>1 DEF Alone
    <2> QED
        BY <1>4, <2>1, <2>2 DEF Overlaps, Abstract!Proceed
<1> QED
    BY <1>3, <1>4

LEMMA ReadsApart ==
    ASSUME AInv, NEW c \in Conn, process_message(c)
    PROVE  Overlaps' /\ SessionStep
<1> USE GoesOn DEF Go, Rest, Stored, Label, AInv, TypeOK
<1>1. CASE handle_registration(c)
    BY <1>1 DEF handle_registration, SetTo
<1>2. CASE handle_snapshot_request(c) \/ handle_streaming_request(c) \/ handle_keepalive(c)
    BY <1>2 DEF Request, handle_snapshot_request, handle_streaming_request, handle_keepalive
<1>3. CASE \/ handle_nat_probe_response(c) \/ send_streaming_command(c)
           \/ send_stop_streaming_command(c)
    BY <1>3 DEF Clone, handle_nat_probe_response, send_streaming_command,
        send_stop_streaming_command
<1>4. CASE handle_device_info_request(c)
    BY <1>4 DEF handle_device_info_request
<1> QED
    BY <1>1, <1>2, <1>3, <1>4 DEF process_message

LEMMA StoresApart ==
    ASSUME AInv, NEW c \in Conn, Store(c)
    PROVE  Overlaps' /\ SessionStep
<1> USE DEF SessionStep, Abstract!SessionNext, Abstract!sessionVars
<1>1. /\ pc[c] = "accepted" /\ pc'[c] = "reading"
      /\ \A d \in Conn : d # c => pc'[d] = pc[d]
      /\ tcp_conn' = c /\ c # None
      /\ state' = "Configuring" /\ byOrder' = FALSE /\ overlapped' = overlapped
    BY NoneAssumption DEF Store, Go, Rest, SetTo, AInv, TypeOK
<1>2. CASE overlapped
    BY <1>1, <1>2 DEF AInv, TypeOK, Overlaps, Running, Ended, Abstract!Disturbed
<1>3. CASE ~ overlapped
    <2>1. Alone
        BY <1>3 DEF AInv, Overlaps
    <2>2. \A d \in Conn : d # c => pc[d] \in {"new", "done"}
        BY <1>1, <2>1 DEF Alone, Running, Ended
    <2>3. tcp_conn = None
        BY <1>1, <2>1, <2>2 DEF AInv, TypeOK, Alone, Stored
    <2>4. Alone'
        BY <1>1, <2>2 DEF Alone, Stored, Running, Ended
    <2> QED
        BY <1>1, <1>3, <2>3, <2>4 DEF Overlaps, Abstract!Open
<1> QED
    BY <1>2, <1>3

LEMMA EndsApart ==
    ASSUME AInv, NEW c \in Conn, Cleanup(c)
    PROVE  Overlaps' /\ SessionStep
<1> USE DEF SessionStep, Abstract!SessionNext, Abstract!sessionVars
<1>1. /\ pc[c] = "closing" /\ pc'[c] = "done"
      /\ \A d \in Conn : d # c => pc'[d] = pc[d]
      /\ tcp_conn' = None /\ state' = "Disconnected" /\ byOrder' = FALSE
      /\ overlapped' = (overlapped /\ \E d \in Conn \ {c} : Running(d))
    BY DEF Cleanup, End, Go, SetTo, AInv, TypeOK
<1>2. CASE overlapped'
    BY <1>1, <1>2 DEF Overlaps, Running, Ended, Abstract!Disturbed
<1>3. CASE ~ overlapped'
    <2>1. \A d \in Conn : d # c => pc[d] \in {"new", "done"}
        BY <1>1, <1>3 DEF AInv, Overlaps, Alone, Running, Ended
    <2>2. Alone'
        BY <1>1, <2>1 DEF Alone, Stored, Running, Ended
    <2>3. tcp_conn # None \/ overlapped
        BY <1>1, NoneAssumption DEF AInv, Overlaps, Alone, Stored
    <2>4. overlapped' = FALSE
        BY <1>1, <1>3
    <2> QED
        BY <1>1, <1>3, <2>2, <2>3, <2>4 DEF Overlaps, Abstract!Close
<1> QED
    BY <1>2, <1>3

LEMMA ContinuesApart ==
    ASSUME AInv, NEW c \in Conn, Continue(c)
    PROVE  Overlaps' /\ SessionStep
<1>1. CASE Store(c)
    BY <1>1, StoresApart
<1>2. CASE Cleanup(c)
    BY <1>2, EndsApart
<1>3. CASE Reply(c)
    BY <1>3, GoesOn DEF Reply, After, Rest, Stored, Label, AInv, TypeOK
<1>4. CASE SendClone(c)
    BY <1>4, GoesOn DEF SendClone, After, Rest, Stored, Label, AInv, TypeOK
<1>5. CASE SetState(c)
    BY <1>5, GoesOn DEF SetState, SetTo, Go, Rest, Stored, Label, AInv, TypeOK
<1>6. CASE EndOfStream(c)
    BY <1>6, GoesOn DEF EndOfStream, Go, Rest, Stored, Label, AInv, TypeOK
<1> QED
    BY <1>1, <1>2, <1>3, <1>4, <1>5, <1>6 DEF Continue

(* What a web task does is an order, or nothing a session knows of. *)
LEMMA OrdersApart ==
    ASSUME AInv, NEW w \in Web,
           \/ start_streaming(w) \/ stop_streaming(w) \/ trigger_snapshot(w)
           \/ WebTask(w)
    PROVE  Overlaps' /\ SessionStep
<1>1. UNCHANGED <<tcp_conn, pc, used, open, device_id, overlapped>>
    BY WebKeepsConnections
<1>2. \/ UNCHANGED <<state, byOrder>>
      \/ state' \in {"Idle", "Streaming"} /\ byOrder' = TRUE
    BY DEF start_streaming, stop_streaming, trigger_snapshot, WebTask, StartSend,
        StartSet, StopReset, StopClone, StopSend, SnapshotSend, Session, Order
<1>3. Overlaps'
    BY <1>1, <1>2 DEF AInv, Overlaps, Alone, Stored, Running, Ended
<1> QED
    BY <1>1, <1>2, <1>3
    DEF SessionStep, Abstract!SessionNext, Abstract!sessionVars, Abstract!Order

LEMMA ApartStep ==
    ASSUME AInv, [Next]_vars
    PROVE  AInv' /\ SessionStep
<1>1. TypeOK'
    BY SessionTypes DEF AInv
<1>2. CASE \E c \in Conn : Connect(c) \/ Disconnect(c)
    BY <1>1, <1>2, ConnectsApart DEF AInv
<1>3. CASE \E c \in Conn : process_message(c)
    BY <1>1, <1>3, ReadsApart DEF AInv
<1>4. CASE \E c \in Conn : Continue(c)
    BY <1>1, <1>4, ContinuesApart DEF AInv
<1>5. CASE \E w \in Web : \/ start_streaming(w) \/ stop_streaming(w)
                          \/ trigger_snapshot(w) \/ WebTask(w)
    BY <1>1, <1>5, OrdersApart DEF AInv
<1>6. CASE UNCHANGED vars
    BY <1>1, <1>6 DEF AInv, Overlaps, Alone, Stored, Running, Ended, vars,
        SessionStep, Abstract!sessionVars
<1> QED
    BY <1>2, <1>3, <1>4, <1>5, <1>6 DEF Next

LEMMA ApartInit == Init => AInv /\ Abstract!SessionInit
BY NoneAssumption
DEF Init, AInv, TypeOK, Label, WebLabel, ProtocolState, Overlaps, Alone, Running,
    Ended, Stored, Abstract!SessionInit

(* SessionImplemented: the state and the stored connection of a camera      *)
(* implement Session, whatever its connections and the tasks of the web     *)
(* endpoints do: connections that follow each other keep state and          *)
(* connection in agreement, and what connections that overlap do to each    *)
(* other is over with the last of them.                                     *)
THEOREM SessionImplemented == Spec => ImplementsSession
<1>1. AInv /\ [Next]_vars => AInv' /\ SessionStep
    BY ApartStep
<1> QED
    BY <1>1, ApartInit, PTL DEF Spec, SessionStep, ImplementsSession, Abstract!SessionSpec

(* ConnectedAlone: a state that counts as connected has a connection,       *)
(* unless a start or stop set it last or connections overlap.               *)
THEOREM ConnectedAlone == Spec => []ConnectedHasConnection
<1>1. AInv /\ [Next]_vars => AInv'
    BY ApartStep
<1>2. AInv => ConnectedHasConnection
    BY DEF AInv, Overlaps, Alone, ConnectedHasConnection
<1> QED
    BY <1>1, <1>2, ApartInit, PTL DEF Spec
===============================================================================
