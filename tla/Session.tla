------------------------------- MODULE Session -------------------------------
(***************************************************************************)
(* What the protocol state of a camera is meant to tell (ProtocolState of  *)
(* src/types.rs): a session runs over one connection, has a state other    *)
(* than Disconnected as long as that connection is there, and the next     *)
(* session begins with the next connection.  An order given by a viewer    *)
(* may set the state at any time, connection or not; whatever the          *)
(* connection does next puts it right again.                               *)
(*                                                                         *)
(* Nothing is promised while a camera has two connections at once, but     *)
(* that it is over when both have ended.                                   *)
(***************************************************************************)
CONSTANTS
    Conn,       \* the connections of the camera
    None        \* none of them

VARIABLES
    link,       \* the connection
    phase,      \* the state
    byOrder,    \* whether an order set it last
    overlapped  \* whether connections overlap

sessionVars == <<link, phase, byOrder, overlapped>>

Open ==
    /\ ~ overlapped
    /\ link = None
    /\ link' \in Conn
    /\ phase' = "Configuring"
    /\ byOrder' = FALSE
    /\ UNCHANGED overlapped

Proceed ==
    /\ ~ overlapped
    /\ link # None
    /\ phase' \in {"Registering", "Idle", "Streaming"}
    /\ byOrder' = FALSE
    /\ UNCHANGED <<link, overlapped>>

Close ==
    /\ link # None \/ overlapped
    /\ link' = None
    /\ phase' = "Disconnected"
    /\ byOrder' = FALSE
    /\ overlapped' = FALSE

Order ==
    /\ phase' \in {"Idle", "Streaming"}
    /\ byOrder' = TRUE
    /\ UNCHANGED <<link, overlapped>>

Overlap ==
    /\ overlapped' = TRUE
    /\ UNCHANGED <<link, phase, byOrder>>

Disturbed ==
    /\ overlapped
    /\ link' \in Conn \cup {None}
    /\ phase' \in {"Disconnected", "Configuring", "Registering", "Idle", "Streaming"}
    /\ byOrder' = FALSE
    /\ UNCHANGED overlapped

SessionInit ==
    link = None /\ phase = "Disconnected" /\ byOrder = FALSE /\ overlapped = FALSE

SessionNext == Open \/ Proceed \/ Close \/ Order \/ Overlap \/ Disturbed

SessionSpec == SessionInit /\ [][SessionNext]_sessionVars
=============================================================================
