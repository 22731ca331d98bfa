------------------------------ MODULE Supervisor ------------------------------
(***************************************************************************)
(* main of src/main.rs: it binds the sockets of the TCP router and of the  *)
(* three UDP routers one after the other, spawning each router as soon as  *)
(* its socket is there, spawns the two web servers, which bind theirs in   *)
(* their own tasks, and then waits in select! for the first of the six to  *)
(* end.  When main returns the runtime goes, and with it every task and    *)
(* socket and all that is known of the cameras; systemd starts the process *)
(* again.                                                                  *)
(***************************************************************************)
EXTENDS Naturals

CONSTANTS
    RouterPort,     \* the port of each UDP router
    Failing         \* bound: the components whose end is considered

Startup == <<"tcp", "udp1", "udp2", "udp3", "registration", "web">>
Router == {"udp1", "udp2", "udp3"}
WebServer == {"registration", "web"}
Component == {"tcp"} \cup Router \cup WebServer

VARIABLES
    main,       \* "starting", "waiting" in select!, or "exited"
    started,    \* components started so far
    task        \* task[c]: "absent", "binding", "serving" or "ended"

mainVars == <<main, started, task>>

SupervisorTypeOK ==
    /\ main \in {"starting", "waiting", "exited"}
    /\ started \in 0 .. 6
    /\ task \in [Component -> {"absent", "binding", "serving", "ended"}]

Absent == [c \in Component |-> "absent"]

-----------------------------------------------------------------------------
(* The TCP and UDP routers are bound, then spawned.  inUse: UDP ports that  *)
(* other sockets of the process hold at this time.                          *)
BindAndSpawn(inUse) ==
    /\ main = "starting" /\ started < 4
    /\ LET c == Startup[started + 1] IN
          /\ c \in Router => RouterPort[c] \notin inUse
          /\ task' = [task EXCEPT ![c] = "serving"]
    /\ started' = started + 1
    /\ UNCHANGED main

(* A bind fails: main returns its error by ?. *)
BindFails ==
    /\ main = "starting" /\ started < 4
    /\ main' = "exited" /\ started' = 0 /\ task' = Absent

(* The web servers are spawned first; after the second comes select!. *)
SpawnWeb ==
    /\ main = "starting" /\ started \in {4, 5}
    /\ task' = [task EXCEPT ![Startup[started + 1]] = "binding"]
    /\ started' = started + 1
    /\ main' = IF started = 5 THEN "waiting" ELSE "starting"

(* start_web_server: a bind that fails ends the task. *)
BindInside(c) ==
    /\ c \in WebServer /\ task[c] = "binding"
    /\ \E s \in {"serving", "ended"} : task' = [task EXCEPT ![c] = s]
    /\ UNCHANGED <<main, started>>

(* A component ends: its loop panics or, of a web server, serve returns.    *)
End(c) ==
    /\ c \in Failing /\ task[c] = "serving"
    /\ task' = [task EXCEPT ![c] = "ended"]
    /\ UNCHANGED <<main, started>>

(* select!: one is enough.  An error the component returned is not looked   *)
(* at, one of its task is logged, and main returns Ok either way.           *)
Select ==
    /\ main = "waiting"
    /\ \E c \in Component : task[c] = "ended"
    /\ main' = "exited" /\ started' = 0 /\ task' = Absent

(* Restart=always. *)
Restart ==
    /\ main = "exited"
    /\ main' = "starting"
    /\ UNCHANGED <<started, task>>

SupervisorInit == main = "starting" /\ started = 0 /\ task = Absent
=============================================================================
