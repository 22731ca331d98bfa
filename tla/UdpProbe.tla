------------------------------- MODULE UdpProbe -------------------------------
(***************************************************************************)
(* The UDP routers of src/router/udp.rs under the Supervisor, and the map  *)
(* from addresses to cameras they share (CameraManager of src/types.rs).   *)
(* Each router takes one datagram at a time.  For a probe it binds a port  *)
(* chosen at random, stores the socket with the camera and tells the       *)
(* camera the port in a code 21; for a code 51 it looks the camera up,     *)
(* lets go of the manager, and then counts the exchange.                   *)
(*                                                                         *)
(* A camera is an object found through the map: handlers keep a reference  *)
(* to it while others use the map.  A socket is closed when neither a      *)
(* camera nor a handler refers to it any more.                             *)
(***************************************************************************)
EXTENDS Supervisor

CONSTANTS
    Addr,           \* addresses of cameras
    Obj,            \* CameraConnection objects
    RandomPort,     \* ports a probe may be given; a router's may be among them
    None            \* no port, no object, no address

ASSUME NoneAssumption == None \notin RandomPort \cup Obj \cup Addr

VARIABLES
    cameras,    \* CameraManager::cameras
    port,       \* random_video_port and random_video_socket of an object
    probe,      \* probe_state: 0 NotStarted, 1 and 2 InProgress, 3 Completed
    pc,         \* what each router does next
    addr,       \* the camera its datagram came from
    sock,       \* the socket its handler refers to, by port
    cam,        \* the object its handler refers to
    told,       \* the port in the last code 21 composed for an address
    crossed,    \* ghost: whether two probes of the address crossed each other
    heard       \* ghost: code 51 handled for an address, up to 3

answer == <<told, crossed>>
probeVars == <<cameras, port, probe, pc, addr, sock, cam, answer, heard>>
allVars == <<mainVars, probeVars>>

(* udp_stream_port_2. *)
Fallback == RouterPort["udp3"]

TypeOK ==
    /\ SupervisorTypeOK
    /\ cameras \in [Addr -> Obj \cup {None}]
    /\ port \in [Obj -> RandomPort \cup {None}]
    /\ probe \in [Obj -> 0 .. 3]
    /\ pc \in [Router -> {"idle", "store", "reply", "update"}]
    /\ addr \in [Router -> Addr \cup {None}]
    /\ sock \in [Router -> RandomPort \cup {None}]
    /\ cam \in [Router -> Obj \cup {None}]
    /\ told \in [Addr -> RandomPort \cup {Fallback, None}]
    /\ crossed \in [Addr -> BOOLEAN]
    /\ heard \in [Addr -> 0 .. 3]

-----------------------------------------------------------------------------
(* UDP ports that are bound: by the routers, and at random. *)
RouterPorts == {RouterPort[r] : r \in {s \in Router : task[s] # "absent"}}
RandomPorts == ({port[o] : o \in Obj} \cup {sock[r] : r \in Router}) \ {None}
InUse == RouterPorts \cup RandomPorts

Fresh == {o \in Obj : /\ \A a \in Addr : cameras[a] # o
                      /\ \A r \in Router : cam[r] # o}

(* mutant: the map is not looked into before a camera is made *)
CreateAlways(a, o) == o \in Fresh /\ cameras' = [cameras EXCEPT ![a] = o]

(* get_or_create_camera, under the manager's write guard. *)
get_or_create_camera(a, o) ==
    IF cameras[a] # None
    THEN o = cameras[a] /\ UNCHANGED cameras
    ELSE o \in Fresh /\ cameras' = [cameras EXCEPT ![a] = o]

Serving(r) == task[r] = "serving"

Take(r, a, label) ==
    /\ Serving(r) /\ pc[r] = "idle"
    /\ pc' = [pc EXCEPT ![r] = label]
    /\ addr' = [addr EXCEPT ![r] = a]

(* A router is in the middle of a probe of the address. *)
Probing(r, a) == pc[r] \in {"store", "reply"} /\ addr[r] = a

TakeProbe(r, a, label) ==
    /\ Take(r, a, label)
    /\ crossed' = [crossed EXCEPT ![a] = \E s \in Router : Probing(s, a)]
    /\ UNCHANGED <<mainVars, cameras, port, probe, cam, told, heard>>

(* handle_udp_probe: bind a random port. *)
Probe(r, a) ==
    /\ TakeProbe(r, a, "store")
    /\ \E p \in RandomPort \ InUse : sock' = [sock EXCEPT ![r] = p]

(* The bind fails, for the port is taken or for any other reason. *)
ProbeFallback(r, a) ==
    /\ TakeProbe(r, a, "reply")
    /\ UNCHANGED sock

(* mutant: the port of an earlier probe is kept *)
StoreOnce(r) ==
    /\ Serving(r) /\ pc[r] = "store"
    /\ pc' = [pc EXCEPT ![r] = "reply"]
    /\ \E o \in Obj :
          /\ get_or_create_camera(addr[r], o)
          /\ port' = [port EXCEPT ![o] = IF @ = None THEN sock[r] ELSE @]
    /\ UNCHANGED <<mainVars, probe, addr, sock, cam, answer, heard>>

(* The socket is stored with the camera, in place of the one before. *)
Store(r) ==
    /\ Serving(r) /\ pc[r] = "store"
    /\ pc' = [pc EXCEPT ![r] = "reply"]
    /\ \E o \in Obj :
          /\ get_or_create_camera(addr[r], o)
          /\ port' = [port EXCEPT ![o] = sock[r]]
    /\ UNCHANGED <<mainVars, probe, addr, sock, cam, answer, heard>>

(* Code 21, sent or not, with the port that was bound, or for want of one   *)
(* with that of the third router; the handler's own reference goes.         *)
Reply(r) ==
    /\ Serving(r) /\ pc[r] = "reply"
    /\ told' = [told EXCEPT ![addr[r]] = IF sock[r] # None THEN sock[r] ELSE Fallback]
    /\ pc' = [pc EXCEPT ![r] = "idle"]
    /\ addr' = [addr EXCEPT ![r] = None]
    /\ sock' = [sock EXCEPT ![r] = None]
    /\ UNCHANGED <<mainVars, cameras, port, probe, cam, crossed, heard>>

(* handle_code51_response: the camera is looked up, *)
Code51(r, a) ==
    /\ Take(r, a, "update")
    /\ \E o \in Obj :
          /\ get_or_create_camera(a, o)
          /\ cam' = [cam EXCEPT ![r] = o]
    /\ UNCHANGED <<mainVars, port, probe, sock, answer, heard>>

(* mutant: the exchange goes on counting *)
AdvanceOn(n) == n + 1

(* mutant: two exchanges are taken for three *)
AdvanceEarly(n) == IF n < 1 THEN n + 1 ELSE 3

(* NotStarted, InProgress 1 and 2, and Completed from the third on. *)
Advance(n) == IF n < 3 THEN n + 1 ELSE 3

(* and its probe_state advanced; code 50 goes out under the camera's guard. *)
Update(r) ==
    /\ Serving(r) /\ pc[r] = "update"
    /\ pc' = [pc EXCEPT ![r] = "idle"]
    /\ addr' = [addr EXCEPT ![r] = None]
    /\ cam' = [cam EXCEPT ![r] = None]
    /\ probe' = [probe EXCEPT ![cam[r]] = Advance(@)]
    /\ heard' = [heard EXCEPT ![addr[r]] = IF @ < 3 THEN @ + 1 ELSE 3]
    /\ UNCHANGED <<mainVars, cameras, port, sock, answer>>

(* handle_udp_heartbeat: no more than a camera that is there from then on.  *)
handle_udp_heartbeat(r, a) ==
    /\ Serving(r) /\ pc[r] = "idle"
    /\ \E o \in Obj : get_or_create_camera(a, o)
    /\ UNCHANGED <<mainVars, port, probe, pc, addr, sock, cam, answer, heard>>

-----------------------------------------------------------------------------
Init ==
    /\ SupervisorInit
    /\ cameras = [a \in Addr |-> None]
    /\ port = [o \in Obj |-> None]
    /\ probe = [o \in Obj |-> 0]
    /\ pc = [r \in Router |-> "idle"]
    /\ addr = [r \in Router |-> None]
    /\ sock = [r \in Router |-> None]
    /\ cam = [r \in Router |-> None]
    /\ told = [a \in Addr |-> None]
    /\ crossed = [a \in Addr |-> FALSE]
    /\ heard = [a \in Addr |-> 0]

(* With the runtime goes what was known: nothing of it is stored. *)
Forget ==
    /\ cameras' = [a \in Addr |-> None]
    /\ port' = [o \in Obj |-> None]
    /\ probe' = [o \in Obj |-> 0]
    /\ pc' = [r \in Router |-> "idle"]
    /\ addr' = [r \in Router |-> None]
    /\ sock' = [r \in Router |-> None]
    /\ cam' = [r \in Router |-> None]
    /\ told' = [a \in Addr |-> None]
    /\ crossed' = [a \in Addr |-> FALSE]
    /\ heard' = [a \in Addr |-> 0]

Start ==
    /\ BindAndSpawn(RandomPorts) \/ SpawnWeb \/ \E c \in WebServer : BindInside(c)
    /\ UNCHANGED probeVars

Fail == (\E c \in Component : End(c)) /\ UNCHANGED probeVars

Exit == (BindFails \/ Select) /\ Forget

Again == Restart /\ UNCHANGED probeVars

Datagram(r, a) ==
    \/ Probe(r, a) \/ ProbeFallback(r, a) \/ Code51(r, a)
    \/ handle_udp_heartbeat(r, a)

Handle(r) == Store(r) \/ Reply(r) \/ Update(r)

Next ==
    \/ Start \/ Fail \/ Exit \/ Again
    \/ \E r \in Router, a \in Addr : Datagram(r, a)
    \/ \E r \in Router : Handle(r)

Spec == Init /\ [][Next]_allVars

-----------------------------------------------------------------------------
(* PortsTold: the port a camera was told last is that of the socket stored  *)
(* for it, unless it is the fallback, the third router's, which many may be *)
(* told; and no other camera was told the same: although handlers on three  *)
(* routers choose ports at random, bind one that another has just let go,   *)
(* store them later and answer later still.  A camera with a probe under    *)
(* way is left out, and one of whose probes two have crossed: the socket    *)
(* stored last is then not always the one told last.                        *)
Settled(a) == ~ crossed[a] /\ \A r \in Router : ~ Probing(r, a)
ToldOwn(a) == Settled(a) /\ told[a] \notin {None, Fallback}

PortsTold ==
    /\ \A a \in Addr : ToldOwn(a) => cameras[a] # None /\ told[a] = port[cameras[a]]
    /\ \A a, b \in Addr : ToldOwn(a) /\ ToldOwn(b) /\ told[a] = told[b] => a = b

(* SameCamera: a handler that has let go of the manager and waits for its   *)
(* camera has the object everybody finds under that address: what it is     *)
(* going to write is not lost, and no camera has two objects.               *)
SameCamera ==
    /\ \A r \in Router : pc[r] = "update" => cam[r] = cameras[addr[r]]
    /\ \A a, b \in Addr : cameras[a] = cameras[b] /\ cameras[a] # None => a = b

(* ProbeCounts: probe_state says how many code 51 came from the address     *)
(* since the process began, to whichever routers, and Completed means three *)
(* or more: the three iterations of README.md.  It is not set back when the *)
(* camera connects again.                                                   *)
ProbeCounts ==
    \A a \in Addr :
        heard[a] = IF cameras[a] = None THEN 0 ELSE probe[cameras[a]]

(* WaitsForAll: what main.rs:85 says of the end of main: it waits for all   *)
(* components to complete.                                                  *)
WaitsForAll ==
    [][main = "waiting" /\ main' = "exited" =>
          \A c \in Component : task[c] = "ended"]_allVars
=============================================================================
