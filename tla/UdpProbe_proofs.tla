---------------------------- MODULE UdpProbe_proofs ----------------------------
(***************************************************************************)
(* The UDP routers keep their ports and their cameras apart, for any       *)
(* addresses, objects and ports.                                           *)
(*                                                                         *)
(* The invariant adds to the stated properties where each handler stands   *)
(* (HandlerAt): it has an address from its datagram to its end, a socket   *)
(* only in a probe and an object only in a code 51; and that an object     *)
(* which is no camera's has counted nothing (Uncounted), for one of those  *)
(* becomes the next camera.  All of it rests on MapGrows: the map of the   *)
(* cameras only ever gains an entry, and it is a new object.               *)
(*                                                                         *)
(* What a camera is told rests on two things more: no two sockets have a   *)
(* port in common (SocketsApart), and a probe that is about to be answered *)
(* has stored its own, unless it was crossed by another (Told).            *)
(***************************************************************************)
EXTENDS UdpProbe, TLAPS

HandlerAt ==
    \A r \in Router :
        /\ pc[r] \in {"store", "reply", "update"} => addr[r] \in Addr
        /\ pc[r] = "store" => sock[r] # None
        /\ sock[r] # None => pc[r] \in {"store", "reply"}
        /\ pc[r] = "update" => cam[r] \in Obj

Uncounted ==
    \A o \in Obj : (\A a \in Addr : cameras[a] # o) => probe[o] = 0

(* The port stored for a camera is no other camera's and no router's; and   *)
(* that of a socket a handler refers to is its own, or the one it has       *)
(* stored with the camera it works for.                                     *)
SocketsApart ==
    /\ \A o, q \in Obj : port[o] = port[q] /\ port[o] # None => o = q
    /\ \A r, s \in Router : sock[r] = sock[s] /\ sock[r] # None => r = s
    /\ \A o \in Obj, r \in Router : port[o] = sock[r] /\ sock[r] # None =>
          pc[r] = "reply" /\ o = cameras[addr[r]]
    /\ RouterPorts \cap RandomPorts = {}

Told ==
    /\ \A r, s \in Router, a \in Addr :
          Probing(r, a) /\ Probing(s, a) /\ ~ crossed[a] => r = s
    /\ \A r \in Router, a \in Addr :
          Probing(r, a) /\ pc[r] = "reply" /\ sock[r] # None /\ ~ crossed[a] =>
             cameras[a] # None /\ port[cameras[a]] = sock[r]
    /\ \A a \in Addr : ToldOwn(a) => cameras[a] # None /\ told[a] = port[cameras[a]]

UInv ==
    /\ TypeOK /\ HandlerAt /\ Uncounted
    /\ SocketsApart /\ Told /\ SameCamera /\ ProbeCounts

-----------------------------------------------------------------------------
LEMMA StartupComponents ==
    /\ \A i \in 1 .. 6 : Startup[i] \in Component
    /\ \A i \in {5, 6} : Startup[i] \notin Router
    /\ \A c \in WebServer : c \in Component /\ c \notin Router
    /\ Router \subseteq Component
<1>1. \A i \in 1 .. 6 : i = 1 \/ i = 2 \/ i = 3 \/ i = 4 \/ i = 5 \/ i = 6
    OBVIOUS
<1> QED
    BY <1>1 DEF Startup, Component, Router, WebServer

(* What get_or_create_camera does to the map: the address has the object,   *)
(* every other is left alone, and a camera made has counted nothing.        *)
LEMMA MapGrows ==
    ASSUME UInv, NEW a \in Addr, NEW o \in Obj, get_or_create_camera(a, o)
    PROVE  /\ cameras' \in [Addr -> Obj \cup {None}]
           /\ cameras'[a] = o
           /\ \A b \in Addr : cameras[b] # None => cameras'[b] = cameras[b]
           /\ \A b \in Addr : b # a => cameras'[b] = cameras[b]
           /\ \A b, c \in Addr :
                 cameras'[b] = cameras'[c] /\ cameras'[b] # None => b = c
           /\ cameras[a] = None => probe[o] = 0
           /\ \A q \in Obj : (\A b \in Addr : cameras'[b] # q) =>
                 \A b \in Addr : cameras[b] # q
<1>1. None \notin Obj
    BY NoneAssumption
<1>2. CASE cameras[a] # None
    BY <1>1, <1>2 DEF get_or_create_camera, UInv, TypeOK, SameCamera
<1>3. CASE cameras[a] = None
    <2>1. /\ cameras' = [cameras EXCEPT ![a] = o]
          /\ \A b \in Addr : cameras[b] # o
        BY <1>3 DEF get_or_create_camera, Fresh
    <2>2. probe[o] = 0
        BY <2>1 DEF UInv, Uncounted
    <2> QED
        BY <1>1, <1>3, <2>1, <2>2 DEF UInv, TypeOK, SameCamera
<1> QED
    BY <1>2, <1>3

(* What follows for the parts of the invariant a handler does not write to  *)
(* when all it did to the cameras was to look one up.                       *)
LEMMA LookupKeeps ==
    ASSUME UInv, NEW a \in Addr, NEW o \in Obj, get_or_create_camera(a, o),
           UNCHANGED <<probe, heard>>
    PROVE  /\ Uncounted'
           /\ ProbeCounts'
           /\ \A r \in Router : pc[r] = "update" => cam[r] = cameras'[addr[r]]
           /\ \A r \in Router : addr[r] \in Addr /\ cameras[addr[r]] # None =>
                 cameras'[addr[r]] = cameras[addr[r]]
<1>1. None \notin Obj
    BY NoneAssumption
<1>2. Uncounted'
    BY MapGrows DEF UInv, Uncounted
<1>3. ASSUME NEW b \in Addr
      PROVE  heard'[b] = IF cameras'[b] = None THEN 0 ELSE probe'[cameras'[b]]
    <2>1. CASE cameras[b] # None
        BY <2>1, MapGrows DEF UInv, ProbeCounts
    <2>2. CASE cameras[b] = None /\ b # a
        BY <2>2, MapGrows DEF UInv, ProbeCounts
    <2>3. CASE cameras[b] = None /\ b = a
        BY <1>1, <2>3, MapGrows DEF UInv, ProbeCounts
    <2> QED
        BY <2>1, <2>2, <2>3
<1>4. ProbeCounts'
    BY <1>3 DEF ProbeCounts
<1>5. \A r \in Router : pc[r] = "update" => cam[r] = cameras'[addr[r]]
    BY <1>1, MapGrows DEF UInv, HandlerAt, SameCamera
<1> QED
    BY <1>2, <1>4, <1>5, MapGrows

(* What a step does to the answers that has no part in a probe. *)
LEMMA ToldKept ==
    ASSUME UInv, UNCHANGED <<port, sock, told, crossed>>,
           \A r \in Router, a \in Addr : Probing(r, a)' <=> Probing(r, a),
           \A r \in Router : sock[r] # None => pc'[r] = pc[r],
           \A a \in Addr : cameras[a] # None => cameras'[a] = cameras[a]
    PROVE  Told'
<1>1. \A r, s \in Router, a \in Addr :
         Probing(r, a)' /\ Probing(s, a)' /\ ~ crossed'[a] => r = s
    BY DEF UInv, Told
<1>2. ASSUME NEW r \in Router, NEW a \in Addr, Probing(r, a)', pc'[r] = "reply",
             sock'[r] # None, ~ crossed'[a]
      PROVE  cameras'[a] # None /\ port'[cameras'[a]] = sock'[r]
    <2>1. cameras[a] # None /\ port[cameras[a]] = sock[r]
        BY <1>2 DEF UInv, Told
    <2> QED
        BY <2>1
<1>3. ASSUME NEW a \in Addr, ToldOwn(a)'
      PROVE  cameras'[a] # None /\ told'[a] = port'[cameras'[a]]
    <2>1. ToldOwn(a)
        BY <1>3 DEF ToldOwn, Settled
    <2>2. cameras[a] # None /\ told[a] = port[cameras[a]]
        BY <2>1 DEF UInv, Told
    <2> QED
        BY <2>2
<1> QED
    BY <1>1, <1>2, <1>3 DEF Told

-----------------------------------------------------------------------------
(* The supervisor: it binds no port that is in use and closes none of them. *)
LEMMA UStarts ==
    ASSUME UInv, Start \/ Fail
    PROVE  UInv'
<1> USE StartupComponents DEF UInv, TypeOK, SupervisorTypeOK
<1>1. UNCHANGED probeVars
    BY DEF Start, Fail
<1>2. SupervisorTypeOK'
    BY DEF Start, Fail, BindAndSpawn, SpawnWeb, BindInside, End
<1>3. RouterPorts' \cap RandomPorts = {}
    <2>1. CASE BindAndSpawn(RandomPorts)
        BY <2>1 DEF BindAndSpawn, RouterPorts, SocketsApart
    <2>2. CASE SpawnWeb
        BY <2>2 DEF SpawnWeb, RouterPorts, SocketsApart
    <2>3. CASE \E c \in WebServer : BindInside(c)
        BY <2>3 DEF BindInside, RouterPorts, SocketsApart
    <2>4. CASE \E c \in Component : End(c)
        BY <2>4 DEF End, RouterPorts, SocketsApart
    <2> QED
        BY <2>1, <2>2, <2>3, <2>4 DEF Start, Fail
<1>4. SocketsApart'
    BY <1>1, <1>3 DEF SocketsApart, RandomPorts, probeVars
<1>5. Told'
    BY <1>1, ToldKept DEF probeVars, answer, Probing
<1> QED
    BY <1>1, <1>2, <1>4, <1>5
    DEF HandlerAt, Uncounted, SameCamera, ProbeCounts, probeVars, answer

(* With the runtime everything goes, the ports too. *)
LEMMA UExits ==
    ASSUME UInv, Exit
    PROVE  UInv'
<1>1. Forget /\ task' = Absent /\ main' = "exited" /\ started' = 0
    BY DEF Exit, BindFails, Select
<1>2. TypeOK'
    BY <1>1 DEF Forget, TypeOK, SupervisorTypeOK, Absent
<1>3. RouterPorts' = {}
    BY <1>1, StartupComponents DEF Absent, RouterPorts
<1> QED
    BY <1>1, <1>2, <1>3, NoneAssumption
    DEF UInv, Forget, HandlerAt, Uncounted, SocketsApart, SameCamera, ProbeCounts,
        Told, Probing, ToldOwn, Settled

LEMMA URestarts ==
    ASSUME UInv, Again
    PROVE  UInv'
<1>1. UNCHANGED <<task, started>> /\ UNCHANGED probeVars /\ main' = "starting"
    BY DEF Again, Restart
<1>2. Told'
    BY <1>1, ToldKept DEF probeVars, answer, Probing
<1>3. TypeOK' /\ HandlerAt' /\ Uncounted'
    BY <1>1 DEF UInv, probeVars, answer, TypeOK, SupervisorTypeOK, HandlerAt, Uncounted
<1>4. SocketsApart' /\ SameCamera' /\ ProbeCounts'
    BY <1>1 DEF UInv, probeVars, answer, SocketsApart, RouterPorts, RandomPorts,
        SameCamera, ProbeCounts
<1> QED
    BY <1>2, <1>3, <1>4 DEF UInv

-----------------------------------------------------------------------------
(* A probe takes a port that is not in use, or none. *)
LEMMA UProbes ==
    ASSUME UInv, NEW r \in Router, NEW a \in Addr,
           Probe(r, a) \/ ProbeFallback(r, a)
    PROVE  UInv'
<1> USE DEF UInv, TypeOK
<1>1. /\ pc[r] = "idle" /\ sock[r] = None
      /\ addr' = [addr EXCEPT ![r] = a]
      /\ crossed' = [crossed EXCEPT ![a] = \E s \in Router : Probing(s, a)]
      /\ UNCHANGED <<mainVars, cameras, port, probe, cam, told, heard>>
    BY DEF Probe, ProbeFallback, TakeProbe, Take, HandlerAt
<1>2. Told'
    <2>1. PICK label \in {"store", "reply"} : pc' = [pc EXCEPT ![r] = label]
        BY DEF Probe, ProbeFallback, TakeProbe, Take
    <2>2. /\ Probing(r, a)'
          /\ \A s \in Router, b \in Addr : s # r =>
                /\ Probing(s, b)' <=> Probing(s, b)
                /\ pc'[s] = pc[s]
          /\ \A b \in Addr : b # a => ~ Probing(r, b)' /\ ~ Probing(r, b)
        BY <1>1, <2>1 DEF Probing
    <2>3. \A s \in Router : s # r => sock'[s] = sock[s]
        BY DEF Probe, ProbeFallback
    <2>4. crossed'[a] <=> \E s \in Router : Probing(s, a)
        BY <1>1
    <2>5. \A b \in Addr : b # a => crossed'[b] = crossed[b]
        BY <1>1
    <2>6. \A s, t \in Router, b \in Addr :
             Probing(s, b)' /\ Probing(t, b)' /\ ~ crossed'[b] => s = t
        BY <2>2, <2>4, <2>5 DEF Told
    <2>7. ASSUME NEW s \in Router, NEW b \in Addr, Probing(s, b)', pc'[s] = "reply",
                 sock'[s] # None, ~ crossed'[b]
          PROVE  cameras'[b] # None /\ port'[cameras'[b]] = sock'[s]
        <3>1. CASE s = r
            <4>1. pc' = [pc EXCEPT ![r] = "reply"] /\ sock' = sock
                BY <2>7, <3>1 DEF Probe, ProbeFallback, TakeProbe, Take
            <4> QED
                BY <1>1, <2>7, <3>1, <4>1
        <3>2. CASE s # r
            <4>1. b # a
                BY <2>2, <2>4, <2>7, <3>2
            <4> QED
                BY <1>1, <2>2, <2>3, <2>5, <2>7, <3>2, <4>1 DEF Told
        <3> QED
            BY <3>1, <3>2
    <2>8. ASSUME NEW b \in Addr, ToldOwn(b)'
          PROVE  cameras'[b] # None /\ told'[b] = port'[cameras'[b]]
        <3>1. b # a
            BY <2>2, <2>8 DEF ToldOwn, Settled
        <3>2. ToldOwn(b)
            BY <1>1, <2>2, <2>5, <2>8, <3>1 DEF ToldOwn, Settled
        <3> QED
            BY <1>1, <3>2 DEF Told
    <2> QED
        BY <2>6, <2>7, <2>8 DEF Told
<1>3. CASE Probe(r, a)
    <2>1. PICK p \in RandomPort \ InUse : sock' = [sock EXCEPT ![r] = p]
        BY <1>3 DEF Probe
    <2>2. pc' = [pc EXCEPT ![r] = "store"] /\ p # None
        BY <1>3, NoneAssumption DEF Probe, TakeProbe, Take
    <2>3. TypeOK' /\ HandlerAt'
        BY <1>1, <2>1, <2>2 DEF HandlerAt, mainVars, SupervisorTypeOK
    <2>4. RandomPorts' = RandomPorts \cup {p} /\ RouterPorts' = RouterPorts
        BY <1>1, <2>1, <2>2 DEF RandomPorts, RouterPorts, mainVars
    <2>5. /\ \A o \in Obj : port[o] # p
          /\ \A s \in Router : sock[s] # p
          /\ p \notin RouterPorts
        BY <2>2 DEF InUse, RandomPorts
    <2>6. SocketsApart'
        BY <1>1, <2>1, <2>2, <2>4, <2>5 DEF SocketsApart
    <2> QED
        BY <1>2, <1>1, <2>2, <2>3, <2>6 DEF Uncounted, SameCamera, ProbeCounts
<1>4. CASE ProbeFallback(r, a)
    <2>1. pc' = [pc EXCEPT ![r] = "reply"] /\ UNCHANGED sock
        BY <1>4 DEF ProbeFallback, TakeProbe, Take
    <2>2. TypeOK' /\ HandlerAt'
        BY <1>1, <2>1 DEF HandlerAt, mainVars, SupervisorTypeOK
    <2>3. SocketsApart'
        <3>1. RouterPorts' = RouterPorts /\ RandomPorts' = RandomPorts
            BY <1>1, <2>1 DEF RandomPorts, RouterPorts, mainVars
        <3>2. \A s \in Router : sock[s] # None => pc'[s] = pc[s] /\ addr'[s] = addr[s]
            BY <1>1, <2>1
        <3> QED
            BY <1>1, <2>1, <3>1, <3>2 DEF SocketsApart
    <2> QED
        BY <1>2, <1>1, <2>1, <2>2, <2>3 DEF Uncounted, SameCamera, ProbeCounts
<1> QED
    BY <1>3, <1>4

(* The socket goes to the camera of the address, and no other has it. *)
LEMMA UStores ==
    ASSUME UInv, NEW r \in Router, Store(r)
    PROVE  UInv'
<1> USE DEF UInv, TypeOK
<1>1. /\ addr[r] \in Addr /\ sock[r] # None
      /\ pc[r] = "store" /\ pc' = [pc EXCEPT ![r] = "reply"]
      /\ UNCHANGED <<mainVars, probe, addr, sock, cam, told, crossed, heard>>
    BY DEF Store, HandlerAt, answer
<1>2. PICK o \in Obj : /\ get_or_create_camera(addr[r], o)
                       /\ port' = [port EXCEPT ![o] = sock[r]]
    BY DEF Store
<1>3. TypeOK' /\ HandlerAt'
    BY <1>1, <1>2, MapGrows DEF HandlerAt, mainVars, SupervisorTypeOK
<1>4. /\ \A q \in Obj : port[q] # sock[r]
      /\ \A s \in Router : s # r => sock[s] # sock[r]
    BY <1>1 DEF SocketsApart
<1>5. RandomPorts' \subseteq RandomPorts /\ RouterPorts' = RouterPorts
    BY <1>1, <1>2 DEF RandomPorts, RouterPorts, mainVars
<1>6. ASSUME NEW q \in Obj, NEW s \in Router, port'[q] = sock'[s], sock'[s] # None
      PROVE  pc'[s] = "reply" /\ q = cameras'[addr'[s]]
    <2>1. CASE q = o
        BY <1>1, <1>2, <1>4, <1>6, <2>1, MapGrows
    <2>2. CASE q # o
        <3>1. pc[s] = "reply" /\ q = cameras[addr[s]]
            BY <1>1, <1>2, <1>6, <2>2 DEF SocketsApart
        <3>2. addr[s] \in Addr /\ cameras[addr[s]] # None
            BY <3>1, NoneAssumption DEF HandlerAt
        <3> QED
            BY <1>1, <1>2, <3>1, <3>2, MapGrows
    <2> QED
        BY <2>1, <2>2
<1>7. SocketsApart'
    BY <1>1, <1>2, <1>4, <1>5, <1>6 DEF SocketsApart
<1>8. Uncounted' /\ ProbeCounts' /\ SameCamera'
    BY <1>1, <1>2, MapGrows, LookupKeeps DEF SameCamera
<1>9. Told'
    <2>1. /\ cameras'[addr[r]] = o /\ o # None
          /\ \A b \in Addr : cameras[b] # None => cameras'[b] = cameras[b]
          /\ \A b \in Addr : b # addr[r] => cameras'[b] # o
        BY <1>1, <1>2, MapGrows, NoneAssumption
    <2>2. \A s \in Router, b \in Addr : Probing(s, b)' <=> Probing(s, b)
        BY <1>1 DEF Probing
    <2>3. \A s, t \in Router, b \in Addr :
             Probing(s, b)' /\ Probing(t, b)' /\ ~ crossed'[b] => s = t
        BY <1>1, <2>2 DEF Told
    <2>4. ASSUME NEW s \in Router, NEW b \in Addr, Probing(s, b)', pc'[s] = "reply",
                 sock'[s] # None, ~ crossed'[b]
          PROVE  cameras'[b] # None /\ port'[cameras'[b]] = sock'[s]
        <3>1. CASE b = addr[r]
            <4>1. Probing(r, b)'
                BY <1>1, <3>1 DEF Probing
            <4>2. s = r
                BY <2>3, <2>4, <4>1
            <4> QED
                BY <1>1, <1>2, <2>1, <3>1, <4>2
        <3>2. CASE b # addr[r]
            <4>1. s # r /\ pc[s] = "reply" /\ Probing(s, b)
                BY <1>1, <2>2, <2>4, <3>2 DEF Probing
            <4>2. cameras[b] # None /\ port[cameras[b]] = sock[s]
                BY <1>1, <2>4, <4>1 DEF Told
            <4>3. cameras'[b] = cameras[b] /\ cameras[b] \in Obj /\ cameras[b] # o
                BY <2>1, <3>2, <4>2
            <4> QED
                BY <1>1, <1>2, <4>2, <4>3
        <3> QED
            BY <3>1, <3>2
    <2>5. ASSUME NEW b \in Addr, ToldOwn(b)'
          PROVE  cameras'[b] # None /\ told'[b] = port'[cameras'[b]]
        <3>1. b # addr[r]
            BY <1>1, <2>5 DEF ToldOwn, Settled, Probing
        <3>2. ToldOwn(b)
            BY <1>1, <2>2, <2>5 DEF ToldOwn, Settled
        <3>3. cameras[b] # None /\ told[b] = port[cameras[b]]
            BY <3>2 DEF Told
        <3>4. cameras'[b] = cameras[b] /\ cameras[b] \in Obj /\ cameras[b] # o
            BY <2>1, <3>1, <3>3
        <3> QED
            BY <1>1, <1>2, <3>3, <3>4
    <2> QED
        BY <2>3, <2>4, <2>5 DEF Told
<1> QED
    BY <1>3, <1>7, <1>8, <1>9

LEMMA UReplies ==
    ASSUME UInv, NEW r \in Router, Reply(r)
    PROVE  UInv'
<1> USE DEF UInv, TypeOK
<1>1. /\ pc[r] = "reply" /\ pc' = [pc EXCEPT ![r] = "idle"]
      /\ addr' = [addr EXCEPT ![r] = None]
      /\ sock' = [sock EXCEPT ![r] = None]
      /\ addr[r] \in Addr
      /\ told' = [told EXCEPT ![addr[r]] =
                       IF sock[r] # None THEN sock[r] ELSE Fallback]
      /\ UNCHANGED <<mainVars, cameras, port, probe, cam, crossed, heard>>
    BY DEF Reply, HandlerAt
<1>2. TypeOK' /\ HandlerAt'
    BY <1>1 DEF HandlerAt, mainVars, SupervisorTypeOK
<1>3. Told'
    <2>1. \A s \in Router, b \in Addr : s # r => (Probing(s, b)' <=> Probing(s, b))
        BY <1>1 DEF Probing
    <2>2. \A b \in Addr : ~ Probing(r, b)' /\ (Probing(r, b) <=> b = addr[r])
        BY <1>1 DEF Probing
    <2>3. \A s, t \in Router, b \in Addr :
             Probing(s, b)' /\ Probing(t, b)' /\ ~ crossed'[b] => s = t
        BY <1>1, <2>1, <2>2 DEF Told
    <2>4. \A s \in Router, b \in Addr :
             Probing(s, b)' /\ pc'[s] = "reply" /\ sock'[s] # None /\ ~ crossed'[b] =>
                cameras'[b] # None /\ port'[cameras'[b]] = sock'[s]
        BY <1>1, <2>1, <2>2 DEF Told
    <2>5. ASSUME NEW b \in Addr, ToldOwn(b)'
          PROVE  cameras'[b] # None /\ told'[b] = port'[cameras'[b]]
        <3>1. CASE b = addr[r]
            <4>1. sock[r] # None /\ told'[b] = sock[r]
                BY <1>1, <2>5, <3>1 DEF ToldOwn
            <4>2. ~ crossed[b] /\ Probing(r, b)
                BY <1>1, <2>2, <2>5, <3>1 DEF ToldOwn, Settled
            <4> QED
                BY <1>1, <4>1, <4>2 DEF Told
        <3>2. CASE b # addr[r]
            <4>1. ToldOwn(b)
                BY <1>1, <2>1, <2>2, <2>5, <3>2 DEF ToldOwn, Settled
            <4> QED
                BY <1>1, <3>2, <4>1 DEF Told
        <3> QED
            BY <3>1, <3>2
    <2> QED
        BY <2>3, <2>4, <2>5 DEF Told
<1>4. RandomPorts' \subseteq RandomPorts /\ RouterPorts' = RouterPorts
    BY <1>1 DEF RandomPorts, RouterPorts, mainVars
<1>5. SocketsApart'
    BY <1>1, <1>4 DEF SocketsApart
<1> QED
    BY <1>1, <1>2, <1>5, <1>3 DEF Uncounted, SameCamera, ProbeCounts

-----------------------------------------------------------------------------
(* The first half of a code 51 looks the camera up, *)
LEMMA ULooksUp ==
    ASSUME UInv, NEW r \in Router, NEW a \in Addr,
           Code51(r, a) \/ handle_udp_heartbeat(r, a)
    PROVE  UInv'
<1> USE DEF UInv, TypeOK
<1>1. /\ pc[r] = "idle" /\ sock[r] = None
      /\ UNCHANGED <<mainVars, port, probe, sock, told, crossed, heard>>
    BY DEF Code51, handle_udp_heartbeat, Take, HandlerAt, answer
<1>2. PICK o \in Obj :
          /\ get_or_create_camera(a, o)
          /\ \/ /\ pc' = [pc EXCEPT ![r] = "update"]
                /\ addr' = [addr EXCEPT ![r] = a]
                /\ cam' = [cam EXCEPT ![r] = o]
             \/ UNCHANGED <<pc, addr, cam>>
    BY DEF Code51, handle_udp_heartbeat, Take
<1>3. TypeOK' /\ HandlerAt'
    BY <1>1, <1>2, MapGrows DEF HandlerAt, mainVars, SupervisorTypeOK
<1>4. ASSUME NEW q \in Obj, NEW s \in Router, port'[q] = sock'[s], sock'[s] # None
      PROVE  pc'[s] = "reply" /\ q = cameras'[addr'[s]]
    <2>1. s # r /\ pc[s] = "reply" /\ q = cameras[addr[s]]
        BY <1>1, <1>4 DEF SocketsApart
    <2>2. addr[s] \in Addr /\ cameras[addr[s]] # None
        BY <2>1, NoneAssumption DEF HandlerAt
    <2> QED
        BY <1>2, <2>1, <2>2, MapGrows
<1>5. SocketsApart'
    <2>1. RandomPorts' = RandomPorts /\ RouterPorts' = RouterPorts
        BY <1>1 DEF RandomPorts, RouterPorts, mainVars
    <2> QED
        BY <1>1, <1>4, <2>1 DEF SocketsApart
<1>6. SameCamera'
    BY <1>1, <1>2, MapGrows, LookupKeeps DEF SameCamera
<1>7. Told'
    BY <1>1, <1>2, MapGrows, ToldKept DEF Probing, HandlerAt
<1> QED
    BY <1>1, <1>2, <1>3, <1>5, <1>6, <1>7, LookupKeeps

(* and the second, which no one else can have got between, counts it. *)
LEMMA UCounts ==
    ASSUME UInv, NEW r \in Router, Update(r)
    PROVE  UInv'
<1> USE DEF UInv, TypeOK
<1>1. /\ pc[r] = "update" /\ pc' = [pc EXCEPT ![r] = "idle"]
      /\ addr[r] \in Addr /\ addr' = [addr EXCEPT ![r] = None]
      /\ cam[r] \in Obj /\ cam' = [cam EXCEPT ![r] = None]
      /\ probe' = [probe EXCEPT ![cam[r]] = Advance(@)]
      /\ heard' = [heard EXCEPT ![addr[r]] = IF @ < 3 THEN @ + 1 ELSE 3]
      /\ UNCHANGED <<mainVars, cameras, port, sock, told, crossed>>
    BY DEF Update, HandlerAt, answer
<1>2. \A n \in 0 .. 3 : Advance(n) \in 0 .. 3 /\ (IF n < 3 THEN n + 1 ELSE 3) \in 0 .. 3
    BY DEF Advance
<1>3. TypeOK'
    BY <1>1, <1>2 DEF mainVars, SupervisorTypeOK
<1>4. cam[r] = cameras[addr[r]] /\ sock[r] = None /\ cam[r] # None
    BY <1>1, NoneAssumption DEF SameCamera, HandlerAt
<1>5. HandlerAt' /\ Uncounted' /\ SameCamera'
    BY <1>1, <1>4 DEF HandlerAt, Uncounted, SameCamera
<1>6. SocketsApart'
    <2>1. RandomPorts' = RandomPorts /\ RouterPorts' = RouterPorts
        BY <1>1 DEF RandomPorts, RouterPorts, mainVars
    <2>2. \A s \in Router : sock[s] # None => pc'[s] = pc[s] /\ addr'[s] = addr[s]
        BY <1>1, <1>4
    <2> QED
        BY <1>1, <2>1, <2>2 DEF SocketsApart
<1>7. ASSUME NEW a \in Addr
      PROVE  heard'[a] = IF cameras'[a] = None THEN 0 ELSE probe'[cameras'[a]]
    <2>1. CASE a = addr[r]
        BY <1>1, <1>4, <2>1 DEF ProbeCounts, Advance
    <2>2. CASE a # addr[r]
        BY <1>1, <1>4, <2>2 DEF ProbeCounts, SameCamera
    <2> QED
        BY <2>1, <2>2
<1>8. Told'
    BY <1>1, <1>4, ToldKept DEF Probing
<1> QED
    BY <1>3, <1>5, <1>6, <1>7, <1>8 DEF ProbeCounts

-----------------------------------------------------------------------------
LEMMA UInit == Init => UInv
BY NoneAssumption, StartupComponents
DEF Init, SupervisorInit, Absent, UInv, TypeOK, SupervisorTypeOK, HandlerAt, Uncounted,
    SocketsApart, RouterPorts, RandomPorts, SameCamera, ProbeCounts, Told, Probing,
    ToldOwn, Settled

LEMMA UStep == UInv /\ [Next]_allVars => UInv'
<1> SUFFICES ASSUME UInv, [Next]_allVars PROVE UInv'
    OBVIOUS
<1>1. CASE Start \/ Fail
    BY <1>1, UStarts
<1>2. CASE Exit
    BY <1>2, UExits
<1>3. CASE Again
    BY <1>3, URestarts
<1>4. CASE \E r \in Router, a \in Addr : Datagram(r, a)
    BY <1>4, UProbes, ULooksUp DEF Datagram
<1>5. CASE \E r \in Router : Handle(r)
    BY <1>5, UStores, UReplies, UCounts DEF Handle
<1>6. CASE UNCHANGED allVars
    <2>1. /\ UNCHANGED <<main, started, task, cameras, port, probe>>
          /\ UNCHANGED <<pc, addr, sock, cam, told, crossed, heard>>
        BY <1>6 DEF allVars, mainVars, probeVars, answer
    <2>2. TypeOK' /\ HandlerAt' /\ Uncounted'
        BY <2>1 DEF UInv, TypeOK, SupervisorTypeOK, HandlerAt, Uncounted
    <2>3. RouterPorts' = RouterPorts /\ RandomPorts' = RandomPorts
        BY <2>1 DEF RouterPorts, RandomPorts
    <2>4. SocketsApart' /\ SameCamera' /\ ProbeCounts'
        BY <2>1, <2>3 DEF UInv, SocketsApart, SameCamera, ProbeCounts
    <2>5. Told'
        BY <2>1, ToldKept DEF Probing
    <2> QED
        BY <2>2, <2>4, <2>5 DEF UInv
<1> QED
    BY <1>1, <1>2, <1>3, <1>4, <1>5, <1>6 DEF Next

(* UdpTypes: every variable keeps its type. *)
THEOREM UdpTypes == Spec => []TypeOK
<1>1. UInv => TypeOK
    BY DEF UInv
<1> QED
    BY <1>1, UInit, UStep, PTL DEF Spec

(* PortsToldRight: whatever routers and ports there are, and however probes *)
(* and their answers interleave, a camera whose probes did not cross was    *)
(* told the port of the socket stored for it or the fallback, and no other  *)
(* such camera was told its own.                                            *)
THEOREM PortsToldRight == Spec => []PortsTold
<1>1. ASSUME UInv PROVE PortsTold
    <2>1. \A a \in Addr : ToldOwn(a) => cameras[a] # None /\ told[a] = port[cameras[a]]
        BY <1>1 DEF UInv, Told
    <2>2. ASSUME NEW a \in Addr, NEW b \in Addr, ToldOwn(a), ToldOwn(b), told[a] = told[b]
          PROVE  a = b
        <3>1. /\ cameras[a] \in Obj /\ cameras[b] \in Obj
              /\ port[cameras[a]] = port[cameras[b]] /\ port[cameras[a]] # None
            BY <1>1, <2>1, <2>2 DEF UInv, TypeOK, ToldOwn
        <3>2. cameras[a] = cameras[b] /\ cameras[a] # None
            BY <1>1, <3>1, NoneAssumption DEF UInv, SocketsApart
        <3> QED
            BY <1>1, <3>2 DEF UInv, SameCamera
    <2> QED
        BY <2>1, <2>2 DEF PortsTold
<1> QED
    BY <1>1, UInit, UStep, PTL DEF Spec

(* OneCamera: the camera a handler waits for after it let go of the manager *)
(* is the one everybody finds, and each address has its own.                *)
THEOREM OneCamera == Spec => []SameCamera
<1>1. UInv => SameCamera
    BY DEF UInv
<1> QED
    BY <1>1, UInit, UStep, PTL DEF Spec

(* CountsExact: no exchange is counted twice or lost, whichever routers get *)
(* the datagrams of a camera.                                               *)
THEOREM CountsExact == Spec => []ProbeCounts
<1>1. UInv => ProbeCounts
    BY DEF UInv
<1> QED
    BY <1>1, UInit, UStep, PTL DEF Spec
=============================================================================
