------------------------------ MODULE MCUdpProbe ------------------------------
(* Values for checking UdpProbe: the ports of the routers, of which p3 is   *)
(* one that a probe may choose, the component that may end, and that        *)
(* addresses and objects are alike among themselves.                        *)
EXTENDS UdpProbe, TLC

CONSTANTS p1, p2, p3

MCRouterPort ==
    [r \in Router |-> IF r = "udp1" THEN p1 ELSE IF r = "udp2" THEN p2 ELSE p3]

MCFailing == {"udp2"}

MCSymmetry == Permutations(Addr) \cup Permutations(Obj)
=============================================================================
