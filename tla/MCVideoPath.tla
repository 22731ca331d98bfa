----------------------------- MODULE MCVideoPath -----------------------------
(* Values for checking VideoPath: every end fragment ends in the size, and  *)
(* so, by chance, does the data of the first middle fragment of a frame.    *)
EXTENDS VideoPath

MCSizeTail ==
    {packet \in Packet :
        packet.part = "end" \/ (packet.part = "middle" /\ packet.index = 1)}
=============================================================================
