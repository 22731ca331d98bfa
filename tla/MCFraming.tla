------------------------------ MODULE MCFraming ------------------------------
(* Values for checking Framing: a text with an object in it that is a text  *)
(* by itself, a picture of the same bytes, and one that looks like a        *)
(* heartbeat followed by that text and is too long for one read.            *)
EXTENDS Framing

Inner == <<123, 50, 125>>
Nested == <<123>> \o Inner \o <<125>>

MCParses == {Inner, Nested}
MCTexts == {Nested}
MCPictures == {Inner, to_bytes(heartbeat(0)) \o Inner}
=============================================================================
