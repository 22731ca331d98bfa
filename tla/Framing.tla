------------------------------- MODULE Framing -------------------------------
(***************************************************************************)
(* How the messages of a camera come through TCP: the reading loop of      *)
(* handle_connection and the dispatch of process_message, src/router/      *)
(* tcp.rs, on the bytes of src/protocol/binary.rs.                         *)
(*                                                                         *)
(* A read returns any number of the bytes that are there, up to a buffer   *)
(* full, and the code takes what one read returned for one message: its    *)
(* first 20 bytes for the header, all others for the payload.  Nothing is  *)
(* kept from one read to the next.  So messages that arrive together, or   *)
(* in pieces, are misread, and bytes from the middle of one may be taken   *)
(* for a header, or for a text that was never sent.                        *)
(***************************************************************************)
EXTENDS BinaryHeader

CONSTANTS
    Parses,         \* the bytes that read as a JSON text with a known code
    Texts,          \* the JSON texts the camera sends
    Pictures,       \* the payloads of its video frames, of any bytes
    BufferSize,     \* what one read can return: 4096 in handle_connection
    MaxSent         \* bound: messages in a connection

Bytes == Seq(0 .. 255)

(* A JSON text does not begin with NUL. *)
ASSUME TextAssumption ==
    /\ \A text \in Parses : text \in Bytes /\ text # <<>> /\ text[1] # 0
    /\ Texts \subseteq Parses
ASSUME PictureAssumption == \A picture \in Pictures : picture \in Bytes
ASSUME BoundAssumption == BufferSize \in Nat /\ MaxSent \in Nat

VARIABLES
    link,       \* "down", "up", or "closing" when the camera has closed it
    sent,       \* the messages sent in this connection
    unread,     \* bytes that were sent and not yet read
    begins,     \* ghost: where in unread each message begins, counted from 1;
                \* below 1 once it is read, or its beginning is
    log,        \* what was handled: [what, from]; from, a ghost, is the
                \* number of the message that was read alone, or 0
    alone       \* ghost: messages each of which one read returned, and no more

vars == <<link, sent, unread, begins, log, alone>>

-----------------------------------------------------------------------------
Of(kind, body) == [kind |-> kind, body |-> body]

(* What a camera may send. *)
Messages ==
    {Of("json", text) : text \in Texts} \cup {Of("video", picture) : picture \in Pictures}
        \cup {Of("keepalive", <<>>), Of("heartbeat", <<>>)}

HeaderOf(message) ==
    CASE message.kind = "json" -> json(0, Len(message.body))
      [] message.kind = "video" -> video_frame(0, Len(message.body), 252)
      [] message.kind = "keepalive" -> binary(99, 0, 0)
      [] message.kind = "heartbeat" -> heartbeat(0)

BytesOf(message) == to_bytes(HeaderOf(message)) \o message.body
Size(message) == SIZE + Len(message.body)

-----------------------------------------------------------------------------
(* The text a payload parses to, if any: leading zeros are trimmed. *)
Parsed(payload) ==
    {text \in Parses : \E zeros \in 0 .. Len(payload) :
        /\ \A i \in 1 .. zeros : payload[i] = 0
        /\ SubSeq(payload, zeros + 1, Len(payload)) = text}

(* process_message on data with a header: what is handled, if anything is.  *)
(* Text that does not parse and commands nobody knows are passed over.      *)
process_message(data) ==
    LET cmd == from_bytes(data).header.cmd
        payload == from_bytes(data).payload
    IN IF cmd \in {0, 87} THEN {Of("json", text) : text \in Parsed(payload)}
       ELSE IF cmd = 99 THEN {Of("keepalive", <<>>)}
       ELSE IF cmd = 100 THEN {Of("heartbeat", <<>>)}
       ELSE IF cmd \in {1, 4, 6, 7} THEN {Of("video", payload)}
       ELSE {}

Connect ==
    /\ link = "down"
    /\ link' = "up"
    /\ sent' = <<>> /\ unread' = <<>> /\ begins' = <<>> /\ log' = <<>> /\ alone' = {}

Send(message) ==
    /\ link = "up" /\ Len(sent) < MaxSent
    /\ sent' = Append(sent, message)
    /\ unread' = unread \o BytesOf(message)
    /\ begins' = Append(begins, Len(unread) + 1)
    /\ UNCHANGED <<link, log, alone>>

Disconnect ==
    /\ link = "up"
    /\ link' = "closing"
    /\ UNCHANGED <<sent, unread, begins, log, alone>>

-----------------------------------------------------------------------------
(* The message the next n bytes are, as a set: empty if they are not one.   *)
Exactly(n) == {i \in DOMAIN begins : begins[i] = 1 /\ n = Size(sent[i])}

(* The next n bytes are taken for one message; fewer than a header are none. *)
Handle(n) ==
    LET done == process_message(SubSeq(unread, 1, n))
        from == IF Exactly(n) = {} THEN 0 ELSE CHOOSE i \in Exactly(n) : TRUE
    IN /\ link # "down" /\ n \in SIZE .. Len(unread) /\ n <= BufferSize
       /\ log' = IF done = {} THEN log
                 ELSE Append(log, [what |-> CHOOSE w \in done : TRUE, from |-> from])
       /\ alone' = alone \cup Exactly(n)

(* One turn of the loop. *)
Read(n) ==
    /\ Handle(n)
    /\ unread' = SubSeq(unread, n + 1, Len(unread))
    /\ begins' = [i \in DOMAIN begins |-> begins[i] - n]
    /\ UNCHANGED <<link, sent>>

(* mutant: bytes are left for the next connection *)
CloseOnly == link' = "down" /\ unread' = unread /\ begins' = begins

Close == link' = "down" /\ unread' = <<>> /\ begins' = <<>>

(* The handler of what was read fails, at a write say, and ends the loop.   *)
ReadLast(n) ==
    /\ Handle(n) /\ log' # log
    /\ Close
    /\ UNCHANGED sent

(* Too few bytes for a header are an error, which ends the loop as well.    *)
ReadShort ==
    /\ link # "down" /\ unread # <<>>
    /\ Close
    /\ UNCHANGED <<sent, log, alone>>

(* A read of nothing: the camera has closed and all was read. *)
EndOfStream ==
    /\ link = "closing" /\ unread = <<>>
    /\ Close
    /\ UNCHANGED <<sent, log, alone>>

Init ==
    /\ link = "down" /\ sent = <<>> /\ unread = <<>> /\ begins = <<>>
    /\ log = <<>> /\ alone = {}

Next ==
    \/ Connect \/ Disconnect
    \/ \E message \in Messages : Send(message)
    \/ \E n \in 1 .. Len(unread) : Read(n)
    \/ \E n \in 1 .. Len(unread) : ReadLast(n)
    \/ ReadShort \/ EndOfStream

Spec == Init /\ [][Next]_vars

-----------------------------------------------------------------------------
TypeOK ==
    /\ link \in {"down", "up", "closing"}
    /\ Len(sent) <= MaxSent
    /\ \A i \in DOMAIN sent : sent[i] \in Messages
    /\ unread \in Bytes
    /\ begins \in Seq(Int)
    /\ link = "down" => unread = <<>> /\ begins = <<>>
    /\ alone \subseteq 1 .. Len(sent)

(* AloneHandled: the messages that a read returned alone are handled as     *)
(* what they are, each once and in the order sent, whatever was misread     *)
(* between them and whatever their bytes are.  (Of other reads nothing of   *)
(* the kind holds.)                                                         *)
AloneHandled ==
    /\ \A i \in alone :
          {log[j].what : j \in {k \in DOMAIN log : log[k].from = i}} = {sent[i]}
    /\ \A j, k \in DOMAIN log :
          j < k /\ log[j].from # 0 /\ log[k].from # 0 => log[j].from < log[k].from
=============================================================================
