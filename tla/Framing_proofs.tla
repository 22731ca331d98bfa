---------------------------- MODULE Framing_proofs ----------------------------
(***************************************************************************)
(* Proofs about Framing, for any texts and pictures, any size of a read    *)
(* and any number of messages, and for reads cut anywhere.                 *)
(*                                                                         *)
(* The first part works out the bytes of a message as far as they are read *)
(* (MessageShape), and that they are handled as that message when they are *)
(* all that was read (HandledAlone).  The second part keeps account of     *)
(* where the messages lie in what is unread (Laid, Contents); a message    *)
(* that was read alone is past (AlonePast), so that it is not handled      *)
(* again and comes before whatever is handled later (LogInOrder).          *)
(***************************************************************************)
EXTENDS Framing, SequenceTheorems, TLAPS

(* The bytes of a number of 16 bits, whatever it is. *)
LEMMA HalfBytes ==
    ASSUME NEW n \in Nat
    PROVE  put_u16_le(n) \in Seq(0 .. 255) /\ Len(put_u16_le(n)) = 2
<1>1. n % 256 \in 0 .. 255
    OBVIOUS
<1>2. n \div 256 \in Nat
    OBVIOUS
<1>3. (n \div 256) % 256 \in 0 .. 255
    BY <1>2
<1> QED
    BY <1>1, <1>3 DEF put_u16_le

(* Two sequences of bytes, one behind the other. *)
Behind(s, t, joined) ==
    /\ joined \in Seq(0 .. 255)
    /\ Len(joined) = Len(s) + Len(t)
    /\ \A k \in 1 .. Len(s) : joined[k] = s[k]
    /\ \A k \in 1 .. Len(t) : joined[Len(s) + k] = t[k]

LEMMA Joined ==
    ASSUME NEW s \in Seq(0 .. 255), NEW t \in Seq(0 .. 255)
    PROVE  Behind(s, t, s \o t)
BY DEF Behind

(* The bytes of one of 32. *)
LEMMA NumberBytes ==
    ASSUME NEW n \in Nat
    PROVE  put_u32_le(u32(n)) \in Seq(0 .. 255) /\ Len(put_u32_le(u32(n))) = 4
<1> DEFINE low == n % 65536
           high == n \div 65536
<1>1. low \in Nat /\ high \in Nat
    OBVIOUS
<1> HIDE DEF low, high
<1>2. put_u32_le(u32(n)) = put_u16_le(low) \o put_u16_le(high)
    BY DEF put_u32_le, u32, low, high
<1>3. /\ put_u16_le(low) \in Seq(0 .. 255) /\ Len(put_u16_le(low)) = 2
      /\ put_u16_le(high) \in Seq(0 .. 255) /\ Len(put_u16_le(high)) = 2
    BY <1>1, HalfBytes
<1>4. Behind(put_u16_le(low), put_u16_le(high), put_u16_le(low) \o put_u16_le(high))
    BY <1>3, Joined
<1> QED
    BY <1>2, <1>3, <1>4 DEF Behind

(* What is used of the bytes of a header. *)
Header(h, cmd) ==
    /\ h \in Seq(0 .. 255)
    /\ Len(h) = 20
    /\ h[5] = cmd /\ h[6] = 0

LEMMA HeaderBytes ==
    ASSUME NEW cmd \in 0 .. 255, NEW length \in Nat, NEW msg_flag \in 0 .. 255,
           NEW pkg_id \in Nat
    PROVE  Header(to_bytes(new(cmd, length, msg_flag, pkg_id)), cmd)
<1> DEFINE a == put_u32_le(u32(length))
           b == <<cmd, 0>>
           c == <<msg_flag, 0>>
           d == [i \in 1 .. 8 |-> 0]
           e == put_u32_le(u32(pkg_id))
<1>1. to_bytes(new(cmd, length, msg_flag, pkg_id)) = a \o b \o c \o d \o e
    <2>1. put_u16_le(cmd) = b
        BY DEF put_u16_le
    <2> QED
        BY <2>1 DEF to_bytes, new
<1>2. /\ a \in Seq(0 .. 255) /\ Len(a) = 4
      /\ e \in Seq(0 .. 255) /\ Len(e) = 4
    BY NumberBytes
<1>3. /\ b \in Seq(0 .. 255) /\ Len(b) = 2 /\ b[1] = cmd /\ b[2] = 0
      /\ c \in Seq(0 .. 255) /\ Len(c) = 2
      /\ d \in Seq(0 .. 255) /\ Len(d) = 8
    OBVIOUS
<1> HIDE DEF a, b, c, d, e
<1> DEFINE ab == a \o b
           abc == ab \o c
           abcd == abc \o d
           h == abcd \o e
<1>4. Behind(a, b, ab)
    BY <1>2, <1>3, Joined
<1>5. ab \in Seq(0 .. 255) /\ Len(ab) = 6 /\ ab[4 + 1] = cmd /\ ab[4 + 2] = 0
    BY <1>2, <1>3, <1>4 DEF Behind
<1> HIDE DEF ab
<1>6. Behind(ab, c, abc)
    BY <1>3, <1>5, Joined
<1>7. abc \in Seq(0 .. 255) /\ Len(abc) = 8 /\ abc[5] = cmd /\ abc[6] = 0
    BY <1>3, <1>5, <1>6 DEF Behind
<1> HIDE DEF abc
<1>8. Behind(abc, d, abcd)
    BY <1>3, <1>7, Joined
<1>9. abcd \in Seq(0 .. 255) /\ Len(abcd) = 16 /\ abcd[5] = cmd /\ abcd[6] = 0
    BY <1>3, <1>7, <1>8 DEF Behind
<1> HIDE DEF abcd
<1>10. Behind(abcd, e, h)
    BY <1>2, <1>9, Joined
<1>11. to_bytes(new(cmd, length, msg_flag, pkg_id)) = h
    BY <1>1 DEF ab, abc, abcd
<1> HIDE DEF h
<1>12. h \in Seq(0 .. 255) /\ Len(h) = 20 /\ h[5] = cmd /\ h[6] = 0
    BY <1>2, <1>9, <1>10 DEF Behind
<1> QED
    BY <1>11, <1>12 DEF Header

-----------------------------------------------------------------------------
Kinds == {"json", "video", "keepalive", "heartbeat"}

Command(kind) == CASE kind = "json" -> 0
                   [] kind = "video" -> 1
                   [] kind = "keepalive" -> 99
                   [] kind = "heartbeat" -> 100

(* What an entry of the log can say. *)
What == [kind : Kinds, body : Bytes]

LEMMA MessageForm ==
    ASSUME NEW m \in Messages
    PROVE  /\ m \in What /\ m = Of(m.kind, m.body)
           /\ m.kind = "json" => m.body \in Texts
           /\ m.kind \in {"keepalive", "heartbeat"} => m.body = <<>>
<1>1. <<>> \in Bytes
    BY DEF Bytes
<1>2. CASE m \in {Of("json", text) : text \in Texts}
    <2>1. PICK text \in Texts : m = Of("json", text)
        BY <1>2
    <2>2. text \in Bytes
        BY TextAssumption
    <2> QED
        BY <2>1, <2>2 DEF Of, What, Kinds
<1>3. CASE m \in {Of("video", picture) : picture \in Pictures}
    <2>1. PICK picture \in Pictures : m = Of("video", picture)
        BY <1>3
    <2>2. picture \in Bytes
        BY PictureAssumption
    <2> QED
        BY <2>1, <2>2 DEF Of, What, Kinds
<1>4. CASE m \in {Of("keepalive", <<>>), Of("heartbeat", <<>>)}
    BY <1>1, <1>4 DEF Of, What, Kinds
<1> QED
    BY <1>2, <1>3, <1>4 DEF Messages

(* What is used of the bytes of a message. *)
Shape(bytes, m) ==
    /\ bytes \in Seq(0 .. 255) /\ Len(bytes) = Size(m)
    /\ Size(m) \in Nat /\ Size(m) >= 20
    /\ bytes[5] = Command(m.kind) /\ bytes[6] = 0
    /\ \A k \in 1 .. Len(m.body) : bytes[20 + k] = m.body[k]

LEMMA MessageShape ==
    ASSUME NEW m \in Messages
    PROVE  Shape(BytesOf(m), m)
<1>1. m.body \in Seq(0 .. 255) /\ m.kind \in Kinds
    BY MessageForm DEF What, Bytes
<1>2. PICK len \in Nat : len = Len(m.body)
    BY <1>1, LenProperties
<1>3. Header(to_bytes(HeaderOf(m)), Command(m.kind))
    <2>1. CASE m.kind = "json"
        <3>1. HeaderOf(m) = new(0, len, 255, 0) /\ Command(m.kind) = 0
            BY <1>2, <2>1 DEF HeaderOf, json, Command
        <3>2. 0 \in 0 .. 255 /\ 255 \in 0 .. 255 /\ 0 \in Nat
            OBVIOUS
        <3>3. Header(to_bytes(new(0, len, 255, 0)), 0)
            BY <3>2, HeaderBytes
        <3> QED
            BY <3>1, <3>3
    <2>2. CASE m.kind = "video"
        <3>1. HeaderOf(m) = new(1, len, 252, 0) /\ Command(m.kind) = 1
            BY <1>2, <2>2 DEF HeaderOf, video_frame, Command
        <3>2. 1 \in 0 .. 255 /\ 252 \in 0 .. 255 /\ 0 \in Nat
            OBVIOUS
        <3>3. Header(to_bytes(new(1, len, 252, 0)), 1)
            BY <3>2, HeaderBytes
        <3> QED
            BY <3>1, <3>3
    <2>3. CASE m.kind = "keepalive"
        <3>1. HeaderOf(m) = new(99, 0, 255, 0) /\ Command(m.kind) = 99
            BY <2>3 DEF HeaderOf, binary, Command
        <3>2. 99 \in 0 .. 255 /\ 255 \in 0 .. 255 /\ 0 \in Nat
            OBVIOUS
        <3>3. Header(to_bytes(new(99, 0, 255, 0)), 99)
            BY <3>2, HeaderBytes
        <3> QED
            BY <3>1, <3>3
    <2>4. CASE m.kind = "heartbeat"
        <3>1. HeaderOf(m) = new(100, 20, 255, 0) /\ Command(m.kind) = 100
            BY <2>4 DEF HeaderOf, heartbeat, Command
        <3>2. 100 \in 0 .. 255 /\ 255 \in 0 .. 255 /\ 20 \in Nat /\ 0 \in Nat
            OBVIOUS
        <3>3. Header(to_bytes(new(100, 20, 255, 0)), 100)
            BY <3>2, HeaderBytes
        <3> QED
            BY <3>1, <3>3
    <2> QED
        BY <1>1, <2>1, <2>2, <2>3, <2>4 DEF Kinds
<1> DEFINE h == to_bytes(HeaderOf(m))
<1>4. BytesOf(m) = h \o m.body
    BY DEF BytesOf
<1> HIDE DEF h
<1>5. h \in Seq(0 .. 255) /\ Len(h) = 20 /\ h[5] = Command(m.kind) /\ h[6] = 0
    BY <1>3 DEF Header, h
<1>6. Behind(h, m.body, BytesOf(m))
    BY <1>1, <1>4, <1>5, Joined
<1>7. Size(m) = 20 + len
    BY <1>2 DEF Size, SIZE
<1> QED
    BY <1>1, <1>2, <1>5, <1>6, <1>7 DEF Behind, Shape

-----------------------------------------------------------------------------
Types ==
    /\ link \in {"down", "up", "closing"}
    /\ sent \in Seq(Messages) /\ Len(sent) <= MaxSent
    /\ unread \in Seq(0 .. 255)
    /\ begins \in Seq(Int)
    /\ link = "down" => unread = <<>> /\ begins = <<>>
    /\ link # "down" => Len(begins) = Len(sent)
    /\ log \in Seq([what : What, from : 0 .. MaxSent])
    /\ alone \subseteq 1 .. Len(sent)

(* The messages of a connection lie one behind the other, *)
Laid ==
    /\ \A i, j \in 1 .. Len(begins) : i < j => begins[i] + Size(sent[i]) <= begins[j]
    /\ \A i \in 1 .. Len(begins) : begins[i] + Size(sent[i]) <= Len(unread) + 1

(* and their bytes are what is unread of them. *)
Contents ==
    \A i \in 1 .. Len(begins) : \A k \in 1 .. Size(sent[i]) :
        begins[i] + k - 1 \in 1 .. Len(unread)
            => unread[begins[i] + k - 1] = BytesOf(sent[i])[k]

(* A message that was read alone is past, *)
AlonePast == link # "down" => \A i \in alone : begins[i] < 1

(* the log says what it was, *)
LogTells ==
    /\ \A i \in alone : \E j \in 1 .. Len(log) : log[j].from = i
    /\ \A j \in 1 .. Len(log) :
          log[j].from # 0 => log[j].from \in alone /\ log[j].what = sent[log[j].from]

(* and has such messages in the order sent, each once. *)
LogInOrder ==
    \A j, k \in 1 .. Len(log) :
        j < k /\ log[j].from # 0 /\ log[k].from # 0 => log[j].from < log[k].from

IInv == Types /\ Laid /\ Contents /\ AlonePast /\ LogTells /\ LogInOrder

-----------------------------------------------------------------------------
(* The first n bytes and the others. *)
Cut(bytes, n, first, rest) ==
    /\ first \in Seq(0 .. 255) /\ Len(first) = n
    /\ \A k \in 1 .. n : first[k] = bytes[k]
    /\ rest \in Seq(0 .. 255) /\ Len(rest) = Len(bytes) - n
    /\ \A k \in 1 .. Len(rest) : rest[k] = bytes[n + k]

LEMMA CutAnywhere ==
    ASSUME NEW bytes \in Seq(0 .. 255), NEW n \in 1 .. Len(bytes)
    PROVE  Cut(bytes, n, SubSeq(bytes, 1, n), SubSeq(bytes, n + 1, Len(bytes)))
<1>1. PICK len \in Nat : len = Len(bytes)
    BY LenProperties
<1>2. /\ \A k \in 1 .. n : bytes[k] \in 0 .. 255
      /\ \A k \in n + 1 .. len : bytes[k] \in 0 .. 255
    <2>1. \A k \in 1 .. len : bytes[k] \in 0 .. 255
        BY <1>1, ElementOfSeq
    <2>2. n \in 1 .. len
        BY <1>1
    <2> QED
        BY <2>1, <2>2
<1>3. n \in 1 .. len
    BY <1>1
<1> DEFINE first == SubSeq(bytes, 1, n)
           rest == SubSeq(bytes, n + 1, len)
<1>4. /\ first \in Seq(0 .. 255)
      /\ Len(first) = IF 1 <= n THEN n - 1 + 1 ELSE 0
      /\ \A k \in 1 .. n - 1 + 1 : first[k] = bytes[1 + k - 1]
    BY <1>2, <1>3, SubSeqProperties
<1>5. /\ rest \in Seq(0 .. 255)
      /\ Len(rest) = IF n + 1 <= len THEN len - (n + 1) + 1 ELSE 0
      /\ \A k \in 1 .. len - (n + 1) + 1 : rest[k] = bytes[n + 1 + k - 1]
    <2>1. n + 1 \in Int /\ len \in Int
        BY <1>3
    <2> QED
        BY <1>2, <2>1, SubSeqProperties
<1> HIDE DEF first, rest
<1>6. Len(first) = n /\ \A k \in 1 .. n : first[k] = bytes[k]
    BY <1>3, <1>4
<1>7. Len(rest) = len - n
    BY <1>3, <1>5
<1>8. \A k \in 1 .. len - n : rest[k] = bytes[n + k]
    <2> SUFFICES ASSUME NEW k \in 1 .. len - n PROVE rest[k] = bytes[n + k]
        OBVIOUS
    <2>1. k \in 1 .. len - (n + 1) + 1 /\ n + 1 + k - 1 = n + k
        BY <1>3
    <2> QED
        BY <1>5, <2>1
<1> QED
    BY <1>1, <1>4, <1>5, <1>6, <1>7, <1>8 DEF Cut, first, rest

(* What follows the header, byte by byte. *)
LEMMA Payload ==
    ASSUME NEW data \in Seq(0 .. 255), Len(data) >= 20
    PROVE  LET payload == from_bytes(data).payload IN
           /\ payload \in Seq(0 .. 255)
           /\ Len(payload) = Len(data) - 20
           /\ \A k \in 1 .. Len(payload) : payload[k] = data[20 + k]
<1>1. from_bytes(data).payload = SubSeq(data, 20 + 1, Len(data))
    BY DEF from_bytes, SIZE
<1>2. 20 \in 1 .. Len(data)
    <2>1. PICK len \in Nat : len = Len(data)
        BY LenProperties
    <2> QED
        BY <2>1
<1>3. Cut(data, 20, SubSeq(data, 1, 20), SubSeq(data, 20 + 1, Len(data)))
    BY <1>2, CutAnywhere
<1> QED
    BY <1>1, <1>3 DEF Cut

(* Whatever was read, what is handled is of a known form. *)
LEMMA Handled ==
    ASSUME NEW data \in Seq(0 .. 255), Len(data) >= 20,
           NEW w \in process_message(data)
    PROVE  w \in What
<1> DEFINE cmd == from_bytes(data).header.cmd
           payload == from_bytes(data).payload
<1>1. payload \in Bytes /\ <<>> \in Bytes
    BY Payload DEF Bytes
<1>2. Parsed(payload) \subseteq Bytes
    BY TextAssumption DEF Parsed
<1> HIDE DEF cmd, payload
<1>3. CASE cmd \in {0, 87}
    <2>1. PICK text \in Parsed(payload) : w = Of("json", text)
        BY <1>3 DEF process_message, cmd, payload
    <2> QED
        BY <1>2, <2>1 DEF What, Of, Kinds
<1>4. CASE cmd = 99
    <2>1. w = Of("keepalive", <<>>)
        BY <1>4 DEF process_message, cmd
    <2> QED
        BY <1>1, <2>1 DEF What, Of, Kinds
<1>5. CASE cmd = 100
    <2>1. w = Of("heartbeat", <<>>)
        BY <1>5 DEF process_message, cmd
    <2> QED
        BY <1>1, <2>1 DEF What, Of, Kinds
<1>6. CASE cmd \in {1, 4, 6, 7}
    <2>1. w = Of("video", payload)
        BY <1>6 DEF process_message, cmd, payload
    <2> QED
        BY <1>1, <2>1 DEF What, Of, Kinds
<1>7. CASE cmd \notin {0, 87, 99, 100, 1, 4, 6, 7}
    BY <1>7 DEF process_message, cmd
<1> QED
    BY <1>3, <1>4, <1>5, <1>6, <1>7

(* A text is what its own bytes parse to, and nothing else is. *)
LEMMA ParsedAsIs ==
    ASSUME NEW text \in Parses
    PROVE  Parsed(text) = {text}
<1>1. text \in Seq(0 .. 255) /\ text # <<>> /\ text[1] # 0
    BY TextAssumption DEF Bytes
<1>2. PICK len \in Nat : len = Len(text) /\ len >= 1
    <2>1. PICK len \in Nat : len = Len(text)
        BY <1>1, LenProperties
    <2>2. len # 0
        BY <1>1, <2>1
    <2> QED
        BY <2>1, <2>2
<1>3. SubSeq(text, 1, len) = text
    BY <1>1, <1>2
<1>4. ASSUME NEW zeros \in 0 .. len, \A i \in 1 .. zeros : text[i] = 0
      PROVE  zeros = 0
    <2> SUFFICES ASSUME zeros # 0 PROVE FALSE
        OBVIOUS
    <2>1. 1 \in 1 .. zeros
        OBVIOUS
    <2> QED
        BY <1>1, <1>4, <2>1
<1>5. Parsed(text) \subseteq {text}
    <2> SUFFICES ASSUME NEW t \in Parsed(text) PROVE t = text
        OBVIOUS
    <2>1. PICK zeros \in 0 .. len :
              /\ \A i \in 1 .. zeros : text[i] = 0
              /\ SubSeq(text, zeros + 1, len) = t
        BY <1>2 DEF Parsed
    <2>2. zeros = 0
        BY <1>4, <2>1
    <2>3. zeros + 1 = 1
        BY <2>2
    <2> QED
        BY <1>3, <2>1, <2>3
<1>6. text \in Parsed(text)
    <2>1. 0 \in 0 .. Len(text) /\ \A i \in 1 .. 0 : text[i] = 0
        BY <1>2
    <2>2. SubSeq(text, 0 + 1, Len(text)) = text
        BY <1>2, <1>3
    <2> QED
        BY <2>1, <2>2 DEF Parsed
<1> QED
    BY <1>5, <1>6

(* A message that is read alone comes to what it is. *)
LEMMA HandledAlone ==
    ASSUME NEW m \in Messages
    PROVE  process_message(BytesOf(m)) = {m}
<1> DEFINE data == BytesOf(m)
           cmd == from_bytes(data).header.cmd
           payload == from_bytes(data).payload
<1>1. Shape(data, m)
    BY MessageShape
<1>2. /\ m.body \in Seq(0 .. 255) /\ m.kind \in Kinds /\ m = Of(m.kind, m.body)
      /\ m.kind = "json" => m.body \in Parses
      /\ m.kind \in {"keepalive", "heartbeat"} => m.body = <<>>
    BY MessageForm, TextAssumption DEF What, Bytes
<1> HIDE DEF data
<1>3. PICK len \in Nat : len = Len(m.body)
    BY <1>2, LenProperties
<1>4. data \in Seq(0 .. 255) /\ Len(data) = 20 + len /\ Len(data) >= 20
    BY <1>1, <1>3 DEF Shape, Size, SIZE
<1>5. cmd = Command(m.kind)
    <2> DEFINE two == SubSeq(data, 5, 6)
    <2>1. two[1] = data[5] /\ two[2] = data[6]
        BY <1>4
    <2>2. data[5] = Command(m.kind) /\ data[6] = 0 /\ Command(m.kind) \in Int
        BY <1>1, <1>2 DEF Shape, Command, Kinds
    <2>3. cmd = two[1] + 256 * two[2]
        BY DEF from_bytes, get_u16_le
    <2> HIDE DEF two, cmd
    <2> QED
        BY <2>1, <2>2, <2>3
<1>6. /\ payload \in Seq(0 .. 255)
      /\ Len(payload) = Len(data) - 20
      /\ \A k \in 1 .. Len(payload) : payload[k] = data[20 + k]
    BY <1>4, Payload
<1> HIDE DEF cmd, payload
<1>7. payload = m.body
    <2>1. Len(payload) = len
        BY <1>4, <1>6
    <2>2. \A k \in 1 .. len : payload[k] = m.body[k]
        BY <1>1, <1>3, <1>6, <2>1 DEF Shape
    <2> QED
        BY <1>2, <1>3, <1>6, <2>1, <2>2
<1>8. CASE m.kind = "json"
    <2>1. cmd = 0 /\ Parsed(payload) = {m.body}
        BY <1>2, <1>5, <1>7, <1>8, ParsedAsIs DEF Command
    <2>2. process_message(data) = {Of("json", text) : text \in Parsed(payload)}
        BY <2>1 DEF process_message, cmd, payload
    <2> QED
        BY <1>2, <1>8, <2>1, <2>2 DEF data
<1>9. CASE m.kind = "video"
    <2>1. cmd = 1
        BY <1>5, <1>9 DEF Command
    <2>2. process_message(data) = {Of("video", payload)}
        BY <2>1 DEF process_message, cmd, payload
    <2> QED
        BY <1>2, <1>7, <1>9, <2>2 DEF data
<1>10. CASE m.kind = "keepalive"
    <2>1. cmd = 99
        BY <1>5, <1>10 DEF Command
    <2>2. process_message(data) = {Of("keepalive", <<>>)}
        BY <2>1 DEF process_message, cmd
    <2> QED
        BY <1>2, <1>10, <2>2 DEF data
<1>11. CASE m.kind = "heartbeat"
    <2>1. cmd = 100
        BY <1>5, <1>11 DEF Command
    <2>2. process_message(data) = {Of("heartbeat", <<>>)}
        BY <2>1 DEF process_message, cmd
    <2> QED
        BY <1>2, <1>11, <2>2 DEF data
<1> QED
    BY <1>2, <1>8, <1>9, <1>10, <1>11 DEF Kinds

-----------------------------------------------------------------------------
(* A read that is all of one message and no more is read as that message. *)
LEMMA MessageFound ==
    ASSUME Types, Contents, link # "down",
           NEW n \in 20 .. Len(unread), NEW i \in Exactly(n)
    PROVE  /\ i \in 1 .. Len(sent) /\ begins[i] = 1
           /\ process_message(SubSeq(unread, 1, n)) = {sent[i]}
<1> DEFINE data == SubSeq(unread, 1, n)
           m == sent[i]
           bytes == BytesOf(m)
<1>1. /\ unread \in Seq(0 .. 255) /\ begins \in Seq(Int) /\ Len(begins) = Len(sent)
      /\ sent \in Seq(Messages)
    BY DEF Types
<1>2. i \in 1 .. Len(begins) /\ begins[i] = 1 /\ n = Size(m)
    BY <1>1 DEF Exactly
<1>3. i \in 1 .. Len(sent) /\ m \in Messages
    BY <1>1, <1>2, ElementOfSeq
<1>4. bytes \in Seq(0 .. 255) /\ Len(bytes) = n
    BY <1>2, <1>3, MessageShape DEF Shape
<1>5. data \in Seq(0 .. 255) /\ Len(data) = n /\ \A k \in 1 .. n : data[k] = unread[k]
    BY <1>1, CutAnywhere DEF Cut
<1>6. \A k \in 1 .. n : unread[k] = bytes[k]
    <2> SUFFICES ASSUME NEW k \in 1 .. n PROVE unread[k] = bytes[k]
        OBVIOUS
    <2>1. begins[i] + k - 1 = k /\ k \in 1 .. Len(unread)
        BY <1>1, <1>2
    <2> HIDE DEF m
    <2>2. k \in 1 .. Size(sent[i])
        BY <1>2 DEF m
    <2> QED
        BY <1>2, <2>1, <2>2 DEF Contents, m
<1>7. data = bytes
    <2> HIDE DEF data, bytes
    <2> QED
        BY <1>4, <1>5, <1>6
<1> QED
    BY <1>2, <1>3, <1>7, HandledAlone

-----------------------------------------------------------------------------
LEMMA ConnectKeeps ==
    ASSUME IInv, Connect
    PROVE  IInv'
<1>1. /\ link' = "up" /\ sent' = <<>> /\ unread' = <<>> /\ begins' = <<>>
      /\ log' = <<>> /\ alone' = {}
    BY DEF Connect
<1>2. Types'
    <2>1. Len(sent') = 0 /\ Len(begins') = 0 /\ MaxSent \in Nat
        BY <1>1, BoundAssumption
    <2> QED
        BY <1>1, <2>1 DEF Types
<1>3. Laid' /\ Contents'
    BY <1>1 DEF Laid, Contents
<1>4. AlonePast' /\ LogTells' /\ LogInOrder'
    BY <1>1 DEF AlonePast, LogTells, LogInOrder
<1> QED
    BY <1>2, <1>3, <1>4 DEF IInv

LEMMA SendKeeps ==
    ASSUME IInv, NEW m \in Messages, Send(m)
    PROVE  IInv'
<1>1. /\ link = "up" /\ Len(sent) < MaxSent
      /\ sent' = Append(sent, m) /\ begins' = Append(begins, Len(unread) + 1)
      /\ UNCHANGED <<link, log, alone>>
    BY DEF Send
<1> DEFINE latest == Len(sent) + 1
           bytes == BytesOf(m)
<1>2. /\ sent \in Seq(Messages) /\ unread \in Seq(0 .. 255)
      /\ begins \in Seq(Int) /\ Len(begins) = Len(sent) /\ Types
    BY <1>1 DEF IInv, Types
<1>3. latest \in 1 .. MaxSent
    <2>1. PICK n \in Nat : n = Len(sent)
        BY <1>2, LenProperties
    <2>2. MaxSent \in Nat /\ n < MaxSent
        BY <1>1, <2>1, BoundAssumption
    <2> QED
        BY <2>1, <2>2
<1>4. bytes \in Seq(0 .. 255) /\ Len(bytes) = Size(m)
    BY MessageShape DEF Shape
<1>5. PICK more \in Nat : more = Size(m) /\ more >= 20
    BY MessageShape DEF Shape
<1> HIDE DEF bytes
<1>6. /\ sent' \in Seq(Messages) /\ Len(sent') = latest
      /\ \A i \in 1 .. Len(sent) : sent'[i] = sent[i]
      /\ sent'[latest] = m
    BY <1>1, <1>2
<1>7. /\ begins' \in Seq(Int) /\ Len(begins') = latest
      /\ \A i \in 1 .. Len(sent) : begins'[i] = begins[i]
      /\ begins'[latest] = Len(unread) + 1
    <2>1. Len(unread) + 1 \in Int
        BY <1>2
    <2> QED
        BY <1>1, <1>2, <2>1
<1>8. /\ unread' \in Seq(0 .. 255) /\ Len(unread') = Len(unread) + more
      /\ \A k \in 1 .. Len(unread) : unread'[k] = unread[k]
      /\ \A k \in 1 .. more : unread'[Len(unread) + k] = bytes[k]
    <2>1. unread' = unread \o bytes
        BY DEF Send, bytes
    <2>2. Behind(unread, bytes, unread')
        BY <1>2, <1>4, <2>1, Joined
    <2> QED
        BY <1>4, <1>5, <2>2 DEF Behind
<1>9. \A i \in 1 .. latest : i \in 1 .. Len(sent) \/ i = latest
    BY <1>2
<1> HIDE DEF latest
<1>10. PICK len \in Nat : len = Len(unread)
    BY <1>2, LenProperties
<1>11. \A i \in 1 .. Len(sent) :
           begins[i] \in Int /\ Size(sent[i]) \in Nat /\ begins[i] + Size(sent[i]) <= len + 1
    <2>1. ASSUME NEW i \in 1 .. Len(sent)
          PROVE  begins[i] \in Int /\ Size(sent[i]) \in Nat
        <3>1. sent[i] \in Messages
            BY <1>2, ElementOfSeq
        <3>2. begins[i] \in Int
            BY <1>2, ElementOfSeq
        <3> QED
            BY <3>1, <3>2, MessageShape DEF Shape
    <2> QED
        BY <1>2, <1>10, <2>1 DEF IInv, Laid
<1>12. Types'
    <2>1. latest <= MaxSent
        BY <1>3
    <2>2. alone' \subseteq 1 .. Len(sent')
        BY <1>1, <1>2, <1>6 DEF Types, latest
    <2> QED
        BY <1>1, <1>2, <1>6, <1>7, <1>8, <2>1, <2>2 DEF Types
<1>13. Laid'
    <2>1. ASSUME NEW i \in 1 .. Len(begins'), NEW j \in 1 .. Len(begins'), i < j
          PROVE  begins'[i] + Size(sent'[i]) <= begins'[j]
        <3>1. i \in 1 .. Len(sent)
            BY <1>2, <1>7, <2>1 DEF latest
        <3>2. CASE j \in 1 .. Len(sent)
            BY <1>2, <1>6, <1>7, <2>1, <3>1, <3>2 DEF IInv, Laid
        <3>3. CASE j = latest
            BY <1>6, <1>7, <1>10, <1>11, <3>1, <3>3
        <3> QED
            BY <1>7, <1>9, <3>2, <3>3
    <2>2. ASSUME NEW i \in 1 .. Len(begins')
          PROVE  begins'[i] + Size(sent'[i]) <= Len(unread') + 1
        <3>1. CASE i \in 1 .. Len(sent)
            <4>1. begins'[i] = begins[i] /\ sent'[i] = sent[i]
                BY <1>6, <1>7, <3>1
            <4>2. Len(unread') = len + more
                BY <1>8, <1>10
            <4>3. PICK b \in Int, size \in Nat : b = begins[i] /\ size = Size(sent[i])
                BY <1>11, <3>1
            <4>4. b + size <= len + 1
                BY <1>11, <3>1, <4>3
            <4>5. b + size <= len + more + 1
                BY <4>4
            <4> QED
                BY <4>1, <4>2, <4>3, <4>5
        <3>2. CASE i = latest
            BY <1>5, <1>6, <1>7, <1>8, <1>10, <3>2
        <3> QED
            BY <1>7, <1>9, <3>1, <3>2
    <2> QED
        BY <2>1, <2>2 DEF Laid
<1>14. Contents'
    <2> SUFFICES ASSUME NEW i \in 1 .. Len(begins'), NEW k \in 1 .. Size(sent'[i]),
                        begins'[i] + k - 1 \in 1 .. Len(unread')
                 PROVE  unread'[begins'[i] + k - 1] = BytesOf(sent'[i])[k]
        BY DEF Contents
    <2>1. CASE i \in 1 .. Len(sent)
        <3>1. begins'[i] = begins[i] /\ sent'[i] = sent[i] /\ k \in 1 .. Size(sent[i])
            BY <1>6, <1>7, <2>1
        <3>2. begins[i] + k - 1 \in 1 .. Len(unread)
            <4>1. PICK b \in Int, size \in Nat : b = begins[i] /\ size = Size(sent[i])
                BY <1>11, <2>1
            <4>2. b + size <= len + 1 /\ k \in 1 .. size
                BY <1>11, <2>1, <3>1, <4>1
            <4>3. b + k - 1 \in Int /\ b + k - 1 >= 1
                BY <3>1, <4>1, <4>2
            <4>4. b + k - 1 <= len
                BY <4>2
            <4> QED
                BY <1>10, <4>1, <4>3, <4>4
        <3> QED
            BY <1>2, <1>8, <2>1, <3>1, <3>2 DEF IInv, Contents
    <2>2. CASE i = latest
        <3>1. k \in 1 .. more /\ begins'[i] + k - 1 = Len(unread) + k
            BY <1>5, <1>6, <1>7, <1>10, <2>2
        <3>2. unread'[Len(unread) + k] = bytes[k]
            BY <1>8, <3>1
        <3> QED
            BY <1>6, <2>2, <3>1, <3>2 DEF bytes
    <2> QED
        BY <1>7, <1>9, <2>1, <2>2
<1>15. AlonePast'
    <2> SUFFICES ASSUME NEW i \in alone PROVE begins'[i] < 1
        BY <1>1 DEF AlonePast
    <2>1. i \in 1 .. Len(sent) /\ begins[i] < 1
        BY <1>1, <1>2 DEF IInv, AlonePast, Types
    <2> QED
        BY <1>7, <2>1
<1>16. LogTells'
    <2>1. \A i \in alone : sent'[i] = sent[i]
        BY <1>2, <1>6 DEF Types
    <2> QED
        BY <1>1, <2>1 DEF IInv, LogTells
<1>17. LogInOrder'
    BY <1>1 DEF IInv, LogInOrder
<1> QED
    BY <1>12, <1>13, <1>14, <1>15, <1>16, <1>17 DEF IInv

(* What a read finds: where the messages lie, and what it handles. *)
LEMMA HandleFinds ==
    ASSUME IInv, NEW n \in 1 .. Len(unread), Handle(n)
    PROVE  /\ link # "down" /\ n \in 20 .. Len(unread) /\ Len(begins) = Len(sent)
           /\ \A i \in 1 .. Len(begins) :
                  begins[i] \in Int /\ Size(sent[i]) \in Nat /\ Size(sent[i]) >= 20
           /\ alone' = alone \cup Exactly(n)
           /\ \A i \in Exactly(n) :
                  /\ i \in 1 .. Len(sent) /\ i \in 1 .. MaxSent /\ begins[i] = 1
                  /\ process_message(SubSeq(unread, 1, n)) = {sent[i]}
<1>1. link # "down" /\ n \in 20 .. Len(unread) /\ alone' = alone \cup Exactly(n)
    BY DEF Handle, SIZE
<1>2. /\ begins \in Seq(Int) /\ Len(begins) = Len(sent)
      /\ sent \in Seq(Messages) /\ Len(sent) <= MaxSent
    BY <1>1 DEF IInv, Types
<1>3. ASSUME NEW i \in 1 .. Len(begins)
      PROVE  begins[i] \in Int /\ Size(sent[i]) \in Nat /\ Size(sent[i]) >= 20
    <2>1. begins[i] \in Int /\ sent[i] \in Messages
        BY <1>2, ElementOfSeq
    <2> QED
        BY <2>1, MessageShape DEF Shape
<1>4. ASSUME NEW i \in Exactly(n)
      PROVE  /\ i \in 1 .. Len(sent) /\ i \in 1 .. MaxSent /\ begins[i] = 1
             /\ process_message(SubSeq(unread, 1, n)) = {sent[i]}
    <2>1. /\ i \in 1 .. Len(sent) /\ begins[i] = 1
          /\ process_message(SubSeq(unread, 1, n)) = {sent[i]}
        BY <1>1, MessageFound DEF IInv
    <2>2. PICK m \in Nat : m = Len(sent)
        BY <1>2, LenProperties
    <2> QED
        BY <1>2, <2>1, <2>2, BoundAssumption
<1> QED
    BY <1>1, <1>2, <1>3, <1>4

(* What it adds to the log. *)
LEMMA HandleLogs ==
    ASSUME IInv, NEW n \in 1 .. Len(unread), Handle(n)
    PROVE  LET done == process_message(SubSeq(unread, 1, n))
           IN \/ done = {} /\ log' = log
              \/ \E w \in done, from \in 0 .. MaxSent :
                    /\ log' = Append(log, [what |-> w, from |-> from])
                    /\ w \in What
                    /\ from = 0 => Exactly(n) = {}
                    /\ from # 0 => from \in Exactly(n)
<1> DEFINE data == SubSeq(unread, 1, n)
           done == process_message(data)
           from == IF Exactly(n) = {} THEN 0 ELSE CHOOSE i \in Exactly(n) : TRUE
<1>1. n \in 20 .. Len(unread) /\ unread \in Seq(0 .. 255)
    BY HandleFinds DEF IInv, Types
<1>2. data \in Seq(0 .. 255) /\ Len(data) = n
    BY <1>1, CutAnywhere DEF Cut
<1>3. log' = IF done = {} THEN log
             ELSE Append(log, [what |-> CHOOSE w \in done : TRUE, from |-> from])
    BY DEF Handle
<1>4. /\ from \in 0 .. MaxSent
      /\ from = 0 => Exactly(n) = {}
      /\ from # 0 => from \in Exactly(n)
    <2>1. CASE Exactly(n) = {}
        BY <2>1, BoundAssumption
    <2>2. CASE Exactly(n) # {}
        <3>1. from \in Exactly(n)
            BY <2>2
        <3> HIDE DEF from
        <3>2. from \in 1 .. MaxSent
            BY <3>1, HandleFinds
        <3> QED
            BY <3>1, <3>2, BoundAssumption
    <2> QED
        BY <2>1, <2>2
<1> HIDE DEF data, done, from
<1>5. CASE done = {}
    BY <1>3, <1>5 DEF done, data
<1>6. CASE done # {}
    <2>1. PICK w \in done : log' = Append(log, [what |-> w, from |-> from])
        BY <1>3, <1>6
    <2>2. w \in process_message(data) /\ Len(data) >= 20
        BY <1>1, <1>2, <2>1 DEF done
    <2>3. w \in What
        BY <1>2, <2>2, Handled
    <2> QED
        BY <1>4, <2>1, <2>3 DEF done, data
<1> QED
    BY <1>5, <1>6

(* A message read alone begins at the next byte, all that were are past:    *)
(* so it is the latest of them, and the log goes on in order.               *)
LEMMA HandleKeepsLog ==
    ASSUME IInv, NEW n \in 1 .. Len(unread), Handle(n), sent' = sent
    PROVE  /\ log' \in Seq([what : What, from : 0 .. MaxSent])
           /\ alone' \subseteq 1 .. Len(sent')
           /\ \A i \in alone' : i \in 1 .. Len(begins) /\ begins[i] <= 1
           /\ LogTells' /\ LogInOrder'
<1> DEFINE done == process_message(SubSeq(unread, 1, n))
<1>1. /\ link # "down" /\ n \in 20 .. Len(unread) /\ Len(begins) = Len(sent)
      /\ \A i \in 1 .. Len(begins) :
             begins[i] \in Int /\ Size(sent[i]) \in Nat /\ Size(sent[i]) >= 20
    BY HandleFinds
<1>2. alone' = alone \cup Exactly(n) /\ alone \subseteq 1 .. Len(sent)
    BY HandleFinds DEF IInv, Types
<1>3. \A i \in Exactly(n) :
          i \in 1 .. Len(sent) /\ i \in 1 .. MaxSent /\ begins[i] = 1 /\ done = {sent[i]}
    BY HandleFinds
<1>4. log \in Seq([what : What, from : 0 .. MaxSent])
    BY DEF IInv, Types
<1>5. alone' \subseteq 1 .. Len(sent')
    BY <1>2, <1>3
<1>6. \A i, j \in Exactly(n) : i = j
    <2>1. ASSUME NEW i \in Exactly(n), NEW j \in Exactly(n), i < j
          PROVE  FALSE
        <3>1. i \in 1 .. Len(begins) /\ j \in 1 .. Len(begins) /\ begins[i] = 1 /\ begins[j] = 1
            BY <1>1, <1>3
        <3>2. 1 + Size(sent[i]) <= 1
            BY <2>1, <3>1 DEF IInv, Laid
        <3>3. PICK size \in Nat : size = Size(sent[i]) /\ size >= 20
            BY <1>1, <3>1
        <3> QED
            BY <3>2, <3>3
    <2>2. \A i \in Exactly(n) : i \in Nat
        BY <1>3
    <2> QED
        BY <2>1, <2>2
<1>7. \A i \in alone : i \in 1 .. Len(begins) /\ begins[i] \in Int /\ begins[i] < 1
    BY <1>1, <1>2 DEF IInv, AlonePast
<1>8. \A i \in alone' : i \in 1 .. Len(begins) /\ begins[i] <= 1
    <2> SUFFICES ASSUME NEW i \in alone' PROVE i \in 1 .. Len(begins) /\ begins[i] <= 1
        OBVIOUS
    <2>1. CASE i \in alone
        BY <1>7, <2>1
    <2>2. CASE i \in Exactly(n)
        BY <1>1, <1>3, <2>2
    <2> QED
        BY <1>2, <2>1, <2>2
<1>9. ASSUME NEW i \in alone, NEW j \in Exactly(n)
      PROVE  i < j
    <2>1. /\ i \in 1 .. Len(begins) /\ begins[i] \in Int /\ begins[i] < 1
          /\ j \in 1 .. Len(begins) /\ begins[j] = 1
        BY <1>1, <1>3, <1>7
    <2>2. i # j
        BY <2>1
    <2>3. ~(j < i)
        <3> SUFFICES ASSUME j < i PROVE FALSE
            OBVIOUS
        <3>1. begins[j] + Size(sent[j]) <= begins[i]
            BY <2>1 DEF IInv, Laid
        <3>2. PICK size \in Nat : size = Size(sent[j]) /\ size >= 20
            BY <1>1, <2>1
        <3> QED
            BY <2>1, <3>1, <3>2
    <2> QED
        BY <2>1, <2>2, <2>3
<1> HIDE DEF done
<1>10. CASE done = {}
    <2>1. log' = log
        BY <1>10, HandleLogs DEF done
    <2>2. alone' = alone
        BY <1>2, <1>3, <1>10
    <2> QED
        BY <1>4, <1>5, <1>8, <2>1, <2>2 DEF IInv, LogTells, LogInOrder
<1>11. CASE done # {}
    <2>1. PICK w \in done, from \in 0 .. MaxSent :
              /\ log' = Append(log, [what |-> w, from |-> from])
              /\ w \in What
              /\ from = 0 => Exactly(n) = {}
              /\ from # 0 => from \in Exactly(n)
        BY <1>11, HandleLogs DEF done
    <2>2. [what |-> w, from |-> from] \in [what : What, from : 0 .. MaxSent]
        BY <2>1
    <2>3. PICK len \in Nat : len = Len(log)
        BY <1>4, LenProperties
    <2>4. /\ log' \in Seq([what : What, from : 0 .. MaxSent])
          /\ Len(log') = len + 1
          /\ \A j \in 1 .. len : log'[j] = log[j]
          /\ log'[len + 1].what = w /\ log'[len + 1].from = from
        BY <1>4, <2>1, <2>2, <2>3
    <2>5. \A j \in 1 .. Len(log') : j \in 1 .. len \/ j = len + 1
        BY <2>3, <2>4
    <2>6. \A i \in alone' : \E j \in 1 .. Len(log') : log'[j].from = i
        <3> SUFFICES ASSUME NEW i \in alone'
                     PROVE  \E j \in 1 .. len + 1 : log'[j].from = i
            BY <2>4
        <3>1. CASE i \in alone
            <4>1. PICK j \in 1 .. len : log[j].from = i
                BY <2>3, <3>1 DEF IInv, LogTells
            <4>2. j \in 1 .. len + 1 /\ log'[j].from = i
                BY <2>4, <4>1
            <4> QED
                BY <4>2
        <3>2. CASE i \in Exactly(n)
            <4>1. from = i
                BY <1>6, <2>1, <3>2
            <4>2. len + 1 \in 1 .. len + 1
                BY <2>3
            <4> QED
                BY <2>4, <4>1, <4>2
        <3> QED
            BY <1>2, <3>1, <3>2
    <2>7. ASSUME NEW j \in 1 .. Len(log'), log'[j].from # 0
          PROVE  log'[j].from \in alone' /\ log'[j].what = sent[log'[j].from]
        <3>1. CASE j \in 1 .. len
            BY <1>2, <2>3, <2>4, <2>7, <3>1 DEF IInv, LogTells
        <3>2. CASE j = len + 1
            <4>1. log'[j].from = from /\ log'[j].what = w /\ from \in Exactly(n)
                BY <2>1, <2>4, <2>7, <3>2
            <4>2. w = sent[from]
                BY <1>3, <2>1, <4>1
            <4> QED
                BY <1>2, <4>1, <4>2
        <3> QED
            BY <2>5, <3>1, <3>2
    <2>8. LogInOrder'
        <3> SUFFICES ASSUME NEW j \in 1 .. Len(log'), NEW k \in 1 .. Len(log'), j < k,
                            log'[j].from # 0, log'[k].from # 0
                     PROVE  log'[j].from < log'[k].from
            BY DEF LogInOrder
        <3>1. j \in 1 .. len
            BY <2>3, <2>4
        <3>2. CASE k \in 1 .. len
            BY <2>3, <2>4, <3>1, <3>2 DEF IInv, LogInOrder
        <3>3. CASE k = len + 1
            <4>1. log'[k].from \in Exactly(n)
                BY <2>1, <2>4, <3>3
            <4>2. log'[j].from \in alone
                BY <2>3, <2>4, <3>1 DEF IInv, LogTells
            <4> QED
                BY <1>9, <4>1, <4>2
        <3> QED
            BY <2>5, <3>2, <3>3
    <2> QED
        BY <1>5, <1>8, <2>4, <2>6, <2>7, <2>8 DEF LogTells
<1> QED
    BY <1>10, <1>11

(* What a turn of the loop leaves unread, and where the messages lie in it. *)
LEMMA ReadMoves ==
    ASSUME IInv, NEW n \in 1 .. Len(unread), Read(n)
    PROVE  /\ unread' \in Seq(0 .. 255) /\ Len(unread') = Len(unread) - n
           /\ \A k \in 1 .. Len(unread') : unread'[k] = unread[n + k]
           /\ begins' \in Seq(Int) /\ Len(begins') = Len(begins)
           /\ \A i \in 1 .. Len(begins) : begins'[i] = begins[i] - n
<1>1. /\ n \in 20 .. Len(unread)
      /\ unread' = SubSeq(unread, n + 1, Len(unread))
      /\ begins' = [i \in DOMAIN begins |-> begins[i] - n]
    BY HandleFinds DEF Read
<1>2. unread \in Seq(0 .. 255) /\ begins \in Seq(Int)
    BY DEF IInv, Types
<1>3. Cut(unread, n, SubSeq(unread, 1, n), unread')
    BY <1>1, <1>2, CutAnywhere
<1>4. begins' \in Seq(Int) /\ Len(begins') = Len(begins)
      /\ \A i \in 1 .. Len(begins) : begins'[i] = begins[i] - n
    <2>1. PICK len \in Nat : len = Len(begins)
        BY <1>2, LenProperties
    <2>2. \A i \in 1 .. len : begins[i] \in Int
        BY <1>2, <2>1, ElementOfSeq
    <2>3. begins' = [i \in 1 .. len |-> begins[i] - n]
        BY <1>1, <1>2, <2>1
    <2>4. \A i \in 1 .. len : begins[i] - n \in Int
        BY <1>1, <2>2
    <2> QED
        BY <2>1, <2>3, <2>4
<1> QED
    BY <1>3, <1>4 DEF Cut

LEMMA ReadKeepsPlaces ==
    ASSUME IInv, NEW n \in 1 .. Len(unread), Read(n)
    PROVE  Laid' /\ Contents'
<1>1. /\ n \in 20 .. Len(unread)
      /\ \A i \in 1 .. Len(begins) : begins[i] \in Int /\ Size(sent[i]) \in Nat
      /\ sent' = sent /\ unread \in Seq(0 .. 255)
    BY HandleFinds DEF IInv, Types, Read
<1>2. /\ Len(unread') = Len(unread) - n
      /\ \A k \in 1 .. Len(unread') : unread'[k] = unread[n + k]
      /\ Len(begins') = Len(begins)
      /\ \A i \in 1 .. Len(begins) : begins'[i] = begins[i] - n
    BY ReadMoves
<1>3. PICK len \in Nat : len = Len(unread)
    BY <1>1, LenProperties
<1>4. n \in 20 .. len /\ Len(unread') = len - n
    BY <1>1, <1>2, <1>3
<1>5. Laid'
    <2>1. ASSUME NEW i \in 1 .. Len(begins), NEW j \in 1 .. Len(begins), i < j
          PROVE  begins'[i] + Size(sent[i]) <= begins'[j]
        <3>1. PICK a \in Int, b \in Int, size \in Nat :
                  a = begins[i] /\ b = begins[j] /\ size = Size(sent[i])
            BY <1>1
        <3>2. a + size <= b
            BY <2>1, <3>1 DEF IInv, Laid
        <3>3. begins'[i] = a - n /\ begins'[j] = b - n
            BY <1>2, <3>1
        <3>4. a - n + size <= b - n
            BY <1>4, <3>2
        <3> QED
            BY <3>1, <3>3, <3>4
    <2>2. ASSUME NEW i \in 1 .. Len(begins)
          PROVE  begins'[i] + Size(sent[i]) <= Len(unread') + 1
        <3>1. PICK a \in Int, size \in Nat : a = begins[i] /\ size = Size(sent[i])
            BY <1>1
        <3>2. a + size <= len + 1
            BY <1>3, <3>1 DEF IInv, Laid
        <3>3. a - n + size <= len - n + 1
            BY <1>4, <3>2
        <3> QED
            BY <1>2, <1>4, <3>1, <3>3
    <2> QED
        BY <1>1, <1>2, <2>1, <2>2 DEF Laid
<1>6. Contents'
    <2> SUFFICES ASSUME NEW i \in 1 .. Len(begins), NEW k \in 1 .. Size(sent[i]),
                        begins'[i] + k - 1 \in 1 .. Len(unread')
                 PROVE  unread'[begins'[i] + k - 1] = BytesOf(sent[i])[k]
        BY <1>1, <1>2 DEF Contents
    <2>1. PICK a \in Int, size \in Nat : a = begins[i] /\ size = Size(sent[i])
        BY <1>1
    <2>2. begins'[i] + k - 1 = a - n + k - 1 /\ k \in 1 .. size
        BY <1>2, <2>1
    <2>3. a - n + k - 1 \in 1 .. len - n
        BY <1>4, <2>2
    <2>4. a + k - 1 \in 1 .. len /\ n + (a - n + k - 1) = a + k - 1
        BY <1>4, <2>2, <2>3
    <2>5. unread'[a - n + k - 1] = unread[n + (a - n + k - 1)]
        BY <1>2, <1>4, <2>3
    <2>6. unread[a + k - 1] = BytesOf(sent[i])[k]
        BY <1>3, <2>1, <2>4 DEF IInv, Contents
    <2> QED
        BY <2>2, <2>4, <2>5, <2>6
<1> QED
    BY <1>5, <1>6

LEMMA ReadKeeps ==
    ASSUME IInv, NEW n \in 1 .. Len(unread), Read(n)
    PROVE  IInv'
<1>1. Handle(n) /\ UNCHANGED <<link, sent>>
    BY DEF Read
<1>2. /\ log' \in Seq([what : What, from : 0 .. MaxSent])
      /\ alone' \subseteq 1 .. Len(sent')
      /\ \A i \in alone' : i \in 1 .. Len(begins) /\ begins[i] <= 1
      /\ LogTells' /\ LogInOrder'
    BY <1>1, HandleKeepsLog
<1>3. /\ link # "down" /\ n \in 20 .. Len(unread) /\ Len(begins) = Len(sent)
      /\ \A i \in 1 .. Len(begins) : begins[i] \in Int
    BY <1>1, HandleFinds
<1>4. /\ unread' \in Seq(0 .. 255)
      /\ begins' \in Seq(Int) /\ Len(begins') = Len(begins)
      /\ \A i \in 1 .. Len(begins) : begins'[i] = begins[i] - n
    BY ReadMoves
<1>5. Types'
    BY <1>1, <1>2, <1>3, <1>4 DEF IInv, Types
<1>6. AlonePast'
    <2> SUFFICES ASSUME NEW i \in alone' PROVE begins'[i] < 1
        BY DEF AlonePast
    <2>1. begins[i] \in Int /\ begins[i] <= 1 /\ begins'[i] = begins[i] - n
        BY <1>2, <1>3, <1>4
    <2> QED
        BY <1>3, <2>1
<1>7. Laid' /\ Contents'
    BY ReadKeepsPlaces
<1> QED
    BY <1>2, <1>5, <1>6, <1>7 DEF IInv

-----------------------------------------------------------------------------
(* A connection that ends leaves its log and forgets its bytes. *)
LEMMA CloseKeeps ==
    ASSUME IInv, Close, sent' = sent,
           log' \in Seq([what : What, from : 0 .. MaxSent]),
           alone' \subseteq 1 .. Len(sent'), LogTells', LogInOrder'
    PROVE  IInv'
<1>1. link' = "down" /\ unread' = <<>> /\ begins' = <<>>
    BY DEF Close
<1>2. Types'
    BY <1>1 DEF IInv, Types
<1>3. Laid' /\ Contents' /\ AlonePast'
    BY <1>1 DEF Laid, Contents, AlonePast
<1> QED
    BY <1>2, <1>3 DEF IInv

(* The same when it handles nothing more. *)
LEMMA EndKeeps ==
    ASSUME IInv, Close, UNCHANGED <<sent, log, alone>>
    PROVE  IInv'
<1>1. /\ log' \in Seq([what : What, from : 0 .. MaxSent])
      /\ alone' \subseteq 1 .. Len(sent')
      /\ LogTells' /\ LogInOrder'
    BY DEF IInv, Types, LogTells, LogInOrder
<1> QED
    BY <1>1, CloseKeeps

LEMMA InitIInv == Init => IInv
<1> SUFFICES ASSUME Init PROVE IInv
    OBVIOUS
<1>1. /\ link = "down" /\ sent = <<>> /\ unread = <<>> /\ begins = <<>>
      /\ log = <<>> /\ alone = {}
    BY DEF Init
<1>2. Types
    <2>1. Len(sent) = 0 /\ MaxSent \in Nat
        BY <1>1, BoundAssumption
    <2> QED
        BY <1>1, <2>1 DEF Types
<1>3. Laid /\ Contents
    BY <1>1 DEF Laid, Contents
<1>4. AlonePast /\ LogTells /\ LogInOrder
    BY <1>1 DEF AlonePast, LogTells, LogInOrder
<1> QED
    BY <1>2, <1>3, <1>4 DEF IInv

LEMMA NextIInv ==
    ASSUME IInv, [Next]_vars
    PROVE  IInv'
<1>1. CASE Connect
    BY <1>1, ConnectKeeps
<1>2. ASSUME NEW message \in Messages, Send(message)
      PROVE  IInv'
    BY <1>2, SendKeeps
<1>3. CASE Disconnect
    <2>1. link = "up" /\ link' = "closing"
          /\ UNCHANGED <<sent, unread, begins, log, alone>>
        BY <1>3 DEF Disconnect
    <2>2. Types' /\ Laid' /\ Contents'
        BY <2>1 DEF IInv, Types, Laid, Contents
    <2>3. AlonePast' /\ LogTells' /\ LogInOrder'
        BY <2>1 DEF IInv, AlonePast, LogTells, LogInOrder
    <2> QED
        BY <2>2, <2>3 DEF IInv
<1>4. ASSUME NEW n \in 1 .. Len(unread), Read(n)
      PROVE  IInv'
    BY <1>4, ReadKeeps
<1>5. ASSUME NEW n \in 1 .. Len(unread), ReadLast(n)
      PROVE  IInv'
    <2>1. Handle(n) /\ Close /\ sent' = sent
        BY <1>5 DEF ReadLast
    <2>2. /\ log' \in Seq([what : What, from : 0 .. MaxSent])
          /\ alone' \subseteq 1 .. Len(sent')
          /\ LogTells' /\ LogInOrder'
        BY <2>1, HandleKeepsLog
    <2> QED
        BY <2>1, <2>2, CloseKeeps
<1>6. CASE ReadShort
    BY <1>6, EndKeeps DEF ReadShort
<1>7. CASE EndOfStream
    BY <1>7, EndKeeps DEF EndOfStream
<1>8. CASE UNCHANGED vars
    <2>1. UNCHANGED <<link, sent, unread, begins, log, alone>>
        BY <1>8 DEF vars
    <2>2. Types' /\ Laid' /\ Contents'
        BY <2>1 DEF IInv, Types, Laid, Contents
    <2>3. AlonePast' /\ LogTells' /\ LogInOrder'
        BY <2>1 DEF IInv, AlonePast, LogTells, LogInOrder
    <2> QED
        BY <2>2, <2>3 DEF IInv
<1> QED
    BY <1>1, <1>2, <1>3, <1>4, <1>5, <1>6, <1>7, <1>8 DEF Next

LEMMA AlwaysIInv == Spec => []IInv
BY InitIInv, NextIInv, PTL DEF Spec

(* FramingTypes: what is left unread when a connection ends is gone with it *)
(* (handle_connection's buffer is its own), and every variable keeps its    *)
(* type, whatever the camera sends and however the bytes are cut.           *)
THEOREM FramingTypes == Spec => []TypeOK
<1>1. ASSUME IInv PROVE TypeOK
    <2>1. \A i \in DOMAIN sent : sent[i] \in Messages
        <3>1. sent \in Seq(Messages)
            BY <1>1 DEF IInv, Types
        <3>2. DOMAIN sent = 1 .. Len(sent)
            BY <3>1
        <3> QED
            BY <3>1, <3>2, ElementOfSeq
    <2> QED
        BY <1>1, <2>1 DEF IInv, Types, TypeOK, Bytes
<1> QED
    BY <1>1, AlwaysIInv, PTL

(* AloneIsHandled: a message that one read returns, and no more, is handled *)
(* once, as what it is and in the order sent, whatever was misread before   *)
(* it and whatever bytes its payload has.                                   *)
THEOREM AloneIsHandled == Spec => []AloneHandled
<1>1. ASSUME IInv PROVE AloneHandled
    <2>1. DOMAIN log = 1 .. Len(log) /\ 0 \notin alone
        BY <1>1 DEF IInv, Types
    <2>2. ASSUME NEW i \in alone
          PROVE  {log[j].what : j \in {k \in DOMAIN log : log[k].from = i}} = {sent[i]}
        <3>1. PICK j \in 1 .. Len(log) : log[j].from = i
            BY <1>1 DEF IInv, LogTells
        <3>2. \A k \in 1 .. Len(log) : log[k].from = i => log[k].what = sent[i]
            BY <1>1, <2>1 DEF IInv, LogTells
        <3> QED
            BY <2>1, <3>1, <3>2
    <2>3. \A j, k \in DOMAIN log :
              j < k /\ log[j].from # 0 /\ log[k].from # 0 => log[j].from < log[k].from
        BY <1>1, <2>1 DEF IInv, LogInOrder
    <2> QED
        BY <2>2, <2>3 DEF AloneHandled
<1> QED
    BY <1>1, AlwaysIInv, PTL
===============================================================================
