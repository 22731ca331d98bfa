----------------------------- MODULE BinaryHeader -----------------------------
(***************************************************************************)
(* The 20-byte header of src/protocol/binary.rs, as bytes.  The numbers    *)
(* of 32 bits are pairs of 16, the low half first, to stay within the      *)
(* integers of TLC.                                                        *)
(***************************************************************************)
EXTENDS Integers, Sequences

SIZE == 20

(* mutant: the most significant byte first *)
get_u16_be(bytes) == 256 * bytes[1] + bytes[2]

put_u16_le(n) == <<n % 256, (n \div 256) % 256>>
get_u16_le(bytes) == bytes[1] + 256 * bytes[2]

u32(n) == <<n % 65536, n \div 65536>>
put_u32_le(u) == put_u16_le(u[1]) \o put_u16_le(u[2])
get_u32_le(bytes) == <<get_u16_le(bytes), get_u16_le(SubSeq(bytes, 3, 4))>>

to_bytes(h) ==
    put_u32_le(h.length) \o put_u16_le(h.cmd) \o <<h.msg_flag, h.deal_fl>>
        \o h.fwd_id \o put_u32_le(h.pkg_id)

(* Header and payload of data of at least SIZE bytes.  The payload is all   *)
(* that follows the header, whatever length the header has.                 *)
from_bytes(data) ==
    [header |-> [length |-> get_u32_le(SubSeq(data, 1, 4)),
                 cmd |-> get_u16_le(SubSeq(data, 5, 6)),
                 msg_flag |-> data[7],
                 deal_fl |-> data[8],
                 fwd_id |-> SubSeq(data, 9, 16),
                 pkg_id |-> get_u32_le(SubSeq(data, 17, 20))],
     payload |-> SubSeq(data, SIZE + 1, Len(data))]

new(cmd, length, msg_flag, pkg_id) ==
    [length |-> u32(length), cmd |-> cmd, msg_flag |-> msg_flag, deal_fl |-> 0,
     fwd_id |-> [i \in 1 .. 8 |-> 0], pkg_id |-> u32(pkg_id)]

json(pkg_id, length) == new(0, length, 255, pkg_id)
binary(cmd, pkg_id, length) == new(cmd, length, 255, pkg_id)
video_frame(pkg_id, length, msg_flag) == new(1, length, msg_flag, pkg_id)
heartbeat(pkg_id) == new(100, 20, 255, pkg_id)
===============================================================================
