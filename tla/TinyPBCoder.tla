---------------------------- MODULE TinyPBCoder ----------------------------
(***************************************************************************)
(* The framing of messages (net/coder/tinyPB_coder.cpp): encodeTinyPB, one *)
(* round of the loop of decode, and the parsing of what it found.          *)
(***************************************************************************)
EXTENDS TcpBuffer, FiniteSets

PB_START == 2
PB_END == 3

\* The fields of a TinyPBProtocol that go over the wire. Lengths are those of the
\* strings, and the checksum is the constant 1.
Messages(Str) ==
  [ m_msg_id : Str, m_method_name : Str, m_err_code : Int, m_err_info : Str,
    m_pb_body : Str ]

\* int32_t; pk_len and the error code are of that type.
Int32s == { n \in Int : -2147483647 - 1 <= n /\ n <= 2147483647 }

\* htonl: a negative integer in two's complement
NetInt(n) ==
  << (n \div 16777216) % 256, (n \div 65536) % 256, (n \div 256) % 256, n % 256 >>

NetString(s) == NetInt(Len(s)) \o s

\* "114514", the id of a message without one
DefaultMsgId == << 49, 49, 52, 53, 49, 52 >>

WithMsgId(m) == IF m.m_msg_id = <<>> THEN [m EXCEPT !.m_msg_id = DefaultMsgId] ELSE m

PkLenUnsummed(m) ==
  2 + 20 + Len(m.m_msg_id) + Len(m.m_method_name) + Len(m.m_err_info) + Len(m.m_pb_body)

\* Two marks, six integers (the length itself, three lengths, code and checksum), four strings
PkLen(m) ==
  2 + 24 + Len(m.m_msg_id) + Len(m.m_method_name) + Len(m.m_err_info) + Len(m.m_pb_body)

encodeTinyPB(message) ==
  LET m == WithMsgId(message) IN
  << PB_START >> \o NetInt(PkLen(m)) \o NetString(m.m_msg_id) \o NetString(m.m_method_name)
     \o NetInt(m.m_err_code) \o NetString(m.m_err_info) \o m.m_pb_body
     \o NetInt(1) \o << PB_END >>

(***************************************************************************)
(* decode works on a copy of the whole vector and looks at any index it    *)
(* computes: behind the write index it finds stale bytes, and outside the  *)
(* vector whatever the process has there, here called wild.                *)
(***************************************************************************)
At(b, i, wild) == IF i \in 0 .. b.m_size - 1 THEN b.m_buffer[i + 1] ELSE wild

\* ntohl of four bytes, as a signed 32-bit integer
getInt32FromNetByte(b, i, wild) ==
  LET high == At(b, i, wild)
      top  == IF high >= 128 THEN high - 256 ELSE high
  IN  top * 16777216 + At(b, i + 1, wild) * 65536
        + At(b, i + 2, wild) * 256 + At(b, i + 3, wild)

LengthAt(b, i, wild) == getInt32FromNetByte(b, i + 1, wild)

PacketInVector(b, i, wild) ==
  /\ At(b, i, wild) = PB_START
  /\ i + 1 < b.m_write_index
  /\ LengthAt(b, i, wild) <= b.m_size - i
  /\ At(b, i + LengthAt(b, i, wild) - 1, wild) = PB_END

\* The test of the for loop at index i. Only one byte of the length needs to have come,
\* and any length is believed that ends at or before the write index on an end mark.
PacketAt(b, i, wild) ==
  /\ At(b, i, wild) = PB_START
  /\ i + 1 < b.m_write_index
  /\ LengthAt(b, i, wild) <= b.m_write_index - i
  /\ At(b, i + LengthAt(b, i, wild) - 1, wild) = PB_END

Packets(b, wild) ==
  { i \in b.m_read_index .. b.m_write_index - 1 : PacketAt(b, i, wild) }

FirstPacket(b, wild) ==
  CHOOSE i \in Packets(b, wild) : \A j \in Packets(b, wild) : i <= j

Bytes(b, i, n, wild) == [k \in 1 .. n |-> At(b, i + k - 1, wild)]

\* std::string(const char* ) ends at the first zero
CString(s) ==
  LET zeros == { k \in DOMAIN s : s[k] = 0 }
  IN  IF zeros = {} THEN s
      ELSE SubSeq(s, 1, (CHOOSE k \in zeros : \A l \in zeros : k <= l) - 1)

(***************************************************************************)
(* What decode makes of the packet at i: a message, nothing ("malformed":  *)
(* an index is not below that of the end mark), or memory overrun and an   *)
(* exception ("fault": a length that the local arrays do not hold, with its  *)
(* zero for the error text, or a negative one). pb_body_len is computed as *)
(* the code computes it.                                                   *)
(***************************************************************************)
Parse(b, i, wild) ==
  LET Int32(k)             == getInt32FromNetByte(b, k, wild)
      pk_len             == LengthAt(b, i, wild)
      end_index          == i + pk_len - 1
      msg_id_len_index   == i + 1 + 4
      msg_id_len         == Int32(msg_id_len_index)
      msg_id_index       == msg_id_len_index + 4
      method_len_index   == msg_id_index + msg_id_len
      method_len         == Int32(method_len_index)
      method_name_index  == method_len_index + 4
      err_code_index     == method_name_index + method_len
      info_len_index     == err_code_index + 4
      info_len           == Int32(info_len_index)
      info_index         == info_len_index + 4
      pb_body_len        == pk_len - msg_id_len - method_len + info_len - 2 - 24
  IN  CASE msg_id_len_index >= end_index -> [kind |-> "malformed"]
        [] msg_id_len \notin 0 .. 100    -> [kind |-> "fault"]
        [] method_len_index >= end_index -> [kind |-> "malformed"]
        [] method_len \notin 0 .. 512    -> [kind |-> "fault"]
        [] err_code_index >= end_index   -> [kind |-> "malformed"]
        [] info_len_index >= end_index   -> [kind |-> "malformed"]
        [] info_len \notin 0 .. 511      -> [kind |-> "fault"]
        [] pb_body_len < 0               -> [kind |-> "fault"]
        [] OTHER ->
             [ kind |-> "message",
               message |->
                 [ m_msg_id      |-> Bytes(b, msg_id_index, msg_id_len, wild),
                   m_method_name |-> Bytes(b, method_name_index, method_len, wild),
                   m_err_code    |-> Int32(err_code_index),
                   m_err_info    |-> CString(Bytes(b, info_index, info_len, wild)),
                   m_pb_body     |-> Bytes(b, info_index + info_len, pb_body_len, wild) ] ]
=============================================================================
