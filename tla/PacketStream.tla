---------------------------- MODULE PacketStream ----------------------------
(***************************************************************************)
(* The bytes of one connection, in one direction: the server's replies     *)
(* (TcpConnection::reply, onWrite) encoded into m_out_buffer, written in   *)
(* whole or in part, delivered in segments, read into the m_in_buffer of   *)
(* the client's connection and decoded (onRead, execute). Registrations    *)
(* and states of the connections are in Server and RpcChannel.             *)
(***************************************************************************)
EXTENDS TinyPBCoder, SequencesExt

CONSTANTS
  BufferSize,      \* buffer_size of TcpConnection, 128 in TcpServer and TcpClient
  Replies,         \* the messages services reply with
  MaxReplies,      \* bound: replies on the connection
  Wild,            \* what a read outside of a vector may find
  Segments,        \* what may have been delivered when read(2) is called, besides all
  Parts,           \* sizes of writes that are cut short
  MaxWritten       \* bound: bytes written

ASSUME BufferAssumption == BufferSize \in Nat \ {0}
ASSUME WildAssumption == Wild # {} /\ Wild \subseteq Byte
ASSUME ReplyAssumption ==
  \A m \in Replies : /\ m \in Messages(Seq(Byte))
                     /\ m.m_err_code \in Int32s /\ PkLen(WithMsgId(m)) \in Int32s
ASSUME PartAssumption == Parts \subseteq Nat

VARIABLES
  given,           \* the replies encoded so far
  out,             \* m_out_buffer of the server
  listening,       \* OUT_EVENT in the mask of the server's connection
  wire,            \* bytes written and not read
  in,              \* m_in_buffer of the client
  pc,              \* the client: idle, in the loop of onRead, in the loop of decode
  decoded,         \* messages decoded, in order
  overrun,         \* memory was overrun or an exception left decode; nothing is said after
  bytes,           \* history: the number of bytes written
  written,         \* history: the messages written, in order, as long as none was torn
  torn,            \* history: a write was cut short
  refused,         \* history: moveWriteIndex refused what was read
  split            \* history: decode met a packet whose length had not come in full

streamVars == << given, out, listening, wire, in, pc, decoded, overrun, bytes, written, torn,
           refused, split >>
server == << given, out, listening, bytes, written, torn >>
client == << in, pc, decoded, refused, split >>

StreamInit ==
  /\ given = <<>>
  /\ out = NewBuffer(BufferSize)
  /\ listening = FALSE
  /\ wire = <<>>
  /\ in = NewBuffer(BufferSize)
  /\ pc = "idle"
  /\ decoded = <<>>
  /\ overrun = FALSE
  /\ bytes = 0
  /\ written = <<>>
  /\ torn = FALSE
  /\ refused = FALSE
  /\ split = FALSE

(* TcpConnection::reply, with listenWrite *)
Reply(m) ==
  /\ ~overrun
  /\ Len(given) < MaxReplies
  /\ Fits(out, encodeTinyPB(m))
  /\ out' = writeToBuffer(out, encodeTinyPB(m))
  /\ given' = Append(given, WithMsgId(m))
  /\ listening' = TRUE
  /\ UNCHANGED << wire, client, overrun, bytes, written, torn >>

\* The growth does not suffice and memcpy runs over the end of the vector.
ReplyOverruns(m) ==
  /\ ~overrun
  /\ Len(given) < MaxReplies
  /\ ~Fits(out, encodeTinyPB(m))
  /\ overrun' = TRUE
  /\ UNCHANGED << server, wire, client >>

(* One write(2) of onWrite, of n bytes from the read index, which nothing moves. *)
Write(n) ==
  /\ ~overrun
  /\ listening
  /\ bytes + n <= MaxWritten
  /\ wire' = wire \o SubSeq(Contents(out), 1, n)
  /\ bytes' = bytes + n
  /\ written' = written \o given
  /\ torn' = (torn \/ n < readAble(out))
  /\ listening' = (n < readAble(out))
  /\ UNCHANGED << given, out, client, overrun >>

WriteAll == Write(readAble(out))
WritePart == \E n \in Parts : n < readAble(out) /\ Write(n)

\* The vector is doubled when there is no room left.
Room == IF writeAble(in) = 0 THEN resizeBuffer(in, 2 * in.m_size) ELSE in

(* One turn of the loop of onRead: read(2) fills the tail from what has been delivered,
   moveWriteIndex follows. A read that got all it asked for is followed by another. *)
ReadOf(delivered) ==
  LET n    == MinInt(writeAble(Room), delivered)
      tail == Copied(Room, SubSeq(wire, 1, n))
  IN
  /\ ~overrun
  /\ pc \in {"idle", "read"}
  /\ delivered \in 1 .. Len(wire)
  /\ in' = moveWriteIndex(tail, n)
  /\ refused' = (refused \/ ~InRange(tail, tail.m_write_index + n))
  /\ wire' = SubSeq(wire, n + 1, Len(wire))
  /\ pc' = IF n = writeAble(Room) THEN "read" ELSE "decode"
  /\ UNCHANGED << server, decoded, overrun, split >>

Read == \E n \in Segments \cup {Len(wire)} : ReadOf(n)

\* EAGAIN
ReadNothing ==
  /\ ~overrun
  /\ pc = "read"
  /\ in' = Room
  /\ pc' = "decode"
  /\ UNCHANGED << server, wire, decoded, overrun, refused, split >>

\* A start mark whose length is not all there
HeaderCut(b) ==
  \E i \in b.m_read_index .. b.m_write_index - 1 :
    i + 4 >= b.m_write_index /\ b.m_buffer[i + 1] = PB_START

(* A turn of the loop of decode that finds a packet: it is taken from the buffer, then
   parsed. *)
Decode(wild) ==
  LET i       == FirstPacket(in, wild)
      outcome == Parse(in, i, wild)
  IN
  /\ ~overrun
  /\ pc = "decode"
  /\ Packets(in, wild) # {}
  /\ in' = moveReadIndex(in, LengthAt(in, i, wild))
  /\ decoded' = IF outcome.kind = "message" THEN Append(decoded, outcome.message)
                                            ELSE decoded
  /\ overrun' = (outcome.kind = "fault")
  /\ split' = (split \/ HeaderCut(in))
  /\ UNCHANGED << server, wire, pc, refused >>

(* A turn that finds none: decode and onRead return. *)
DecodeEnds(wild) ==
  /\ ~overrun
  /\ pc = "decode"
  /\ Packets(in, wild) = {}
  /\ pc' = "idle"
  /\ split' = (split \/ HeaderCut(in))
  /\ UNCHANGED << server, wire, in, decoded, overrun, refused >>

Server == (\E m \in Replies : Reply(m) \/ ReplyOverruns(m)) \/ WriteAll \/ WritePart
Client == Read \/ ReadNothing \/ \E wild \in Wild : Decode(wild) \/ DecodeEnds(wild)

StreamNext == Server \/ Client

StreamSpec == StreamInit /\ [][StreamNext]_streamVars
-----------------------------------------------------------------------------
(* moveWriteIndex keeps the write index below the size, so that writeAble() is never 0
   and the doubling in onRead is never reached: m_in_buffer has its first size for ever,
   and what decode takes is never refused by moveReadIndex, which would give it the same
   packet again and again. *)
InNeverFull == in.m_write_index < in.m_size /\ in.m_size = BufferSize

(* Types, the two indices of each buffer in their order, and the one that is never full:
   Contents never reaches outside of the vector. *)
StreamTypeOK ==
  /\ given \in Seq(Messages(Seq(Byte)))
  /\ IsBuffer(out) /\ IsBuffer(in) /\ InNeverFull
  /\ listening \in BOOLEAN
  /\ wire \in Seq(Byte)
  /\ pc \in {"idle", "read", "decode"}
  /\ decoded \in Seq(Messages(Seq(Byte)))
  /\ overrun \in BOOLEAN /\ torn \in BOOLEAN /\ refused \in BOOLEAN /\ split \in BOOLEAN
  /\ written \in Seq(Messages(Seq(Byte)))
  /\ bytes \in Nat

\* The marks occur as marks only, and the error text is empty.
Clean(m) ==
  LET p == encodeTinyPB(m) IN
  /\ m.m_err_info = <<>>
  /\ \A i \in 2 .. Len(p) - 1 : p[i] \notin {PB_START, PB_END}

Exposed == overrun \/ refused \/ split \/ \E k \in DOMAIN given : ~Clean(given[k])

(* As long as no read filled the buffer exactly, no length was cut, no message holds a
   mark and every write was whole: what is decoded is what was written, in order and as
   often, whatever the segments. (Behind a part decode finds a packet twice, for it moves
   the read index by the length of the packet, not to its end; and it can take the head of
   a packet that was cut short with the end of another.) *)
FramesExact ==
  ~Exposed /\ ~torn =>
    /\ IsPrefix(decoded, written)
    /\ pc = "idle" /\ wire = <<>> => decoded = written

(* Whether or not a write was cut short, decode returns: every packet it finds shortens
   what is left, as long as the rest of these conditions holds.
   (A length of 0, from the zeros behind a start mark whose length has not come, would
   make it find the same packet for ever.) *)
DecodeAdvances ==
  \A wild \in Wild :
    pc = "decode" /\ ~Exposed /\ ~HeaderCut(in) /\ Packets(in, wild) # {} =>
      LengthAt(in, FirstPacket(in, wild), wild) \in 1 .. readAble(in)

(* Each buffer is a queue of bytes: growth and compaction lose and reorder nothing. A
   negative length takes m_in_buffer out of this. *)
OutQueue == INSTANCE ByteQueue WITH queue <- Contents(out)
InQueue == INSTANCE ByteQueue WITH queue <- Contents(in)
OutIsQueue == OutQueue!Spec
BuffersAreQueues == OutIsQueue /\ InQueue!Spec

(* Every byte that read(2) returned is in the buffer. *)
ReadIsKept == ~refused
=============================================================================
