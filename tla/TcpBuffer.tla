----------------------------- MODULE TcpBuffer -----------------------------
(***************************************************************************)
(* The byte buffer of a connection (net/TCP/tcp_buffer.cpp): a vector of   *)
(* bytes, a read and a write index, growth and compaction. A buffer is a   *)
(* record and every method an operator on it, so that the modules that     *)
(* compose connections can hold several buffers. The byte at index i is    *)
(* m_buffer[i + 1].                                                        *)
(***************************************************************************)
EXTENDS Integers, Sequences

Byte == 0 .. 255

Buffer ==
  [ m_buffer : Seq(Byte), m_size : Nat, m_read_index : Nat, m_write_index : Nat ]

IsBuffer(b) ==
  /\ b \in Buffer
  /\ b.m_size = Len(b.m_buffer)
  /\ b.m_read_index <= b.m_write_index
  /\ b.m_write_index <= b.m_size

Zeros(n) == [k \in 1 .. n |-> 0]

\* std::vector::resize fills with zeros
NewBuffer(size) ==
  [ m_buffer |-> Zeros(size), m_size |-> size, m_read_index |-> 0, m_write_index |-> 0 ]

readAble(b)  == b.m_write_index - b.m_read_index
writeAble(b) == b.m_size - b.m_write_index

\* What is between the two indices: what the buffer holds for its user.
Contents(b) == SubSeq(b.m_buffer, b.m_read_index + 1, b.m_write_index)

MinInt(a, b) == IF a < b THEN a ELSE b

\* A new vector, zeros behind what is copied.
resizeBuffer(b, new_size) ==
  LET count == MinInt(new_size, readAble(b)) IN
  [ m_buffer |-> SubSeq(Contents(b), 1, count) \o Zeros(new_size - count),
    m_size |-> new_size, m_read_index |-> 0, m_write_index |-> count ]

AdjustedIndicesOnly(b) ==
  IF b.m_read_index < Len(b.m_buffer) \div 3
  THEN b
  ELSE [b EXCEPT !.m_read_index = 0, !.m_write_index = readAble(b)]

\* Compaction. What was behind the moved bytes stays there as stale bytes.
adjustBuffer(b) ==
  IF b.m_read_index < Len(b.m_buffer) \div 3
  THEN b
  ELSE [ b EXCEPT
           !.m_buffer = Contents(b) \o SubSeq(@, readAble(b) + 1, Len(@)),
           !.m_read_index = 0,
           !.m_write_index = readAble(b) ]

UpToSize(b, index) == index >= 0 /\ index <= Len(b.m_buffer)

\* Both refuse an index that is not below the size. A negative sum is a huge size_t.
InRange(b, index) == index >= 0 /\ index < Len(b.m_buffer)

moveReadIndex(b, size) ==
  IF InRange(b, b.m_read_index + size)
  THEN adjustBuffer([b EXCEPT !.m_read_index = @ + size])
  ELSE b

moveWriteIndex(b, size) ==
  IF InRange(b, b.m_write_index + size)
  THEN adjustBuffer([b EXCEPT !.m_write_index = @ + size])
  ELSE b

\* memcpy of data behind the write index, which does not move.
Copied(b, data) ==
  [ b EXCEPT !.m_buffer =
      SubSeq(@, 1, b.m_write_index) \o data
        \o SubSeq(@, b.m_write_index + Len(data) + 1, Len(@)) ]

\* The growth of writeToBuffer, (int)(1.5 * (m_size + m_write_index)), whatever the size
\* of the data. What does not fit then is written past the end of the vector.
Grown(b, data) ==
  IF Len(data) > writeAble(b)
  THEN resizeBuffer(b, (3 * (b.m_size + b.m_write_index)) \div 2)
  ELSE b

FitsEmptied(b, data) == Len(data) <= Grown(b, data).m_size

Fits(b, data) == Len(data) <= writeAble(Grown(b, data))

writeToBuffer(b, data) ==
  [ Copied(Grown(b, data), data) EXCEPT !.m_write_index = @ + Len(data) ]
=============================================================================
