------------------------- MODULE PacketStreamProofs -------------------------
(***************************************************************************)
(* What TcpBuffer and PacketStream guarantee for any size of the buffers,  *)
(* any replies, segments and parts of writes, and whatever decode may read *)
(* outside of a vector. First the methods of the buffer, one lemma each:   *)
(* what they keep of the contents, and that the indices stay in order.     *)
(* Then the codec: what encode writes decode reads. From these follow the  *)
(* two claims about decode: it always advances (MarksKept), and it yields  *)
(* what was written, in order and each once (InOrder).                     *)
(***************************************************************************)
EXTENDS PacketStream, SequenceTheorems, WellFoundedInduction, TLAPS

LEMMA SameSequence ==
  ASSUME NEW S, NEW s \in Seq(S), NEW t \in Seq(S), Len(s) = Len(t),
         \A k \in 1 .. Len(s) : s[k] = t[k]
  PROVE  s = t
OBVIOUS

LEMMA Part ==
  ASSUME NEW S, NEW s \in Seq(S), NEW m \in 1 .. Len(s) + 1, NEW n \in m - 1 .. Len(s)
  PROVE  /\ SubSeq(s, m, n) \in Seq(S)
         /\ Len(SubSeq(s, m, n)) = n - m + 1
         /\ \A k \in 1 .. n - m + 1 : SubSeq(s, m, n)[k] = s[m + k - 1]
OBVIOUS

LEMMA Join ==
  ASSUME NEW s \in Seq(Byte), NEW t \in Seq(Byte), NEW m, NEW n, m = Len(s), n = Len(t)
  PROVE  /\ s \o t \in Seq(Byte)
         /\ Len(s \o t) = m + n
         /\ \A k \in 1 .. m : (s \o t)[k] = s[k]
         /\ \A k \in 1 .. n : (s \o t)[m + k] = t[k]
OBVIOUS

-----------------------------------------------------------------------------
(* The first of some positions *)

NatLess == { p \in Nat \X Nat : p[1] < p[2] }

LEMMA NatLessWellFounded == IsWellFoundedOn(NatLess, Nat)
BY NatLessThanWellFounded DEF OpToRel, NatLess

LEMMA Minimum ==
  ASSUME NEW S \in SUBSET Nat, S # {}
  PROVE  \E n \in S : \A m \in S : n <= m
<1>1. PICK n \in S : \A m \in S : ~(<<m, n>> \in NatLess)
  BY NatLessWellFounded, WFMin
<1>2. ASSUME NEW m \in S PROVE n <= m
  <2>1. <<m, n>> \in Nat \X Nat /\ <<m, n>>[1] = m /\ <<m, n>>[2] = n
    OBVIOUS
  <2>2. ~(m < n)
    BY <1>1, <2>1, Zenon DEF NatLess
  <2> QED
    BY <2>2
<1> QED
  BY <1>2

-----------------------------------------------------------------------------
LEMMA ContentsType ==
  ASSUME NEW b, IsBuffer(b)
  PROVE  /\ b.m_buffer \in Seq(Byte) /\ b.m_size = Len(b.m_buffer) /\ b.m_size \in Nat
         /\ b.m_read_index \in Nat /\ b.m_write_index \in Nat
         /\ b.m_read_index <= b.m_write_index /\ b.m_write_index <= b.m_size
         /\ readAble(b) \in Nat /\ writeAble(b) \in Nat
         /\ readAble(b) = b.m_write_index - b.m_read_index
         /\ readAble(b) <= b.m_size
         /\ Contents(b) \in Seq(Byte) /\ Len(Contents(b)) = readAble(b)
         /\ \A k \in 1 .. readAble(b) : Contents(b)[k] = b.m_buffer[b.m_read_index + k]
<1>1. /\ b.m_buffer \in Seq(Byte) /\ b.m_size = Len(b.m_buffer) /\ b.m_size \in Nat
      /\ b.m_read_index \in Nat /\ b.m_write_index \in Nat
      /\ b.m_read_index <= b.m_write_index /\ b.m_write_index <= b.m_size
  BY DEF IsBuffer, Buffer
<1>2. /\ readAble(b) \in Nat /\ writeAble(b) \in Nat /\ readAble(b) <= b.m_size
      /\ readAble(b) = b.m_write_index - b.m_read_index
  BY <1>1 DEF readAble, writeAble
<1> DEFINE m == b.m_read_index + 1
           n == b.m_write_index
<1>3. m \in 1 .. Len(b.m_buffer) + 1 /\ n \in m - 1 .. Len(b.m_buffer) /\ n - m + 1 = readAble(b)
  BY <1>1, <1>2
<1>4. /\ SubSeq(b.m_buffer, m, n) \in Seq(Byte)
      /\ Len(SubSeq(b.m_buffer, m, n)) = n - m + 1
      /\ \A k \in 1 .. n - m + 1 : SubSeq(b.m_buffer, m, n)[k] = b.m_buffer[m + k - 1]
  BY <1>1, <1>3, Part
<1>5. \A k \in 1 .. readAble(b) : m + k - 1 = b.m_read_index + k
  BY <1>1, <1>2
<1> QED
  BY <1>1, <1>2, <1>3, <1>4, <1>5 DEF Contents

\* How a buffer is recognised.
LEMMA BufferIs ==
  ASSUME NEW bytesOf \in Seq(Byte), NEW r \in Nat, NEW w \in Nat, r <= w, w <= Len(bytesOf),
         NEW b, b = [ m_buffer |-> bytesOf, m_size |-> Len(bytesOf), m_read_index |-> r,
                      m_write_index |-> w ]
  PROVE  IsBuffer(b)
BY DEF IsBuffer, Buffer

LEMMA BufferFields ==
  ASSUME NEW b, IsBuffer(b)
  PROVE  /\ b = [ m_buffer |-> b.m_buffer, m_size |-> b.m_size,
                  m_read_index |-> b.m_read_index, m_write_index |-> b.m_write_index ]
BY DEF IsBuffer, Buffer

LEMMA ZerosType ==
  ASSUME NEW n \in Nat
  PROVE  Zeros(n) \in Seq(Byte) /\ Len(Zeros(n)) = n
BY DEF Zeros, Byte

LEMMA NewBufferIs ==
  ASSUME NEW size \in Nat
  PROVE  /\ IsBuffer(NewBuffer(size)) /\ Contents(NewBuffer(size)) = <<>>
         /\ NewBuffer(size).m_size = size /\ NewBuffer(size).m_write_index = 0
<1>1. IsBuffer(NewBuffer(size))
  BY ZerosType, BufferIs DEF NewBuffer
<1>2. /\ NewBuffer(size).m_size = size /\ NewBuffer(size).m_write_index = 0
      /\ NewBuffer(size).m_read_index = 0
  BY DEF NewBuffer
<1>3. Contents(NewBuffer(size)) \in Seq(Byte) /\ Len(Contents(NewBuffer(size))) = 0
  BY <1>1, <1>2, ContentsType
<1> QED
  BY <1>1, <1>2, <1>3

\* Compaction moves the contents to the front.
LEMMA AdjustKeeps ==
  ASSUME NEW b, IsBuffer(b)
  PROVE  /\ IsBuffer(adjustBuffer(b)) /\ Contents(adjustBuffer(b)) = Contents(b)
         /\ adjustBuffer(b).m_size = b.m_size
         /\ adjustBuffer(b).m_write_index <= b.m_write_index
<1>1. CASE b.m_read_index < Len(b.m_buffer) \div 3
  BY <1>1, ContentsType DEF adjustBuffer
<1>2. CASE ~(b.m_read_index < Len(b.m_buffer) \div 3)
  <2> DEFINE rest  == SubSeq(b.m_buffer, readAble(b) + 1, Len(b.m_buffer))
             moved == Contents(b) \o rest
             new   == [ m_buffer |-> moved, m_size |-> b.m_size, m_read_index |-> 0,
                        m_write_index |-> readAble(b) ]
  <2>1. adjustBuffer(b) = new
    <3>1. adjustBuffer(b) =
            [ b EXCEPT !.m_buffer = Contents(b) \o SubSeq(@, readAble(b) + 1, Len(@)),
                       !.m_read_index = 0, !.m_write_index = readAble(b) ]
      BY <1>2 DEF adjustBuffer
    <3> QED
      BY <3>1, BufferFields
  <2>2. rest \in Seq(Byte) /\ Len(rest) = b.m_size - readAble(b)
    <3>1. readAble(b) + 1 \in 1 .. Len(b.m_buffer) + 1
            /\ Len(b.m_buffer) \in (readAble(b) + 1) - 1 .. Len(b.m_buffer)
      BY ContentsType
    <3>2. Len(b.m_buffer) - (readAble(b) + 1) + 1 = b.m_size - readAble(b)
      BY ContentsType
    <3> QED
      BY <3>1, <3>2, Part, ContentsType
  <2> HIDE DEF rest
  <2>3. /\ moved \in Seq(Byte) /\ Len(moved) = b.m_size
        /\ \A k \in 1 .. readAble(b) : moved[k] = Contents(b)[k]
    <3>1. Contents(b) \in Seq(Byte) /\ Len(Contents(b)) = readAble(b)
            /\ readAble(b) \in Nat /\ b.m_size \in Nat
      BY ContentsType
    <3> QED
      BY <2>2, <3>1, Join
  <2> HIDE DEF moved
  <2>4. IsBuffer(new)
    <3>1. readAble(b) \in Nat /\ readAble(b) <= b.m_size
      BY ContentsType
    <3> QED
      BY <2>3, <3>1, BufferIs
  <2>5. new.m_buffer = moved /\ new.m_size = b.m_size /\ new.m_read_index = 0
          /\ new.m_write_index = readAble(b)
    OBVIOUS
  <2> HIDE DEF new
  <2>6. Contents(new) = Contents(b)
    <3>1. /\ readAble(new) = readAble(b) /\ readAble(b) \in Nat
          /\ Contents(new) \in Seq(Byte) /\ Len(Contents(new)) = readAble(new)
          /\ Contents(b) \in Seq(Byte) /\ Len(Contents(b)) = readAble(b)
      BY <2>4, <2>5, ContentsType
    <3>2. \A k \in 1 .. readAble(b) : Contents(new)[k] = Contents(b)[k]
      BY <2>3, <2>4, <2>5, <3>1, ContentsType
    <3> QED
      BY <3>1, <3>2, SameSequence
  <2>7. readAble(b) <= b.m_write_index
    BY ContentsType
  <2> QED
    BY <2>1, <2>4, <2>5, <2>6, <2>7
<1> QED
  BY <1>1, <1>2

\* A vector that has room for the contents takes them over.
LEMMA ResizeKeeps ==
  ASSUME NEW b, IsBuffer(b), NEW new_size \in Nat, readAble(b) <= new_size
  PROVE  /\ IsBuffer(resizeBuffer(b, new_size))
         /\ Contents(resizeBuffer(b, new_size)) = Contents(b)
         /\ resizeBuffer(b, new_size).m_size = new_size
<1> DEFINE count == MinInt(new_size, readAble(b))
           bytesOf == Contents(b) \o Zeros(new_size - readAble(b))
           new   == [ m_buffer |-> bytesOf, m_size |-> new_size, m_read_index |-> 0,
                      m_write_index |-> readAble(b) ]
<1>1. /\ readAble(b) \in Nat /\ Contents(b) \in Seq(Byte) /\ Len(Contents(b)) = readAble(b)
  BY ContentsType
<1>2. count = readAble(b)
  BY <1>1 DEF MinInt
<1>3. SubSeq(Contents(b), 1, count) = Contents(b)
  BY <1>1, <1>2, SubSeqFull
<1>4. resizeBuffer(b, new_size) = new
  BY <1>2, <1>3 DEF resizeBuffer
<1>5. /\ bytesOf \in Seq(Byte) /\ Len(bytesOf) = new_size
      /\ \A k \in 1 .. readAble(b) : bytesOf[k] = Contents(b)[k]
  <2>1. new_size - readAble(b) \in Nat
    BY <1>1
  <2>2. Zeros(new_size - readAble(b)) \in Seq(Byte)
          /\ Len(Zeros(new_size - readAble(b))) = new_size - readAble(b)
    BY <2>1, ZerosType
  <2> QED
    BY <1>1, <2>1, <2>2, Join
<1> HIDE DEF bytesOf
<1>6. IsBuffer(new)
  BY <1>1, <1>5, BufferIs
<1>7. new.m_buffer = bytesOf /\ new.m_size = new_size /\ new.m_read_index = 0
        /\ new.m_write_index = readAble(b)
  OBVIOUS
<1> HIDE DEF new
<1>8. Contents(new) = Contents(b)
  <2>1. /\ readAble(new) = readAble(b)
        /\ Contents(new) \in Seq(Byte) /\ Len(Contents(new)) = readAble(new)
    BY <1>1, <1>6, <1>7, ContentsType
  <2>2. \A k \in 1 .. readAble(b) : Contents(new)[k] = Contents(b)[k]
    BY <1>1, <1>5, <1>6, <1>7, <2>1, ContentsType
  <2> QED
    BY <1>1, <2>1, <2>2, SameSequence
<1> QED
  BY <1>4, <1>6, <1>7, <1>8

\* What is copied behind the write index changes no contents, and joins them when the
\* write index follows.
LEMMA CopyKeeps ==
  ASSUME NEW b, IsBuffer(b), NEW data \in Seq(Byte), Len(data) <= writeAble(b)
  PROVE  /\ IsBuffer(Copied(b, data)) /\ Contents(Copied(b, data)) = Contents(b)
         /\ Copied(b, data).m_size = b.m_size /\ Copied(b, data).m_write_index = b.m_write_index
         /\ Copied(b, data).m_read_index = b.m_read_index
         /\ LET new == [Copied(b, data) EXCEPT !.m_write_index = @ + Len(data)] IN
            /\ IsBuffer(new) /\ Contents(new) = Contents(b) \o data
            /\ new.m_size = b.m_size /\ new.m_write_index = b.m_write_index + Len(data)
<1> DEFINE w     == b.m_write_index
           head  == SubSeq(b.m_buffer, 1, w)
           rest  == SubSeq(b.m_buffer, w + Len(data) + 1, Len(b.m_buffer))
           bytesOf == (head \o data) \o rest
           copy  == [ m_buffer |-> bytesOf, m_size |-> b.m_size,
                      m_read_index |-> b.m_read_index, m_write_index |-> w ]
           new   == [ m_buffer |-> bytesOf, m_size |-> b.m_size,
                      m_read_index |-> b.m_read_index, m_write_index |-> w + Len(data) ]
<1>1. /\ b.m_buffer \in Seq(Byte) /\ b.m_size = Len(b.m_buffer) /\ b.m_size \in Nat
      /\ b.m_read_index \in Nat /\ w \in Nat /\ b.m_read_index <= w /\ w <= b.m_size
      /\ Len(data) \in Nat /\ w + Len(data) <= b.m_size
  <2>1. writeAble(b) = b.m_size - w
    BY DEF writeAble
  <2> QED
    BY <2>1, ContentsType
<1>2. Copied(b, data) = copy
  <2>1. Copied(b, data) = [b EXCEPT !.m_buffer = bytesOf]
    BY DEF Copied
  <2> HIDE DEF bytesOf
  <2> QED
    BY <2>1, BufferFields
<1>3. [Copied(b, data) EXCEPT !.m_write_index = @ + Len(data)] = new
  <2> HIDE DEF bytesOf
  <2> QED
    BY <1>2
<1>4. head \in Seq(Byte) /\ Len(head) = w /\ \A k \in 1 .. w : head[k] = b.m_buffer[k]
  BY <1>1, Part
<1>5. rest \in Seq(Byte) /\ Len(rest) = b.m_size - (w + Len(data))
  <2>1. w + Len(data) + 1 \in 1 .. Len(b.m_buffer) + 1
          /\ Len(b.m_buffer) \in (w + Len(data) + 1) - 1 .. Len(b.m_buffer)
          /\ Len(b.m_buffer) - (w + Len(data) + 1) + 1 = b.m_size - (w + Len(data))
    BY <1>1
  <2> QED
    BY <1>1, <2>1, Part
<1> HIDE DEF head, rest
<1>6. /\ head \o data \in Seq(Byte) /\ Len(head \o data) = w + Len(data)
      /\ \A k \in 1 .. w : (head \o data)[k] = head[k]
      /\ \A k \in 1 .. Len(data) : (head \o data)[w + k] = data[k]
  BY <1>4, Join
<1>7. /\ bytesOf \in Seq(Byte) /\ Len(bytesOf) = b.m_size
      /\ \A k \in 1 .. w + Len(data) : bytesOf[k] = (head \o data)[k]
  <2> DEFINE front == head \o data
             m     == w + Len(data)
             n     == b.m_size - m
  <2>1. front \in Seq(Byte) /\ m = Len(front) /\ n = Len(rest) /\ bytesOf = front \o rest
    BY <1>5, <1>6
  <2>2. m + n = b.m_size
    BY <1>1
  <2> HIDE DEF front, m, n, bytesOf
  <2>3. /\ front \o rest \in Seq(Byte) /\ Len(front \o rest) = m + n
        /\ \A k \in 1 .. m : (front \o rest)[k] = front[k]
    BY <1>5, <2>1, Join
  <2>4. /\ bytesOf \in Seq(Byte) /\ Len(bytesOf) = b.m_size
        /\ \A k \in 1 .. m : bytesOf[k] = front[k]
    BY <2>1, <2>2, <2>3
  <2> QED
    BY <2>4 DEF front, m
<1> HIDE DEF bytesOf
<1>8. /\ \A k \in 1 .. w : bytesOf[k] = b.m_buffer[k]
      /\ \A k \in 1 .. Len(data) : bytesOf[w + k] = data[k]
  <2>1. \A k \in 1 .. w : k \in 1 .. w + Len(data)
    BY <1>1
  <2>2. \A k \in 1 .. Len(data) : w + k \in 1 .. w + Len(data)
    BY <1>1
  <2> HIDE DEF w
  <2> QED
    BY <1>4, <1>6, <1>7, <2>1, <2>2
<1>9. IsBuffer(copy) /\ IsBuffer(new)
  BY <1>1, <1>7, BufferIs
<1>10. /\ copy.m_buffer = bytesOf /\ copy.m_size = b.m_size
       /\ copy.m_read_index = b.m_read_index /\ copy.m_write_index = w
       /\ new.m_buffer = bytesOf /\ new.m_size = b.m_size
       /\ new.m_read_index = b.m_read_index /\ new.m_write_index = w + Len(data)
  OBVIOUS
<1> HIDE DEF copy, new
<1>11. /\ readAble(b) \in Nat /\ readAble(b) = w - b.m_read_index
       /\ Contents(b) \in Seq(Byte) /\ Len(Contents(b)) = readAble(b)
       /\ \A k \in 1 .. readAble(b) : Contents(b)[k] = b.m_buffer[b.m_read_index + k]
  BY ContentsType
<1>12. /\ readAble(copy) = readAble(b)
       /\ Contents(copy) \in Seq(Byte) /\ Len(Contents(copy)) = readAble(b)
       /\ \A k \in 1 .. readAble(b) : Contents(copy)[k] = bytesOf[b.m_read_index + k]
  BY <1>9, <1>10, <1>11, ContentsType, SMTT(30)
<1>13. /\ readAble(new) = readAble(b) + Len(data)
       /\ Contents(new) \in Seq(Byte) /\ Len(Contents(new)) = readAble(new)
       /\ \A k \in 1 .. readAble(new) : Contents(new)[k] = bytesOf[b.m_read_index + k]
  <2>1. readAble(new) = (w + Len(data)) - b.m_read_index
    BY <1>9, <1>10, ContentsType
  <2>2. readAble(new) = readAble(b) + Len(data)
    BY <1>1, <1>11, <2>1
  <2> QED
    BY <1>9, <1>10, <2>2, ContentsType
<1>14. \A k \in 1 .. readAble(b) : bytesOf[b.m_read_index + k] = Contents(b)[k]
  <2>1. \A k \in 1 .. readAble(b) : b.m_read_index + k \in 1 .. w
    BY <1>1, <1>11
  <2> HIDE DEF w
  <2> QED
    BY <1>8, <1>11, <2>1
<1>15. \A k \in 1 .. Len(data) : bytesOf[b.m_read_index + (readAble(b) + k)] = data[k]
  <2>1. \A k \in 1 .. Len(data) : b.m_read_index + (readAble(b) + k) = w + k
    BY <1>1, <1>11
  <2> QED
    BY <1>8, <2>1
<1>16. Contents(copy) = Contents(b)
  BY <1>11, <1>12, <1>14, SameSequence
<1>17. Contents(new) = Contents(b) \o data
  <2> DEFINE joined == Contents(b) \o data
  <2>1. /\ joined \in Seq(Byte) /\ Len(joined) = readAble(b) + Len(data)
        /\ \A k \in 1 .. readAble(b) : joined[k] = Contents(b)[k]
        /\ \A k \in 1 .. Len(data) : joined[readAble(b) + k] = data[k]
    BY <1>11, Join
  <2> HIDE DEF joined
  <2>2. ASSUME NEW k \in 1 .. readAble(new) PROVE Contents(new)[k] = joined[k]
    <3>1. CASE k <= readAble(b)
      <4>1. k \in 1 .. readAble(b)
        BY <1>1, <1>11, <1>13, <3>1
      <4> QED
        BY <1>13, <1>14, <2>1, <4>1
    <3>2. CASE k > readAble(b)
      <4>1. k - readAble(b) \in 1 .. Len(data) /\ readAble(b) + (k - readAble(b)) = k
        <5>1. k \in 1 .. readAble(b) + Len(data) /\ readAble(b) \in Nat /\ Len(data) \in Nat
          BY <1>1, <1>11, <1>13
        <5> QED
          BY <3>2, <5>1
      <4> QED
        BY <1>13, <1>15, <2>1, <4>1
    <3> QED
      BY <1>11, <3>1, <3>2
  <2>3. Contents(new) = joined
    BY <1>13, <2>1, <2>2, SameSequence
  <2> QED
    BY <2>3 DEF joined
<1> QED
  BY <1>2, <1>3, <1>9, <1>10, <1>16, <1>17

-----------------------------------------------------------------------------
LEMMA GrownKeeps ==
  ASSUME NEW b, IsBuffer(b), NEW data
  PROVE  IsBuffer(Grown(b, data)) /\ Contents(Grown(b, data)) = Contents(b)
<1> DEFINE new_size == (3 * (b.m_size + b.m_write_index)) \div 2
<1>1. /\ b.m_size \in Nat /\ b.m_write_index \in Nat /\ readAble(b) \in Nat
      /\ readAble(b) <= b.m_size
  BY ContentsType
<1>2. new_size \in Nat /\ b.m_size <= new_size
  BY <1>1
<1>3. readAble(b) <= new_size
  BY <1>1, <1>2
<1> HIDE DEF new_size
<1>4. IsBuffer(resizeBuffer(b, new_size)) /\ Contents(resizeBuffer(b, new_size)) = Contents(b)
  BY <1>2, <1>3, ResizeKeeps
<1> QED
  BY <1>4, Zenon DEF Grown, new_size

\* What fits is appended, and nothing else happens to the contents.
LEMMA WriteKeeps ==
  ASSUME NEW b, IsBuffer(b), NEW data \in Seq(Byte), Fits(b, data)
  PROVE  /\ IsBuffer(writeToBuffer(b, data))
         /\ Contents(writeToBuffer(b, data)) = Contents(b) \o data
<1> DEFINE grown == Grown(b, data)
<1>1. IsBuffer(grown) /\ Contents(grown) = Contents(b) /\ Len(data) <= writeAble(grown)
  BY GrownKeeps DEF Fits
<1>2. writeToBuffer(b, data) = [Copied(grown, data) EXCEPT !.m_write_index = @ + Len(data)]
  BY DEF writeToBuffer
<1> HIDE DEF grown
<1> QED
  BY <1>1, <1>2, CopyKeeps

LEMMA MoveReadKeeps ==
  ASSUME NEW b, IsBuffer(b), NEW size \in Int, size <= readAble(b)
  PROVE  /\ IsBuffer(moveReadIndex(b, size)) /\ moveReadIndex(b, size).m_size = b.m_size
         /\ moveReadIndex(b, size).m_write_index <= b.m_write_index
<1>1. CASE InRange(b, b.m_read_index + size)
  <2> DEFINE r == b.m_read_index + size
             moved == [ m_buffer |-> b.m_buffer, m_size |-> Len(b.m_buffer),
                        m_read_index |-> r, m_write_index |-> b.m_write_index ]
  <2>1. /\ b.m_buffer \in Seq(Byte) /\ b.m_size = Len(b.m_buffer)
        /\ b.m_read_index \in Nat /\ b.m_write_index \in Nat /\ b.m_write_index <= Len(b.m_buffer)
        /\ readAble(b) = b.m_write_index - b.m_read_index
    BY ContentsType
  <2>2. r \in Nat /\ r <= b.m_write_index
    BY <1>1, <2>1 DEF InRange
  <2>3. [b EXCEPT !.m_read_index = @ + size] = moved
    BY <2>1, BufferFields
  <2> HIDE DEF r
  <2>4. IsBuffer(moved)
    BY <2>1, <2>2, BufferIs
  <2>5. moved.m_size = b.m_size /\ moved.m_write_index = b.m_write_index
    BY <2>1
  <2>6. moveReadIndex(b, size) = adjustBuffer(moved)
    BY <1>1, <2>3 DEF moveReadIndex
  <2> HIDE DEF moved
  <2> QED
    BY <2>4, <2>5, <2>6, AdjustKeeps
<1>2. CASE ~InRange(b, b.m_read_index + size)
  BY <1>2, ContentsType DEF moveReadIndex
<1> QED
  BY <1>1, <1>2

\* An index that the vector's size would be reached by is refused.
LEMMA MoveWriteKeeps ==
  ASSUME NEW b, IsBuffer(b), NEW size \in Nat
  PROVE  /\ IsBuffer(moveWriteIndex(b, size)) /\ moveWriteIndex(b, size).m_size = b.m_size
         /\ b.m_write_index < b.m_size =>
              moveWriteIndex(b, size).m_write_index < b.m_size
<1>1. CASE InRange(b, b.m_write_index + size)
  <2> DEFINE w == b.m_write_index + size
             moved == [ m_buffer |-> b.m_buffer, m_size |-> Len(b.m_buffer),
                        m_read_index |-> b.m_read_index, m_write_index |-> w ]
  <2>1. /\ b.m_buffer \in Seq(Byte) /\ b.m_size = Len(b.m_buffer) /\ b.m_size \in Nat
        /\ b.m_read_index \in Nat /\ b.m_write_index \in Nat
        /\ b.m_read_index <= b.m_write_index
    BY ContentsType
  <2>2. w \in Nat /\ b.m_read_index <= w /\ w < Len(b.m_buffer)
    BY <1>1, <2>1 DEF InRange
  <2>3. [b EXCEPT !.m_write_index = @ + size] = moved
    BY <2>1, BufferFields
  <2> HIDE DEF w
  <2>4. IsBuffer(moved)
    BY <2>1, <2>2, BufferIs
  <2>5. moved.m_size = b.m_size /\ moved.m_write_index = w
    BY <2>1
  <2>6. moveWriteIndex(b, size) = adjustBuffer(moved)
    BY <1>1, <2>3 DEF moveWriteIndex
  <2> HIDE DEF moved
  <2>7. /\ IsBuffer(adjustBuffer(moved)) /\ adjustBuffer(moved).m_size = b.m_size
        /\ adjustBuffer(moved).m_write_index <= w
        /\ adjustBuffer(moved).m_write_index \in Nat
    BY <2>4, <2>5, AdjustKeeps, ContentsType
  <2> QED
    BY <2>1, <2>2, <2>6, <2>7
<1>2. CASE ~InRange(b, b.m_write_index + size)
  BY <1>2, ContentsType DEF moveWriteIndex
<1> QED
  BY <1>1, <1>2

-----------------------------------------------------------------------------
(* What the coder makes of messages and bytes. *)
LEMMA NetIntType ==
  ASSUME NEW n \in Int
  PROVE  NetInt(n) \in Seq(Byte) /\ Len(NetInt(n)) = 4
<1>1. /\ (n \div 16777216) % 256 \in Byte /\ (n \div 65536) % 256 \in Byte
      /\ (n \div 256) % 256 \in Byte /\ n % 256 \in Byte
  BY DEF Byte
<1> QED
  BY <1>1 DEF NetInt

LEMMA NetStringType ==
  ASSUME NEW s \in Seq(Byte)
  PROVE  NetString(s) \in Seq(Byte)
<1>1. NetInt(Len(s)) \in Seq(Byte)
  BY NetIntType
<1> QED
  BY <1>1 DEF NetString

LEMMA WithMsgIdType ==
  ASSUME NEW m \in Messages(Seq(Byte))
  PROVE  WithMsgId(m) \in Messages(Seq(Byte))
<1>1. DefaultMsgId \in Seq(Byte)
  BY DEF DefaultMsgId, Byte
<1> QED
  BY <1>1 DEF WithMsgId, Messages

LEMMA EncodeType ==
  ASSUME NEW message \in Messages(Seq(Byte))
  PROVE  encodeTinyPB(message) \in Seq(Byte) /\ Len(encodeTinyPB(message)) > 0
<1> DEFINE m == WithMsgId(message)
<1>1. /\ m.m_msg_id \in Seq(Byte) /\ m.m_method_name \in Seq(Byte) /\ m.m_err_code \in Int
      /\ m.m_err_info \in Seq(Byte) /\ m.m_pb_body \in Seq(Byte)
  BY WithMsgIdType DEF Messages
<1> HIDE DEF m
<1>2. PkLen(m) \in Int
  BY <1>1 DEF PkLen
<1>3. << PB_START >> \in Seq(Byte) /\ << PB_END >> \in Seq(Byte)
  BY DEF PB_START, PB_END, Byte
<1>4. /\ NetInt(PkLen(m)) \in Seq(Byte) /\ NetString(m.m_msg_id) \in Seq(Byte)
      /\ NetString(m.m_method_name) \in Seq(Byte) /\ NetInt(m.m_err_code) \in Seq(Byte)
      /\ NetString(m.m_err_info) \in Seq(Byte) /\ NetInt(1) \in Seq(Byte)
  BY <1>1, <1>2, NetIntType, NetStringType
<1>5. ASSUME NEW a \in Seq(Byte), NEW c \in Seq(Byte)
      PROVE  a \o c \in Seq(Byte) /\ (Len(a) > 0 => Len(a \o c) > 0)
  OBVIOUS
<1> DEFINE e1 == << PB_START >> \o NetInt(PkLen(m))
           e2 == e1 \o NetString(m.m_msg_id)
           e3 == e2 \o NetString(m.m_method_name)
           e4 == e3 \o NetInt(m.m_err_code)
           e5 == e4 \o NetString(m.m_err_info)
           e6 == e5 \o m.m_pb_body
           e7 == e6 \o NetInt(1)
           e8 == e7 \o << PB_END >>
           Good(e) == e \in Seq(Byte) /\ Len(e) > 0
<1>6. Good(e1)
  BY <1>3, <1>4, <1>5
<1>7. Good(e2)
  <2> HIDE DEF e1
  <2> QED
    BY <1>4, <1>5, <1>6
<1>8. Good(e3)
  <2> HIDE DEF e2
  <2> QED
    BY <1>4, <1>5, <1>7
<1>9. Good(e4)
  <2> HIDE DEF e3
  <2> QED
    BY <1>4, <1>5, <1>8
<1>10. Good(e5)
  <2> HIDE DEF e4
  <2> QED
    BY <1>4, <1>5, <1>9
<1>11. Good(e6)
  <2> HIDE DEF e5
  <2> QED
    BY <1>1, <1>5, <1>10
<1>12. Good(e7)
  <2> HIDE DEF e6
  <2> QED
    BY <1>4, <1>5, <1>11
<1>13. Good(e8)
  <2> HIDE DEF e7
  <2> QED
    BY <1>3, <1>5, <1>12
<1>14. encodeTinyPB(message) = e8
  BY DEF encodeTinyPB, m
<1> HIDE DEF e8
<1> QED
  BY <1>13, <1>14

LEMMA AtType ==
  ASSUME NEW b, IsBuffer(b), NEW wild \in Byte, NEW i
  PROVE  At(b, i, wild) \in Byte
<1>1. CASE i \in 0 .. b.m_size - 1
  <2>1. b.m_buffer \in Seq(Byte) /\ b.m_size = Len(b.m_buffer) /\ b.m_size \in Nat
    BY ContentsType
  <2>2. i + 1 \in 1 .. Len(b.m_buffer)
    BY <1>1, <2>1
  <2>3. b.m_buffer[i + 1] \in Byte
    BY <2>1, <2>2, ElementOfSeq
  <2> QED
    BY <1>1, <2>3 DEF At
<1>2. CASE i \notin 0 .. b.m_size - 1
  BY <1>2 DEF At
<1> QED
  BY <1>1, <1>2

LEMMA Int32Type ==
  ASSUME NEW b, IsBuffer(b), NEW wild \in Byte, NEW i
  PROVE  getInt32FromNetByte(b, i, wild) \in Int
<1>1. /\ At(b, i, wild) \in Byte /\ At(b, i + 1, wild) \in Byte
      /\ At(b, i + 2, wild) \in Byte /\ At(b, i + 3, wild) \in Byte
  BY AtType
<1>2. \A a \in Byte : a \in Int /\ a - 256 \in Int
  BY DEF Byte
<1>3. (IF At(b, i, wild) >= 128 THEN At(b, i, wild) - 256 ELSE At(b, i, wild)) \in Int
  BY <1>1, <1>2
<1> QED
  BY <1>1, <1>2, <1>3 DEF getInt32FromNetByte

LEMMA BytesType ==
  ASSUME NEW b, IsBuffer(b), NEW wild \in Byte, NEW i, NEW n \in Nat
  PROVE  Bytes(b, i, n, wild) \in Seq(Byte)
<1>1. \A k \in 1 .. n : At(b, i + k - 1, wild) \in Byte
  BY AtType
<1> QED
  BY <1>1 DEF Bytes

LEMMA CStringType ==
  ASSUME NEW s \in Seq(Byte)
  PROVE  CString(s) \in Seq(Byte)
<1> DEFINE zeros == { k \in DOMAIN s : s[k] = 0 }
           first == CHOOSE k \in zeros : \A l \in zeros : k <= l
<1>1. CASE zeros = {}
  BY <1>1 DEF CString
<1>2. CASE zeros # {}
  <2>1. zeros \in SUBSET Nat
    OBVIOUS
  <2>2. \E k \in zeros : \A l \in zeros : k <= l
    <3> HIDE DEF zeros
    <3> QED
      BY <1>2, <2>1, Minimum
  <2>3. first \in zeros
    <3> HIDE DEF zeros
    <3> QED
      BY <2>2
  <2>4. first \in 1 .. Len(s)
    <3>1. first \in DOMAIN s
      <4> HIDE DEF first
      <4> QED
        BY <2>3
    <3> QED
      BY <3>1
  <2>5. CString(s) = SubSeq(s, 1, first - 1)
    BY <1>2 DEF CString
  <2> HIDE DEF first
  <2>6. first - 1 \in 0 .. Len(s) /\ 1 \in 1 .. Len(s) + 1
    BY <2>4
  <2> QED
    BY <2>5, <2>6, Part
<1> QED
  BY <1>1, <1>2

\* Whatever bytes decode takes for a packet: what it makes of them is a message.
LEMMA ParseType ==
  ASSUME NEW b, IsBuffer(b), NEW wild \in Byte, NEW i, Parse(b, i, wild).kind = "message"
  PROVE  Parse(b, i, wild).message \in Messages(Seq(Byte))
<1> DEFINE Int32(k)          == getInt32FromNetByte(b, k, wild)
           pk_len            == LengthAt(b, i, wild)
           end_index         == i + pk_len - 1
           msg_id_len_index  == i + 1 + 4
           msg_id_len        == Int32(msg_id_len_index)
           msg_id_index      == msg_id_len_index + 4
           method_len_index  == msg_id_index + msg_id_len
           method_len        == Int32(method_len_index)
           method_name_index == method_len_index + 4
           err_code_index    == method_name_index + method_len
           info_len_index    == err_code_index + 4
           info_len          == Int32(info_len_index)
           info_index        == info_len_index + 4
           pb_body_len       == pk_len - msg_id_len - method_len + info_len - 2 - 24
           Nothing(kind)     == Parse(b, i, wild) = [kind |-> kind]
           Made == [ m_msg_id      |-> Bytes(b, msg_id_index, msg_id_len, wild),
                     m_method_name |-> Bytes(b, method_name_index, method_len, wild),
                     m_err_code    |-> Int32(err_code_index),
                     m_err_info    |-> CString(Bytes(b, info_index, info_len, wild)),
                     m_pb_body     |-> Bytes(b, info_index + info_len, pb_body_len, wild) ]
<1>1. \/ Nothing("malformed") \/ Nothing("fault")
      \/ /\ msg_id_len \in 0 .. 100 /\ method_len \in 0 .. 512 /\ info_len \in 0 .. 511
         /\ ~(pb_body_len < 0)
         /\ Parse(b, i, wild) = [kind |-> "message", message |-> Made]
  <2>1. Parse(b, i, wild) =
          CASE msg_id_len_index >= end_index -> [kind |-> "malformed"]
            [] msg_id_len \notin 0 .. 100    -> [kind |-> "fault"]
            [] method_len_index >= end_index -> [kind |-> "malformed"]
            [] method_len \notin 0 .. 512    -> [kind |-> "fault"]
            [] err_code_index >= end_index   -> [kind |-> "malformed"]
            [] info_len_index >= end_index   -> [kind |-> "malformed"]
            [] info_len \notin 0 .. 511      -> [kind |-> "fault"]
            [] pb_body_len < 0               -> [kind |-> "fault"]
            [] OTHER                         -> [kind |-> "message", message |-> Made]
    BY Zenon DEF Parse
  <2> HIDE DEF Int32, pk_len, msg_id_len_index, msg_id_len, msg_id_index, method_len_index,
               method_len, method_name_index, err_code_index, info_len_index, info_len,
               info_index, pb_body_len, end_index, Made
  <2> QED
    BY <2>1, Zenon
<1>2. Int32(err_code_index) \in Int /\ pk_len \in Int
  BY Int32Type DEF LengthAt
<1> HIDE DEF Int32, pk_len, msg_id_len_index, msg_id_len, msg_id_index, method_len_index,
             method_len, method_name_index, err_code_index, info_len_index, info_len, info_index
<1>3. /\ msg_id_len \in Nat /\ method_len \in Nat /\ info_len \in Nat /\ pb_body_len \in Nat
      /\ Parse(b, i, wild) = [kind |-> "message", message |-> Made]
  <2>1. ~Nothing("malformed") /\ ~Nothing("fault")
    OBVIOUS
  <2> HIDE DEF Nothing, Made, pb_body_len
  <2>2. /\ msg_id_len \in 0 .. 100 /\ method_len \in 0 .. 512 /\ info_len \in 0 .. 511
        /\ ~(pb_body_len < 0)
        /\ Parse(b, i, wild) = [kind |-> "message", message |-> Made]
    BY <1>1, <2>1
  <2>3. msg_id_len \in Nat /\ method_len \in Nat /\ info_len \in Nat
    BY <2>2
  <2>4. pb_body_len \in Int
    BY <1>2, <2>3 DEF pb_body_len
  <2> QED
    BY <2>2, <2>3, <2>4
<1> HIDE DEF pb_body_len
<1>4. CString(Bytes(b, info_index, info_len, wild)) \in Seq(Byte)
  BY <1>3, BytesType, CStringType
<1>5. Made \in Messages(Seq(Byte))
  BY <1>2, <1>3, <1>4, BytesType DEF Messages
<1> HIDE DEF Made
<1> QED
  BY <1>3, <1>5

LEMMA PacketWithin ==
  ASSUME NEW b, IsBuffer(b), NEW wild \in Byte, Packets(b, wild) # {}
  PROVE  /\ LengthAt(b, FirstPacket(b, wild), wild) \in Int
         /\ LengthAt(b, FirstPacket(b, wild), wild) <= readAble(b)
<1> DEFINE all == Packets(b, wild)
           i   == FirstPacket(b, wild)
<1>1. /\ b.m_read_index \in Nat /\ b.m_write_index \in Nat
      /\ readAble(b) = b.m_write_index - b.m_read_index
  BY ContentsType
<1>2. all \in SUBSET Nat
  BY <1>1 DEF Packets
<1>3. \E k \in all : \A l \in all : k <= l
  <2> HIDE DEF all
  <2> QED
    BY <1>2, Minimum DEF all
<1>4. i \in all
  BY <1>3 DEF FirstPacket
<1>5. i \in b.m_read_index .. b.m_write_index - 1 /\ PacketAt(b, i, wild)
  <2> HIDE DEF i
  <2> QED
    BY <1>4 DEF Packets
<1>6. LengthAt(b, i, wild) \in Int
  BY Int32Type DEF LengthAt
<1>7. LengthAt(b, i, wild) <= b.m_write_index - i
  BY <1>5 DEF PacketAt
<1> HIDE DEF i
<1>8. LengthAt(b, i, wild) <= readAble(b)
  BY <1>1, <1>5, <1>6, <1>7
<1> QED
  BY <1>6, <1>8 DEF i

-----------------------------------------------------------------------------
M == Messages(Seq(Byte))

LEMMA RoomIsIn ==
  ASSUME StreamTypeOK
  PROVE  Room = in /\ writeAble(in) \in Nat \ {0}
<1>1. /\ in.m_write_index < in.m_size /\ writeAble(in) = in.m_size - in.m_write_index
      /\ in.m_write_index \in Nat /\ in.m_size \in Nat
  BY ContentsType DEF StreamTypeOK, InNeverFull, writeAble
<1>2. writeAble(in) \in Nat \ {0}
  BY <1>1
<1> QED
  BY <1>2 DEF Room

LEMMA StepTypes ==
  ASSUME StreamTypeOK, [StreamNext]_streamVars
  PROVE  StreamTypeOK'
<1>1. ASSUME NEW m \in Replies, Reply(m) PROVE StreamTypeOK'
  <2>1. m \in M /\ WithMsgId(m) \in M /\ encodeTinyPB(m) \in Seq(Byte)
    BY ReplyAssumption, WithMsgIdType, EncodeType DEF M
  <2>2. IsBuffer(out')
    BY <1>1, <2>1, WriteKeeps DEF Reply, StreamTypeOK
  <2>3. given' \in Seq(M)
    BY <1>1, <2>1 DEF Reply, StreamTypeOK, M
  <2> QED
    BY <1>1, <2>2, <2>3 DEF Reply, StreamTypeOK, client, M, InNeverFull
<1>2. ASSUME NEW m \in Replies, ReplyOverruns(m) PROVE StreamTypeOK'
  BY <1>2 DEF ReplyOverruns, StreamTypeOK, server, client, InNeverFull
<1>3. ASSUME NEW n \in Nat, n <= readAble(out), Write(n) PROVE StreamTypeOK'
  <2>1. Contents(out) \in Seq(Byte) /\ Len(Contents(out)) = readAble(out) /\ readAble(out) \in Nat
    BY ContentsType DEF StreamTypeOK
  <2>2. SubSeq(Contents(out), 1, n) \in Seq(Byte)
    <3>1. 1 \in 1 .. Len(Contents(out)) + 1 /\ n \in 1 - 1 .. Len(Contents(out))
      BY <1>3, <2>1
    <3> QED
      BY <2>1, <3>1, Part
  <2>3. wire' \in Seq(Byte) /\ bytes' \in Nat
    BY <1>3, <2>2 DEF Write, StreamTypeOK
  <2>4. written' \in Seq(M)
    BY <1>3 DEF Write, StreamTypeOK, M
  <2>5. torn' \in BOOLEAN /\ listening' \in BOOLEAN
    <3>1. CASE n < readAble(out)
      BY <1>3, <3>1, Zenon DEF Write
    <3>2. CASE ~(n < readAble(out))
      <4>1. torn' = (torn \/ n < readAble(out)) /\ listening' = (n < readAble(out))
        BY <1>3, Zenon DEF Write
      <4>2. (n < readAble(out)) = FALSE
        BY <2>1, <3>2
      <4> QED
        BY <4>1, <4>2, Zenon
    <3> QED
      BY <3>1, <3>2
  <2> QED
    BY <1>3, <2>3, <2>4, <2>5 DEF Write, StreamTypeOK, client, M, InNeverFull
<1>4. ASSUME NEW n \in Nat, ReadOf(n) PROVE StreamTypeOK'
  <2> DEFINE taken == MinInt(writeAble(in), n)
             data  == SubSeq(wire, 1, taken)
             tail  == Copied(in, data)
  <2>1. /\ Room = in /\ writeAble(in) \in Nat \ {0} /\ IsBuffer(in)
        /\ in.m_write_index < in.m_size /\ in.m_size = BufferSize /\ wire \in Seq(Byte)
    BY RoomIsIn DEF StreamTypeOK, InNeverFull
  <2>2. n \in 1 .. Len(wire)
    BY <1>4 DEF ReadOf
  <2>3. taken \in Nat /\ taken <= writeAble(in) /\ taken <= Len(wire)
    BY <2>1, <2>2 DEF MinInt
  <2>4. in' = moveWriteIndex(tail, taken) /\ wire' = SubSeq(wire, taken + 1, Len(wire))
          /\ pc' \in {"read", "decode"}
    BY <1>4, <2>1 DEF ReadOf
  <2>5. refused' \in BOOLEAN
    BY <1>4, Zenon DEF ReadOf, StreamTypeOK
  <2> HIDE DEF taken
  <2>6. data \in Seq(Byte) /\ Len(data) = taken
    <3>1. 1 \in 1 .. Len(wire) + 1 /\ taken \in 1 - 1 .. Len(wire)
      BY <2>1, <2>2, <2>3
    <3> QED
      BY <2>1, <2>3, <3>1, Part
  <2> HIDE DEF data
  <2>7. /\ IsBuffer(tail) /\ tail.m_size = in.m_size /\ tail.m_write_index = in.m_write_index
    BY <2>1, <2>3, <2>6, CopyKeeps
  <2> HIDE DEF tail
  <2>8. IsBuffer(in') /\ in'.m_size = BufferSize /\ in'.m_write_index < in'.m_size
    BY <2>1, <2>3, <2>4, <2>7, MoveWriteKeeps
  <2>9. wire' \in Seq(Byte)
    <3>1. taken + 1 \in 1 .. Len(wire) + 1 /\ Len(wire) \in (taken + 1) - 1 .. Len(wire)
      BY <2>1, <2>3
    <3> QED
      BY <2>1, <2>4, <3>1, Part
  <2> QED
    BY <1>4, <2>4, <2>5, <2>8, <2>9 DEF ReadOf, StreamTypeOK, server, InNeverFull
<1>5. CASE ReadNothing
  <2>1. in' = in
    BY <1>5, RoomIsIn DEF ReadNothing
  <2> QED
    BY <1>5, <2>1 DEF ReadNothing, StreamTypeOK, server, InNeverFull
<1>6. ASSUME NEW wild \in Wild, Decode(wild) PROVE StreamTypeOK'
  <2> DEFINE i       == FirstPacket(in, wild)
             length  == LengthAt(in, i, wild)
             outcome == Parse(in, i, wild)
  <2>1. wild \in Byte /\ IsBuffer(in) /\ Packets(in, wild) # {}
    BY <1>6, WildAssumption DEF Decode, StreamTypeOK
  <2>2. length \in Int /\ length <= readAble(in)
    BY <2>1, PacketWithin
  <2>3. /\ in' = moveReadIndex(in, length)
        /\ decoded' = IF outcome.kind = "message" THEN Append(decoded, outcome.message)
                                                  ELSE decoded
        /\ UNCHANGED << server, wire, pc, refused >>
    BY <1>6 DEF Decode
  <2>4. overrun' \in BOOLEAN /\ split' \in BOOLEAN
    BY <1>6, Zenon DEF Decode, StreamTypeOK
  <2>5. outcome.kind = "message" => outcome.message \in M
    BY <2>1, ParseType DEF M
  <2> HIDE DEF i, length, outcome
  <2>6. /\ IsBuffer(in') /\ in'.m_size = in.m_size /\ in'.m_write_index <= in.m_write_index
    BY <2>1, <2>2, <2>3, MoveReadKeeps
  <2>7. in'.m_size = BufferSize /\ in'.m_write_index < in'.m_size
    <3>1. in.m_size = BufferSize /\ in.m_write_index < in.m_size
      BY DEF StreamTypeOK, InNeverFull
    <3>2. in.m_write_index \in Nat /\ in.m_size \in Nat /\ in'.m_write_index \in Nat
      BY <2>1, <2>6, ContentsType
    <3> QED
      BY <2>6, <3>1, <3>2
  <2>8. decoded' \in Seq(M)
    BY <2>3, <2>5 DEF StreamTypeOK, M
  <2> QED
    BY <2>3, <2>4, <2>6, <2>7, <2>8 DEF StreamTypeOK, server, InNeverFull, M
<1>7. ASSUME NEW wild \in Wild, DecodeEnds(wild) PROVE StreamTypeOK'
  <2>1. split' \in BOOLEAN
    BY <1>7, Zenon DEF DecodeEnds, StreamTypeOK
  <2> QED
    BY <1>7, <2>1 DEF DecodeEnds, StreamTypeOK, server, InNeverFull
<1>8. CASE UNCHANGED streamVars
  BY <1>8 DEF streamVars, StreamTypeOK, InNeverFull
<1>9. CASE WriteAll \/ WritePart
  <2>1. readAble(out) \in Nat
    BY ContentsType DEF StreamTypeOK
  <2>2. PICK n \in Nat : n <= readAble(out) /\ Write(n)
    BY <1>9, <2>1, PartAssumption DEF WriteAll, WritePart
  <2> QED
    BY <1>3, <2>2
<1>10. CASE Read
  <2>1. PICK n \in Segments \cup {Len(wire)} : ReadOf(n)
    BY <1>10 DEF Read
  <2>2. n \in Nat
    BY <2>1 DEF ReadOf
  <2> QED
    BY <1>4, <2>1, <2>2
<1> QED
  BY <1>1, <1>2, <1>5, <1>6, <1>7, <1>8, <1>9, <1>10 DEF StreamNext, Server, Client

LEMMA InitTypes ==
  ASSUME StreamInit
  PROVE  StreamTypeOK
<1>1. BufferSize \in Nat /\ 0 < BufferSize
  BY BufferAssumption
<1>2. IsBuffer(out) /\ IsBuffer(in) /\ InNeverFull
  BY <1>1, NewBufferIs DEF StreamInit, InNeverFull
<1>3. given \in Seq(M) /\ wire \in Seq(Byte) /\ decoded \in Seq(M) /\ written \in Seq(M)
        /\ bytes \in Nat
  BY DEF StreamInit
<1>4. /\ listening \in BOOLEAN /\ overrun \in BOOLEAN /\ torn \in BOOLEAN
      /\ refused \in BOOLEAN /\ split \in BOOLEAN
  BY Zenon DEF StreamInit
<1>5. pc \in {"idle", "read", "decode"}
  BY DEF StreamInit
<1> QED
  BY <1>2, <1>3, <1>4, <1>5 DEF StreamTypeOK, M

\* For every size of the buffers: the read index never passes the write index, neither
\* leaves the vector, and the buffer that is read into is never full and never grows.
THEOREM StreamTypeCorrect == StreamSpec => []StreamTypeOK
<1>1. StreamInit => StreamTypeOK
  BY InitTypes
<1>2. StreamTypeOK /\ [StreamNext]_streamVars => StreamTypeOK'
  BY StepTypes
<1> QED
  BY <1>1, <1>2, PTL DEF StreamSpec

\* The buffer of the replies is a queue of bytes: whatever growth it goes through, a reply
\* is appended to what it holds. Nothing ever takes a byte out of it (onWrite does not
\* move the read index), so this is half of what a queue may do.
THEOREM OutIsAQueue == StreamSpec => OutIsQueue
<1>1. StreamInit => Contents(out) = <<>>
  BY NewBufferIs, BufferAssumption DEF StreamInit
<1>2. ASSUME StreamTypeOK, [StreamNext]_streamVars
      PROVE  OutQueue!Put \/ Contents(out)' = Contents(out)
  <2>1. ASSUME NEW m \in Replies, Reply(m) PROVE OutQueue!Put
    <3> DEFINE data == encodeTinyPB(m)
    <3>1. data \in Seq(Byte) /\ Len(data) > 0
      BY ReplyAssumption, EncodeType
    <3>2. Fits(out, data) /\ out' = writeToBuffer(out, data) /\ IsBuffer(out)
      BY <1>2, <2>1 DEF Reply, StreamTypeOK
    <3> HIDE DEF data
    <3>3. Contents(out)' = Contents(out) \o data
      BY <3>1, <3>2, WriteKeeps DEF Contents
    <3>4. Contents(out) \in Seq(Byte)
      BY <3>2, ContentsType
    <3>5. Len(Contents(out) \o data) > Len(Contents(out))
            /\ \A k \in 1 .. Len(Contents(out)) : (Contents(out) \o data)[k] = Contents(out)[k]
      BY <3>1, <3>4
    <3> QED
      BY <3>3, <3>5, Zenon DEF OutQueue!Put
  <2>2. CASE out' = out
    BY <2>2 DEF Contents
  <2> QED
    BY <1>2, <2>1, <2>2 DEF StreamNext, Server, Client, ReplyOverruns, WriteAll, WritePart, Write,
       Read, ReadOf, ReadNothing, Decode, DecodeEnds, server, streamVars
<1>3. StreamTypeOK /\ [StreamNext]_streamVars => [OutQueue!Next]_(Contents(out))
  BY <1>2 DEF OutQueue!Next
<1> QED
  BY <1>1, <1>3, StreamTypeCorrect, PTL DEF StreamSpec, OutIsQueue, OutQueue!Spec, OutQueue!Init

-----------------------------------------------------------------------------
(* Where the bytes of an encoded packet stand *)

(* What stands where: t is found in s behind the first p elements. *)
Holds(s, p, t) == \A k \in 1 .. Len(t) : s[p + k] = t[k]

(* Some bytes, and how many *)
Has(s, n) == s \in Seq(Byte) /\ n \in Nat /\ Len(s) = n

LEMMA JoinHas ==
  ASSUME NEW s, NEW t, NEW m, NEW n, Has(s, m), Has(t, n)
  PROVE  Has(s \o t, m + n)
<1>1. m + n \in Nat
  BY DEF Has
<1>2. s \o t \in Seq(Byte) /\ Len(s \o t) = m + n
  BY Join DEF Has
<1> QED
  BY <1>1, <1>2 DEF Has

LEMMA HoldsParts ==
  ASSUME NEW z, NEW p \in Nat, NEW s, NEW t, NEW m, NEW n, Has(s, m), Has(t, n),
         Holds(z, p, s \o t)
  PROVE  Holds(z, p, s) /\ Holds(z, p + m, t)
<1> DEFINE st == s \o t
<1>1. m \in Nat /\ n \in Nat /\ m = Len(s) /\ n = Len(t) /\ s \in Seq(Byte) /\ t \in Seq(Byte)
  BY DEF Has
<1>2. /\ Len(st) = m + n
      /\ \A k \in 1 .. m : st[k] = s[k]
      /\ \A k \in 1 .. n : st[m + k] = t[k]
  BY <1>1, Join
<1>3. \A k \in 1 .. Len(st) : z[p + k] = st[k]
  BY DEF Holds
<1> HIDE DEF st
<1>4. ASSUME NEW k \in 1 .. m PROVE z[p + k] = s[k]
  BY <1>1, <1>2, <1>3
<1>5. ASSUME NEW k \in 1 .. n PROVE z[(p + m) + k] = t[k]
  <2>1. m + k \in 1 .. Len(st) /\ p + (m + k) = (p + m) + k
    BY <1>1, <1>2
  <2> QED
    BY <1>2, <1>3, <2>1
<1> QED
  BY <1>1, <1>4, <1>5 DEF Holds

LEMMA HoldsHead ==
  ASSUME NEW z, NEW s, NEW t, NEW m, NEW n, Has(s, m), Has(t, n), Holds(z, 0, s \o t)
  PROVE  Holds(z, 0, s) /\ Holds(z, m, t)
<1>1. m \in Nat
  BY DEF Has
<1>2. Holds(z, 0, s) /\ Holds(z, 0 + m, t)
  BY HoldsParts
<1>3. 0 + m = m
  BY <1>1
<1> QED
  BY <1>2, <1>3

(* A part of what stands at the front *)
LEMMA HoldsWithin ==
  ASSUME NEW s, NEW t \in Seq(Byte), Holds(s, 0, t),
         NEW q \in Nat, NEW u, NEW n \in Nat, n = Len(u), Holds(t, q, u), q + n <= Len(t)
  PROVE  Holds(s, q, u)
<1> SUFFICES ASSUME NEW k \in 1 .. Len(u) PROVE s[q + k] = u[k]
  BY DEF Holds
<1> DEFINE m == Len(t)
<1>1. m \in Nat /\ k \in 1 .. n /\ q + n <= m
  OBVIOUS
<1> HIDE DEF m
<1>2. q + k \in 1 .. m /\ 0 + (q + k) = q + k
  BY <1>1
<1>3. s[0 + (q + k)] = t[q + k]
  BY <1>2 DEF Holds, m
<1>4. t[q + k] = u[k]
  BY DEF Holds
<1> QED
  BY <1>2, <1>3, <1>4

(* A message as it is encoded: with an id, and with numbers that int32_t holds. *)
Sound(m) ==
  /\ m \in M /\ m.m_msg_id # <<>>
  /\ m.m_err_code \in Int32s /\ PkLen(m) \in Int32s

LEMMA SoundLengths ==
  ASSUME NEW m, Sound(m)
  PROVE  /\ m.m_msg_id \in Seq(Byte) /\ m.m_method_name \in Seq(Byte)
         /\ m.m_err_code \in Int /\ m.m_err_info \in Seq(Byte) /\ m.m_pb_body \in Seq(Byte)
         /\ Len(m.m_msg_id) \in Nat /\ Len(m.m_method_name) \in Nat
         /\ Len(m.m_err_info) \in Nat /\ Len(m.m_pb_body) \in Nat
         /\ PkLen(m) = 26 + Len(m.m_msg_id) + Len(m.m_method_name) + Len(m.m_err_info)
                          + Len(m.m_pb_body)
         /\ PkLen(m) \in Nat /\ PkLen(m) >= 26
         /\ WithMsgId(m) = m
<1>1. /\ m.m_msg_id \in Seq(Byte) /\ m.m_method_name \in Seq(Byte)
      /\ m.m_err_code \in Int /\ m.m_err_info \in Seq(Byte) /\ m.m_pb_body \in Seq(Byte)
  BY DEF Sound, M, Messages
<1>2. /\ Len(m.m_msg_id) \in Nat /\ Len(m.m_method_name) \in Nat
      /\ Len(m.m_err_info) \in Nat /\ Len(m.m_pb_body) \in Nat
  BY <1>1
<1>3. PkLen(m) = 26 + Len(m.m_msg_id) + Len(m.m_method_name) + Len(m.m_err_info)
                    + Len(m.m_pb_body)
  BY <1>2 DEF PkLen
<1>4. PkLen(m) \in Nat /\ PkLen(m) >= 26
  <2> DEFINE a == Len(m.m_msg_id)
             n == Len(m.m_method_name)
             f == Len(m.m_err_info)
             c == Len(m.m_pb_body)
             l == PkLen(m)
  <2>1. a \in Nat /\ n \in Nat /\ f \in Nat /\ c \in Nat /\ l = 26 + a + n + f + c
    BY <1>2, <1>3
  <2> HIDE DEF a, n, f, c, l
  <2>2. l \in Nat /\ l >= 26
    BY <2>1
  <2> QED
    BY <2>2 DEF l
<1>6. WithMsgId(m) = m
  <2>1. m.m_msg_id # <<>>
    BY DEF Sound
  <2> QED
    BY <2>1, Zenon DEF WithMsgId
<1> QED
  BY <1>1, <1>2, <1>3, <1>4, <1>6

(* The bytes of a packet: which field stands where. *)
Layout(e, m) ==
  LET a == Len(m.m_msg_id)
      n == Len(m.m_method_name)
      f == Len(m.m_err_info)
      c == Len(m.m_pb_body)
  IN
  /\ e \in Seq(Byte) /\ Len(e) = PkLen(m)
  /\ e[1] = PB_START
  /\ Holds(e, 1, NetInt(PkLen(m)))
  /\ Holds(e, 5, NetInt(a)) /\ Holds(e, 9, m.m_msg_id)
  /\ Holds(e, 9 + a, NetInt(n)) /\ Holds(e, 13 + a, m.m_method_name)
  /\ Holds(e, 13 + a + n, NetInt(m.m_err_code))
  /\ Holds(e, 17 + a + n, NetInt(f))
  /\ Holds(e, 21 + a + n + f, m.m_pb_body)
  /\ e[PkLen(m)] = PB_END

LEMMA EncodeLayout ==
  ASSUME NEW m, Sound(m)
  PROVE  Layout(encodeTinyPB(m), m)
<1> DEFINE a == Len(m.m_msg_id)
           n == Len(m.m_method_name)
           f == Len(m.m_err_info)
           c == Len(m.m_pb_body)
           e0 == << PB_START >>
           e1 == e0 \o NetInt(PkLen(m))
           e2 == e1 \o NetString(m.m_msg_id)
           e3 == e2 \o NetString(m.m_method_name)
           e4 == e3 \o NetInt(m.m_err_code)
           e5 == e4 \o NetString(m.m_err_info)
           e6 == e5 \o m.m_pb_body
           e7 == e6 \o NetInt(1)
           e8 == e7 \o << PB_END >>
<1>1. /\ m.m_msg_id \in Seq(Byte) /\ m.m_method_name \in Seq(Byte)
      /\ m.m_err_code \in Int /\ m.m_err_info \in Seq(Byte) /\ m.m_pb_body \in Seq(Byte)
      /\ a \in Nat /\ n \in Nat /\ f \in Nat /\ c \in Nat
      /\ PkLen(m) = 26 + a + n + f + c /\ WithMsgId(m) = m
  BY SoundLengths
<1>2. encodeTinyPB(m) = e8
  BY <1>1 DEF encodeTinyPB
<1>3. Has(m.m_msg_id, a) /\ Has(m.m_method_name, n) /\ Has(m.m_err_info, f) /\ Has(m.m_pb_body, c)
  BY <1>1 DEF Has
<1>4. ASSUME NEW i \in Int PROVE Has(NetInt(i), 4)
  BY NetIntType DEF Has
<1>5. ASSUME NEW s, NEW k \in Nat, Has(s, k)
      PROVE  NetString(s) = NetInt(k) \o s /\ Has(NetInt(k), 4) /\ Has(NetString(s), 4 + k)
  <2>1. Has(NetInt(k), 4) /\ Len(s) = k
    BY <1>4, <1>5 DEF Has
  <2>2. NetString(s) = NetInt(k) \o s
    BY <2>1 DEF NetString
  <2> QED
    BY <1>5, <2>1, <2>2, JoinHas
<1>6. Has(e0, 1) /\ Has(<< PB_END >>, 1)
  BY DEF PB_START, PB_END, Byte, Has
<1>7. /\ Has(NetInt(PkLen(m)), 4) /\ Has(NetInt(m.m_err_code), 4) /\ Has(NetInt(1), 4)
  <2>1. PkLen(m) \in Int
    <3>1. PkLen(m) \in Nat
      BY SoundLengths
    <3> QED
      BY <3>1
  <2>2. Has(NetInt(PkLen(m)), 4)
    BY <1>4, <2>1
  <2>3. Has(NetInt(m.m_err_code), 4)
    BY <1>1, <1>4
  <2>4. Has(NetInt(1), 4)
    BY <1>4, <2>1
  <2> QED
    BY <2>2, <2>3, <2>4
<1>8. /\ Has(NetString(m.m_msg_id), 4 + a) /\ Has(NetString(m.m_method_name), 4 + n)
      /\ Has(NetString(m.m_err_info), 4 + f)
  BY <1>1, <1>3, <1>5
<1> HIDE DEF a, n, f, c, e0
<1>9. Has(e1, 1 + 4)
  BY <1>6, <1>7, JoinHas
<1> HIDE DEF e1
<1>10. Has(e2, (1 + 4) + (4 + a))
  BY <1>8, <1>9, JoinHas
<1> HIDE DEF e2
<1>11. Has(e3, ((1 + 4) + (4 + a)) + (4 + n))
  BY <1>8, <1>10, JoinHas
<1> HIDE DEF e3
<1>12. Has(e4, (((1 + 4) + (4 + a)) + (4 + n)) + 4)
  BY <1>7, <1>11, JoinHas
<1> HIDE DEF e4
<1>13. Has(e5, ((((1 + 4) + (4 + a)) + (4 + n)) + 4) + (4 + f))
  BY <1>8, <1>12, JoinHas
<1> HIDE DEF e5
<1>14. Has(e6, (((((1 + 4) + (4 + a)) + (4 + n)) + 4) + (4 + f)) + c)
  BY <1>3, <1>13, JoinHas
<1> HIDE DEF e6
<1>15. Has(e7, ((((((1 + 4) + (4 + a)) + (4 + n)) + 4) + (4 + f)) + c) + 4)
  BY <1>7, <1>14, JoinHas
<1> HIDE DEF e7
<1>16. Has(e8, (((((((1 + 4) + (4 + a)) + (4 + n)) + 4) + (4 + f)) + c) + 4) + 1)
  BY <1>6, <1>15, JoinHas
<1>17. /\ Has(e1, 5) /\ Has(e2, 9 + a) /\ Has(e3, 13 + a + n) /\ Has(e4, 17 + a + n)
       /\ Has(e5, 21 + a + n + f) /\ Has(e6, 21 + a + n + f + c)
       /\ Has(e7, 25 + a + n + f + c) /\ Has(e8, PkLen(m))
  <2> HIDE DEF e8
  <2> QED
    BY <1>1, <1>9, <1>10, <1>11, <1>12, <1>13, <1>14, <1>15, <1>16
<1> DEFINE e == e8
<1>18. e \in Seq(Byte) /\ Len(e) = PkLen(m) /\ Holds(e, 0, e8)
  <2> HIDE DEF e8
  <2> QED
    BY <1>17 DEF Holds, Has
<1> HIDE DEF e
<1>19. Holds(e, 0, e7) /\ Holds(e, 25 + a + n + f + c, << PB_END >>)
  BY <1>6, <1>17, <1>18, HoldsHead
<1> USE DEF e7
<1>20. Holds(e, 0, e6)
  BY <1>7, <1>17, <1>19, HoldsHead
<1> HIDE DEF e7
<1> USE DEF e6
<1>21. Holds(e, 0, e5) /\ Holds(e, 21 + a + n + f, m.m_pb_body)
  BY <1>3, <1>17, <1>20, HoldsHead
<1> HIDE DEF e6
<1> USE DEF e5
<1>22. Holds(e, 0, e4) /\ Holds(e, 17 + a + n, NetString(m.m_err_info))
  BY <1>8, <1>17, <1>21, HoldsHead
<1> HIDE DEF e5
<1> USE DEF e4
<1>23. Holds(e, 0, e3) /\ Holds(e, 13 + a + n, NetInt(m.m_err_code))
  BY <1>7, <1>17, <1>22, HoldsHead
<1> HIDE DEF e4
<1> USE DEF e3
<1>24. Holds(e, 0, e2) /\ Holds(e, 9 + a, NetString(m.m_method_name))
  BY <1>8, <1>17, <1>23, HoldsHead
<1> HIDE DEF e3
<1> USE DEF e2
<1>25. Holds(e, 0, e1) /\ Holds(e, 5, NetString(m.m_msg_id))
  BY <1>8, <1>17, <1>24, HoldsHead
<1> HIDE DEF e2
<1> USE DEF e1
<1>26. Holds(e, 0, e0) /\ Holds(e, 1, NetInt(PkLen(m)))
  BY <1>6, <1>7, <1>25, HoldsHead
<1> HIDE DEF e1
<1>27. ASSUME NEW p \in Nat, NEW s, NEW k \in Nat, Has(s, k), Holds(e, p, NetString(s))
       PROVE  Holds(e, p, NetInt(k)) /\ Holds(e, p + 4, s)
  BY <1>5, <1>27, HoldsParts
<1>28. Holds(e, 5, NetInt(a)) /\ Holds(e, 5 + 4, m.m_msg_id)
  BY <1>1, <1>3, <1>25, <1>27
<1>29. Holds(e, 9 + a, NetInt(n)) /\ Holds(e, (9 + a) + 4, m.m_method_name)
  <2>1. 9 + a \in Nat
    BY <1>1
  <2> QED
    BY <1>1, <1>3, <1>24, <1>27, <2>1
<1>30. Holds(e, 17 + a + n, NetInt(f))
  <2>1. 17 + a + n \in Nat
    BY <1>1
  <2> QED
    BY <1>1, <1>3, <1>22, <1>27, <2>1
<1>31. e[1] = PB_START
  <2>1. e0[1] = PB_START /\ 1 \in 1 .. Len(e0) /\ 0 + 1 = 1
    BY DEF e0
  <2> QED
    BY <2>1, <1>26 DEF Holds
<1>32. e[PkLen(m)] = PB_END
  <2> DEFINE last == << PB_END >>
  <2>1. last[1] = PB_END /\ 1 \in 1 .. Len(last) /\ (25 + a + n + f + c) + 1 = PkLen(m)
    BY <1>1
  <2>2. Holds(e, 25 + a + n + f + c, last)
    BY <1>19
  <2> HIDE DEF last
  <2> QED
    BY <2>1, <2>2 DEF Holds
<1>33. /\ Holds(e, 9, m.m_msg_id) /\ Holds(e, 13 + a, m.m_method_name)
  <2>1. 5 + 4 = 9 /\ (9 + a) + 4 = 13 + a
    BY <1>1
  <2> QED
    BY <1>28, <1>29, <2>1
<1>34. Layout(e, m)
  BY <1>18, <1>21, <1>23, <1>26, <1>28, <1>29, <1>30, <1>31, <1>32, <1>33
     DEF Layout, a, n, f
<1> QED
  BY <1>2, <1>34 DEF e

-----------------------------------------------------------------------------
(* What the codec reads back of a packet that has come in whole *)

(* What htonl wrote ntohl reads, for a negative integer too. *)
LEMMA NetIntValue ==
  ASSUME NEW n \in Int32s
  PROVE  LET high == NetInt(n)[1]
             top  == IF high >= 128 THEN high - 256 ELSE high
         IN  top * 16777216 + NetInt(n)[2] * 65536 + NetInt(n)[3] * 256 + NetInt(n)[4] = n
<1> DEFINE h == (n \div 16777216) % 256
           i == (n \div 65536) % 256
           j == (n \div 256) % 256
           k == n % 256
<1>1. NetInt(n)[1] = h /\ NetInt(n)[2] = i /\ NetInt(n)[3] = j /\ NetInt(n)[4] = k
  BY SMT DEF NetInt
<1>2. n \in Int /\ -2147483648 <= n /\ n < 2147483648
  BY SMT DEF Int32s
<1>3. n = 256 * (n \div 256) + k /\ k \in 0 .. 255 /\ n \div 256 \in Int
  BY <1>2, SMT
<1>4. n \div 256 = 256 * (n \div 65536) + j /\ n \div 65536 \in Int
  BY <1>2, SMT
<1>5. n \div 65536 = 256 * (n \div 16777216) + i /\ n \div 16777216 \in Int
  BY <1>2, SMT
<1>6. n \div 16777216 \in -128 .. 127
  BY <1>2, SMT
<1>7. (IF h >= 128 THEN h - 256 ELSE h) = n \div 16777216
  BY <1>6, SMT
<1>8. (IF h >= 128 THEN h - 256 ELSE h) * 16777216 + i * 65536 + j * 256 + k = n
  <2> DEFINE t == IF h >= 128 THEN h - 256 ELSE h
             x == n \div 256
             y == n \div 65536
             z == n \div 16777216
  <2>1. /\ n = 256 * x + k /\ x = 256 * y + j /\ y = 256 * z + i /\ t = z
        /\ x \in Int /\ y \in Int /\ z \in Int /\ n \in Int
    BY <1>2, <1>3, <1>4, <1>5, <1>7
  <2>2. i \in Int /\ j \in Int /\ k \in Int
    BY <1>2, SMT
  <2> HIDE DEF t, x, y, z, h, i, j, k
  <2>3. t * 16777216 + i * 65536 + j * 256 + k = n
    BY <2>1, <2>2, SMT
  <2> QED
    BY <2>3 DEF t
<1> HIDE DEF h, i, j, k
<1> QED
  BY <1>1, <1>8, SMT

(* What the buffer holds is what decode finds from the read index on. *)
LEMMA ContentsAt ==
  ASSUME NEW b, IsBuffer(b), NEW wild, NEW k \in 1 .. readAble(b),
         NEW i, i = b.m_read_index + k - 1
  PROVE  At(b, i, wild) = Contents(b)[k]
<1>1. /\ b.m_size \in Nat /\ b.m_read_index \in Nat /\ b.m_write_index \in Nat
      /\ b.m_write_index <= b.m_size /\ readAble(b) = b.m_write_index - b.m_read_index
      /\ Contents(b)[k] = b.m_buffer[b.m_read_index + k]
  BY ContentsType
<1>2. i \in 0 .. b.m_size - 1 /\ i + 1 = b.m_read_index + k
  BY <1>1
<1> QED
  BY <1>1, <1>2 DEF At

LEMMA ReadsInt ==
  ASSUME NEW b, IsBuffer(b), NEW wild, NEW p \in Nat, p + 4 <= readAble(b),
         NEW n \in Int32s, Holds(Contents(b), p, NetInt(n)),
         NEW i, i = b.m_read_index + p
  PROVE  getInt32FromNetByte(b, i, wild) = n
<1>1. b.m_read_index \in Nat /\ readAble(b) \in Nat
  BY ContentsType
<1>2. n \in Int
  BY SMT DEF Int32s
<1>3. Len(NetInt(n)) = 4
  BY <1>2, NetIntType
<1>4. ASSUME NEW k \in 1 .. 4 PROVE At(b, (i + k) - 1, wild) = NetInt(n)[k]
  <2>1. p + k \in 1 .. readAble(b) /\ (i + k) - 1 = b.m_read_index + (p + k) - 1
    BY <1>1
  <2>2. At(b, (i + k) - 1, wild) = Contents(b)[p + k]
    BY <2>1, ContentsAt
  <2> QED
    BY <1>3, <2>2 DEF Holds
<1>5. /\ At(b, i, wild) = NetInt(n)[1] /\ At(b, i + 1, wild) = NetInt(n)[2]
      /\ At(b, i + 2, wild) = NetInt(n)[3] /\ At(b, i + 3, wild) = NetInt(n)[4]
  <2>1. i \in Int
    BY <1>1
  <2>2. /\ (i + 1) - 1 = i /\ (i + 2) - 1 = i + 1 /\ (i + 3) - 1 = i + 2
        /\ (i + 4) - 1 = i + 3
    BY <2>1
  <2>3. 1 \in 1 .. 4 /\ 2 \in 1 .. 4 /\ 3 \in 1 .. 4 /\ 4 \in 1 .. 4
    OBVIOUS
  <2> QED
    BY <1>4, <2>2, <2>3
<1> QED
  BY <1>5, NetIntValue, SMT DEF getInt32FromNetByte

(* n bytes in what the buffer holds *)
Stands(b, p, t, n) ==
  p \in Nat /\ Has(t, n) /\ p + n <= readAble(b) /\ Holds(Contents(b), p, t)

LEMMA ReadsBytes ==
  ASSUME NEW b, IsBuffer(b), NEW wild, NEW p, NEW t, NEW n, Stands(b, p, t, n),
         NEW i, i = b.m_read_index + p
  PROVE  Bytes(b, i, n, wild) = t
<1>1. b.m_read_index \in Nat /\ readAble(b) \in Nat /\ n \in Nat
      /\ t \in Seq(Byte) /\ Len(t) = n /\ p \in Nat /\ p + n <= readAble(b)
  BY ContentsType DEF Has, Stands
<1>2. ASSUME NEW k \in 1 .. n PROVE At(b, i + k - 1, wild) = t[k]
  <2>1. p + k \in 1 .. readAble(b) /\ i + k - 1 = b.m_read_index + (p + k) - 1
    BY <1>1, SMTT(30)
  <2>2. At(b, i + k - 1, wild) = Contents(b)[p + k]
    BY <2>1, ContentsAt
  <2> QED
    BY <1>1, <2>2 DEF Holds, Stands
<1>3. Bytes(b, i, n, wild) = [k \in 1 .. n |-> t[k]]
  BY <1>2 DEF Bytes
<1> QED
  BY <1>1, <1>3

(* A packet that has come in full is found at the read index, with its own length. *)
LEMMA EncodedIsPacket ==
  ASSUME NEW b, IsBuffer(b), NEW wild, NEW m, Sound(m), NEW e, Layout(e, m),
         PkLen(m) <= readAble(b), Holds(Contents(b), 0, e)
  PROVE  /\ LengthAt(b, b.m_read_index, wild) = PkLen(m)
         /\ PacketAt(b, b.m_read_index, wild)
<1> DEFINE r == b.m_read_index
           l == PkLen(m)
<1>1. /\ r \in Nat /\ b.m_write_index \in Nat /\ readAble(b) = b.m_write_index - r
  BY ContentsType
<1>2. l \in Nat /\ l >= 26 /\ l \in Int32s
  BY SoundLengths DEF Sound
<1>3. /\ e \in Seq(Byte) /\ Len(e) = l /\ e[1] = PB_START /\ e[l] = PB_END
      /\ Holds(e, 1, NetInt(l))
  BY DEF Layout
<1>4. Len(NetInt(l)) = 4
  BY <1>2, NetIntType
<1> HIDE DEF r, l
<1>5. Holds(Contents(b), 1, NetInt(l))
  <2>1. 1 + 4 <= Len(e)
    BY <1>2, <1>3
  <2> QED
    BY <1>3, <1>4, <2>1, HoldsWithin
<1>6. ASSUME NEW k \in 1 .. l PROVE At(b, r + k - 1, wild) = e[k]
  <2>1. k \in 1 .. readAble(b)
    BY <1>1, <1>2 DEF l
  <2>2. At(b, r + k - 1, wild) = Contents(b)[k]
    BY <2>1, ContentsAt DEF r
  <2>3. Contents(b)[0 + k] = e[k] /\ 0 + k = k
    BY <1>2, <1>3 DEF Holds
  <2> QED
    BY <2>2, <2>3
<1>7. LengthAt(b, r, wild) = l
  <2>1. 1 + 4 <= readAble(b) /\ r + 1 = b.m_read_index + 1
    BY <1>1, <1>2 DEF r, l
  <2> QED
    BY <1>2, <1>5, <2>1, ReadsInt DEF LengthAt
<1>8. At(b, r, wild) = PB_START
  <2>1. 1 \in 1 .. l /\ r + 1 - 1 = r
    BY <1>1, <1>2
  <2> QED
    BY <1>3, <1>6, <2>1
<1>9. At(b, r + l - 1, wild) = PB_END
  <2>1. l \in 1 .. l
    BY <1>2
  <2> QED
    BY <1>3, <1>6, <2>1
<1>10. r + 1 < b.m_write_index /\ l <= b.m_write_index - r
  BY <1>1, <1>2 DEF l
<1> QED
  BY <1>7, <1>8, <1>9, <1>10 DEF PacketAt, r, l

(* What decode makes of it is the message, unless a length is beyond its arrays. *)
LEMMA EncodedIsParsed ==
  ASSUME NEW b, IsBuffer(b), NEW wild, NEW m, Sound(m), m.m_err_info = <<>>,
         NEW e, Layout(e, m), PkLen(m) <= readAble(b), Holds(Contents(b), 0, e)
  PROVE  LET outcome == Parse(b, b.m_read_index, wild) IN
         outcome = [kind |-> "fault"] \/ outcome = [kind |-> "message", message |-> m]
<1> DEFINE r == b.m_read_index
           a == Len(m.m_msg_id)
           n == Len(m.m_method_name)
           c == Len(m.m_pb_body)
           l == PkLen(m)
           Int32(k)          == getInt32FromNetByte(b, k, wild)
           pk_len            == LengthAt(b, r, wild)
           end_index         == r + pk_len - 1
           msg_id_len_index  == r + 1 + 4
           msg_id_len        == Int32(msg_id_len_index)
           msg_id_index      == msg_id_len_index + 4
           method_len_index  == msg_id_index + msg_id_len
           method_len        == Int32(method_len_index)
           method_name_index == method_len_index + 4
           err_code_index    == method_name_index + method_len
           info_len_index    == err_code_index + 4
           info_len          == Int32(info_len_index)
           info_index        == info_len_index + 4
           pb_body_len       == pk_len - msg_id_len - method_len + info_len - 2 - 24
           Made == [ m_msg_id      |-> Bytes(b, msg_id_index, msg_id_len, wild),
                     m_method_name |-> Bytes(b, method_name_index, method_len, wild),
                     m_err_code    |-> Int32(err_code_index),
                     m_err_info    |-> CString(Bytes(b, info_index, info_len, wild)),
                     m_pb_body     |-> Bytes(b, info_index + info_len, pb_body_len, wild) ]
           outcome == Parse(b, r, wild)
<1>1. outcome =
        CASE msg_id_len_index >= end_index -> [kind |-> "malformed"]
          [] msg_id_len \notin 0 .. 100    -> [kind |-> "fault"]
          [] method_len_index >= end_index -> [kind |-> "malformed"]
          [] method_len \notin 0 .. 512    -> [kind |-> "fault"]
          [] err_code_index >= end_index   -> [kind |-> "malformed"]
          [] info_len_index >= end_index   -> [kind |-> "malformed"]
          [] info_len \notin 0 .. 511      -> [kind |-> "fault"]
          [] pb_body_len < 0               -> [kind |-> "fault"]
          [] OTHER                         -> [kind |-> "message", message |-> Made]
  BY Zenon DEF Parse
<1>2. pk_len = l
  BY EncodedIsPacket
<1>3. /\ m.m_msg_id \in Seq(Byte) /\ m.m_method_name \in Seq(Byte) /\ m.m_pb_body \in Seq(Byte)
      /\ a \in Nat /\ n \in Nat /\ c \in Nat /\ Len(m.m_err_info) = 0
      /\ l = 26 + a + n + Len(m.m_err_info) + c /\ m.m_err_code \in Int32s /\ l \in Int32s
  BY SoundLengths DEF Sound
<1>4. l = 26 + a + n + c
  <2> DEFINE f == Len(m.m_err_info)
  <2>1. f = 0 /\ l = 26 + a + n + f + c /\ a \in Nat /\ n \in Nat /\ c \in Nat
    BY <1>3
  <2> HIDE DEF f, l, a, n, c
  <2> QED
    BY <2>1
<1>5. /\ r \in Nat /\ readAble(b) \in Nat /\ l <= readAble(b)
  BY ContentsType
<1>6. /\ e \in Seq(Byte) /\ Len(e) = l
      /\ Holds(e, 5, NetInt(a)) /\ Holds(e, 9, m.m_msg_id)
      /\ Holds(e, 9 + a, NetInt(n)) /\ Holds(e, 13 + a, m.m_method_name)
      /\ Holds(e, 13 + a + n, NetInt(m.m_err_code))
      /\ Holds(e, 17 + a + n, NetInt(Len(m.m_err_info)))
      /\ Holds(e, 21 + a + n + Len(m.m_err_info), m.m_pb_body)
  BY DEF Layout
<1> DEFINE code == m.m_err_code
           id == m.m_msg_id
           name == m.m_method_name
           body == m.m_pb_body
<1>7. /\ Holds(e, 17 + a + n, NetInt(0)) /\ Holds(e, 21 + a + n, body)
  <2>1. 21 + a + n + 0 = 21 + a + n
    BY <1>3
  <2> QED
    BY <1>3, <1>6, <2>1
<1>8. /\ Len(id) = a /\ Len(name) = n /\ Len(body) = c
      /\ id \in Seq(Byte) /\ name \in Seq(Byte) /\ body \in Seq(Byte)
      /\ code \in Int32s /\ Holds(e, 9, id) /\ Holds(e, 13 + a, name)
      /\ Holds(e, 13 + a + n, NetInt(code))
  BY <1>3, <1>6
<1>9. a \in Int32s /\ n \in Int32s /\ 0 \in Int32s
  <2>1. l \in Int32s
    BY <1>3
  <2> HIDE DEF a, n, c, l
  <2> QED
    BY <1>3, <1>4, <2>1, SMT DEF Int32s
<1> HIDE DEF r, a, n, c, l, code, id, name, body
<1>10. ASSUME NEW p \in Nat, NEW k \in Int32s, Holds(e, p, NetInt(k)), p + 4 <= l,
              NEW i, i = r + p
       PROVE  Int32(i) = k
  <2>1. k \in Int
    BY SMT DEF Int32s
  <2>2. Len(NetInt(k)) = 4 /\ 4 \in Nat
    BY <2>1, NetIntType
  <2>3. p + 4 <= Len(e)
    BY <1>6, <1>10
  <2>4. Holds(Contents(b), p, NetInt(k))
    BY <1>6, <1>10, <2>2, <2>3, HoldsWithin
  <2>5. p + 4 <= readAble(b)
    BY <1>3, <1>4, <1>5, <1>10
  <2> QED
    BY <1>10, <2>4, <2>5, ReadsInt, ZenonT(30) DEF r
<1>11. ASSUME NEW p \in Nat, NEW t \in Seq(Byte), NEW k \in Nat, k = Len(t), Holds(e, p, t),
              p + k <= l, NEW i, i = r + p
       PROVE  Bytes(b, i, k, wild) = t
  <2>1. p + k <= Len(e)
    BY <1>6, <1>11
  <2>2. Holds(Contents(b), p, t)
    BY <1>6, <1>11, <2>1, HoldsWithin
  <2>3. p + k <= readAble(b)
    BY <1>3, <1>4, <1>5, <1>11
  <2> QED
    <3>1. Stands(b, p, t, k) /\ i = b.m_read_index + p
      BY <1>11, <2>2, <2>3 DEF r, Has, Stands
    <3> QED
      BY <3>1, ReadsBytes
<1> HIDE DEF pk_len, Int32
<1>12. /\ msg_id_len_index = r + 5 /\ msg_id_index = r + 9 /\ msg_id_len = a
       /\ Bytes(b, msg_id_index, msg_id_len, wild) = id
  <2>1. msg_id_len_index = r + 5 /\ msg_id_index = r + 9
    BY <1>5
  <2>2. Int32(r + 5) = a
    BY <1>3, <1>4, <1>6, <1>9, <1>10
  <2>3. Bytes(b, r + 9, a, wild) = id
    BY <1>3, <1>4, <1>8, <1>11
  <2> QED
    BY <2>1, <2>2, <2>3
<1> HIDE DEF msg_id_len_index, msg_id_index, msg_id_len
<1>13. /\ method_len_index = r + (9 + a) /\ method_name_index = r + (13 + a) /\ method_len = n
       /\ Bytes(b, method_name_index, method_len, wild) = name
  <2>1. method_len_index = r + (9 + a) /\ method_name_index = r + (13 + a)
    BY <1>3, <1>5, <1>12
  <2>2. Int32(r + (9 + a)) = n
    BY <1>3, <1>4, <1>6, <1>9, <1>10
  <2>3. Bytes(b, r + (13 + a), n, wild) = name
    BY <1>3, <1>4, <1>8, <1>11
  <2> QED
    BY <2>1, <2>2, <2>3
<1> HIDE DEF method_len_index, method_name_index, method_len
<1>14. err_code_index = r + (13 + a + n) /\ Int32(err_code_index) = code
  <2>1. err_code_index = r + (13 + a + n)
    BY <1>3, <1>5, <1>13
  <2>2. Int32(r + (13 + a + n)) = code
    BY <1>3, <1>4, <1>8, <1>10
  <2> QED
    BY <2>1, <2>2
<1> HIDE DEF err_code_index
<1>15. /\ info_len_index = r + (17 + a + n) /\ info_index = r + (21 + a + n) /\ info_len = 0
  <2>1. info_len_index = r + (17 + a + n) /\ info_index = r + (21 + a + n)
    BY <1>3, <1>5, <1>14
  <2>2. Int32(r + (17 + a + n)) = 0
    BY <1>3, <1>4, <1>7, <1>9, <1>10
  <2> QED
    BY <2>1, <2>2
<1> HIDE DEF info_len_index, info_index, info_len
<1>16. CString(Bytes(b, info_index, info_len, wild)) = <<>>
  <2>1. Bytes(b, info_index, 0, wild) = <<>>
    BY DEF Bytes
  <2>2. CString(<<>>) = <<>>
    BY DEF CString
  <2> QED
    BY <1>15, <2>1, <2>2
<1>17. pb_body_len = c /\ Bytes(b, info_index + info_len, pb_body_len, wild) = body
  <2>1. pb_body_len = c /\ info_index + info_len = r + (21 + a + n)
    BY <1>2, <1>3, <1>4, <1>5, <1>12, <1>13, <1>15
  <2>2. Bytes(b, r + (21 + a + n), c, wild) = body
    BY <1>3, <1>4, <1>7, <1>8, <1>11
  <2> QED
    BY <2>1, <2>2
<1>18. end_index = r + (25 + a + n + c)
  BY <1>2, <1>3, <1>4, <1>5
<1> HIDE DEF pb_body_len, end_index
<1>19. Made = m
  <2>1. Made = [ m_msg_id |-> id, m_method_name |-> name, m_err_code |-> code,
                 m_err_info |-> <<>>, m_pb_body |-> body ]
    BY <1>12, <1>13, <1>14, <1>16, <1>17
  <2>2. m = [ m_msg_id |-> id, m_method_name |-> name, m_err_code |-> code,
              m_err_info |-> m.m_err_info, m_pb_body |-> body ]
    BY DEF Sound, M, Messages, id, name, code, body
  <2> HIDE DEF Made
  <2> QED
    BY <2>1, <2>2
<1> HIDE DEF Made
<1>20. /\ ~(msg_id_len_index >= end_index) /\ ~(method_len_index >= end_index)
       /\ ~(err_code_index >= end_index) /\ ~(info_len_index >= end_index)
       /\ info_len \in 0 .. 511 /\ ~(pb_body_len < 0)
  BY <1>3, <1>5, <1>12, <1>13, <1>14, <1>15, <1>17, <1>18
<1>21. outcome = [kind |-> "fault"] \/ outcome = [kind |-> "message", message |-> Made]
  <2> HIDE DEF outcome
  <2>1. \/ msg_id_len_index >= end_index \/ method_len_index >= end_index
        \/ err_code_index >= end_index \/ info_len_index >= end_index
        \/ outcome = [kind |-> "fault"] \/ outcome = [kind |-> "message", message |-> Made]
    BY <1>1, ZenonT(30)
  <2> QED
    BY <1>20, <2>1, Zenon
<1> QED
  BY <1>19, <1>21 DEF r

-----------------------------------------------------------------------------
(* What the indices of a buffer drop and append, as sequences *)

Dropped(s, n) == SubSeq(s, n + 1, Len(s))

LEMMA DroppedIs ==
  ASSUME NEW S, NEW s \in Seq(S), NEW n \in 0 .. Len(s)
  PROVE  /\ Dropped(s, n) \in Seq(S) /\ Len(Dropped(s, n)) = Len(s) - n
         /\ \A k \in 1 .. Len(s) - n : Dropped(s, n)[k] = s[n + k]
<1> DEFINE l == Len(s)
<1>1. n + 1 \in 1 .. Len(s) + 1 /\ Len(s) \in (n + 1) - 1 .. Len(s)
  OBVIOUS
<1>2. /\ Dropped(s, n) \in Seq(S) /\ Len(Dropped(s, n)) = l - (n + 1) + 1
      /\ \A k \in 1 .. l - (n + 1) + 1 : Dropped(s, n)[k] = s[(n + 1) + k - 1]
  BY <1>1, Part DEF Dropped
<1>3. l - (n + 1) + 1 = l - n /\ \A k \in 1 .. l - n : (n + 1) + k - 1 = n + k
  OBVIOUS
<1> HIDE DEF l
<1>4. /\ Len(Dropped(s, n)) = l - n
      /\ \A k \in 1 .. l - n : Dropped(s, n)[k] = s[n + k]
  BY <1>2, <1>3
<1> QED
  BY <1>2, <1>4 DEF l

LEMMA TakenIs ==
  ASSUME NEW s \in Seq(Byte), NEW n \in 0 .. Len(s)
  PROVE  /\ SubSeq(s, 1, n) \in Seq(Byte) /\ Len(SubSeq(s, 1, n)) = n
         /\ \A k \in 1 .. n : SubSeq(s, 1, n)[k] = s[k]
<1>1. 1 \in 1 .. Len(s) + 1 /\ n \in 1 - 1 .. Len(s) /\ n - 1 + 1 = n
  OBVIOUS
<1>2. \A k \in 1 .. n : 1 + k - 1 = k
  OBVIOUS
<1> QED
  BY <1>1, <1>2, Part

(* What is taken from the front and what is left make up the whole. *)
LEMMA TakenAndDropped ==
  ASSUME NEW s \in Seq(Byte), NEW n \in 0 .. Len(s)
  PROVE  SubSeq(s, 1, n) \o Dropped(s, n) = s
<1> DEFINE t == SubSeq(s, 1, n)
           d == Dropped(s, n)
           z == t \o d
           l == Len(s)
<1>1. t \in Seq(Byte) /\ Len(t) = n /\ \A k \in 1 .. n : t[k] = s[k]
  BY TakenIs
<1>2. d \in Seq(Byte) /\ Len(d) = l - n /\ \A k \in 1 .. l - n : d[k] = s[n + k]
  BY DroppedIs
<1>3. l \in Nat /\ n \in 0 .. l
  OBVIOUS
<1> HIDE DEF t, d, l
<1>4. /\ z \in Seq(Byte) /\ Len(z) = n + (l - n)
      /\ \A k \in 1 .. n : z[k] = t[k]
      /\ \A k \in 1 .. l - n : z[n + k] = d[k]
  BY <1>1, <1>2, Join
<1> HIDE DEF z
<1>5. ASSUME NEW k \in 1 .. l PROVE z[k] = s[k]
  <2>1. CASE k <= n
    BY <1>1, <1>3, <1>4, <2>1
  <2>2. CASE n < k
    <3>1. k - n \in 1 .. l - n /\ n + (k - n) = k
      BY <1>3, <2>2
    <3> QED
      BY <1>2, <1>4, <3>1
  <2> QED
    BY <1>3, <2>1, <2>2
<1>6. Len(z) = l
  BY <1>3, <1>4
<1>7. z = s
  BY <1>4, <1>5, <1>6, SameSequence DEF l
<1> QED
  BY <1>7 DEF z, t, d

LEMMA JoinOf ==
  ASSUME NEW S, NEW s \in Seq(S), NEW t \in Seq(S), NEW m, NEW n, m = Len(s), n = Len(t)
  PROVE  /\ s \o t \in Seq(S)
         /\ Len(s \o t) = m + n
         /\ \A k \in 1 .. m : (s \o t)[k] = s[k]
         /\ \A k \in 1 .. n : (s \o t)[m + k] = t[k]
OBVIOUS

LEMMA DroppedOfJoin ==
  ASSUME NEW S, NEW s \in Seq(S), NEW t \in Seq(S), NEW n \in 0 .. Len(s)
  PROVE  Dropped(s \o t, n) = Dropped(s, n) \o t
<1> DEFINE u == SubSeq(s, 1, n)
           d == Dropped(s, n)
           z == Dropped(s \o t, n)
           y == d \o t
           l == Len(s)
           m == Len(t)
           st == s \o t
<1>1. l \in Nat /\ m \in Nat /\ n \in 0 .. l
  OBVIOUS
<1>2. d \in Seq(S) /\ Len(d) = l - n /\ \A k \in 1 .. l - n : d[k] = s[n + k]
  BY DroppedIs
<1>3. /\ st \in Seq(S) /\ Len(st) = l + m
      /\ \A k \in 1 .. l : st[k] = s[k]
      /\ \A k \in 1 .. m : st[l + k] = t[k]
  BY JoinOf
<1>4. n \in 0 .. Len(st)
  BY <1>1, <1>3
<1>5. /\ z \in Seq(S) /\ Len(z) = Len(st) - n
      /\ \A k \in 1 .. Len(st) - n : z[k] = st[n + k]
  BY <1>3, <1>4, DroppedIs
<1>6. /\ y \in Seq(S) /\ Len(y) = (l - n) + m
      /\ \A k \in 1 .. l - n : y[k] = d[k]
      /\ \A k \in 1 .. m : y[(l - n) + k] = t[k]
  <2>1. m = Len(t)
    OBVIOUS
  <2> HIDE DEF d, l, m
  <2> QED
    BY <1>2, <2>1, JoinOf
<1> HIDE DEF d, z, y, l, m, st
<1>7. Len(z) = Len(y) /\ Len(z) = (l - n) + m
  BY <1>1, <1>3, <1>5, <1>6
<1>8. ASSUME NEW k \in 1 .. (l - n) + m PROVE z[k] = y[k]
  <2>1. z[k] = st[n + k]
    <3>1. k \in 1 .. Len(st) - n
      BY <1>1, <1>3
    <3> QED
      BY <1>5, <3>1
  <2>2. CASE k <= l - n
    <3>1. n + k \in 1 .. l /\ k \in 1 .. l - n
      BY <1>1, <2>2
    <3> QED
      BY <1>2, <1>3, <1>6, <2>1, <3>1
  <2>3. CASE l - n < k
    <3>1. k - (l - n) \in 1 .. m /\ (l - n) + (k - (l - n)) = k /\ l + (k - (l - n)) = n + k
      BY <1>1, <2>3
    <3> QED
      BY <1>3, <1>6, <2>1, <3>1
  <2> QED
    BY <1>1, <2>2, <2>3
<1>9. z = y
  BY <1>5, <1>6, <1>7, <1>8, SameSequence
<1> QED
  BY <1>9 DEF z, y, d, st

(* The read index moves by what is taken, for a buffer that is not full. *)
LEMMA MoveReadDrops ==
  ASSUME NEW b, IsBuffer(b), b.m_write_index < b.m_size, NEW size \in 0 .. readAble(b)
  PROVE  Contents(moveReadIndex(b, size)) = Dropped(Contents(b), size)
<1> DEFINE r == b.m_read_index + size
           moved == [ m_buffer |-> b.m_buffer, m_size |-> Len(b.m_buffer),
                      m_read_index |-> r, m_write_index |-> b.m_write_index ]
           c == Contents(b)
           d == Dropped(c, size)
<1>1. /\ b.m_buffer \in Seq(Byte) /\ b.m_size = Len(b.m_buffer) /\ b.m_size \in Nat
      /\ b.m_read_index \in Nat /\ b.m_write_index \in Nat /\ b.m_write_index <= Len(b.m_buffer)
      /\ readAble(b) = b.m_write_index - b.m_read_index /\ readAble(b) \in Nat
      /\ c \in Seq(Byte) /\ Len(c) = readAble(b)
      /\ \A k \in 1 .. readAble(b) : c[k] = b.m_buffer[b.m_read_index + k]
  BY ContentsType
<1>2. r \in Nat /\ r <= b.m_write_index /\ InRange(b, b.m_read_index + size)
  BY <1>1 DEF InRange
<1>3. [b EXCEPT !.m_read_index = @ + size] = moved
  BY <1>1, BufferFields
<1>4. moveReadIndex(b, size) = adjustBuffer(moved)
  <2> HIDE DEF moved
  <2> QED
    BY <1>2, <1>3 DEF moveReadIndex
<1>5. d \in Seq(Byte) /\ Len(d) = readAble(b) - size
        /\ \A k \in 1 .. readAble(b) - size : d[k] = c[size + k]
  <2>1. c \in Seq(Byte) /\ size \in 0 .. Len(c) /\ Len(c) = readAble(b)
    BY <1>1
  <2> HIDE DEF c
  <2> QED
    BY <2>1, DroppedIs
<1> HIDE DEF r, c, d
<1>6. IsBuffer(moved)
  BY <1>1, <1>2, BufferIs
<1>7. /\ moved.m_buffer = b.m_buffer /\ moved.m_read_index = r
      /\ moved.m_write_index = b.m_write_index
  OBVIOUS
<1> HIDE DEF moved
<1>8. /\ Contents(moved) \in Seq(Byte) /\ Len(Contents(moved)) = readAble(moved)
      /\ readAble(moved) = b.m_write_index - r
      /\ \A k \in 1 .. readAble(moved) : Contents(moved)[k] = b.m_buffer[r + k]
  BY <1>6, <1>7, ContentsType
<1>9. readAble(moved) = readAble(b) - size /\ r = b.m_read_index + size
  BY <1>1, <1>8 DEF r
<1>10. ASSUME NEW k \in 1 .. readAble(b) - size PROVE Contents(moved)[k] = d[k]
  <2>1. size + k \in 1 .. readAble(b) /\ r + k = b.m_read_index + (size + k)
    BY <1>1, <1>9
  <2> QED
    BY <1>1, <1>5, <1>8, <1>9, <2>1
<1>11. Contents(moved) = d
  BY <1>5, <1>8, <1>9, <1>10, SameSequence
<1> QED
  BY <1>4, <1>6, <1>11, AdjustKeeps DEF d, c

(* What read(2) put behind the write index joins the contents, unless it is refused. *)
LEMMA ReadAppends ==
  ASSUME NEW b, IsBuffer(b), NEW data, NEW n, Has(data, n), n <= writeAble(b),
         InRange(Copied(b, data), Copied(b, data).m_write_index + n)
  PROVE  Contents(moveWriteIndex(Copied(b, data), n)) = Contents(b) \o data
<1> DEFINE tail == Copied(b, data)
           new  == [tail EXCEPT !.m_write_index = @ + n]
<1>1. data \in Seq(Byte) /\ Len(data) = n
  BY DEF Has
<1>2. IsBuffer(new) /\ Contents(new) = Contents(b) \o data
  BY <1>1, CopyKeeps
<1>3. moveWriteIndex(tail, n) = adjustBuffer(new)
  BY DEF moveWriteIndex
<1> HIDE DEF new
<1> QED
  BY <1>2, <1>3, AdjustKeeps

-----------------------------------------------------------------------------
(* Of the bytes of the packets, whole or in parts, none begins a packet whose length decode
   cannot advance by: every start mark has a positive length behind it, or its length has
   not come in. *)

(* A start mark is followed by the first byte of a length that is not negative, and its
   length is not 0. *)
Mark(s, i) ==
  s[i] = PB_START =>
    /\ i + 1 <= Len(s) => s[i + 1] < 128
    /\ i + 4 <= Len(s) => \E j \in 1 .. 4 : s[i + j] # 0

Marks(s) == \A i \in 1 .. Len(s) : Mark(s, i)

\* Empty, or with a start mark in front
Led(s) == Len(s) > 0 => s[1] = PB_START

LEMMA MarksTaken ==
  ASSUME NEW s \in Seq(Byte), NEW n \in 0 .. Len(s), Marks(s)
  PROVE  Marks(SubSeq(s, 1, n))
<1> DEFINE t == SubSeq(s, 1, n)
           l == Len(s)
<1>1. Len(t) = n /\ \A k \in 1 .. n : t[k] = s[k]
  BY TakenIs
<1>2. n \in 0 .. l /\ l \in Nat
  OBVIOUS
<1> HIDE DEF t, l
<1>3. ASSUME NEW i \in 1 .. n PROVE Mark(t, i)
  <2>1. Mark(s, i)
    BY <1>2 DEF Marks, l
  <2>2. ASSUME t[i] = PB_START, i + 1 <= n PROVE t[i + 1] < 128
    BY <1>1, <1>2, <2>1, <2>2 DEF Mark, l
  <2>3. ASSUME t[i] = PB_START, i + 4 <= n PROVE \E j \in 1 .. 4 : t[i + j] # 0
    <3>1. PICK j \in 1 .. 4 : s[i + j] # 0
      BY <1>1, <1>2, <2>1, <2>3 DEF Mark, l
    <3>2. t[i + j] = s[i + j]
      BY <1>1, <1>2, <2>3
    <3> QED
      BY <3>1, <3>2
  <2> QED
    BY <1>1, <2>2, <2>3 DEF Mark
<1> QED
  BY <1>1, <1>3 DEF Marks, t

LEMMA MarksDropped ==
  ASSUME NEW s \in Seq(Byte), NEW n \in 0 .. Len(s), Marks(s)
  PROVE  Marks(Dropped(s, n))
<1> DEFINE t == Dropped(s, n)
           l == Len(s)
           m == l - n
<1>1. Len(t) = m /\ \A k \in 1 .. m : t[k] = s[n + k]
  BY DroppedIs
<1>2. n \in 0 .. l /\ l \in Nat /\ m = l - n /\ m \in Nat
  OBVIOUS
<1> HIDE DEF t, l, m
<1>3. ASSUME NEW i \in 1 .. m PROVE Mark(t, i)
  <2>1. Mark(s, n + i) /\ t[i] = s[n + i]
    <3>1. n + i \in 1 .. l
      BY <1>2
    <3> QED
      BY <1>1, <3>1 DEF Marks, l
  <2>2. ASSUME t[i] = PB_START, i + 1 <= m PROVE t[i + 1] < 128
    <3>1. (n + i) + 1 <= l /\ n + (i + 1) = (n + i) + 1 /\ i + 1 \in 1 .. m
      BY <1>2, <2>2
    <3>2. s[(n + i) + 1] < 128
      BY <2>1, <2>2, <3>1 DEF Mark, l
    <3> QED
      BY <1>1, <3>1, <3>2
  <2>3. ASSUME t[i] = PB_START, i + 4 <= m PROVE \E j \in 1 .. 4 : t[i + j] # 0
    <3>1. (n + i) + 4 <= l
      BY <1>2, <2>3
    <3>2. PICK j \in 1 .. 4 : s[(n + i) + j] # 0
      BY <2>1, <2>3, <3>1 DEF Mark, l
    <3>3. n + (i + j) = (n + i) + j /\ i + j \in 1 .. m
      BY <1>2, <2>3
    <3>4. t[i + j] = s[(n + i) + j]
      BY <1>1, <3>3
    <3> QED
      BY <3>2, <3>4
  <2> QED
    BY <1>1, <2>2, <2>3 DEF Mark
<1> QED
  BY <1>1, <1>3 DEF Marks, t

LEMMA MarksJoined ==
  ASSUME NEW s \in Seq(Byte), NEW t \in Seq(Byte), Marks(s), Marks(t), Led(t)
  PROVE  Marks(s \o t)
<1> DEFINE z == s \o t
           m == Len(s)
           n == Len(t)
<1>1. /\ Len(z) = m + n
      /\ \A k \in 1 .. m : z[k] = s[k]
      /\ \A k \in 1 .. n : z[m + k] = t[k]
  BY Join
<1>2. m \in Nat /\ n \in Nat
  OBVIOUS
<1> HIDE DEF z, m, n
<1>3. n > 0 => z[m + 1] = PB_START
  BY <1>1, <1>2 DEF Led, n
<1>4. ASSUME NEW i \in 1 .. m PROVE Mark(z, i)
  <2>1. Mark(s, i) /\ z[i] = s[i]
    BY <1>1 DEF Marks, m
  <2>2. ASSUME z[i] = PB_START, i + 1 <= m + n PROVE z[i + 1] < 128
    <3>1. CASE i + 1 <= m
      <4>1. s[i + 1] < 128
        BY <2>1, <2>2, <3>1 DEF Mark, m
      <4>2. i + 1 \in 1 .. m
        BY <1>2, <3>1
      <4> QED
        BY <1>1, <4>1, <4>2
    <3>2. CASE i = m
      <4>1. z[i + 1] = PB_START
        BY <1>2, <1>3, <2>2, <3>2
      <4> QED
        BY <4>1 DEF PB_START
    <3> QED
      BY <1>2, <3>1, <3>2
  <2>3. ASSUME z[i] = PB_START, i + 4 <= m + n PROVE \E j \in 1 .. 4 : z[i + j] # 0
    <3>1. CASE i + 4 <= m
      <4>1. PICK j \in 1 .. 4 : s[i + j] # 0
        BY <2>1, <2>3, <3>1 DEF Mark, m
      <4>2. i + j \in 1 .. m
        BY <1>2, <3>1
      <4> QED
        BY <1>1, <4>1, <4>2
    <3>2. CASE m < i + 4
      <4>1. m + 1 - i \in 1 .. 4 /\ i + (m + 1 - i) = m + 1 /\ n > 0
        BY <1>2, <2>3, <3>2
      <4>2. z[i + (m + 1 - i)] # 0
        BY <1>3, <4>1 DEF PB_START
      <4> QED
        BY <4>1, <4>2
    <3> QED
      BY <1>2, <3>1, <3>2
  <2> QED
    BY <1>1, <2>2, <2>3 DEF Mark
<1>5. ASSUME NEW i \in 1 .. n PROVE Mark(z, m + i)
  <2>1. Mark(t, i) /\ z[m + i] = t[i]
    BY <1>1 DEF Marks, n
  <2>2. ASSUME z[m + i] = PB_START, (m + i) + 1 <= m + n PROVE z[(m + i) + 1] < 128
    <3>1. i + 1 <= n /\ i + 1 \in 1 .. n /\ m + (i + 1) = (m + i) + 1
      BY <1>2, <2>2
    <3>2. t[i + 1] < 128
      BY <2>1, <2>2, <3>1 DEF Mark, n
    <3> QED
      BY <1>1, <3>1, <3>2
  <2>3. ASSUME z[m + i] = PB_START, (m + i) + 4 <= m + n
        PROVE  \E j \in 1 .. 4 : z[(m + i) + j] # 0
    <3>1. i + 4 <= n
      BY <1>2, <2>3
    <3>2. PICK j \in 1 .. 4 : t[i + j] # 0
      BY <2>1, <2>3, <3>1 DEF Mark, n
    <3>3. i + j \in 1 .. n /\ m + (i + j) = (m + i) + j
      BY <1>2, <3>1
    <3>4. z[(m + i) + j] = t[i + j]
      BY <1>1, <3>3
    <3> QED
      BY <3>2, <3>4
  <2> QED
    BY <1>1, <2>2, <2>3 DEF Mark
<1>6. ASSUME NEW i \in 1 .. m + n PROVE Mark(z, i)
  <2>1. CASE i <= m
    BY <1>2, <1>4, <2>1
  <2>2. CASE m < i
    <3>1. i - m \in 1 .. n /\ m + (i - m) = i
      BY <1>2, <2>2
    <3>2. Mark(z, m + (i - m))
      BY <1>5, <3>1
    <3> QED
      BY <3>1, <3>2
  <2> QED
    BY <1>2, <2>1, <2>2
<1> QED
  BY <1>1, <1>6 DEF Marks, z

(* A packet whose marks are marks only. *)
LEMMA CleanIsMarked ==
  ASSUME NEW m, Sound(m), Clean(m)
  PROVE  Marks(encodeTinyPB(m)) /\ Led(encodeTinyPB(m))
<1> DEFINE e == encodeTinyPB(m)
           l == PkLen(m)
<1>1. /\ e \in Seq(Byte) /\ Len(e) = l /\ e[1] = PB_START /\ e[l] = PB_END
      /\ Holds(e, 1, NetInt(l))
  BY EncodeLayout DEF Layout
<1>2. l \in Nat /\ l >= 26 /\ l \in Int32s
  BY SoundLengths DEF Sound
<1>3. \A i \in 2 .. l - 1 : e[i] # PB_START
  BY <1>1 DEF Clean
<1> HIDE DEF e, l
<1>4. Len(NetInt(l)) = 4
  BY <1>2, NetIntType
<1>5. \A k \in 1 .. 4 : e[1 + k] = NetInt(l)[k]
  BY <1>1, <1>4 DEF Holds
<1>6. NetInt(l)[1] < 128
  <2>1. NetInt(l)[1] = (l \div 16777216) % 256
    BY SMT DEF NetInt
  <2>2. l < 2147483648
    BY <1>2, SMT DEF Int32s
  <2>3. (l \div 16777216) % 256 < 128
    BY <1>2, <2>2, SMT
  <2> QED
    BY <2>1, <2>3
<1>7. \E j \in 1 .. 4 : NetInt(l)[j] # 0
  <2>1. SUFFICES ASSUME \A j \in 1 .. 4 : NetInt(l)[j] = 0 PROVE FALSE
    OBVIOUS
  <2>2. NetInt(l)[1] = 0 /\ NetInt(l)[2] = 0 /\ NetInt(l)[3] = 0 /\ NetInt(l)[4] = 0
    BY <2>1
  <2>3. l = 0
    BY <1>2, <2>2, NetIntValue, SMT
  <2> QED
    BY <1>2, <2>3
<1>8. ASSUME NEW i \in 1 .. l PROVE Mark(e, i)
  <2>1. CASE i = 1
    <3>1. e[1 + 1] < 128
      BY <1>5, <1>6
    <3>2. \E j \in 1 .. 4 : e[1 + j] # 0
      BY <1>5, <1>7
    <3> QED
      BY <2>1, <3>1, <3>2 DEF Mark
  <2>2. CASE i # 1
    <3>1. e[i] # PB_START
      <4>1. CASE i = l
        BY <1>1, <4>1 DEF PB_START, PB_END
      <4>2. CASE i # l
        <5>1. i \in 2 .. l - 1
          BY <1>2, <2>2, <4>2
        <5> QED
          BY <1>3, <5>1
      <4> QED
        BY <4>1, <4>2
    <3> QED
      BY <3>1 DEF Mark
  <2> QED
    BY <2>1, <2>2
<1> QED
  BY <1>1, <1>8 DEF Marks, Led, e

LEMMA FirstPacketIs ==
  ASSUME NEW b, IsBuffer(b), NEW wild, Packets(b, wild) # {}
  PROVE  /\ FirstPacket(b, wild) \in b.m_read_index .. b.m_write_index - 1
         /\ PacketAt(b, FirstPacket(b, wild), wild)
         /\ \A j \in Packets(b, wild) : FirstPacket(b, wild) <= j
<1> DEFINE all == Packets(b, wild)
           i   == FirstPacket(b, wild)
<1>1. b.m_read_index \in Nat /\ b.m_write_index \in Nat
  BY ContentsType
<1>2. all \in SUBSET Nat
  BY <1>1 DEF Packets
<1>3. \E k \in all : \A l \in all : k <= l
  <2> HIDE DEF all
  <2> QED
    BY <1>2, Minimum DEF all
<1>4. i \in all /\ \A l \in all : i <= l
  BY <1>3 DEF FirstPacket
<1>5. i \in b.m_read_index .. b.m_write_index - 1 /\ PacketAt(b, i, wild)
  <2> HIDE DEF i
  <2> QED
    BY <1>4 DEF Packets
<1> QED
  BY <1>4, <1>5

(* What decode finds at a start mark whose length has come: a packet of that length, which
   is positive. *)
LEMMA MarkedAdvances ==
  ASSUME NEW b, IsBuffer(b), NEW wild \in Byte, Marks(Contents(b)), ~HeaderCut(b),
         Packets(b, wild) # {}
  PROVE  LengthAt(b, FirstPacket(b, wild), wild) \in 1 .. readAble(b)
<1> DEFINE i == FirstPacket(b, wild)
           r == b.m_read_index
           w == b.m_write_index
           s == Contents(b)
<1>1. /\ r \in Nat /\ w \in Nat /\ readAble(b) = w - r /\ w <= b.m_size /\ b.m_size \in Nat
      /\ s \in Seq(Byte) /\ Len(s) = readAble(b)
      /\ \A k \in 1 .. readAble(b) : s[k] = b.m_buffer[r + k]
  BY ContentsType
<1>2. LengthAt(b, i, wild) \in Int /\ LengthAt(b, i, wild) <= readAble(b)
        /\ i \in r .. w - 1 /\ PacketAt(b, i, wild)
  BY PacketWithin, FirstPacketIs
<1> HIDE DEF i, r, w, s
<1>3. i + 4 < w
  <2>1. i \in 0 .. b.m_size - 1
    BY <1>1, <1>2
  <2>2. b.m_buffer[i + 1] = PB_START
    BY <1>2, <2>1 DEF PacketAt, At
  <2> QED
    BY <1>1, <1>2, <2>2 DEF HeaderCut, r, w
<1> DEFINE k == i - r + 1
<1>4. k \in 1 .. readAble(b) /\ k + 4 <= readAble(b) /\ i = r + k - 1
  BY <1>1, <1>2, <1>3
<1> HIDE DEF k
<1>5. ASSUME NEW j \in 0 .. 4 PROVE At(b, i + j, wild) = s[k + j]
  <2>1. k + j \in 1 .. readAble(b) /\ i + j = r + (k + j) - 1
    BY <1>1, <1>4
  <2> QED
    BY <2>1, ContentsAt DEF r, s
<1>6. s[k] = PB_START
  <2>1. At(b, i + 0, wild) = s[k + 0] /\ i + 0 = i /\ k + 0 = k
    BY <1>1, <1>4, <1>5
  <2> QED
    BY <1>2, <2>1 DEF PacketAt
<1>7. s[k + 1] < 128 /\ \E j \in 1 .. 4 : s[k + j] # 0
  <2>1. Mark(s, k)
    BY <1>1, <1>4 DEF Marks, s
  <2> QED
    BY <1>1, <1>4, <1>6, <2>1 DEF Mark
<1>8. \A j \in 1 .. 4 : s[k + j] \in 0 .. 255
  <2>1. ASSUME NEW j \in 1 .. 4 PROVE s[k + j] \in Byte
    <3>1. k + j \in 1 .. Len(s)
      BY <1>1, <1>4
    <3> QED
      BY <1>1, <3>1, ElementOfSeq
  <2> QED
    BY <2>1 DEF Byte
<1> DEFINE x1 == s[k + 1]
           x2 == s[k + 2]
           x3 == s[k + 3]
           x4 == s[k + 4]
<1>9. /\ x1 \in 0 .. 255 /\ x2 \in 0 .. 255 /\ x3 \in 0 .. 255 /\ x4 \in 0 .. 255
      /\ x1 < 128 /\ (x1 # 0 \/ x2 # 0 \/ x3 # 0 \/ x4 # 0)
  <2>1. \A j \in 1 .. 4 : j = 1 \/ j = 2 \/ j = 3 \/ j = 4
    OBVIOUS
  <2> QED
    BY <1>7, <1>8, <2>1
<1>10. /\ At(b, i + 1, wild) = x1 /\ At(b, i + 2, wild) = x2
       /\ At(b, i + 3, wild) = x3 /\ At(b, i + 4, wild) = x4
  BY <1>5
<1> HIDE DEF x1, x2, x3, x4
<1>11. LengthAt(b, i, wild) = x1 * 16777216 + x2 * 65536 + x3 * 256 + x4
  <2>1. (i + 1) + 1 = i + 2 /\ (i + 1) + 2 = i + 3 /\ (i + 1) + 3 = i + 4
    BY <1>1, <1>2
  <2>2. ~(x1 >= 128)
    BY <1>9
  <2> QED
    BY <1>10, <2>1, <2>2, SMT DEF LengthAt, getInt32FromNetByte
<1>12. x1 * 16777216 + x2 * 65536 + x3 * 256 + x4 >= 1
  BY <1>9, SMT
<1>13. LengthAt(b, i, wild) >= 1
  BY <1>11, <1>12, SMT
<1> QED
  BY <1>1, <1>2, <1>13 DEF i

-----------------------------------------------------------------------------
(* What a step does to the bytes on their way *)

(* Every reply given is one that encodes. *)
GivenSound == \A k \in 1 .. Len(given) : Sound(given[k])

LEMMA NamedIsSound ==
  ASSUME NEW m \in Replies
  PROVE  Sound(WithMsgId(m)) /\ encodeTinyPB(WithMsgId(m)) = encodeTinyPB(m)
<1>1. /\ m \in Messages(Seq(Byte)) /\ m.m_err_code \in Int32s
      /\ PkLen(WithMsgId(m)) \in Int32s
  BY ReplyAssumption
<1>2. WithMsgId(m) \in M
  BY <1>1, WithMsgIdType DEF M
<1>3. WithMsgId(m).m_msg_id # <<>> /\ WithMsgId(m).m_err_code = m.m_err_code
  <2>1. DefaultMsgId # <<>>
    BY DEF DefaultMsgId
  <2> QED
    BY <1>1, <2>1 DEF WithMsgId, Messages
<1>4. WithMsgId(WithMsgId(m)) = WithMsgId(m)
  BY <1>3, Zenon DEF WithMsgId
<1>5. encodeTinyPB(WithMsgId(m)) = encodeTinyPB(m)
  BY <1>4, Zenon DEF encodeTinyPB
<1> QED
  BY <1>1, <1>2, <1>3, <1>5 DEF Sound

(* The bytes on their way to decode. *)
Stream == Contents(in) \o wire

LEMMA ReplyEffect ==
  ASSUME StreamTypeOK, NEW m \in Replies, Reply(m)
  PROVE  /\ Contents(out)' = Contents(out) \o encodeTinyPB(m) /\ Stream' = Stream
         /\ given' = Append(given, WithMsgId(m))
<1>1. encodeTinyPB(m) \in Seq(Byte)
  BY ReplyAssumption, EncodeType
<1>2. Contents(writeToBuffer(out, encodeTinyPB(m))) = Contents(out) \o encodeTinyPB(m)
  BY <1>1, WriteKeeps DEF Reply, StreamTypeOK
<1> QED
  BY <1>2 DEF Reply, Stream, client

LEMMA WriteEffect ==
  ASSUME StreamTypeOK, NEW n \in 0 .. readAble(out), Write(n)
  PROVE  Stream' = Stream \o SubSeq(Contents(out), 1, n)
<1> DEFINE c == Contents(in)
           part == SubSeq(Contents(out), 1, n)
<1>1. c \in Seq(Byte) /\ wire \in Seq(Byte) /\ part \in Seq(Byte)
  BY ContentsType, TakenIs DEF StreamTypeOK
<1>2. wire' = wire \o part /\ Contents(in)' = c
  BY DEF Write, client
<1> HIDE DEF c, part
<1>3. c \o (wire \o part) = (c \o wire) \o part
  BY <1>1, ConcatAssociative
<1>4. Stream' = c \o (wire \o part)
  BY <1>2, Zenon DEF Stream
<1>5. Stream = c \o wire
  BY DEF Stream, c
<1> QED
  BY <1>3, <1>4, <1>5 DEF part

LEMMA ReadEffect ==
  ASSUME StreamTypeOK, NEW n \in Nat, ReadOf(n), ~refused'
  PROVE  Stream' = Stream /\ pc' # "idle" /\ InQueue!Put
<1> DEFINE taken == MinInt(writeAble(in), n)
           data  == SubSeq(wire, 1, taken)
           tail  == Copied(in, data)
           c == Contents(in)
<1>1. /\ Room = in /\ writeAble(in) \in Nat \ {0} /\ IsBuffer(in) /\ wire \in Seq(Byte)
      /\ c \in Seq(Byte)
  BY RoomIsIn, ContentsType DEF StreamTypeOK
<1>2. n \in 1 .. Len(wire)
  BY DEF ReadOf
<1>3. taken \in 0 .. Len(wire) /\ taken <= writeAble(in) /\ taken > 0
  BY <1>1, <1>2 DEF MinInt
<1>4. /\ in' = moveWriteIndex(tail, taken) /\ wire' = SubSeq(wire, taken + 1, Len(wire))
      /\ refused' = (refused \/ ~InRange(tail, tail.m_write_index + taken))
      /\ pc' = IF taken = writeAble(in) THEN "read" ELSE "decode"
  BY <1>1, Zenon DEF ReadOf
<1>5. InRange(tail, tail.m_write_index + taken)
  BY <1>4, Zenon
<1> HIDE DEF taken
<1>6. data \in Seq(Byte) /\ Len(data) = taken
  BY <1>1, <1>3, TakenIs
<1>7. Has(data, taken)
  BY <1>3, <1>6 DEF Has
<1>8. Contents(in)' = c \o data
  <2> HIDE DEF data
  <2>1. Contents(moveWriteIndex(Copied(in, data), taken)) = c \o data
    BY <1>1, <1>3, <1>5, <1>7, ReadAppends
  <2> QED
    BY <1>4, <2>1
<1> DEFINE rest == Dropped(wire, taken)
<1>9. rest \in Seq(Byte) /\ wire' = rest /\ data \o rest = wire
  <2>1. wire' = rest
    BY <1>4 DEF Dropped
  <2>2. rest \in Seq(Byte) /\ data \o rest = wire
    <3> HIDE DEF data
    <3>1. Dropped(wire, taken) \in Seq(Byte)
      BY <1>1, <1>3, DroppedIs
    <3>2. SubSeq(wire, 1, taken) \o Dropped(wire, taken) = wire
      BY <1>1, <1>3, TakenAndDropped
    <3> QED
      BY <3>1, <3>2 DEF data
  <2> QED
    BY <2>1, <2>2
<1> HIDE DEF data, rest, c, tail
<1>10. c \o (data \o rest) = (c \o data) \o rest
  <2>1. c \in Seq(Byte) /\ data \in Seq(Byte) /\ rest \in Seq(Byte)
    BY <1>1, <1>6, <1>9
  <2> QED
    BY <2>1, ConcatAssociative
<1>11. Stream' = (c \o data) \o rest
  BY <1>8, <1>9, Zenon DEF Stream
<1>12. Stream = c \o wire
  BY DEF Stream, c
<1>13. pc' # "idle"
  BY <1>4
<1>14. InQueue!Put
  <2>1. Len(c) \in Nat /\ Len(c \o data) = Len(c) + taken
        /\ \A k \in 1 .. Len(c) : (c \o data)[k] = c[k]
    BY <1>1, <1>3, <1>6
  <2>2. Len(c \o data) > Len(c)
    BY <1>3, <2>1
  <2> QED
    BY <1>8, <2>1, <2>2 DEF InQueue!Put, c
<1> QED
  BY <1>9, <1>10, <1>11, <1>12, <1>13, <1>14

LEMMA DecodeEffect ==
  ASSUME StreamTypeOK, NEW wild \in Wild, Decode(wild), NEW size,
         size = LengthAt(in, FirstPacket(in, wild), wild), size \in 0 .. readAble(in)
  PROVE  /\ Contents(in)' = Dropped(Contents(in), size) /\ size \in 0 .. Len(Contents(in))
         /\ Stream' = Dropped(Stream, size) /\ size \in 0 .. Len(Stream)
<1> DEFINE c == Contents(in)
<1>1. IsBuffer(in) /\ in.m_write_index < in.m_size /\ wire \in Seq(Byte)
  BY DEF StreamTypeOK, InNeverFull
<1>2. c \in Seq(Byte) /\ Len(c) = readAble(in) /\ readAble(in) \in Nat
  BY <1>1, ContentsType
<1>3. in' = moveReadIndex(in, size) /\ wire' = wire
  BY DEF Decode, server
<1>4. Contents(in)' = Dropped(c, size)
  <2>1. Contents(moveReadIndex(in, size)) = Dropped(c, size)
    BY <1>1, MoveReadDrops
  <2> QED
    BY <1>3, <2>1
<1> HIDE DEF c
<1>5. Stream' = Dropped(c, size) \o wire
  BY <1>3, <1>4, Zenon DEF Stream
<1>6. Stream = c \o wire
  BY DEF Stream, c
<1>7. size \in 0 .. Len(c)
  BY <1>2
<1>8. Dropped(c \o wire, size) = Dropped(c, size) \o wire
  BY <1>1, <1>2, <1>7, DroppedOfJoin
<1>9. size \in 0 .. Len(c \o wire)
  BY <1>1, <1>2, <1>7
<1> QED
  BY <1>4, <1>5, <1>6, <1>7, <1>8, <1>9 DEF c

(* What spoils the connection stays. *)
Keeps == (overrun => overrun') /\ (refused => refused') /\ (split => split')

LEMMA KeepsStep ==
  ASSUME [StreamNext]_streamVars
  PROVE  Keeps
<1>1. ASSUME overrun' = overrun, refused' = refused, split' = split PROVE Keeps
  BY <1>1, Zenon DEF Keeps
<1>2. ASSUME NEW m \in Replies, Reply(m) PROVE Keeps
  BY <1>1, <1>2 DEF Reply, client
<1>3. ASSUME NEW m \in Replies, ReplyOverruns(m) PROVE Keeps
  <2>1. refused' = refused /\ split' = split
    BY <1>3 DEF ReplyOverruns, client
  <2> QED
    BY <1>3, <2>1, Zenon DEF ReplyOverruns, Keeps
<1>4. ASSUME NEW n, Write(n) PROVE Keeps
  BY <1>1, <1>4 DEF Write, client
<1>5. ASSUME NEW n, ReadOf(n) PROVE Keeps
  <2>1. overrun' = overrun /\ split' = split
    BY <1>5 DEF ReadOf
  <2>2. refused => refused'
    BY <1>5, Zenon DEF ReadOf
  <2> QED
    BY <2>1, <2>2, Zenon DEF Keeps
<1>6. CASE ReadNothing
  BY <1>1, <1>6 DEF ReadNothing
<1>7. ASSUME NEW wild \in Wild, Decode(wild) PROVE Keeps
  <2>1. refused' = refused
    BY <1>7 DEF Decode
  <2>2. ~overrun /\ (split => split')
    BY <1>7, Zenon DEF Decode
  <2> QED
    BY <2>1, <2>2, Zenon DEF Keeps
<1>8. ASSUME NEW wild \in Wild, DecodeEnds(wild) PROVE Keeps
  <2>1. refused' = refused
    BY <1>8 DEF DecodeEnds
  <2>2. ~overrun /\ (split => split')
    BY <1>8, Zenon DEF DecodeEnds
  <2> QED
    BY <2>1, <2>2, Zenon DEF Keeps
<1>9. CASE UNCHANGED streamVars
  BY <1>1, <1>9 DEF streamVars
<1>10. CASE Server
  <2>1. ASSUME WriteAll PROVE Keeps
    BY <1>1, <2>1 DEF WriteAll, Write, client
  <2> QED
    BY <1>2, <1>3, <1>4, <1>10, <2>1, Zenon DEF Server, WritePart
<1>11. CASE Client
  BY <1>5, <1>6, <1>7, <1>8, <1>11, Zenon DEF Client, Read
<1> QED
  BY <1>9, <1>10, <1>11 DEF StreamNext

LEMMA SoundStep ==
  ASSUME StreamTypeOK, GivenSound, [StreamNext]_streamVars
  PROVE  GivenSound' /\ (Exposed => Exposed')
<1>1. ASSUME NEW m \in Replies, Reply(m) PROVE GivenSound' /\ (Exposed => Exposed')
  <2> DEFINE n == Len(given)
  <2>1. /\ given' = Append(given, WithMsgId(m)) /\ Sound(WithMsgId(m)) /\ given \in Seq(M)
        /\ ~overrun /\ UNCHANGED << refused, split >> /\ UNCHANGED overrun
    BY <1>1, ReplyEffect, NamedIsSound DEF StreamTypeOK, M, Reply, client
  <2>2. /\ Len(given') = n + 1 /\ given'[n + 1] = WithMsgId(m) /\ n \in Nat
        /\ \A k \in 1 .. n : given'[k] = given[k]
        /\ DOMAIN given = 1 .. n /\ DOMAIN given' = 1 .. n + 1
    BY <2>1
  <2> HIDE DEF n
  <2>3. ASSUME NEW k \in 1 .. n + 1 PROVE Sound(given'[k])
    <3>1. CASE k = n + 1
      BY <2>1, <2>2, <3>1
    <3>2. CASE k \in 1 .. n
      BY <2>2, <3>2 DEF GivenSound, n
    <3> QED
      BY <2>2, <3>1, <3>2
  <2>4. ASSUME Exposed PROVE Exposed'
    <3>1. CASE overrun \/ refused \/ split
      BY <2>1, <3>1, Zenon DEF Exposed
    <3>2. CASE \E k \in DOMAIN given : ~Clean(given[k])
      <4>1. PICK k \in 1 .. n : ~Clean(given[k])
        BY <2>2, <3>2
      <4>2. k \in 1 .. n + 1 /\ given'[k] = given[k]
        BY <2>2
      <4>3. k \in DOMAIN given' /\ ~Clean(given'[k])
        BY <2>2, <4>1, <4>2
      <4> QED
        BY <4>3, Zenon DEF Exposed
    <3> QED
      BY <2>4, <3>1, <3>2, Zenon DEF Exposed
  <2> QED
    BY <2>2, <2>3, <2>4 DEF GivenSound
<1>2. CASE given' = given
  <2>1. (overrun => overrun') /\ (refused => refused') /\ (split => split')
    BY KeepsStep, Zenon DEF Keeps
  <2>2. GivenSound'
    BY <1>2 DEF GivenSound
  <2> QED
    BY <1>2, <2>1, <2>2, Zenon DEF Exposed
<1>3. (\E m \in Replies : Reply(m)) \/ given' = given
  BY DEF StreamNext, Server, Client, ReplyOverruns, WriteAll, WritePart, Write,
     Read, ReadOf, ReadNothing, Decode, DecodeEnds, server, streamVars
<1> QED
  BY <1>1, <1>2, <1>3

(* As long as no length was cut and no message holds a mark: every start mark in what has
   been written, and in what is being written, is that of a packet. *)
MarksKept ==
  ~Exposed => Marks(Stream) /\ Marks(Contents(out)) /\ Led(Contents(out))

LEMMA StreamType ==
  ASSUME StreamTypeOK
  PROVE  Stream \in Seq(Byte) /\ Contents(in) \in Seq(Byte) /\ wire \in Seq(Byte)
         /\ Contents(out) \in Seq(Byte)
<1>1. Contents(in) \in Seq(Byte) /\ wire \in Seq(Byte) /\ Contents(out) \in Seq(Byte)
  BY ContentsType DEF StreamTypeOK
<1>2. Contents(in) \o wire \in Seq(Byte)
  BY <1>1, Join
<1> QED
  BY <1>1, <1>2 DEF Stream

LEMMA ContentsMarked ==
  ASSUME StreamTypeOK, Marks(Stream)
  PROVE  Marks(Contents(in))
<1> DEFINE c == Contents(in)
           n == Len(c)
           z == c \o wire
<1>1. c \in Seq(Byte) /\ wire \in Seq(Byte) /\ z \in Seq(Byte) /\ n \in 0 .. Len(z)
  <2>1. c \in Seq(Byte) /\ wire \in Seq(Byte)
    BY StreamType
  <2> HIDE DEF c
  <2> QED
    BY <2>1
<1>2. SubSeq(z, 1, n) = c
  BY <1>1, ConcatSimplifications, SubSeqOfConcat1, SubSeqFull
<1>3. Marks(z)
  BY DEF Stream
<1> HIDE DEF z, c, n
<1>4. Marks(SubSeq(z, 1, n))
  BY <1>1, <1>3, MarksTaken
<1> QED
  BY <1>2, <1>4 DEF c

LEMMA AdvanceFollows ==
  ASSUME StreamTypeOK, MarksKept
  PROVE  DecodeAdvances
<1> SUFFICES ASSUME NEW wild \in Wild, ~Exposed, ~HeaderCut(in), Packets(in, wild) # {}
             PROVE  LengthAt(in, FirstPacket(in, wild), wild) \in 1 .. readAble(in)
  BY DEF DecodeAdvances
<1>1. Marks(Contents(in))
  BY ContentsMarked DEF MarksKept
<1>2. IsBuffer(in) /\ wild \in Byte
  BY WildAssumption DEF StreamTypeOK
<1> QED
  BY <1>1, <1>2, MarkedAdvances

-----------------------------------------------------------------------------
(* decode always advances, as long as nothing outside of the buffer was touched *)

LEMMA MarksStep ==
  ASSUME StreamTypeOK, GivenSound, MarksKept, [StreamNext]_streamVars
  PROVE  MarksKept'
<1> SUFFICES ASSUME ~Exposed'
             PROVE  Marks(Stream)' /\ Marks(Contents(out))' /\ Led(Contents(out))'
  BY DEF MarksKept
<1>1. ~Exposed /\ Marks(Stream) /\ Marks(Contents(out)) /\ Led(Contents(out))
  BY SoundStep DEF MarksKept
<1>2. /\ Stream \in Seq(Byte) /\ Contents(in) \in Seq(Byte) /\ wire \in Seq(Byte)
      /\ Contents(out) \in Seq(Byte) /\ Len(Contents(out)) = readAble(out)
      /\ readAble(out) \in Nat
  BY StreamType, ContentsType DEF StreamTypeOK
<1>3. ASSUME NEW m \in Replies, Reply(m)
      PROVE  Marks(Stream)' /\ Marks(Contents(out))' /\ Led(Contents(out))'
  <2> DEFINE e == encodeTinyPB(m)
             c == Contents(out)
             n == Len(given)
  <2>1. /\ Contents(out)' = c \o e /\ Stream' = Stream
        /\ given' = Append(given, WithMsgId(m))
    BY <1>3, ReplyEffect
  <2>2. Clean(WithMsgId(m))
    <3>1. n \in Nat /\ given \in Seq(M)
      BY DEF StreamTypeOK, M
    <3>2. n + 1 \in DOMAIN given' /\ given'[n + 1] = WithMsgId(m)
      BY <2>1, <3>1
    <3> QED
      BY <3>2, Zenon DEF Exposed
  <2>3. Sound(WithMsgId(m)) /\ encodeTinyPB(WithMsgId(m)) = e
    BY NamedIsSound
  <2>4. Marks(e) /\ Led(e) /\ e \in Seq(Byte) /\ Len(e) > 0
    BY <2>2, <2>3, CleanIsMarked, ReplyAssumption, EncodeType
  <2> HIDE DEF e, c
  <2>5. Marks(c \o e)
    BY <1>1, <1>2, <2>4, MarksJoined DEF c
  <2>6. Led(c \o e)
    <3> DEFINE z == c \o e
               k == Len(c)
               l == Len(e)
    <3>1. c \in Seq(Byte)
      BY <1>2 DEF c
    <3>2. /\ \A i \in 1 .. k : z[i] = c[i]
          /\ \A i \in 1 .. l : z[k + i] = e[i]
      BY <2>4, <3>1, Join
    <3>3. k \in Nat /\ l \in Nat /\ l > 0
      BY <2>4, <3>1
    <3>4. (k > 0 => c[1] = PB_START) /\ e[1] = PB_START
      BY <1>1, <2>4 DEF Led, c
    <3> HIDE DEF z, k, l
    <3>5. CASE k > 0
      BY <3>2, <3>3, <3>4, <3>5 DEF Led, z
    <3>6. CASE k = 0
      <4>1. k + 1 = 1 /\ 1 \in 1 .. l
        BY <3>3, <3>6
      <4> QED
        BY <3>2, <3>4, <4>1 DEF Led, z
    <3> QED
      BY <3>3, <3>5, <3>6
  <2> QED
    BY <1>1, <2>1, <2>5, <2>6
<1>4. ASSUME out' = out, Marks(Stream)'
      PROVE  Marks(Stream)' /\ Marks(Contents(out))' /\ Led(Contents(out))'
  BY <1>1, <1>4
<1>5. ASSUME Stream' = Stream PROVE Marks(Stream)'
  BY <1>1, <1>5
<1>6. ASSUME NEW m \in Replies, ReplyOverruns(m) PROVE out' = out /\ Marks(Stream)'
  BY <1>5, <1>6 DEF ReplyOverruns, Stream, server, client
<1>7. CASE WriteAll \/ WritePart
  <2>1. PICK n \in 0 .. readAble(out) : Write(n)
    <3>1. CASE WriteAll
      <4>1. readAble(out) \in 0 .. readAble(out)
        BY <1>2
      <4> QED
        BY <3>1, <4>1 DEF WriteAll
    <3>2. CASE WritePart
      <4>1. PICK n \in Parts : n < readAble(out) /\ Write(n)
        BY <3>2 DEF WritePart
      <4>2. n \in 0 .. readAble(out)
        BY <1>2, <4>1, PartAssumption
      <4> QED
        BY <4>1, <4>2
    <3> QED
      BY <1>7, <3>1, <3>2
  <2> DEFINE p == SubSeq(Contents(out), 1, n)
  <2>2. Stream' = Stream \o p /\ out' = out
    BY <2>1, WriteEffect DEF Write
  <2>3. p \in Seq(Byte) /\ Len(p) = n /\ \A k \in 1 .. n : p[k] = Contents(out)[k]
    BY <1>2, <2>1, TakenIs
  <2>4. Marks(p)
    BY <1>1, <1>2, <2>1, MarksTaken
  <2>5. Led(p)
    BY <1>1, <1>2, <2>1, <2>3 DEF Led
  <2> HIDE DEF p
  <2>6. Marks(Stream \o p)
    BY <1>1, <1>2, <2>3, <2>4, <2>5, MarksJoined
  <2> QED
    BY <1>4, <2>2, <2>6
<1>8. CASE Read
  <2>1. PICK n \in Nat : ReadOf(n)
    <3>1. PICK n \in Segments \cup {Len(wire)} : ReadOf(n)
      BY <1>8 DEF Read
    <3>2. n \in Nat
      BY <3>1 DEF ReadOf
    <3> QED
      BY <3>1, <3>2
  <2>2. ~refused'
    BY Zenon DEF Exposed
  <2>3. Stream' = Stream /\ out' = out
    BY <2>1, <2>2, ReadEffect DEF ReadOf, server
  <2> QED
    BY <1>4, <1>5, <2>3
<1>9. CASE ReadNothing
  <2>1. in' = in /\ wire' = wire /\ out' = out
    BY <1>9, RoomIsIn DEF ReadNothing, server
  <2>2. Stream' = Stream
    BY <2>1 DEF Stream
  <2> QED
    BY <1>4, <1>5, <2>1, <2>2
<1>10. ASSUME NEW wild \in Wild, Decode(wild) PROVE out' = out /\ Marks(Stream)'
  <2> DEFINE size == LengthAt(in, FirstPacket(in, wild), wild)
  <2>1. ~HeaderCut(in)
    <3>1. split' = (split \/ HeaderCut(in)) /\ ~split'
      BY <1>10, Zenon DEF Decode, Exposed
    <3> QED
      BY <3>1, Zenon
  <2>2. pc = "decode" /\ Packets(in, wild) # {} /\ out' = out
    BY <1>10 DEF Decode, server
  <2>3. size \in 1 .. readAble(in)
    <3>1. DecodeAdvances
      BY AdvanceFollows
    <3> QED
      BY <1>1, <2>1, <2>2, <3>1 DEF DecodeAdvances
  <2> HIDE DEF size
  <2>4. readAble(in) \in Nat
    BY ContentsType DEF StreamTypeOK
  <2>5. size \in 0 .. readAble(in)
    BY <2>3, <2>4
  <2>6. Stream' = Dropped(Stream, size) /\ size \in 0 .. Len(Stream)
    BY <1>10, <2>5, DecodeEffect DEF size
  <2>7. Marks(Dropped(Stream, size))
    BY <1>1, <1>2, <2>6, MarksDropped
  <2> QED
    BY <2>2, <2>6, <2>7
<1>11. ASSUME NEW wild \in Wild, DecodeEnds(wild) PROVE out' = out /\ Marks(Stream)'
  BY <1>5, <1>11 DEF DecodeEnds, Stream, server
<1>12. CASE UNCHANGED streamVars
  <2>1. out' = out /\ Stream' = Stream
    BY <1>12 DEF streamVars, Stream
  <2> QED
    BY <1>4, <1>5, <2>1
<1> QED
  BY <1>3, <1>4, <1>6, <1>7, <1>8, <1>9, <1>10, <1>11, <1>12 DEF StreamNext, Server, Client

\* The inductive invariant behind DecodeAdvances
Steady == StreamTypeOK /\ GivenSound /\ MarksKept

LEMMA InitSteady ==
  ASSUME StreamInit
  PROVE  Steady
<1>1. StreamTypeOK
  BY InitTypes
<1>2. given = <<>> /\ Contents(in) = <<>> /\ Contents(out) = <<>> /\ wire = <<>>
  BY NewBufferIs, BufferAssumption DEF StreamInit
<1>3. Stream = <<>>
  BY <1>2 DEF Stream
<1>4. Marks(<<>>) /\ Led(<<>>)
  BY DEF Marks, Led
<1> QED
  BY <1>1, <1>2, <1>3, <1>4 DEF Steady, GivenSound, MarksKept

LEMMA SteadyAlways == StreamSpec => []Steady
<1>1. StreamInit => Steady
  BY InitSteady
<1>2. Steady /\ [StreamNext]_streamVars => Steady'
  BY StepTypes, SoundStep, MarksStep DEF Steady
<1> QED
  BY <1>1, <1>2, PTL DEF StreamSpec

\* For every size of the buffers, all replies and all segments: every packet that
\* TinyPBCoder::decode finds has a positive length and lies in what the buffer holds, so
\* its outer loop ends, unless a read filled the buffer exactly, a length was cut, a packet
\* was parsed past the buffer's end, or a message holds a mark.
THEOREM DecodeReturns == StreamSpec => []DecodeAdvances
<1>1. Steady => DecodeAdvances
  BY AdvanceFollows DEF Steady
<1> QED
  BY <1>1, SteadyAlways, PTL

\* What ByteQueue promises of m_in_buffer, as long as nothing spoils the connection
InKeepsQueue ==
  /\ Contents(in) = <<>>
  /\ [][~Exposed' => InQueue!Next \/ Contents(in)' = Contents(in)]_streamVars

LEMMA InStep ==
  ASSUME Steady, [StreamNext]_streamVars, ~Exposed'
  PROVE  InQueue!Next \/ Contents(in)' = Contents(in)
<1>1. StreamTypeOK /\ MarksKept /\ ~Exposed
  BY SoundStep DEF Steady
<1>2. ASSUME in' = in PROVE Contents(in)' = Contents(in)
  BY <1>2
<1>3. ASSUME NEW n \in Nat, ReadOf(n) PROVE InQueue!Next
  <2>1. ~refused'
    BY Zenon DEF Exposed
  <2> QED
    BY <1>1, <1>3, <2>1, ReadEffect DEF InQueue!Next
<1>4. ASSUME NEW wild \in Wild, Decode(wild) PROVE InQueue!Next
  <2> DEFINE c == Contents(in)
  <2>1. ~HeaderCut(in)
    <3>1. split' = (split \/ HeaderCut(in)) /\ ~split'
      BY <1>4, Zenon DEF Decode, Exposed
    <3> QED
      BY <3>1, Zenon
  <2>2. Packets(in, wild) # {} /\ pc = "decode"
    BY <1>4 DEF Decode
  <2>3. PICK size : size = LengthAt(in, FirstPacket(in, wild), wild)
    OBVIOUS
  <2>4. size \in 1 .. readAble(in)
    BY <1>1, <2>1, <2>2, <2>3, AdvanceFollows DEF DecodeAdvances
  <2>5. c \in Seq(Byte) /\ Len(c) = readAble(in) /\ readAble(in) \in Nat
    BY <1>1, ContentsType DEF StreamTypeOK
  <2>6. Contents(in)' = Dropped(c, size) /\ size \in 0 .. Len(c)
    BY <1>1, <1>4, <2>3, <2>4, <2>5, DecodeEffect
  <2> HIDE DEF c
  <2>7. Len(Dropped(c, size)) = Len(c) - size
    BY <2>5, <2>6, DroppedIs
  <2>8. Len(c) - Len(Contents(in)') = size /\ size > 0
    BY <2>4, <2>5, <2>6, <2>7
  <2>9. Contents(in)' = SubSeq(c, size + 1, Len(c))
    BY <2>6 DEF Dropped
  <2>10. InQueue!Get
    BY <2>8, <2>9 DEF InQueue!Get, c
  <2> QED
    BY <2>10 DEF InQueue!Next
<1>5. ASSUME NEW n, ReadOf(n) PROVE n \in Nat
  BY <1>5 DEF ReadOf
<1>6. CASE ReadNothing
  BY <1>1, <1>2, <1>6, RoomIsIn DEF ReadNothing
<1> QED
  BY <1>2, <1>3, <1>4, <1>5, <1>6 DEF StreamNext, Server, Client, Reply, ReplyOverruns, WriteAll,
     WritePart, Write, Read, DecodeEnds, client, streamVars

\* m_in_buffer is a queue of bytes too, for every size of the buffers, all replies and all
\* segments: onRead appends what it read, decode takes whole packets from the front, and
\* compaction changes nothing. What spoils a connection is excepted: a length that is read
\* where none stands can be negative, and then moveReadIndex gives bytes back.
THEOREM InIsAQueue == StreamSpec => InKeepsQueue
<1>1. StreamInit => Contents(in) = <<>>
  BY NewBufferIs, BufferAssumption DEF StreamInit
<1>2. Steady /\ [StreamNext]_streamVars
        => [~Exposed' => InQueue!Next \/ Contents(in)' = Contents(in)]_streamVars
  BY InStep
<1> QED
  BY <1>1, <1>2, SteadyAlways, PTL DEF StreamSpec, InKeepsQueue

-----------------------------------------------------------------------------
(* Packets one after the other *)

P(msgs, k) == encodeTinyPB(msgs[k])

\* The bytes are those of the messages, one packet after the other: cut[k] is where the
\* packet of the k-th ends.
Cuts(bs, msgs, cut) ==
  LET n == Len(msgs) IN
  /\ cut \in [0 .. n -> Nat] /\ cut[0] = 0 /\ cut[n] = Len(bs)
  /\ \A k, l \in 0 .. n : k <= l => cut[k] <= cut[l]
  /\ \A k \in 1 .. n : /\ cut[k] = cut[k - 1] + Len(P(msgs, k))
                       /\ Holds(bs, cut[k - 1], P(msgs, k))

Framing(bs, msgs) == \E cut \in [0 .. Len(msgs) -> Nat] : Cuts(bs, msgs, cut)

LEMMA SoundPacket ==
  ASSUME NEW m, Sound(m)
  PROVE  /\ encodeTinyPB(m) \in Seq(Byte) /\ Len(encodeTinyPB(m)) \in Nat
         /\ Len(encodeTinyPB(m)) > 0 /\ Len(encodeTinyPB(m)) = PkLen(m)
<1>1. encodeTinyPB(m) \in Seq(Byte) /\ Len(encodeTinyPB(m)) = PkLen(m)
  BY EncodeLayout DEF Layout
<1>2. PkLen(m) \in Nat /\ PkLen(m) >= 26
  BY SoundLengths
<1> QED
  BY <1>1, <1>2

LEMMA FramingNothing == Framing(<<>>, <<>>)
<1> DEFINE cut == [k \in 0 .. 0 |-> 0]
<1>1. cut \in [0 .. Len(<<>>) -> Nat] /\ cut[0] = 0
  OBVIOUS
<1>2. Cuts(<<>>, <<>>, cut)
  BY <1>1 DEF Cuts
<1> QED
  BY <1>1, <1>2 DEF Framing

LEMMA FramingOne ==
  ASSUME NEW m, Sound(m)
  PROVE  Framing(encodeTinyPB(m), << m >>)
<1> DEFINE e == encodeTinyPB(m)
           l == Len(e)
           cut == [k \in 0 .. 1 |-> IF k = 0 THEN 0 ELSE l]
           msgs == << m >>
<1>1. e \in Seq(Byte) /\ l \in Nat
  BY SoundPacket
<1>2. Len(msgs) = 1 /\ msgs[1] = m
  OBVIOUS
<1>3. cut \in [0 .. 1 -> Nat] /\ cut[0] = 0 /\ cut[1] = l
  BY <1>1
<1>4. Holds(e, 0, e)
  BY <1>1 DEF Holds
<1> HIDE DEF e, cut, msgs, l
<1>5. \A k, i \in 0 .. 1 : k <= i => cut[k] <= cut[i]
  BY <1>1, <1>3
<1>6. P(msgs, 1) = e
  BY <1>2 DEF P, e
<1>7. \A k \in 1 .. 1 : cut[k] = cut[k - 1] + Len(P(msgs, k))
                        /\ Holds(e, cut[k - 1], P(msgs, k))
  <2>1. cut[1] = cut[0] + Len(P(msgs, 1)) /\ Holds(e, cut[0], P(msgs, 1))
    BY <1>1, <1>3, <1>4, <1>6 DEF l
  <2>2. 1 - 1 = 0 /\ \A k \in 1 .. 1 : k = 1
    OBVIOUS
  <2> QED
    BY <2>1, <2>2
<1>8. Cuts(e, msgs, cut)
  BY <1>2, <1>3, <1>5, <1>7 DEF Cuts, l
<1> QED
  BY <1>2, <1>3, <1>8 DEF Framing, e, msgs

LEMMA HoldsJoined ==
  ASSUME NEW s \in Seq(Byte), NEW t \in Seq(Byte), NEW u \in Seq(Byte), NEW p \in Nat
  PROVE  /\ Holds(s, p, u) /\ p + Len(u) <= Len(s) => Holds(s \o t, p, u)
         /\ Holds(t, p, u) /\ p + Len(u) <= Len(t) => Holds(s \o t, Len(s) + p, u)
<1> DEFINE z == s \o t
           m == Len(s)
           n == Len(t)
           l == Len(u)
<1>1. /\ \A k \in 1 .. m : z[k] = s[k]
      /\ \A k \in 1 .. n : z[m + k] = t[k]
  BY Join
<1>2. m \in Nat /\ n \in Nat /\ l \in Nat
  OBVIOUS
<1> HIDE DEF z, m, n, l
<1>3. ASSUME Holds(s, p, u), p + l <= m, NEW k \in 1 .. l PROVE z[p + k] = u[k]
  <2>1. p + k \in 1 .. m
    BY <1>2, <1>3
  <2> QED
    BY <1>1, <1>3, <2>1 DEF Holds, l
<1>4. ASSUME Holds(t, p, u), p + l <= n, NEW k \in 1 .. l PROVE z[(m + p) + k] = u[k]
  <2>1. p + k \in 1 .. n /\ m + (p + k) = (m + p) + k
    BY <1>2, <1>4
  <2> QED
    BY <1>1, <1>4, <2>1 DEF Holds, l
<1> QED
  BY <1>3, <1>4 DEF Holds, z, m, n, l

LEMMA HoldsDropped ==
  ASSUME NEW s \in Seq(Byte), NEW u \in Seq(Byte), NEW d \in 0 .. Len(s), NEW p \in Nat,
         Holds(s, d + p, u), d + p + Len(u) <= Len(s)
  PROVE  Holds(Dropped(s, d), p, u)
<1> DEFINE m == Len(s)
           l == Len(u)
           z == Dropped(s, d)
<1>1. m \in Nat /\ l \in Nat /\ d \in 0 .. m
  OBVIOUS
<1>2. \A k \in 1 .. m - d : z[k] = s[d + k]
  BY DroppedIs
<1> HIDE DEF m, l, z
<1>3. ASSUME NEW k \in 1 .. l PROVE z[p + k] = u[k]
  <2>1. p + k \in 1 .. m - d /\ d + (p + k) = (d + p) + k
    BY <1>1 DEF m, l
  <2> QED
    BY <1>2, <2>1 DEF Holds, l
<1> QED
  BY <1>3 DEF Holds, z, l

\* A sequence of sound messages
AllSound(msgs) == msgs \in Seq(M) /\ \A k \in 1 .. Len(msgs) : Sound(msgs[k])

LEMMA FramingJoined ==
  ASSUME NEW s \in Seq(Byte), NEW t \in Seq(Byte), NEW ms, NEW mt, AllSound(ms), AllSound(mt),
         Framing(s, ms), Framing(t, mt)
  PROVE  Framing(s \o t, ms \o mt)
<1> DEFINE m == Len(ms)
           n == Len(mt)
           mm == ms \o mt
           z == s \o t
<1>1. m \in Nat /\ n \in Nat
  BY DEF AllSound
<1>2. /\ Len(mm) = m + n
      /\ \A k \in 1 .. m : mm[k] = ms[k]
      /\ \A k \in 1 .. n : mm[m + k] = mt[k]
  BY DEF AllSound
<1>3. PICK cs \in [0 .. m -> Nat] : Cuts(s, ms, cs)
  BY DEF Framing
<1>4. PICK ct \in [0 .. n -> Nat] : Cuts(t, mt, ct)
  BY DEF Framing
<1>5. Len(z) = Len(s) + Len(t) /\ Len(s) \in Nat /\ Len(t) \in Nat
  BY Join
<1> HIDE DEF m, n, mm, z
<1>6. /\ cs[0] = 0 /\ cs[m] = Len(s)
      /\ \A k, l \in 0 .. m : k <= l => cs[k] <= cs[l]
      /\ \A k \in 1 .. m : /\ cs[k] = cs[k - 1] + Len(P(ms, k))
                           /\ Holds(s, cs[k - 1], P(ms, k))
  BY <1>3 DEF Cuts, m
<1>7. /\ ct[0] = 0 /\ ct[n] = Len(t)
      /\ \A k, l \in 0 .. n : k <= l => ct[k] <= ct[l]
      /\ \A k \in 1 .. n : /\ ct[k] = ct[k - 1] + Len(P(mt, k))
                           /\ Holds(t, ct[k - 1], P(mt, k))
  BY <1>4 DEF Cuts, n
<1> DEFINE a == Len(s)
           cut == [k \in 0 .. m + n |-> IF k <= m THEN cs[k] ELSE a + ct[k - m]]
<1>8. a \in Nat
  BY <1>5
<1>9. /\ \A k \in 0 .. m : cs[k] \in Nat
      /\ \A k \in 0 .. n : ct[k] \in Nat
  BY <1>3, <1>4
<1>10. /\ \A k \in 0 .. m : cut[k] = cs[k]
       /\ \A k \in 0 .. n : cut[m + k] = a + ct[k]
  <2> HIDE DEF a
  <2>1. ASSUME NEW k \in 0 .. m PROVE cut[k] = cs[k]
    BY <1>1
  <2>2. ASSUME NEW k \in 0 .. n PROVE cut[m + k] = a + ct[k]
    <3>1. CASE k = 0
      <4>1. cut[m] = cs[m] /\ m + k = m
        BY <1>1, <3>1
      <4> QED
        BY <1>6, <1>7, <1>8, <3>1, <4>1 DEF a
    <3>2. CASE k # 0
      <4>1. m + k \in 0 .. m + n /\ ~(m + k <= m) /\ (m + k) - m = k
        BY <1>1, <3>2
      <4> QED
        BY <4>1
    <3> QED
      BY <3>1, <3>2
  <2> QED
    BY <2>1, <2>2
<1>11. cut \in [0 .. m + n -> Nat]
  <2> HIDE DEF a
  <2> SUFFICES ASSUME NEW k \in 0 .. m + n
               PROVE  (IF k <= m THEN cs[k] ELSE a + ct[k - m]) \in Nat
    OBVIOUS
  <2>1. CASE k <= m
    <3>1. k \in 0 .. m
      BY <1>1, <2>1
    <3> QED
      BY <1>9, <2>1, <3>1
  <2>2. CASE ~(k <= m)
    <3>1. k - m \in 0 .. n
      BY <1>1, <2>2
    <3>2. ct[k - m] \in Nat
      BY <1>9, <3>1
    <3>3. a + ct[k - m] \in Nat
      BY <1>8, <3>2
    <3> QED
      BY <2>2, <3>3
  <2> QED
    BY <2>1, <2>2
<1> HIDE DEF a, cut
<1>12. cut[0] = 0 /\ cut[m + n] = Len(z)
  <2>1. 0 \in 0 .. m /\ n \in 0 .. n
    BY <1>1
  <2> QED
    BY <1>5, <1>6, <1>7, <1>10, <2>1 DEF a
<1>13. ASSUME NEW k \in 0 .. m + n, NEW l \in 0 .. m + n, k <= l PROVE cut[k] <= cut[l]
  <2>1. CASE l <= m
    <3>1. k \in 0 .. m /\ l \in 0 .. m
      BY <1>1, <1>13, <2>1
    <3> QED
      BY <1>6, <1>10, <1>13, <3>1
  <2>2. CASE m < l
    <3>1. l - m \in 0 .. n /\ m + (l - m) = l
      BY <1>1, <2>2
    <3>2. cut[l] = a + ct[l - m] /\ ct[l - m] \in Nat
      BY <1>9, <1>10, <3>1
    <3>3. CASE k <= m
      <4>1. k \in 0 .. m /\ m \in 0 .. m
        BY <1>1, <3>3
      <4>2. cs[k] <= a /\ cut[k] = cs[k] /\ cs[k] \in Nat
        BY <1>6, <1>9, <1>10, <3>3, <4>1 DEF a
      <4> QED
        BY <1>8, <3>2, <4>2
    <3>4. CASE m < k
      <4>1. k - m \in 0 .. n /\ m + (k - m) = k /\ k - m <= l - m
        BY <1>1, <1>13, <3>4
      <4>2. cut[k] = a + ct[k - m] /\ ct[k - m] \in Nat /\ ct[k - m] <= ct[l - m]
        BY <1>7, <1>9, <1>10, <3>1, <4>1
      <4> QED
        BY <1>8, <3>2, <4>2
    <3> QED
      BY <1>1, <3>3, <3>4
  <2> QED
    BY <1>1, <2>1, <2>2
<1>14. ASSUME NEW k \in 1 .. m
       PROVE  cut[k] = cut[k - 1] + Len(P(mm, k)) /\ Holds(z, cut[k - 1], P(mm, k))
  <2>1. k \in 0 .. m /\ k - 1 \in 0 .. m
    BY <1>1
  <2>2. P(mm, k) = P(ms, k) /\ cut[k] = cs[k] /\ cut[k - 1] = cs[k - 1]
    BY <1>2, <1>10, <2>1 DEF P
  <2>3. P(ms, k) \in Seq(Byte) /\ cs[k - 1] \in Nat
    BY <1>9, <2>1, SoundPacket DEF P, AllSound, m
  <2>4. cs[k] <= Len(s)
    <3>1. m \in 0 .. m /\ k <= m
      BY <1>1
    <3> QED
      BY <1>6, <2>1, <3>1
  <2>5. cs[k] = cs[k - 1] + Len(P(ms, k)) /\ Holds(s, cs[k - 1], P(ms, k))
    BY <1>6
  <2>6. Holds(z, cs[k - 1], P(ms, k))
    BY <2>3, <2>4, <2>5, HoldsJoined DEF z
  <2> QED
    BY <2>2, <2>5, <2>6
<1>15. ASSUME NEW k \in 1 .. n
       PROVE  /\ cut[m + k] = cut[(m + k) - 1] + Len(P(mm, m + k))
              /\ Holds(z, cut[(m + k) - 1], P(mm, m + k))
  <2>1. k \in 0 .. n /\ k - 1 \in 0 .. n /\ (m + k) - 1 = m + (k - 1)
    BY <1>1
  <2>2. P(mm, m + k) = P(mt, k) /\ cut[m + k] = a + ct[k] /\ cut[(m + k) - 1] = a + ct[k - 1]
    BY <1>2, <1>10, <2>1 DEF P
  <2>3. P(mt, k) \in Seq(Byte) /\ Len(P(mt, k)) \in Nat /\ ct[k - 1] \in Nat
    BY <1>9, <2>1, SoundPacket DEF P, AllSound, n
  <2>4. ct[k] <= Len(t)
    <3>1. n \in 0 .. n /\ k <= n
      BY <1>1
    <3> QED
      BY <1>7, <2>1, <3>1
  <2>5. ct[k] = ct[k - 1] + Len(P(mt, k)) /\ Holds(t, ct[k - 1], P(mt, k))
    BY <1>7
  <2>6. Holds(z, a + ct[k - 1], P(mt, k))
    BY <2>3, <2>4, <2>5, HoldsJoined DEF z, a
  <2>7. a + ct[k] = (a + ct[k - 1]) + Len(P(mt, k))
    BY <1>8, <2>3, <2>5
  <2> QED
    BY <2>2, <2>6, <2>7
<1>16. ASSUME NEW k \in 1 .. m + n
       PROVE  cut[k] = cut[k - 1] + Len(P(mm, k)) /\ Holds(z, cut[k - 1], P(mm, k))
  <2>1. CASE k <= m
    BY <1>1, <1>14, <2>1
  <2>2. CASE m < k
    <3>1. k - m \in 1 .. n /\ m + (k - m) = k
      BY <1>1, <2>2
    <3>2. /\ cut[m + (k - m)] = cut[(m + (k - m)) - 1] + Len(P(mm, m + (k - m)))
          /\ Holds(z, cut[(m + (k - m)) - 1], P(mm, m + (k - m)))
      BY <1>15, <3>1
    <3> QED
      BY <3>1, <3>2
  <2> QED
    BY <1>1, <2>1, <2>2
<1>17. Cuts(z, mm, cut)
  BY <1>2, <1>11, <1>12, <1>13, <1>16 DEF Cuts
<1> QED
  BY <1>2, <1>11, <1>17 DEF Framing, mm, z

\* The first packet stands at the front; behind it stand the others.
LEMMA FramingFirst ==
  ASSUME NEW s \in Seq(Byte), NEW ms, AllSound(ms), Framing(s, ms), Len(ms) > 0,
         NEW l, l = Len(encodeTinyPB(ms[1]))
  PROVE  /\ l \in 1 .. Len(s) /\ Holds(s, 0, encodeTinyPB(ms[1]))
         /\ Framing(Dropped(s, l), SubSeq(ms, 2, Len(ms)))
<1> DEFINE n == Len(ms)
           z == Dropped(s, l)
           mm == SubSeq(ms, 2, n)
           e == encodeTinyPB(ms[1])
<1>1. n \in Nat /\ n > 0 /\ Sound(ms[1]) /\ ms \in Seq(M)
  BY DEF AllSound
<1>2. /\ Len(mm) = n - 1 /\ \A k \in 1 .. n - 1 : mm[k] = ms[k + 1]
  BY <1>1
<1>3. PICK cs \in [0 .. n -> Nat] : Cuts(s, ms, cs)
  BY DEF Framing
<1>4. Len(s) \in Nat
  OBVIOUS
<1> HIDE DEF n, z, mm, e
<1>5. /\ cs[0] = 0 /\ cs[n] = Len(s)
      /\ \A k, i \in 0 .. n : k <= i => cs[k] <= cs[i]
      /\ \A k \in 1 .. n : /\ cs[k] = cs[k - 1] + Len(P(ms, k))
                           /\ Holds(s, cs[k - 1], P(ms, k))
  BY <1>3 DEF Cuts, n
<1>6. P(ms, 1) = e /\ l = Len(e) /\ l \in Nat /\ l > 0
  BY <1>1, SoundPacket DEF P, e
<1>7. cs[1] = l /\ Holds(s, 0, e)
  <2>1. 1 \in 1 .. n /\ 1 - 1 = 0 /\ 0 + l = l
    BY <1>1, <1>6
  <2> QED
    BY <1>5, <1>6, <2>1
<1>8. \A k \in 0 .. n : cs[k] \in Nat
  BY <1>3
<1>9. \A k \in 0 .. n - 1 : k + 1 \in 0 .. n /\ l <= cs[k + 1] /\ cs[k + 1] <= Len(s)
  <2> TAKE k \in 0 .. n - 1
  <2>1. k + 1 \in 0 .. n /\ 1 \in 0 .. n /\ n \in 0 .. n /\ 1 <= k + 1 /\ k + 1 <= n
    BY <1>1
  <2> QED
    BY <1>5, <1>7, <2>1
<1>10. l \in 1 .. Len(s) /\ l \in 0 .. Len(s)
  <2>1. 0 \in 0 .. n - 1 /\ 0 + 1 = 1
    BY <1>1
  <2>2. l <= Len(s)
    BY <1>7, <1>9, <2>1
  <2> QED
    BY <1>4, <1>6, <2>2
<1>11. Len(z) = Len(s) - l
  BY <1>10, DroppedIs DEF z
<1> DEFINE cut == [k \in 0 .. n - 1 |-> cs[k + 1] - l]
<1>12. \A k \in 0 .. n - 1 : cut[k] = cs[k + 1] - l /\ cut[k] \in Nat
  BY <1>6, <1>8, <1>9
<1>13. cut \in [0 .. n - 1 -> Nat]
  BY <1>6, <1>8, <1>9
<1> HIDE DEF cut
<1>14. cut[0] = 0 /\ cut[n - 1] = Len(z)
  <2>1. 0 \in 0 .. n - 1 /\ n - 1 \in 0 .. n - 1 /\ (n - 1) + 1 = n /\ 0 + 1 = 1 /\ l - l = 0
    BY <1>1, <1>6
  <2> QED
    BY <1>5, <1>7, <1>11, <1>12, <2>1
<1>15. ASSUME NEW k \in 0 .. n - 1, NEW i \in 0 .. n - 1, k <= i PROVE cut[k] <= cut[i]
  <2>1. k + 1 \in 0 .. n /\ i + 1 \in 0 .. n /\ k + 1 <= i + 1
    BY <1>1, <1>15
  <2>2. cs[k + 1] <= cs[i + 1] /\ cs[k + 1] \in Nat /\ cs[i + 1] \in Nat
    BY <1>5, <1>8, <2>1
  <2> QED
    BY <1>6, <1>12, <2>2
<1>16. ASSUME NEW k \in 1 .. n - 1
       PROVE  cut[k] = cut[k - 1] + Len(P(mm, k)) /\ Holds(z, cut[k - 1], P(mm, k))
  <2>1. /\ k \in 0 .. n - 1 /\ k - 1 \in 0 .. n - 1 /\ k + 1 \in 1 .. n /\ k + 1 \in 0 .. n
        /\ k \in 0 .. n /\ (k + 1) - 1 = k /\ (k - 1) + 1 = k
    BY <1>1
  <2>2. P(mm, k) = P(ms, k + 1)
    BY <1>2 DEF P
  <2> DEFINE q == P(ms, k + 1)
  <2>3. q \in Seq(Byte) /\ Len(q) \in Nat
    BY <2>1, SoundPacket DEF P, AllSound, n
  <2>4. cs[k + 1] = cs[k] + Len(q) /\ Holds(s, cs[k], q) /\ cs[k + 1] <= Len(s)
    BY <1>5, <1>9, <2>1
  <2>5. cut[k] = cs[k + 1] - l /\ cut[k - 1] = cs[k] - l /\ cut[k - 1] \in Nat
    BY <1>12, <2>1
  <2>6. cs[k] \in Nat /\ cs[k + 1] \in Nat
    BY <1>8, <2>1
  <2> HIDE DEF q
  <2>7. l + cut[k - 1] = cs[k] /\ cut[k] = cut[k - 1] + Len(q)
    BY <1>6, <2>3, <2>4, <2>5, <2>6
  <2>8. Holds(s, l + cut[k - 1], q) /\ l + cut[k - 1] + Len(q) <= Len(s)
    BY <2>4, <2>7
  <2>9. Holds(z, cut[k - 1], q)
    BY <1>10, <2>3, <2>5, <2>8, HoldsDropped DEF z
  <2> QED
    BY <2>2, <2>7, <2>9 DEF q
<1>17. Cuts(z, mm, cut)
  BY <1>2, <1>13, <1>14, <1>15, <1>16 DEF Cuts
<1>18. Framing(z, mm)
  BY <1>2, <1>13, <1>17 DEF Framing
<1> QED
  BY <1>7, <1>10, <1>18 DEF z, mm, n, e

LEMMA FramingNone ==
  ASSUME NEW s \in Seq(Byte), Framing(s, <<>>)
  PROVE  s = <<>>
<1>1. PICK cut \in [0 .. Len(<<>>) -> Nat] : Cuts(s, <<>>, cut)
  BY DEF Framing
<1>2. Len(<<>>) = 0
  OBVIOUS
<1>3. Len(s) = 0
  BY <1>1, <1>2 DEF Cuts
<1> QED
  BY <1>3

-----------------------------------------------------------------------------
(* The bytes on their way are those of the packets not decoded yet *)

(* What was written and is not decoded. *)
Pending == Dropped(written, Len(decoded))

\* The one leads the other.
Leads(d, w) == Len(d) <= Len(w) /\ \A k \in 1 .. Len(d) : d[k] = w[k]

\* A message that was written is one that was given.
WrittenGiven ==
  \A k \in 1 .. Len(written) : \E j \in 1 .. Len(given) : written[k] = given[j]

(* The bytes on their way are the packets of the messages that were written and are not
   decoded, and the client only rests when the first of them is not all there. *)
InOrder ==
  ~Exposed /\ ~torn =>
    /\ Leads(decoded, written)
    /\ Framing(Stream, Pending)
    /\ pc = "idle" /\ Len(Pending) > 0 =>
         Len(encodeTinyPB(Pending[1])) > Len(Contents(in))

\* The buffer of the replies holds their packets: onWrite takes nothing out of it.
OutFramed == Framing(Contents(out), given)

\* The inductive invariant behind FramesExact
FrameInv == Steady /\ OutFramed /\ WrittenGiven /\ InOrder

LEMMA LeadsIsPrefix ==
  ASSUME NEW S, NEW d \in Seq(S), NEW w \in Seq(S), Leads(d, w)
  PROVE  IsPrefix(d, w) /\ (Len(d) = Len(w) => d = w)
<1> DEFINE n == Len(d)
           a == SubSeq(d, 1, n)
           b == SubSeq(w, 1, n)
<1>1. n \in Nat /\ n <= Len(w) /\ Len(w) \in Nat /\ \A k \in 1 .. n : d[k] = w[k]
  BY DEF Leads
<1>2. /\ a \in Seq(S) /\ Len(a) = n /\ b \in Seq(S) /\ Len(b) = n
      /\ \A k \in 1 .. n : a[k] = d[k] /\ b[k] = w[k]
  BY <1>1
<1> HIDE DEF n, a, b
<1>3. a = b
  BY <1>1, <1>2, SameSequence
<1>4. IsPrefix(d, w)
  BY <1>1, <1>3 DEF IsPrefix, n, a, b
<1>5. ASSUME Len(d) = Len(w) PROVE d = w
  BY <1>1, <1>5, SameSequence DEF n
<1> QED
  BY <1>4, <1>5

LEMMA PendingIs ==
  ASSUME StreamTypeOK, Leads(decoded, written)
  PROVE  /\ Pending \in Seq(M) /\ Len(Pending) = Len(written) - Len(decoded)
         /\ Len(decoded) \in 0 .. Len(written) /\ Len(written) \in Nat
         /\ \A k \in 1 .. Len(written) - Len(decoded) : Pending[k] = written[Len(decoded) + k]
<1>1. decoded \in Seq(M) /\ written \in Seq(M)
  BY DEF StreamTypeOK, M
<1>2. Len(decoded) \in 0 .. Len(written)
  BY <1>1 DEF Leads
<1> QED
  BY <1>1, <1>2, DroppedIs DEF Pending

LEMMA PendingSound ==
  ASSUME FrameInv, ~Exposed, ~torn
  PROVE  AllSound(Pending) /\ \A k \in 1 .. Len(Pending) : Clean(Pending[k])
<1>1. /\ Pending \in Seq(M) /\ Len(Pending) = Len(written) - Len(decoded)
      /\ Len(decoded) \in 0 .. Len(written) /\ Len(written) \in Nat
      /\ \A k \in 1 .. Len(written) - Len(decoded) : Pending[k] = written[Len(decoded) + k]
  BY PendingIs DEF FrameInv, Steady, InOrder
<1>2. given \in Seq(M)
  BY DEF FrameInv, Steady, StreamTypeOK, M
<1>3. ASSUME NEW k \in 1 .. Len(Pending) PROVE Sound(Pending[k]) /\ Clean(Pending[k])
  <2>1. Len(decoded) + k \in 1 .. Len(written) /\ Pending[k] = written[Len(decoded) + k]
    BY <1>1
  <2>2. PICK j \in 1 .. Len(given) : Pending[k] = given[j]
    BY <2>1 DEF FrameInv, WrittenGiven
  <2>3. Sound(given[j])
    BY DEF FrameInv, Steady, GivenSound
  <2>4. Clean(given[j])
    <3>1. j \in DOMAIN given
      BY <1>2
    <3> QED
      BY <3>1, Zenon DEF Exposed
  <2> QED
    BY <2>2, <2>3, <2>4
<1> QED
  BY <1>1, <1>3 DEF AllSound

(* The first packet of what is on its way: decode finds it, and first, as soon as it is all
   there, and finds no packet before that. *)
LEMMA FirstIsWhole ==
  ASSUME StreamTypeOK, NEW wild \in Wild, NEW m, Sound(m), Clean(m),
         NEW e, e = encodeTinyPB(m), Holds(Stream, 0, e), Len(e) <= Len(Stream)
  PROVE  /\ Len(e) <= readAble(in) =>
              /\ Packets(in, wild) # {}
              /\ FirstPacket(in, wild) = in.m_read_index
              /\ LengthAt(in, in.m_read_index, wild) = Len(e)
              /\ Holds(Contents(in), 0, e)
         /\ Packets(in, wild) # {} /\ ~HeaderCut(in) => Len(e) <= readAble(in)
<1> DEFINE r == in.m_read_index
           w == in.m_write_index
           c == Contents(in)
           l == PkLen(m)
           i == FirstPacket(in, wild)
<1>1. /\ IsBuffer(in) /\ r \in Nat /\ w \in Nat /\ w <= in.m_size /\ in.m_size \in Nat
      /\ readAble(in) = w - r /\ readAble(in) \in Nat
      /\ c \in Seq(Byte) /\ Len(c) = readAble(in) /\ wire \in Seq(Byte)
      /\ \A k \in 1 .. readAble(in) : c[k] = in.m_buffer[r + k]
  BY ContentsType DEF StreamTypeOK
<1>2. /\ Layout(e, m) /\ e \in Seq(Byte) /\ Len(e) = l /\ l \in Nat /\ l >= 26 /\ l \in Int32s
      /\ Holds(e, 1, NetInt(l))
  BY EncodeLayout, SoundLengths DEF Layout, Sound
<1>3. \A k \in 2 .. l - 1 : e[k] # PB_START
  BY <1>2 DEF Clean
<1>4. \A k \in 1 .. readAble(in) : Stream[k] = c[k]
  BY <1>1, Join DEF Stream
<1>5. \A k \in 1 .. l : Stream[k] = e[k]
  <2>1. \A k \in 1 .. l : Stream[0 + k] = e[k] /\ 0 + k = k
    BY <1>2 DEF Holds
  <2> QED
    BY <2>1
<1> HIDE DEF r, w, c, l, i
<1>6. ASSUME l <= readAble(in)
      PROVE  Packets(in, wild) # {} /\ i = r /\ LengthAt(in, r, wild) = l /\ Holds(c, 0, e)
  <2>1. Holds(c, 0, e)
    <3>1. ASSUME NEW k \in 1 .. l PROVE c[0 + k] = e[k]
      <4>1. k \in 1 .. readAble(in) /\ 0 + k = k
        BY <1>1, <1>2, <1>6
      <4> QED
        BY <1>4, <1>5, <4>1
    <3> QED
      BY <1>2, <3>1 DEF Holds
  <2>2. LengthAt(in, r, wild) = l /\ PacketAt(in, r, wild)
    BY <1>1, <1>2, <1>6, <2>1, EncodedIsPacket DEF r, c, l
  <2>3. r \in r .. w - 1
    BY <1>1, <1>2, <1>6
  <2>4. r \in Packets(in, wild)
    BY <2>2, <2>3 DEF Packets, r, w
  <2>5. i <= r /\ i \in r .. w - 1
    BY <1>1, <2>4, FirstPacketIs DEF i, r, w
  <2>6. i = r
    BY <1>1, <2>5
  <2> QED
    BY <2>1, <2>2, <2>4, <2>6
<1>7. ASSUME Packets(in, wild) # {}, ~HeaderCut(in), readAble(in) < l
      PROVE  FALSE
  <2>1. i \in r .. w - 1 /\ PacketAt(in, i, wild)
    BY <1>1, <1>7, FirstPacketIs DEF i, r, w
  <2>2. i - r + 1 \in 1 .. readAble(in) /\ i = r + (i - r + 1) - 1 /\ i \in Nat
    BY <1>1, <2>1
  <2> DEFINE k == i - r + 1
  <2>3. At(in, i, wild) = c[k]
    <3>1. k \in 1 .. readAble(in) /\ i = r + k - 1
      BY <2>2
    <3> HIDE DEF k
    <3> QED
      BY <1>1, <3>1, ContentsAt DEF r, c
  <2>4. e[k] = PB_START
    <3>1. k \in 1 .. readAble(in) /\ k \in 1 .. l
      BY <1>1, <1>2, <1>7, <2>2
    <3> HIDE DEF k
    <3> QED
      BY <1>4, <1>5, <2>1, <2>3, <3>1 DEF PacketAt
  <2>5. i = r
    <3>1. ~(k \in 2 .. l - 1)
      BY <1>3, <2>4
    <3> QED
      BY <1>1, <1>2, <1>7, <2>2, <3>1
  <2>6. r + 4 < w
    <3>1. i \in 0 .. in.m_size - 1
      BY <1>1, <2>1
    <3>2. in.m_buffer[i + 1] = PB_START
      BY <2>1, <3>1 DEF PacketAt, At
    <3> QED
      BY <1>1, <1>7, <2>1, <2>5, <3>2 DEF HeaderCut, r, w
  <2>7. Holds(c, 1, NetInt(l))
    <3>1. l \in Int
      BY <1>2
    <3>2. Len(NetInt(l)) = 4
      BY <3>1, NetIntType
    <3>3. ASSUME NEW j \in 1 .. 4 PROVE c[1 + j] = NetInt(l)[j]
      <4>1. 1 + j \in 1 .. readAble(in) /\ 1 + j \in 1 .. l
        BY <1>1, <1>2, <2>6
      <4>2. e[1 + j] = NetInt(l)[j]
        BY <1>2, <3>2 DEF Holds
      <4> QED
        BY <1>4, <1>5, <4>1, <4>2
    <3> QED
      BY <3>2, <3>3 DEF Holds
  <2>8. LengthAt(in, r, wild) = l
    <3>1. 1 + 4 <= readAble(in) /\ r + 1 = in.m_read_index + 1
      BY <1>1, <2>6 DEF r
    <3>2. IsBuffer(in) /\ l \in Int32s /\ Holds(Contents(in), 1, NetInt(l))
      BY <1>1, <1>2, <2>7 DEF c
    <3>3. getInt32FromNetByte(in, r + 1, wild) = l
      BY <3>1, <3>2, ReadsInt
    <3> QED
      BY <3>3 DEF LengthAt
  <2>9. l <= w - i
    BY <2>1, <2>5, <2>8 DEF PacketAt, w
  <2> QED
    BY <1>1, <1>2, <1>7, <2>5, <2>9
<1>8. Packets(in, wild) # {} /\ ~HeaderCut(in) => l <= readAble(in)
  BY <1>1, <1>2, <1>7
<1> QED
  BY <1>2, <1>6, <1>8 DEF r, c, l, i

LEMMA OutStep ==
  ASSUME StreamTypeOK, GivenSound, OutFramed, WrittenGiven, [StreamNext]_streamVars
  PROVE  OutFramed' /\ WrittenGiven'
<1> DEFINE n == Len(given)
<1>1. given \in Seq(M) /\ written \in Seq(M) /\ n \in Nat
  BY DEF StreamTypeOK, M
<1>2. ASSUME NEW m \in Replies, Reply(m) PROVE OutFramed' /\ WrittenGiven'
  <2> DEFINE g == WithMsgId(m)
             e == encodeTinyPB(m)
  <2>1. /\ Contents(out)' = Contents(out) \o e /\ given' = Append(given, g)
        /\ written' = written
    BY <1>2, ReplyEffect DEF Reply
  <2>2. Sound(g) /\ encodeTinyPB(g) = e
    BY NamedIsSound
  <2> HIDE DEF g, e
  <2>3. g \in M /\ e \in Seq(Byte)
    BY <2>2, SoundPacket DEF Sound
  <2>4. Framing(e, << g >>)
    BY <2>2, FramingOne
  <2>5. AllSound(given) /\ AllSound(<< g >>)
    <3>1. AllSound(given)
      BY <1>1 DEF AllSound, GivenSound
    <3>2. << g >> \in Seq(M) /\ Len(<< g >>) = 1 /\ << g >>[1] = g
      BY <2>3
    <3>3. \A k \in 1 .. 1 : k = 1
      OBVIOUS
    <3> QED
      BY <2>2, <3>1, <3>2, <3>3 DEF AllSound
  <2>6. Contents(out) \in Seq(Byte)
    BY StreamType
  <2>7. Framing(Contents(out) \o e, given \o << g >>)
    <3> DEFINE one == << g >>
    <3>1. AllSound(one) /\ Framing(e, one)
      BY <2>4, <2>5
    <3> HIDE DEF one
    <3>2. Framing(Contents(out) \o e, given \o one)
      BY <2>3, <2>5, <2>6, <3>1, FramingJoined DEF OutFramed
    <3> QED
      BY <3>2 DEF one
  <2>8. given \o << g >> = given'
    BY <1>1, <2>1, <2>3, AppendIsConcat
  <2>9. OutFramed'
    BY <2>1, <2>7, <2>8 DEF OutFramed
  <2>10. WrittenGiven'
    <3>1. Len(given') = n + 1 /\ \A j \in 1 .. n : given'[j] = given[j]
      BY <1>1, <2>1, <2>3
    <3>2. ASSUME NEW k \in 1 .. Len(written) PROVE \E j \in 1 .. n + 1 : written[k] = given'[j]
      <4>1. PICK j \in 1 .. n : written[k] = given[j]
        BY DEF WrittenGiven
      <4>2. j \in 1 .. n + 1 /\ given'[j] = given[j]
        BY <1>1, <3>1
      <4> QED
        BY <4>1, <4>2
    <3> QED
      BY <2>1, <3>1, <3>2 DEF WrittenGiven
  <2> QED
    BY <2>9, <2>10
<1>3. ASSUME NEW n1, Write(n1) PROVE OutFramed' /\ WrittenGiven'
  <2> DEFINE m == Len(written)
  <2>1. given' = given /\ out' = out /\ written' = written \o given
    BY <1>3 DEF Write
  <2>2. m \in Nat
    BY <1>1
  <2>3. /\ Len(written') = m + n
        /\ \A k \in 1 .. m : written'[k] = written[k]
        /\ \A k \in 1 .. n : written'[m + k] = given[k]
    BY <1>1, <2>1, JoinOf
  <2> HIDE DEF n, m
  <2>4. ASSUME NEW k \in 1 .. m + n PROVE \E j \in 1 .. n : written'[k] = given[j]
    <3>1. CASE k <= m
      <4>1. k \in 1 .. m
        BY <2>2, <3>1
      <4> QED
        BY <2>3, <4>1 DEF WrittenGiven, m, n
    <3>2. CASE m < k
      <4>1. k - m \in 1 .. n /\ m + (k - m) = k
        BY <1>1, <2>2, <3>2
      <4> QED
        BY <2>3, <4>1
    <3> QED
      BY <2>2, <3>1, <3>2
  <2> QED
    BY <2>1, <2>3, <2>4 DEF OutFramed, WrittenGiven, n
<1>4. CASE out' = out /\ given' = given /\ written' = written
  BY <1>4 DEF OutFramed, WrittenGiven
<1>5. CASE WriteAll \/ WritePart
  <2>1. CASE WriteAll
    <3>1. PICK n1 : n1 = readAble(out)
      OBVIOUS
    <3> QED
      BY <1>3, <2>1, <3>1 DEF WriteAll
  <2>2. CASE WritePart
    BY <1>3, <2>2 DEF WritePart
  <2> QED
    BY <1>5, <2>1, <2>2
<1> QED
  BY <1>2, <1>4, <1>5 DEF StreamNext, Server, Client, ReplyOverruns, Read, ReadOf, ReadNothing,
     Decode, DecodeEnds, server, streamVars

LEMMA OrderStep ==
  ASSUME FrameInv, [StreamNext]_streamVars
  PROVE  InOrder'
<1> SUFFICES ASSUME ~Exposed', ~torn'
             PROVE  /\ Leads(decoded, written)'
                    /\ Framing(Stream, Pending)'
                    /\ (pc = "idle" /\ Len(Pending) > 0)' =>
                         (Len(encodeTinyPB(Pending[1])) > Len(Contents(in)))'
  BY Zenon DEF InOrder
<1>1. StreamTypeOK /\ GivenSound /\ MarksKept /\ OutFramed /\ WrittenGiven /\ InOrder
  BY DEF FrameInv, Steady
<1>2. ~Exposed /\ ~torn
  <2>1. torn => torn'
    <3>1. ASSUME NEW n, Write(n) PROVE torn => torn'
      BY <3>1, Zenon DEF Write
    <3>2. CASE WriteAll \/ WritePart
      <4>1. CASE WriteAll
        <5>1. PICK n : n = readAble(out)
          OBVIOUS
        <5> QED
          BY <3>1, <4>1, <5>1 DEF WriteAll
      <4>2. CASE WritePart
        BY <3>1, <4>2 DEF WritePart
      <4> QED
        BY <3>2, <4>1, <4>2
    <3>3. CASE torn' = torn
      BY <3>3
    <3> QED
      BY <3>2, <3>3 DEF StreamNext, Server, Client, Reply, ReplyOverruns, Read, ReadOf, ReadNothing,
         Decode, DecodeEnds, server, streamVars
  <2> QED
    BY <1>1, <2>1, SoundStep
<1>3. /\ Leads(decoded, written) /\ Framing(Stream, Pending)
      /\ pc = "idle" /\ Len(Pending) > 0 => Len(encodeTinyPB(Pending[1])) > Len(Contents(in))
  BY <1>1, <1>2 DEF InOrder
<1>4. /\ Stream \in Seq(Byte) /\ Contents(in) \in Seq(Byte) /\ Contents(out) \in Seq(Byte)
      /\ Len(Contents(in)) = readAble(in) /\ readAble(in) \in Nat /\ wire \in Seq(Byte)
      /\ Len(Contents(out)) = readAble(out) /\ readAble(out) \in Nat
  BY <1>1, StreamType, ContentsType DEF StreamTypeOK
<1>5. AllSound(Pending) /\ \A k \in 1 .. Len(Pending) : Clean(Pending[k])
  BY <1>2, PendingSound
<1>6. /\ Pending \in Seq(M) /\ Len(Pending) = Len(written) - Len(decoded)
      /\ Len(decoded) \in 0 .. Len(written) /\ Len(written) \in Nat
      /\ \A k \in 1 .. Len(written) - Len(decoded) : Pending[k] = written[Len(decoded) + k]
  BY <1>1, <1>3, PendingIs
<1>7. decoded \in Seq(M) /\ written \in Seq(M) /\ given \in Seq(M)
  BY <1>1 DEF StreamTypeOK, M
<1> DEFINE Goal == /\ Leads(decoded, written)'
                   /\ Framing(Stream, Pending)'
                   /\ (pc = "idle" /\ Len(Pending) > 0)' =>
                        (Len(encodeTinyPB(Pending[1])) > Len(Contents(in)))'
\* Nothing that matters moves, and the client does not come to rest.
<1>8. ASSUME Stream' = Stream, decoded' = decoded, written' = written,
             pc' # "idle" \/ (pc' = pc /\ Contents(in)' = Contents(in))
      PROVE  Goal
  <2>1. Pending' = Pending
    BY <1>8 DEF Pending
  <2>2. Leads(decoded, written)' /\ Framing(Stream, Pending)'
    BY <1>3, <1>8, <2>1
  <2>3. (pc = "idle" /\ Len(Pending) > 0)' =>
          (Len(encodeTinyPB(Pending[1])) > Len(Contents(in)))'
    <3>1. CASE pc' # "idle"
      BY <3>1
    <3>2. CASE pc' = pc /\ Contents(in)' = Contents(in)
      BY <1>3, <2>1, <3>2
    <3> QED
      BY <1>8, <3>1, <3>2
  <2> QED
    BY <2>2, <2>3
\* The first packet, when there are bytes.
<1>9. ASSUME Len(Pending) > 0
      PROVE  LET e == encodeTinyPB(Pending[1]) IN
             /\ Sound(Pending[1]) /\ Clean(Pending[1]) /\ Len(e) \in 1 .. Len(Stream)
             /\ Holds(Stream, 0, e)
             /\ Framing(Dropped(Stream, Len(e)), SubSeq(Pending, 2, Len(Pending)))
  <2>1. Len(Pending) \in Nat /\ 1 \in 1 .. Len(Pending)
    BY <1>6, <1>9
  <2>2. Sound(Pending[1]) /\ Clean(Pending[1])
    BY <1>5, <2>1 DEF AllSound
  <2> QED
    BY <1>3, <1>4, <1>5, <1>9, <2>2, FramingFirst
<1>10. Len(Pending) = 0 => Contents(in) = <<>>
  <2> SUFFICES ASSUME Len(Pending) = 0 PROVE Contents(in) = <<>>
    OBVIOUS
  <2>1. Pending = <<>>
    BY <1>6
  <2>2. Stream = <<>>
    BY <1>3, <1>4, <2>1, FramingNone
  <2>3. Contents(in) \o wire = <<>>
    BY <2>2 DEF Stream
  <2> QED
    BY <1>4, <2>3, ConcatEqualIffEmpty
<1>11. ASSUME NEW m \in Replies, Reply(m) PROVE Goal
  <2>1. Stream' = Stream /\ decoded' = decoded /\ written' = written /\ pc' = pc /\ in' = in
    BY <1>1, <1>11, ReplyEffect DEF Reply, client
  <2>2. Contents(in)' = Contents(in)
    BY <2>1
  <2> QED
    BY <1>8, <2>1, <2>2
<1>12. ASSUME NEW m \in Replies, ReplyOverruns(m) PROVE Goal
  <2>1. wire' = wire /\ decoded' = decoded /\ written' = written /\ pc' = pc /\ in' = in
    BY <1>12 DEF ReplyOverruns, server, client
  <2>2. Contents(in)' = Contents(in) /\ Stream' = Stream
    BY <2>1 DEF Stream
  <2> QED
    BY <1>8, <2>1, <2>2
<1>13. CASE WriteAll \/ WritePart
  <2>1. PICK n \in 0 .. readAble(out) : Write(n)
    <3>1. CASE WriteAll
      <4>1. readAble(out) \in 0 .. readAble(out)
        BY <1>4
      <4> QED
        BY <3>1, <4>1 DEF WriteAll
    <3>2. CASE WritePart
      <4>1. PICK n \in Parts : n < readAble(out) /\ Write(n)
        BY <3>2 DEF WritePart
      <4>2. n \in 0 .. readAble(out)
        BY <1>4, <4>1, PartAssumption
      <4> QED
        BY <4>1, <4>2
    <3> QED
      BY <1>13, <3>1, <3>2
  <2>2. ~(n < readAble(out))
    <3>1. torn' = (torn \/ n < readAble(out))
      BY <2>1, Zenon DEF Write
    <3> QED
      BY <3>1, Zenon
  <2>3. n = Len(Contents(out))
    BY <1>4, <2>1, <2>2
  <2>4. SubSeq(Contents(out), 1, n) = Contents(out)
    BY <1>4, <2>3, SubSeqFull
  <2>5. Stream' = Stream \o Contents(out)
    BY <1>1, <2>1, <2>4, WriteEffect
  <2>6. /\ written' = written \o given /\ decoded' = decoded /\ pc' = pc /\ in' = in
    BY <2>1 DEF Write, client
  <2>7. Pending' = Pending \o given
    <3>1. Dropped(written \o given, Len(decoded)) = Dropped(written, Len(decoded)) \o given
      BY <1>6, <1>7, DroppedOfJoin
    <3> QED
      BY <2>6, <3>1 DEF Pending
  <2>8. Framing(Stream, Pending)'
    <3>1. AllSound(given)
      BY <1>1, <1>7 DEF AllSound, GivenSound
    <3>2. Framing(Stream \o Contents(out), Pending \o given)
      BY <1>1, <1>3, <1>4, <1>5, <3>1, FramingJoined DEF OutFramed
    <3> QED
      BY <2>5, <2>7, <3>2
  <2>9. Leads(decoded, written)'
    <3> DEFINE d == Len(decoded)
               w == Len(written)
               g == Len(given)
               wg == written \o given
    <3>1. /\ Len(wg) = w + g /\ \A k \in 1 .. w : wg[k] = written[k]
      BY <1>7, JoinOf
    <3>2. d <= w /\ \A k \in 1 .. d : decoded[k] = written[k]
      BY <1>3 DEF Leads
    <3>3. d \in Nat /\ w \in Nat /\ g \in Nat
      BY <1>7
    <3> HIDE DEF d, w, g, wg
    <3>4. d <= Len(wg) /\ \A k \in 1 .. d : decoded[k] = wg[k]
      BY <3>1, <3>2, <3>3
    <3>5. Leads(decoded, wg)
      BY <3>4 DEF Leads, d
    <3> QED
      BY <2>6, <3>5 DEF wg
  <2>10. ASSUME pc = "idle", Len(Pending') > 0
         PROVE  Len(encodeTinyPB(Pending'[1])) > Len(Contents(in))
    <3>1. CASE Len(Pending) > 0
      <4>1. Pending'[1] = Pending[1]
        <5> DEFINE both == Pending \o given
        <5>1. \A k \in 1 .. Len(Pending) : both[k] = Pending[k]
          BY <1>6, <1>7, JoinOf
        <5>2. 1 \in 1 .. Len(Pending)
          BY <1>6, <3>1
        <5>3. Pending' = both
          BY <2>7
        <5> HIDE DEF both
        <5>4. both[1] = Pending[1]
          BY <5>1, <5>2
        <5> QED
          BY <5>3, <5>4
      <4> QED
        BY <1>3, <2>10, <3>1, <4>1
    <3>2. CASE Len(Pending) = 0
      <4>1. Pending = <<>> /\ Contents(in) = <<>>
        BY <1>6, <1>10, <3>2
      <4>2. Pending' = given
        BY <1>7, <2>7, <4>1
      <4>3. Sound(given[1])
        BY <1>1, <1>7, <2>10, <4>2 DEF GivenSound
      <4>4. Len(encodeTinyPB(given[1])) > 0
        BY <4>3, SoundPacket
      <4> QED
        BY <4>1, <4>2, <4>4
    <3> QED
      BY <1>6, <3>1, <3>2
  <2>11. Contents(in)' = Contents(in)
    BY <2>6
  <2> QED
    BY <2>6, <2>8, <2>9, <2>10, <2>11
<1>14. CASE Read
  <2>1. PICK n \in Nat : ReadOf(n)
    <3>1. PICK n \in Segments \cup {Len(wire)} : ReadOf(n)
      BY <1>14 DEF Read
    <3>2. n \in Nat
      BY <3>1 DEF ReadOf
    <3> QED
      BY <3>1, <3>2
  <2>2. ~refused'
    BY Zenon DEF Exposed
  <2>3. Stream' = Stream /\ pc' # "idle"
    BY <1>1, <2>1, <2>2, ReadEffect
  <2>4. decoded' = decoded /\ written' = written
    BY <2>1 DEF ReadOf, server
  <2> QED
    BY <1>8, <2>3, <2>4
<1>15. CASE ReadNothing
  <2>1. in' = in /\ wire' = wire /\ decoded' = decoded /\ written' = written /\ pc' = "decode"
    BY <1>1, <1>15, RoomIsIn DEF ReadNothing, server
  <2>2. Stream' = Stream
    BY <2>1 DEF Stream
  <2> QED
    BY <1>8, <2>1, <2>2
<1>16. ASSUME NEW wild \in Wild, Decode(wild) PROVE Goal
  <2> DEFINE e == encodeTinyPB(Pending[1])
             outcome == Parse(in, FirstPacket(in, wild), wild)
  <2>1. ~HeaderCut(in)
    <3>1. split' = (split \/ HeaderCut(in)) /\ ~split'
      BY <1>16, Zenon DEF Decode, Exposed
    <3> QED
      BY <3>1, Zenon
  <2>2. /\ Packets(in, wild) # {} /\ pc = "decode" /\ pc' = pc /\ written' = written
        /\ decoded' = IF outcome.kind = "message" THEN Append(decoded, outcome.message)
                                                  ELSE decoded
    BY <1>16 DEF Decode, server
  <2>3. outcome.kind # "fault"
    <3>1. overrun' = (outcome.kind = "fault") /\ ~overrun'
      BY <1>16, Zenon DEF Decode, Exposed
    <3> QED
      BY <3>1, Zenon
  <2>4. Len(Pending) > 0
    <3>1. FirstPacket(in, wild) \in in.m_read_index .. in.m_write_index - 1
      BY <1>1, <2>2, FirstPacketIs DEF StreamTypeOK
    <3>2. /\ readAble(in) = in.m_write_index - in.m_read_index
          /\ in.m_write_index \in Nat /\ in.m_read_index \in Nat
      BY <1>1, ContentsType DEF StreamTypeOK
    <3>3. readAble(in) > 0
      BY <3>1, <3>2
    <3>4. Contents(in) # <<>>
      BY <1>4, <3>3
    <3> QED
      BY <1>6, <1>10, <3>4
  <2>5. /\ Sound(Pending[1]) /\ Clean(Pending[1]) /\ Len(e) \in 1 .. Len(Stream)
        /\ Holds(Stream, 0, e)
        /\ Framing(Dropped(Stream, Len(e)), SubSeq(Pending, 2, Len(Pending)))
    BY <1>9, <2>4
  <2>6. /\ Len(e) <= readAble(in) /\ FirstPacket(in, wild) = in.m_read_index
        /\ LengthAt(in, in.m_read_index, wild) = Len(e) /\ Holds(Contents(in), 0, e)
    <3>1. Len(e) <= Len(Stream)
      BY <2>5
    <3> QED
      BY <1>1, <2>1, <2>2, <2>5, <3>1, FirstIsWhole
  <2>7. outcome = [kind |-> "message", message |-> Pending[1]]
    <3>1. Layout(e, Pending[1]) /\ PkLen(Pending[1]) <= readAble(in)
      BY <2>5, <2>6, EncodeLayout, SoundPacket
    <3>2. Pending[1].m_err_info = <<>>
      BY <2>5 DEF Clean
    <3>3. IsBuffer(in)
      BY <1>1 DEF StreamTypeOK
    <3>4. LET found == Parse(in, in.m_read_index, wild) IN
          found = [kind |-> "fault"] \/ found = [kind |-> "message", message |-> Pending[1]]
      <4> HIDE DEF e
      <4> QED
        BY <2>5, <2>6, <3>1, <3>2, <3>3, EncodedIsParsed
    <3>5. outcome = [kind |-> "fault"] \/ outcome = [kind |-> "message", message |-> Pending[1]]
      BY <2>6, <3>4
    <3> HIDE DEF outcome
    <3> QED
      BY <2>3, <3>5
  <2>8. decoded' = Append(decoded, Pending[1])
    <3> HIDE DEF outcome
    <3> QED
      BY <2>2, <2>7
  <2>9. Stream' = Dropped(Stream, Len(e))
    <3>1. Len(e) \in 0 .. readAble(in)
      BY <1>4, <2>5, <2>6
    <3> HIDE DEF e
    <3> QED
      BY <1>1, <1>16, <2>6, <3>1, DecodeEffect
  <2> DEFINE d == Len(decoded)
             w == Len(written)
  <2>10. Len(decoded') = d + 1 /\ decoded'[d + 1] = Pending[1]
          /\ \A k \in 1 .. d : decoded'[k] = decoded[k]
    BY <1>7, <2>8
  <2>11. d \in Nat /\ w \in Nat /\ d + 1 <= w /\ Pending[1] = written[d + 1]
    <3>1. 1 \in 1 .. w - d
      BY <1>6, <2>4
    <3> QED
      BY <1>6, <3>1
  <2>12. Leads(decoded, written)'
    <3>1. \A k \in 1 .. d : decoded[k] = written[k]
      BY <1>3 DEF Leads
    <3> HIDE DEF d, w
    <3>2. ASSUME NEW k \in 1 .. d + 1 PROVE decoded'[k] = written[k]
      BY <2>10, <2>11, <3>1
    <3>3. Leads(decoded', written)
      BY <2>10, <2>11, <3>2 DEF Leads, w
    <3> QED
      BY <2>2, <3>3
  <2>13. Pending' = SubSeq(Pending, 2, Len(Pending))
    <3> DEFINE q == SubSeq(Pending, 2, Len(Pending))
               z == Dropped(written, d + 1)
    <3>1. Pending' = z
      BY <2>2, <2>10 DEF Pending
    <3>2. q \in Seq(M) /\ Len(q) = w - d - 1 /\ \A k \in 1 .. w - d - 1 : q[k] = Pending[k + 1]
      BY <1>6, <2>11
    <3>3. z \in Seq(M) /\ Len(z) = w - (d + 1)
            /\ \A k \in 1 .. w - (d + 1) : z[k] = written[(d + 1) + k]
      <4>1. d + 1 \in 0 .. Len(written)
        BY <2>11
      <4> QED
        BY <1>7, <4>1, DroppedIs
    <3>4. \A k \in 1 .. w - d : Pending[k] = written[d + k]
      BY <1>6
    <3> HIDE DEF q, z, d, w
    <3>5. ASSUME NEW k \in 1 .. w - d - 1 PROVE q[k] = z[k]
      <4>1. k + 1 \in 1 .. w - d /\ d + (k + 1) = (d + 1) + k /\ k \in 1 .. w - (d + 1)
        BY <2>11
      <4> QED
        BY <3>2, <3>3, <3>4, <4>1
    <3>6. Len(q) = Len(z) /\ Len(q) = w - d - 1
      BY <2>11, <3>2, <3>3
    <3>7. q = z
      BY <3>2, <3>3, <3>5, <3>6, SameSequence
    <3> QED
      BY <3>1, <3>7 DEF q
  <2>14. Framing(Stream, Pending)'
    BY <2>5, <2>9, <2>13
  <2> QED
    BY <2>2, <2>12, <2>14
<1>17. ASSUME NEW wild \in Wild, DecodeEnds(wild) PROVE Goal
  <2>1. /\ Packets(in, wild) = {} /\ in' = in /\ wire' = wire /\ decoded' = decoded
        /\ written' = written
    BY <1>17 DEF DecodeEnds, server
  <2>2. Stream' = Stream /\ Contents(in)' = Contents(in) /\ Pending' = Pending
    BY <2>1 DEF Stream, Pending
  <2>3. ASSUME Len(Pending) > 0 PROVE Len(encodeTinyPB(Pending[1])) > Len(Contents(in))
    <3> DEFINE e == encodeTinyPB(Pending[1])
    <3>1. /\ Sound(Pending[1]) /\ Clean(Pending[1]) /\ Len(e) \in 1 .. Len(Stream)
          /\ Holds(Stream, 0, e)
      BY <1>9, <2>3
    <3>2. Len(e) <= Len(Stream) /\ Len(e) \in Nat
      BY <3>1
    <3>3. ~(Len(e) <= readAble(in))
      BY <1>1, <2>1, <3>1, <3>2, FirstIsWhole
    <3> QED
      BY <1>4, <3>2, <3>3
  <2> QED
    BY <1>3, <2>1, <2>2, <2>3
<1>18. CASE UNCHANGED streamVars
  <2>1. Stream' = Stream /\ decoded' = decoded /\ written' = written /\ pc' = pc
          /\ Contents(in)' = Contents(in)
    BY <1>18 DEF streamVars, Stream
  <2> QED
    BY <1>8, <2>1
<1> QED
  BY <1>11, <1>12, <1>13, <1>14, <1>15, <1>16, <1>17, <1>18 DEF StreamNext, Server, Client

LEMMA ExactFollows ==
  ASSUME FrameInv
  PROVE  FramesExact
<1> SUFFICES ASSUME ~Exposed, ~torn
             PROVE  /\ IsPrefix(decoded, written)
                    /\ pc = "idle" /\ wire = <<>> => decoded = written
  BY Zenon DEF FramesExact
<1>1. /\ Leads(decoded, written) /\ Framing(Stream, Pending)
      /\ pc = "idle" /\ Len(Pending) > 0 => Len(encodeTinyPB(Pending[1])) > Len(Contents(in))
  BY DEF FrameInv, InOrder
<1>2. decoded \in Seq(M) /\ written \in Seq(M) /\ StreamTypeOK
  BY DEF FrameInv, Steady, StreamTypeOK, M
<1>3. IsPrefix(decoded, written) /\ (Len(decoded) = Len(written) => decoded = written)
  BY <1>1, <1>2, LeadsIsPrefix
<1>4. ASSUME pc = "idle", wire = <<>> PROVE decoded = written
  <2>1. /\ Len(Pending) = Len(written) - Len(decoded)
        /\ Len(decoded) \in 0 .. Len(written) /\ Len(written) \in Nat
    BY <1>1, <1>2, PendingIs
  <2>2. Stream = Contents(in) /\ Stream \in Seq(Byte)
    <3>1. Contents(in) \in Seq(Byte)
      BY <1>2, StreamType
    <3> QED
      BY <1>4, <3>1 DEF Stream
  <2>3. ASSUME Len(Pending) > 0 PROVE FALSE
    <3>1. AllSound(Pending)
      BY PendingSound
    <3> DEFINE l == Len(encodeTinyPB(Pending[1]))
    <3>2. l \in 1 .. Len(Stream)
      BY <1>1, <2>2, <2>3, <3>1, FramingFirst
    <3>3. l > Len(Contents(in))
      BY <1>1, <1>4, <2>3
    <3> HIDE DEF l
    <3> QED
      BY <2>2, <3>2, <3>3
  <2> QED
    BY <1>3, <2>1, <2>3
<1> QED
  BY <1>3, <1>4

LEMMA FrameAlways == StreamSpec => []FrameInv
<1>1. StreamInit => FrameInv
  <2> SUFFICES ASSUME StreamInit PROVE Steady /\ OutFramed /\ WrittenGiven /\ InOrder
    BY DEF FrameInv
  <2>1. Steady
    BY InitSteady
  <2>2. given = <<>> /\ Contents(in) = <<>> /\ Contents(out) = <<>> /\ wire = <<>>
          /\ decoded = <<>> /\ written = <<>>
    BY NewBufferIs, BufferAssumption DEF StreamInit
  <2>3. Stream = <<>> /\ Pending = <<>>
    BY <2>2 DEF Stream, Pending, Dropped
  <2>4. OutFramed /\ WrittenGiven
    BY <2>2, FramingNothing DEF OutFramed, WrittenGiven
  <2>5. Leads(<<>>, <<>>)
    BY DEF Leads
  <2>6. InOrder
    <3>1. Leads(decoded, written) /\ Framing(Stream, Pending) /\ ~(Len(Pending) > 0)
      BY <2>2, <2>3, <2>5, FramingNothing
    <3> QED
      BY <3>1, Zenon DEF InOrder
  <2> QED
    BY <2>1, <2>4, <2>6
<1>2. FrameInv /\ [StreamNext]_streamVars => FrameInv'
  <2> SUFFICES ASSUME FrameInv, [StreamNext]_streamVars PROVE FrameInv'
    OBVIOUS
  <2>1. Steady'
    BY StepTypes, SoundStep, MarksStep DEF FrameInv, Steady
  <2>2. OutFramed' /\ WrittenGiven'
    BY OutStep DEF FrameInv, Steady
  <2>3. InOrder'
    BY OrderStep
  <2> QED
    BY <2>1, <2>2, <2>3 DEF FrameInv
<1> QED
  BY <1>1, <1>2, PTL DEF StreamSpec

\* For every size of the buffers, all replies and all segments: under the same conditions,
\* and when every write of onWrite was whole, decode yields a prefix of what was written,
\* and all of it once every byte has been read and decode has returned.
THEOREM FramesAreExact == StreamSpec => []FramesExact
<1>1. FrameInv => FramesExact
  BY ExactFollows
<1> QED
  BY <1>1, FrameAlways, PTL
=============================================================================
