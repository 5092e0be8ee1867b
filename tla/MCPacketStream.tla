--------------------------- MODULE MCPacketStream ---------------------------
(* Replies of 31 and 33 bytes, which together fill a buffer of 64, and one of 125, for
   which it does not grow enough. The second one holds a start mark in its body. *)
EXTENDS PacketStream

Text(n) == [k \in 1 .. n |-> 65]
Message(id, body) ==
  [ m_msg_id |-> id, m_method_name |-> Text(1), m_err_code |-> 0, m_err_info |-> <<>>,
    m_pb_body |-> body ]

MCReplies == { Message(<<49>>, Text(3)), Message(<<50>>, <<8, 2, 65, 66, 67>>),
               Message(<<>>, Text(92)) }
=============================================================================
