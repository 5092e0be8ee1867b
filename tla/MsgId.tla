------------------------------- MODULE MsgId -------------------------------
(***************************************************************************)
(* The ids of messages (common/msg_id_util.cpp): a decimal counter of      *)
(* g_msg_id_length digits that starts at random, one for each thread.      *)
(***************************************************************************)
EXTENDS Integers, Sequences

CONSTANTS
  Base,            \* of the digits, 10 in the code
  g_msg_id_length  \* 20 in the code

ASSUME BaseAssumption == Base \in Nat \ {0, 1}
ASSUME LengthAssumption == g_msg_id_length \in Nat \ {0}

Digits == [1 .. g_msg_id_length -> 0 .. Base - 1]
Nine == Base - 1
Nines == [i \in 1 .. g_msg_id_length |-> Nine]
ZeroId == [i \in 1 .. g_msg_id_length |-> 0]

(* The state of a thread: the id given last, empty at first; and how often the nines were
   appended to t_max_msg_id_no, which equals an id only after the first time. *)
NoId == <<>>
Generators == [no : Digits \cup {NoId}, draws : Nat]

Draws(g) == g.no = NoId \/ (g.draws = 1 /\ g.no = Nines)

\* Defects: no carry; the nines that the carry passes stay.
IncrementedUncarried(no) == [no EXCEPT ![g_msg_id_length] = @ + 1]
IncrementedKeepsNines(no) ==
  LET below == { i \in 1 .. g_msg_id_length : no[i] # Nine }
  IN  IF below = {}
      THEN ZeroId
      ELSE [no EXCEPT ![CHOOSE i \in below : \A j \in below : j <= i] = @ + 1]

\* The last digit that is not 9 goes up, those behind it become 0.
Incremented(no) ==
  LET below == { i \in 1 .. g_msg_id_length : no[i] # Nine }
      last  == CHOOSE i \in below : \A j \in below : j <= i
  IN  IF below = {}
      THEN ZeroId
      ELSE [ i \in 1 .. g_msg_id_length |->
               IF i < last THEN no[i] ELSE IF i = last THEN no[i] + 1 ELSE 0 ]

(* generateMsgId, with what /dev/urandom gives *)
generateMsgId(g, random) ==
  IF Draws(g)
  THEN [no |-> random, draws |-> g.draws + 1]
  ELSE [g EXCEPT !.no = Incremented(@)]

-----------------------------------------------------------------------------
\* The number an id stands for.
Value(no) ==
  LET value[k \in 0 .. g_msg_id_length] ==
        IF k = 0 THEN 0 ELSE Base * value[k - 1] + no[k]
  IN  value[g_msg_id_length]

Power(k) == LET power[j \in 0 .. k] == IF j = 0 THEN 1 ELSE Base * power[j - 1] IN power[k]

\* What an id is followed by, unless it is drawn.
Follows(old, new) == Value(new) = (Value(old) + 1) % Power(g_msg_id_length)
=============================================================================
