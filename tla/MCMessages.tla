----------------------------- MODULE MCMessages ------------------------------
(* What makes and carries messages: the framing of a connection, the dispatch of the      *)
(* requests it decodes, and the generator of the services they go to.  The three share no *)
(* variable; part says which of them a behavior is about, and the others stay in an       *)
(* initial state, so that one run checks each of them alone.                              *)
EXTENDS MCPacketStream, MCDispatch, MCGenerator

VARIABLE part

allVars == << streamVars, vars, genVars, part >>

MCInit ==
  /\ part \in {"stream", "dispatch", "generator"}
  /\ StreamInit /\ Init /\ GenInit
  /\ part # "generator" => proto = CHOOSE p \in Protos : TRUE

MCNext ==
  \/ part = "stream" /\ StreamNext /\ UNCHANGED << vars, genVars, part >>
  \/ part = "dispatch" /\ Next /\ UNCHANGED << streamVars, genVars, part >>
  \/ part = "generator" /\ GenNext /\ UNCHANGED << streamVars, vars, part >>

MCSpec == MCInit /\ [][MCNext]_allVars
=============================================================================
