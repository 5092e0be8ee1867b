---------------------------- MODULE ServerProofs -----------------------------
(***************************************************************************)
(* What the server guarantees for any finite number of connections and any *)
(* number of requests, however its two threads and the clients interleave. *)
(***************************************************************************)
EXTENDS Server, SequenceTheorems, FiniteSetTheorems, TLAPS

(* Sequences *)

LEMMA TailElements ==
  ASSUME NEW S, NEW s \in Seq(S), s # <<>>
  PROVE  /\ Tail(s) \in Seq(S) /\ Head(s) = s[1] /\ s[1] \in S
         /\ DOMAIN s = 1 .. Len(s) /\ DOMAIN Tail(s) = 1 .. Len(s) - 1 /\ Len(s) \in Nat
         /\ \A i \in DOMAIN Tail(s) : i + 1 \in DOMAIN s /\ Tail(s)[i] = s[i + 1]
OBVIOUS

LEMMA AppendElements ==
  ASSUME NEW S, NEW s \in Seq(S), NEW e \in S
  PROVE  /\ Append(s, e) \in Seq(S)
         /\ DOMAIN s = 1 .. Len(s) /\ DOMAIN Append(s, e) = 1 .. Len(s) + 1 /\ Len(s) \in Nat
         /\ \A i \in DOMAIN s : Append(s, e)[i] = s[i]
         /\ Append(s, e)[Len(s) + 1] = e
OBVIOUS

LEMMA JoinElements ==
  ASSUME NEW S, NEW s \in Seq(S), NEW t \in Seq(S)
  PROVE  /\ s \o t \in Seq(S)
         /\ DOMAIN s = 1 .. Len(s) /\ DOMAIN t = 1 .. Len(t) /\ Len(s) \in Nat /\ Len(t) \in Nat
         /\ DOMAIN (s \o t) = 1 .. Len(s) + Len(t)
         /\ \A i \in DOMAIN s : (s \o t)[i] = s[i]
         /\ \A i \in DOMAIN t : (s \o t)[Len(s) + i] = t[i]
OBVIOUS

LEMMA PrefixElements ==
  ASSUME NEW S, NEW s \in Seq(S), NEW k \in 0 .. Len(s)
  PROVE  /\ SubSeq(s, 1, k) \in Seq(S)
         /\ DOMAIN SubSeq(s, 1, k) = 1 .. k /\ Len(SubSeq(s, 1, k)) = k
         /\ \A i \in 1 .. k : SubSeq(s, 1, k)[i] = s[i]
OBVIOUS

LEMMA JoinSets ==
  ASSUME NEW S, NEW s \in Seq(S), NEW t \in Seq(S)
  PROVE  ToSet(s) \subseteq ToSet(s \o t) /\ ToSet(t) \subseteq ToSet(s \o t)
<1>1. ASSUME NEW i \in DOMAIN s PROVE s[i] \in ToSet(s \o t)
  <2>1. i \in DOMAIN (s \o t) /\ (s \o t)[i] = s[i]
    BY JoinElements
  <2> QED
    BY <2>1 DEF ToSet
<1>2. ASSUME NEW i \in DOMAIN t PROVE t[i] \in ToSet(s \o t)
  <2>1. Len(s) + i \in DOMAIN (s \o t) /\ (s \o t)[Len(s) + i] = t[i]
    BY JoinElements
  <2> QED
    BY <2>1 DEF ToSet
<1> QED
  BY <1>1, <1>2 DEF ToSet

-----------------------------------------------------------------------------
(* What the choices of the IO loop range over *)

LEMMA ReadyFinite == IsFiniteSet(Ready)
<1> DEFINE task == [p \in Handlers \X Conns |-> [kind |-> p[1], of |-> p[2]]]
           All == [kind : Handlers, of : Conns]
<1>1. IsFiniteSet(Handlers \X Conns)
  <2>1. IsFiniteSet({"onRead"}) /\ IsFiniteSet({"onWrite"})
    BY FS_Singleton
  <2>2. IsFiniteSet(Handlers)
    <3>1. Handlers = {"onRead"} \cup {"onWrite"}
      BY DEF Handlers
    <3> QED
      BY <2>1, <3>1, FS_Union
  <2> QED
    BY <2>2, ServerAssumption, FS_Product
<1>2. task \in Surjection(Handlers \X Conns, All)
  <2>1. task \in [Handlers \X Conns -> All]
    OBVIOUS
  <2>2. ASSUME NEW t \in All PROVE \E p \in Handlers \X Conns : task[p] = t
    <3>1. <<t.kind, t.of>> \in Handlers \X Conns /\ task[<<t.kind, t.of>>] = t
      OBVIOUS
    <3> QED
      BY <3>1
  <2> HIDE DEF task, All
  <2> QED
    BY <2>1, <2>2 DEF Surjection
<1>3. IsFiniteSet(All)
  <2> HIDE DEF task, All
  <2> QED
    BY <1>1, <1>2, FS_Surjection
<1>4. Ready \in SUBSET All
  BY DEF Ready
<1> QED
  BY <1>3, <1>4, FS_Subset

LEMMA OrderFacts ==
  ASSUME NEW s \in Orders
  PROVE  /\ s \in Seq(Tasks)
         /\ \A i \in DOMAIN s : /\ s[i].kind \in Handlers /\ s[i].of \in Conns
                                /\ Due(s[i].kind, s[i].of)
         /\ \A i, j \in DOMAIN s : s[j].kind = "onRead" /\ s[i].of = s[j].of => j <= i
<1>1. Cardinality(Ready) \in Nat
  BY ReadyFinite, FS_CardinalityType
<1>2. s \in [1 .. Cardinality(Ready) -> Ready]
  BY DEF Orders
<1>3. ASSUME NEW t \in Ready
      PROVE  t \in Tasks /\ t.kind \in Handlers /\ t.of \in Conns /\ Due(t.kind, t.of)
  BY DEF Ready, Tasks, Handlers
<1>4. s \in Seq(Tasks)
  <2>1. s \in [1 .. Cardinality(Ready) -> Tasks]
    BY <1>2, <1>3
  <2> QED
    BY <1>1, <2>1
<1>5. ASSUME NEW i \in DOMAIN s, NEW j \in DOMAIN s, s[j].kind = "onRead", s[i].of = s[j].of
      PROVE  j <= i
  <2>0. i \in Nat /\ j \in Nat /\ s[i] \in Ready /\ s[j] \in Ready
    BY <1>1, <1>2
  <2>1. CASE s[i].kind = "onWrite"
    <3>1. i = j + 1
      BY <1>5, <2>1 DEF Orders
    <3> QED
      BY <2>0, <3>1
  <2>2. CASE s[i].kind = "onRead"
    <3>1. s[i] = s[j]
      BY <1>5, <2>0, <2>2 DEF Ready
    <3>2. i = j
      BY <3>1 DEF Orders
    <3> QED
      BY <2>0, <3>2
  <2>3. s[i].kind \in Handlers
    BY <1>3, <2>0
  <2> QED
    BY <2>1, <2>2, <2>3 DEF Handlers
<1> QED
  BY <1>2, <1>3, <1>4, <1>5

LEMMA InTurnType ==
  ASSUME NEW a \in Nat, NEW b \in Nat, NEW s \in InTurn((a + 1) .. b)
  PROVE  s \in Seq(Nat)
<1>1. Cardinality((a + 1) .. b) \in Nat
  BY FS_Interval, FS_CardinalityType
<1>2. PICK n \in 0 .. Cardinality((a + 1) .. b) : s \in [1 .. n -> (a + 1) .. b]
  BY DEF InTurn
<1>3. n \in Nat /\ s \in [1 .. n -> Nat]
  BY <1>1, <1>2
<1> QED
  BY <1>3

-----------------------------------------------------------------------------
(* Types *)

LEMMA FirstTask ==
  ASSUME TypeOK, tasks # <<>>
  PROVE  /\ Tail(tasks) \in Seq(Tasks) /\ Head(tasks) = tasks[1] /\ 1 \in DOMAIN tasks
         /\ tasks[1].kind \in Handlers \cup {"add", "clear"} /\ tasks[1].of \in Conns
<1>1. tasks \in Seq(Tasks)
  BY DEF TypeOK
<1>2. Tail(tasks) \in Seq(Tasks) /\ Head(tasks) = tasks[1] /\ 1 \in DOMAIN tasks /\ tasks[1] \in Tasks
  BY <1>1, TailElements
<1> QED
  BY <1>2 DEF Tasks

LEMMA ReplyTypes ==
  ASSUME TypeOK, NEW c \in Conns, NEW replies \in Seq(Nat), reply(c, replies)
  PROVE  /\ out' \in [Conns -> Seq(Nat)]
         /\ mask' \in [Conns -> SUBSET Events] /\ listed' \in [Conns -> BOOLEAN]
<1>1. out \in [Conns -> Seq(Nat)] /\ mask \in [Conns -> SUBSET Events] /\ listed \in [Conns -> BOOLEAN]
  BY DEF TypeOK
<1>2. out[c] \o replies \in Seq(Nat)
  BY <1>1
<1>3. out' = [out EXCEPT ![c] = out[c] \o replies]
  BY DEF reply, Encoded
<1>4. out' \in [Conns -> Seq(Nat)]
  BY <1>1, <1>2, <1>3
<1>5. (mask' = mask /\ listed' = listed)
        \/ (mask' = [mask EXCEPT ![c] = mask[c] \cup {"out"}] /\ listed' = [listed EXCEPT ![c] = TRUE])
  BY DEF reply, listenWrite
<1>6. mask[c] \cup {"out"} \in SUBSET Events
  BY <1>1 DEF Events
<1>7. mask' \in [Conns -> SUBSET Events]
  BY <1>1, <1>5, <1>6
<1>8. listed' \in [Conns -> BOOLEAN]
  BY <1>1, <1>5
<1> QED
  BY <1>4, <1>7, <1>8

LEMMA ClearedTypes ==
  ASSUME TypeOK, NEW c \in Conns, Cleared(c)
  PROVE  /\ mask' \in [Conns -> SUBSET Events] /\ listed' \in [Conns -> BOOLEAN]
         /\ state' \in [Conns -> {"NotConnected", "Connected", "Closed"}]
BY DEF TypeOK, Cleared

\* Every variable keeps its type; no more is read than was sent, and only what was read is
\* ever with a service (TcpServer, TcpConnection, IOThread).
THEOREM ServerTypeCorrect == Spec => []TypeOK
<1>1. Init => TypeOK
  <2> SUFFICES ASSUME Init PROVE TypeOK
    OBVIOUS
  <2>1. /\ backlog \in Seq(Conns) /\ tasks \in Seq(Tasks)
        /\ out \in [Conns -> Seq(Nat)] /\ wire \in [Conns -> Seq(Nat)]
    BY DEF Init
  <2>2. /\ sent \in [Conns -> Nat] /\ read \in [Conns -> Nat]
        /\ \A c \in Conns : read[c] <= sent[c] /\ sent[c] <= MaxRequests[c]
    BY ServerAssumption DEF Init
  <2>3. calls \in [Conns -> SUBSET Nat] /\ \A c \in Conns : calls[c] \subseteq 1 .. read[c]
    BY DEF Init
  <2>4. mask \in [Conns -> SUBSET Events] /\ listed \in [Conns -> BOOLEAN]
    BY DEF Init
  <2> QED
    BY <2>1, <2>2, <2>3, <2>4 DEF Init, TypeOK
<1>2. TypeOK /\ [Next]_vars => TypeOK'
  <2> SUFFICES ASSUME TypeOK, [Next]_vars PROVE TypeOK'
    OBVIOUS
  <2>1. CASE Die \/ UNCHANGED vars
    BY <2>1 DEF Die, TypeOK, vars, threadVars, netVars, connVars, replyVars
  <2>2. ASSUME NEW c \in Conns, Connects(c) PROVE TypeOK'
    BY <2>2 DEF Connects, TypeOK, threadVars, connVars, replyVars
  <2>3. ASSUME NEW c \in Conns, Sends(c) PROVE TypeOK'
    <3>1. sent[c] \in Nat /\ MaxRequests[c] \in Nat /\ sent[c] + 1 <= MaxRequests[c]
      <4>1. sent[c] < MaxRequests[c]
        BY <2>3, Zenon DEF Sends
      <4>2. sent[c] \in Nat /\ MaxRequests[c] \in Nat
        BY ServerAssumption DEF TypeOK
      <4> QED
        BY <4>1, <4>2
    <3>2. sent' = [sent EXCEPT ![c] = sent[c] + 1] /\ read' = read
      BY <2>3 DEF Sends
    <3>3. /\ sent' \in [Conns -> Nat]
          /\ \A d \in Conns : read'[d] <= sent'[d] /\ sent'[d] <= MaxRequests[d]
      <4>1. sent \in [Conns -> Nat] /\ sent' \in [Conns -> Nat]
        BY <3>1, <3>2 DEF TypeOK
      <4>2. ASSUME NEW d \in Conns PROVE read'[d] <= sent'[d] /\ sent'[d] <= MaxRequests[d]
        <5>1. read[d] \in Nat /\ sent[d] \in Nat /\ read[d] <= sent[d] /\ sent[d] <= MaxRequests[d]
          BY DEF TypeOK
        <5>2. sent'[d] = IF d = c THEN sent[c] + 1 ELSE sent[d]
          BY <3>2, <4>1
        <5> QED
          BY <3>1, <3>2, <5>1, <5>2
      <4> QED
        BY <4>1, <4>2
    <3> QED
      BY <2>3, <3>3 DEF Sends, TypeOK, threadVars, connVars, replyVars
  <2>4. ASSUME NEW c \in Conns, Closes(c) PROVE TypeOK'
    BY <2>4 DEF Closes, TypeOK, threadVars, connVars, replyVars
  <2>5. CASE StartUp \/ IOReady \/ IOLoops
    <3>1. CASE Configure
      <4>1. config' \in {<<c>> : c \in Configs} /\ config' # Null
        BY <3>1 DEF Configure, Null
      <4>2. UNCHANGED Configs
        BY DEF Configs
      <4> QED
        BY <3>1, <4>1, <4>2 DEF Configure, TypeOK, netVars, connVars, replyVars
    <3>2. CASE Listen
      BY <3>2 DEF Listen, TypeOK, netVars, connVars, replyVars
    <3>3. CASE MainReady \/ Start
      BY <3>3 DEF MainReady, Start, TypeOK, netVars, connVars, replyVars
    <3>4. CASE IOReady \/ IOLoops
      BY <3>4 DEF IOReady, IOLoops, TypeOK, netVars, connVars, replyVars
    <3> QED
      BY <2>5, <3>1, <3>2, <3>3, <3>4 DEF StartUp
  <2>6. CASE Accept
    <3>1. backlog \in Seq(Conns) /\ backlog # <<>>
      BY <2>6 DEF Accept, TypeOK
    <3>2. Head(backlog) \in Conns /\ Tail(backlog) \in Seq(Conns)
      BY <3>1
    <3>3. tasks' \in Seq(Tasks)
      BY <2>6, <3>2 DEF Accept, Construct, TypeOK, Tasks
    <3>4. /\ stage' \in [Conns -> {"none", "backlog", "constructed", "client", "destroyed"}]
          /\ mask' \in [Conns -> SUBSET Events]
      BY <2>6, <3>2 DEF Accept, Construct, TypeOK, Events
    <3> QED
      BY <2>6, <3>2, <3>3, <3>4 DEF Accept, TypeOK, threadVars, replyVars
  <2>7. ASSUME NEW c \in Conns, Handover(c) PROVE TypeOK'
    BY <2>7 DEF Handover, setState, TypeOK, threadVars, netVars, replyVars
  <2>8. CASE ClearClientTimer
    BY <2>8 DEF ClearClientTimer, TypeOK, threadVars, netVars, connVars, replyVars
  <2>9. ASSUME NEW c \in Conns, RunAdd(c) PROVE TypeOK'
    <3>1. tasks' \in Seq(Tasks)
      BY <2>9, FirstTask DEF RunAdd, Runs
    <3> QED
      BY <2>9, <3>1 DEF RunAdd, TypeOK, threadVars, netVars, replyVars
  <2>10. CASE EpollRound
    <3>1. tasks' \in Seq(Tasks)
      <4>1. PICK s \in Orders : tasks' = tasks \o s
        BY <2>10 DEF EpollRound
      <4>2. s \in Seq(Tasks) /\ tasks \in Seq(Tasks)
        BY OrderFacts DEF TypeOK
      <4> QED
        BY <4>1, <4>2
    <3>2. listed' \in [Conns -> BOOLEAN]
      BY <2>10 DEF EpollRound
    <3> QED
      BY <2>10, <3>1, <3>2 DEF EpollRound, TypeOK, threadVars, netVars, replyVars
  <2>11. ASSUME NEW c \in Conns, FindsUnconnected(c) PROVE TypeOK'
    <3>1. tasks # <<>> /\ tasks' = [tasks EXCEPT ![1].kind = "clear"]
      BY <2>11 DEF FindsUnconnected, Runs
    <3>2. tasks \in Seq(Tasks) /\ 1 \in DOMAIN tasks /\ tasks[1] \in Tasks
      BY <3>1, TailElements DEF TypeOK
    <3>3. [tasks[1] EXCEPT !.kind = "clear"] \in Tasks
      BY <3>2 DEF Tasks
    <3>4. tasks' \in Seq(Tasks)
      BY <3>1, <3>2, <3>3
    <3> QED
      BY <2>11, <3>4 DEF FindsUnconnected, TypeOK, threadVars, netVars, connVars, replyVars
  <2>12. ASSUME NEW c \in Conns, ThenClears(c) PROVE TypeOK'
    <3>1. tasks' \in Seq(Tasks)
      BY <2>12, FirstTask DEF ThenClears, Runs
    <3>2. /\ mask' \in [Conns -> SUBSET Events] /\ listed' \in [Conns -> BOOLEAN]
          /\ state' \in [Conns -> {"NotConnected", "Connected", "Closed"}]
      BY <2>12, ClearedTypes DEF ThenClears, clear, connVars, TypeOK
    <3> QED
      BY <2>12, <3>1, <3>2 DEF ThenClears, TypeOK, threadVars, netVars, replyVars
  <2>13. ASSUME NEW c \in Conns, ReadsRequests(c) PROVE TypeOK'
    <3>1. tasks' \in Seq(Tasks)
      BY <2>13, FirstTask DEF ReadsRequests, Runs
    <3>2. sent[c] \in Nat /\ read[c] \in Nat /\ read[c] <= sent[c]
      BY DEF TypeOK
    <3>3. PICK now \in InTurn(Decoded(c)) : \E kept \in SUBSET (Decoded(c) \ ToSet(now)) :
             calls' = [calls EXCEPT ![c] = @ \cup kept] /\ reply(c, now)
      BY <2>13 DEF ReadsRequests
    <3>4. now \in Seq(Nat)
      BY <3>2, <3>3, InTurnType DEF Decoded
    <3>5. /\ out' \in [Conns -> Seq(Nat)]
          /\ mask' \in [Conns -> SUBSET Events] /\ listed' \in [Conns -> BOOLEAN]
      BY <3>3, <3>4, ReplyTypes
    <3>6. /\ read' = [read EXCEPT ![c] = sent[c]] /\ sent' = sent
          /\ read' \in [Conns -> Nat]
          /\ \A d \in Conns : read'[d] <= sent'[d] /\ sent'[d] <= MaxRequests[d]
      BY <2>13, <3>2 DEF ReadsRequests, netVars, TypeOK
    <3>7. calls' \in [Conns -> SUBSET Nat] /\ \A d \in Conns : calls'[d] \subseteq 1 .. read'[d]
      <4>1. PICK kept \in SUBSET Decoded(c) : calls' = [calls EXCEPT ![c] = @ \cup kept]
        BY <3>3
      <4>2. kept \subseteq 1 .. sent[c] /\ kept \subseteq Nat
        BY <3>2, <4>1 DEF Decoded
      <4>3. /\ calls \in [Conns -> SUBSET Nat] /\ \A d \in Conns : calls[d] \subseteq 1 .. read[d]
            /\ read \in [Conns -> Nat]
        BY DEF TypeOK
      <4>4. calls[c] \subseteq 1 .. sent[c]
        BY <3>2, <4>3
      <4> QED
        BY <3>6, <4>1, <4>2, <4>3, <4>4
    <3> QED
      BY <2>13, <3>1, <3>5, <3>6, <3>7 DEF ReadsRequests, TypeOK, threadVars, netVars
  <2>14. ASSUME NEW c \in Conns, ReadsEnd(c) PROVE TypeOK'
    <3>1. tasks' \in Seq(Tasks)
      BY <2>14, FirstTask DEF ReadsEnd, Runs
    <3>2. /\ mask' \in [Conns -> SUBSET Events] /\ listed' \in [Conns -> BOOLEAN]
          /\ state' \in [Conns -> {"NotConnected", "Connected", "Closed"}]
      BY <2>14, ClearedTypes DEF ReadsEnd
    <3>3. /\ read' \in [Conns -> Nat] /\ sent' = sent
          /\ \A d \in Conns : read[d] <= read'[d] /\ read'[d] <= sent'[d] /\ sent'[d] <= MaxRequests[d]
      BY <2>14 DEF ReadsEnd, netVars, TypeOK
    <3>4. \A d \in Conns : calls[d] \subseteq 1 .. read'[d]
      BY <3>3 DEF TypeOK
    <3> QED
      BY <2>14, <3>1, <3>2, <3>3, <3>4 DEF ReadsEnd, TypeOK, threadVars, netVars, replyVars
  <2>15. ASSUME NEW c \in Conns, RepliesLate(c) PROVE TypeOK'
    <3>1. PICK r \in calls[c] : calls' = [calls EXCEPT ![c] = @ \ {r}] /\ reply(c, <<r>>)
      BY <2>15 DEF RepliesLate
    <3>2. <<r>> \in Seq(Nat)
      BY <3>1 DEF TypeOK
    <3>3. /\ out' \in [Conns -> Seq(Nat)]
          /\ mask' \in [Conns -> SUBSET Events] /\ listed' \in [Conns -> BOOLEAN]
      BY <3>1, <3>2, ReplyTypes
    <3>4. calls' \in [Conns -> SUBSET Nat] /\ \A d \in Conns : calls'[d] \subseteq 1 .. read[d]
      BY <3>1 DEF TypeOK
    <3> QED
      BY <2>15, <3>3, <3>4 DEF RepliesLate, TypeOK, threadVars, netVars
  <2>16. ASSUME NEW c \in Conns, WritesAll(c) \/ WritesSome(c) PROVE TypeOK'
    <3>1. tasks' \in Seq(Tasks)
      BY <2>16, FirstTask DEF WritesAll, WritesSome, Runs
    <3>2. out[c] \in Seq(Nat) /\ wire \in [Conns -> Seq(Nat)]
      BY DEF TypeOK
    <3>3. \A k \in 0 .. Len(out[c]) : SubSeq(out[c], 1, k) \in Seq(Nat)
      BY <3>2, PrefixElements
    <3>4. PICK w \in Seq(Nat) : wire' = [wire EXCEPT ![c] = @ \o w]
      BY <2>16, <3>2, <3>3 DEF WritesAll, WritesSome
    <3>5. wire' \in [Conns -> Seq(Nat)]
      BY <3>2, <3>4
    <3>6. mask' \in [Conns -> SUBSET Events] /\ listed' \in [Conns -> BOOLEAN]
      <4>1. mask \in [Conns -> SUBSET Events] /\ listed \in [Conns -> BOOLEAN]
        BY DEF TypeOK
      <4>2. mask' = mask \/ mask' = [mask EXCEPT ![c] = mask[c] \ {"out"}]
        BY <2>16 DEF WritesAll, WritesSome, Cancelled, Keeps
      <4>3. listed' = listed \/ listed' = [listed EXCEPT ![c] = TRUE]
        BY <2>16 DEF WritesAll, WritesSome
      <4>4. mask[c] \ {"out"} \in SUBSET Events
        BY <4>1
      <4>5. mask' \in [Conns -> SUBSET Events]
        BY <4>1, <4>2, <4>4
      <4> QED
        BY <4>1, <4>3, <4>5
    <3> QED
      BY <2>16, <3>1, <3>5, <3>6 DEF WritesAll, WritesSome, TypeOK, threadVars, netVars,
          replyVars
  <2> QED
    BY <2>1, <2>2, <2>3, <2>4, <2>5, <2>6, <2>7, <2>8, <2>9, <2>10, <2>11, <2>12, <2>13, <2>14,
       <2>15, <2>16
    DEF Next, Main, IO, Services, Clients, StartUp, StartFails, AcceptWithoutThread,
        AcceptFails, RunsDestroyed, WritesToNobody, RepliesDestroyed
<1> QED
  BY <1>1, <1>2, PTL DEF Spec

-----------------------------------------------------------------------------
(* The inductive invariant.  A connection is read from, and so has calls, replies and
   OUT, only after onAccept is done with it; one that was closed never listens for IN
   again; and onRead is the first handler of its connection that waits to be run.      *)

LifeInv ==
  \A c \in Conns :
    /\ peer[c] = "none" => stage[c] = "none"
    /\ stage[c] \in {"none", "backlog"} => state[c] = "NotConnected" /\ ~listed[c]
    /\ stage[c] \in {"none", "backlog", "constructed"} =>
         state[c] # "Connected" /\ calls[c] = {} /\ out[c] = <<>>
    /\ stage[c] = "destroyed" => state[c] = "Closed"
    /\ state[c] = "Closed" => "in" \notin mask[c]

BacklogInv ==
  /\ \A i \in DOMAIN backlog : stage[backlog[i]] = "backlog"
  /\ \A i, j \in DOMAIN backlog : backlog[i] = backlog[j] => i = j

TasksInv ==
  /\ \A i \in DOMAIN tasks : stage[tasks[i].of] \notin {"none", "backlog"}
  /\ \A i, j \in DOMAIN tasks :
       i < j /\ tasks[j].kind = "onRead" /\ tasks[i].of = tasks[j].of => tasks[i].kind = "add"
  /\ \A i \in DOMAIN tasks : tasks[i].kind = "onRead" => state[tasks[i].of] # "Closed"

ServerInv == LifeInv /\ BacklogInv /\ TasksInv

\* A handler that runs is of a connection that the server has made.
LEMMA RunsServed ==
  ASSUME TypeOK, ServerInv, NEW c \in Conns, NEW kind, Runs(kind, c)
  PROVE  /\ tasks # <<>> /\ tasks[1].kind = kind /\ tasks[1].of = c
         /\ stage[c] \notin {"none", "backlog"}
<1>1. tasks # <<>> /\ Head(tasks) = [kind |-> kind, of |-> c]
  BY DEF Runs
<1>2. Head(tasks) = tasks[1] /\ 1 \in DOMAIN tasks
  BY <1>1, FirstTask
<1> QED
  BY <1>1, <1>2 DEF ServerInv, TasksInv

LEMMA LifeStep ==
  ASSUME TypeOK, ServerInv, [Next]_vars
  PROVE  LifeInv'
<1>0. LifeInv
  BY DEF ServerInv
<1>1. /\ state \in [Conns -> {"NotConnected", "Connected", "Closed"}]
      /\ mask \in [Conns -> SUBSET Events] /\ listed \in [Conns -> BOOLEAN]
      /\ stage \in [Conns -> {"none", "backlog", "constructed", "client", "destroyed"}]
      /\ peer \in [Conns -> {"none", "open", "closed"}]
      /\ calls \in [Conns -> SUBSET Nat] /\ out \in [Conns -> Seq(Nat)]
  BY DEF TypeOK
<1>2. CASE UNCHANGED <<stage, peer, state, mask, listed, calls, out>>
  BY <1>0, <1>2 DEF LifeInv
<1>3. ASSUME NEW c \in Conns, Connects(c) \/ Closes(c) PROVE LifeInv'
  BY <1>0, <1>1, <1>3 DEF LifeInv, Connects, Closes, connVars, replyVars
<1>4. CASE Accept
  <2>1. PICK c \in Conns : stage[c] = "backlog" /\ Construct(c)
    <3>1. backlog \in Seq(Conns) /\ backlog # <<>> /\ Construct(Head(backlog))
      BY <1>4 DEF Accept, TypeOK
    <3>2. 1 \in DOMAIN backlog /\ Head(backlog) = backlog[1] /\ backlog[1] \in Conns
      BY <3>1, TailElements
    <3> QED
      BY <3>1, <3>2 DEF ServerInv, BacklogInv
  <2>2. /\ stage' = [stage EXCEPT ![c] = "constructed"]
        /\ mask' = [mask EXCEPT ![c] = mask[c] \cup {"in"}]
        /\ UNCHANGED <<peer, state, listed, calls, out>>
    BY <1>4, <2>1 DEF Accept, Construct, replyVars
  <2> QED
    BY <1>0, <1>1, <2>1, <2>2 DEF LifeInv
<1>5. ASSUME NEW c \in Conns, Handover(c) PROVE LifeInv'
  BY <1>0, <1>1, <1>5 DEF LifeInv, Handover, setState, netVars, replyVars
<1>6. CASE ClearClientTimer
  BY <1>0, <1>1, <1>6 DEF LifeInv, ClearClientTimer, Droppable, netVars, connVars, replyVars
<1>7. ASSUME NEW c \in Conns, RunAdd(c) PROVE LifeInv'
  BY <1>0, <1>1, <1>7, RunsServed DEF LifeInv, RunAdd, netVars, replyVars
<1>8. CASE EpollRound
  <2>1. /\ UNCHANGED <<stage, peer, state, mask, calls, out>>
        /\ \A c \in Conns : listed'[c] => listed[c]
    BY <1>8 DEF EpollRound, netVars, replyVars
  <2> QED
    BY <1>0, <2>1 DEF LifeInv
<1>9. ASSUME NEW c \in Conns, ThenClears(c) \/ ReadsEnd(c) PROVE LifeInv'
  <2>1. /\ stage[c] \notin {"none", "backlog"} /\ UNCHANGED <<stage, peer, calls, out>>
        /\ UNCHANGED <<state, mask, listed>> \/ Cleared(c)
    BY <1>9, RunsServed DEF ThenClears, ReadsEnd, clear, connVars, netVars, replyVars
  <2> QED
    BY <1>0, <1>1, <2>1 DEF LifeInv, Cleared
<1>10. ASSUME NEW c \in Conns, ReadsRequests(c) \/ RepliesLate(c) PROVE LifeInv'
  <2>1. stage[c] \notin {"none", "backlog", "constructed"}
    BY <1>0, <1>1, <1>10 DEF LifeInv, ReadsRequests, RepliesLate
  <2>2. /\ UNCHANGED <<stage, peer, state>>
        /\ \E Q \in SUBSET Nat : calls' = [calls EXCEPT ![c] = Q]
        /\ \E replies : reply(c, replies)
    <3>1. calls[c] \subseteq Nat /\ Decoded(c) \subseteq Nat
      BY <1>1 DEF Decoded, TypeOK
    <3> QED
      BY <1>10, <3>1 DEF ReadsRequests, RepliesLate, netVars
  <2>3. /\ \E r : out' = [out EXCEPT ![c] = r]
        /\ \/ UNCHANGED <<mask, listed>>
           \/ mask' = [mask EXCEPT ![c] = @ \cup {"out"}] /\ listed' = [listed EXCEPT ![c] = TRUE]
    BY <2>2 DEF reply, listenWrite
  <2> QED
    BY <1>0, <1>1, <2>1, <2>2, <2>3 DEF LifeInv
<1>11. ASSUME NEW c \in Conns, WritesAll(c) \/ WritesSome(c) PROVE LifeInv'
  <2>1. /\ state[c] = "Connected" /\ UNCHANGED <<stage, peer, state, calls, out>>
        /\ \/ UNCHANGED <<mask, listed>>
           \/ mask' = [mask EXCEPT ![c] = @ \ {"out"}] /\ listed' = [listed EXCEPT ![c] = TRUE]
    BY <1>11 DEF WritesAll, WritesSome, Cancelled, Keeps, netVars, replyVars
  <2> QED
    BY <1>0, <1>1, <2>1 DEF LifeInv
<1> QED
  BY <1>2, <1>3, <1>4, <1>5, <1>6, <1>7, <1>8, <1>9, <1>10, <1>11
  DEF Next, Main, IO, Services, Clients, StartUp, StartFails, AcceptWithoutThread,
      AcceptFails, RunsDestroyed, WritesToNobody, RepliesDestroyed, Die, Sends, IOReady,
      MainReady, Start, Configure, Listen, IOLoops, FindsUnconnected, netVars, connVars,
      replyVars, vars

\* The kernel's queue: Connects adds a new connection, onAccept takes the first.
LEMMA BacklogStep ==
  ASSUME TypeOK, ServerInv, [Next]_vars
  PROVE  BacklogInv'
<1>0. BacklogInv /\ LifeInv
  BY DEF ServerInv
<1>1. /\ stage \in [Conns -> {"none", "backlog", "constructed", "client", "destroyed"}]
      /\ backlog \in Seq(Conns)
  BY DEF TypeOK
<1>2. CASE UNCHANGED <<backlog, stage>>
  BY <1>0, <1>2 DEF BacklogInv
<1>3. ASSUME NEW c \in Conns, Connects(c) PROVE BacklogInv'
  <2>1. stage[c] = "none"
    BY <1>0, <1>3 DEF Connects, LifeInv
  <2>2. backlog' = Append(backlog, c) /\ stage' = [stage EXCEPT ![c] = "backlog"]
    BY <1>3 DEF Connects
  <2>3. \A i \in DOMAIN backlog : backlog[i] \in Conns /\ backlog[i] # c
    BY <1>0, <1>1, <2>1 DEF BacklogInv
  <2>4. /\ DOMAIN backlog = 1 .. Len(backlog) /\ DOMAIN backlog' = 1 .. Len(backlog) + 1
        /\ Len(backlog) \in Nat
        /\ \A i \in DOMAIN backlog : backlog'[i] = backlog[i]
        /\ backlog'[Len(backlog) + 1] = c
    BY <1>1, <2>2, AppendElements
  <2>5. ASSUME NEW i \in DOMAIN backlog' PROVE stage'[backlog'[i]] = "backlog"
    BY <1>0, <1>1, <2>2, <2>3, <2>4 DEF BacklogInv
  <2>6. ASSUME NEW i \in DOMAIN backlog', NEW j \in DOMAIN backlog', backlog'[i] = backlog'[j]
        PROVE  i = j
    BY <1>0, <2>3, <2>4, <2>6 DEF BacklogInv
  <2> QED
    BY <2>5, <2>6 DEF BacklogInv
<1>4. CASE Accept
  <2>1. /\ backlog # <<>> /\ backlog' = Tail(backlog)
        /\ stage' = [stage EXCEPT ![Head(backlog)] = "constructed"]
    BY <1>4 DEF Accept, Construct
  <2>2. /\ Head(backlog) = backlog[1] /\ 1 \in DOMAIN backlog /\ DOMAIN backlog' \subseteq Nat \ {0}
        /\ \A i \in DOMAIN backlog' : i + 1 \in DOMAIN backlog /\ backlog'[i] = backlog[i + 1]
    BY <1>1, <2>1, TailElements
  <2>3. ASSUME NEW i \in DOMAIN backlog' PROVE stage'[backlog'[i]] = "backlog"
    <3>1. i + 1 # 1 /\ i + 1 \in DOMAIN backlog
      BY <2>2
    <3>2. backlog[i + 1] # backlog[1] /\ stage[backlog[i + 1]] = "backlog"
      BY <1>0, <2>2, <3>1 DEF BacklogInv
    <3>3. backlog[i + 1] \in Conns
      BY <1>1, <3>1
    <3> QED
      BY <1>1, <2>1, <2>2, <3>2, <3>3
  <2>4. ASSUME NEW i \in DOMAIN backlog', NEW j \in DOMAIN backlog', backlog'[i] = backlog'[j]
        PROVE  i = j
    <3>1. i + 1 = j + 1
      BY <1>0, <2>2, <2>4 DEF BacklogInv
    <3> QED
      BY <2>2, <3>1
  <2> QED
    BY <2>3, <2>4 DEF BacklogInv
<1>5. ASSUME NEW c \in Conns, Handover(c) PROVE BacklogInv'
  BY <1>0, <1>1, <1>5 DEF BacklogInv, Handover, netVars
<1>6. CASE ClearClientTimer
  <2>1. backlog' = backlog /\ \A c \in Conns : stage[c] = "backlog" => stage'[c] = "backlog"
    BY <1>1, <1>6 DEF ClearClientTimer, Droppable, netVars
  <2>2. \A i \in DOMAIN backlog : backlog[i] \in Conns
    BY <1>1
  <2> QED
    BY <1>0, <2>1, <2>2 DEF BacklogInv
<1> QED
  BY <1>2, <1>3, <1>4, <1>5, <1>6
  DEF Next, Main, IO, Services, Clients, StartUp, StartFails, AcceptWithoutThread,
      AcceptFails, RunsDestroyed, WritesToNobody, RepliesDestroyed, Die, Sends, Closes,
      IOReady, MainReady, Start, Configure, Listen, IOLoops, RunAdd, EpollRound,
      FindsUnconnected, ThenClears, ReadsRequests, ReadsEnd, RepliesLate, WritesAll,
      WritesSome, netVars, vars

-----------------------------------------------------------------------------
LEMMA TaskOf ==
  ASSUME tasks \in Seq(Tasks), NEW i \in DOMAIN tasks
  PROVE  tasks[i].of \in Conns
<1>1. tasks[i] \in Tasks
  OBVIOUS
<1> QED
  BY <1>1 DEF Tasks

\* What an action leaves of TasksInv that takes the first task and closes no connection,
\* or the one of the task it took.
LEMMA TookTask ==
  ASSUME TypeOK, ServerInv, tasks # <<>>, tasks' = Tail(tasks),
         \A c \in Conns :
           stage[c] \notin {"none", "backlog"} => stage'[c] \notin {"none", "backlog"},
         \A c \in Conns :
           state'[c] = "Closed" =>
             state[c] = "Closed" \/ (c = tasks[1].of /\ tasks[1].kind # "add")
  PROVE  TasksInv'
<1>0. TasksInv /\ tasks \in Seq(Tasks)
  BY DEF ServerInv, TypeOK
<1>1. /\ 1 \in DOMAIN tasks /\ DOMAIN tasks' \subseteq Nat \ {0}
      /\ \A i \in DOMAIN tasks' : i + 1 \in DOMAIN tasks /\ tasks'[i] = tasks[i + 1]
  BY <1>0, TailElements
<1>2. \A i \in DOMAIN tasks : tasks[i].of \in Conns
  BY <1>0, TaskOf
<1>3. ASSUME NEW i \in DOMAIN tasks' PROVE stage'[tasks'[i].of] \notin {"none", "backlog"}
  BY <1>0, <1>1, <1>2 DEF TasksInv
<1>4. ASSUME NEW i \in DOMAIN tasks', NEW j \in DOMAIN tasks', i < j,
             tasks'[j].kind = "onRead", tasks'[i].of = tasks'[j].of
      PROVE  tasks'[i].kind = "add"
  <2>1. i + 1 < j + 1 /\ i + 1 \in DOMAIN tasks /\ j + 1 \in DOMAIN tasks
    BY <1>1, <1>4
  <2> QED
    BY <1>0, <1>1, <1>4, <2>1 DEF TasksInv
<1>5. ASSUME NEW i \in DOMAIN tasks', tasks'[i].kind = "onRead"
      PROVE  state'[tasks'[i].of] # "Closed"
  <2>1. i + 1 \in DOMAIN tasks /\ 1 < i + 1 /\ tasks[i + 1].kind = "onRead"
    BY <1>1, <1>5
  <2>2. state[tasks[i + 1].of] # "Closed"
    BY <1>0, <2>1 DEF TasksInv
  <2>3. tasks[1].of = tasks[i + 1].of => tasks[1].kind = "add"
    BY <1>0, <1>1, <2>1 DEF TasksInv
  <2> QED
    BY <1>1, <1>2, <2>1, <2>2, <2>3
<1> QED
  BY <1>3, <1>4, <1>5 DEF TasksInv

LEMMA TasksStep ==
  ASSUME TypeOK, ServerInv, [Next]_vars
  PROVE  TasksInv'
<1>0. TasksInv /\ LifeInv /\ BacklogInv
  BY DEF ServerInv
<1>1. /\ tasks \in Seq(Tasks)
      /\ state \in [Conns -> {"NotConnected", "Connected", "Closed"}]
      /\ stage \in [Conns -> {"none", "backlog", "constructed", "client", "destroyed"}]
      /\ peer \in [Conns -> {"none", "open", "closed"}]
  BY DEF TypeOK
<1>a. \A i \in DOMAIN tasks : tasks[i].of \in Conns
  BY <1>1, TaskOf
<1>2. CASE /\ UNCHANGED tasks
           /\ \A c \in Conns :
                stage[c] \notin {"none", "backlog"} => stage'[c] \notin {"none", "backlog"}
           /\ \A c \in Conns : state'[c] = "Closed" => state[c] = "Closed"
  BY <1>0, <1>a, <1>2 DEF TasksInv
<1>3. ASSUME NEW c \in Conns, Connects(c) PROVE TasksInv'
  <2>1. stage[c] = "none"
    BY <1>0, <1>3 DEF Connects, LifeInv
  <2> QED
    BY <1>0, <1>1, <1>3, <1>a, <2>1 DEF Connects, TasksInv, connVars
<1>4. CASE Accept
  <2> DEFINE c == Head(backlog)
             new == [kind |-> "add", of |-> c]
  <2>1. /\ backlog # <<>> /\ tasks' = Append(tasks, new) /\ state' = state
        /\ stage' = [stage EXCEPT ![c] = "constructed"]
    BY <1>4 DEF Accept, Construct
  <2>2. c \in Conns /\ new \in Tasks
    <3>1. backlog \in Seq(Conns)
      BY DEF TypeOK
    <3>2. c \in Conns
      BY <2>1, <3>1
    <3> QED
      BY <3>2 DEF Tasks
  <2>n. new.kind = "add" /\ new.of = c
    OBVIOUS
  <2> HIDE DEF new
  <2>3. /\ DOMAIN tasks = 1 .. Len(tasks) /\ DOMAIN tasks' = 1 .. Len(tasks) + 1 /\ Len(tasks) \in Nat
        /\ \A i \in DOMAIN tasks : tasks'[i] = tasks[i]
        /\ tasks'[Len(tasks) + 1] = new
    BY <1>1, <2>1, <2>2, AppendElements
  <2> HIDE DEF c
  <2>4. ASSUME NEW i \in DOMAIN tasks' PROVE stage'[tasks'[i].of] \notin {"none", "backlog"}
    <3>1. CASE i \in DOMAIN tasks
      BY <1>0, <1>1, <1>a, <2>1, <2>2, <2>3, <3>1 DEF TasksInv
    <3>2. CASE i = Len(tasks) + 1
      BY <1>1, <2>1, <2>2, <2>3, <2>n, <3>2
    <3> QED
      BY <2>3, <3>1, <3>2
  <2>5. ASSUME NEW i \in DOMAIN tasks', NEW j \in DOMAIN tasks', i < j,
               tasks'[j].kind = "onRead", tasks'[i].of = tasks'[j].of
        PROVE  tasks'[i].kind = "add"
    <3>1. j # Len(tasks) + 1
      BY <2>3, <2>5, <2>n
    <3>2. i \in DOMAIN tasks /\ j \in DOMAIN tasks
      BY <2>3, <2>5, <3>1
    <3> QED
      BY <1>0, <2>3, <2>5, <3>2 DEF TasksInv
  <2>6. ASSUME NEW i \in DOMAIN tasks', tasks'[i].kind = "onRead"
        PROVE  state'[tasks'[i].of] # "Closed"
    <3>1. i # Len(tasks) + 1
      BY <2>3, <2>6, <2>n
    <3>2. i \in DOMAIN tasks
      BY <2>3, <3>1
    <3> QED
      BY <1>0, <2>1, <2>3, <2>6, <3>2 DEF TasksInv
  <2> QED
    BY <2>4, <2>5, <2>6 DEF TasksInv
<1>5. CASE EpollRound
  <2>1. PICK s \in Orders : tasks' = tasks \o s
    BY <1>5 DEF EpollRound
  <2>2. /\ UNCHANGED <<stage, state>>
        /\ \A i \in DOMAIN tasks : tasks[i].kind = "add"
    BY <1>5 DEF EpollRound
  <2>3. /\ s \in Seq(Tasks)
        /\ \A i \in DOMAIN s : s[i].of \in Conns /\ Due(s[i].kind, s[i].of)
        /\ \A i, j \in DOMAIN s : s[j].kind = "onRead" /\ s[i].of = s[j].of => j <= i
    BY OrderFacts
  <2>4. /\ DOMAIN tasks = 1 .. Len(tasks) /\ DOMAIN s = 1 .. Len(s)
        /\ Len(tasks) \in Nat /\ Len(s) \in Nat
        /\ DOMAIN tasks' = 1 .. Len(tasks) + Len(s)
        /\ \A i \in DOMAIN tasks : tasks'[i] = tasks[i]
        /\ \A i \in DOMAIN s : tasks'[Len(tasks) + i] = s[i]
    BY <1>1, <2>1, <2>3, JoinElements
  <2>5. \A i \in DOMAIN tasks' : i \in DOMAIN tasks
                                   \/ \E k \in DOMAIN s : i = Len(tasks) + k /\ tasks'[i] = s[k]
    <3>1. ASSUME NEW i \in DOMAIN tasks', i \notin DOMAIN tasks
          PROVE  i - Len(tasks) \in DOMAIN s /\ i = Len(tasks) + (i - Len(tasks))
      BY <2>4, <3>1
    <3> QED
      BY <2>4, <3>1
  <2>6. ASSUME NEW i \in DOMAIN tasks' PROVE stage'[tasks'[i].of] \notin {"none", "backlog"}
    BY <1>0, <2>2, <2>3, <2>4, <2>5 DEF TasksInv, LifeInv, Due
  <2>7. ASSUME NEW i \in DOMAIN tasks', NEW j \in DOMAIN tasks', i < j,
               tasks'[j].kind = "onRead", tasks'[i].of = tasks'[j].of
        PROVE  tasks'[i].kind = "add"
    <3>1. CASE i \in DOMAIN tasks
      BY <2>2, <2>4, <3>1
    <3>2. CASE i \notin DOMAIN tasks
      <4>1. PICK k \in DOMAIN s : i = Len(tasks) + k /\ tasks'[i] = s[k]
        BY <2>5, <3>2
      <4>2. j \notin DOMAIN tasks
        BY <2>4, <2>7, <4>1
      <4>3. PICK l \in DOMAIN s : j = Len(tasks) + l /\ tasks'[j] = s[l]
        BY <2>5, <4>2
      <4>4. l <= k
        BY <2>3, <2>7, <4>1, <4>3
      <4> QED
        BY <2>4, <2>7, <4>1, <4>3, <4>4
    <3> QED
      BY <3>1, <3>2
  <2>8. ASSUME NEW i \in DOMAIN tasks', tasks'[i].kind = "onRead"
        PROVE  state'[tasks'[i].of] # "Closed"
    BY <1>0, <2>2, <2>3, <2>4, <2>5, <2>8 DEF TasksInv, LifeInv, Due
  <2> QED
    BY <2>6, <2>7, <2>8 DEF TasksInv
<1>6. ASSUME NEW c \in Conns, FindsUnconnected(c) PROVE TasksInv'
  <2>1. PICK h \in Handlers : Runs(h, c)
    BY <1>6 DEF FindsUnconnected
  <2>2. tasks # <<>> /\ tasks[1].kind = h /\ tasks[1].of = c
    BY <2>1, RunsServed DEF Handlers
  <2>3. tasks' = [tasks EXCEPT ![1].kind = "clear"] /\ UNCHANGED <<stage, state>>
    BY <1>6 DEF FindsUnconnected, connVars
  <2>4. /\ DOMAIN tasks = 1 .. Len(tasks) /\ Len(tasks) \in Nat /\ 1 \in DOMAIN tasks
        /\ tasks[1] \in Tasks
    BY <1>1, <2>2, TailElements
  <2>5. /\ DOMAIN tasks' = DOMAIN tasks
        /\ \A i \in DOMAIN tasks : i # 1 => tasks'[i] = tasks[i]
        /\ tasks'[1].kind = "clear" /\ tasks'[1].of = tasks[1].of
    BY <1>1, <2>3, <2>4 DEF Tasks
  <2>6. \A j \in DOMAIN tasks : j > 1 /\ tasks[j].kind = "onRead" => tasks[j].of # c
    BY <1>0, <2>2, <2>4 DEF TasksInv, Handlers
  <2>7. ASSUME NEW i \in DOMAIN tasks' PROVE stage'[tasks'[i].of] \notin {"none", "backlog"}
    BY <1>0, <2>3, <2>4, <2>5 DEF TasksInv
  <2>8. ASSUME NEW i \in DOMAIN tasks', NEW j \in DOMAIN tasks', i < j,
               tasks'[j].kind = "onRead", tasks'[i].of = tasks'[j].of
        PROVE  tasks'[i].kind = "add"
    <3>1. j > 1 /\ tasks'[j] = tasks[j] /\ i \in DOMAIN tasks /\ j \in DOMAIN tasks
      BY <2>4, <2>5, <2>8
    <3>2. i # 1
      BY <2>2, <2>5, <2>6, <2>8, <3>1
    <3> QED
      BY <1>0, <2>5, <2>8, <3>1, <3>2 DEF TasksInv
  <2>9. ASSUME NEW i \in DOMAIN tasks', tasks'[i].kind = "onRead"
        PROVE  state'[tasks'[i].of] # "Closed"
    BY <1>0, <2>3, <2>4, <2>5, <2>9 DEF TasksInv
  <2> QED
    BY <2>7, <2>8, <2>9 DEF TasksInv
<1>7. ASSUME NEW c \in Conns, RunAdd(c) \/ ReadsRequests(c) \/ WritesAll(c) \/ WritesSome(c)
      PROVE  TasksInv'
  <2>1. tasks # <<>> /\ tasks' = Tail(tasks) /\ UNCHANGED <<stage, state>>
    BY <1>7 DEF RunAdd, ReadsRequests, WritesAll, WritesSome, Runs
  <2> QED
    BY <2>1, TookTask
<1>8. ASSUME NEW c \in Conns, ThenClears(c) \/ ReadsEnd(c) PROVE TasksInv'
  <2>1. tasks # <<>> /\ tasks[1].of = c /\ tasks[1].kind # "add"
    BY <1>8, RunsServed DEF ThenClears, ReadsEnd
  <2>2. /\ tasks' = Tail(tasks) /\ UNCHANGED stage
        /\ state' = state \/ state' = [state EXCEPT ![c] = "Closed"]
    BY <1>8 DEF ThenClears, ReadsEnd, clear, Cleared, connVars
  <2>3. \A d \in Conns : state'[d] = "Closed" => state[d] = "Closed" \/ d = c
    BY <1>1, <2>2
  <2> QED
    BY <2>1, <2>2, <2>3, TookTask
<1>9. CASE ClearClientTimer \/ \E c \in Conns : Handover(c)
  BY <1>1, <1>2, <1>9 DEF ClearClientTimer, Droppable, Handover, setState, connVars
<1> QED
  BY <1>2, <1>3, <1>4, <1>5, <1>6, <1>7, <1>8, <1>9
  DEF Next, Main, IO, Services, Clients, StartUp, StartFails, AcceptWithoutThread,
      AcceptFails, RunsDestroyed, WritesToNobody, RepliesDestroyed, RepliesLate, Die,
      Sends, Closes, IOReady, MainReady, Start, Configure, Listen, IOLoops, connVars, vars

LEMMA ServerInvariant == Spec => []ServerInv
<1>1. Init => ServerInv
  BY DEF Init, ServerInv, LifeInv, BacklogInv, TasksInv
<1>2. TypeOK /\ ServerInv /\ [Next]_vars => ServerInv'
  BY LifeStep, BacklogStep, TasksStep DEF ServerInv
<1> QED
  BY <1>1, <1>2, ServerTypeCorrect, PTL DEF Spec

-----------------------------------------------------------------------------
\* clearClientTimer destroys a connection that is closed, and none of those has onRead
\* waiting to be run (clear, onRead, TcpServer::clearClientTimer).
THEOREM ServerReadsTheLiving == Spec => []NoReadAfterDestroy
<1>1. TypeOK /\ ServerInv => NoReadAfterDestroy
  <2> SUFFICES ASSUME TypeOK, ServerInv, NEW i \in DOMAIN tasks, stage[tasks[i].of] = "destroyed"
               PROVE  tasks[i].kind # "onRead"
    BY DEF NoReadAfterDestroy
  <2>1. tasks[i].of \in Conns
    BY TaskOf DEF TypeOK
  <2> QED
    BY <2>1 DEF ServerInv, LifeInv, TasksInv
<1> QED
  BY <1>1, ServerTypeCorrect, ServerInvariant, PTL

-----------------------------------------------------------------------------
(* Replies *)

InOrder(w, o) ==
  \A n \in DOMAIN w : \E j \in DOMAIN o :
    w[n] = o[j] /\ \A i \in 1 .. (j - 1) : \E m \in 1 .. (n - 1) : w[m] = o[i]

LEMMA ReplyKeepsOrder ==
  ASSUME NEW o \in Seq(Nat), NEW w \in Seq(Nat), NEW r \in Seq(Nat), InOrder(w, o)
  PROVE  InOrder(w, o \o r)
<1> SUFFICES ASSUME NEW n \in DOMAIN w
             PROVE  \E j \in DOMAIN (o \o r) :
                      /\ w[n] = (o \o r)[j]
                      /\ \A i \in 1 .. (j - 1) : \E m \in 1 .. (n - 1) : w[m] = (o \o r)[i]
  BY DEF InOrder
<1>1. PICK j \in DOMAIN o :
        w[n] = o[j] /\ \A i \in 1 .. (j - 1) : \E m \in 1 .. (n - 1) : w[m] = o[i]
  BY DEF InOrder
<1>2. /\ DOMAIN o = 1 .. Len(o) /\ Len(o) \in Nat /\ Len(r) \in Nat
      /\ DOMAIN (o \o r) = 1 .. Len(o) + Len(r)
      /\ \A i \in DOMAIN o : (o \o r)[i] = o[i]
  BY JoinElements
<1>3. j \in DOMAIN (o \o r) /\ \A i \in 1 .. (j - 1) : i \in DOMAIN o
  BY <1>1, <1>2
<1> QED
  BY <1>1, <1>2, <1>3

LEMMA WriteKeepsOrder ==
  ASSUME NEW o \in Seq(Nat), NEW w \in Seq(Nat), NEW k \in 0 .. Len(o), InOrder(w, o)
  PROVE  InOrder(w \o SubSeq(o, 1, k), o)
<1> DEFINE p == SubSeq(o, 1, k)
           v == w \o p
<1>1. /\ p \in Seq(Nat) /\ DOMAIN p = 1 .. k /\ Len(p) = k
      /\ \A i \in 1 .. k : p[i] = o[i]
  BY PrefixElements
<1>k. k \in Nat
  OBVIOUS
<1> HIDE DEF p
<1>2. /\ DOMAIN w = 1 .. Len(w) /\ Len(w) \in Nat
      /\ DOMAIN v = 1 .. Len(w) + Len(p)
      /\ \A i \in DOMAIN w : v[i] = w[i]
      /\ \A i \in DOMAIN p : v[Len(w) + i] = p[i]
  <2> HIDE DEF v
  <2>1. v = w \o p
    BY DEF v
  <2>2. w \in Seq(Nat) /\ p \in Seq(Nat)
    BY <1>1
  <2> QED
    BY <2>1, <2>2, JoinElements
<1> HIDE DEF v
<1> SUFFICES ASSUME NEW n \in DOMAIN v
             PROVE  \E j \in DOMAIN o :
                      v[n] = o[j] /\ \A i \in 1 .. (j - 1) : \E m \in 1 .. (n - 1) : v[m] = o[i]
  BY DEF InOrder, v, p
<1>3. /\ DOMAIN w = 1 .. Len(w) /\ Len(w) \in Nat
      /\ DOMAIN v = 1 .. Len(w) + k
      /\ \A i \in DOMAIN w : v[i] = w[i]
      /\ \A i \in 1 .. k : v[Len(w) + i] = o[i]
  BY <1>1, <1>2
<1>4. CASE n \in DOMAIN w
  <2>1. PICK j \in DOMAIN o :
          w[n] = o[j] /\ \A i \in 1 .. (j - 1) : \E m \in 1 .. (n - 1) : w[m] = o[i]
    BY <1>4 DEF InOrder
  <2>2. \A m \in 1 .. (n - 1) : m \in DOMAIN w
    BY <1>3, <1>4
  <2> QED
    BY <1>3, <1>4, <2>1, <2>2
<1>5. CASE n \notin DOMAIN w
  <2> DEFINE j == n - Len(w)
  <2>1. j \in 1 .. k /\ j \in DOMAIN o /\ n = Len(w) + j
    BY <1>3, <1>5
  <2>2. v[n] = o[j]
    BY <1>3, <2>1
  <2>3. ASSUME NEW i \in 1 .. (j - 1) PROVE \E m \in 1 .. (n - 1) : v[m] = o[i]
    <3>1. i \in 1 .. k /\ Len(w) + i \in 1 .. (n - 1)
      <4> HIDE DEF j
      <4>1. j \in Nat /\ j <= k /\ Len(w) \in Nat
        BY <1>3, <1>k, <2>1
      <4>2. n - 1 = Len(w) + j - 1
        BY <2>1, <4>1
      <4> QED
        BY <1>k, <4>1, <4>2
    <3> QED
      BY <1>3, <3>1
  <2> HIDE DEF j
  <2> QED
    BY <2>1, <2>2, <2>3
<1> QED
  BY <1>4, <1>5

\* What the steps do to the replies of a connection: reply adds to m_out_buffer and
\* registers OUT; onWrite writes a part of it from its start, and cancels OUT only when
\* that was all.
LEMMA ReplySteps ==
  ASSUME TypeOK, [Next]_vars
  PROVE  \/ UNCHANGED <<out, wire>>
         \/ \E c \in Conns, r \in Seq(Nat) :
              /\ out' = [out EXCEPT ![c] = @ \o r] /\ UNCHANGED <<wire, state, peer>>
              /\ \/ r = <<>> /\ UNCHANGED <<mask, listed>>
                 \/ listenWrite(c)
         \/ \E c \in Conns : \E k \in 0 .. Len(out[c]) :
              /\ wire' = [wire EXCEPT ![c] = @ \o SubSeq(out[c], 1, k)]
              /\ UNCHANGED <<out, state, peer>>
              /\ \/ UNCHANGED <<mask, listed>>
                 \/ /\ k = Len(out[c]) /\ mask' = Cancelled(c)
                    /\ listed' = [listed EXCEPT ![c] = TRUE]
<1>1. ASSUME NEW c \in Conns, ReadsRequests(c)
      PROVE  \E r \in Seq(Nat) : /\ out' = [out EXCEPT ![c] = @ \o r]
                                 /\ UNCHANGED <<wire, state, peer>>
                                 /\ (r = <<>> /\ UNCHANGED <<mask, listed>>) \/ listenWrite(c)
  <2>1. PICK r \in InTurn(Decoded(c)) : reply(c, r)
    BY <1>1 DEF ReadsRequests
  <2>2. r \in Seq(Nat)
    <3>1. sent[c] \in Nat /\ read[c] \in Nat
      BY DEF TypeOK
    <3> QED
      BY <2>1, <3>1, InTurnType DEF Decoded
  <2> QED
    BY <1>1, <2>1, <2>2 DEF ReadsRequests, reply, Encoded, netVars
<1>2. ASSUME NEW c \in Conns, RepliesLate(c)
      PROVE  \E r \in Seq(Nat) : /\ out' = [out EXCEPT ![c] = @ \o r]
                                 /\ UNCHANGED <<wire, state, peer>>
                                 /\ (r = <<>> /\ UNCHANGED <<mask, listed>>) \/ listenWrite(c)
  <2>1. PICK q \in calls[c] : reply(c, <<q>>)
    BY <1>2 DEF RepliesLate
  <2>2. <<q>> \in Seq(Nat)
    BY <2>1 DEF TypeOK
  <2> QED
    BY <1>2, <2>1, <2>2 DEF RepliesLate, reply, Encoded, netVars
<1>3. ASSUME NEW c \in Conns, WritesAll(c)
      PROVE  \E k \in 0 .. Len(out[c]) :
               /\ wire' = [wire EXCEPT ![c] = @ \o SubSeq(out[c], 1, k)]
               /\ UNCHANGED <<out, state, peer>>
               /\ k = Len(out[c]) /\ mask' = Cancelled(c) /\ listed' = [listed EXCEPT ![c] = TRUE]
  <2>1. out[c] \in Seq(Nat)
    BY DEF TypeOK
  <2>2. Len(out[c]) \in 0 .. Len(out[c]) /\ SubSeq(out[c], 1, Len(out[c])) = out[c]
    BY <2>1
  <2> QED
    BY <1>3, <2>2 DEF WritesAll, netVars, replyVars
<1>4. ASSUME NEW c \in Conns, WritesSome(c)
      PROVE  \E k \in 0 .. Len(out[c]) :
               /\ wire' = [wire EXCEPT ![c] = @ \o SubSeq(out[c], 1, k)]
               /\ UNCHANGED <<out, state, peer, mask, listed>>
  BY <1>4 DEF WritesSome, Keeps, netVars, replyVars
<1> QED
  BY <1>1, <1>2, <1>3, <1>4
  DEF Next, Main, IO, Services, Clients, StartUp, StartFails, AcceptWithoutThread,
      AcceptFails, RunsDestroyed, WritesToNobody, Accept, RepliesDestroyed, Die, Sends,
      Closes, Connects, Handover, ClearClientTimer, IOReady, MainReady, Start, Configure,
      Listen, IOLoops, RunAdd, EpollRound, FindsUnconnected, ThenClears, ReadsEnd,
      replyVars, vars

\* For any number of requests, late replies and writes cut short: the client sees the
\* replies for the first time in the order in which they were given (reply, onWrite).
THEOREM ServerAnswersInOrder == Spec => []AnswersInOrder
<1>1. Init => AnswersInOrder
  BY DEF Init, AnswersInOrder
<1>2. TypeOK /\ AnswersInOrder /\ [Next]_vars => AnswersInOrder'
  <2> SUFFICES ASSUME TypeOK, AnswersInOrder, [Next]_vars
               PROVE  \A d \in Conns : InOrder(wire'[d], out'[d])
    BY DEF AnswersInOrder, InOrder
  <2>i. \A d \in Conns : InOrder(wire[d], out[d])
    BY DEF AnswersInOrder, InOrder
  <2>0. out \in [Conns -> Seq(Nat)] /\ wire \in [Conns -> Seq(Nat)]
    BY DEF TypeOK
  <2>1. CASE UNCHANGED <<out, wire>>
    BY <2>1, <2>i
  <2>2. ASSUME NEW c \in Conns, NEW r \in Seq(Nat), out' = [out EXCEPT ![c] = @ \o r], wire' = wire
        PROVE  \A d \in Conns : InOrder(wire'[d], out'[d])
    <3>1. InOrder(wire[c], out[c] \o r)
      BY <2>0, <2>i, ReplyKeepsOrder
    <3> QED
      BY <2>0, <2>2, <2>i, <3>1
  <2>3. ASSUME NEW c \in Conns, NEW k \in 0 .. Len(out[c]), out' = out,
               wire' = [wire EXCEPT ![c] = @ \o SubSeq(out[c], 1, k)]
        PROVE  \A d \in Conns : InOrder(wire'[d], out'[d])
    <3>1. InOrder(wire[c] \o SubSeq(out[c], 1, k), out[c])
      BY <2>0, <2>i, WriteKeepsOrder
    <3> QED
      BY <2>0, <2>3, <2>i, <3>1
  <2> QED
    BY <2>1, <2>2, <2>3, ReplySteps
<1> QED
  BY <1>1, <1>2, ServerTypeCorrect, PTL DEF Spec

\* A reply that is not written keeps OUT registered while the client is there: whatever
\* reads, writes, late replies and the resets of other clients do to the FdEvent and the
\* epoll set, for any number of connections (reply, listenWrite, onWrite, clear).
THEOREM ServerWatchesUnsent == Spec => []UnsentIsWatched
<1>1. Init => UnsentIsWatched
  BY DEF Init, UnsentIsWatched
<1>2. TypeOK /\ ServerInv /\ UnsentIsWatched /\ [Next]_vars => UnsentIsWatched'
  <2> SUFFICES ASSUME TypeOK, ServerInv, UnsentIsWatched, [Next]_vars,
                      NEW d \in Conns, state'[d] = "Connected", peer'[d] = "open",
                      ~(ToSet(out'[d]) \subseteq ToSet(wire'[d]))
               PROVE  listed'[d] /\ "out" \in mask'[d]
    BY DEF UnsentIsWatched
  <2>0. /\ out \in [Conns -> Seq(Nat)] /\ wire \in [Conns -> Seq(Nat)]
        /\ state \in [Conns -> {"NotConnected", "Connected", "Closed"}]
        /\ mask \in [Conns -> SUBSET Events] /\ listed \in [Conns -> BOOLEAN]
        /\ peer \in [Conns -> {"none", "open", "closed"}]
    BY DEF TypeOK
  <2>u. state[d] = "Connected" /\ peer[d] = "open" /\ ~(ToSet(out[d]) \subseteq ToSet(wire[d]))
          => listed[d] /\ "out" \in mask[d]
    BY DEF UnsentIsWatched
  <2>1. ASSUME NEW c \in Conns, NEW r \in Seq(Nat), out' = [out EXCEPT ![c] = @ \o r],
               UNCHANGED <<wire, state, peer>>,
               (r = <<>> /\ UNCHANGED <<mask, listed>>) \/ listenWrite(c)
        PROVE  listed'[d] /\ "out" \in mask'[d]
    <3>1. CASE listenWrite(c) /\ d = c
      BY <2>0, <3>1 DEF listenWrite
    <3>2. CASE listenWrite(c) /\ d # c
      <4>1. out'[d] = out[d] /\ mask'[d] = mask[d] /\ listed'[d] = listed[d]
        BY <2>0, <2>1, <3>2 DEF listenWrite
      <4> QED
        BY <2>1, <2>u, <4>1
    <3>3. CASE r = <<>> /\ UNCHANGED <<mask, listed>>
      <4>1. out[c] \in Seq(Nat) /\ out[c] \o r = out[c]
        BY <2>0, <3>3
      <4>2. out'[d] = out[d]
        BY <2>0, <2>1, <4>1
      <4> QED
        BY <2>1, <2>u, <3>3, <4>2
    <3> QED
      BY <2>1, <3>1, <3>2, <3>3
  <2>2. ASSUME NEW c \in Conns, NEW k \in 0 .. Len(out[c]), UNCHANGED <<out, state, peer>>,
               wire' = [wire EXCEPT ![c] = @ \o SubSeq(out[c], 1, k)],
               \/ UNCHANGED <<mask, listed>>
               \/ /\ k = Len(out[c]) /\ mask' = Cancelled(c)
                  /\ listed' = [listed EXCEPT ![c] = TRUE]
        PROVE  listed'[d] /\ "out" \in mask'[d]
    <3>1. CASE d # c
      <4>1. wire'[d] = wire[d] /\ mask'[d] = mask[d] /\ listed'[d] = listed[d]
        BY <2>0, <2>2, <3>1 DEF Cancelled
      <4> QED
        BY <2>2, <2>u, <4>1
    <3>2. CASE d = c
      <4>1. out[c] \in Seq(Nat) /\ wire[c] \in Seq(Nat) /\ wire'[c] = wire[c] \o SubSeq(out[c], 1, k)
        BY <2>0, <2>2
      <4>2. SubSeq(out[c], 1, k) \in Seq(Nat)
        BY <4>1, PrefixElements
      <4>3. /\ ToSet(wire[c]) \subseteq ToSet(wire'[c])
            /\ ToSet(SubSeq(out[c], 1, k)) \subseteq ToSet(wire'[c])
        BY <4>1, <4>2, JoinSets
      <4>4. k # Len(out[c])
        <5>1. SubSeq(out[c], 1, Len(out[c])) = out[c]
          BY <4>1
        <5> QED
          BY <2>2, <3>2, <4>3, <5>1
      <4> QED
        BY <2>2, <2>u, <3>2, <4>3, <4>4
    <3> QED
      BY <3>1, <3>2
  <2>3. ASSUME UNCHANGED <<out, wire>>
        PROVE  listed'[d] /\ "out" \in mask'[d]
    <3>u. ~(ToSet(out[d]) \subseteq ToSet(wire[d]))
      BY <2>3
    <3>1. out[d] # <<>>
      BY <3>u DEF ToSet
    <3>2. stage[d] \notin {"none", "backlog", "constructed"}
      BY <3>1 DEF ServerInv, LifeInv
    <3>3. CASE state' = state /\ UNCHANGED <<mask, listed>> /\ (peer'[d] = "open" => peer[d] = "open")
      BY <2>u, <3>3, <3>u
    <3>4. ASSUME NEW c \in Conns, Connects(c) PROVE listed'[d] /\ "out" \in mask'[d]
      <4>1. c # d
        BY <3>2, <3>4 DEF Connects, ServerInv, LifeInv
      <4> QED
        BY <2>0, <2>u, <3>4, <3>u, <4>1 DEF Connects, connVars
    <3>5. CASE Accept
      <4>1. UNCHANGED <<state, listed, peer>> /\ mask' = [mask EXCEPT ![Head(backlog)] = @ \cup {"in"}]
        BY <3>5 DEF Accept, Construct
      <4> QED
        BY <2>0, <2>u, <3>u, <4>1
    <3>6. ASSUME NEW c \in Conns, Handover(c) PROVE listed'[d] /\ "out" \in mask'[d]
      <4>1. c # d
        BY <3>2, <3>6 DEF Handover
      <4> QED
        BY <2>0, <2>u, <3>6, <3>u, <4>1 DEF Handover, setState, netVars
    <3>7. ASSUME NEW c \in Conns, RunAdd(c) PROVE listed'[d] /\ "out" \in mask'[d]
      BY <2>0, <2>u, <3>7, <3>u DEF RunAdd, netVars
    <3>8. CASE EpollRound
      <4>1. /\ UNCHANGED <<state, mask, peer>>
            /\ \E reset \in SUBSET {c \in Conns : peer[c] = "closed" /\ \E h \in Handlers : Due(h, c)} :
                 listed' = [c \in Conns |-> listed[c] /\ c \notin reset]
        BY <3>8 DEF EpollRound, netVars
      <4>2. peer[d] # "closed"
        BY <4>1
      <4> QED
        BY <2>u, <3>u, <4>1, <4>2
    <3>9. ASSUME NEW c \in Conns, ThenClears(c) \/ ReadsEnd(c) PROVE listed'[d] /\ "out" \in mask'[d]
      <4>1. peer' = peer /\ (UNCHANGED <<state, mask, listed>> \/ Cleared(c))
        BY <3>9 DEF ThenClears, ReadsEnd, clear, connVars, netVars
      <4>2. CASE Cleared(c)
        <5>1. c # d
          BY <2>0, <4>2 DEF Cleared
        <5> QED
          BY <2>0, <2>u, <3>u, <4>1, <4>2, <5>1 DEF Cleared
      <4> QED
        BY <2>u, <3>u, <4>1, <4>2
    <3>10. ASSUME NEW c \in Conns, Closes(c) PROVE listed'[d] /\ "out" \in mask'[d]
      BY <2>0, <2>u, <3>10, <3>u DEF Closes, connVars
    <3>11. ASSUME NEW c \in Conns, ReadsRequests(c) \/ RepliesLate(c) \/ WritesAll(c) \/ WritesSome(c)
           PROVE  listed'[d] /\ "out" \in mask'[d]
      <4>1. UNCHANGED <<state, peer>>
        BY <3>11 DEF ReadsRequests, RepliesLate, WritesAll, WritesSome, netVars
      <4>2. listed[d] /\ "out" \in mask[d]
        BY <2>u, <3>u, <4>1
      <4>3. (UNCHANGED <<mask, listed>>) \/ listenWrite(c)
              \/ (WritesAll(c) /\ mask' = Cancelled(c) /\ listed' = [listed EXCEPT ![c] = TRUE])
        BY <3>11 DEF ReadsRequests, RepliesLate, WritesAll, WritesSome, reply, Keeps
      <4>4. CASE WritesAll(c)
        <5>1. out[c] \in Seq(Nat) /\ wire[c] \in Seq(Nat) /\ wire'[c] = wire[c] \o out[c]
          BY <2>0, <4>4 DEF WritesAll
        <5>2. ToSet(out[c]) \subseteq ToSet(wire'[c])
          BY <5>1, JoinSets
        <5>3. c # d
          BY <2>3, <3>u, <5>2
        <5> QED
          BY <2>0, <4>2, <4>4, <5>3 DEF WritesAll, Cancelled
      <4> QED
        BY <2>0, <4>2, <4>3, <4>4 DEF listenWrite
    <3> QED
      BY <3>3, <3>4, <3>5, <3>6, <3>7, <3>8, <3>9, <3>10, <3>11
      DEF Next, Main, IO, Services, Clients, StartUp, StartFails, AcceptWithoutThread,
          AcceptFails, RunsDestroyed, WritesToNobody, RepliesDestroyed, Die, Sends,
          ClearClientTimer, IOReady, MainReady, Start, Configure, Listen, IOLoops,
          FindsUnconnected, connVars, netVars, vars
  <2> QED
    BY <2>1, <2>2, <2>3, ReplySteps
<1> QED
  BY <1>1, <1>2, ServerTypeCorrect, ServerInvariant, PTL DEF Spec
=============================================================================
