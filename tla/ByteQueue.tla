----------------------------- MODULE ByteQueue -----------------------------
(***************************************************************************)
(* What a buffer promises to the connection that owns it: the bytes put    *)
(* in come out in their order, none is lost, none is invented.             *)
(***************************************************************************)
EXTENDS Integers, Sequences

VARIABLE queue

Init == queue = <<>>

\* Bytes are appended: the old queue is a prefix of the new one.
Put == /\ Len(queue') > Len(queue)
       /\ \A k \in 1 .. Len(queue) : queue'[k] = queue[k]

\* Some are taken, from the front.
Get == LET n == Len(queue) - Len(queue') IN
       /\ n > 0
       /\ queue' = SubSeq(queue, n + 1, Len(queue))

Next == Put \/ Get

Spec == Init /\ [][Next]_queue
=============================================================================
