----------------------------- MODULE TaskMailbox -----------------------------
(***************************************************************************)
(* What an EventLoop promises to whoever calls addTask: one queue, emptied *)
(* from the front by a single consumer that runs one task at a time, in    *)
(* the order in which the tasks were added, until the mailbox is closed.   *)
(* Nothing is said of wake-ups, of batches or of epoll; EventLoop.tla      *)
(* shows that the two queues of the code implement this one queue.         *)
(***************************************************************************)
EXTENDS Sequences

CONSTANTS Task,     \* the tasks that may be added
          NoTask    \* the consumer runs nothing

VARIABLES queue,    \* tasks added and not yet taken
          running,  \* the task the consumer is running, or NoTask
          open      \* FALSE once the consumer has left for good

mvars == <<queue, running, open>>

MInit == /\ queue = <<>>
         /\ running = NoTask
         /\ open = TRUE

\* Any thread adds a task; it goes to the end of the queue, even of a closed
\* mailbox, where it stays for ever.
Add == /\ \E x \in Task : queue' = Append(queue, x)
       /\ UNCHANGED <<running, open>>

\* The consumer takes the oldest task, and only that one.
Take == /\ open = TRUE /\ running = NoTask /\ queue # <<>>
        /\ running' = Head(queue)
        /\ queue' = Tail(queue)
        /\ UNCHANGED open

Return == /\ running # NoTask
          /\ running' = NoTask
          /\ UNCHANGED <<queue, open>>

\* The consumer leaves between two tasks.
Close == /\ open = TRUE /\ running = NoTask
         /\ open' = FALSE
         /\ UNCHANGED <<queue, running>>

MNext == Add \/ Take \/ Return \/ Close

MSafeSpec == MInit /\ [][MNext]_mvars

\* An open mailbox keeps serving its queue.
MSpec == MSafeSpec /\ WF_mvars(Take) /\ WF_mvars(Return)
==============================================================================
