------------------------------ MODULE MessageQueue ------------------------------
(***************************************************************************)
(* What the message queue between the receiving thread and the             *)
(* application promises (queue.h, queue.c): an urgent message goes to the   *)
(* head, any other to the tail, and a receiver is handed the message at the *)
(* head, which leaves the queue.                                            *)
(***************************************************************************)
EXTENDS Sequences

CONSTANTS Threads,  \* those that add and receive
          Message,  \* what is queued
          Urgent,   \* the messages that go before the others
          NoMessage \* no message

VARIABLES queue,  \* the messages, the next one to hand out first
          handed  \* per thread, the message its last receive was handed

vars == <<queue, handed>>

Init == /\ queue = << >>
        /\ handed = [t \in Threads |-> NoMessage]

Add(m) == /\ queue' = IF m \in Urgent THEN <<m>> \o queue ELSE Append(queue, m)
          /\ UNCHANGED handed

\* A receive begins: whatever was handed out before is forgotten.
Ask(t) == /\ handed' = [handed EXCEPT ![t] = NoMessage]
          /\ UNCHANGED queue

HandOut(t) == /\ queue # << >>
              /\ handed' = [handed EXCEPT ![t] = Head(queue)]
              /\ queue' = Tail(queue)

Next == \/ \E m \in Message : Add(m)
        \/ \E t \in Threads : Ask(t) \/ HandOut(t)

Spec == Init /\ [][Next]_vars
================================================================================
