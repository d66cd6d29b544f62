------------------------------- MODULE ByteQueue -------------------------------
(***************************************************************************)
(* What a connection's raw buffer promises its users (connection.h,        *)
(* kfifo.h): a first-in first-out queue of bytes of bounded size.  A put    *)
(* may take fewer bytes than offered, a get returns the oldest bytes and    *)
(* removes them, a getahead returns them and leaves them in place, a pop    *)
(* drops one byte and a reset drops all of them.                            *)
(***************************************************************************)
EXTENDS Integers, Sequences

CONSTANTS Byte,  \* the values of a byte
          Size   \* the capacity of the queue

VARIABLES queue, \* the bytes held, the oldest first
          ret    \* what the last get or getahead returned

vars == <<queue, ret>>

\* The first n bytes of s and the bytes after them.
Take(s, n) == SubSeq(s, 1, n)
Drop(s, n) == SubSeq(s, n + 1, Len(s))

Init == /\ queue = << >>
        /\ ret = << >>

Put == /\ Len(queue') \in Len(queue) .. Size
       /\ Take(queue', Len(queue)) = queue
       /\ UNCHANGED ret

Get == \E n \in 0 .. Len(queue) : /\ ret' = Take(queue, n)
                                  /\ queue' = Drop(queue, n)

Getahead == /\ \E n \in 0 .. Len(queue) : ret' = Take(queue, n)
            /\ UNCHANGED queue

Pop == /\ queue # << >>
       /\ queue' = Tail(queue)
       /\ UNCHANGED ret

Reset == /\ queue' = << >>
         /\ UNCHANGED ret

Next == Put \/ Get \/ Getahead \/ Pop \/ Reset

Spec == Init /\ [][Next]_vars
================================================================================
