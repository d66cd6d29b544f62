--------------------------------- MODULE KFifo ---------------------------------
(***************************************************************************)
(* The ring buffer behind every connection (kfifo.c, kfifo.h).  Its two     *)
(* counters are unsigned ints that run freely and wrap at Wrap (2^32 in    *)
(* the program); a byte lives at its counter modulo Size (1024).  The       *)
(* comments of kfifo_put and kfifo_get promise that one reader and one      *)
(* writer need no lock, so a put and a get are split where the other side   *)
(* can see a difference: the bytes are copied first, the counter moves      *)
(* last.                                                                    *)
(***************************************************************************)
EXTENDS Integers, Sequences

CONSTANTS Byte,   \* the values of a byte
          Size,   \* the buffer's size
          Wrap,   \* the counters' modulus
          MaxLen  \* bound: the longest put or get tried

\* kfifo.c:28 - the size is a power of two, so that it divides the modulus.
ASSUME SizeAssumption == /\ Size \in Nat \ {0}
                         /\ Wrap \in Nat
                         /\ Wrap > Size
                         /\ Wrap % Size = 0
ASSUME MaxLenAssumption == MaxLen \in Nat

VARIABLES buffer, in, out,  \* struct kfifo
          wpc, wdata,       \* the writer: inside a put?  the bytes it takes
          rpc, rdata,       \* the reader: inside a get?  the bytes it copied
          ret               \* what the last get or getahead returned

vars == <<buffer, in, out, wpc, wdata, rpc, rdata, ret>>

Pc == {"idle", "copied"}
Offers == UNION {[1 .. n -> Byte] : n \in 0 .. MaxLen}
Min2(a, b) == IF a < b THEN a ELSE b

\* kfifo_len, in unsigned arithmetic.
Used == (in - out) % Wrap

\* The n oldest bytes, the copy that kfifo_get and kfifo_getahead make in two
\* parts, up to the buffer's end and from its beginning.
Oldest(n) == [i \in 1 .. n |-> buffer[(out + i - 1) % Size]]

\* Slips a kfifo could be written with, to see the properties below refuted:
\* the room without the wrap of unsigned arithmetic,
RoomSigned == IF in >= out THEN Size - (in - out) ELSE Size

\* the reader's counter left to grow past its width,
GetPublishUnwrapped == /\ rpc = "copied"
                       /\ out' = out + Len(rdata)
                       /\ ret' = rdata
                       /\ rpc' = "idle"
                       /\ rdata' = << >>
                       /\ UNCHANGED <<buffer, in, wpc, wdata>>

\* and a getahead that reads back from the newest byte.
GetaheadLast(n) ==
    /\ rpc = "idle"
    /\ ret' = [i \in 1 .. Min2(n, Used) |-> buffer[(in - i) % Size]]
    /\ UNCHANGED <<buffer, in, out, wpc, wdata, rpc, rdata>>

\* The room kfifo_put computes: size - in + out, in unsigned arithmetic.
Room == (Size - in + out) % Wrap

Init == /\ buffer \in [0 .. Size - 1 -> Byte]
        /\ in = 0 /\ out = 0
        /\ wpc = "idle" /\ wdata = << >>
        /\ rpc = "idle" /\ rdata = << >>
        /\ ret = << >>

--------------------------------------------------------------------------------
\* kfifo_put: clip the offer to the room, copy it in two parts ...
PutCopy(data) ==
    LET l == Min2(Len(data), Room)
        pos(i) == (i - in) % Size
    IN /\ wpc = "idle"
       /\ buffer' = [i \in 0 .. Size - 1 |->
                        IF pos(i) < l THEN data[pos(i) + 1] ELSE buffer[i]]
       /\ wdata' = SubSeq(data, 1, l)
       /\ wpc' = "copied"
       /\ UNCHANGED <<in, out, rpc, rdata, ret>>

\* ... and only then publish it.
PutPublish == /\ wpc = "copied"
              /\ in' = (in + Len(wdata)) % Wrap
              /\ wpc' = "idle"
              /\ wdata' = << >>
              /\ UNCHANGED <<buffer, out, rpc, rdata, ret>>

\* kfifo_get: copy the oldest bytes out ...
GetCopy(n) == /\ rpc = "idle"
              /\ rdata' = Oldest(Min2(n, Used))
              /\ rpc' = "copied"
              /\ UNCHANGED <<buffer, in, out, wpc, wdata, ret>>

\* ... and only then give their cells back.
GetPublish == /\ rpc = "copied"
              /\ out' = (out + Len(rdata)) % Wrap
              /\ ret' = rdata
              /\ rpc' = "idle"
              /\ rdata' = << >>
              /\ UNCHANGED <<buffer, in, wpc, wdata>>

\* kfifo_getahead: the copy of kfifo_get without the move of the counter.
Getahead(n) == /\ rpc = "idle"
               /\ ret' = Oldest(Min2(n, Used))
               /\ UNCHANGED <<buffer, in, out, wpc, wdata, rpc, rdata>>

\* kfifo_pop compares the counters themselves, not their distance: it drops
\* nothing once in has wrapped and out has not.
Pop == /\ rpc = "idle"
       /\ in > out
       /\ out' = (out + 1) % Wrap
       /\ UNCHANGED <<buffer, in, wpc, wdata, rpc, rdata, ret>>

\* kfifo_reset, called on a connection nobody uses (freeconnlist_getconn).
Reset == /\ wpc = "idle" /\ rpc = "idle"
         /\ in' = 0 /\ out' = 0
         /\ UNCHANGED <<buffer, wpc, wdata, rpc, rdata, ret>>

Next == \/ \E data \in Offers : PutCopy(data)
        \/ PutPublish
        \/ \E n \in 0 .. MaxLen : GetCopy(n) \/ Getahead(n)
        \/ GetPublish
        \/ Pop
        \/ Reset

Spec == Init /\ [][Next]_vars

--------------------------------------------------------------------------------
\* Type invariant of struct kfifo and of the two users of it.
TypeOK == /\ buffer \in [0 .. Size - 1 -> Byte]
          /\ in \in 0 .. Wrap - 1
          /\ out \in 0 .. Wrap - 1
          /\ wpc \in Pc /\ rpc \in Pc
          /\ wdata \in Seq(Byte) /\ rdata \in Seq(Byte) /\ ret \in Seq(Byte)

\* The bytes in the buffer and those a put has copied but not published fit the
\* buffer together, and a get never takes more than there is: what kfifo_put's
\* and kfifo_get's clipping against the other side's counter must achieve even
\* when that counter moves, or wraps, before they publish (kfifo.c:79-88,110-119).
Occupancy == /\ Used + Len(wdata) <= Size
             /\ Len(rdata) <= Used

\* The bytes a get has copied are still the oldest ones when it gives their
\* cells back, and the bytes a put has copied are still in their cells when it
\* publishes them: kfifo.c:71-72, "with only one concurrent reader and one
\* concurrent writer, you don't need extra locking".
CopiesIntact ==
    /\ rpc = "copied" => rdata = Oldest(Len(rdata))
    /\ \A i \in 1 .. Len(wdata) : buffer[(in + i - 1) % Size] = wdata[i]

\* Seen through its counters the buffer is a bounded queue of bytes: a put
\* appends when it publishes, a get returns and removes the oldest bytes, and no
\* interleaving of one reader and one writer loses, repeats or tears a byte.
Queue == INSTANCE ByteQueue WITH queue <- Oldest(Used)
IsByteQueue == Queue!Spec

================================================================================
