-------------------------------- MODULE Framing --------------------------------
(***************************************************************************)
(* How the gateway cuts frames out of a byte stream (protocol.c, and the   *)
(* branches of event_recvmsg that call it): protocol_check on a socket,    *)
(* znpframe_check on the serial port.  A read appends what it got to the   *)
(* connection's buffer, checks it once, and takes the length the check     *)
(* returns out of the buffer.                                              *)
(*                                                                         *)
(* Both checks end without a return statement once they have dropped a     *)
(* byte and called themselves: what the caller then sees as the length is  *)
(* undefined.  The compiler's epilogue leaves either the inner call's      *)
(* result or the zero of its stack check in the register, and both are     *)
(* outcomes here; the inner call's message id is in a local and lost.      *)
(***************************************************************************)
EXTENDS Integers, SequencesExt

CONSTANTS Sof,      \* 0xCE
          DataLen,  \* the serial frame's length byte, 0x0B
          MinLen,   \* a socket message's smallest and largest length
          MaxLen,
          Size,     \* the buffer's capacity
          Frames,   \* side -> the frames its peer may send
          Noise,    \* stray bytes, none a start of frame, that may come between frames
          Damaged,  \* damaged frames that may come between frames
          MaxItems  \* bound: frames, noise and damage in a stream

Byte == 0 .. 255
Sides == {"serial", "socket"}

ASSUME FramingAssumption ==
    /\ Sof \in Byte /\ DataLen \in 2 .. 253
    /\ MinLen \in Nat /\ MaxLen \in Nat /\ 2 < MinLen /\ MinLen <= MaxLen
    /\ Size \in Nat \ {0} /\ MaxItems \in Nat
    /\ Noise \subseteq Seq(Byte \ {Sof}) \ {<< >>} /\ Damaged \subseteq Seq(Byte)

VARIABLES side,    \* the kind of connection
          stream,  \* what its peer sends, item by item
          pos,     \* how many bytes of it have been read
          fifo,    \* the connection's buffer
          got,     \* the messages event_recvmsg has dispatched
          status,  \* "run" or "fault": the check read past its buffer
          dropped, \* history: a put had no room for all bytes
          bursts   \* history: reads that completed more than one frame

vars == <<side, stream, pos, fifo, got, status, dropped, bursts>>

Min2(a, b) == IF a < b THEN a ELSE b

--------------------------------------------------------------------------------
(* A check's outcome: what is left in the buffer, the length it returns and  *)
(* the message id it has stored for the caller, who has stored "none".       *)
Out(rest, ret, id) == [rest |-> rest, ret |-> ret, id |-> id]
Fault == Out(<< >>, 0, "fault")

\* buf[i], counted from 1: getahead fills a buffer cleared to zero.
At(q, i) == IF i <= Len(q) THEN q[i] ELSE 0

\* Bytes with ^ between them: a bit is set if an odd number of them have it.
Xor(bytes) ==
    LET bit(w) == w * (Cardinality({i \in DOMAIN bytes : (bytes[i] \div w) % 2 = 1}) % 2)
    IN bit(1) + bit(2) + bit(4) + bit(8) + bit(16) + bit(32) + bit(64) + bit(128)

\* protocol_checksum of n bytes from index i on; n = 0 still reads the first.
Checksum(q, i, n) == Xor([k \in 1 .. IF n = 0 THEN 1 ELSE n |-> At(q, i + k - 1)])

\* connection_readbuf_pop
Pop(q) == IF q = << >> THEN q ELSE Tail(q)

\* (slip: what cannot be a frame's start discards the buffer)
UnreturnedAll(outs) == {Out(<< >>, 0, "none") : o \in outs}

\* What a call makes of a recursive call whose result it does not return.
Unreturned(outs) == UNION {IF o.id = "fault" THEN {o}
                           ELSE {Out(o.rest, r, "none") : r \in {o.ret, 0}} : o \in outs}

\* A message of n bytes is not all there.
Half(n, q) == n > Len(q)

\* znpframe_check of a buffer that is not empty; inner has the outcomes of the calls it
\* makes.  A length byte other than DataLen drops the byte, calls the check again and
\* then goes on with the old buffer and the old length.
Znp(q, inner) ==
    IF q[1] # Sof THEN Unreturned(inner[Pop(q)])
    ELSE IF Len(q) <= 2 THEN {Out(q, 0, "half")}
    ELSE LET datalen == q[2]
             n == (datalen + 2) % 256    \* unsigned char messagelen
             outs == IF datalen = DataLen THEN {Out(q, 0, "none")} ELSE inner[Pop(q)]
             left == {o.rest : o \in outs}
             fcs == IF n = 0 THEN Byte ELSE {At(q, n)}   \* buf[-1] is anything
             good == Checksum(q, 3, datalen - 1) \in fcs
             bad == \E b \in fcs : b # Checksum(q, 3, datalen - 1)
         IN IF Fault \in outs THEN {Fault}
            ELSE IF Half(n, q) THEN {Out(r, 0, "half") : r \in left}
            ELSE IF datalen = 0 THEN {Fault}   \* a checksum of 2^32 - 1 bytes
            ELSE (IF good THEN {Out(r, n, "business") : r \in left} ELSE {})
                 \cup (IF bad THEN UNION {Unreturned(inner[Pop(r)]) : r \in left} ELSE {})

\* protocol_check, with the same two habits; the id is the message's own.
Protocol(q, inner) ==
    IF q[1] # Sof THEN Unreturned(inner[Pop(q)])
    ELSE IF Len(q) <= 2 THEN {Out(q, 0, "half")}
    ELSE LET n == 256 * q[2] + q[3]
             outs == IF n \in MinLen .. MaxLen THEN {Out(q, 0, "none")} ELSE inner[Pop(q)]
             left == {o.rest : o \in outs}
         IN IF Fault \in outs THEN {Fault}
            ELSE IF Half(n, q) THEN {Out(r, 0, "half") : r \in left}
            ELSE IF n < 2 THEN {Fault}
            ELSE IF Checksum(q, 1, n - 2) = At(q, n - 1) /\ At(q, n) = Sof
                 THEN {Out(r, n, "message") : r \in left}
            ELSE UNION {Unreturned(inner[Pop(r)]) : r \in left}

\* A connection's check of its buffer: each call is made on a shorter one.
Check(kind, q) ==
    LET upTo[n \in 0 .. Len(q)] ==
            [s \in Seq(Byte) |->
                IF s = << >> \/ n = 0 THEN {Out(s, 0, "none")}
                ELSE IF kind = "serial" THEN Znp(s, upTo[n - 1])
                ELSE Protocol(s, upTo[n - 1])]
    IN upTo[Len(q)][q]

\* A frame and a message as their senders make them.
WholeFrame(f) ==
    /\ f \in [1 .. DataLen + 2 -> Byte]
    /\ f[1] = Sof /\ f[2] = DataLen
    /\ f[DataLen + 2] = Checksum(f, 3, DataLen - 1)
WholeMessage(f) ==
    /\ f \in Seq(Byte) /\ Len(f) \in MinLen .. MaxLen
    /\ f[1] = Sof /\ 256 * f[2] + f[3] = Len(f)
    /\ f[Len(f) - 1] = Checksum(f, 1, Len(f) - 2) /\ f[Len(f)] = Sof

ASSUME FramesAssumption == /\ \A f \in Frames["serial"] : WholeFrame(f)
                           /\ \A f \in Frames["socket"] : WholeMessage(f)

--------------------------------------------------------------------------------
Bytes == FlattenSeq(stream)
IsFrame(item) == item \in Frames[side]

\* How many of the stream's frames have been read to their end.
EndOf(i) == Len(FlattenSeq(SubSeq(stream, 1, i)))
Received(p) == Cardinality({i \in DOMAIN stream : IsFrame(stream[i]) /\ EndOf(i) <= p})

Init == /\ side \in Sides
        /\ stream \in UNION {[1 .. n -> Frames[side] \cup Noise \cup Damaged]
                             : n \in 1 .. MaxItems}
        /\ pos = 0 /\ fifo = << >> /\ got = << >>
        /\ status = "run" /\ dropped = FALSE /\ bursts = 0

\* (slip: the whole buffer is taken for one message)
TakeAll(o) == /\ fifo' = << >>
              /\ got' = IF o.id \in {"business", "message"}
                        THEN Append(got, o.rest) ELSE got

\* connection_get of the length returned; the message goes on if it has an id.
Take(o) == LET n == Min2(o.ret, Len(o.rest))
           IN /\ fifo' = SubSeq(o.rest, n + 1, Len(o.rest))
              /\ got' = IF o.id \in {"business", "message"}
                        THEN Append(got, SubSeq(o.rest, 1, n)) ELSE got

\* connection_put keeps what fits and says nothing of the rest.
Put(q, chunk) == q \o SubSeq(chunk, 1, Min2(Len(chunk), Size - Len(q)))

\* One read of k bytes and the event_recvmsg that follows.
Recv(k) ==
    LET room == Size - Len(fifo)
        chunk == SubSeq(Bytes, pos + 1, pos + k)
        kept == Put(fifo, chunk)
    IN /\ status = "run"
       /\ k <= Size   \* a read takes at most sizeof buf, which is 1024 too
       /\ pos' = pos + k
       /\ dropped' = (dropped \/ k > room)
       /\ bursts' = IF Received(pos + k) > Received(pos) + 1 THEN bursts + 1 ELSE bursts
       /\ \E o \in Check(side, kept) :
             IF o.id = "fault"
             THEN status' = "fault" /\ UNCHANGED <<fifo, got>>
             ELSE Take(o) /\ UNCHANGED status
       /\ UNCHANGED <<side, stream>>

Next == \E k \in 1 .. Len(Bytes) - pos : Recv(k)

Spec == Init /\ [][Next]_vars

--------------------------------------------------------------------------------
\* Type invariant of a connection's receiving side.
TypeOK == /\ side \in Sides
          /\ pos \in 0 .. Len(Bytes)
          /\ fifo \in Seq(Byte) /\ Len(fifo) <= Size
          /\ got \in Seq(Seq(Byte))
          /\ status \in {"run", "fault"}
          /\ dropped \in BOOLEAN /\ bursts \in Nat

Clean == \A i \in DOMAIN stream : IsFrame(stream[i])

\* However reads cut a stream of whole frames, no byte of it is lost, repeated or
\* put into another frame, as long as the buffer has room: what has been
\* dispatched, followed by what is buffered, is what has been read
\* (event.c:64-70,87-92).
BytesConserved ==
    Clean /\ ~dropped => FlattenSeq(got) \o fifo = SubSeq(Bytes, 1, pos)

\* Stray bytes that cannot start a frame cost at most one frame each time they
\* come, never invent a message and never reorder: the frame found behind them in
\* the same read is consumed without its id (protocol.c:26-28,71-73).
NoiseCostsOneFrame ==
    LET sent == {i \in DOMAIN stream : IsFrame(stream[i])}
        noisy == DOMAIN stream \ sent
    IN ~dropped =>
       /\ \E m \in [DOMAIN got -> sent] :
             /\ \A i, j \in DOMAIN got : i < j => m[i] < m[j]
             /\ \A i \in DOMAIN got : got[i] = stream[m[i]]
       /\ pos = Len(Bytes) /\ bursts = 0 =>
             Len(got) + Cardinality(noisy) >= Cardinality(sent)

\* "SOF Length(1) Cmd(2) Data(0-253) FCS" (protocol.c:57-62): what is dispatched
\* from the serial port is a frame, from its start of frame to its check byte.
DispatchedIsFrame ==
    side = "serial" => \A i \in DOMAIN got :
        LET m == got[i]
        IN Len(m) = DataLen + 2 /\ m[1] = Sof /\ m[2] = DataLen
================================================================================
