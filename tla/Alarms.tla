--------------------------------- MODULE Alarms ---------------------------------
(***************************************************************************)
(* What the gateway makes of the frames it cuts out of the serial line:    *)
(* event_recvmsg takes a zone's state out of the frame (bussinessdata.c)   *)
(* and writes it as an alarm for the socket peers (parseserver.c), who get *)
(* heartbeats in between.  Numbers go out with their high byte first, on a *)
(* host of either endianness (bytebuffer.h).                               *)
(***************************************************************************)
EXTENDS Framing

CONSTANTS GatewayId,  \* the low six bytes of gw->gatewayid, as they are written
          Clock       \* the eight bytes of time(NULL), likewise

ASSUME AlarmsAssumption == /\ GatewayId \in [1 .. 6 -> Byte]
                           /\ Clock \in [1 .. 8 -> Byte]
                           /\ DataLen = 11 /\ {13, 30} \subseteq MinLen .. MaxLen

\* Message ids
HEART == 2
ALARM == 6

\* The members of struct tagzoneStatus are the bits 0 to 7 of a byte; this is the first.
Alarm1 == 0

\* bytebuffer_readword at index i, bytebuffer_writeword
readword(m, i) == 256 * At(m, i) + At(m, i + 1)
writeword(d) == <<d \div 256, d % 256>>

--------------------------------------------------------------------------------
\* dataparse: start byte, length, zone status, a byte skipped, extended status, the
\* zone's number and three words.
dataparse(m) ==
    [status |-> [bit \in 0 .. 7 |-> (At(m, 3) \div 2 ^ bit) % 2],
     ZoneID |-> At(m, 5) % 64, Changeorheart |-> At(m, 5) \div 64,
     zoneID |-> At(m, 6), delay |-> readword(m, 7),
     shortaddr |-> readword(m, 9), zonetype |-> readword(m, 11)]

\* (slip: as in a frame on the serial line, the start byte is left out)
encode_checksumBare(q) == Checksum(q, 2, Len(q) - 1)

\* A message's two last bytes; encode_checksum is protocol_checksum once more.
encode_checksum(q) == Checksum(q, 1, Len(q))
Closed(q) == q \o <<encode_checksum(q), Sof>>

encode_heart == Closed(<<Sof>> \o writeword(13) \o writeword(HEART) \o GatewayId)

\* The device's id is the number 1 in six bytes; of the zone's type the low byte goes,
\* of its status the first bit.
encode_alarm(data) ==
    Closed(<<Sof>> \o writeword(30) \o writeword(ALARM) \o GatewayId
           \o <<data.zonetype % 256, 6>> \o <<0, 0, 0, 0, 0, 1>>
           \o Clock \o <<data.status[Alarm1]>>)

\* What event_recvmsg sends to each socket peer for a frame dispatched from the
\* serial line, with a heartbeat before it.
Sends(m) == encode_heart \o encode_alarm(dataparse(m))

--------------------------------------------------------------------------------
\* How a peer that reads as the gateway does cuts messages out of its stream.
Messages(q) ==
    LET upTo[n \in 0 .. Len(q)] ==
            [s \in Seq(Byte) |->
                IF s = << >> \/ n = 0 THEN << >>
                ELSE LET o == CHOOSE o \in Check("socket", s) : TRUE
                     IN IF o.id # "message" THEN <<o.id>>
                        ELSE <<SubSeq(o.rest, 1, o.ret)>>
                             \o upTo[n - 1][SubSeq(o.rest, o.ret + 1, Len(o.rest))]]
    IN upTo[Len(q)][q]

\* What the peer is to learn of a zone: the message's id, the low byte of the zone's
\* type, which the frame holds last before its check byte, and the alarm bit.
Learnt(msg) == <<readword(msg, 4), At(msg, 12), At(msg, 28)>>
Told(frame) == <<ALARM, frame[Len(frame) - 1], frame[3] % 2>>

\* A frame is dispatched by the read that completes it, unless several frames end in
\* one read: a check looks for one frame only, so the others wait for the next
\* read, however long that takes (event.c:90, eventhub.c:127-148).  For each frame
\* from the serial line the socket peers have by then been sent one alarm, that they
\* can tell from the heartbeats around it by the gateway's own rule for messages, and
\* that says what the device said (event.c:112-127, parseserver.c:86-149).
AlarmsArrive ==
    Clean /\ ~dropped /\ bursts = 0 =>
        /\ Len(got) = Received(pos)
        /\ side = "serial" =>
              LET msgs == Messages(FlattenSeq([i \in DOMAIN got |-> Sends(got[i])]))
              IN /\ Len(msgs) = 2 * Received(pos)
                 /\ \A i \in 1 .. Received(pos) :
                       /\ msgs[2 * i - 1] = encode_heart
                       /\ Learnt(msgs[2 * i]) = Told(stream[i])
================================================================================
