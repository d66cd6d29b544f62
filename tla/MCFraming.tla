------------------------------- MODULE MCFraming -------------------------------
(***************************************************************************)
(* Framing and alarms: serial frames of full length, one with an alarm and *)
(* one without, socket messages of eight bytes; all hold data that looks   *)
(* like a start of frame or a length.                                      *)
(***************************************************************************)
EXTENDS Alarms

\* zone status, reserved, extended status, zone, delay, short address, zone type
Framed(data) == <<206, 11>> \o data \o <<Checksum(data, 1, 10)>>
AlarmFrame == Framed(<<1, 206, 0, 7, 0, 206, 11, 6, 206, 13>>)
RestoreFrame == Framed(<<46, 0, 65, 206, 11, 0, 1, 206, 0, 21>>)
SocketFrame(a) == LET head == <<206, 0, 8, 128, 1, a>>
                  IN head \o <<Checksum(head, 1, 6), 206>>

MCFrames == [s \in {"serial", "socket"} |->
                IF s = "serial" THEN {AlarmFrame, RestoreFrame} ELSE {SocketFrame(206)}]
MCNoise == {<<3, 9>>}
MCNone == {}

\* a start of frame whose length byte is damaged
MCDamaged == {<<206, 1>>}

MCGatewayId == <<0, 206, 0, 30, 13, 206>>
MCClock == <<0, 0, 0, 0, 86, 206, 0, 13>>
================================================================================
