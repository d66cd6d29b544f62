-------------------------------- MODULE MtCodec --------------------------------
(***************************************************************************)
(* What becomes of a message's content between a user and the radio: the   *)
(* command line example fills a structure byte by byte from what is typed  *)
(* and a request function packs it, or the Linux application fills one by  *)
(* its members; and a message of the radio is dispatched, unpacked into a  *)
(* structure and printed by the callback registered for it.  The bytes are *)
(* the cells of module Layout, so that one in the wrong place shows.       *)
(***************************************************************************)
EXTENDS CmdLine, AppCommands, AppCallbacks

CONSTANT FewCounts  \* the list lengths a message is tried with

ASSUME FewCountsAssumption == FewCounts \subseteq Nat /\ FewCounts # {}

VARIABLES
    callbacks,  \* the subsystems whose callbacks are registered
    pc,         \* "idle", or what the program is doing
    command,    \* what is asked for by hand, sent, or received from
    x,          \* the attribute inputCmd asks for next
    currentPos, \* where inputCmd puts it
    input,      \* the structure of a request: offsets to cells
    value,      \* the numbers in that structure, or in the message
    typed,      \* the bytes meant for the request, in order
    frame,      \* what rpcSendFrame was given: command and payload
    shown       \* the fields a callback has printed, and their bytes

vars == <<callbacks, pc, command, x, currentPos, input, value, typed, frame,
          shown>>

Subsystems == {"SYS", "AF", "SAPI", "ZDO"}
NoCommand == [atts |-> << >>, request |-> Sys!sysPing, from |-> << >>]
NoFrame == [cmd |-> "", payload |-> << >>]

--------------------------------------------------------------------------------
(* Numbers the code computes with.                                           *)
AddressModes == {2, 3}
Numbers(name, count, cap) ==
    CASE count -> {n \in FewCounts : n <= cap}
      [] name \in {"DstAddrMode", "SrcAddrMode"} -> AddressModes
      [] name = "Status" -> {0, 1}
      [] OTHER -> {}

CapAfter(format, i) == IF i < Len(format) /\ format[i + 1].list
                       THEN format[i + 1].cap ELSE 0
NumbersOf(format) ==
    [i \in DOMAIN format |-> Numbers(format[i].name, CapAfter(format, i) > 0,
                                     CapAfter(format, i))]
\* The contents a message may have, by the numbers in it.
Values(format) ==
    LET numbers == NumbersOf(format)
        has == {i \in DOMAIN format : numbers[i] # {}}
    IN {[f \in {format[i].name : i \in has} |->
            v[CHOOSE i \in has : format[i].name = f]] :
           v \in {w \in [has -> UNION {numbers[i] : i \in has}] :
                     \A i \in has : w[i] \in numbers[i]}}

Store(memory, at, cells) ==
    [o \in DOMAIN memory \cup at .. at + Len(cells) - 1 |->
        IF o >= at /\ o < at + Len(cells) THEN cells[o - at + 1] ELSE memory[o]]

\* A structure filled by its members.
Struct(format, v) ==
    FoldLeft(LAMBDA memory, i :
                 Store(memory, Offsets(format)[format[i].name],
                       Elements(format[i].name, format[i].item,
                                InUse(format, i, v))),
             << >>, [i \in DOMAIN format |-> i])

--------------------------------------------------------------------------------
(* inputCmd sums up the room the attributes take, in eight bits.             *)
Room(atts) ==
    FoldLeft(LAMBDA s, a :
                 LET t == s + a.size * (IF a.isList = 0 THEN 1 ELSE a.isList)
                 IN IF a.size = 2 THEN t + (t % 2) ELSE t, 0, atts)
\* Mutant: the room without the alignment of words.
CommandSizeUnaligned(atts) ==
    FoldLeft(LAMBDA s, a : s + a.size * (IF a.isList = 0 THEN 1 ELSE a.isList),
             0, atts)
CommandSize(atts) == Room(atts) % 256

Aligned(pos, size) == IF size = 2 THEN pos + (pos % 2) ELSE pos

Choose(i) ==
    /\ pc = "idle"
    /\ pc' = "input"
    /\ command' = [NoCommand EXCEPT !.atts = commands[i],
                                   !.request = sendCmd[i]]
    /\ x' = 1 /\ currentPos' = 0
    /\ UNCHANGED <<callbacks, input, value, typed, frame, shown>>

Asked == command.atts[x]
\* The lengths typed are few ones, the longest list and one too long.
NumbersAsked ==
    LET cap == IF x < Len(command.atts) THEN command.atts[x + 1].isList ELSE 0
    IN IF cap > 0 THEN FewCounts \cup {cap - 1, cap}
       ELSE Numbers(Asked.name, FALSE, 0)

EnterValue ==
    /\ pc = "input" /\ x <= Len(command.atts) /\ Asked.isList = 0
    /\ LET at == Aligned(currentPos, Asked.size)
           cells == Element(Asked.name, Num(Asked.size), 1)
       IN /\ input' = Store(input, at, cells)
          /\ currentPos' = at + Asked.size
          /\ typed' = typed \o cells
    /\ \/ NumbersAsked = {} /\ UNCHANGED value
       \/ \E n \in NumbersAsked :
             value' = [f \in DOMAIN value \cup {Asked.name} |->
                          IF f = Asked.name THEN n ELSE value[f]]
    /\ x' = x + 1
    /\ UNCHANGED <<callbacks, pc, command, frame, shown>>

Previous == command.atts[x - 1]
ListLen == value[Previous.name]

EnterList ==
    /\ pc = "input" /\ x <= Len(command.atts) /\ Asked.isList > 0
    /\ ListLen < Asked.isList
    /\ LET first == IF ListLen > 0 THEN Aligned(currentPos, Asked.size)
                    ELSE currentPos
           cells == Elements(Asked.name, Num(Asked.size), ListLen)
       IN /\ input' = Store(input, first, cells)
          /\ currentPos' = first + Asked.size * Asked.isList
          /\ typed' = typed \o cells
    /\ x' = x + 1
    /\ UNCHANGED <<callbacks, pc, command, value, frame, shown>>

\* A list that would not fit: back to its length.
\* Mutant: and the length is put after the one refused.
RefuseListKeepsPlace ==
    /\ pc = "input" /\ x <= Len(command.atts) /\ Asked.isList > 0
    /\ ListLen >= Asked.isList
    /\ x' = x - 1
    /\ typed' = SubSeq(typed, 1, Len(typed) - Previous.size)
    /\ UNCHANGED <<callbacks, pc, command, currentPos, input, value, frame,
                   shown>>
RefuseList ==
    /\ pc = "input" /\ x <= Len(command.atts) /\ Asked.isList > 0
    /\ ListLen >= Asked.isList
    /\ x' = x - 1
    /\ currentPos' = currentPos - Previous.size
    /\ typed' = SubSeq(typed, 1, Len(typed) - Previous.size)
    /\ UNCHANGED <<callbacks, pc, command, input, value, frame, shown>>

Send(request, memory, v) ==
    frame' = [cmd |-> request.cmd,
              payload |-> Build(request, memory,
                                IF "DstAddrMode" \in DOMAIN v
                                THEN Zdo!WithLengths(v) ELSE v)]

SendInput ==
    /\ pc = "input" /\ x > Len(command.atts)
    /\ Send(command.request, input, value)
    /\ pc' = "sent"
    /\ UNCHANGED <<callbacks, command, x, currentPos, input, value, typed,
                   shown>>

\* The application sends a command of its own.
SendStruct(c) ==
    /\ pc = "idle"
    /\ LET request == sendcmd[c] IN
          \E v \in Values(request.format) :
             /\ input' = Struct(request.format, v)
             /\ value' = v
             /\ typed' = Packed(request.format, v)
             /\ Send(request, Struct(request.format, v), v)
             /\ command' = [NoCommand EXCEPT !.request = request]
    /\ pc' = "sent"
    /\ UNCHANGED <<callbacks, x, currentPos, shown>>

--------------------------------------------------------------------------------
(* Callbacks, and the messages of the radio.                                 *)
RegisterCallbacks(sub) ==
    /\ pc = "idle" /\ sub \notin callbacks
    /\ callbacks' = callbacks \cup {sub}
    /\ UNCHANGED <<pc, command, x, currentPos, input, value, typed, frame,
                   shown>>

\* A table's entries by the names of the structure it initialises.
ByName(members, table) ==
    [m \in {members[i] : i \in DOMAIN members} |->
        table[CHOOSE i \in DOMAIN members : members[i] = m]]
Registered ==
    [SYS |-> ByName(Sys!mtSysCb_t, mtSysCb), AF |-> ByName(Af!mtAfCb_t, mtAfCb),
     SAPI |-> ByName(Sapi!mtSapiCb_t, mtSapiCb),
     ZDO |-> ByName(Zdo!mtZdoCb_t, mtZdoCb)]

\* Each subsystem's own process function, by the type of the message.
mtProcess ==
    [SYS |-> [SRSP |-> Sys!processSrsp, AREQ |-> Sys!sysProcess],
     AF |-> [SRSP |-> Af!processSrsp, AREQ |-> Af!afProcess],
     SAPI |-> [SRSP |-> Sapi!processSrsp, AREQ |-> Sapi!sapiProcess],
     ZDO |-> [SRSP |-> Zdo!processSrsp, AREQ |-> Zdo!zdoProcess]]
Soc ==
    [SYS |-> [SRSP |-> Sys!SocSrsp, AREQ |-> Sys!SocAreq],
     AF |-> [SRSP |-> Af!SocSrsp, AREQ |-> Af!SocAreq],
     SAPI |-> [SRSP |-> Sapi!SocSrsp, AREQ |-> Sapi!SocAreq],
     ZDO |-> [SRSP |-> Zdo!SocSrsp, AREQ |-> Zdo!SocAreq]]

FieldOf(format, name) ==
    format[CHOOSE i \in DOMAIN format : format[i].name = name]
\* The bytes a callback prints of a field of which n elements are in use.
Shows(format, got, name, n) ==
    LET item == FieldOf(format, name).item
    IN FlattenSeq([e \in 1 .. n |->
           FlattenSeq([i \in DOMAIN item |->
               IF <<name, e, item[i][1]>> \in DOMAIN got
               THEN got[<<name, e, item[i][1]>>] ELSE << >>])])
Show(cb, format, got, v) ==
    IF cb.onSuccess /\ ValueOf("Status", got[<<"Status", 1, "">>], v) # 0
    THEN [f \in {"Status"} |-> got[<<"Status", 1, "">>]]
    ELSE [f \in cb.fields \cup DOMAIN cb.lists |->
             Shows(format, got, f,
                     IF f \in DOMAIN cb.lists
                     THEN ValueOf(cb.lists[f], got[<<cb.lists[f], 1, "">>], v)
                     ELSE FieldOf(format, f).cap)]

Receive(sub, type, id) ==
    /\ pc = "idle"
    /\ \E v \in Values(Soc[sub][type][id]) :
          LET payload == Packed(Soc[sub][type][id], v)
              rsp == mtProcess[sub][type][id]
          IN /\ frame' = [cmd |-> id, payload |-> payload]
             /\ value' = v
             /\ shown' = IF sub \in callbacks
                         THEN Show(Registered[sub][rsp.cb], rsp.format,
                                    Parse(rsp, payload, v), v)
                         ELSE << >>
    /\ pc' = "shown"
    /\ command' = [NoCommand EXCEPT !.from = <<sub, type>>]
    /\ UNCHANGED <<callbacks, x, currentPos, input, typed>>

Done ==
    /\ pc \in {"sent", "shown"}
    /\ pc' = "idle" /\ command' = NoCommand /\ x' = 0 /\ currentPos' = 0
    /\ input' = << >> /\ value' = << >> /\ typed' = << >> /\ frame' = NoFrame
    /\ shown' = << >> /\ UNCHANGED callbacks

--------------------------------------------------------------------------------
Init ==
    /\ callbacks = {} /\ pc = "idle" /\ command = NoCommand
    /\ x = 0 /\ currentPos = 0 /\ input = << >> /\ value = << >>
    /\ typed = << >> /\ frame = NoFrame /\ shown = << >>

Next ==
    \/ \E i \in DOMAIN commands : Choose(i)
    \/ EnterValue
    \/ EnterList
    \/ RefuseList
    \/ SendInput
    \/ \E c \in DOMAIN sendcmd : SendStruct(c)
    \/ \E sub \in Subsystems : RegisterCallbacks(sub)
    \/ \E sub \in Subsystems, type \in {"SRSP", "AREQ"} :
          \E id \in DOMAIN Soc[sub][type] : Receive(sub, type, id)
    \/ Done

Spec == Init /\ [][Next]_vars

--------------------------------------------------------------------------------
(* A content is a sequence of cells, of fields, elements, parts and bytes.   *)
TypeOK ==
    /\ callbacks \subseteq Subsystems
    /\ pc \in {"idle", "input", "sent", "shown"}
    /\ x \in 0 .. Len(command.atts) + 1
    /\ currentPos \in Nat
    /\ DOMAIN input \subseteq Nat
    /\ \A f \in DOMAIN value : value[f] \in Nat

\* What inputCmd stores stays within the memory it asked for, unless the room
\* the attributes take does not fit the eight bits of its commandSize.
InputFits ==
    command.atts # << >> /\ Room(command.atts) <= 255 =>
        \A o \in DOMAIN input : o < CommandSize(command.atts)

(* What a request leaves out of what was entered: a bind request to a group  *)
(* takes two bytes of the address and no end point.                          *)
Carried ==
    IF /\ command.request.cmd \in {"MT_ZDO_BIND_REQ", "MT_ZDO_UNBIND_REQ"}
       /\ value["DstAddrMode"] # 3
    THEN SelectSeq(typed, LAMBDA c : /\ c[1] # "DstEndpoint"
                                     /\ c[1] = "DstAddress" => c[2] + c[4] <= 3)
    ELSE typed

(* Lengths that three functions get wrong: a byte too many in two, and a     *)
(* constant in the third.                                                    *)
Declared ==
    CASE command.request.cmd \in {"MT_SYS_RAM_WRITE",
                                  "MT_SAPI_WRITE_CONFIGURATION"} ->
             Len(Carried) + 1
      [] command.request.cmd = "MT_ZDO_UNBIND_REQ" -> 16
      [] OTHER -> Len(Carried)

(* inputCmd aligns a list of words as it asks for the first: when there is   *)
(* none, what follows the list is a byte off.                                *)
PaddingMissed ==
    LET atts == command.atts
        of == Offsets(command.request.format)
    IN \E i \in 2 .. Len(atts) - 1 :
          /\ atts[i].isList > 0 /\ atts[i].size = 2
          /\ value[atts[i - 1].name] = 0
          /\ of[atts[i].name] # of[atts[i - 1].name] + atts[i - 1].size

(* A request carries the bytes that were meant for it, every one in its      *)
(* place and nothing else, save for the lengths and the padding above, and   *)
(* for a request longer than the eight bits of its length.                   *)
SentAsEntered ==
    pc = "sent" /\ ~PaddingMissed =>
        frame.payload = [i \in 1 .. Declared % 256 |-> CellAt(Carried, i)]

(* What is not shown as it was sent: an address of two bytes keeps those,    *)
(* the start index of an empty list is zeroed, and the binding table's       *)
(* entries are lost to the index that processMgmtBindRsp declares twice.     *)
Altered(f) ==
    \/ frame.cmd = "MT_AF_INCOMING_MSG_EXT" /\ f = "SrcAddr"
       /\ value["SrcAddrMode"] = 2
    \/ frame.cmd = "MT_ZDO_IEEE_ADDR_RSP" /\ f = "StartIndex"
       /\ value["NumAssocDev"] = 0
    \/ frame.cmd = "MT_ZDO_MGMT_BIND_RSP" /\ f = "BindingTableList"

(* A message of the radio reaches the function for it and the callback for   *)
(* that, and the callback prints the radio's bytes of the fields it names.   *)
ShownAsSent ==
    pc = "shown" /\ command.from[1] \in callbacks =>
        LET format == Soc[command.from[1]][command.from[2]][frame.cmd]
        IN /\ shown # << >>
           /\ \A f \in DOMAIN shown :
                 Altered(f) \/
                 shown[f] = Elements(f, FieldOf(format, f).item,
                     InUse(format, CHOOSE i \in DOMAIN format :
                                       format[i].name = f, value))
================================================================================
