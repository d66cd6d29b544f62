-------------------------------- MODULE Layout --------------------------------
(***************************************************************************)
(* Messages as the ZNP framework's C code sees them: a structure of the    *)
(* header files, the bytes a request function writes from one, and the     *)
(* bytes a response function reads into one.  A byte is not a number but   *)
(* the cell it belongs to, <<field, element, part, k>>: the k-th byte, the *)
(* lowest first, of a part of an element of a field.  Only fields that     *)
(* the code computes with, list lengths and address modes, have a value.   *)
(***************************************************************************)
EXTENDS Integers, SequencesExt

--------------------------------------------------------------------------------
(* Structures.  An element is a sequence of parts, <<name, size>>; a number  *)
(* has one part, and so has each element of an array of numbers.             *)
Num(size) == <<<<"", size>>>>

ItemSize(item) == FoldLeft(LAMBDA s, p : s + p[2], 0, item)
Before(item, i) == ItemSize(SubSeq(item, 1, i - 1))

Field(name, item, cap, list) ==
    [name |-> name, item |-> item, cap |-> cap, list |-> list]
U8(name)  == Field(name, Num(1), 1, FALSE)
U16(name) == Field(name, Num(2), 1, FALSE)
U32(name) == Field(name, Num(4), 1, FALSE)
U64(name) == Field(name, Num(8), 1, FALSE)
Array(name, cap) == Field(name, Num(1), cap, FALSE)  \* bytes, all in use
\* An array of which the field before it counts the elements in use.
List(name, item, cap) == Field(name, item, cap, TRUE)

Own(name, e, part) == [k \in 1 .. part[2] |-> <<name, e, part[1], k>>]
Element(name, item, e) ==
    FlattenSeq([i \in DOMAIN item |-> Own(name, e, item[i])])
Elements(name, item, n) ==
    LET first == Element(name, item, 1)
        size == Len(first)
    IN [j \in 1 .. n * size |->
           [first[((j - 1) % size) + 1] EXCEPT ![2] = ((j - 1) \div size) + 1]]

InUse(format, i, value) == IF format[i].list THEN value[format[i - 1].name]
                           ELSE format[i].cap

\* A message as its sender lays it out: the fields in order, with no gaps.
Packed(format, value) ==
    FlattenSeq([i \in DOMAIN format |->
        Elements(format[i].name, format[i].item, InUse(format, i, value))])

\* Where the compiler puts a field: each at a multiple of its size.
Align(n, size) == ((n + size - 1) \div size) * size
Offsets(format) ==
    FoldLeft(LAMBDA s, f : LET at == Align(s.at, f.item[1][2])
                           IN [at |-> at + f.cap * ItemSize(f.item),
                               of |-> [x \in DOMAIN s.of \cup {f.name} |->
                                          IF x = f.name THEN at ELSE s.of[x]]],
             [at |-> 0, of |-> << >>], format).of

--------------------------------------------------------------------------------
(* Steps of a function that writes or reads a message, in program order: a   *)
(* number of elements, or a loop over as many as field count says, skipped   *)
(* when the length is past or less.  how is "take", or the odd step's name:  *)
(*   "peek"   does not move on to the next byte                              *)
(*   "lost"   fills the elements it counts with something else               *)
(*   "mode"   keeps two bytes or all, as address mode count says             *)
(*   "reset"  reads nothing, and zeroes the field when count is zero         *)
Step(name, item, times, count, how) ==
    [name |-> name, item |-> item, times |-> times, count |-> count,
     how |-> how, past |-> 0]
Byte(name) == Step(name, Num(1), 1, "", "take")
Word(name) == Step(name, Num(2), 1, "", "take")
Long(name) == Step(name, Num(4), 1, "", "take")
Quad(name) == Step(name, Num(8), 1, "", "take")
Copy(name, n) == Step(name, Num(1), n, "", "take")
Loop(name, item, count) == Step(name, item, 0, count, "take")
LostLoop(name, item, count) == Step(name, item, 0, count, "lost")
WordAgain(name) == Step(name, Num(2), 1, "", "peek")
QuadByMode(name, mode) == Step(name, Num(8), 1, mode, "mode")
ResetUnless(name, count) == Step(name, Num(1), 0, count, "reset")
IfLonger(n, steps) == [i \in DOMAIN steps |-> [steps[i] EXCEPT !.past = n]]

\* The value of a field whose bytes are cells; -1 when they are not its own.
ValueOf(name, cells, value) ==
    IF name \in DOMAIN value /\ \A k \in DOMAIN cells : cells[k] = <<name, 1, "", k>>
    THEN value[name] ELSE -1

Junk == <<"junk", 0, "", 0>>    \* what no one has written
Zero == <<"zero", 0, "", 0>>
CellAt(s, i) == IF i \in DOMAIN s THEN s[i] ELSE Junk

(* What a request function makes of the structure at its argument, memory    *)
(* that holds a cell at some offsets: the steps' bytes, cut off or followed  *)
(* by an unwritten rest at the length it gives to rpcSendFrame, cmdLen plus  *)
(* per[f] for each unit of field f, in eight bits.  Undefined when a length it loops to is  *)
(* not the one that was put there.                                           *)
Request(type, cmd, format, steps, cmdLen, per) ==
    [type |-> type, cmd |-> cmd, format |-> format, steps |-> steps,
     cmdLen |-> cmdLen, per |-> per]
SReq(cmd, format, steps, cmdLen, per) ==
    Request("SREQ", cmd, format, steps, cmdLen, per)
AReq(cmd, format, steps, cmdLen, per) ==
    Request("AREQ", cmd, format, steps, cmdLen, per)

Undefined == <<Junk>>

Build(req, memory, value) ==
    LET of == Offsets(req.format)
        At(name, n) == [k \in 1 .. n |-> IF of[name] + k - 1 \in DOMAIN memory
                                         THEN memory[of[name] + k - 1] ELSE Junk]
        SizeOf(name) == ItemSize(req.format[CHOOSE i \in DOMAIN req.format :
                                               req.format[i].name = name].item)
        Value(name) == IF name \in DOMAIN of
                       THEN ValueOf(name, At(name, SizeOf(name)), value)
                       ELSE value[name]
        Times(s) == IF s.count = "" THEN s.times ELSE Value(s.count)
        written == FlattenSeq([i \in DOMAIN req.steps |->
                       LET s == req.steps[i] IN At(s.name, Times(s) * ItemSize(s.item))])
        counts == {req.steps[i].count : i \in DOMAIN req.steps} \ {""}
        declared == req.cmdLen + FoldLeft(LAMBDA n, f : n + req.per[f] * Value(f), 0,
                                          SetToSeq(DOMAIN req.per))
    IN IF \E f \in counts : Value(f) = -1 THEN Undefined
       ELSE [i \in 1 .. declared % 256 |-> CellAt(written, i)]

(* What a response function makes of a payload, the part of the frame after  *)
(* cmd1: the cells of each element and part it has filled.  Every length it  *)
(* tests counts three bytes more than the payload, cmd0, cmd1 and the check  *)
(* byte; a length it loops to that is not the sender's is taken for none.    *)
FrameExtra == 3

Response(cb, format, steps) == [cb |-> cb, format |-> format, steps |-> steps]

\* The bytes of an eight-byte address that its mode, 2 or 3, keeps.
AddressOf(cells, mode) ==
    [k \in DOMAIN cells |->
        IF mode = 3 \/ (mode = 2 /\ k <= 2) THEN cells[k] ELSE Zero]

Filled(st, s, n, payload, mode) ==
    [x \in {<<s.name, e, s.item[i][1]>> : e \in 1 .. n, i \in DOMAIN s.item} |->
        LET i == CHOOSE j \in DOMAIN s.item : s.item[j][1] = x[3]
            from == st.at + (x[2] - 1) * ItemSize(s.item) + Before(s.item, i)
            cells == [k \in 1 .. s.item[i][2] |-> CellAt(payload, from + k)]
        IN IF s.how = "lost" THEN [k \in DOMAIN cells |-> Junk]
           ELSE IF s.how = "reset" THEN [k \in DOMAIN cells |-> Zero]
           ELSE IF s.how = "mode" THEN AddressOf(cells, mode) ELSE cells]

Parse(rsp, payload, value) ==
    LET Read(st, s) ==
            LET number == IF s.count = "" THEN 0
                          ELSE ValueOf(s.count, st.got[<<s.count, 1, "">>], value)
                n == IF s.how = "reset" THEN (IF number = 0 THEN 1 ELSE 0)
                     ELSE IF s.how = "mode" \/ s.count = "" THEN s.times ELSE number
                new == Filled(st, s, n, payload, number)
                move == IF s.how \in {"peek", "reset"} THEN 0 ELSE n * ItemSize(s.item)
            IN IF Len(payload) + FrameExtra <= s.past THEN st
               ELSE [at |-> st.at + move,
                     got |-> [x \in DOMAIN st.got \cup DOMAIN new |->
                                 IF x \in DOMAIN new THEN new[x] ELSE st.got[x]]]
    IN FoldLeft(Read, [at |-> 0, got |-> << >>], rsp.steps).got

(* A callback prints some fields of its structure and, of some lists, as     *)
(* many elements as another field says: always, or only when Status is zero  *)
(* and otherwise Status alone.                                               *)
Always(fields, lists) ==
    [fields |-> fields, lists |-> lists, onSuccess |-> FALSE]
OnSuccess(fields, lists) ==
    [fields |-> fields, lists |-> lists, onSuccess |-> TRUE]
NULL == Always({}, << >>)    \* no callback
===============================================================================
