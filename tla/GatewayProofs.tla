----------------------------- MODULE GatewayProofs -----------------------------
(***************************************************************************)
(* Proofs about the gateway's connection life cycle and its connection     *)
(* table, for every number of descriptors and connections, every timeout   *)
(* and every batch size: the tree, the list and the free list agree, what  *)
(* the reconnect thread opens it opens once, every entry owns the          *)
(* descriptor it is filed under, no open descriptor is lost, each is       *)
(* watched, and none is left with unread input.                            *)
(***************************************************************************)
EXTENDS Gateway, FiniteSetTheorems, TLAPS

--------------------------------------------------------------------------------
(* The list operations.                                                      *)

\* The successor list_for_each_safe takes is a connection or the end of the list.
LEMMA AfterType ==
    ASSUME NEW S, NEW l \in Seq(S), NEW c
    PROVE  After(l, c) \in S \cup {NoConn}
<1>1. CASE \E i \in 1 .. Len(l) - 1 : l[i] = c
  <2> DEFINE k == CHOOSE i \in 1 .. Len(l) - 1 : l[i] = c
  <2>1. k \in 1 .. Len(l) - 1
    BY <1>1
  <2>2. After(l, c) = l[k + 1]
    BY <1>1 DEF After
  <2> HIDE DEF k
  <2>3. k + 1 \in 1 .. Len(l)
    BY <2>1
  <2> QED BY <2>2, <2>3
<1>2. CASE ~\E i \in 1 .. Len(l) - 1 : l[i] = c
  BY <1>2 DEF After
<1> QED BY <1>1, <1>2

\* So is the head.
LEMMA FirstType ==
    ASSUME NEW S, NEW l \in Seq(S)
    PROVE  First(l) \in S \cup {NoConn}
BY DEF First

\* list_del leaves a list.
LEMMA WithoutType ==
    ASSUME NEW S, NEW l \in Seq(S), NEW c
    PROVE  Without(l, c) \in Seq(S)
<1>1. CASE \E i \in DOMAIN l : l[i] = c
  <2> DEFINE k == CHOOSE i \in DOMAIN l : l[i] = c
             m == [i \in 1 .. Len(l) - 1 |-> IF i < k THEN l[i] ELSE l[i + 1]]
  <2>1. Without(l, c) = m
    BY <1>1 DEF Without
  <2>2. Len(l) - 1 \in Nat
    BY <1>1
  <2> HIDE DEF k
  <2>3. \A i \in 1 .. Len(l) - 1 : (IF i < k THEN l[i] ELSE l[i + 1]) \in S
    OBVIOUS
  <2>4. m \in Seq(S)
    BY <2>2, <2>3
  <2> QED BY <2>1, <2>4
<1>2. CASE ~\E i \in DOMAIN l : l[i] = c
  BY <1>2 DEF Without
<1> QED BY <1>1, <1>2

--------------------------------------------------------------------------------
\* The entry connlist_checkstatus is about to free is one.
CheckedIsEntry == pc["main"] = "checkdel" => at # NoConn

\* epoll reports an error on a connection's descriptor only, and what the loop
\* serves after accept is a connection's.
ErrorsHaveDescriptors == \A e \in batch : e.err => e.fd \in Fds
Serving == {"read", "close", "del", "command", "check", "checkdel", "beat", "alarm"}
ServedIsKey == pc["main"] \in Serving => cur.fd \in Keys

TypeInv == TypeOK /\ CheckedIsEntry /\ ErrorsHaveDescriptors /\ ServedIsKey

\* At reconn_start everything has its type.
LEMMA InitType == Init => TypeInv
<1> SUFFICES ASSUME Init PROVE TypeInv
  OBVIOUS
<1> USE ConstantsAssumption DEF ConstantsAssumption
<1>1. TableType
  <2>1. conn \in [Conns -> [fd : Keys \cup {0}, type : Types, age : Ages]]
    BY DEF Init, Blank, Types, Ages, Keys, Kinds
  <2> QED BY <2>1 DEF Init, TableType
<1>2. KernelType
  <2>1. desc \in [Fds -> [kind : Kinds \cup {"none"}, peer : {"none", "up", "eof", "err"},
                          inq : 0 .. MaxIn]]
    BY DEF Init, Closed
  <2>2. listening \in BOOLEAN
    BY Zenon DEF Init
  <2> QED BY <2>1, <2>2 DEF Init, KernelType
<1>3. ThreadType
  <2>1. op \in [Threads -> Operation]
    BY DEF Init, NoOp, Operation
  <2> QED BY <2>1 DEF Init, ThreadType, Threads, MainPcs, ReconnPcs
<1>4. LoopType
  BY DEF Init, LoopType
<1>5. CheckedIsEntry /\ ErrorsHaveDescriptors /\ ServedIsKey
  BY DEF Init, CheckedIsEntry, ErrorsHaveDescriptors, ServedIsKey, Serving, Threads
<1>6. misfired \in BOOLEAN
  BY Zenon DEF Init
<1> QED BY <1>1, <1>2, <1>3, <1>4, <1>5, <1>6 DEF TypeInv, TypeOK

--------------------------------------------------------------------------------
(* The kernel's operations and the table's, as the steps use them.           *)

\* close() keeps the kernel's state well typed, and marks events without changing
\* what they report.
LEMMA CloseType ==
    ASSUME TypeOK, NEW f, CloseFd(f), UNCHANGED <<cmds, backlog, listening>>
    PROVE  /\ KernelType' /\ batch' \subseteq Event
           /\ ErrorsHaveDescriptors => ErrorsHaveDescriptors'
<1> USE ConstantsAssumption DEF ConstantsAssumption, TypeOK
<1>1. desc' \in [Fds -> [kind : Kinds \cup {"none"}, peer : {"none", "up", "eof", "err"},
                         inq : 0 .. MaxIn]]
  <2> DEFINE D == [kind : Kinds \cup {"none"}, peer : {"none", "up", "eof", "err"},
                   inq : 0 .. MaxIn]
  <2>1. Closed \in D
    BY DEF Closed
  <2>2. desc \in [Fds -> D] /\ desc' = [desc EXCEPT ![f] = Closed]
    BY DEF CloseFd, KernelType
  <2> HIDE DEF D
  <2>3. desc' \in [Fds -> D]
    BY <2>1, <2>2
  <2> QED BY <2>3 DEF D
<1>2. KernelType'
  BY <1>1 DEF CloseFd, KernelType
<1>3. ASSUME NEW e \in batch
      PROVE  [e EXCEPT !.stale = @ \/ (e.fd = f /\ IsOpen(f))] \in Event
  <2>1. e \in Event
    BY DEF LoopType
  <2>2. (e.stale \/ (e.fd = f /\ IsOpen(f))) \in BOOLEAN
    BY <2>1 DEF Event
  <2> QED BY <2>1, <2>2 DEF Event
<1>4. batch' \subseteq Event
  BY <1>3 DEF CloseFd
<1>5. ASSUME ErrorsHaveDescriptors PROVE ErrorsHaveDescriptors'
  <2>1. ASSUME NEW e \in batch', e.err PROVE e.fd \in Fds
    <3>1. PICK d \in batch : e = [d EXCEPT !.stale = @ \/ (d.fd = f /\ IsOpen(f))]
      BY DEF CloseFd
    <3>2. d \in Event
      BY DEF LoopType
    <3>3. e.err = d.err /\ e.fd = d.fd
      BY <3>1, <3>2 DEF Event
    <3> QED BY <1>5, <2>1, <3>3 DEF ErrorsHaveDescriptors
  <2> QED BY <2>1 DEF ErrorsHaveDescriptors
<1> QED BY <1>2, <1>4, <1>5

\* So does an open, in either thread.
LEMMA OpenType ==
    ASSUME TypeOK, NEW t \in Threads, NEW f \in Fds, NEW k \in Kinds,
           NEW p \in {"none", "up"}, OpenFd(t, f, k, p)
    PROVE  /\ desc' \in [Fds -> [kind : Kinds \cup {"none"},
                                 peer : {"none", "up", "eof", "err"}, inq : 0 .. MaxIn]]
           /\ op' \in [Threads -> Operation]
BY ConstantsAssumption
   DEF ConstantsAssumption, TypeOK, KernelType, ThreadType, OpenFd, Opened, Operation

\* connrbtree_del keeps the table well typed.
LEMMA DeleteType ==
    ASSUME TypeOK, NEW c \in Conns, Delete(c)
    PROVE  TableType'
<1> USE ConstantsAssumption DEF ConstantsAssumption, TypeOK, TableType
<1>1. list' \in Seq(Conns) /\ free' \in Seq(Conns)
  BY WithoutType DEF Delete
<1>2. conn' \in [Conns -> [fd : Keys \cup {0}, type : Types, age : Ages]]
  <2>1. [Blank EXCEPT !.fd = IF c \in Held THEN conn[c].fd ELSE 0]
           \in [fd : Keys \cup {0}, type : Types, age : Ages]
    BY DEF Blank, Types, Ages
  <2> QED BY <2>1 DEF Delete
<1>3. tree' \in [Keys -> Conns \cup {NoConn}]
  BY DEF Delete
<1> QED BY <1>1, <1>2, <1>3

\* What freeconnlist_getconn returns is a connection.
LEMMA SpareType == TypeOK => Spare \subseteq Conns
BY DEF TypeOK, TableType, Spare, Unused

\* A move of a program counter.
LEMMA GotoType ==
    ASSUME TypeOK, NEW t \in Threads, NEW l, Goto(t, l),
           t = "main" => l \in MainPcs, t = "reconn" => l \in ReconnPcs
    PROVE  /\ DOMAIN pc' = Threads /\ pc'["main"] \in MainPcs /\ pc'["reconn"] \in ReconnPcs
           /\ pc'[t] = l
           /\ \A u \in Threads : u # t => pc'[u] = pc[u]
BY DEF TypeOK, ThreadType, Goto, Threads

\* The cursors of a traversal, moved on.
LEMMA AdvanceType ==
    ASSUME TypeOK, NEW l \in Seq(Conns), Advance(l)
    PROVE  at' \in Conns \cup {NoConn} /\ nxt' \in Conns \cup {NoConn}
BY AfterType DEF TypeOK, LoopType, Advance

--------------------------------------------------------------------------------
\* Every step of either thread, and of the world, keeps the types.
LEMMA TypeNext == TypeInv /\ [Next]_vars => TypeInv'
<1> SUFFICES ASSUME TypeInv, [Next]_vars PROVE TypeInv'
  OBVIOUS
<1> USE ConstantsAssumption DEF ConstantsAssumption, TypeInv, TypeOK
<1>1. ASSUME NEW t \in Threads, Insert(t)
      PROVE  TypeInv'
  <2>1. TableType'
    <3>1. PICK c \in Spare :
            /\ conn' = [conn EXCEPT ![c] = [fd |-> op[t].fd, type |-> op[t].kind, age |-> 0]]
            /\ free' = IF free = << >> THEN free ELSE Tail(free)
            /\ \/ UNCHANGED <<tree, list>>
               \/ tree' = [tree EXCEPT ![op[t].fd] = c] /\ list' = Append(list, c)
      BY <1>1 DEF Insert
    <3>2. c \in Conns
      BY SpareType
    <3>3. [fd |-> op[t].fd, type |-> op[t].kind, age |-> 0]
            \in [fd : Keys \cup {0}, type : Types, age : Ages]
      BY DEF ThreadType, Operation, Types, Kinds, Keys, Ages
    <3>4. conn' \in [Conns -> [fd : Keys \cup {0}, type : Types, age : Ages]]
      BY <3>1, <3>2, <3>3 DEF TableType
    <3>5. tree' \in [Keys -> Conns \cup {NoConn}]
      BY <3>1, <3>2 DEF TableType
    <3>6. list' \in Seq(Conns)
      <4>1. list \in Seq(Conns) /\ Append(list, c) \in Seq(Conns)
        BY <3>2 DEF TableType
      <4>2. list' = list \/ list' = Append(list, c)
        BY <3>1
      <4> QED BY <4>1, <4>2
    <3>7. free' \in Seq(Conns)
      BY <3>1 DEF TableType
    <3> QED BY <3>4, <3>5, <3>6, <3>7 DEF TableType
  <2>2. KernelType'
    BY <1>1 DEF Insert, KernelType, kernel, StillReady, Wake
  <2>3. ThreadType' /\ CheckedIsEntry'
    <3>1. PICK c \in Spare : op' = [op EXCEPT ![t].conn = c]
      BY <1>1 DEF Insert
    <3>2. op' \in [Threads -> Operation]
      BY <3>1, SpareType DEF ThreadType, Operation
    <3>3. pc' = pc \/ Goto(t, "register")
      BY <1>1 DEF Insert
    <3> QED BY <1>1, <3>2, <3>3
            DEF Insert, Goto, loop, ThreadType, CheckedIsEntry, MainPcs, ReconnPcs, Threads
  <2>4. LoopType'
    BY <1>1 DEF Insert, NextEvent, LoopType, loop
  <2>5. misfired' \in BOOLEAN
    BY <1>1 DEF Insert
  <2>6. ErrorsHaveDescriptors'
    BY <1>1 DEF Insert, NextEvent, ErrorsHaveDescriptors, loop
  <2>7. ServedIsKey'
    BY <1>1 DEF Insert, Goto, NextEvent, Main, ServedIsKey, Serving, Keys, ThreadType, Threads, loop
  <2> QED BY <2>1, <2>2, <2>3, <2>4, <2>5, <2>6, <2>7
<1>2. ASSUME NEW t \in Threads, Register(t)
      PROVE  TypeInv'
  <2>1. TableType'
    BY <1>2 DEF Register, TableType, table
  <2>2. KernelType'
    <3>1. UNCHANGED <<desc, cmds, backlog, listening>>
      BY <1>2 DEF Register
    <3>2. PICK f : \/ UNCHANGED <<reg, ready>>
                   \/ /\ IsOpen(f)
                      /\ reg' = reg \cup {f}
                      /\ ready' \in {ready, ready \cup {f}}
      BY <1>2 DEF Register
    <3>3. reg' \subseteq Fds \cup {CmdFd, ListenFd} /\ ready' \subseteq reg'
      BY <3>2 DEF IsOpen, KernelType
    <3> QED BY <3>1, <3>3 DEF KernelType
  <2>3. ThreadType' /\ CheckedIsEntry'
    <3>1. op' \in [Threads -> Operation]
      BY <1>2 DEF Register, ThreadType, NoOp, Operation
    <3>2. /\ t = "main" => AfterOpen(t) \in {"accept", "listen"}
          /\ t = "reconn" => AfterOpen(t) \in {"serial?", "server?"}
      BY DEF AfterOpen
    <3> QED BY <1>2, <3>1, <3>2
            DEF Register, Goto, loop, ThreadType, CheckedIsEntry, MainPcs, ReconnPcs, Threads
  <2>4. LoopType'
    BY <1>2 DEF Register, NextEvent, LoopType, loop
  <2>5. misfired' \in BOOLEAN
    BY <1>2 DEF Register
  <2>6. ErrorsHaveDescriptors'
    BY <1>2 DEF Register, NextEvent, ErrorsHaveDescriptors, loop
  <2>7. ServedIsKey'
    <3>1. pc'["main"] \in {pc["main"], "accept", "listen"} /\ cur' = cur
      BY <1>2 DEF Register, Goto, AfterOpen, ThreadType, Threads, loop
    <3> QED BY <3>1 DEF ServedIsKey, Serving
  <2> QED BY <2>1, <2>2, <2>3, <2>4, <2>5, <2>6, <2>7
<1>3. ASSUME NEW t \in Threads, OpenSerial(t)
      PROVE  TypeInv'
  <2>1. TableType'
    BY <1>3 DEF OpenSerial, TableType, table
  <2>2. KernelType'
    BY <1>3, OpenType DEF OpenSerial, KernelType, StillReady, Kinds
  <2>3. ThreadType' /\ CheckedIsEntry'
    <3>1. op' \in [Threads -> Operation]
      BY <1>3, OpenType DEF OpenSerial, ThreadType, Kinds
    <3>2. \/ Goto(t, "insert")
          \/ Goto(t, IF t = "main" THEN "listen" ELSE "server?")
      BY <1>3 DEF OpenSerial
    <3>3. at' = at
      BY <1>3 DEF OpenSerial, loop
    <3> QED BY <3>1, <3>2, <3>3
            DEF Goto, ThreadType, CheckedIsEntry, MainPcs, ReconnPcs, Threads
  <2>4. LoopType'
    BY <1>3 DEF OpenSerial, NextEvent, LoopType, loop
  <2>5. misfired' \in BOOLEAN
    BY <1>3 DEF OpenSerial
  <2>6. ErrorsHaveDescriptors'
    BY <1>3 DEF OpenSerial, NextEvent, ErrorsHaveDescriptors, loop
  <2>7. ServedIsKey'
    BY <1>3 DEF OpenSerial, Goto, NextEvent, Main, ServedIsKey, Serving, Keys, ThreadType, Threads, loop
  <2> QED BY <2>1, <2>2, <2>3, <2>4, <2>5, <2>6, <2>7
<1>4. CASE RegisterPipe
  <2>1. TableType' /\ KernelType' /\ LoopType'
    BY <1>4 DEF RegisterPipe, NextEvent, TableType, table, KernelType, kernel, StillReady, Wake,
               LoopType, loop
  <2>2. ThreadType' /\ CheckedIsEntry' /\ ErrorsHaveDescriptors' /\ ServedIsKey'
    BY <1>4 DEF RegisterPipe, Goto, NextEvent, Main, ThreadType, Threads, MainPcs, ReconnPcs, loop,
               CheckedIsEntry, ErrorsHaveDescriptors, ServedIsKey, Serving, Keys
  <2>3. misfired' \in BOOLEAN
    BY <1>4 DEF RegisterPipe
  <2> QED BY <2>1, <2>2, <2>3
<1>5. CASE Listen
  <2>1. TableType' /\ KernelType' /\ LoopType'
    BY <1>5 DEF Listen, NextEvent, TableType, table, KernelType, kernel, StillReady, Wake,
               LoopType, loop
  <2>2. ThreadType' /\ CheckedIsEntry' /\ ErrorsHaveDescriptors' /\ ServedIsKey'
    BY <1>5 DEF Listen, Goto, NextEvent, Main, ThreadType, Threads, MainPcs, ReconnPcs, loop,
               CheckedIsEntry, ErrorsHaveDescriptors, ServedIsKey, Serving, Keys
  <2>3. misfired' \in BOOLEAN
    BY <1>5 DEF Listen
  <2> QED BY <2>1, <2>2, <2>3
<1>6. CASE Wait
  <2>1. TableType'
    BY <1>6 DEF Wait, TableType, table
  <2>2. KernelType'
    BY <1>6 DEF Wait, KernelType, kernel, StillReady, Wake
  <2>3. ThreadType' /\ CheckedIsEntry'
    BY <1>6 DEF Wait, Goto, NextEvent, Main, ThreadType, CheckedIsEntry, loop,
               MainPcs, ReconnPcs, Threads
  <2>4. LoopType'
    <3>1. PICK S \in SUBSET {f \in ready : HasEvent(f)} :
            batch' = {[fd |-> f, stale |-> FALSE,
                       err |-> f \in Fds /\ desc[f].peer = "err"] : f \in S}
      BY <1>6 DEF Wait
    <3>2. S \subseteq Fds \cup {CmdFd, ListenFd}
      BY DEF KernelType
    <3>3. ASSUME NEW e \in batch' PROVE e \in Event
      <4>1. PICK f \in S : e = [fd |-> f, stale |-> FALSE,
                                err |-> f \in Fds /\ desc[f].peer = "err"]
        BY <3>1
      <4>2. (f \in Fds /\ desc[f].peer = "err") \in BOOLEAN
        OBVIOUS
      <4>3. f \in Fds \cup {CmdFd, ListenFd}
        BY <3>2
      <4> QED BY <4>1, <4>2, <4>3 DEF Event
    <3>4. batch' \subseteq Event
      BY <3>3
    <3> QED BY <1>6, <3>4 DEF Wait, LoopType
  <2>5. misfired' \in BOOLEAN
    BY <1>6 DEF Wait
  <2>6. ErrorsHaveDescriptors'
    <3>1. PICK S \in SUBSET {f \in ready : HasEvent(f)} :
            batch' = {[fd |-> f, stale |-> FALSE,
                       err |-> f \in Fds /\ desc[f].peer = "err"] : f \in S}
      BY <1>6 DEF Wait
    <3>2. ASSUME NEW e \in batch', e.err PROVE e.fd \in Fds
      <4>1. PICK f \in S : e = [fd |-> f, stale |-> FALSE,
                                err |-> f \in Fds /\ desc[f].peer = "err"]
        BY <3>1
      <4>2. e.fd = f /\ (e.err <=> f \in Fds /\ desc[f].peer = "err")
        BY <4>1
      <4> QED BY <3>2, <4>2
    <3> QED BY <3>2 DEF ErrorsHaveDescriptors
  <2>7. ServedIsKey'
    BY <1>6 DEF Wait, Goto, NextEvent, Main, ServedIsKey, Serving, Keys, ThreadType, Threads, loop
  <2> QED BY <2>1, <2>2, <2>3, <2>4, <2>5, <2>6, <2>7
<1>7. CASE Dispatch
  <2>1. TableType'
    BY <1>7 DEF Dispatch, TableType, table
  <2>2. KernelType'
    BY <1>7 DEF Dispatch, KernelType, kernel, StillReady, Wake
  <2>3. ThreadType' /\ CheckedIsEntry'
    BY <1>7 DEF Dispatch, Goto, NextEvent, Main, ThreadType, CheckedIsEntry, loop,
               MainPcs, ReconnPcs, Threads
  <2>4. LoopType'
    BY <1>7 DEF Dispatch, NextEvent, LoopType, loop
  <2>5. misfired' \in BOOLEAN
    BY <1>7 DEF Dispatch
  <2>6. ErrorsHaveDescriptors'
    BY <1>7 DEF Dispatch, NextEvent, ErrorsHaveDescriptors, loop
  <2>7. ServedIsKey'
    <3>1. PICK e \in batch :
            /\ cur' = e
            /\ Goto("main", IF e.err THEN "close"
                            ELSE IF e.fd = ListenFd THEN "accept" ELSE "read")
      BY <1>7 DEF Dispatch
    <3>2. e.fd \in Fds \cup {CmdFd, ListenFd} /\ (e.err => e.fd \in Fds)
      BY DEF LoopType, Event, ErrorsHaveDescriptors
    <3>3. pc'["main"] = "accept" \/ e.fd \in Keys
      BY <3>1, <3>2 DEF Goto, ThreadType, Threads, Keys
    <3> QED BY <3>1, <3>3 DEF ServedIsKey, Serving
  <2> QED BY <2>1, <2>2, <2>3, <2>4, <2>5, <2>6, <2>7
<1>8. CASE Accept
  <2>1. TableType'
    BY <1>8 DEF Accept, TableType, table
  <2>2. KernelType'
    <3>1. CASE \E f \in Fds : OpenFd("main", f, "client", "up")
      <4>1. desc' \in [Fds -> [kind : Kinds \cup {"none"},
                               peer : {"none", "up", "eof", "err"}, inq : 0 .. MaxIn]]
        BY <3>1, OpenType DEF Threads, Kinds
      <4>2. /\ reg' = reg /\ cmds' = cmds /\ listening' = listening
            /\ backlog' = backlog \/ (backlog > 0 /\ backlog' = backlog - 1)
            /\ ready' = ready \/ ready' = ready \ {ListenFd}
        BY <1>8 DEF Accept, StillReady
      <4>3. backlog' \in 0 .. MaxBacklog
        BY <4>2 DEF KernelType
      <4>4. ready' \subseteq reg'
        BY <4>2 DEF KernelType
      <4> QED BY <4>1, <4>2, <4>3, <4>4 DEF KernelType
    <3>2. CASE UNCHANGED <<desc, op, ready, backlog>>
      BY <1>8, <3>2 DEF Accept, KernelType
    <3> QED BY <1>8, <3>1, <3>2 DEF Accept
  <2>3. ThreadType' /\ CheckedIsEntry'
    <3>1. op' \in [Threads -> Operation]
      BY <1>8, OpenType DEF Accept, ThreadType, Threads, Kinds
    <3>2. Goto("main", "insert") \/ Goto("main", "next")
      BY <1>8 DEF Accept, NextEvent
    <3> QED BY <3>1, <3>2
            DEF Goto, ThreadType, CheckedIsEntry, MainPcs, ReconnPcs, Threads
  <2>4. LoopType'
    BY <1>8 DEF Accept, NextEvent, LoopType, loop
  <2>5. misfired' \in BOOLEAN
    BY <1>8 DEF Accept
  <2>6. ErrorsHaveDescriptors'
    BY <1>8 DEF Accept, NextEvent, ErrorsHaveDescriptors, loop
  <2>7. ServedIsKey'
    BY <1>8 DEF Accept, Goto, NextEvent, Main, ServedIsKey, Serving, Keys, ThreadType, Threads, loop
  <2> QED BY <2>1, <2>2, <2>3, <2>4, <2>5, <2>6, <2>7
<1>9. CASE ReadPipe
  <2>1. TableType'
    BY <1>9 DEF ReadPipe, TableType, table
  <2>2. KernelType'
    BY <1>9 DEF ReadPipe, KernelType, kernel, StillReady, Wake
  <2>3. ThreadType' /\ CheckedIsEntry'
    BY <1>9 DEF ReadPipe, Goto, NextEvent, Main, ThreadType, CheckedIsEntry, loop,
               MainPcs, ReconnPcs, Threads
  <2>4. LoopType'
    <3>1. /\ batch' = batch /\ at' = at /\ nxt' = nxt
          /\ cur' \in {cur, NoEvent}
          /\ todo' \in {cmds, todo}
      BY <1>9 DEF ReadPipe, NextEvent
    <3> QED BY <3>1 DEF LoopType, KernelType
  <2>5. misfired' \in BOOLEAN
    BY <1>9 DEF ReadPipe
  <2>6. ErrorsHaveDescriptors'
    BY <1>9 DEF ReadPipe, NextEvent, ErrorsHaveDescriptors, loop
  <2>7. ServedIsKey'
    BY <1>9 DEF ReadPipe, Goto, NextEvent, Main, ServedIsKey, Serving, Keys, ThreadType, Threads, loop
  <2> QED BY <2>1, <2>2, <2>3, <2>4, <2>5, <2>6, <2>7
<1>10. CASE ReadInput
  <2>1. TableType'
    BY <1>10 DEF ReadInput, TableType, table
  <2>2. KernelType'
    BY <1>10 DEF ReadInput, KernelType, kernel, StillReady, Wake
  <2>3. ThreadType' /\ CheckedIsEntry'
    BY <1>10 DEF ReadInput, Goto, NextEvent, Main, ThreadType, CheckedIsEntry, loop,
               MainPcs, ReconnPcs, Threads
  <2>4. LoopType'
    BY <1>10, FirstType, AfterType DEF ReadInput, LoopType, loop, TableType
  <2>5. misfired' \in BOOLEAN
    BY <1>10 DEF ReadInput
  <2>6. ErrorsHaveDescriptors'
    BY <1>10 DEF ReadInput, NextEvent, ErrorsHaveDescriptors, loop
  <2>7. ServedIsKey'
    BY <1>10 DEF ReadInput, Goto, NextEvent, Main, ServedIsKey, Serving, Keys, ThreadType, Threads, loop
  <2> QED BY <2>1, <2>2, <2>3, <2>4, <2>5, <2>6, <2>7
<1>11. CASE ReadNothing
  <2>1. TableType' /\ KernelType' /\ LoopType'
    BY <1>11 DEF ReadNothing, NextEvent, TableType, table, KernelType, kernel, StillReady, Wake,
               LoopType, loop
  <2>2. ThreadType' /\ CheckedIsEntry' /\ ErrorsHaveDescriptors' /\ ServedIsKey'
    BY <1>11 DEF ReadNothing, Goto, NextEvent, Main, ThreadType, Threads, MainPcs, ReconnPcs, loop,
               CheckedIsEntry, ErrorsHaveDescriptors, ServedIsKey, Serving, Keys
  <2>3. misfired' \in BOOLEAN
    BY <1>11 DEF ReadNothing
  <2> QED BY <2>1, <2>2, <2>3
<1>12. CASE Close
  <2>1. TableType'
    BY <1>12 DEF Close, TableType, table
  <2>2. KernelType'
    BY <1>12, CloseType DEF Close, KernelType, kernel
  <2>3. ThreadType' /\ CheckedIsEntry'
    BY <1>12 DEF Close, Goto, NextEvent, Main, ThreadType, CheckedIsEntry, loop,
               MainPcs, ReconnPcs, Threads
  <2>4. LoopType'
    BY <1>12, CloseType DEF Close, NextEvent, LoopType, loop
  <2>5. misfired' \in BOOLEAN
    BY <1>12 DEF Close
  <2>6. ErrorsHaveDescriptors'
    BY <1>12, CloseType DEF Close, NextEvent, ErrorsHaveDescriptors, loop
  <2>7. ServedIsKey'
    BY <1>12 DEF Close, Goto, NextEvent, Main, ServedIsKey, Serving, Keys, ThreadType, Threads, loop
  <2> QED BY <2>1, <2>2, <2>3, <2>4, <2>5, <2>6, <2>7
<1>13. CASE EventClose
  <2>1. TableType'
    <3>1. CASE UNCHANGED table
      BY <3>1 DEF table, TableType
    <3>2. CASE tree[cur.fd] # NoConn /\ Delete(tree[cur.fd])
      <4>1. cur.fd \in Keys
        BY <1>13 DEF EventClose, Main, ServedIsKey, Serving
      <4>2. tree[cur.fd] \in Conns
        BY <3>2, <4>1 DEF TableType
      <4> QED BY <3>2, <4>2, DeleteType
    <3> QED BY <1>13, <3>1, <3>2 DEF EventClose
  <2>2. KernelType'
    BY <1>13 DEF EventClose, KernelType, kernel, StillReady, Wake
  <2>3. ThreadType' /\ CheckedIsEntry'
    BY <1>13 DEF EventClose, Goto, NextEvent, Main, ThreadType, CheckedIsEntry, loop,
               MainPcs, ReconnPcs, Threads
  <2>4. LoopType'
    BY <1>13 DEF EventClose, NextEvent, LoopType, loop
  <2>5. misfired' \in BOOLEAN
    BY <1>13 DEF EventClose
  <2>6. ErrorsHaveDescriptors'
    BY <1>13 DEF EventClose, NextEvent, ErrorsHaveDescriptors, loop
  <2>7. ServedIsKey'
    BY <1>13 DEF EventClose, Goto, NextEvent, Main, ServedIsKey, Serving, Keys, ThreadType, Threads, loop
  <2> QED BY <2>1, <2>2, <2>3, <2>4, <2>5, <2>6, <2>7
<1>14. CASE Command
  <2>1. TableType'
    BY <1>14 DEF Command, TableType, table
  <2>2. KernelType'
    BY <1>14 DEF Command, KernelType, kernel, StillReady, Wake
  <2>3. ThreadType' /\ CheckedIsEntry'
    BY <1>14 DEF Command, Goto, NextEvent, Main, ThreadType, CheckedIsEntry, loop,
               MainPcs, ReconnPcs, Threads
  <2>4. LoopType'
    <3>1. /\ batch' = batch /\ cur' = cur /\ todo' \subseteq todo
          /\ at' \in {at, First(list)}
          /\ nxt' \in {nxt, After(list, First(list))}
      BY <1>14 DEF Command
    <3> QED BY <3>1, FirstType, AfterType DEF LoopType, TableType
  <2>5. misfired' \in BOOLEAN
    BY <1>14 DEF Command
  <2>6. ErrorsHaveDescriptors'
    BY <1>14 DEF Command, NextEvent, ErrorsHaveDescriptors, loop
  <2>7. ServedIsKey'
    BY <1>14 DEF Command, Goto, NextEvent, Main, ServedIsKey, Serving, Keys, ThreadType, Threads, loop
  <2> QED BY <2>1, <2>2, <2>3, <2>4, <2>5, <2>6, <2>7
<1>15. CASE Check
  <2>1. TableType'
    BY <1>15 DEF Check, TableType, table
  <2>2. KernelType'
    BY <1>15, CloseType DEF Check, KernelType, kernel
  <2>3. ThreadType' /\ CheckedIsEntry'
    BY <1>15 DEF Check, Goto, NextEvent, Main, ThreadType, CheckedIsEntry, loop,
               MainPcs, ReconnPcs, Threads
  <2>4. LoopType'
    <3>1. CASE CloseFd(conn[at].fd) /\ UNCHANGED <<at, nxt>>
      <4>1. batch' \subseteq Event
        BY <1>15, <3>1, CloseType DEF Check
      <4> QED BY <1>15, <3>1, <4>1 DEF Check, LoopType
    <3>2. CASE Advance(list) /\ UNCHANGED batch
      BY <1>15, <3>2, AdvanceType DEF Check, LoopType, TableType
    <3> QED BY <1>15, <3>1, <3>2 DEF Check
  <2>5. misfired' \in BOOLEAN
    BY <1>15 DEF Check
  <2>6. ErrorsHaveDescriptors'
    BY <1>15, CloseType DEF Check, NextEvent, ErrorsHaveDescriptors, loop
  <2>7. ServedIsKey'
    BY <1>15 DEF Check, Goto, NextEvent, Main, ServedIsKey, Serving, Keys, ThreadType, Threads, loop
  <2> QED BY <2>1, <2>2, <2>3, <2>4, <2>5, <2>6, <2>7
<1>16. CASE CheckDel
  <2>1. TableType'
    <3>1. at \in Conns
      BY <1>16 DEF CheckDel, Main, CheckedIsEntry, LoopType
    <3> QED BY <1>16, <3>1, DeleteType DEF CheckDel
  <2>2. KernelType'
    BY <1>16 DEF CheckDel, KernelType, kernel, StillReady, Wake
  <2>3. ThreadType' /\ CheckedIsEntry'
    BY <1>16 DEF CheckDel, Goto, NextEvent, Main, ThreadType, CheckedIsEntry, loop,
               MainPcs, ReconnPcs, Threads
  <2>4. LoopType'
    <3>1. list' \in Seq(Conns)
      BY <2>1 DEF TableType
    <3> QED BY <1>16, <3>1, AdvanceType DEF CheckDel, LoopType
  <2>5. misfired' \in BOOLEAN
    BY <1>16 DEF CheckDel
  <2>6. ErrorsHaveDescriptors'
    BY <1>16 DEF CheckDel, NextEvent, ErrorsHaveDescriptors, loop
  <2>7. ServedIsKey'
    BY <1>16 DEF CheckDel, Goto, NextEvent, Main, ServedIsKey, Serving, Keys, ThreadType, Threads, loop
  <2> QED BY <2>1, <2>2, <2>3, <2>4, <2>5, <2>6, <2>7
<1>17. CASE Beat
  <2>1. TableType' /\ KernelType' /\ LoopType'
    BY <1>17, AdvanceType DEF Beat, NextEvent, TableType, table, KernelType, kernel, StillReady, Wake,
               LoopType, loop
  <2>2. ThreadType' /\ CheckedIsEntry' /\ ErrorsHaveDescriptors' /\ ServedIsKey'
    BY <1>17 DEF Beat, Goto, NextEvent, Main, ThreadType, Threads, MainPcs, ReconnPcs, loop,
               CheckedIsEntry, ErrorsHaveDescriptors, ServedIsKey, Serving, Keys
  <2>3. misfired' \in BOOLEAN
    BY <1>17 DEF Beat
  <2> QED BY <2>1, <2>2, <2>3
<1>18. CASE Alarm
  <2>1. TableType' /\ KernelType' /\ LoopType'
    BY <1>18, AdvanceType DEF Alarm, NextEvent, TableType, table, KernelType, kernel, StillReady, Wake,
               LoopType, loop
  <2>2. ThreadType' /\ CheckedIsEntry' /\ ErrorsHaveDescriptors' /\ ServedIsKey'
    BY <1>18 DEF Alarm, Goto, NextEvent, Main, ThreadType, Threads, MainPcs, ReconnPcs, loop,
               CheckedIsEntry, ErrorsHaveDescriptors, ServedIsKey, Serving, Keys
  <2>3. misfired' \in BOOLEAN
    BY <1>18 DEF Alarm
  <2> QED BY <2>1, <2>2, <2>3
<1>19. CASE EndTraversal
  <2>1. TableType' /\ KernelType' /\ LoopType'
    BY <1>19 DEF EndTraversal, NextEvent, TableType, table, KernelType, kernel, StillReady, Wake,
               LoopType, loop
  <2>2. ThreadType' /\ CheckedIsEntry' /\ ErrorsHaveDescriptors' /\ ServedIsKey'
    BY <1>19 DEF EndTraversal, Goto, NextEvent, Main, ThreadType, Threads, MainPcs, ReconnPcs, loop,
               CheckedIsEntry, ErrorsHaveDescriptors, ServedIsKey, Serving, Keys
  <2>3. misfired' \in BOOLEAN
    BY <1>19 DEF EndTraversal
  <2> QED BY <2>1, <2>2, <2>3
<1>20. CASE CheckServer
  <2>1. TableType' /\ KernelType' /\ LoopType'
    BY <1>20 DEF CheckServer, NextEvent, TableType, table, KernelType, kernel, StillReady, Wake,
               LoopType, loop
  <2>2. ThreadType' /\ CheckedIsEntry' /\ ErrorsHaveDescriptors' /\ ServedIsKey'
    BY <1>20 DEF CheckServer, Goto, NextEvent, Main, ThreadType, Threads, MainPcs, ReconnPcs, loop,
               CheckedIsEntry, ErrorsHaveDescriptors, ServedIsKey, Serving, Keys
  <2>3. misfired' \in BOOLEAN
    BY <1>20 DEF CheckServer
  <2> QED BY <2>1, <2>2, <2>3
<1>21. CASE CheckSerial
  <2>1. TableType' /\ KernelType' /\ LoopType'
    BY <1>21 DEF CheckSerial, NextEvent, TableType, table, KernelType, kernel, StillReady, Wake,
               LoopType, loop
  <2>2. ThreadType' /\ CheckedIsEntry' /\ ErrorsHaveDescriptors' /\ ServedIsKey'
    BY <1>21 DEF CheckSerial, Goto, NextEvent, Main, ThreadType, Threads, MainPcs, ReconnPcs, loop,
               CheckedIsEntry, ErrorsHaveDescriptors, ServedIsKey, Serving, Keys
  <2>3. misfired' \in BOOLEAN
    BY <1>21 DEF CheckSerial
  <2> QED BY <2>1, <2>2, <2>3
<1>22. CASE Socket
  <2>1. TableType'
    BY <1>22 DEF Socket, TableType, table
  <2>2. KernelType'
    <3>1. CASE \E f \in Fds : OpenFd("reconn", f, "server", "none")
      <4>1. desc' \in [Fds -> [kind : Kinds \cup {"none"},
                               peer : {"none", "up", "eof", "err"}, inq : 0 .. MaxIn]]
        BY <3>1, OpenType DEF Threads, Kinds
      <4> QED BY <1>22, <4>1 DEF Socket, KernelType
    <3>2. CASE UNCHANGED <<desc, op>>
      BY <1>22, <3>2 DEF Socket, KernelType
    <3> QED BY <1>22, <3>1, <3>2 DEF Socket
  <2>3. ThreadType' /\ CheckedIsEntry'
    <3>1. op' \in [Threads -> Operation]
      BY <1>22, OpenType DEF Socket, ThreadType, Threads, Kinds
    <3>2. Goto("reconn", "connect") \/ Goto("reconn", "serial?")
      BY <1>22 DEF Socket
    <3>3. at' = at
      BY <1>22 DEF Socket, loop
    <3> QED BY <3>1, <3>2, <3>3
            DEF Goto, ThreadType, CheckedIsEntry, MainPcs, ReconnPcs, Threads
  <2>4. LoopType'
    BY <1>22 DEF Socket, NextEvent, LoopType, loop
  <2>5. misfired' \in BOOLEAN
    BY <1>22 DEF Socket
  <2>6. ErrorsHaveDescriptors'
    BY <1>22 DEF Socket, NextEvent, ErrorsHaveDescriptors, loop
  <2>7. ServedIsKey'
    BY <1>22 DEF Socket, Goto, NextEvent, Main, ServedIsKey, Serving, Keys, ThreadType, Threads, loop
  <2> QED BY <2>1, <2>2, <2>3, <2>4, <2>5, <2>6, <2>7
<1>23. CASE Connect
  <2>1. TableType'
    BY <1>23 DEF Connect, TableType, table
  <2>2. KernelType'
    BY <1>23 DEF Connect, KernelType, kernel, StillReady, Wake
  <2>3. ThreadType' /\ CheckedIsEntry'
    BY <1>23 DEF Connect, Goto, NextEvent, Main, ThreadType, CheckedIsEntry, loop,
               MainPcs, ReconnPcs, Threads
  <2>4. LoopType'
    BY <1>23 DEF Connect, NextEvent, LoopType, loop
  <2>5. misfired' \in BOOLEAN
    BY <1>23 DEF Connect
  <2>6. ErrorsHaveDescriptors'
    BY <1>23 DEF Connect, NextEvent, ErrorsHaveDescriptors, loop
  <2>7. ServedIsKey'
    BY <1>23 DEF Connect, Goto, NextEvent, Main, ServedIsKey, Serving, Keys, ThreadType, Threads, loop
  <2> QED BY <2>1, <2>2, <2>3, <2>4, <2>5, <2>6, <2>7
<1>24. CASE ConnectFails
  <2>1. TableType'
    BY <1>24 DEF ConnectFails, TableType, table
  <2>2. KernelType'
    BY <1>24, CloseType DEF ConnectFails, KernelType, kernel
  <2>3. ThreadType' /\ CheckedIsEntry'
    <3>1. op' \in [Threads -> Operation]
      BY <1>24 DEF ConnectFails, ThreadType, NoOp, Operation
    <3> QED BY <1>24, <3>1
            DEF ConnectFails, Goto, ThreadType, CheckedIsEntry, MainPcs, ReconnPcs, Threads
  <2>4. LoopType'
    BY <1>24, CloseType DEF ConnectFails, NextEvent, LoopType, loop
  <2>5. misfired' \in BOOLEAN
    BY <1>24 DEF ConnectFails
  <2>6. ErrorsHaveDescriptors'
    BY <1>24, CloseType DEF ConnectFails, NextEvent, ErrorsHaveDescriptors, loop
  <2>7. ServedIsKey'
    BY <1>24 DEF ConnectFails, Goto, NextEvent, Main, ServedIsKey, Serving, Keys, ThreadType, Threads, loop
  <2> QED BY <2>1, <2>2, <2>3, <2>4, <2>5, <2>6, <2>7
<1>25. CASE Tick
  <2>1. TableType'
    <3>1. ASSUME NEW c \in Conns
          PROVE  (IF conn[c].type \in Sockets /\ conn[c].age <= Timeout
                  THEN [conn[c] EXCEPT !.age = @ + 1] ELSE conn[c])
                   \in [fd : Keys \cup {0}, type : Types, age : Ages]
      <4>1. conn[c] \in [fd : Keys \cup {0}, type : Types, age : Ages]
        BY DEF TableType
      <4>2. conn[c].age <= Timeout => conn[c].age + 1 \in Ages
        BY <4>1 DEF Ages
      <4> QED BY <4>1, <4>2
    <3> QED BY <1>25, <3>1 DEF Tick, TableType
  <2>2. KernelType'
    BY <1>25 DEF Tick, KernelType, kernel, StillReady, Wake
  <2>3. ThreadType' /\ CheckedIsEntry'
    BY <1>25 DEF Tick, Goto, NextEvent, Main, ThreadType, CheckedIsEntry, loop,
               MainPcs, ReconnPcs, Threads
  <2>4. LoopType'
    BY <1>25 DEF Tick, NextEvent, LoopType, loop
  <2>5. misfired' \in BOOLEAN
    BY <1>25 DEF Tick
  <2>6. ErrorsHaveDescriptors'
    BY <1>25 DEF Tick, NextEvent, ErrorsHaveDescriptors, loop
  <2>7. ServedIsKey'
    BY <1>25 DEF Tick, Goto, NextEvent, Main, ServedIsKey, Serving, Keys, ThreadType, Threads, loop
  <2> QED BY <2>1, <2>2, <2>3, <2>4, <2>5, <2>6, <2>7
<1>26. CASE ClientArrives
  <2>1. TableType' /\ KernelType' /\ LoopType'
    BY <1>26 DEF ClientArrives, NextEvent, TableType, table, KernelType, kernel, StillReady, Wake,
               LoopType, loop
  <2>2. ThreadType' /\ CheckedIsEntry' /\ ErrorsHaveDescriptors' /\ ServedIsKey'
    BY <1>26 DEF ClientArrives, Goto, NextEvent, Main, ThreadType, Threads, MainPcs, ReconnPcs, loop,
               CheckedIsEntry, ErrorsHaveDescriptors, ServedIsKey, Serving, Keys
  <2>3. misfired' \in BOOLEAN
    BY <1>26 DEF ClientArrives
  <2> QED BY <2>1, <2>2, <2>3
<1>27. ASSUME NEW f \in Fds, PeerActs(f)
      PROVE  TypeInv'
  <2>1. TableType'
    BY <1>27 DEF PeerActs, TableType, table
  <2>2. KernelType'
    BY <1>27 DEF PeerActs, KernelType, kernel, StillReady, Wake
  <2>3. ThreadType' /\ CheckedIsEntry'
    BY <1>27 DEF PeerActs, Goto, NextEvent, Main, ThreadType, CheckedIsEntry, loop,
               MainPcs, ReconnPcs, Threads
  <2>4. LoopType'
    BY <1>27 DEF PeerActs, NextEvent, LoopType, loop
  <2>5. misfired' \in BOOLEAN
    BY <1>27 DEF PeerActs
  <2>6. ErrorsHaveDescriptors'
    BY <1>27 DEF PeerActs, NextEvent, ErrorsHaveDescriptors, loop
  <2>7. ServedIsKey'
    BY <1>27 DEF PeerActs, Goto, NextEvent, Main, ServedIsKey, Serving, Keys, ThreadType, Threads, loop
  <2> QED BY <2>1, <2>2, <2>3, <2>4, <2>5, <2>6, <2>7
<1>28. CASE UNCHANGED vars
  BY <1>28 DEF vars, table, kernel, loop, TableType, KernelType, ThreadType, LoopType,
               CheckedIsEntry, ErrorsHaveDescriptors, ServedIsKey
<1> QED
  BY <1>1, <1>2, <1>3, <1>4, <1>5, <1>6, <1>7, <1>8, <1>9, <1>10, <1>11, <1>12, <1>13,
     <1>14, <1>15, <1>16, <1>17, <1>18, <1>19, <1>20, <1>21, <1>22, <1>23, <1>24, <1>25,
     <1>26, <1>27, <1>28
     DEF Next, MainStep, ReconnStep, OpenStep, World, Threads

\* Every state the gateway reaches is well typed: the tree, the list and the free
\* list hold connections (connection.c:63-101,145-188), the loop's cursors are
\* entries or the end of the list (connection.c:103-112), and what it is serving
\* when it closes a descriptor and looks it up again is a descriptor the table
\* is keyed by (eventhub.c:64-115, event.c:141-146).
THEOREM TypeCorrect == Spec => []TypeOK
<1>1. TypeInv => TypeOK
  BY DEF TypeInv
<1> QED BY InitType, TypeNext, <1>1, PTL DEF Spec

--------------------------------------------------------------------------------
(* What the list operations do to the elements of a list.                    *)

\* A list without repetition has as many elements as its length.
LEMMA InjectiveCardinality ==
    ASSUME NEW S, NEW l \in Seq(S), IsInjective(l)
    PROVE  IsFiniteSet(Range(l)) /\ Cardinality(Range(l)) = Len(l)
<1>1. l \in Surjection(1 .. Len(l), Range(l))
  BY DEF Surjection, Range
<1>2. l \in Injection(1 .. Len(l), Range(l))
  <2>1. l \in [1 .. Len(l) -> Range(l)] /\ DOMAIN l = 1 .. Len(l)
    BY DEF Range
  <2> QED BY <2>1 DEF Injection, IsInjective
<1>3. IsFiniteSet(1 .. Len(l)) /\ Cardinality(1 .. Len(l)) = Len(l)
  <2>1. Len(l) \in Nat
    OBVIOUS
  <2> DEFINE n == Len(l)
  <2> HIDE DEF n
  <2>2. n \in Int /\ n >= 0 /\ 1 \in Int
    BY <2>1 DEF n
  <2>3. IsFiniteSet(1 .. n) /\ Cardinality(1 .. n) = IF 1 > n THEN 0 ELSE n - 1 + 1
    BY <2>2, FS_Interval
  <2>4. Cardinality(1 .. n) = n
    BY <2>2, <2>3
  <2> QED BY <2>3, <2>4 DEF n
<1> QED BY <1>1, <1>2, <1>3, FS_Surjection

\* list_add_tail adds its element, and a new one once.
LEMMA AppendRange ==
    ASSUME NEW S, NEW l \in Seq(S), NEW c \in S
    PROVE  /\ Range(Append(l, c)) = Range(l) \cup {c}
           /\ IsInjective(l) /\ c \notin Range(l) => IsInjective(Append(l, c))
<1>1. /\ DOMAIN Append(l, c) = 1 .. Len(l) + 1
      /\ \A i \in 1 .. Len(l) : Append(l, c)[i] = l[i]
      /\ Append(l, c)[Len(l) + 1] = c
  OBVIOUS
<1>2. DOMAIN l = 1 .. Len(l) /\ Len(l) \in Nat
  OBVIOUS
<1>3. Range(Append(l, c)) = Range(l) \cup {c}
  <2> DEFINE m == Append(l, c)
  <2>1. ASSUME NEW x \in Range(m) PROVE x \in Range(l) \cup {c}
    BY <1>1, <1>2 DEF Range
  <2>2. ASSUME NEW x \in Range(l) \cup {c} PROVE x \in Range(m)
    <3>1. CASE x = c
      BY <1>1, <1>2, <3>1 DEF Range
    <3>2. CASE x \in Range(l)
      BY <1>1, <1>2, <3>2 DEF Range
    <3> QED BY <3>1, <3>2
  <2> QED BY <2>1, <2>2
<1>4. ASSUME IsInjective(l), c \notin Range(l) PROVE IsInjective(Append(l, c))
  BY <1>1, <1>2, <1>4 DEF IsInjective, Range
<1> QED BY <1>3, <1>4

\* Taking the head of a list without repetition removes that element.
LEMMA TailRange ==
    ASSUME NEW S, NEW l \in Seq(S), l # << >>, IsInjective(l)
    PROVE  Range(Tail(l)) = Range(l) \ {Head(l)} /\ IsInjective(Tail(l))
<1>1. /\ Len(l) \in Nat \ {0} /\ DOMAIN l = 1 .. Len(l) /\ Head(l) = l[1]
      /\ DOMAIN Tail(l) = 1 .. Len(l) - 1
      /\ \A i \in 1 .. Len(l) - 1 : Tail(l)[i] = l[i + 1]
  OBVIOUS
<1>2. IsInjective(Tail(l))
  BY <1>1 DEF IsInjective
<1>3. ASSUME NEW x \in Range(Tail(l)) PROVE x \in Range(l) \ {Head(l)}
  <2>1. PICK i \in 1 .. Len(l) - 1 : x = l[i + 1]
    BY <1>1 DEF Range
  <2> QED BY <1>1, <2>1 DEF Range, IsInjective
<1>4. ASSUME NEW x \in Range(l) \ {Head(l)} PROVE x \in Range(Tail(l))
  <2>1. PICK i \in 1 .. Len(l) : x = l[i] /\ i # 1
    BY <1>1 DEF Range
  <2>2. i - 1 \in 1 .. Len(l) - 1 /\ Tail(l)[i - 1] = x
    BY <1>1, <2>1
  <2> QED BY <1>1, <2>2 DEF Range
<1> QED BY <1>2, <1>3, <1>4

\* list_del on a list without repetition removes its element.
LEMMA WithoutRange ==
    ASSUME NEW S, NEW l \in Seq(S), NEW c, IsInjective(l)
    PROVE  Range(Without(l, c)) = Range(l) \ {c} /\ IsInjective(Without(l, c))
<1>1. CASE \E i \in DOMAIN l : l[i] = c
  <2> DEFINE k == CHOOSE i \in DOMAIN l : l[i] = c
             m == Without(l, c)
  <2>1. k \in 1 .. Len(l) /\ l[k] = c
    BY <1>1
  <2>2. m = [i \in 1 .. Len(l) - 1 |-> IF i < k THEN l[i] ELSE l[i + 1]]
    BY <1>1 DEF Without
  <2> HIDE DEF k, m
  <2>3. /\ Len(l) \in Nat /\ DOMAIN l = 1 .. Len(l) /\ DOMAIN m = 1 .. Len(l) - 1
        /\ \A i \in 1 .. Len(l) - 1 : m[i] = IF i < k THEN l[i] ELSE l[i + 1]
    BY <2>2
  <2>4. IsInjective(m)
    <3> SUFFICES ASSUME NEW i \in 1 .. Len(l) - 1, NEW j \in 1 .. Len(l) - 1,
                        m[i] = m[j]
                 PROVE  i = j
      BY <2>3 DEF IsInjective
    <3> DEFINE At(n) == IF n < k THEN n ELSE n + 1
    <3>1. At(i) \in 1 .. Len(l) /\ At(j) \in 1 .. Len(l)
      BY <2>1, <2>3
    <3>2. l[At(i)] = m[i] /\ l[At(j)] = m[j]
      BY <2>3
    <3>3. At(i) = At(j)
      BY <2>3, <3>1, <3>2 DEF IsInjective
    <3> QED BY <2>1, <2>3, <3>3
  <2>5. ASSUME NEW x \in Range(m) PROVE x \in Range(l) \ {c}
    <3>1. PICK i \in 1 .. Len(l) - 1 : x = IF i < k THEN l[i] ELSE l[i + 1]
      BY <2>3 DEF Range
    <3>2. PICK j \in 1 .. Len(l) : x = l[j] /\ j # k
      BY <2>1, <2>3, <3>1
    <3> QED BY <2>1, <2>3, <3>2 DEF Range, IsInjective
  <2>6. ASSUME NEW x \in Range(l) \ {c} PROVE x \in Range(m)
    <3>1. PICK j \in 1 .. Len(l) : x = l[j] /\ j # k
      BY <2>1, <2>3 DEF Range
    <3>2. CASE j < k
      BY <2>1, <2>3, <3>1, <3>2 DEF Range
    <3>3. CASE j > k
      <4>1. j - 1 \in 1 .. Len(l) - 1 /\ m[j - 1] = x
        BY <2>1, <2>3, <3>1, <3>3
      <4> QED BY <2>3, <4>1 DEF Range
    <3> QED BY <2>1, <3>1, <3>2, <3>3
  <2>7. Range(m) = Range(l) \ {c} /\ IsInjective(m)
    BY <2>4, <2>5, <2>6
  <2> QED BY <2>7 DEF m
<1>2. CASE ~\E i \in DOMAIN l : l[i] = c
  BY <1>2 DEF Without, Range
<1> QED BY <1>1, <1>2

\* The successor of an entry is on the list, or its end, and is another entry.
LEMMA AfterRange ==
    ASSUME NEW S, NoConn \notin S, NEW l \in Seq(S), NEW c \in S
    PROVE  /\ After(l, c) \in Range(l) \cup {NoConn}
           /\ IsInjective(l) => After(l, c) # c
<1>1. CASE \E i \in 1 .. Len(l) - 1 : l[i] = c
  <2> DEFINE k == CHOOSE i \in 1 .. Len(l) - 1 : l[i] = c
  <2>1. k \in 1 .. Len(l) - 1 /\ l[k] = c
    BY <1>1
  <2>2. After(l, c) = l[k + 1]
    BY <1>1 DEF After
  <2> HIDE DEF k
  <2>3. k \in DOMAIN l /\ k + 1 \in DOMAIN l /\ k # k + 1
    BY <2>1
  <2> QED BY <2>1, <2>2, <2>3 DEF Range, IsInjective
<1>2. CASE ~\E i \in 1 .. Len(l) - 1 : l[i] = c
  BY <1>2 DEF After
<1> QED BY <1>1, <1>2

\* The head is on the list, unless it is empty.
LEMMA FirstRange ==
    ASSUME NEW S, NEW l \in Seq(S)
    PROVE  First(l) \in Range(l) \cup {NoConn}
<1>1. CASE l = << >>
  BY <1>1 DEF First
<1>2. CASE l # << >>
  <2>1. 1 \in DOMAIN l
    BY <1>2
  <2> QED BY <1>2, <2>1 DEF First, Range
<1> QED BY <1>1, <1>2

--------------------------------------------------------------------------------
\* What keeps the table consistent.  The tree, the list and the free list agree ...
TablesAgree ==
    /\ IsInjective(list) /\ IsInjective(free)
    /\ Range(list) \cap Range(free) = {}
    /\ Range(list) = {tree[f] : f \in Keys} \ {NoConn}
    /\ \A f \in Keys : tree[f] # NoConn => conn[tree[f]].fd = f

\* ... a thread that is about to insert has a descriptor and no structure of theirs ...
InsertsFresh ==
    \A t \in Threads :
       pc[t] \in {"connect", "insert"} =>
          op[t].fd \in Fds /\ op[t].conn \notin Range(list) \cup Range(free)

\* ... and a traversal stands on the list, its successor taken beforehand.
Traversals == {"check", "checkdel", "beat", "alarm"}
CursorOnList ==
    pc["main"] \in Traversals =>
       /\ at \in Range(list) \cup {NoConn} /\ nxt \in Range(list) \cup {NoConn}
       /\ at # NoConn => nxt # at

TableInv == TypeInv /\ TablesAgree /\ InsertsFresh /\ CursorOnList

\* At reconn_start the table holds the command pipe's connection.
LEMMA TableInit == Init => TableInv
<1> SUFFICES ASSUME Init PROVE TableInv
  OBVIOUS
<1> USE ConstantsAssumption DEF ConstantsAssumption
<1>1. list = <<CmdConn>> /\ Range(list) = {CmdConn}
  BY DEF Init, Range
<1>2. free = << >> /\ Range(free) = {}
  BY DEF Init, Range
<1>3. IsInjective(list) /\ IsInjective(free)
  BY <1>1, <1>2 DEF IsInjective
<1>4. {tree[f] : f \in Keys} = {CmdConn, NoConn} \/ {tree[f] : f \in Keys} = {CmdConn}
  BY DEF Init, Keys
<1>5. \A f \in Keys : tree[f] # NoConn => conn[tree[f]].fd = f
  BY DEF Init, Keys
<1>6. TablesAgree
  BY <1>1, <1>2, <1>3, <1>4, <1>5 DEF TablesAgree
<1>7. InsertsFresh /\ CursorOnList
  BY DEF Init, InsertsFresh, CursorOnList, Traversals, Threads
<1> QED BY <1>6, <1>7, InitType DEF TableInv

--------------------------------------------------------------------------------
(* The two operations of the table.                                          *)

\* connrbtree_insert, of a structure fresh from freeconnlist_getconn, keeps the
\* table consistent, whatever the other thread is inserting.
LEMMA InsertAgrees ==
    ASSUME TableInv, NEW t \in Threads, Insert(t)
    PROVE  TablesAgree' /\ InsertsFresh' /\ Range(list) \subseteq Range(list')
<1> USE ConstantsAssumption
<1>1. PICK c \in Spare :
        /\ conn' = [conn EXCEPT ![c] = [fd |-> op[t].fd, type |-> op[t].kind, age |-> 0]]
        /\ free' = IF free = << >> THEN free ELSE Tail(free)
        /\ op' = [op EXCEPT ![t].conn = c]
        /\ \/ tree[op[t].fd] # NoConn /\ UNCHANGED <<tree, list, pc>>
           \/ /\ tree[op[t].fd] = NoConn
              /\ tree' = [tree EXCEPT ![op[t].fd] = c]
              /\ list' = Append(list, c)
              /\ Goto(t, "register")
  BY DEF Insert
<1>2. op[t].fd \in Keys
  BY DEF Insert, TableInv, InsertsFresh, Keys
<1>3. /\ c \in Conns /\ NoConn \notin Conns
      /\ list \in Seq(Conns) /\ free \in Seq(Conns)
      /\ tree \in [Keys -> Conns \cup {NoConn}]
      /\ conn \in [Conns -> [fd : Keys \cup {0}, type : Types, age : Ages]]
  BY SpareType DEF TableInv, TypeInv, TypeOK, TableType, ConstantsAssumption
<1>4. c \notin Range(list)
  <2>1. CASE free = << >>
    BY <2>1 DEF Spare, Unused, Listed, Range
  <2>2. CASE free # << >>
    <3>1. c = free[1] /\ 1 \in DOMAIN free
      BY <1>3, <2>2 DEF Spare
    <3> QED BY <3>1 DEF TableInv, TablesAgree, Range
  <2> QED BY <2>1, <2>2
<1>5. IsInjective(free') /\ Range(free') = Range(free) \ {c}
  <2>1. CASE free = << >>
    BY <1>1, <2>1 DEF TableInv, TablesAgree, Range
  <2>2. CASE free # << >>
    <3>1. c = Head(free)
      BY <2>2 DEF Spare
    <3> QED BY <1>1, <1>3, <2>2, <3>1, TailRange DEF TableInv, TablesAgree
  <2> QED BY <2>1, <2>2
<1>6. ASSUME NEW u \in Threads, u # t, pc[u] \in {"connect", "insert"}
      PROVE  op[u].conn # c
  <2>1. CASE free = << >>
    BY <1>6, <2>1 DEF Spare, Unused, Held
  <2>2. CASE free # << >>
    <3>1. c = free[1] /\ 1 \in DOMAIN free
      BY <1>3, <2>2 DEF Spare
    <3>2. c \in Range(free)
      BY <3>1 DEF Range
    <3> QED BY <1>6, <3>2 DEF TableInv, InsertsFresh
  <2> QED BY <2>1, <2>2
<1>7. /\ op \in [Threads -> Operation] /\ DOMAIN pc = Threads
      /\ op'[t].conn = c /\ op'[t].fd = op[t].fd
      /\ \A u \in Threads : u # t => op'[u] = op[u]
  BY <1>1 DEF TableInv, TypeInv, TypeOK, ThreadType, Operation
<1>8. CASE tree[op[t].fd] # NoConn /\ UNCHANGED <<tree, list, pc>>
  <2>1. \A f \in Keys : tree[f] # c
    BY <1>3, <1>4 DEF TableInv, TablesAgree
  <2>2. \A f \in Keys : tree'[f] # NoConn => conn'[tree'[f]].fd = f
    BY <1>1, <1>3, <1>8, <2>1 DEF TableInv, TablesAgree
  <2>3. TablesAgree'
    BY <1>5, <1>8, <2>2 DEF TableInv, TablesAgree
  <2>4. InsertsFresh'
    BY <1>4, <1>5, <1>6, <1>7, <1>8 DEF TableInv, InsertsFresh
  <2> QED BY <1>8, <2>3, <2>4
<1>9. CASE /\ tree[op[t].fd] = NoConn
           /\ tree' = [tree EXCEPT ![op[t].fd] = c]
           /\ list' = Append(list, c)
           /\ Goto(t, "register")
  <2>1. IsInjective(list') /\ Range(list') = Range(list) \cup {c}
    BY <1>3, <1>4, <1>9, AppendRange DEF TableInv, TablesAgree
  <2>2. \A f \in Keys : tree[f] # c
    BY <1>3, <1>4 DEF TableInv, TablesAgree
  <2>3. \A f \in Keys : tree'[f] # NoConn => conn'[tree'[f]].fd = f
    <3>1. conn'[c].fd = op[t].fd
      BY <1>1, <1>3
    <3>2. \A f \in Keys : f # op[t].fd => tree'[f] = tree[f]
      BY <1>3, <1>9
    <3>3. tree'[op[t].fd] = c
      BY <1>2, <1>3, <1>9
    <3>4. ASSUME NEW f \in Keys, f # op[t].fd, tree[f] # NoConn
          PROVE  conn'[tree[f]].fd = f
      BY <1>1, <1>3, <2>2, <3>4 DEF TableInv, TablesAgree
    <3> QED BY <3>1, <3>2, <3>3, <3>4
  <2>4. {tree'[f] : f \in Keys} \ {NoConn} = ({tree[f] : f \in Keys} \ {NoConn}) \cup {c}
    BY <1>2, <1>3, <1>9
  <2>5. TablesAgree'
    BY <1>4, <1>5, <2>1, <2>3, <2>4 DEF TableInv, TablesAgree
  <2>6. pc'[t] = "register" /\ \A u \in Threads : u # t => pc'[u] = pc[u]
    BY <1>7, <1>9 DEF Goto
  <2>7. InsertsFresh'
    BY <1>5, <1>6, <1>7, <2>1, <2>6 DEF TableInv, InsertsFresh
  <2> QED BY <2>1, <2>5, <2>7
<1> QED BY <1>1, <1>8, <1>9

\* connrbtree_del of a listed connection moves it from tree and list to the free list.
LEMMA DeleteAgrees ==
    ASSUME TableInv, NEW c \in Range(list), Delete(c)
    PROVE  TablesAgree' /\ Range(list') = Range(list) \ {c}
           /\ Range(list') \cup Range(free') = Range(list) \cup Range(free)
<1> USE ConstantsAssumption
<1>1. /\ NoConn \notin Conns
      /\ list \in Seq(Conns) /\ free \in Seq(Conns)
      /\ tree \in [Keys -> Conns \cup {NoConn}]
      /\ conn \in [Conns -> [fd : Keys \cup {0}, type : Types, age : Ages]]
  BY DEF TableInv, TypeInv, TypeOK, TableType, ConstantsAssumption
<1>2. c \in Conns
  BY <1>1 DEF Range
<1>3. IsInjective(list') /\ Range(list') = Range(list) \ {c}
  BY <1>1, WithoutRange DEF Delete, TableInv, TablesAgree
<1>4. IsInjective(free') /\ Range(free') = Range(free) \cup {c}
  BY <1>1, <1>2, AppendRange DEF Delete, TableInv, TablesAgree
<1>5. \A f \in Keys : tree'[f] = IF tree[f] = c THEN NoConn ELSE tree[f]
  BY DEF Delete
<1>6. {tree'[f] : f \in Keys} \ {NoConn} = ({tree[f] : f \in Keys} \ {NoConn}) \ {c}
  BY <1>1, <1>2, <1>5
<1>7. \A d \in Conns : d # c => conn'[d] = conn[d]
  BY <1>1 DEF Delete
<1>8. \A f \in Keys : tree'[f] # NoConn => conn'[tree'[f]].fd = f
  BY <1>1, <1>5, <1>7 DEF TableInv, TablesAgree
<1>9. TablesAgree'
  BY <1>3, <1>4, <1>6, <1>8 DEF TableInv, TablesAgree
<1> QED BY <1>3, <1>4, <1>9

\* A thread that gets a descriptor has no structure yet.
LEMMA OpenFresh ==
    ASSUME TableInv, NEW t \in Threads, NEW f \in Fds, NEW k, NEW p, NEW l,
           OpenFd(t, f, k, p), Goto(t, l), UNCHANGED table
    PROVE  InsertsFresh'
<1>1. op'[t].conn = NoConn /\ op'[t].fd = f
  BY DEF OpenFd, TableInv, TypeInv, TypeOK, ThreadType
<1>2. \A u \in Threads : u # t => op'[u] = op[u] /\ pc'[u] = pc[u]
  BY DEF OpenFd, Goto, TableInv, TypeInv, TypeOK, ThreadType
<1>3. NoConn \notin Range(list) \cup Range(free)
  BY ConstantsAssumption
     DEF ConstantsAssumption, TableInv, TypeInv, TypeOK, TableType, Range
<1> QED BY <1>1, <1>2, <1>3 DEF table, TableInv, InsertsFresh

\* The passing of time changes ages only.
LEMMA TickAgrees ==
    ASSUME TableInv, Tick
    PROVE  TablesAgree'
<1>1. \A c \in Conns : conn'[c].fd = conn[c].fd
  <2>1. conn \in [Conns -> [fd : Keys \cup {0}, type : Types, age : Ages]]
    BY DEF TableInv, TypeInv, TypeOK, TableType
  <2> QED BY <2>1 DEF Tick
<1>2. UNCHANGED <<tree, list, free>>
  BY DEF Tick
<1>3. \A f \in Keys : tree[f] # NoConn => tree[f] \in Conns
  BY DEF TableInv, TypeInv, TypeOK, TableType
<1> QED BY <1>1, <1>2, <1>3 DEF TableInv, TablesAgree

--------------------------------------------------------------------------------
(* The traversals.                                                           *)

\* list_for_each_safe begins on the list, with its successor.
LEMMA StartOnList ==
    ASSUME TableInv
    PROVE  /\ First(list) \in Range(list) \cup {NoConn}
           /\ After(list, First(list)) \in Range(list) \cup {NoConn}
           /\ First(list) # NoConn => After(list, First(list)) # First(list)
<1>1. list \in Seq(Conns) /\ NoConn \notin Conns /\ IsInjective(list)
  BY ConstantsAssumption
     DEF ConstantsAssumption, TableInv, TablesAgree, TypeInv, TypeOK, TableType
<1>2. First(list) \in Range(list) \cup {NoConn} /\ First(list) \in Conns \cup {NoConn}
  BY <1>1, FirstRange, FirstType
<1>3. CASE First(list) = NoConn
  <2>1. ~\E i \in 1 .. Len(list) - 1 : list[i] = NoConn
    BY <1>1
  <2> QED BY <1>2, <1>3, <2>1 DEF After
<1>4. CASE First(list) \in Conns
  BY <1>1, <1>2, <1>4, AfterRange
<1> QED BY <1>2, <1>3, <1>4

\* And goes on there, also after the entry it leaves has been removed.
LEMMA AdvanceOnList ==
    ASSUME NEW l \in Seq(Conns), IsInjective(l), nxt \in Range(l) \cup {NoConn}, Advance(l)
    PROVE  /\ at' \in Range(l) \cup {NoConn} /\ nxt' \in Range(l) \cup {NoConn}
           /\ at' # NoConn => nxt' # at'
<1>1. NoConn \notin Conns /\ (nxt # NoConn => nxt \in Conns)
  BY ConstantsAssumption DEF ConstantsAssumption, Range
<1>2. nxt # NoConn => /\ After(l, nxt) \in Range(l) \cup {NoConn}
                      /\ After(l, nxt) # nxt
  BY <1>1, AfterRange
<1> QED BY <1>2 DEF Advance

\* Every step keeps the table consistent.
LEMMA TableNext == TableInv /\ [Next]_vars => TableInv'
<1> SUFFICES ASSUME TableInv, [Next]_vars PROVE TablesAgree' /\ InsertsFresh' /\ CursorOnList'
  BY TypeNext DEF TableInv
<1> USE ConstantsAssumption DEF ConstantsAssumption
<1>1. ASSUME NEW t \in Threads, Insert(t)
      PROVE  TablesAgree' /\ InsertsFresh' /\ CursorOnList'
  <2>1. TablesAgree'
    BY <1>1, InsertAgrees
  <2>2. InsertsFresh'
    BY <1>1, InsertAgrees
  <2>3. CursorOnList'
    <3>1. Range(list) \subseteq Range(list')
      BY <1>1, InsertAgrees
    <3>2. pc'["main"] \in Traversals => pc["main"] \in Traversals
      BY <1>1 DEF Insert, Goto, TableInv, TypeInv, TypeOK, ThreadType, Threads, Traversals
    <3>3. UNCHANGED <<at, nxt>>
      BY <1>1 DEF Insert, loop
    <3> QED BY <3>1, <3>2, <3>3 DEF TableInv, CursorOnList
  <2> QED BY <2>1, <2>2, <2>3
<1>2. ASSUME NEW t \in Threads, Register(t)
      PROVE  TablesAgree' /\ InsertsFresh' /\ CursorOnList'
  <2>1. TablesAgree'
    BY <1>2 DEF Register, table, TableInv, TablesAgree
  <2>2. InsertsFresh'
    <3>1. /\ pc'[t] # "insert" /\ pc'[t] # "connect"
          /\ \A u \in Threads : u # t => pc'[u] = pc[u] /\ op'[u] = op[u]
          /\ UNCHANGED table
      <4>1. AfterOpen(t) \in {"accept", "listen", "serial?", "server?"}
        BY DEF AfterOpen
      <4> QED BY <1>2, <4>1
              DEF Register, Goto, TableInv, TypeInv, TypeOK, ThreadType
    <3> QED BY <3>1 DEF table, TableInv, InsertsFresh
  <2>3. CursorOnList'
    <3>1. pc'["main"] \in {pc["main"], "accept", "listen"}
      BY <1>2 DEF Register, Goto, AfterOpen, TableInv, TypeInv, TypeOK, ThreadType, Threads
    <3>2. UNCHANGED <<list, at, nxt>>
      BY <1>2 DEF Register, table, loop
    <3> QED BY <3>1, <3>2 DEF TableInv, CursorOnList, Traversals
  <2> QED BY <2>1, <2>2, <2>3
<1>3. ASSUME NEW t \in Threads, OpenSerial(t)
      PROVE  TablesAgree' /\ InsertsFresh' /\ CursorOnList'
  <2>1. TablesAgree'
    BY <1>3 DEF OpenSerial, table, TableInv, TablesAgree
  <2>2. InsertsFresh'
    <3>1. CASE \E f \in Fds : OpenFd(t, f, "serial", "up") /\ Goto(t, "insert")
      BY <1>3, <3>1, OpenFresh DEF OpenSerial
    <3>2. CASE UNCHANGED op /\ Goto(t, IF t = "main" THEN "listen" ELSE "server?")
      BY <1>3, <3>2 DEF OpenSerial, Goto, table, TableInv, TypeInv, TypeOK, ThreadType,
                        Threads, InsertsFresh
    <3> QED BY <1>3, <3>1, <3>2 DEF OpenSerial
  <2>3. CursorOnList'
    BY <1>3 DEF OpenSerial, Goto, NextEvent, Main, table, loop, TableInv, TypeInv, TypeOK, ThreadType, Threads,
           CursorOnList, Traversals
  <2> QED BY <2>1, <2>2, <2>3
<1>4. CASE RegisterPipe
  BY <1>4 DEF RegisterPipe, table, loop, Goto, NextEvent, Main, TableInv, TablesAgree, InsertsFresh,
         CursorOnList, Traversals, TypeInv, TypeOK, ThreadType, Threads
<1>5. CASE Listen
  BY <1>5 DEF Listen, table, loop, Goto, NextEvent, Main, TableInv, TablesAgree, InsertsFresh,
         CursorOnList, Traversals, TypeInv, TypeOK, ThreadType, Threads
<1>6. CASE Wait
  BY <1>6 DEF Wait, table, loop, Goto, NextEvent, Main, TableInv, TablesAgree, InsertsFresh,
         CursorOnList, Traversals, TypeInv, TypeOK, ThreadType, Threads
<1>7. CASE Dispatch
  BY <1>7 DEF Dispatch, table, loop, Goto, NextEvent, Main, TableInv, TablesAgree, InsertsFresh,
         CursorOnList, Traversals, TypeInv, TypeOK, ThreadType, Threads
<1>8. CASE Accept
  <2>1. TablesAgree'
    BY <1>8 DEF Accept, table, TableInv, TablesAgree
  <2>2. InsertsFresh'
    <3>1. CASE \E f \in Fds : OpenFd("main", f, "client", "up") /\ Goto("main", "insert")
      BY <1>8, <3>1, OpenFresh DEF Accept, Threads
    <3>2. CASE UNCHANGED op /\ Goto("main", "next")
      BY <1>8, <3>2 DEF Accept, Goto, table, TableInv, TypeInv, TypeOK, ThreadType,
                        Threads, InsertsFresh
    <3> QED BY <1>8, <3>1, <3>2 DEF Accept, NextEvent
  <2>3. CursorOnList'
    BY <1>8 DEF Accept, Goto, NextEvent, Main, table, loop, TableInv, TypeInv, TypeOK, ThreadType, Threads,
           CursorOnList, Traversals
  <2> QED BY <2>1, <2>2, <2>3
<1>9. CASE ReadPipe
  <2>1. TablesAgree'
    BY <1>9 DEF ReadPipe, table, TableInv, TablesAgree
  <2>2. InsertsFresh'
    BY <1>9 DEF ReadPipe, Goto, NextEvent, Main, table, TableInv, TypeInv, TypeOK, ThreadType, Threads, InsertsFresh
  <2>3. CursorOnList'
    BY <1>9 DEF ReadPipe, Goto, NextEvent, Main, table, loop, TableInv, TypeInv, TypeOK, ThreadType, Threads,
           CursorOnList, Traversals
  <2> QED BY <2>1, <2>2, <2>3
<1>10. CASE ReadInput
  <2>1. TablesAgree'
    BY <1>10 DEF ReadInput, table, TableInv, TablesAgree
  <2>2. InsertsFresh'
    BY <1>10 DEF ReadInput, Goto, NextEvent, Main, table, TableInv, TypeInv, TypeOK, ThreadType, Threads, InsertsFresh
  <2>3. CursorOnList'
    <3>1. \/ at' = First(list) /\ nxt' = After(list, First(list))
          \/ UNCHANGED <<pc, at, nxt>>
      BY <1>10 DEF ReadInput
    <3>2. list' = list
      BY <1>10 DEF ReadInput, table
    <3> QED BY <3>1, <3>2, StartOnList DEF TableInv, CursorOnList
  <2> QED BY <2>1, <2>2, <2>3
<1>11. CASE ReadNothing
  BY <1>11 DEF ReadNothing, table, loop, Goto, NextEvent, Main, TableInv, TablesAgree, InsertsFresh,
         CursorOnList, Traversals, TypeInv, TypeOK, ThreadType, Threads
<1>12. CASE Close
  BY <1>12 DEF Close, table, loop, Goto, NextEvent, Main, TableInv, TablesAgree, InsertsFresh,
         CursorOnList, Traversals, TypeInv, TypeOK, ThreadType, Threads
<1>13. CASE EventClose
  <2>1. TablesAgree'
    <3>1. CASE UNCHANGED table
      BY <3>1 DEF table, TableInv, TablesAgree
    <3>2. CASE tree[cur.fd] # NoConn /\ Delete(tree[cur.fd])
      <4>1. cur.fd \in Keys
        BY <1>13 DEF EventClose, Main, TableInv, TypeInv, ServedIsKey, Serving
      <4>2. tree[cur.fd] \in Range(list)
        BY <3>2, <4>1 DEF TableInv, TablesAgree
      <4> QED BY <3>2, <4>2, DeleteAgrees
    <3> QED BY <1>13, <3>1, <3>2 DEF EventClose
  <2>2. InsertsFresh'
    <3>1. Range(list') \cup Range(free') = Range(list) \cup Range(free)
      <4>1. CASE UNCHANGED table
        BY <4>1 DEF table
      <4>2. CASE tree[cur.fd] # NoConn /\ Delete(tree[cur.fd])
        <5>1. cur.fd \in Keys
          BY <1>13 DEF EventClose, Main, TableInv, TypeInv, ServedIsKey, Serving
        <5>2. tree[cur.fd] \in Range(list)
          BY <4>2, <5>1 DEF TableInv, TablesAgree
        <5> QED BY <4>2, <5>2, DeleteAgrees
      <4> QED BY <1>13, <4>1, <4>2 DEF EventClose
    <3>2. op' = op /\ Goto("main", "next")
      BY <1>13 DEF EventClose, NextEvent
    <3> QED BY <3>1, <3>2
            DEF Goto, TableInv, TypeInv, TypeOK, ThreadType, Threads, InsertsFresh
  <2>3. CursorOnList'
    <3>1. pc'["main"] = "next"
      BY <1>13 DEF EventClose, NextEvent, Goto, TableInv, TypeInv, TypeOK, ThreadType, Threads
    <3> QED BY <3>1 DEF CursorOnList, Traversals
  <2> QED BY <2>1, <2>2, <2>3
<1>14. CASE Command
  <2>1. TablesAgree'
    BY <1>14 DEF Command, table, TableInv, TablesAgree
  <2>2. InsertsFresh'
    BY <1>14 DEF Command, Goto, NextEvent, Main, table, TableInv, TypeInv, TypeOK, ThreadType, Threads, InsertsFresh
  <2>3. CursorOnList'
    <3>1. \/ at' = First(list) /\ nxt' = After(list, First(list))
          \/ Goto("main", "read")
      BY <1>14 DEF Command
    <3>2. list' = list
      BY <1>14 DEF Command, table
    <3>3. Goto("main", "read") => pc'["main"] = "read"
      BY DEF Goto, TableInv, TypeInv, TypeOK, ThreadType, Threads
    <3> QED BY <3>1, <3>2, <3>3, StartOnList DEF CursorOnList, Traversals
  <2> QED BY <2>1, <2>2, <2>3
<1>15. CASE Check
  <2>1. TablesAgree'
    BY <1>15 DEF Check, table, TableInv, TablesAgree
  <2>2. InsertsFresh'
    BY <1>15 DEF Check, Goto, NextEvent, Main, table, TableInv, TypeInv, TypeOK, ThreadType, Threads, InsertsFresh
  <2>3. CursorOnList'
    <3>1. /\ at \in Range(list) \cup {NoConn} /\ nxt \in Range(list) \cup {NoConn}
          /\ at # NoConn => nxt # at
      BY <1>15 DEF Check, Main, TableInv, CursorOnList, Traversals
    <3>2. list \in Seq(Conns) /\ IsInjective(list) /\ list' = list
      BY <1>15 DEF Check, table, TableInv, TablesAgree, TypeInv, TypeOK, TableType
    <3>3. Advance(list) \/ UNCHANGED <<at, nxt>>
      BY <1>15 DEF Check
    <3> QED BY <3>1, <3>2, <3>3, AdvanceOnList DEF CursorOnList
  <2> QED BY <2>1, <2>2, <2>3
<1>16. CASE CheckDel
  <2>1. TablesAgree'
    <3>1. at \in Range(list)
      BY <1>16 DEF CheckDel, Main, TableInv, TypeInv, CheckedIsEntry, CursorOnList, Traversals
    <3> QED BY <1>16, <3>1, DeleteAgrees DEF CheckDel
  <2>2. InsertsFresh'
    <3>1. at \in Range(list)
      BY <1>16 DEF CheckDel, Main, TableInv, TypeInv, CheckedIsEntry, CursorOnList, Traversals
    <3>2. Range(list') \cup Range(free') = Range(list) \cup Range(free)
      BY <1>16, <3>1, DeleteAgrees DEF CheckDel
    <3>3. op' = op /\ Goto("main", "check")
      BY <1>16 DEF CheckDel
    <3> QED BY <3>2, <3>3
            DEF Goto, TableInv, TypeInv, TypeOK, ThreadType, Threads, InsertsFresh
  <2>3. CursorOnList'
    <3>1. /\ at \in Range(list) /\ nxt \in Range(list) \cup {NoConn} /\ nxt # at
      BY <1>16 DEF CheckDel, Main, TableInv, TypeInv, CheckedIsEntry, CursorOnList, Traversals
    <3>2. Range(list') = Range(list) \ {at} /\ TablesAgree'
      BY <1>16, <3>1, DeleteAgrees DEF CheckDel
    <3>3. list' \in Seq(Conns)
      BY TypeNext, <1>16 DEF Next, MainStep, TableInv, TypeInv, TypeOK, TableType
    <3>4. Advance(list')
      BY <1>16 DEF CheckDel
    <3>5. IsInjective(list') /\ nxt \in Range(list') \cup {NoConn}
      BY <3>1, <3>2 DEF TablesAgree
    <3> HIDE DEF ConstantsAssumption
    <3> QED BY <3>3, <3>4, <3>5, AdvanceOnList DEF CursorOnList
  <2> QED BY <2>1, <2>2, <2>3
<1>17. CASE Beat
  <2>1. TablesAgree'
    BY <1>17 DEF Beat, table, TableInv, TablesAgree
  <2>2. InsertsFresh'
    BY <1>17 DEF Beat, Goto, NextEvent, Main, table, TableInv, TypeInv, TypeOK, ThreadType, Threads, InsertsFresh
  <2>3. CursorOnList'
    <3>1. /\ at \in Range(list) \cup {NoConn} /\ nxt \in Range(list) \cup {NoConn}
          /\ at # NoConn => nxt # at
      BY <1>17 DEF Beat, Main, TableInv, CursorOnList, Traversals
    <3>2. list \in Seq(Conns) /\ IsInjective(list) /\ list' = list
      BY <1>17 DEF Beat, table, TableInv, TablesAgree, TypeInv, TypeOK, TableType
    <3>3. Advance(list) \/ UNCHANGED <<at, nxt>>
      BY <1>17 DEF Beat
    <3> QED BY <3>1, <3>2, <3>3, AdvanceOnList DEF CursorOnList
  <2> QED BY <2>1, <2>2, <2>3
<1>18. CASE Alarm
  <2>1. TablesAgree'
    BY <1>18 DEF Alarm, table, TableInv, TablesAgree
  <2>2. InsertsFresh'
    BY <1>18 DEF Alarm, Goto, NextEvent, Main, table, TableInv, TypeInv, TypeOK, ThreadType, Threads, InsertsFresh
  <2>3. CursorOnList'
    <3>1. /\ at \in Range(list) \cup {NoConn} /\ nxt \in Range(list) \cup {NoConn}
          /\ at # NoConn => nxt # at
      BY <1>18 DEF Alarm, Main, TableInv, CursorOnList, Traversals
    <3>2. list \in Seq(Conns) /\ IsInjective(list) /\ list' = list
      BY <1>18 DEF Alarm, table, TableInv, TablesAgree, TypeInv, TypeOK, TableType
    <3>3. Advance(list) \/ UNCHANGED <<at, nxt>>
      BY <1>18 DEF Alarm
    <3> QED BY <3>1, <3>2, <3>3, AdvanceOnList DEF CursorOnList
  <2> QED BY <2>1, <2>2, <2>3
<1>19. CASE EndTraversal
  BY <1>19 DEF EndTraversal, table, loop, Goto, NextEvent, Main, TableInv, TablesAgree, InsertsFresh,
         CursorOnList, Traversals, TypeInv, TypeOK, ThreadType, Threads
<1>20. CASE CheckServer
  BY <1>20 DEF CheckServer, table, loop, Goto, NextEvent, Main, TableInv, TablesAgree, InsertsFresh,
         CursorOnList, Traversals, TypeInv, TypeOK, ThreadType, Threads
<1>21. CASE CheckSerial
  BY <1>21 DEF CheckSerial, table, loop, Goto, NextEvent, Main, TableInv, TablesAgree, InsertsFresh,
         CursorOnList, Traversals, TypeInv, TypeOK, ThreadType, Threads
<1>22. CASE Socket
  <2>1. TablesAgree'
    BY <1>22 DEF Socket, table, TableInv, TablesAgree
  <2>2. InsertsFresh'
    <3>1. CASE \E f \in Fds : OpenFd("reconn", f, "server", "none") /\ Goto("reconn", "connect")
      BY <1>22, <3>1, OpenFresh DEF Socket, Threads
    <3>2. CASE UNCHANGED op /\ Goto("reconn", "serial?")
      BY <1>22, <3>2 DEF Socket, Goto, table, TableInv, TypeInv, TypeOK, ThreadType,
                         Threads, InsertsFresh
    <3> QED BY <1>22, <3>1, <3>2 DEF Socket
  <2>3. CursorOnList'
    BY <1>22 DEF Socket, Goto, NextEvent, Main, table, loop, TableInv, TypeInv, TypeOK, ThreadType, Threads,
           CursorOnList, Traversals
  <2> QED BY <2>1, <2>2, <2>3
<1>23. CASE Connect
  <2>1. TablesAgree'
    BY <1>23 DEF Connect, table, TableInv, TablesAgree
  <2>2. InsertsFresh'
    <3>1. /\ op["reconn"].fd \in Fds /\ UNCHANGED <<op, table>>
          /\ pc'["reconn"] = "insert" /\ pc'["main"] = pc["main"]
      BY <1>23 DEF Connect, Goto, TableInv, TypeInv, TypeOK, ThreadType, InsertsFresh, Threads
    <3>2. op["reconn"].conn \notin Range(list) \cup Range(free)
      BY <1>23 DEF Connect, TableInv, InsertsFresh, Threads
    <3> QED BY <3>1, <3>2 DEF table, TableInv, InsertsFresh, Threads
  <2>3. CursorOnList'
    BY <1>23 DEF Connect, Goto, NextEvent, Main, table, loop, TableInv, TypeInv, TypeOK, ThreadType, Threads,
           CursorOnList, Traversals
  <2> QED BY <2>1, <2>2, <2>3
<1>24. CASE ConnectFails
  BY <1>24 DEF ConnectFails, table, loop, Goto, NextEvent, Main, TableInv, TablesAgree, InsertsFresh,
         CursorOnList, Traversals, TypeInv, TypeOK, ThreadType, Threads
<1>25. CASE Tick
  <2>1. TablesAgree'
    BY <1>25, TickAgrees
  <2>2. InsertsFresh'
    BY <1>25 DEF Tick, Goto, NextEvent, Main, table, TableInv, TypeInv, TypeOK, ThreadType, Threads, InsertsFresh
  <2>3. CursorOnList'
    BY <1>25 DEF Tick, Goto, NextEvent, Main, table, loop, TableInv, TypeInv, TypeOK, ThreadType, Threads,
           CursorOnList, Traversals
  <2> QED BY <2>1, <2>2, <2>3
<1>26. CASE ClientArrives
  BY <1>26 DEF ClientArrives, table, loop, Goto, NextEvent, Main, TableInv, TablesAgree, InsertsFresh,
         CursorOnList, Traversals, TypeInv, TypeOK, ThreadType, Threads
<1>27. ASSUME NEW f \in Fds, PeerActs(f)
      PROVE  TablesAgree' /\ InsertsFresh' /\ CursorOnList'
  BY <1>27 DEF PeerActs, table, loop, Goto, NextEvent, Main, TableInv, TablesAgree, InsertsFresh,
         CursorOnList, Traversals, TypeInv, TypeOK, ThreadType, Threads
<1>28. CASE UNCHANGED vars
  BY <1>28 DEF vars, table, loop, TableInv, TablesAgree, InsertsFresh, CursorOnList
<1> QED
  BY <1>1, <1>2, <1>3, <1>4, <1>5, <1>6, <1>7, <1>8, <1>9, <1>10, <1>11, <1>12,
     <1>13, <1>14, <1>15, <1>16, <1>17, <1>18, <1>19, <1>20, <1>21, <1>22, <1>23, <1>24,
     <1>25, <1>26, <1>27, <1>28
     DEF Next, MainStep, ReconnStep, OpenStep, World, Threads

\* In every state the gateway reaches, whatever the two threads do in whatever
\* order, the tree, the list and the free list partition the connection
\* structures (connection.c:63-81,145-188): a structure is in the tree under its
\* own descriptor exactly when it is on the list, once, and is then not free; and no
\* thread prepares one that is in either.
THEOREM TableStaysConsistent == Spec => []TableConsistent
<1>1. TableInv => TableConsistent
  <2> SUFFICES ASSUME TableInv PROVE TableConsistent
    OBVIOUS
  <2>1. Listed = Range(list) /\ FreeListed = Range(free)
    BY DEF Listed, FreeListed, Range
  <2>2. list \in Seq(Conns) /\ free \in Seq(Conns)
    BY DEF TableInv, TypeInv, TypeOK, TableType
  <2>3. Cardinality(Range(list)) = Len(list) /\ Cardinality(Range(free)) = Len(free)
    BY <2>2, InjectiveCardinality DEF TableInv, TablesAgree
  <2> QED BY <2>1, <2>3 DEF TableInv, TablesAgree, InsertsFresh, TableConsistent
<1> QED BY TableInit, TableNext, <1>1, PTL DEF Spec

--------------------------------------------------------------------------------
(* The reconnect thread never opens a second connection to the server, and  *)
(* the serial port is opened at most twice.                                  *)

OfType(type) == {c \in Range(list) : conn[c].type = type}
One(b) == IF b THEN 1 ELSE 0

\* A thread is going to put a connection of that type in the table.
Inserts(t, kind) == pc[t] = "insert" /\ op[t].kind = kind
ServerDue == pc["reconn"] \in {"socket", "connect"} \/ Inserts("reconn", "server")
SerialDue(t) == pc[t] \in {"boot", "openserial"} \/ Inserts(t, "serial")

\* Only the reconnect thread opens the server's connection.
OpensItsOwn ==
    /\ pc["main"] = "insert" => op["main"].kind \in {"client", "serial"}
    /\ pc["reconn"] = "connect" => op["reconn"].kind = "server"
    /\ pc["reconn"] = "insert" => op["reconn"].kind \in {"server", "serial"}

\* It opens one only while there is none; the serial connections, with those still
\* to come, are two.
ServerOnce ==
    /\ ServerDue => OfType("server") = {}
    /\ \A c, d \in OfType("server") : c = d
SerialTwice ==
    Cardinality(OfType("serial")) + One(SerialDue("main")) + One(SerialDue("reconn")) <= 2

PeerInv == TableInv /\ OpensItsOwn /\ ServerOnce /\ SerialTwice

\* The connections of a type are finitely many.
LEMMA OfTypeFinite ==
    ASSUME TypeOK, NEW type
    PROVE  IsFiniteSet(OfType(type)) /\ Cardinality(OfType(type)) \in Nat
<1>1. list \in Seq(Conns) /\ Len(list) \in Nat
  BY DEF TypeOK, TableType
<1>2. list \in Surjection(1 .. Len(list), Range(list))
  BY <1>1 DEF Surjection, Range
<1>3. IsFiniteSet(1 .. Len(list))
  BY <1>1, FS_Interval
<1>4. IsFiniteSet(Range(list))
  BY <1>2, <1>3, FS_Surjection
<1>5. OfType(type) \in SUBSET Range(list)
  BY DEF OfType
<1> QED BY <1>4, <1>5, FS_Subset, FS_CardinalityType

\* At reconn_start there are none, and both serial openings may be to come.
LEMMA PeerInit == Init => PeerInv
<1> SUFFICES ASSUME Init PROVE PeerInv
  OBVIOUS
<1> USE ConstantsAssumption DEF ConstantsAssumption
<1>1. \A c \in Range(list) : c = CmdConn
  BY DEF Init, Range
<1>2. conn[CmdConn].type = "cmd"
  BY DEF Init
<1>3. OfType("server") = {} /\ OfType("serial") = {}
  BY <1>1, <1>2 DEF OfType
<1>4. ServerOnce
  BY <1>3 DEF ServerOnce
<1>5. Cardinality(OfType("serial")) = 0
  BY <1>3, FS_EmptySet
<1>6. SerialTwice
  BY <1>5 DEF SerialTwice, One
<1>7. OpensItsOwn
  BY DEF Init, OpensItsOwn, Threads
<1> QED BY <1>4, <1>6, <1>7, TableInit DEF PeerInv

--------------------------------------------------------------------------------
(* What changes the connections of a type.                                   *)

\* An insertion adds one connection, of its own kind, or stops at the assertion.
LEMMA InsertOfType ==
    ASSUME TableInv, NEW t \in Threads, Insert(t)
    PROVE  \/ /\ UNCHANGED pc
              /\ \A u \in Threads : op'[u].kind = op[u].kind
              /\ \A type : OfType(type)' = OfType(type)
           \/ /\ Goto(t, "register")
              /\ \A u \in Threads : op'[u].kind = op[u].kind
              /\ \E c : /\ c \notin Range(list)
                        /\ \A type : OfType(type)' =
                              IF type = op[t].kind THEN OfType(type) \cup {c} ELSE OfType(type)
<1> USE ConstantsAssumption
<1>1. PICK c \in Spare :
        /\ conn' = [conn EXCEPT ![c] = [fd |-> op[t].fd, type |-> op[t].kind, age |-> 0]]
        /\ op' = [op EXCEPT ![t].conn = c]
        /\ \/ UNCHANGED <<tree, list, pc>>
           \/ list' = Append(list, c) /\ Goto(t, "register")
  BY DEF Insert
<1>2. /\ c \in Conns /\ list \in Seq(Conns) /\ free \in Seq(Conns)
      /\ conn \in [Conns -> [fd : Keys \cup {0}, type : Types, age : Ages]]
      /\ op \in [Threads -> Operation]
  BY SpareType DEF TableInv, TypeInv, TypeOK, TableType, ThreadType
<1>3. c \notin Range(list)
  <2>1. CASE free = << >>
    BY <2>1 DEF Spare, Unused, Listed, Range
  <2>2. CASE free # << >>
    <3>1. c = free[1] /\ 1 \in DOMAIN free
      BY <1>2, <2>2 DEF Spare
    <3> QED BY <3>1 DEF TableInv, TablesAgree, Range
  <2> QED BY <2>1, <2>2
<1>4. \A u \in Threads : op'[u].kind = op[u].kind
  BY <1>1, <1>2 DEF Operation
<1>5. conn'[c].type = op[t].kind /\ \A d \in Range(list) : conn'[d] = conn[d]
  BY <1>1, <1>2, <1>3 DEF Range
<1>6. CASE UNCHANGED <<tree, list, pc>>
  <2>1. \A type : OfType(type)' = OfType(type)
    BY <1>5, <1>6 DEF OfType
  <2> QED BY <1>4, <1>6, <2>1
<1>7. CASE list' = Append(list, c) /\ Goto(t, "register")
  <2>1. Range(list') = Range(list) \cup {c}
    BY <1>2, <1>7, AppendRange
  <2>2. \A type : OfType(type)' =
          IF type = op[t].kind THEN OfType(type) \cup {c} ELSE OfType(type)
    BY <1>3, <1>5, <2>1 DEF OfType
  <2> QED BY <1>3, <1>4, <1>7, <2>2
<1> QED BY <1>1, <1>6, <1>7

\* connrbtree_del adds none.
LEMMA DeleteOfType ==
    ASSUME TableInv, NEW c \in Range(list), Delete(c)
    PROVE  \A type : OfType(type)' \subseteq OfType(type)
<1>1. Range(list') = Range(list) \ {c}
  BY DeleteAgrees
<1>2. \A d \in Range(list) : d # c => conn'[d] = conn[d]
  BY DEF Delete, TableInv, TypeInv, TypeOK, TableType, Range
<1> QED BY <1>1, <1>2 DEF OfType

\* Nor does the passing of time.
LEMMA TickOfType ==
    ASSUME TableInv, Tick
    PROVE  \A type : OfType(type)' = OfType(type)
<1>1. list' = list
  BY DEF Tick
<1>2. \A c \in Range(list) : conn'[c].type = conn[c].type
  BY DEF Tick, TableInv, TypeInv, TypeOK, TableType, Range
<1> QED BY <1>1, <1>2 DEF OfType

\* A thread that opens a descriptor remembers its kind.
LEMMA OpenMoves ==
    ASSUME TypeOK, NEW t \in Threads, NEW f \in Fds, NEW k, NEW p, NEW l,
           OpenFd(t, f, k, p), Goto(t, l)
    PROVE  /\ op'[t].kind = k /\ pc'[t] = l
           /\ \A u \in Threads : u # t => op'[u] = op[u] /\ pc'[u] = pc[u]
BY DEF TypeOK, ThreadType, OpenFd, Goto

\* One that only moves on leaves the other where it is.
LEMMA GotoMoves ==
    ASSUME TypeOK, NEW t \in Threads, NEW l, Goto(t, l)
    PROVE  pc'[t] = l /\ \A u \in Threads : u # t => pc'[u] = pc[u]
BY DEF TypeOK, ThreadType, Goto

\* Every step but an insertion: no connection is added, and a thread sets about
\* opening one only when it has seen that there is none.
LEMMA PeersKept ==
    ASSUME PeerInv, TypeOK',
           \A type : OfType(type)' \subseteq OfType(type),
           ServerDue' => ServerDue \/ OfType("server") = {},
           SerialDue("main")' => SerialDue("main"),
           SerialDue("reconn")' => SerialDue("reconn") \/ OfType("serial") = {}
    PROVE  ServerOnce' /\ SerialTwice'
<1>1. ServerOnce'
  BY DEF PeerInv, ServerOnce
<1>2. SerialTwice'
  <2> DEFINE n == Cardinality(OfType("serial"))
             m == Cardinality(OfType("serial")')
             a == One(SerialDue("main"))
             b == One(SerialDue("reconn"))
             d == One(SerialDue("main")')
             e == One(SerialDue("reconn")')
  <2>1. n \in Nat /\ m \in Nat /\ m <= n
    <3>1. IsFiniteSet(OfType("serial")) /\ n \in Nat
      BY OfTypeFinite DEF PeerInv, TableInv, TypeInv
    <3>2. OfType("serial")' \in SUBSET OfType("serial")
      OBVIOUS
    <3> QED BY <3>1, <3>2, FS_Subset, FS_CardinalityType
  <2>2. /\ a \in 0 .. 1 /\ b \in 0 .. 1 /\ d \in 0 .. 1 /\ e \in 0 .. 1 /\ d <= a
    BY DEF One
  <2>3. n + a + b <= 2
    BY DEF PeerInv, SerialTwice
  <2>4. e <= b \/ m = 0
    <3>1. CASE SerialDue("reconn")' => SerialDue("reconn")
      BY <3>1 DEF One
    <3>2. CASE OfType("serial") = {}
      <4>1. OfType("serial")' = {}
        BY <3>2
      <4> QED BY <4>1, FS_EmptySet
    <3> QED BY <3>1, <3>2
  <2>5. m + d + e <= 2
    <3> HIDE DEF n, m, a, b, d, e
    <3> QED BY <2>1, <2>2, <2>3, <2>4
  <2> QED BY <2>5 DEF SerialTwice
<1> QED BY <1>1, <1>2

\* An insertion uses up what its thread had claimed.
LEMMA PeersInserted ==
    ASSUME PeerInv, NEW t \in Threads, Insert(t)
    PROVE  OpensItsOwn' /\ ServerOnce' /\ SerialTwice'
<1>1. CASE /\ UNCHANGED pc
           /\ \A u \in Threads : op'[u].kind = op[u].kind
           /\ \A type : OfType(type)' = OfType(type)
  <2>1. OpensItsOwn' /\ ServerOnce'
    BY <1>1 DEF PeerInv, OpensItsOwn, ServerOnce, ServerDue, Inserts, Threads
  <2>2. \A u \in Threads : SerialDue(u)' <=> SerialDue(u)
    BY <1>1 DEF SerialDue, Inserts
  <2>3. \A u \in Threads : One(SerialDue(u)') = One(SerialDue(u))
    BY <2>2 DEF One
  <2>4. Cardinality(OfType("serial")') = Cardinality(OfType("serial"))
    BY <1>1
  <2> QED BY <2>1, <2>3, <2>4 DEF PeerInv, SerialTwice, Threads
<1>2. CASE /\ Goto(t, "register")
           /\ \A u \in Threads : op'[u].kind = op[u].kind
           /\ \E c : /\ c \notin Range(list)
                     /\ \A type : OfType(type)' =
                           IF type = op[t].kind THEN OfType(type) \cup {c} ELSE OfType(type)
  <2>1. PICK c : /\ c \notin Range(list)
                 /\ \A type : OfType(type)' =
                       IF type = op[t].kind THEN OfType(type) \cup {c} ELSE OfType(type)
    BY <1>2
  <2>2. pc[t] = "insert" /\ pc'[t] = "register" /\ \A u \in Threads : u # t => pc'[u] = pc[u]
    BY <1>2 DEF Insert, Goto, PeerInv, TableInv, TypeInv, TypeOK, ThreadType
  <2>3. OpensItsOwn'
    BY <1>2, <2>2 DEF PeerInv, OpensItsOwn, Threads
  <2>4. ServerOnce'
    <3>1. CASE op[t].kind = "server"
      <4>1. t = "reconn"
        BY <2>2, <3>1 DEF PeerInv, OpensItsOwn, Threads
      <4>2. OfType("server") = {}
        BY <2>2, <3>1, <4>1 DEF PeerInv, ServerOnce, ServerDue, Inserts
      <4>3. OfType("server")' = {c}
        BY <2>1, <3>1, <4>2
      <4>4. ~ServerDue'
        BY <2>2, <4>1 DEF ServerDue, Inserts
      <4> QED BY <4>3, <4>4 DEF ServerOnce
    <3>2. CASE op[t].kind # "server"
      <4>1. OfType("server")' = OfType("server")
        BY <2>1, <3>2
      <4>2. ServerDue' => ServerDue
        BY <1>2, <2>2 DEF ServerDue, Inserts, Threads
      <4> QED BY <4>1, <4>2 DEF PeerInv, ServerOnce
    <3> QED BY <3>1, <3>2
  <2>5. SerialTwice'
    <3> DEFINE n == Cardinality(OfType("serial"))
               m == Cardinality(OfType("serial")')
               a == One(SerialDue("main"))
               b == One(SerialDue("reconn"))
               d == One(SerialDue("main")')
               e == One(SerialDue("reconn")')
    <3>1. IsFiniteSet(OfType("serial")) /\ n \in Nat
      BY OfTypeFinite DEF PeerInv, TableInv, TypeInv
    <3>2. c \notin OfType("serial")
      BY <2>1 DEF OfType
    <3>3. \A u \in Threads : u # t => One(SerialDue(u)') = One(SerialDue(u))
      BY <1>2, <2>2 DEF One, SerialDue, Inserts
    <3>4. One(SerialDue(t)') = 0
      BY <2>2 DEF One, SerialDue, Inserts
    <3>5. One(SerialDue(t)) = IF op[t].kind = "serial" THEN 1 ELSE 0
      BY <2>2 DEF One, SerialDue, Inserts
    <3>6. m = IF op[t].kind = "serial" THEN n + 1 ELSE n
      <4>1. CASE op[t].kind = "serial"
        <5>1. OfType("serial")' = OfType("serial") \cup {c}
          BY <2>1, <4>1
        <5> QED BY <3>1, <3>2, <4>1, <5>1, FS_AddElement
      <4>2. CASE op[t].kind # "serial"
        BY <2>1, <4>2
      <4> QED BY <4>1, <4>2
    <3>7. a \in 0 .. 1 /\ b \in 0 .. 1 /\ d \in 0 .. 1 /\ e \in 0 .. 1
      BY DEF One
    <3>8. \/ /\ e = b /\ d = 0 /\ a = IF op[t].kind = "serial" THEN 1 ELSE 0
          \/ /\ d = a /\ e = 0 /\ b = IF op[t].kind = "serial" THEN 1 ELSE 0
      <4>1. CASE t = "main"
        BY <3>3, <3>4, <3>5, <4>1 DEF Threads
      <4>2. CASE t = "reconn"
        BY <3>3, <3>4, <3>5, <4>2 DEF Threads
      <4> QED BY <4>1, <4>2 DEF Threads
    <3>9. n + a + b <= 2
      BY DEF PeerInv, SerialTwice
    <3>10. m + d + e <= 2
      <4> HIDE DEF n, m, a, b, d, e
      <4> QED BY <3>1, <3>6, <3>7, <3>8, <3>9
    <3> QED BY <3>10 DEF SerialTwice
  <2> QED BY <2>3, <2>4, <2>5
<1> QED BY <1>1, <1>2, InsertOfType DEF PeerInv

--------------------------------------------------------------------------------
\* Every step keeps the claims.
LEMMA PeerNext == PeerInv /\ [Next]_vars => PeerInv'
<1> SUFFICES ASSUME PeerInv, [Next]_vars PROVE OpensItsOwn' /\ ServerOnce' /\ SerialTwice'
  BY TableNext DEF PeerInv
<1> DEFINE Kept == /\ \A type : OfType(type)' \subseteq OfType(type)
                   /\ OpensItsOwn'
                   /\ ServerDue' => ServerDue \/ OfType("server") = {}
                   /\ SerialDue("main")' => SerialDue("main")
                   /\ SerialDue("reconn")' => SerialDue("reconn") \/ OfType("serial") = {}
<1>0. ASSUME Kept PROVE OpensItsOwn' /\ ServerOnce' /\ SerialTwice'
  <2>1. TypeOK'
    BY TypeNext DEF PeerInv, TableInv, TypeInv
  <2> QED BY <1>0, <2>1, PeersKept
<1>1. ASSUME NEW t \in Threads, Register(t)
      PROVE  Kept
  <2>0. /\ pc'[t] = AfterOpen(t) /\ AfterOpen(t) \in {"accept", "listen", "serial?", "server?"}
        /\ \A u \in Threads : u # t => pc'[u] = pc[u] /\ op'[u] = op[u]
    <3>1. AfterOpen(t) \in {"accept", "listen", "serial?", "server?"}
      BY DEF AfterOpen
    <3>2. \A u \in Threads : u # t => op'[u] = op[u]
      BY <1>1 DEF Register, PeerInv, TableInv, TypeInv, TypeOK, ThreadType
    <3> QED BY <1>1, <3>1, <3>2, GotoMoves DEF Register, PeerInv, TableInv, TypeInv
  <2>1. \A type : OfType(type)' \subseteq OfType(type)
    BY <1>1 DEF Register, table, OfType
  <2>2. OpensItsOwn'
    BY <2>0 DEF PeerInv, OpensItsOwn, Threads
  <2>3. /\ ServerDue' => ServerDue \/ OfType("server") = {}
        /\ SerialDue("main")' => SerialDue("main")
        /\ SerialDue("reconn")' => SerialDue("reconn") \/ OfType("serial") = {}
    BY <2>0 DEF ServerDue, SerialDue, Inserts, Threads
  <2> QED BY <2>1, <2>2, <2>3
<1>2. ASSUME NEW t \in Threads, OpenSerial(t)
      PROVE  Kept
  <2>0. /\ pc[t] = "openserial"
        /\ \A u \in Threads : u # t => pc'[u] = pc[u] /\ op'[u] = op[u]
        /\ \/ pc'[t] = "insert" /\ op'[t].kind = "serial"
           \/ pc'[t] \in {"listen", "server?"}
    <3>1. CASE \E f \in Fds : OpenFd(t, f, "serial", "up") /\ Goto(t, "insert")
      BY <1>2, <3>1, OpenMoves DEF OpenSerial, PeerInv, TableInv, TypeInv
    <3>2. CASE UNCHANGED op /\ Goto(t, IF t = "main" THEN "listen" ELSE "server?")
      BY <1>2, <3>2, GotoMoves DEF OpenSerial, PeerInv, TableInv, TypeInv
    <3> QED BY <1>2, <3>1, <3>2 DEF OpenSerial
  <2>1. \A type : OfType(type)' \subseteq OfType(type)
    BY <1>2 DEF OpenSerial, table, OfType
  <2>2. OpensItsOwn'
    BY <2>0 DEF PeerInv, OpensItsOwn, Threads
  <2>3. /\ ServerDue' => ServerDue \/ OfType("server") = {}
        /\ SerialDue("main")' => SerialDue("main")
        /\ SerialDue("reconn")' => SerialDue("reconn") \/ OfType("serial") = {}
    BY <2>0 DEF ServerDue, SerialDue, Inserts, Threads
  <2> QED BY <2>1, <2>2, <2>3
<1>3. ASSUME RegisterPipe PROVE Kept
  BY <1>3 DEF RegisterPipe, table, Goto, NextEvent, Main, OfType, OpensItsOwn, ServerDue, SerialDue,
         Inserts, PeerInv, TableInv, TypeInv, TypeOK, ThreadType, Threads
<1>4. ASSUME Listen PROVE Kept
  BY <1>4 DEF Listen, table, Goto, NextEvent, Main, OfType, OpensItsOwn, ServerDue, SerialDue,
         Inserts, PeerInv, TableInv, TypeInv, TypeOK, ThreadType, Threads
<1>5. ASSUME Wait PROVE Kept
  BY <1>5 DEF Wait, table, Goto, NextEvent, Main, OfType, OpensItsOwn, ServerDue, SerialDue,
         Inserts, PeerInv, TableInv, TypeInv, TypeOK, ThreadType, Threads
<1>6. ASSUME Dispatch PROVE Kept
  BY <1>6 DEF Dispatch, table, Goto, NextEvent, Main, OfType, OpensItsOwn, ServerDue, SerialDue,
         Inserts, PeerInv, TableInv, TypeInv, TypeOK, ThreadType, Threads
<1>7. ASSUME Accept PROVE Kept
  <2>0. /\ pc["main"] = "accept" /\ pc'["reconn"] = pc["reconn"] /\ op'["reconn"] = op["reconn"]
        /\ \/ pc'["main"] = "insert" /\ op'["main"].kind = "client"
           \/ pc'["main"] = "next"
    <3>1. CASE \E f \in Fds : OpenFd("main", f, "client", "up") /\ Goto("main", "insert")
      BY <1>7, <3>1, OpenMoves DEF Accept, Main, Threads, PeerInv, TableInv, TypeInv
    <3>2. CASE UNCHANGED op /\ Goto("main", "next")
      BY <1>7, <3>2, GotoMoves DEF Accept, Main, Threads, PeerInv, TableInv, TypeInv
    <3> QED BY <1>7, <3>1, <3>2 DEF Accept, NextEvent
  <2>1. \A type : OfType(type)' \subseteq OfType(type)
    BY <1>7 DEF Accept, table, OfType
  <2>2. OpensItsOwn'
    BY <2>0 DEF PeerInv, OpensItsOwn, Threads
  <2>3. /\ ServerDue' => ServerDue \/ OfType("server") = {}
        /\ SerialDue("main")' => SerialDue("main")
        /\ SerialDue("reconn")' => SerialDue("reconn") \/ OfType("serial") = {}
    BY <2>0 DEF ServerDue, SerialDue, Inserts, Threads
  <2> QED BY <2>1, <2>2, <2>3
<1>8. ASSUME ReadPipe PROVE Kept
  BY <1>8 DEF ReadPipe, table, Goto, NextEvent, Main, OfType, OpensItsOwn, ServerDue, SerialDue,
         Inserts, PeerInv, TableInv, TypeInv, TypeOK, ThreadType, Threads
<1>9. ASSUME ReadInput PROVE Kept
  BY <1>9 DEF ReadInput, table, Goto, NextEvent, Main, OfType, OpensItsOwn, ServerDue, SerialDue,
         Inserts, PeerInv, TableInv, TypeInv, TypeOK, ThreadType, Threads
<1>10. ASSUME ReadNothing PROVE Kept
  BY <1>10 DEF ReadNothing, table, Goto, NextEvent, Main, OfType, OpensItsOwn, ServerDue, SerialDue,
         Inserts, PeerInv, TableInv, TypeInv, TypeOK, ThreadType, Threads
<1>11. ASSUME Close PROVE Kept
  BY <1>11 DEF Close, table, Goto, NextEvent, Main, OfType, OpensItsOwn, ServerDue, SerialDue,
         Inserts, PeerInv, TableInv, TypeInv, TypeOK, ThreadType, Threads
<1>12. ASSUME EventClose PROVE Kept
  <2>1. \A type : OfType(type)' \subseteq OfType(type)
    <3>1. CASE UNCHANGED table
      BY <3>1 DEF table, OfType
    <3>2. CASE tree[cur.fd] # NoConn /\ Delete(tree[cur.fd])
      <4>1. cur.fd \in Keys
        BY <1>12 DEF EventClose, Main, PeerInv, TableInv, TypeInv, ServedIsKey, Serving
      <4>2. tree[cur.fd] \in Range(list)
        BY <3>2, <4>1 DEF PeerInv, TableInv, TablesAgree
      <4> QED BY <3>2, <4>2, DeleteOfType DEF PeerInv
    <3> QED BY <1>12, <3>1, <3>2 DEF EventClose
  <2>2. OpensItsOwn'
    BY <1>12 DEF EventClose, Goto, NextEvent, Main, PeerInv, TableInv, TypeInv, TypeOK, ThreadType, Threads,
           OpensItsOwn
  <2>3. /\ ServerDue' => ServerDue \/ OfType("server") = {}
        /\ SerialDue("main")' => SerialDue("main")
        /\ SerialDue("reconn")' => SerialDue("reconn") \/ OfType("serial") = {}
    BY <1>12 DEF EventClose, Goto, NextEvent, Main, PeerInv, TableInv, TypeInv, TypeOK, ThreadType, Threads,
           ServerDue, SerialDue, Inserts
  <2> QED BY <2>1, <2>2, <2>3
<1>13. ASSUME Command PROVE Kept
  BY <1>13 DEF Command, table, Goto, NextEvent, Main, OfType, OpensItsOwn, ServerDue, SerialDue,
         Inserts, PeerInv, TableInv, TypeInv, TypeOK, ThreadType, Threads
<1>14. ASSUME Check PROVE Kept
  BY <1>14 DEF Check, table, Goto, NextEvent, Main, OfType, OpensItsOwn, ServerDue, SerialDue,
         Inserts, PeerInv, TableInv, TypeInv, TypeOK, ThreadType, Threads
<1>15. ASSUME CheckDel PROVE Kept
  <2>1. \A type : OfType(type)' \subseteq OfType(type)
    <3>1. at \in Range(list)
      BY <1>15 DEF CheckDel, Main, PeerInv, TableInv, TypeInv, CheckedIsEntry,
                    CursorOnList, Traversals
    <3> QED BY <1>15, <3>1, DeleteOfType DEF CheckDel, PeerInv
  <2>2. OpensItsOwn'
    BY <1>15 DEF CheckDel, Goto, NextEvent, Main, PeerInv, TableInv, TypeInv, TypeOK, ThreadType, Threads,
           OpensItsOwn
  <2>3. /\ ServerDue' => ServerDue \/ OfType("server") = {}
        /\ SerialDue("main")' => SerialDue("main")
        /\ SerialDue("reconn")' => SerialDue("reconn") \/ OfType("serial") = {}
    BY <1>15 DEF CheckDel, Goto, NextEvent, Main, PeerInv, TableInv, TypeInv, TypeOK, ThreadType, Threads,
           ServerDue, SerialDue, Inserts
  <2> QED BY <2>1, <2>2, <2>3
<1>16. ASSUME Beat PROVE Kept
  BY <1>16 DEF Beat, table, Goto, NextEvent, Main, OfType, OpensItsOwn, ServerDue, SerialDue,
         Inserts, PeerInv, TableInv, TypeInv, TypeOK, ThreadType, Threads
<1>17. ASSUME Alarm PROVE Kept
  BY <1>17 DEF Alarm, table, Goto, NextEvent, Main, OfType, OpensItsOwn, ServerDue, SerialDue,
         Inserts, PeerInv, TableInv, TypeInv, TypeOK, ThreadType, Threads
<1>18. ASSUME EndTraversal PROVE Kept
  BY <1>18 DEF EndTraversal, table, Goto, NextEvent, Main, OfType, OpensItsOwn, ServerDue, SerialDue,
         Inserts, PeerInv, TableInv, TypeInv, TypeOK, ThreadType, Threads
<1>19. ASSUME CheckServer PROVE Kept
  <2>0. /\ op' = op /\ pc'["main"] = pc["main"]
        /\ \/ pc'["reconn"] = "serial?"
           \/ pc'["reconn"] = "socket" /\ OfType("server") = {}
    <3>1. Has("server") <=> OfType("server") # {}
      BY DEF Has, Listed, OfType, Range
    <3>2. CASE Has("server") /\ Goto("reconn", "serial?")
      BY <1>19, <3>2, GotoMoves DEF CheckServer, Threads, PeerInv, TableInv, TypeInv
    <3>3. CASE ~Has("server") /\ Goto("reconn", "socket")
      BY <1>19, <3>1, <3>3, GotoMoves DEF CheckServer, Threads, PeerInv, TableInv, TypeInv
    <3> QED BY <1>19, <3>2, <3>3 DEF CheckServer
  <2>1. \A type : OfType(type)' \subseteq OfType(type)
    BY <1>19 DEF CheckServer, table, OfType
  <2>2. OpensItsOwn'
    BY <2>0 DEF PeerInv, OpensItsOwn, Threads
  <2>3. /\ ServerDue' => ServerDue \/ OfType("server") = {}
        /\ SerialDue("main")' => SerialDue("main")
        /\ SerialDue("reconn")' => SerialDue("reconn") \/ OfType("serial") = {}
    BY <2>0 DEF ServerDue, SerialDue, Inserts, Threads
  <2> QED BY <2>1, <2>2, <2>3
<1>20. ASSUME CheckSerial PROVE Kept
  <2>0. /\ op' = op /\ pc'["main"] = pc["main"]
        /\ \/ pc'["reconn"] = "server?"
           \/ pc'["reconn"] = "openserial" /\ OfType("serial") = {}
    <3>1. Has("serial") <=> OfType("serial") # {}
      BY DEF Has, Listed, OfType, Range
    <3>2. CASE Has("serial") /\ Goto("reconn", "server?")
      BY <1>20, <3>2, GotoMoves DEF CheckSerial, Threads, PeerInv, TableInv, TypeInv
    <3>3. CASE ~Has("serial") /\ Goto("reconn", "openserial")
      BY <1>20, <3>1, <3>3, GotoMoves DEF CheckSerial, Threads, PeerInv, TableInv, TypeInv
    <3> QED BY <1>20, <3>2, <3>3 DEF CheckSerial
  <2>1. \A type : OfType(type)' \subseteq OfType(type)
    BY <1>20 DEF CheckSerial, table, OfType
  <2>2. OpensItsOwn'
    BY <2>0 DEF PeerInv, OpensItsOwn, Threads
  <2>3. /\ ServerDue' => ServerDue \/ OfType("server") = {}
        /\ SerialDue("main")' => SerialDue("main")
        /\ SerialDue("reconn")' => SerialDue("reconn") \/ OfType("serial") = {}
    BY <2>0 DEF ServerDue, SerialDue, Inserts, Threads
  <2> QED BY <2>1, <2>2, <2>3
<1>21. ASSUME Socket PROVE Kept
  <2>0. /\ pc["reconn"] = "socket" /\ pc'["main"] = pc["main"] /\ op'["main"] = op["main"]
        /\ \/ pc'["reconn"] = "connect" /\ op'["reconn"].kind = "server"
           \/ pc'["reconn"] = "serial?"
    <3>1. CASE \E f \in Fds : OpenFd("reconn", f, "server", "none") /\ Goto("reconn", "connect")
      BY <1>21, <3>1, OpenMoves DEF Socket, Threads, PeerInv, TableInv, TypeInv
    <3>2. CASE UNCHANGED op /\ Goto("reconn", "serial?")
      BY <1>21, <3>2, GotoMoves DEF Socket, Threads, PeerInv, TableInv, TypeInv
    <3> QED BY <1>21, <3>1, <3>2 DEF Socket
  <2>1. \A type : OfType(type)' \subseteq OfType(type)
    BY <1>21 DEF Socket, table, OfType
  <2>2. OpensItsOwn'
    BY <2>0 DEF PeerInv, OpensItsOwn, Threads
  <2>3. /\ ServerDue' => ServerDue \/ OfType("server") = {}
        /\ SerialDue("main")' => SerialDue("main")
        /\ SerialDue("reconn")' => SerialDue("reconn") \/ OfType("serial") = {}
    BY <2>0 DEF ServerDue, SerialDue, Inserts, Threads
  <2> QED BY <2>1, <2>2, <2>3
<1>22. ASSUME Connect PROVE Kept
  <2>0. /\ pc["reconn"] = "connect" /\ op' = op /\ op["reconn"].kind = "server"
        /\ pc'["reconn"] = "insert" /\ pc'["main"] = pc["main"]
    BY <1>22, GotoMoves DEF Connect, Threads, OpensItsOwn, PeerInv, TableInv, TypeInv
  <2>1. \A type : OfType(type)' \subseteq OfType(type)
    BY <1>22 DEF Connect, table, OfType
  <2>2. OpensItsOwn'
    BY <2>0 DEF PeerInv, OpensItsOwn, Threads
  <2>3. /\ ServerDue' => ServerDue \/ OfType("server") = {}
        /\ SerialDue("main")' => SerialDue("main")
        /\ SerialDue("reconn")' => SerialDue("reconn") \/ OfType("serial") = {}
    BY <2>0 DEF ServerDue, SerialDue, Inserts, Threads
  <2> QED BY <2>1, <2>2, <2>3
<1>23. ASSUME ConnectFails PROVE Kept
  BY <1>23 DEF ConnectFails, table, Goto, NextEvent, Main, OfType, OpensItsOwn, ServerDue, SerialDue,
         Inserts, PeerInv, TableInv, TypeInv, TypeOK, ThreadType, Threads
<1>24. ASSUME Tick PROVE Kept
  <2>1. \A type : OfType(type)' \subseteq OfType(type)
    BY <1>24, TickOfType DEF PeerInv
  <2>2. OpensItsOwn'
    BY <1>24 DEF Tick, Goto, NextEvent, Main, PeerInv, TableInv, TypeInv, TypeOK, ThreadType, Threads,
           OpensItsOwn
  <2>3. /\ ServerDue' => ServerDue \/ OfType("server") = {}
        /\ SerialDue("main")' => SerialDue("main")
        /\ SerialDue("reconn")' => SerialDue("reconn") \/ OfType("serial") = {}
    BY <1>24 DEF Tick, Goto, NextEvent, Main, PeerInv, TableInv, TypeInv, TypeOK, ThreadType, Threads,
           ServerDue, SerialDue, Inserts
  <2> QED BY <2>1, <2>2, <2>3
<1>25. ASSUME ClientArrives PROVE Kept
  BY <1>25 DEF ClientArrives, table, Goto, NextEvent, Main, OfType, OpensItsOwn, ServerDue, SerialDue,
         Inserts, PeerInv, TableInv, TypeInv, TypeOK, ThreadType, Threads
<1>26. ASSUME NEW f \in Fds, PeerActs(f)
      PROVE  Kept
  BY <1>26 DEF PeerActs, table, Goto, NextEvent, Main, OfType, OpensItsOwn, ServerDue, SerialDue,
         Inserts, PeerInv, TableInv, TypeInv, TypeOK, ThreadType, Threads
<1>27. ASSUME UNCHANGED vars PROVE Kept
  BY <1>27 DEF vars, table, OfType, PeerInv, OpensItsOwn, ServerDue, SerialDue, Inserts
<1>28. CASE \E t \in Threads : Insert(t)
  BY <1>28, PeersInserted
<1>29. CASE Kept
  BY <1>0, <1>29
<1> QED
  <2> HIDE DEF Kept
  <2> QED
    BY <1>1, <1>2, <1>3, <1>4, <1>5, <1>6, <1>7, <1>8, <1>9, <1>10, <1>11, <1>12,
       <1>13, <1>14, <1>15, <1>16, <1>17, <1>18, <1>19, <1>20, <1>21, <1>22, <1>23, <1>24,
       <1>25, <1>26, <1>27, <1>28, <1>29
       DEF Next, MainStep, ReconnStep, OpenStep, World, Threads

\* The reconnect thread looks in the table and then opens, and the main thread
\* opens the serial port unasked: still there is never a second connection to the
\* server, and never a third to the serial port (main.c:54-57, reconn.c:17-45).
THEOREM PeersOpenedOnce == Spec => []OpenedOncePerPeer
<1>1. PeerInv => OpenedOncePerPeer
  <2> SUFFICES ASSUME PeerInv PROVE OpenedOncePerPeer
    OBVIOUS
  <2>1. \A type : {c \in Listed : conn[c].type = type} = OfType(type)
    BY DEF OfType, Listed, Range
  <2>2. Cardinality(OfType("server")) <= 1
    <3>1. CASE OfType("server") = {}
      BY <3>1, FS_EmptySet
    <3>2. CASE OfType("server") # {}
      <4>1. PICK c : c \in OfType("server")
        BY <3>2
      <4>2. OfType("server") = {c}
        BY <4>1 DEF PeerInv, ServerOnce
      <4>3. Cardinality({c}) = 1
        BY FS_Singleton
      <4> QED BY <4>2, <4>3
    <3> QED BY <3>1, <3>2
  <2>3. Cardinality(OfType("serial")) <= 2
    <3> DEFINE n == Cardinality(OfType("serial"))
               a == One(SerialDue("main"))
               b == One(SerialDue("reconn"))
    <3>1. n \in Nat /\ a \in 0 .. 1 /\ b \in 0 .. 1 /\ n + a + b <= 2
      BY OfTypeFinite DEF PeerInv, TableInv, TypeInv, SerialTwice, One
    <3> HIDE DEF n, a, b
    <3>2. n <= 2
      BY <3>1
    <3> QED BY <3>2 DEF n
  <2> QED BY <2>1, <2>2, <2>3 DEF OpenedOncePerPeer
<1> QED BY PeerInit, PeerNext, <1>1, PTL DEF Spec

--------------------------------------------------------------------------------
(* The descriptors behind the table.                                         *)

\* A thread has a descriptor that is not in the table yet.
Opens(t) == pc[t] \in {"connect", "insert"}

\* The entry of descriptor f is about to be removed, by the thread that closed f.
Removing(f) ==
    \/ Main("del") /\ ~cur.stale /\ cur.fd = f
    \/ Main("checkdel") /\ conn[at].fd = f

\* Descriptor f is that of a connection, which nobody is about to replace.
Sound(f) ==
    /\ IsOpen(f) /\ tree[f] # NoConn
    /\ \A t \in Threads : Opens(t) => op[t].fd # f

\* Each thread opens a descriptor of its own, under a number that is not in the
\* table, or whose entry the other thread is about to remove ...
OpensOwn ==
    /\ \A t \in Threads : Opens(t) =>
          /\ op[t].fd \in Fds /\ op[t].kind \in Kinds
          /\ desc[op[t].fd].kind = op[t].kind
          /\ tree[op[t].fd] # NoConn => Removing(op[t].fd)
    /\ pc["main"] # "connect"
    /\ Opens("main") /\ Opens("reconn") => op["main"].fd # op["reconn"].fd

\* ... and the main thread's connection stays in the table until it is registered.
MainKeepsEntry ==
    pc["main"] = "register" =>
       op["main"].fd \in Fds /\ op["main"].conn \in Conns /\ tree[op["main"].fd] = op["main"].conn

\* An entry that stays owns an open descriptor, of its type; a descriptor that is
\* open is in the table or with its opener.
EntriesOwn ==
    \A f \in Fds : tree[f] # NoConn /\ ~Removing(f) => desc[f].kind \in Kinds /\ desc[f].kind = conn[tree[f]].type
NoneLost ==
    \A f \in Fds : IsOpen(f) => tree[f] # NoConn \/ \E t \in Threads : Opens(t) /\ op[t].fd = f

\* One that goes has its descriptor closed, and only the reconnect thread can have
\* been given the number again.
RemovedIsClosed ==
    \A f \in Fds : Removing(f) =>
       /\ tree[f] # NoConn /\ f \notin reg
       /\ IsOpen(f) => Opens("reconn") /\ op["reconn"].fd = f

\* Every entry is registered with epoll, or its opener is about to do it; what is
\* registered is open, and in the table once the main thread is not inserting it.
Watched ==
    \A f \in Fds : tree[f] # NoConn /\ ~Removing(f) =>
       f \in reg \/ \E t \in Threads : pc[t] = "register" /\ op[t].fd = f /\ op[t].conn = tree[f]
RegisteredIsOpen ==
    \A f \in Fds : f \in reg =>
       IsOpen(f) /\ (tree[f] # NoConn \/ (pc["main"] = "insert" /\ op["main"].fd = f))

\* An event that is not stale is a connection's, in the batch and when it is served.
EventsSound == \A e \in batch : ~e.stale /\ e.fd \in Fds => Sound(e.fd)
ServedSound ==
    pc["main"] \in {"read", "close", "alarm"} /\ ~cur.stale /\ cur.fd \in Fds => Sound(cur.fd)

Owns == /\ OpensOwn /\ MainKeepsEntry
        /\ EntriesOwn /\ NoneLost /\ RemovedIsClosed
        /\ Watched /\ RegisteredIsOpen
        /\ EventsSound /\ ServedSound

\* Only a connection's descriptor is closed by number, and only the command pipe
\* starts a traversal of the table.
ServesOwnKind ==
    /\ pc["main"] \in {"close", "del"} => cur.fd \in Fds
    /\ pc["main"] \in {"command", "check", "checkdel", "beat"} => cur.fd = CmdFd

DescriptorInv == TableInv /\ ServesOwnKind /\ (~misfired => Owns)

--------------------------------------------------------------------------------
\* At reconn_start nothing is open.
LEMMA DescriptorInit == Init => DescriptorInv
<1> SUFFICES ASSUME Init PROVE ServesOwnKind /\ Owns
  BY TableInit DEF DescriptorInv
<1> USE ConstantsAssumption DEF ConstantsAssumption
<1>1. /\ \A f \in Fds : tree[f] = NoConn /\ ~IsOpen(f)
      /\ reg = {} /\ batch = {} /\ cur = NoEvent
      /\ pc["main"] = "boot" /\ pc["reconn"] = "server?"
  BY DEF Init, IsOpen, Closed, Threads, Keys
<1>2. \A t \in Threads : ~Opens(t) /\ pc[t] # "register"
  BY <1>1 DEF Opens, Threads
<1>3. \A f \in Fds : ~Removing(f)
  BY <1>1 DEF Removing, Main
<1> QED
  BY <1>1, <1>2, <1>3
     DEF ServesOwnKind, Owns, OpensOwn, MainKeepsEntry, EntriesOwn, NoneLost, RemovedIsClosed,
         Watched, RegisteredIsOpen, EventsSound, ServedSound, Threads

--------------------------------------------------------------------------------
(* The steps, by what they do to descriptors and entries.                    *)

\* What a connection on the list says of itself, to this component.
SameEntry(c) == conn'[c].fd = conn[c].fd /\ conn'[c].type = conn[c].type

\* The thread keeps its place as far as the descriptor it opens is concerned.
SameOpening(t) ==
    /\ Opens(t)' <=> Opens(t)
    /\ (pc'[t] = "register") <=> (pc[t] = "register")
    /\ (pc'[t] = "insert" /\ t = "main") <=> (pc[t] = "insert" /\ t = "main")
    /\ op'[t].fd = op[t].fd /\ op'[t].kind = op[t].kind
    /\ pc[t] = "register" => op'[t].conn = op[t].conn

\* A step that opens, closes, inserts, removes and registers nothing, and takes
\* from epoll what is sound ...
Quiet ==
    /\ UNCHANGED tree /\ \A f \in Fds : SameEntry(tree[f]) \/ tree[f] = NoConn
    /\ \A f \in Fds : desc'[f].kind = desc[f].kind /\ (f \in reg' <=> f \in reg)
    /\ \A t \in Threads : SameOpening(t)
    /\ pc'["main"] = "connect" => pc["main"] = "connect"
    /\ \A f \in Fds : Removing(f)' <=> Removing(f)
    /\ \A e \in batch' : ~e.stale /\ e.fd \in Fds => Sound(e.fd)
    /\ pc'["main"] \in {"read", "close", "alarm"} /\ ~cur'.stale /\ cur'.fd \in Fds
          => Sound(cur'.fd)

\* ... keeps everything.
LEMMA QuietOwns == ASSUME Owns, Quiet PROVE Owns'
<1> USE DEF Quiet
<1>1. \A f \in Fds : IsOpen(f)' <=> IsOpen(f)
  BY DEF IsOpen
<1>2. \A f \in Fds : Sound(f) => Sound(f)'
  BY <1>1 DEF Sound, SameOpening
<1>3. OpensOwn'
  BY DEF Owns, OpensOwn, SameOpening, Threads
<1>4. MainKeepsEntry'
  BY DEF Owns, MainKeepsEntry, SameOpening, Threads
<1>5. EntriesOwn'
  BY DEF Owns, EntriesOwn, SameEntry
<1>6. NoneLost'
  BY <1>1 DEF Owns, NoneLost, SameOpening
<1>7. RemovedIsClosed'
  BY <1>1 DEF Owns, RemovedIsClosed, SameOpening, Threads
<1>8. Watched'
  BY DEF Owns, Watched, SameOpening
<1>9. RegisteredIsOpen'
  BY <1>1 DEF Owns, RegisteredIsOpen, SameOpening, Threads
<1>10. EventsSound' /\ ServedSound'
  BY <1>2 DEF EventsSound, ServedSound
<1> QED BY <1>3, <1>4, <1>5, <1>6, <1>7, <1>8, <1>9, <1>10 DEF Owns

\* The lowest free number is nobody's, unless it is one whose entry the main thread
\* is about to remove.
LEMMA OpenOwns ==
    ASSUME TableInv, Owns, NEW t \in Threads, NEW f \in Fds, NEW k \in Kinds, NEW p,
           NEW l \in {"connect", "insert"}, t = "main" => l = "insert",
           pc[t] \notin {"connect", "insert", "register", "del", "checkdel"},
           OpenFd(t, f, k, p), Goto(t, l), UNCHANGED <<table, reg, batch, cur, at>>
    PROVE  Owns'
<1>1. /\ op'[t].fd = f /\ op'[t].kind = k /\ pc'[t] = l
      /\ \A u \in Threads : u # t => op'[u] = op[u] /\ pc'[u] = pc[u]
  BY DEF OpenFd, Goto, TableInv, TypeInv, TypeOK, ThreadType
<1>2. /\ ~IsOpen(f) /\ IsOpen(f)' /\ desc'[f].kind = k
      /\ \A g \in Fds : g # f => desc'[g] = desc[g]
  BY DEF OpenFd, IsLowest, FreeFds, IsOpen, Closed, Opened, Kinds, TableInv, TypeInv, TypeOK,
         KernelType
<1>3. \A g \in Fds : Removing(g)' <=> Removing(g)
  BY <1>1 DEF Removing, Main, table, Threads
<1>4. tree[f] # NoConn => Removing(f)
  BY <1>2 DEF Owns, EntriesOwn, IsOpen, Kinds
<1>5. Removing(f) => t = "reconn"
  BY DEF Removing, Main, Threads
<1>6. f \notin reg
  BY <1>2 DEF Owns, RegisteredIsOpen
<1>7. \A u \in Threads : Opens(u) => op[u].fd # f
  BY <1>2 DEF Owns, OpensOwn, IsOpen, Kinds
<1>8. \A g \in Fds : Sound(g) => Sound(g)'
  BY <1>1, <1>2 DEF Sound, Opens, table, IsOpen
<1>9. \A u \in Threads : u # t => (Opens(u)' <=> Opens(u))
  BY <1>1 DEF Opens
<1>10. Opens(t)' /\ ~Opens(t)
  BY <1>1 DEF Opens
<1>11. OpensOwn'
  BY <1>1, <1>2, <1>3, <1>4, <1>7, <1>9, <1>10 DEF Owns, OpensOwn, table, Threads
<1>12. MainKeepsEntry'
  BY <1>1 DEF Owns, MainKeepsEntry, table, Threads
<1>13. EntriesOwn'
  BY <1>2, <1>3, <1>4 DEF Owns, EntriesOwn, table
<1>14. NoneLost'
  BY <1>1, <1>2, <1>9, <1>10 DEF Owns, NoneLost, table, IsOpen
<1>15. RemovedIsClosed'
  <2> SUFFICES ASSUME NEW g \in Fds, Removing(g)
               PROVE  /\ tree'[g] # NoConn /\ g \notin reg'
                      /\ IsOpen(g)' => Opens("reconn")' /\ op'["reconn"].fd = g
    BY <1>3 DEF RemovedIsClosed
  <2>1. tree'[g] # NoConn /\ g \notin reg'
    BY DEF Owns, RemovedIsClosed, table
  <2>2. CASE g = f
    BY <1>1, <1>5, <1>10, <2>1, <2>2
  <2>3. CASE g # f
    BY <1>1, <1>2, <1>9, <1>10, <2>1, <2>3 DEF Owns, RemovedIsClosed, IsOpen, Threads
  <2> QED BY <2>2, <2>3
<1>16. Watched'
  BY <1>1, <1>3 DEF Owns, Watched, table
<1>17. RegisteredIsOpen'
  BY <1>1, <1>2, <1>6 DEF Owns, RegisteredIsOpen, table, IsOpen, Threads
<1>18. EventsSound' /\ ServedSound'
  BY <1>1, <1>8 DEF Owns, EventsSound, ServedSound, Threads
<1> QED BY <1>11, <1>12, <1>13, <1>14, <1>15, <1>16, <1>17, <1>18 DEF Owns

\* close() marks the events it makes stale, and no others.
LEMMA CloseMarks ==
    ASSUME TableInv, NEW f, CloseFd(f), NEW e \in batch', ~e.stale
    PROVE  \E d \in batch : ~d.stale /\ d.fd = e.fd /\ ~(d.fd = f /\ IsOpen(f))
<1>1. PICK d \in batch : e = [d EXCEPT !.stale = @ \/ (d.fd = f /\ IsOpen(f))]
  BY DEF CloseFd
<1>2. d \in Event
  BY DEF TableInv, TypeInv, TypeOK, LoopType
<1> QED BY <1>1, <1>2 DEF Event

\* The main thread closes a descriptor that its entry owns, and goes on to remove it.
LEMMA CloseOwns ==
    ASSUME TableInv, Owns, NEW f \in Keys, tree[f] # NoConn,
           \A t \in Threads : Opens(t) => op[t].fd # f,
           CloseFd(f), UNCHANGED <<table, op>>, pc'["reconn"] = pc["reconn"],
           pc["main"] \in {"close", "check"}, pc'["main"] \in {"del", "checkdel"},
           \A g \in Fds : Removing(g)' <=> g = f
    PROVE  Owns'
<1>1. \A g \in Fds : ~Removing(g)
  BY DEF Removing, Main
<1>2. /\ \A g \in Fds : g # f => desc'[g] = desc[g]
      /\ f \in Fds => ~IsOpen(f)'
      /\ reg' = reg \ {f}
  BY DEF CloseFd, Closed, IsOpen, TableInv, TypeInv, TypeOK, KernelType
<1>3. \A g \in Fds : g # f => (IsOpen(g)' <=> IsOpen(g))
  BY <1>2 DEF IsOpen
<1>4. \A t \in Threads : (Opens(t)' <=> Opens(t)) /\ (pc[t] = "register" => pc'[t] = "register")
  BY DEF Opens, Threads
<1>5. \A g \in Fds : g # f /\ Sound(g) => Sound(g)'
  BY <1>3, <1>4 DEF Sound, table
<1>6. OpensOwn'
  BY <1>1, <1>2, <1>4 DEF Owns, OpensOwn, table, Threads
<1>7. MainKeepsEntry'
  BY DEF MainKeepsEntry
<1>8. EntriesOwn'
  BY <1>1, <1>2 DEF Owns, EntriesOwn, table
<1>9. NoneLost'
  BY <1>2, <1>3, <1>4 DEF Owns, NoneLost, table
<1>10. RemovedIsClosed'
  BY <1>2 DEF RemovedIsClosed, table
<1>11. Watched'
  BY <1>1, <1>2, <1>4 DEF Owns, Watched, table
<1>12. RegisteredIsOpen'
  BY <1>2, <1>3 DEF Owns, RegisteredIsOpen, table
<1>13. EventsSound'
  <2> SUFFICES ASSUME NEW e \in batch', ~e.stale, e.fd \in Fds PROVE Sound(e.fd)'
    BY DEF EventsSound
  <2>1. Sound(e.fd) /\ ~(e.fd = f /\ IsOpen(f))
    BY CloseMarks DEF Owns, EventsSound
  <2> QED BY <1>5, <2>1 DEF Sound
<1>14. ServedSound'
  BY DEF ServedSound
<1> QED BY <1>6, <1>7, <1>8, <1>9, <1>10, <1>11, <1>12, <1>13, <1>14 DEF Owns

\* And removes it: the descriptor is free, or the reconnect thread's already.
LEMMA DeleteOwns ==
    ASSUME TableInv, Owns, NEW f \in Keys, tree[f] # NoConn,
           Delete(tree[f]), UNCHANGED <<desc, reg, batch, op>>, pc'["reconn"] = pc["reconn"],
           pc["main"] \in {"del", "checkdel"}, pc'["main"] \in {"next", "check"},
           \A g \in Fds : Removing(g) <=> g = f
    PROVE  Owns'
<1>1. \A g \in Fds : ~Removing(g)'
  BY DEF Removing, Main
<1>2. /\ tree'[f] = NoConn
      /\ \A g \in Keys : g # f => tree'[g] = tree[g] /\ (tree[g] # NoConn => conn'[tree[g]] = conn[tree[g]])
  <2>1. \A g \in Keys : tree[g] = tree[f] => g = f
    BY DEF TableInv, TablesAgree
  <2>2. conn \in [Conns -> [fd : Keys \cup {0}, type : Types, age : Ages]]
    BY DEF TableInv, TypeInv, TypeOK, TableType
  <2>3. \A g \in Keys : tree[g] # NoConn => tree[g] \in Conns
    BY DEF TableInv, TypeInv, TypeOK, TableType
  <2> QED BY <2>1, <2>2, <2>3 DEF Delete
<1>3. \A t \in Threads : (Opens(t)' <=> Opens(t)) /\ (pc[t] = "register" => pc'[t] = "register")
  BY DEF Opens, Threads
<1>4. \A g \in Fds : IsOpen(g)' <=> IsOpen(g)
  BY DEF IsOpen
<1>5. \A g \in Fds : Sound(g) => Sound(g)'
  <2> SUFFICES ASSUME NEW g \in Fds, Sound(g) PROVE Sound(g)'
    OBVIOUS
  <2>1. g # f
    BY DEF Sound, Owns, RemovedIsClosed, Threads
  <2> QED BY <1>2, <1>3, <1>4, <2>1 DEF Sound, Keys
<1>6. OpensOwn'
  BY <1>2, <1>3 DEF Owns, OpensOwn, Keys, Threads
<1>7. MainKeepsEntry'
  BY DEF MainKeepsEntry
<1>8. EntriesOwn'
  BY <1>1, <1>2 DEF Owns, EntriesOwn, Keys
<1>9. NoneLost'
  BY <1>2, <1>3, <1>4 DEF Owns, NoneLost, RemovedIsClosed, Keys, Threads
<1>10. RemovedIsClosed'
  BY <1>1 DEF RemovedIsClosed
<1>11. Watched'
  BY <1>1, <1>2, <1>3 DEF Owns, Watched, Keys
<1>12. RegisteredIsOpen'
  BY <1>2, <1>4 DEF Owns, RegisteredIsOpen, RemovedIsClosed, Keys
<1>13. EventsSound' /\ ServedSound'
  BY <1>5 DEF Owns, EventsSound, ServedSound
<1> QED BY <1>6, <1>7, <1>8, <1>9, <1>10, <1>11, <1>12, <1>13 DEF Owns

\* A connect that fails gives its number back; an entry with it was on its way out.
LEMMA FailOwns == ASSUME TableInv, Owns, ConnectFails PROVE Owns'
<1>0. PICK f : f = op["reconn"].fd
  OBVIOUS
<1>1. /\ Opens("reconn") /\ ~Opens("reconn")' /\ pc'["reconn"] = "serial?"
      /\ pc'["main"] = pc["main"] /\ op'["main"] = op["main"]
      /\ UNCHANGED <<table, cur, at>>
  BY DEF ConnectFails, Opens, Goto, TableInv, TypeInv, TypeOK, ThreadType, Threads
<1>2. f \in Fds /\ desc[f].kind \in Kinds
  BY <1>0, <1>1 DEF Owns, OpensOwn, Threads
<1>3. /\ \A g \in Fds : g # f => desc'[g] = desc[g]
      /\ ~IsOpen(f)' /\ reg' = reg \ {f}
  BY <1>0, <1>2 DEF ConnectFails, CloseFd, Closed, IsOpen, TableInv, TypeInv, TypeOK, KernelType
<1>4. \A g \in Fds : g # f => (IsOpen(g)' <=> IsOpen(g))
  BY <1>3 DEF IsOpen
<1>5. \A g \in Fds : Removing(g)' <=> Removing(g)
  BY <1>1 DEF Removing, Main, table
<1>6. tree[f] # NoConn => Removing(f)
  BY <1>0, <1>1 DEF Owns, OpensOwn, Threads
<1>7. Opens("main")' <=> Opens("main")
  BY <1>1 DEF Opens
<1>8. Opens("main") => op["main"].fd # f
  BY <1>0, <1>1 DEF Owns, OpensOwn
<1>9. \A g \in Fds : Sound(g) => g # f /\ Sound(g)'
  BY <1>0, <1>1, <1>4, <1>7 DEF Sound, table, Threads
<1>10. OpensOwn'
  BY <1>1, <1>3, <1>5, <1>7, <1>8 DEF Owns, OpensOwn, table, Threads
<1>11. MainKeepsEntry'
  BY <1>1 DEF Owns, MainKeepsEntry, table
<1>12. EntriesOwn'
  BY <1>1, <1>3, <1>5, <1>6 DEF Owns, EntriesOwn, table
<1>13. NoneLost'
  BY <1>0, <1>1, <1>3, <1>4, <1>7 DEF Owns, NoneLost, table, Threads
<1>14. RemovedIsClosed'
  BY <1>0, <1>1, <1>3, <1>4, <1>5 DEF Owns, RemovedIsClosed, table, Threads
<1>15. Watched'
  BY <1>1, <1>3, <1>5, <1>6 DEF Owns, Watched, table, Threads, Opens
<1>16. RegisteredIsOpen'
  BY <1>1, <1>3, <1>4 DEF Owns, RegisteredIsOpen, table
<1>17. EventsSound'
  <2> SUFFICES ASSUME NEW e \in batch', ~e.stale, e.fd \in Fds PROVE Sound(e.fd)'
    BY DEF EventsSound
  <2>1. CloseFd(f)
    BY <1>0 DEF ConnectFails
  <2>2. Sound(e.fd)
    BY <2>1, CloseMarks DEF Owns, EventsSound
  <2> QED BY <1>9, <2>2
<1>18. ServedSound'
  BY <1>1, <1>9 DEF Owns, ServedSound
<1> QED BY <1>10, <1>11, <1>12, <1>13, <1>14, <1>15, <1>16, <1>17, <1>18 DEF Owns

\* What freeconnlist_getconn returns is not on the list.
LEMMA SpareUnlisted ==
    ASSUME TableInv, NEW c \in Spare
    PROVE  c \in Conns /\ c \notin Range(list) /\ \A f \in Keys : tree[f] # c
<1>1. c \in Conns /\ free \in Seq(Conns) /\ NoConn \notin Conns
  BY SpareType, ConstantsAssumption
     DEF ConstantsAssumption, TableInv, TypeInv, TypeOK, TableType
<1>2. c \notin Range(list)
  <2>1. CASE free = << >>
    BY <2>1 DEF Spare, Unused, Listed, Range
  <2>2. CASE free # << >>
    <3>1. c = free[1] /\ 1 \in DOMAIN free
      BY <1>1, <2>2 DEF Spare
    <3> QED BY <3>1 DEF TableInv, TablesAgree, Range
  <2> QED BY <2>1, <2>2
<1> QED BY <1>1, <1>2 DEF TableInv, TablesAgree

\* An insertion files the descriptor that its thread has opened, or stops at the
\* assertion.
LEMMA InsertOwns == ASSUME TableInv, Owns, NEW t \in Threads, Insert(t) PROVE Owns'
<1> DEFINE f == op[t].fd
<1>1. PICK c \in Spare :
        /\ conn' = [conn EXCEPT ![c] = [fd |-> f, type |-> op[t].kind, age |-> 0]]
        /\ op' = [op EXCEPT ![t].conn = c]
        /\ \/ UNCHANGED <<tree, list, pc>>
           \/ /\ tree[f] = NoConn
              /\ tree' = [tree EXCEPT ![f] = c]
              /\ Goto(t, "register")
  BY DEF Insert
<1>2. /\ c \in Conns /\ c # NoConn /\ c \notin Range(list) /\ \A g \in Keys : tree[g] # c
      /\ conn \in [Conns -> [fd : Keys \cup {0}, type : Types, age : Ages]]
      /\ tree \in [Keys -> Conns \cup {NoConn}]
  BY SpareUnlisted, ConstantsAssumption
     DEF ConstantsAssumption, TableInv, TypeInv, TypeOK, TableType
<1>3. /\ pc[t] = "insert" /\ UNCHANGED <<desc, reg, batch, cur, at>>
      /\ op'[t].fd = f /\ op'[t].kind = op[t].kind /\ op'[t].conn = c
      /\ \A u \in Threads : u # t => op'[u] = op[u]
  <2>1. pc[t] = "insert" /\ UNCHANGED <<desc, reg, batch, cur, at>>
    BY DEF Insert, kernel, loop
  <2>2. op \in [Threads -> Operation]
    BY DEF TableInv, TypeInv, TypeOK, ThreadType
  <2> QED BY <1>1, <2>1, <2>2 DEF Operation
<1>4. \A d \in Conns : d # c => conn'[d] = conn[d]
  BY <1>1, <1>2
<1>5. pc["main"] = "checkdel" => conn'[at] = conn[at]
  <2>1. pc["main"] = "checkdel" => at \in Range(list) /\ at \in Conns
    BY DEF TableInv, TypeInv, TypeOK, TableType, CheckedIsEntry, CursorOnList, Traversals, Range
  <2> QED BY <1>2, <1>4, <2>1
<1>6. CASE UNCHANGED <<tree, list, pc>>
  <2>1. \A g \in Fds : Removing(g)' <=> Removing(g)
    BY <1>3, <1>5, <1>6 DEF Removing, Main
  <2>2. \A g \in Fds : SameEntry(tree[g]) \/ tree[g] = NoConn
    BY <1>2, <1>4 DEF SameEntry, Keys
  <2>3. \A u \in Threads : SameOpening(u)
    BY <1>3, <1>6 DEF SameOpening, Opens
  <2>4. \A e \in batch' : ~e.stale /\ e.fd \in Fds => Sound(e.fd)
    BY <1>3 DEF Owns, EventsSound
  <2>5. pc'["main"] \in {"read", "close", "alarm"} /\ ~cur'.stale /\ cur'.fd \in Fds
           => Sound(cur'.fd)
    BY <1>3, <1>6 DEF Owns, ServedSound
  <2> QED BY <1>3, <1>6, <2>1, <2>2, <2>3, <2>4, <2>5, QuietOwns DEF Quiet
<1>7. CASE /\ tree[f] = NoConn
           /\ tree' = [tree EXCEPT ![f] = c]
           /\ Goto(t, "register")
  <2>1. f \in Fds /\ f \in Keys /\ desc[f].kind = op[t].kind /\ op[t].kind \in Kinds
    BY <1>3 DEF Owns, OpensOwn, Opens, Keys
  <2>2. /\ tree'[f] = c /\ conn'[c].type = op[t].kind
        /\ \A g \in Keys : g # f => tree'[g] = tree[g]
        /\ \A g \in Keys : tree[g] # NoConn => g # f /\ conn'[tree[g]] = conn[tree[g]]
    BY <1>1, <1>2, <1>4, <1>7, <2>1
  <2>3. pc'[t] = "register" /\ \A u \in Threads : u # t => pc'[u] = pc[u]
    BY <1>7, <1>3 DEF Goto, TableInv, TypeInv, TypeOK, ThreadType
  <2>4. \A g \in Fds : Removing(g)' <=> Removing(g)
    BY <1>3, <1>5, <2>3 DEF Removing, Main, Threads
  <2>5. ~Removing(f)
    BY <1>7, <2>1 DEF Owns, RemovedIsClosed
  <2>6. ~Opens(t)' /\ Opens(t) /\ \A u \in Threads : u # t => (Opens(u)' <=> Opens(u))
    BY <1>3, <2>3 DEF Opens
  <2>7. \A u \in Threads : u # t /\ Opens(u) => op[u].fd # f
    BY <2>6 DEF Owns, OpensOwn, Threads
  <2>8. \A g \in Fds : IsOpen(g)' <=> IsOpen(g)
    BY <1>3 DEF IsOpen
  <2>9. \A g \in Fds : Sound(g) => Sound(g)'
    BY <1>3, <2>2, <2>6, <2>8 DEF Sound, Keys
  <2> HIDE DEF f
  <2>10. OpensOwn'
    BY <1>3, <2>2, <2>3, <2>4, <2>6, <2>7 DEF Owns, OpensOwn, Keys, Threads
  <2>11. MainKeepsEntry'
    <3>1. CASE t = "main"
      BY <1>2, <1>3, <2>1, <2>2, <3>1 DEF f, MainKeepsEntry
    <3>2. CASE t = "reconn"
      BY <1>2, <1>3, <1>7, <2>2, <2>3, <3>2, ConstantsAssumption
         DEF ConstantsAssumption, Owns, MainKeepsEntry, Threads, Keys
    <3> QED BY <3>1, <3>2 DEF Threads
  <2>12. EntriesOwn'
    BY <1>3, <2>1, <2>2, <2>4 DEF Owns, EntriesOwn, Keys
  <2>13. NoneLost'
    BY <1>2, <1>3, <2>2, <2>6, <2>8 DEF f, Owns, NoneLost, Keys
  <2>14. RemovedIsClosed'
    BY <1>2, <1>3, <2>2, <2>4, <2>5, <2>6, <2>8 DEF f, Owns, RemovedIsClosed, Keys, Threads
  <2>15. Watched'
    BY <1>3, <2>2, <2>3, <2>4 DEF f, Owns, Watched, Keys
  <2>16. RegisteredIsOpen'
    BY <1>2, <1>3, <2>2, <2>3, <2>8 DEF f, Owns, RegisteredIsOpen, Keys, Threads
  <2>17. EventsSound' /\ ServedSound'
    BY <1>3, <2>3, <2>9 DEF Owns, EventsSound, ServedSound, Threads
  <2> QED
    BY <2>10, <2>11, <2>12, <2>13, <2>14, <2>15, <2>16, <2>17 DEF Owns
<1> QED BY <1>1, <1>6, <1>7

\* A registration: of an entry's descriptor, the thread's own or, once that has
\* been removed, of what its structure names by now.
LEMMA RegisterOwns == ASSUME TableInv, Owns, NEW t \in Threads, Register(t) PROVE Owns'
<1>1. /\ pc[t] = "register" /\ pc'[t] = AfterOpen(t)
      /\ \A u \in Threads : u # t => op'[u] = op[u] /\ pc'[u] = pc[u]
      /\ UNCHANGED <<table, desc, batch, cur, at>>
  BY DEF Register, Goto, loop, TableInv, TypeInv, TypeOK, ThreadType
<1>2. AfterOpen(t) \in {"accept", "listen", "serial?", "server?"}
  BY DEF AfterOpen
<1>3. PICK g : /\ g = IF op[t].kind = "client" THEN op[t].fd ELSE conn[op[t].conn].fd
               /\ reg' = IF IsOpen(g) /\ g \notin reg THEN reg \cup {g} ELSE reg
  BY DEF Register
<1>4. \A u \in Threads : Opens(u)' <=> (u # t /\ Opens(u))
  BY <1>1, <1>2 DEF Opens
<1>5. ~Opens(t)
  BY <1>1 DEF Opens
<1>6. \A f \in Fds : Removing(f)' <=> Removing(f)
  BY <1>1, <1>2 DEF Removing, Main, table, Threads
<1>7. \A f \in Fds : Sound(f) => Sound(f)'
  BY <1>1, <1>4 DEF Sound, table, IsOpen
<1>8. OpensOwn'
  BY <1>1, <1>2, <1>4, <1>6 DEF Owns, OpensOwn, table, Threads
<1>9. MainKeepsEntry'
  BY <1>1, <1>2 DEF Owns, MainKeepsEntry, table, Threads
<1>10. EntriesOwn'
  BY <1>1, <1>6 DEF Owns, EntriesOwn, table
<1>11. NoneLost'
  BY <1>1, <1>4, <1>5 DEF Owns, NoneLost, table, IsOpen
<1>12. ASSUME IsOpen(g), t = "main" PROVE tree[g] # NoConn
  <2>1. op["main"].fd \in Keys /\ op["main"].conn # NoConn /\ tree[op["main"].fd] = op["main"].conn
    BY <1>1, <1>12, ConstantsAssumption DEF ConstantsAssumption, Owns, MainKeepsEntry, Keys
  <2>2. g = op["main"].fd
    BY <1>3, <1>12, <2>1 DEF TableInv, TablesAgree
  <2> QED BY <2>1, <2>2
<1>13. RemovedIsClosed'
  <2> SUFFICES ASSUME NEW f \in Fds, Removing(f)
               PROVE  /\ tree'[f] # NoConn /\ f \notin reg'
                      /\ IsOpen(f)' => Opens("reconn")' /\ op'["reconn"].fd = f
    BY <1>6 DEF RemovedIsClosed
  <2>1. t = "reconn"
    BY <1>1 DEF Removing, Main, Threads
  <2>2. ~IsOpen(f) /\ tree[f] # NoConn /\ f \notin reg
    BY <1>5, <2>1 DEF Owns, RemovedIsClosed
  <2> QED BY <1>1, <1>3, <2>2 DEF table, IsOpen
<1>14. Watched'
  <2> SUFFICES ASSUME NEW f \in Fds, tree[f] # NoConn, ~Removing(f)
               PROVE  \/ f \in reg'
                      \/ \E u \in Threads :
                            pc'[u] = "register" /\ op'[u].fd = f /\ op'[u].conn = tree[f]
    BY <1>1, <1>6 DEF Watched, table
  <2>1. CASE op[t].fd = f /\ op[t].conn = tree[f]
    <3>1. g = f
      BY <1>3, <2>1 DEF TableInv, TablesAgree, Keys
    <3>2. IsOpen(f)
      BY DEF Owns, EntriesOwn, IsOpen, Kinds
    <3> QED BY <1>3, <3>1, <3>2
  <2>2. CASE ~(op[t].fd = f /\ op[t].conn = tree[f])
    BY <1>1, <1>3, <2>2 DEF Owns, Watched
  <2> QED BY <2>1, <2>2
<1>15. RegisteredIsOpen'
  <2> SUFFICES ASSUME NEW f \in Fds, f \in reg'
               PROVE  /\ IsOpen(f)
                      /\ tree[f] # NoConn \/ (pc'["main"] = "insert" /\ op'["main"].fd = f)
    BY <1>1 DEF RegisteredIsOpen, table, IsOpen
  <2>1. CASE f \in reg
    BY <1>1, <2>1 DEF Owns, RegisteredIsOpen, Threads
  <2>2. CASE f \notin reg
    <3>1. f = g /\ IsOpen(g)
      BY <1>3, <2>2
    <3>2. CASE t = "main"
      BY <1>12, <3>1, <3>2
    <3>3. CASE t = "reconn"
      <4>1. tree[f] # NoConn \/ \E u \in Threads : Opens(u) /\ op[u].fd = f
        BY <3>1 DEF Owns, NoneLost
      <4> QED BY <1>1, <1>5, <3>1, <3>3, <4>1 DEF Owns, OpensOwn, Opens, Threads
    <3> QED BY <3>2, <3>3 DEF Threads
  <2> QED BY <2>1, <2>2
<1>16. EventsSound' /\ ServedSound'
  BY <1>1, <1>2, <1>7 DEF Owns, EventsSound, ServedSound, Threads
<1> QED BY <1>8, <1>9, <1>10, <1>11, <1>13, <1>14, <1>15, <1>16 DEF Owns

--------------------------------------------------------------------------------
\* What the loop serves stays of the kind its place in the loop is for.
LEMMA KindNext == DescriptorInv /\ [Next]_vars => ServesOwnKind'
<1> SUFFICES ASSUME DescriptorInv, [Next]_vars PROVE ServesOwnKind'
  OBVIOUS
<1> USE ConstantsAssumption DEF ConstantsAssumption, ServesOwnKind
<1>0. /\ ServesOwnKind /\ TypeOK /\ ErrorsHaveDescriptors
      /\ DOMAIN pc = Threads /\ "main" \in Threads /\ "reconn" \in Threads
  BY DEF DescriptorInv, TableInv, TypeInv, TypeOK, ThreadType, Threads
<1>1. ASSUME NEW t \in Threads, Insert(t) PROVE ServesOwnKind'
  BY <1>0, <1>1 DEF Insert, Goto, loop
<1>2. ASSUME NEW t \in Threads, Register(t) PROVE ServesOwnKind'
  BY <1>0, <1>2 DEF Register, Goto, AfterOpen, loop
<1>3. ASSUME NEW t \in Threads, OpenSerial(t) PROVE ServesOwnKind'
  BY <1>0, <1>3 DEF OpenSerial, Goto, loop
<1>4. ASSUME Dispatch PROVE ServesOwnKind'
  <2>1. PICK e \in batch : /\ cur' = e
                            /\ Goto("main", IF e.err THEN "close"
                                            ELSE IF e.fd = ListenFd THEN "accept" ELSE "read")
    BY <1>4 DEF Dispatch
  <2>2. e.err => e.fd \in Fds
    BY <1>0 DEF ErrorsHaveDescriptors
  <2> QED BY <1>0, <2>1, <2>2 DEF Goto
<1>5. ASSUME RegisterPipe PROVE ServesOwnKind'
  BY <1>0, <1>5 DEF RegisterPipe, Goto, NextEvent, Main, loop
<1>6. ASSUME Listen PROVE ServesOwnKind'
  BY <1>0, <1>6 DEF Listen, Goto, NextEvent, Main, loop
<1>7. ASSUME Wait PROVE ServesOwnKind'
  BY <1>0, <1>7 DEF Wait, Goto, NextEvent, Main, loop
<1>8. ASSUME Accept PROVE ServesOwnKind'
  BY <1>0, <1>8 DEF Accept, Goto, NextEvent, Main, loop
<1>9. ASSUME ReadPipe PROVE ServesOwnKind'
  BY <1>0, <1>9 DEF ReadPipe, Goto, NextEvent, Main, loop
<1>10. ASSUME ReadInput PROVE ServesOwnKind'
  BY <1>0, <1>10 DEF ReadInput, Goto, NextEvent, Main, loop
<1>11. ASSUME ReadNothing PROVE ServesOwnKind'
  BY <1>0, <1>11 DEF ReadNothing, Goto, NextEvent, Main, loop
<1>12. ASSUME Close PROVE ServesOwnKind'
  BY <1>0, <1>12 DEF Close, Goto, NextEvent, Main, loop
<1>13. ASSUME EventClose PROVE ServesOwnKind'
  BY <1>0, <1>13 DEF EventClose, Goto, NextEvent, Main, loop
<1>14. ASSUME Command PROVE ServesOwnKind'
  BY <1>0, <1>14 DEF Command, Goto, NextEvent, Main, loop
<1>15. ASSUME Check PROVE ServesOwnKind'
  BY <1>0, <1>15 DEF Check, Goto, NextEvent, Main, loop
<1>16. ASSUME CheckDel PROVE ServesOwnKind'
  BY <1>0, <1>16 DEF CheckDel, Goto, NextEvent, Main, loop
<1>17. ASSUME Beat PROVE ServesOwnKind'
  BY <1>0, <1>17 DEF Beat, Goto, NextEvent, Main, loop
<1>18. ASSUME Alarm PROVE ServesOwnKind'
  BY <1>0, <1>18 DEF Alarm, Goto, NextEvent, Main, loop
<1>19. ASSUME EndTraversal PROVE ServesOwnKind'
  BY <1>0, <1>19 DEF EndTraversal, Goto, NextEvent, Main, loop
<1>20. ASSUME CheckServer PROVE ServesOwnKind'
  BY <1>0, <1>20 DEF CheckServer, Goto, NextEvent, Main, loop
<1>21. ASSUME CheckSerial PROVE ServesOwnKind'
  BY <1>0, <1>21 DEF CheckSerial, Goto, NextEvent, Main, loop
<1>22. ASSUME Socket PROVE ServesOwnKind'
  BY <1>0, <1>22 DEF Socket, Goto, NextEvent, Main, loop
<1>23. ASSUME Connect PROVE ServesOwnKind'
  BY <1>0, <1>23 DEF Connect, Goto, NextEvent, Main, loop
<1>24. ASSUME ConnectFails PROVE ServesOwnKind'
  BY <1>0, <1>24 DEF ConnectFails, Goto, NextEvent, Main, loop
<1>25. ASSUME Tick PROVE ServesOwnKind'
  BY <1>0, <1>25 DEF Tick, Goto, NextEvent, Main, loop
<1>26. ASSUME ClientArrives PROVE ServesOwnKind'
  BY <1>0, <1>26 DEF ClientArrives, Goto, NextEvent, Main, loop
<1>27. ASSUME NEW f \in Fds, PeerActs(f) PROVE ServesOwnKind'
  BY <1>0, <1>27 DEF PeerActs, loop
<1>28. ASSUME UNCHANGED vars PROVE ServesOwnKind'
  BY <1>0, <1>28 DEF vars, loop
<1> QED
  BY <1>1, <1>2, <1>3, <1>4, <1>5, <1>6, <1>7, <1>8, <1>9, <1>10, <1>11, <1>12, <1>13, <1>14, <1>15, <1>16, <1>17, <1>18, <1>19, <1>20, <1>21, <1>22, <1>23, <1>24, <1>25, <1>26, <1>27, <1>28
     DEF Next, MainStep, ReconnStep, OpenStep, World, Threads

\* Every step of either thread keeps the ownership of descriptors, unless the loop
\* acts on a stale event.
LEMMA OwnsNext ==
    ASSUME DescriptorInv, status = "run" /\ Next, ~misfired'
    PROVE  Owns'
<1>0. /\ TableInv /\ TypeOK /\ ServesOwnKind
      /\ DOMAIN pc = Threads /\ "main" \in Threads /\ "reconn" \in Threads
      /\ CmdFd \notin Fds /\ ListenFd \notin Fds
  BY ConstantsAssumption
     DEF ConstantsAssumption, DescriptorInv, TableInv, TypeInv, TypeOK, ThreadType, Threads
<1>1. ~misfired
  BY DEF Next, MainStep, ReconnStep, OpenStep, World, Insert, Register, OpenSerial, RegisterPipe,
         Listen, Wait, Dispatch, Accept, ReadPipe, ReadInput, ReadNothing, Close, EventClose,
         Command, Check, CheckDel, Beat, Alarm, EndTraversal, CheckServer, CheckSerial, Socket,
         Connect, ConnectFails, Tick, ClientArrives, PeerActs
<1>2. Owns
  BY <1>1 DEF DescriptorInv
<1>3. /\ EventsSound /\ ServedSound /\ EntriesOwn /\ RemovedIsClosed /\ RegisteredIsOpen
      /\ pc["main"] # "connect"
  BY <1>2 DEF Owns, OpensOwn
<1>4. ASSUME NEW t \in Threads, Insert(t) PROVE Owns'
  BY <1>0, <1>2, <1>4, InsertOwns
<1>5. ASSUME NEW t \in Threads, Register(t) PROVE Owns'
  BY <1>0, <1>2, <1>5, RegisterOwns
<1>6. ASSUME NEW t \in Threads, OpenSerial(t) PROVE Owns'
  <2>1. CASE \E f \in Fds : OpenFd(t, f, "serial", "up") /\ Goto(t, "insert")
    <3>1. /\ UNCHANGED <<table, reg, batch, cur, at>>
          /\ pc[t] = "openserial"
      BY <1>0, <1>6, <2>1 DEF OpenSerial, Main, loop, NextEvent, Goto
    <3>2. "serial" \in Kinds
      BY DEF Kinds
    <3> QED BY <1>0, <1>2, <2>1, <3>1, <3>2, OpenOwns
  <2>2. CASE UNCHANGED <<desc, op>> /\ Goto(t, IF t = "main" THEN "listen" ELSE "server?")
    <3>1. Quiet
      BY <1>0, <1>3, <1>6, <2>2
         DEF Quiet, OpenSerial, table, kernel, loop, Goto, NextEvent, SameEntry, SameOpening, Opens,
             Removing, Main, EventsSound, ServedSound
    <3> QED BY <1>2, <3>1, QuietOwns
  <2> QED BY <1>6, <2>1, <2>2 DEF OpenSerial
<1>7. ASSUME RegisterPipe PROVE Owns'
  <2>1. Quiet
    BY <1>0, <1>3, <1>7
       DEF Quiet, RegisterPipe, table, kernel, loop, Goto, NextEvent, SameEntry, SameOpening, Opens,
           Removing, Main, EventsSound, ServedSound
  <2> QED BY <1>2, <2>1, QuietOwns
<1>8. ASSUME Listen PROVE Owns'
  <2>1. Quiet
    BY <1>0, <1>3, <1>8
       DEF Quiet, Listen, table, kernel, loop, Goto, NextEvent, SameEntry, SameOpening, Opens,
           Removing, Main, EventsSound, ServedSound
  <2> QED BY <1>2, <2>1, QuietOwns
<1>9. ASSUME Wait PROVE Owns'
  <2>1. PICK S \in SUBSET {f \in ready : HasEvent(f)} :
          batch' = {[fd |-> f, stale |-> FALSE, err |-> f \in Fds /\ desc[f].peer = "err"] : f \in S}
    BY <1>9 DEF Wait
  <2>2. pc["main"] = "next"
    BY <1>9 DEF Wait, Main
  <2>3. ASSUME NEW f \in Fds, f \in reg PROVE Sound(f)
    <3>1. IsOpen(f) /\ tree[f] # NoConn /\ ~Removing(f)
      BY <1>3, <2>2, <2>3 DEF RegisteredIsOpen, Removing, Main
    <3> QED BY <1>2, <3>1 DEF Owns, OpensOwn, Sound
  <2>4. ASSUME NEW e \in batch', e.fd \in Fds PROVE Sound(e.fd)
    <3>1. e.fd \in ready
      BY <2>1, <2>4
    <3> QED BY <1>0, <2>3, <2>4, <3>1 DEF TypeOK, KernelType
  <2>5. Quiet
    BY <1>0, <1>3, <1>9, <2>2, <2>4
       DEF Quiet, Wait, table, SameEntry, SameOpening, Opens, Removing, Main
  <2> QED BY <1>2, <2>5, QuietOwns
<1>10. ASSUME Dispatch PROVE Owns'
  <2>1. Quiet
    BY <1>0, <1>3, <1>10
       DEF Quiet, Dispatch, table, kernel, loop, Goto, NextEvent, SameEntry, SameOpening, Opens,
           Removing, Main, EventsSound, ServedSound
  <2> QED BY <1>2, <2>1, QuietOwns
<1>11. ASSUME Accept PROVE Owns'
  <2>1. CASE \E f \in Fds : OpenFd("main", f, "client", "up") /\ Goto("main", "insert")
    <3>1. /\ UNCHANGED <<table, reg, batch, cur, at>>
          /\ pc["main"] = "accept"
      BY <1>0, <1>11, <2>1 DEF Accept, Main, loop, NextEvent, Goto
    <3>2. "client" \in Kinds
      BY DEF Kinds
    <3> QED BY <1>0, <1>2, <2>1, <3>1, <3>2, OpenOwns
  <2>2. CASE UNCHANGED <<desc, op>> /\ NextEvent
    <3>1. Quiet
      BY <1>0, <1>3, <1>11, <2>2
         DEF Quiet, Accept, table, kernel, loop, Goto, NextEvent, SameEntry, SameOpening, Opens,
             Removing, Main, EventsSound, ServedSound
    <3> QED BY <1>2, <3>1, QuietOwns
  <2> QED BY <1>11, <2>1, <2>2 DEF Accept
<1>12. ASSUME ReadPipe PROVE Owns'
  <2>1. Quiet
    BY <1>0, <1>3, <1>12
       DEF Quiet, ReadPipe, table, kernel, loop, Goto, NextEvent, SameEntry, SameOpening, Opens,
           Removing, Main, EventsSound, ServedSound
  <2> QED BY <1>2, <2>1, QuietOwns
<1>13. ASSUME ReadInput PROVE Owns'
  <2>1. Quiet
    BY <1>0, <1>3, <1>13
       DEF Quiet, ReadInput, table, kernel, loop, Goto, NextEvent, SameEntry, SameOpening, Opens,
           Removing, Main, EventsSound, ServedSound
  <2> QED BY <1>2, <2>1, QuietOwns
<1>14. ASSUME ReadNothing PROVE Owns'
  <2>1. Quiet
    BY <1>0, <1>3, <1>14
       DEF Quiet, ReadNothing, table, kernel, loop, Goto, NextEvent, SameEntry, SameOpening, Opens,
           Removing, Main, EventsSound, ServedSound
  <2> QED BY <1>2, <2>1, QuietOwns
<1>15. ASSUME Close PROVE Owns'
  <2> DEFINE f == cur.fd
  <2>1. /\ pc["main"] = "close" /\ pc'["main"] = "del" /\ pc'["reconn"] = pc["reconn"]
        /\ CloseFd(f) /\ UNCHANGED <<table, op, cur, at>> /\ f \in Fds /\ f \in Keys
        /\ cur.stale => ~IsOpen(f) /\ tree[f] = NoConn
    BY <1>0, <1>15 DEF Close, Main, Goto, Misfires, ServesOwnKind, Keys
  <2>2. CASE cur.stale
    <3>1. \A g \in Fds : desc'[g].kind = desc[g].kind
      BY <1>0, <2>1, <2>2 DEF CloseFd, Closed, IsOpen, TypeOK, KernelType
    <3>2. \A g \in Fds : g \in reg' <=> g \in reg
      BY <1>3, <2>1, <2>2 DEF CloseFd, RegisteredIsOpen
    <3>3. \A e \in batch' : ~e.stale /\ e.fd \in Fds => Sound(e.fd)
      BY <1>0, <1>3, <2>1, CloseMarks DEF EventsSound
    <3>4. Quiet
      BY <1>0, <1>3, <2>1, <2>2, <3>1, <3>2, <3>3
         DEF Quiet, table, SameEntry, SameOpening, Opens, Removing, Main, Threads
    <3> QED BY <1>2, <3>4, QuietOwns
  <2>3. CASE ~cur.stale
    <3>1. Sound(f)
      BY <1>3, <2>1, <2>3 DEF ServedSound
    <3>2. \A g \in Fds : Removing(g)' <=> g = f
      BY <2>1, <2>3 DEF Removing, Main
    <3> QED BY <1>0, <1>2, <2>1, <3>1, <3>2, CloseOwns DEF Sound
  <2> QED BY <2>2, <2>3
<1>16. ASSUME EventClose PROVE Owns'
  <2> DEFINE f == cur.fd
  <2>1. /\ pc["main"] = "del" /\ pc'["main"] = "next" /\ pc'["reconn"] = pc["reconn"]
        /\ UNCHANGED <<desc, reg, batch, op, at>> /\ f \in Fds /\ f \in Keys
        /\ cur.stale => tree[f] = NoConn
    BY <1>0, <1>16 DEF EventClose, Main, Goto, NextEvent, kernel, Misfires, ServesOwnKind, Keys
  <2>2. CASE cur.stale
    <3>1. UNCHANGED table
      BY <1>16, <2>1, <2>2 DEF EventClose
    <3>2. Quiet
      BY <1>0, <1>3, <2>1, <2>2, <3>1
         DEF Quiet, table, SameEntry, SameOpening, Opens, Removing, Main, Threads, EventsSound
    <3> QED BY <1>2, <3>2, QuietOwns
  <2>3. CASE ~cur.stale
    <3>1. \A g \in Fds : Removing(g) <=> g = f
      BY <2>1, <2>3 DEF Removing, Main
    <3>2. tree[f] # NoConn
      BY <1>3, <2>1, <3>1 DEF RemovedIsClosed
    <3>3. Delete(tree[f])
      BY <1>16, <3>2 DEF EventClose
    <3> QED BY <1>0, <1>2, <2>1, <3>1, <3>2, <3>3, DeleteOwns
  <2> QED BY <2>2, <2>3
<1>17. ASSUME Command PROVE Owns'
  <2>1. Quiet
    BY <1>0, <1>3, <1>17
       DEF Quiet, Command, table, kernel, loop, Goto, NextEvent, SameEntry, SameOpening, Opens,
           Removing, Main, ServesOwnKind, EventsSound, ServedSound
  <2> QED BY <1>2, <2>1, QuietOwns
<1>18. ASSUME Check PROVE Owns'
  <2>0. pc["main"] = "check" /\ at # NoConn
    BY <1>18 DEF Check, Main
  <2>1. CASE Expired(at)
    <3>1. PICK f : f = conn[at].fd
      OBVIOUS
    <3>2. /\ CloseFd(f) /\ UNCHANGED <<table, op, at>>
          /\ pc'["main"] = "checkdel" /\ pc'["reconn"] = pc["reconn"]
      BY <1>0, <1>18, <2>1, <3>1 DEF Check, Goto
    <3>3. f \in Keys /\ tree[f] # NoConn
      <4>1. at \in Range(list)
        BY <1>0, <2>0 DEF TableInv, CursorOnList, Traversals
      <4> QED BY <3>1, <4>1 DEF DescriptorInv, TableInv, TablesAgree
    <3>4. \A t \in Threads : Opens(t) => op[t].fd # f
      BY <1>2, <2>0, <3>3 DEF Owns, OpensOwn, Removing, Main
    <3>5. \A g \in Fds : Removing(g)' <=> g = f
      BY <3>1, <3>2 DEF Removing, Main, table
    <3> QED BY <1>0, <1>2, <2>0, <3>2, <3>3, <3>4, <3>5, CloseOwns
  <2>2. CASE ~Expired(at)
    <3>1. Quiet
      BY <1>0, <1>3, <1>18, <2>2
         DEF Quiet, Check, table, kernel, loop, SameEntry, SameOpening, Opens, Removing, Main,
             EventsSound
    <3> QED BY <1>2, <3>1, QuietOwns
  <2> QED BY <2>1, <2>2
<1>19. ASSUME CheckDel PROVE Owns'
  <2>1. /\ pc["main"] = "checkdel" /\ pc'["main"] = "check" /\ pc'["reconn"] = pc["reconn"]
        /\ UNCHANGED <<desc, reg, batch, op>> /\ Delete(at)
    BY <1>0, <1>19 DEF CheckDel, Main, Goto, kernel
  <2>2. PICK f \in Keys : tree[f] = at /\ at # NoConn /\ conn[at].fd = f
    <3>1. at \in Range(list)
      BY <1>0, <2>1 DEF TableInv, TypeInv, CheckedIsEntry, CursorOnList, Traversals
    <3> QED BY <3>1 DEF DescriptorInv, TableInv, TablesAgree
  <2>3. \A g \in Fds : Removing(g) <=> g = f
    BY <2>1, <2>2 DEF Removing, Main
  <2> QED BY <1>0, <1>2, <2>1, <2>2, <2>3, DeleteOwns
<1>20. ASSUME Beat PROVE Owns'
  <2>1. Quiet
    BY <1>0, <1>3, <1>20
       DEF Quiet, Beat, table, kernel, loop, Goto, NextEvent, SameEntry, SameOpening, Opens,
           Removing, Main, EventsSound, ServedSound
  <2> QED BY <1>2, <2>1, QuietOwns
<1>21. ASSUME Alarm PROVE Owns'
  <2>1. Quiet
    BY <1>0, <1>3, <1>21
       DEF Quiet, Alarm, table, kernel, loop, Goto, NextEvent, SameEntry, SameOpening, Opens,
           Removing, Main, EventsSound, ServedSound
  <2> QED BY <1>2, <2>1, QuietOwns
<1>22. ASSUME EndTraversal PROVE Owns'
  <2>1. Quiet
    BY <1>0, <1>3, <1>22
       DEF Quiet, EndTraversal, table, kernel, loop, Goto, NextEvent, SameEntry, SameOpening, Opens,
           Removing, Main, EventsSound, ServedSound
  <2> QED BY <1>2, <2>1, QuietOwns
<1>23. ASSUME CheckServer PROVE Owns'
  <2>1. Quiet
    BY <1>0, <1>3, <1>23
       DEF Quiet, CheckServer, table, kernel, loop, Goto, NextEvent, SameEntry, SameOpening, Opens,
           Removing, Main, EventsSound, ServedSound
  <2> QED BY <1>2, <2>1, QuietOwns
<1>24. ASSUME CheckSerial PROVE Owns'
  <2>1. Quiet
    BY <1>0, <1>3, <1>24
       DEF Quiet, CheckSerial, table, kernel, loop, Goto, NextEvent, SameEntry, SameOpening, Opens,
           Removing, Main, EventsSound, ServedSound
  <2> QED BY <1>2, <2>1, QuietOwns
<1>25. ASSUME Socket PROVE Owns'
  <2>1. CASE \E f \in Fds : OpenFd("reconn", f, "server", "none") /\ Goto("reconn", "connect")
    <3>1. /\ UNCHANGED <<table, reg, batch, cur, at>>
          /\ pc["reconn"] = "socket"
      BY <1>0, <1>25, <2>1 DEF Socket, Main, loop, NextEvent, Goto
    <3>2. "server" \in Kinds
      BY DEF Kinds
    <3> QED BY <1>0, <1>2, <2>1, <3>1, <3>2, OpenOwns
  <2>2. CASE UNCHANGED <<desc, op>> /\ Goto("reconn", "serial?")
    <3>1. Quiet
      BY <1>0, <1>3, <1>25, <2>2
         DEF Quiet, Socket, table, kernel, loop, Goto, NextEvent, SameEntry, SameOpening, Opens,
             Removing, Main, EventsSound, ServedSound
    <3> QED BY <1>2, <3>1, QuietOwns
  <2> QED BY <1>25, <2>1, <2>2 DEF Socket
<1>26. ASSUME Connect PROVE Owns'
  <2>1. \A f \in Fds : desc'[f].kind = desc[f].kind
    BY <1>0, <1>26 DEF Connect, Opened, TypeOK, KernelType
  <2>2. Quiet
    BY <1>0, <1>3, <1>26, <2>1
       DEF Quiet, Connect, table, kernel, loop, Goto, SameEntry, SameOpening, Opens, Removing, Main,
           EventsSound, ServedSound
  <2> QED BY <1>2, <2>2, QuietOwns
<1>27. ASSUME ConnectFails PROVE Owns'
  BY <1>0, <1>2, <1>27, FailOwns
<1>28. ASSUME Tick PROVE Owns'
  <2>1. \A f \in Fds : SameEntry(tree[f]) \/ tree[f] = NoConn
    BY <1>0, <1>28 DEF Tick, SameEntry, TypeOK, TableType, Keys
  <2>2. pc["main"] = "checkdel" => conn'[at].fd = conn[at].fd
    <3>1. pc["main"] = "checkdel" => at \in Conns
      BY <1>0 DEF TableInv, TypeInv, CheckedIsEntry, TypeOK, LoopType
    <3> QED BY <1>0, <1>28, <3>1 DEF Tick, TypeOK, TableType
  <2>3. Quiet
    BY <1>0, <1>3, <1>28, <2>1, <2>2
       DEF Quiet, Tick, loop, SameOpening, Opens, Removing, Main, EventsSound, ServedSound
  <2> QED BY <1>2, <2>3, QuietOwns
<1>29. ASSUME ClientArrives PROVE Owns'
  <2>1. Quiet
    BY <1>0, <1>3, <1>29
       DEF Quiet, ClientArrives, table, kernel, loop, Goto, NextEvent, SameEntry, SameOpening, Opens,
           Removing, Main, EventsSound, ServedSound
  <2> QED BY <1>2, <2>1, QuietOwns
<1>30. ASSUME NEW f \in Fds, PeerActs(f) PROVE Owns'
  <2>1. \A g \in Fds : desc'[g].kind = desc[g].kind
    BY <1>0, <1>30 DEF PeerActs, TypeOK, KernelType
  <2>2. Quiet
    BY <1>0, <1>3, <1>30, <2>1
       DEF Quiet, PeerActs, table, loop, SameEntry, SameOpening, Opens, Removing, Main, EventsSound,
           ServedSound
  <2> QED BY <1>2, <2>2, QuietOwns
<1> QED
  BY <1>0, <1>4, <1>5, <1>6, <1>7, <1>8, <1>9, <1>10, <1>11, <1>12, <1>13, <1>14, <1>15,
     <1>16, <1>17, <1>18, <1>19, <1>20, <1>21, <1>22, <1>23, <1>24, <1>25, <1>26, <1>27,
     <1>28, <1>29, <1>30
     DEF Next, MainStep, ReconnStep, OpenStep, World

\* The invariant holds throughout.
LEMMA DescriptorsHold == Spec => []DescriptorInv
<1>1. ASSUME DescriptorInv, [Next]_vars PROVE DescriptorInv'
  <2>1. TableInv' /\ ServesOwnKind'
    BY <1>1, TableNext, KindNext DEF DescriptorInv
  <2>2. CASE Next
    <3>1. ~misfired' => Owns'
      BY <1>1, <2>2, OwnsNext DEF Next
    <3> QED BY <2>1, <3>1 DEF DescriptorInv
  <2>3. CASE UNCHANGED vars
    BY <1>1, <2>1, <2>3
       DEF vars, table, kernel, loop, DescriptorInv, Owns, OpensOwn, MainKeepsEntry, EntriesOwn,
           NoneLost, RemovedIsClosed, Watched, RegisteredIsOpen, EventsSound, ServedSound, Opens,
           Removing, Main, Sound, IsOpen
  <2> QED BY <1>1, <2>2, <2>3
<1> QED BY <1>1, DescriptorInit, PTL DEF Spec

\* Until the loop has acted on an event of a descriptor closed since, an entry of the
\* table owns the descriptor it is filed under, which is of its type: the lookups by
\* number (event.c:37,142) find the connection that is meant, however the two threads
\* close and reopen numbers.
THEOREM EntriesOwnDescriptors == Spec => []EntryOwnsDescriptor
<1>1. DescriptorInv => EntryOwnsDescriptor
  BY DEF DescriptorInv, Owns, EntriesOwn, EntryOwnsDescriptor, Removing, Closing
<1> QED BY <1>1, DescriptorsHold, PTL

\* So long, no descriptor leaks: what accept, openclient or open returned is closed, in
\* the table, or held by the thread that is about to put it there (eventhub.c:98-115,
\* reconn.c:17-45).
THEOREM DescriptorsNeverLeak == Spec => []NoLeak
<1>1. DescriptorInv => NoLeak
  BY DEF DescriptorInv, Owns, NoneLost, NoLeak, Opens, Opening
<1> QED BY <1>1, DescriptorsHold, PTL

\* And every connection is watched: its descriptor is registered with epoll, or the
\* thread that opened it is about to do so (eventhub.c:41-49).
THEOREM ConnectionsMonitored == Spec => []Monitored
<1>1. DescriptorInv => Monitored
  BY DEF DescriptorInv, Owns, Watched, Monitored, Removing, Closing
<1> QED BY <1>1, DescriptorsHold, PTL

--------------------------------------------------------------------------------
(* Edge-triggered epoll.                                                     *)

\* Between events the loop serves nothing but the listening socket.
ServesNothing == pc["main"] \notin Serving => cur.fd \in {0, ListenFd}

\* epoll reports an event of f once more, or the loop has it, and has not yet closed f.
Known(f) ==
    \/ f \in ready
    \/ cur.fd = f /\ pc["main"] # "del"
    \/ \E e \in batch : e.fd = f
EventsKnown == \A f \in reg \ {ListenFd} : HasEvent(f) => Known(f)

InputInv == TypeInv /\ ServesNothing /\ EventsKnown

\* close() keeps the events of the other descriptors.
LEMMA CloseKnows ==
    ASSUME TypeOK, EventsKnown, NEW f, CloseFd(f), UNCHANGED <<cur, cmds>>,
           cur.fd = f \/ pc["main"] = "del" \/ pc'["main"] # "del"
    PROVE  EventsKnown'
<1> SUFFICES ASSUME NEW g \in reg', g # ListenFd, HasEvent(g)' PROVE Known(g)'
  BY DEF EventsKnown
<1>1. g \in reg /\ g # f
  BY DEF CloseFd
<1>2. HasEvent(g)
  BY <1>1, ConstantsAssumption DEF ConstantsAssumption, HasEvent, CloseFd, TypeOK, KernelType
<1>3. Known(g)
  BY <1>1, <1>2 DEF EventsKnown
<1>4. ASSUME NEW e \in batch, e.fd = g PROVE \E d \in batch' : d.fd = g
  <2>1. [e EXCEPT !.stale = @ \/ (e.fd = f /\ IsOpen(f))] \in batch'
    BY DEF CloseFd
  <2>2. e \in Event
    BY DEF TypeOK, LoopType
  <2> QED BY <1>4, <2>1, <2>2 DEF Event
<1> QED BY <1>1, <1>3, <1>4 DEF Known, CloseFd

\* Every step leaves each event with epoll or with the loop.
LEMMA InputNext == InputInv /\ [Next]_vars => InputInv'
<1> SUFFICES ASSUME InputInv, [Next]_vars PROVE ServesNothing' /\ EventsKnown'
  BY TypeNext DEF InputInv
<1>0. /\ TypeOK /\ ServesNothing /\ EventsKnown /\ ServedIsKey
      /\ DOMAIN pc = Threads /\ "main" \in Threads /\ "reconn" \in Threads /\ "main" # "reconn"
      /\ CmdFd \notin Fds /\ ListenFd \notin Fds /\ CmdFd # ListenFd
      /\ CmdFd # 0 /\ ListenFd # 0 /\ 0 \notin Fds
      /\ reg \subseteq Fds \cup {CmdFd, ListenFd}
  BY ConstantsAssumption
     DEF ConstantsAssumption, InputInv, TypeInv, TypeOK, KernelType, ThreadType, Threads
<1>1. ASSUME NEW t \in Threads, Insert(t) PROVE ServesNothing' /\ EventsKnown'
  BY <1>0, <1>1
     DEF Insert, Goto, NextEvent, NoEvent, Main, loop, kernel, ServesNothing, Serving, EventsKnown, Known,
         HasEvent
<1>2. ASSUME NEW t \in Threads, Register(t) PROVE ServesNothing' /\ EventsKnown'
  BY <1>0, <1>2
     DEF Register, Goto, NextEvent, NoEvent, Main, loop, kernel, ServesNothing, Serving, EventsKnown, Known,
         HasEvent, AfterOpen, IsOpen
<1>3. ASSUME NEW t \in Threads, OpenSerial(t) PROVE ServesNothing' /\ EventsKnown'
  <2>1. ServesNothing'
    BY <1>0, <1>3 DEF OpenSerial, Goto, NextEvent, NoEvent, Main, loop, ServesNothing, Serving
  <2>2. UNCHANGED <<reg, batch, cmds>> /\ (ready' = ready \/ ready' = ready \ {ListenFd})
    BY <1>3 DEF OpenSerial, loop, StillReady
  <2>3. \A f \in Keys : HasEvent(f)' => HasEvent(f)
    BY <1>0, <1>3 DEF OpenSerial, OpenFd, Opened, HasEvent, Keys, TypeOK, KernelType
  <2>4. EventsKnown'
    BY <1>0, <1>3, <2>2, <2>3
       DEF OpenSerial, Goto, NextEvent, NoEvent, Main, loop, EventsKnown, Known, ServesNothing, Serving, Keys
  <2> QED BY <2>1, <2>4
<1>4. ASSUME RegisterPipe PROVE ServesNothing' /\ EventsKnown'
  BY <1>0, <1>4
     DEF RegisterPipe, Goto, NextEvent, NoEvent, Main, loop, kernel, ServesNothing, Serving, EventsKnown, Known,
         HasEvent
<1>5. ASSUME Listen PROVE ServesNothing' /\ EventsKnown'
  BY <1>0, <1>5
     DEF Listen, Goto, NextEvent, NoEvent, Main, loop, kernel, ServesNothing, Serving, EventsKnown, Known,
         HasEvent
<1>6. ASSUME Wait PROVE ServesNothing' /\ EventsKnown'
  <2>1. PICK S \in SUBSET {f \in ready : HasEvent(f)} :
          /\ batch' = {[fd |-> f, stale |-> FALSE, err |-> f \in Fds /\ desc[f].peer = "err"] : f \in S}
          /\ ready' = ready \ S
    BY <1>6 DEF Wait
  <2>2. batch = {} /\ UNCHANGED <<desc, reg, cmds, backlog, pc, cur>>
    BY <1>6 DEF Wait
  <2>3. ASSUME NEW f \in S PROVE \E e \in batch' : e.fd = f
    <3>1. [fd |-> f, stale |-> FALSE, err |-> f \in Fds /\ desc[f].peer = "err"] \in batch'
      BY <2>1
    <3> QED BY <3>1
  <2> QED BY <1>0, <2>1, <2>2, <2>3 DEF ServesNothing, EventsKnown, Known, HasEvent
<1>7. ASSUME Dispatch PROVE ServesNothing' /\ EventsKnown'
  BY <1>0, <1>7
     DEF Dispatch, Goto, NextEvent, NoEvent, Main, loop, kernel, ServesNothing, Serving, EventsKnown, Known,
         HasEvent
<1>8. ASSUME Accept PROVE ServesNothing' /\ EventsKnown'
  <2>1. ServesNothing'
    BY <1>0, <1>8 DEF Accept, Goto, NextEvent, NoEvent, Main, loop, ServesNothing, Serving
  <2>2. UNCHANGED <<reg, batch, cmds>> /\ (ready' = ready \/ ready' = ready \ {ListenFd})
    BY <1>8 DEF Accept, loop, StillReady
  <2>3. \A f \in Keys : HasEvent(f)' => HasEvent(f)
    BY <1>0, <1>8 DEF Accept, OpenFd, Opened, HasEvent, Keys, TypeOK, KernelType
  <2>4. EventsKnown'
    BY <1>0, <1>8, <2>2, <2>3
       DEF Accept, Goto, NextEvent, NoEvent, Main, loop, EventsKnown, Known, ServesNothing, Serving, Keys
  <2> QED BY <2>1, <2>4
<1>9. ASSUME ReadPipe PROVE ServesNothing' /\ EventsKnown'
  BY <1>0, <1>9
     DEF ReadPipe, Goto, NextEvent, NoEvent, Main, loop, kernel, ServesNothing, Serving, EventsKnown, Known,
         HasEvent, StillReady
<1>10. ASSUME ReadInput PROVE ServesNothing' /\ EventsKnown'
  <2>0. PICK f : f = cur.fd
    OBVIOUS
  <2>1. /\ f = cur.fd /\ f \in Fds
        /\ ready' = ready \/ ready' = ready \ {f}
        /\ \A g \in Fds : g # f => desc'[g] = desc[g]
    BY <1>0, <1>10, <2>0 DEF ReadInput, StillReady, TypeOK, KernelType
  <2>2. /\ UNCHANGED <<reg, batch, cur, cmds, backlog>>
        /\ pc["main"] = "read" /\ pc'["main"] \in {"read", "alarm"}
    BY <1>0, <1>10 DEF ReadInput, Goto, Main
  <2>3. \A g \in Keys : g # f => (HasEvent(g)' <=> HasEvent(g))
    BY <1>0, <2>1, <2>2 DEF HasEvent, Keys, TypeOK, KernelType
  <2> QED BY <1>0, <2>1, <2>2, <2>3 DEF ServesNothing, Serving, EventsKnown, Known, Keys
<1>11. ASSUME ReadNothing PROVE ServesNothing' /\ EventsKnown'
  BY <1>0, <1>11
     DEF ReadNothing, Goto, NextEvent, NoEvent, Main, loop, kernel, ServesNothing, Serving, EventsKnown, Known,
         HasEvent
<1>12. ASSUME Close PROVE ServesNothing' /\ EventsKnown'
  <2>1. /\ pc["main"] = "close" /\ pc'["main"] = "del" /\ CloseFd(cur.fd)
        /\ UNCHANGED <<cur, cmds>>
    BY <1>0, <1>12 DEF Close, Main, Goto
  <2>2. cur.fd \in Keys
    BY <1>0, <2>1 DEF ServedIsKey, Serving
  <2>3. EventsKnown'
    BY <1>0, <2>1, <2>2, CloseKnows
  <2> QED BY <2>1, <2>3 DEF ServesNothing, Serving
<1>13. ASSUME EventClose PROVE ServesNothing' /\ EventsKnown'
  BY <1>0, <1>13
     DEF EventClose, Goto, NextEvent, NoEvent, Main, loop, kernel, ServesNothing, Serving, EventsKnown, Known,
         HasEvent
<1>14. ASSUME Command PROVE ServesNothing' /\ EventsKnown'
  BY <1>0, <1>14
     DEF Command, Goto, NextEvent, NoEvent, Main, loop, kernel, ServesNothing, Serving, EventsKnown, Known,
         HasEvent
<1>15. ASSUME Check PROVE ServesNothing' /\ EventsKnown'
  <2>1. CASE Expired(at)
    <3>1. /\ pc["main"] = "check" /\ pc'["main"] = "checkdel" /\ CloseFd(conn[at].fd)
          /\ UNCHANGED <<cur, cmds>>
      BY <1>0, <1>15, <2>1 DEF Check, Main, Goto
    <3>2. conn[at].fd \in Keys \cup {0}
      BY <1>0, <1>15 DEF Check, TypeOK, TableType, LoopType
    <3>3. EventsKnown'
      BY <1>0, <3>1, <3>2, CloseKnows
    <3> QED BY <3>1, <3>3 DEF ServesNothing, Serving
  <2>2. CASE ~Expired(at)
    BY <1>0, <1>15, <2>2
       DEF Check, Main, ServesNothing, EventsKnown, Known, HasEvent
  <2> QED BY <2>1, <2>2
<1>16. ASSUME CheckDel PROVE ServesNothing' /\ EventsKnown'
  BY <1>0, <1>16
     DEF CheckDel, Goto, NextEvent, NoEvent, Main, loop, kernel, ServesNothing, Serving, EventsKnown, Known,
         HasEvent
<1>17. ASSUME Beat PROVE ServesNothing' /\ EventsKnown'
  BY <1>0, <1>17
     DEF Beat, Goto, NextEvent, NoEvent, Main, loop, kernel, ServesNothing, Serving, EventsKnown, Known,
         HasEvent
<1>18. ASSUME Alarm PROVE ServesNothing' /\ EventsKnown'
  BY <1>0, <1>18
     DEF Alarm, Goto, NextEvent, NoEvent, Main, loop, kernel, ServesNothing, Serving, EventsKnown, Known,
         HasEvent
<1>19. ASSUME EndTraversal PROVE ServesNothing' /\ EventsKnown'
  BY <1>0, <1>19
     DEF EndTraversal, Goto, NextEvent, NoEvent, Main, loop, kernel, ServesNothing, Serving, EventsKnown, Known,
         HasEvent
<1>20. ASSUME CheckServer PROVE ServesNothing' /\ EventsKnown'
  BY <1>0, <1>20
     DEF CheckServer, Goto, NextEvent, NoEvent, Main, loop, kernel, ServesNothing, Serving, EventsKnown, Known,
         HasEvent
<1>21. ASSUME CheckSerial PROVE ServesNothing' /\ EventsKnown'
  BY <1>0, <1>21
     DEF CheckSerial, Goto, NextEvent, NoEvent, Main, loop, kernel, ServesNothing, Serving, EventsKnown, Known,
         HasEvent
<1>22. ASSUME Socket PROVE ServesNothing' /\ EventsKnown'
  <2>1. ServesNothing'
    BY <1>0, <1>22 DEF Socket, Goto, NextEvent, NoEvent, Main, loop, ServesNothing, Serving
  <2>2. UNCHANGED <<reg, batch, cmds>> /\ (ready' = ready \/ ready' = ready \ {ListenFd})
    BY <1>22 DEF Socket, loop, StillReady
  <2>3. \A f \in Keys : HasEvent(f)' => HasEvent(f)
    BY <1>0, <1>22 DEF Socket, OpenFd, Opened, HasEvent, Keys, TypeOK, KernelType
  <2>4. EventsKnown'
    BY <1>0, <1>22, <2>2, <2>3
       DEF Socket, Goto, NextEvent, NoEvent, Main, loop, EventsKnown, Known, ServesNothing, Serving, Keys
  <2> QED BY <2>1, <2>4
<1>23. ASSUME Connect PROVE ServesNothing' /\ EventsKnown'
  <2>1. \A f \in Keys : HasEvent(f)' => HasEvent(f)
    BY <1>0, <1>23 DEF Connect, Opened, HasEvent, Keys, TypeOK, KernelType
  <2> QED
    BY <1>0, <1>23, <2>1 DEF Connect, Goto, loop, ServesNothing, Serving, EventsKnown, Known, Keys
<1>24. ASSUME ConnectFails PROVE ServesNothing' /\ EventsKnown'
  <2>1. /\ CloseFd(op["reconn"].fd) /\ UNCHANGED <<cur, cmds>> /\ pc'["main"] = pc["main"]
    BY <1>0, <1>24 DEF ConnectFails, Goto
  <2>2. op["reconn"].fd \in Keys \cup {0}
    BY <1>0 DEF TypeOK, ThreadType, Operation, Keys
  <2>3. EventsKnown'
    BY <1>0, <2>1, <2>2, CloseKnows
  <2> QED BY <1>0, <2>1, <2>3 DEF ServesNothing
<1>25. ASSUME Tick PROVE ServesNothing' /\ EventsKnown'
  BY <1>0, <1>25
     DEF Tick, Goto, NextEvent, NoEvent, Main, loop, kernel, ServesNothing, Serving, EventsKnown, Known,
         HasEvent, Wake
<1>26. ASSUME ClientArrives PROVE ServesNothing' /\ EventsKnown'
  BY <1>0, <1>26
     DEF ClientArrives, Goto, NextEvent, NoEvent, Main, loop, kernel, ServesNothing, Serving, EventsKnown, Known,
         HasEvent, Wake
<1>27. ASSUME NEW f \in Fds, PeerActs(f) PROVE ServesNothing' /\ EventsKnown'
  <2>1. /\ \A g \in Keys : g # f => (HasEvent(g)' <=> HasEvent(g))
        /\ ready' = ready \cup ({f} \cap reg) /\ UNCHANGED <<reg, batch, cur, pc>>
    BY <1>0, <1>27 DEF PeerActs, HasEvent, Wake, Keys, TypeOK, KernelType, loop
  <2> QED BY <1>0, <2>1 DEF ServesNothing, EventsKnown, Known, Keys
<1>28. ASSUME UNCHANGED vars PROVE ServesNothing' /\ EventsKnown'
  BY <1>0, <1>28 DEF vars, kernel, loop, ServesNothing, EventsKnown, Known, HasEvent
<1> QED
  BY <1>0, <1>1, <1>2, <1>3, <1>4, <1>5, <1>6, <1>7, <1>8, <1>9, <1>10, <1>11,
     <1>12, <1>13, <1>14, <1>15, <1>16, <1>17, <1>18, <1>19, <1>20, <1>21, <1>22, <1>23,
     <1>24, <1>25, <1>26, <1>27, <1>28
     DEF Next, MainStep, ReconnStep, OpenStep, World

\* Edge-triggered epoll strands nothing, stale events or not: a registered descriptor
\* whose input, end of file or error is still to be read is on epoll's ready list, in
\* the batch, or being served (eventhub.c:116-120).
THEOREM NoInputIsStranded == Spec => []InputNotStranded
<1>1. Init => InputInv
  BY InitType DEF Init, InputInv, ServesNothing, EventsKnown, NoEvent
<1>2. InputInv => InputNotStranded
  BY DEF InputInv, EventsKnown, Known, InputNotStranded
<1> QED BY <1>1, InputNext, <1>2, PTL DEF Spec

================================================================================
