-------------------------------- MODULE Gateway --------------------------------
(***************************************************************************)
(* The connection life cycle of the gateway process: the event loop        *)
(* (eventhub.c, event.c), the reconnect thread (reconn.c), the timer's     *)
(* commands (cetimer.c), the connection table they share (connection.c)    *)
(* and the kernel's descriptors and edge-triggered epoll under them.       *)
(*                                                                         *)
(* Nothing in the program is locked.  A step is one system call or one     *)
(* operation of the connection table, so the two threads interleave        *)
(* between any two of these; the table operation itself is taken as atomic *)
(* here.                                                                   *)
(***************************************************************************)
EXTENDS Integers, Sequences, FiniteSets

CONSTANTS Fds,        \* descriptor numbers open, accept and socket hand out
          CmdFd,      \* the read end of the timer's command pipe
          ListenFd,   \* the listening socket
          Conns,      \* connection structures (a bound: enough for every use)
          CmdConn,    \* the structure createpipe gets for the command pipe
          NoConn,     \* a null pointer to one
          Timeout,    \* ceconf_gettimeout(), in ticks
          MaxEvents,  \* MAXEVENTS, the size of an epoll_wait batch
          MaxIn,      \* bound: reads' worth of input pending on a descriptor
          MaxBacklog, \* bound: clients waiting in the listen queue
          Minutes,    \* bound: whether the clock passes a full minute
          HasSerialPort \* whether the serial device can be opened

ASSUME ConstantsAssumption ==
    /\ IsFiniteSet(Fds) /\ Fds \subseteq Nat \ {0}
    /\ CmdFd \in Nat \ ({0} \cup Fds)
    /\ ListenFd \in Nat \ ({0, CmdFd} \cup Fds)
    /\ CmdConn \in Conns /\ NoConn \notin Conns
    /\ Timeout \in Nat
    /\ MaxEvents \in Nat \ {0}
    /\ MaxIn \in Nat
    /\ MaxBacklog \in Nat
    /\ Minutes \in BOOLEAN /\ HasSerialPort \in BOOLEAN

VARIABLES
    tree,      \* connrbtreeroot: descriptor -> connection, or NoConn
    list,      \* connlisthead
    free,      \* freeconnlisthead
    conn,      \* struct connection: fd, type and age since its timestamp (the
               \* age is kept for sockets only: nothing else reads it)
    desc,      \* the kernel's descriptor table
    reg,       \* descriptors registered with epoll
    ready,     \* epoll's ready list
    cmds,      \* commands in the timer's pipe: "C" check, "B" heartbeat
    backlog,   \* clients waiting to be accepted
    listening, \* eventhub_start has listened
    pc,        \* where each thread is
    op,        \* the descriptor each thread is opening, its kind, its structure
    batch,     \* events returned by epoll_wait and not yet looked at
    cur,       \* events[i]
    todo,      \* commands read and not yet carried out
    at, nxt,   \* pos and n of list_for_each_safe
    status,    \* "run", or what ended the process
    misfired   \* history: the loop acted on an event of a descriptor closed since

table == <<tree, list, free, conn>>
kernel == <<desc, reg, ready, cmds, backlog, listening>>
loop == <<batch, cur, todo, at, nxt>>
vars == <<table, kernel, pc, op, loop, status, misfired>>

Threads == {"main", "reconn"}
Keys == Fds \cup {CmdFd}
Kinds == {"client", "server", "serial"}
Sockets == {"client", "server"}     \* CONNSOCKETCLIENT, CONNSOCKETSERVER
Types == Kinds \cup {"cmd", "free"}
Ages == 0 .. Timeout + 1            \* saturating: Timeout + 1 is "too old"

\* A descriptor: what it is, whether its other end is there, and its input.
Closed == [kind |-> "none", peer |-> "none", inq |-> 0]
Opened(k, p) == [kind |-> k, peer |-> p, inq |-> 0]
IsOpen(f) == f \in Fds /\ desc[f].kind # "none"
HasEvent(f) == CASE f = CmdFd -> cmds # {}
                 [] f = ListenFd -> backlog > 0
                 [] OTHER -> desc[f].inq > 0 \/ desc[f].peer \in {"eof", "err"}

\* The kernel hands out the lowest free descriptor.
FreeFds == {f \in Fds : desc[f] = Closed}
IsLowest(f) == f \in FreeFds /\ \A g \in FreeFds : f <= g

Blank == [fd |-> 0, type |-> "free", age |-> 0]
NoOp == [fd |-> 0, kind |-> "free", conn |-> NoConn]
\* The ready list when f may have lost its last event: epoll_wait drops a
\* descriptor it finds without one.
StillReady(f, more) == ready' = IF more THEN ready ELSE ready \ {f}

NoEvent == [fd |-> 0, err |-> FALSE, stale |-> FALSE]

Goto(t, l) == pc' = [pc EXCEPT ![t] = l]
Wake(S) == ready' = ready \cup (S \cap reg)
Listed == {list[i] : i \in DOMAIN list}

\* The connection after c on connlisthead, NoConn at its end.
After(l, c) == IF \E i \in 1 .. Len(l) - 1 : l[i] = c
               THEN l[(CHOOSE i \in 1 .. Len(l) - 1 : l[i] = c) + 1]
               ELSE NoConn
First(l) == IF l = << >> THEN NoConn ELSE l[1]

\* list_del
Without(l, c) ==
    IF \E i \in DOMAIN l : l[i] = c
    THEN LET k == CHOOSE i \in DOMAIN l : l[i] = c
         IN [i \in 1 .. Len(l) - 1 |-> IF i < k THEN l[i] ELSE l[i + 1]]
    ELSE l

FreeListed == {free[i] : i \in DOMAIN free}
Held == {op[t].conn : t \in Threads}
Unused == Conns \ (Listed \cup FreeListed \cup Held)

\* freeconnlist_getconn: the first free structure, or a new one.
Spare == IF free = << >> THEN Unused ELSE {Head(free)}

\* connlist_check
Has(type) == \E c \in Listed : conn[c].type = type

\* (slip: epoll keeps what it had found ready)
CloseFdKeepsReady(f) ==
    /\ desc' = [desc EXCEPT ![f] = Closed]
    /\ reg' = reg \ {f}
    /\ batch' = {[e EXCEPT !.stale = @ \/ (e.fd = f /\ IsOpen(f))] : e \in batch}
    /\ UNCHANGED ready

\* close(f): the descriptor is free again and epoll forgets it; the events
\* already returned for it stay in the batch and are marked.
CloseFd(f) ==
    /\ desc' = [desc EXCEPT ![f] = Closed]
    /\ reg' = reg \ {f}
    /\ ready' = ready \ {f}
    /\ batch' = {[e EXCEPT !.stale = @ \/ (e.fd = f /\ IsOpen(f))] : e \in batch}

\* (slip: the structure is freed without leaving the list)
DeleteKeepsListed(c) ==
    /\ tree' = [f \in Keys |-> IF tree[f] = c THEN NoConn ELSE tree[f]]
    /\ free' = Append(free, c)
    /\ conn' = [conn EXCEPT ![c] = [Blank EXCEPT !.fd = IF c \in Held THEN conn[c].fd ELSE 0]]
    /\ UNCHANGED list

\* connrbtree_del: rb_erase, list_del_init, freeconnlist_add.  (The structure
\* keeps its fields until freeconnlist_getconn clears them.  Only a thread that
\* still points at it reads one before that, Register its descriptor number; so
\* what nobody can read is cleared here.)
Delete(c) ==
    /\ tree' = [f \in Keys |-> IF tree[f] = c THEN NoConn ELSE tree[f]]
    /\ list' = Without(list, c)
    /\ free' = Append(free, c)
    /\ conn' = [conn EXCEPT ![c] = [Blank EXCEPT !.fd = IF c \in Held THEN conn[c].fd ELSE 0]]

\* An open with the lowest free descriptor.
OpenFd(t, f, kind, peer) ==
    /\ IsLowest(f)
    /\ desc' = [desc EXCEPT ![f] = Opened(kind, peer)]
    /\ op' = [op EXCEPT ![t] = [fd |-> f, kind |-> kind, conn |-> NoConn]]

\* The event at hand belongs to a descriptor that was closed after epoll_wait
\* returned it, and what now bears its number is about to suffer for it.
Misfires == cur.stale /\ (IsOpen(cur.fd) \/ tree[cur.fd] # NoConn)

\* At reconn_start: createpipe has put the command pipe's connection in the
\* table (main.c:23) and nothing is registered yet.
Init ==
    /\ tree = [f \in Keys |-> IF f = CmdFd THEN CmdConn ELSE NoConn]
    /\ list = <<CmdConn>>
    /\ free = << >>
    /\ conn = [c \in Conns |-> IF c = CmdConn THEN [fd |-> CmdFd, type |-> "cmd", age |-> 0]
                            ELSE Blank]
    /\ desc = [f \in Fds |-> Closed]
    /\ reg = {} /\ ready = {} /\ cmds = {}
    /\ backlog = 0 /\ listening = FALSE
    /\ pc = [t \in Threads |-> IF t = "main" THEN "boot" ELSE "server?"]
    /\ op = [t \in Threads |-> NoOp]
    /\ batch = {} /\ cur = NoEvent /\ todo = {}
    /\ at = NoConn /\ nxt = NoConn
    /\ status = "run" /\ misfired = FALSE

--------------------------------------------------------------------------------
(***************************************************************************)
(* Opening a connection: what connectserver, connserialport and the accept *)
(* loop do with a fresh descriptor, in either thread.                      *)
(***************************************************************************)

\* Where each thread goes on when it has a connection, or failed to get one.
AfterOpen(t) == CASE t = "main" /\ op[t].kind = "client" -> "accept"
                  [] t = "main" /\ op[t].kind # "client" -> "listen"
                  [] t = "reconn" /\ op[t].kind = "server" -> "serial?"
                  [] OTHER -> "server?"

\* freeconnlist_getconn, connection_init and connrbtree_insert with its assert(0).
Insert(t) ==
    /\ pc[t] = "insert"
    /\ LET f == op[t].fd
       IN \E c \in Spare :
             /\ conn' = [conn EXCEPT ![c] = [fd |-> f, type |-> op[t].kind, age |-> 0]]
             /\ free' = IF free = << >> THEN free ELSE Tail(free)
             /\ op' = [op EXCEPT ![t].conn = c]
             /\ IF tree[f] # NoConn
                THEN /\ status' = "assert in connrbtree_insert"
                     /\ UNCHANGED <<tree, list, pc>>
                ELSE /\ tree' = [tree EXCEPT ![f] = c]
                     /\ list' = Append(list, c)
                     /\ Goto(t, "register")
                     /\ UNCHANGED status
    /\ UNCHANGED <<kernel, loop, misfired>>

\* (slip: an accepted client is left out)
RegisterOwnOnly(t) ==
    /\ pc[t] = "register"
    /\ IF op[t].kind # "client"
       THEN /\ reg' = reg \cup {op[t].fd}
            /\ ready' = IF HasEvent(op[t].fd) THEN ready \cup {op[t].fd} ELSE ready
       ELSE UNCHANGED <<reg, ready>>
    /\ Goto(t, AfterOpen(t))
    /\ op' = [op EXCEPT ![t] = NoOp]
    /\ UNCHANGED <<table, desc, cmds, backlog, listening, loop, status, misfired>>

\* eventhub_register(hub, connection_getfd(c)): adding a closed descriptor, or
\* one already there, fails and is only printed.  An event that is already
\* there when the descriptor is added is reported.
Register(t) ==
    /\ pc[t] = "register"
    /\ LET f == IF op[t].kind = "client" THEN op[t].fd ELSE conn[op[t].conn].fd
       IN IF IsOpen(f) /\ f \notin reg
          THEN /\ reg' = reg \cup {f}
               /\ ready' = IF HasEvent(f) THEN ready \cup {f} ELSE ready
          ELSE UNCHANGED <<reg, ready>>
    /\ Goto(t, AfterOpen(t))
    /\ op' = [op EXCEPT ![t] = NoOp]
    /\ UNCHANGED <<table, desc, cmds, backlog, listening, loop, status, misfired>>

\* connserialport: open the port, or fail.  main opens it whatever the table
\* says; the reconnect thread has checked.
OpenSerial(t) ==
    /\ pc[t] = "openserial"
    /\ \/ /\ HasSerialPort
          /\ \E f \in Fds : OpenFd(t, f, "serial", "up")
          /\ Goto(t, "insert")
       \/ /\ Goto(t, IF t = "main" THEN "listen" ELSE "server?")
          /\ UNCHANGED <<desc, op>>
    /\ UNCHANGED <<table, reg, ready, cmds, backlog, listening, loop, status, misfired>>

--------------------------------------------------------------------------------
(***************************************************************************)
(* The reconnect thread: ceconnect.  Its read of the pipe never blocks and *)
(* its result is not looked at, so it goes round without waiting.          *)
(***************************************************************************)
\* (slip: connect without looking)
CheckServerBlindly ==
    /\ pc["reconn"] = "server?"
    /\ Goto("reconn", "socket")
    /\ UNCHANGED <<table, kernel, op, loop, status, misfired>>

CheckServer ==
    /\ pc["reconn"] = "server?"
    /\ Goto("reconn", IF Has("server") THEN "serial?" ELSE "socket")
    /\ UNCHANGED <<table, kernel, op, loop, status, misfired>>

CheckSerial ==
    /\ pc["reconn"] = "serial?"
    /\ Goto("reconn", IF Has("serial") THEN "server?" ELSE "openserial")
    /\ UNCHANGED <<table, kernel, op, loop, status, misfired>>

\* openclient: socket() ...
Socket ==
    /\ pc["reconn"] = "socket"
    /\ \/ /\ \E f \in Fds : OpenFd("reconn", f, "server", "none")
          /\ Goto("reconn", "connect")
       \/ /\ FreeFds = {}
          /\ Goto("reconn", "serial?")
          /\ UNCHANGED <<desc, op>>
    /\ UNCHANGED <<table, reg, ready, cmds, backlog, listening, loop, status, misfired>>

\* ... connect(), which needs the socket to be the one that was made, and
\* make_socket_non_blocking() ...
Connect ==
    /\ pc["reconn"] = "connect"
    /\ desc[op["reconn"].fd] = Opened("server", "none")
    /\ desc' = [desc EXCEPT ![op["reconn"].fd].peer = "up"]
    /\ Goto("reconn", "insert")
    /\ UNCHANGED <<table, reg, ready, cmds, backlog, listening, op, loop, status, misfired>>

\* (slip: a failure ends the thread)
ConnectFailsForGood ==
    /\ pc["reconn"] = "connect"
    /\ CloseFd(op["reconn"].fd)
    /\ Goto("reconn", "ended")
    /\ op' = [op EXCEPT !["reconn"] = NoOp]
    /\ UNCHANGED <<table, cmds, backlog, listening, cur, todo, at, nxt, status, misfired>>

\* ... or close() when it could not connect.
ConnectFails ==
    /\ pc["reconn"] = "connect"
    /\ CloseFd(op["reconn"].fd)
    /\ Goto("reconn", "serial?")
    /\ op' = [op EXCEPT !["reconn"] = NoOp]
    /\ UNCHANGED <<table, cmds, backlog, listening, cur, todo, at, nxt, status, misfired>>

--------------------------------------------------------------------------------
(***************************************************************************)
(* The main thread: the end of main(), then eventhub_start.                *)
(***************************************************************************)
Main(l) == pc["main"] = l

\* main registers the command pipe and goes on to the serial port.
RegisterPipe ==
    /\ Main("boot")
    /\ reg' = reg \cup {CmdFd}
    /\ ready' = IF HasEvent(CmdFd) THEN ready \cup {CmdFd} ELSE ready
    /\ Goto("main", "openserial")
    /\ UNCHANGED <<table, desc, cmds, backlog, listening, op, loop, status, misfired>>

\* eventhub_start up to its loop.
Listen ==
    /\ Main("listen")
    /\ listening' = TRUE
    /\ reg' = reg \cup {ListenFd}
    /\ Goto("main", "next")
    /\ UNCHANGED <<table, desc, ready, cmds, backlog, op, loop, status, misfired>>

\* (slip: the descriptors that do not fit the batch are forgotten)
WaitForgetsRest ==
    LET avail == {f \in ready : HasEvent(f)}
        event(f) == [fd |-> f, stale |-> FALSE,
                     err |-> f \in Fds /\ desc[f].peer = "err"]
    IN /\ Main("next")
       /\ batch = {} /\ avail # {}
       /\ \E S \in SUBSET avail : /\ S # {} /\ Cardinality(S) <= MaxEvents
                                  /\ batch' = {event(f) : f \in S}
       /\ ready' = {}
       /\ UNCHANGED <<table, desc, reg, cmds, backlog, listening, pc, op,
                      cur, todo, at, nxt, status, misfired>>

\* epoll_wait returns at most MAXEVENTS of the descriptors on its ready list
\* that still have an event, with the events they have now.
Wait ==
    LET avail == {f \in ready : HasEvent(f)}
        event(f) == [fd |-> f, stale |-> FALSE,
                     err |-> f \in Fds /\ desc[f].peer = "err"]
    IN /\ Main("next")
       /\ batch = {} /\ avail # {}
       /\ \E S \in SUBSET avail :
             /\ S # {}
             /\ Cardinality(S) <= MaxEvents
             /\ S # avail => Cardinality(S) = MaxEvents
             /\ batch' = {event(f) : f \in S}
             /\ ready' = ready \ S
       /\ UNCHANGED <<table, desc, reg, cmds, backlog, listening, pc, op,
                      cur, todo, at, nxt, status, misfired>>

\* The next event of the batch: error, listening socket, or input.
Dispatch ==
    /\ Main("next")
    /\ \E e \in batch :
          /\ cur' = e
          /\ batch' = batch \ {e}
          /\ Goto("main", IF e.err THEN "close"
                          ELSE IF e.fd = ListenFd THEN "accept" ELSE "read")
    /\ UNCHANGED <<table, kernel, op, todo, at, nxt, status, misfired>>

NextEvent == /\ Goto("main", "next")
             /\ cur' = NoEvent

\* accept until there is nobody left, or no descriptor.
Accept ==
    /\ Main("accept")
    /\ \/ /\ backlog > 0
          /\ \E f \in Fds : OpenFd("main", f, "client", "up")
          /\ backlog' = backlog - 1
          /\ StillReady(ListenFd, backlog > 1)
          /\ Goto("main", "insert")
          /\ UNCHANGED cur
       \/ /\ backlog = 0 \/ FreeFds = {}
          /\ NextEvent
          /\ UNCHANGED <<desc, op, ready, backlog>>
    /\ UNCHANGED <<table, reg, cmds, listening, batch, todo, at, nxt,
                   status, misfired>>

\* read on the command pipe: all the bytes there are, or EAGAIN.
ReadPipe ==
    /\ Main("read") /\ cur.fd = CmdFd
    /\ \/ /\ cmds # {}
          /\ todo' = cmds
          /\ cmds' = {}
          /\ StillReady(CmdFd, FALSE)
          /\ Goto("main", "command")
          /\ UNCHANGED cur
       \/ /\ cmds = {}
          /\ NextEvent
          /\ UNCHANGED <<cmds, ready, todo>>
    /\ UNCHANGED <<table, desc, reg, backlog, listening, op, batch, at, nxt,
                   status, misfired>>

\* read on a connection that has input: event_recvmsg takes it.  What is read
\* from the serial port may complete an alarm frame, to be sent to every socket.
ReadInput ==
    LET f == cur.fd
        c == tree[f]
        alarm == c # NoConn /\ conn[c].type = "serial"
    IN /\ Main("read") /\ f \in Fds
       /\ desc[f].inq > 0
       /\ desc' = [desc EXCEPT ![f].inq = @ - 1]
       /\ StillReady(f, desc[f].inq > 1 \/ desc[f].peer # "up")
       /\ misfired' = (misfired \/ Misfires)
       /\ \/ UNCHANGED <<pc, at, nxt>>
          \/ /\ alarm
             /\ Goto("main", "alarm")
             /\ at' = First(list) /\ nxt' = After(list, First(list))
       /\ UNCHANGED <<table, reg, cmds, backlog, listening, op,
                      batch, cur, todo, status>>

\* read on a connection that has none: EAGAIN, or end of file or an error, as on
\* a descriptor that is closed and on a socket that is not connected yet.
ReadNothing ==
    /\ Main("read") /\ cur.fd \in Fds
    /\ desc[cur.fd].inq = 0
    /\ misfired' = (misfired \/ Misfires)
    /\ IF desc[cur.fd].peer = "up"
       THEN NextEvent
       ELSE Goto("main", "close") /\ UNCHANGED cur
    /\ UNCHANGED <<table, kernel, op, batch, todo, at, nxt, status>>

\* close(events[i].data.fd) ...
Close ==
    /\ Main("close")
    /\ CloseFd(cur.fd)
    /\ misfired' = (misfired \/ Misfires)
    /\ Goto("main", "del")
    /\ UNCHANGED <<table, cmds, backlog, listening, op, cur, todo, at, nxt, status>>

\* (slip: only clients are looked for)
EventCloseClients ==
    /\ Main("del")
    /\ LET c == tree[cur.fd]
       IN IF c # NoConn /\ conn[c].type = "client" THEN Delete(c) ELSE UNCHANGED table
    /\ misfired' = (misfired \/ Misfires)
    /\ NextEvent
    /\ UNCHANGED <<kernel, op, batch, todo, at, nxt, status>>

\* ... and event_close(events[i].data.fd), which looks the number up again.
EventClose ==
    /\ Main("del")
    /\ IF tree[cur.fd] # NoConn THEN Delete(tree[cur.fd]) ELSE UNCHANGED table
    /\ misfired' = (misfired \/ Misfires)
    /\ NextEvent
    /\ UNCHANGED <<kernel, op, batch, todo, at, nxt, status>>

--------------------------------------------------------------------------------
(***************************************************************************)
(* The traversals of connlisthead: list_for_each_safe takes the successor  *)
(* before the body runs.                                                   *)
(***************************************************************************)
Advance(l) == /\ at' = nxt
              /\ nxt' = IF nxt = NoConn THEN NoConn ELSE After(l, nxt)

\* event_recvmsg on the command pipe: the check first, then the heartbeat.
Command ==
    LET start(cmd, l) == /\ cmd \in todo
                         /\ todo' = todo \ {cmd}
                         /\ Goto("main", l)
                         /\ at' = First(list) /\ nxt' = After(list, First(list))
    IN /\ Main("command")
       /\ \/ start("C", "check")
          \/ "C" \notin todo /\ start("B", "beat")
          \/ todo = {} /\ Goto("main", "read") /\ UNCHANGED <<todo, at, nxt>>
       /\ UNCHANGED <<table, kernel, op, batch, cur, status, misfired>>

\* (slip: the server's connection is never too old)
ExpiredClient(c) == conn[c].type = "client" /\ conn[c].age > Timeout

\* connlist_checkstatus: a socket that is too old is closed ...
Expired(c) == conn[c].type \in Sockets /\ conn[c].age > Timeout

\* (slip: the table entry goes, the descriptor stays)
CheckWithoutClose ==
    /\ Main("check") /\ at # NoConn
    /\ IF Expired(at)
       THEN Goto("main", "checkdel") /\ UNCHANGED <<at, nxt>>
       ELSE Advance(list) /\ UNCHANGED pc
    /\ UNCHANGED <<table, kernel, op, batch, cur, todo, status, misfired>>

Check ==
    /\ Main("check") /\ at # NoConn
    /\ IF Expired(at)
       THEN /\ CloseFd(conn[at].fd)
            /\ Goto("main", "checkdel")
            /\ UNCHANGED <<at, nxt>>
       ELSE /\ Advance(list)
            /\ UNCHANGED <<desc, reg, ready, batch, pc>>
    /\ UNCHANGED <<table, cmds, backlog, listening, op, cur, todo, status, misfired>>

\* ... and leaves the table.
CheckDel ==
    /\ Main("checkdel")
    /\ Delete(at)
    /\ Advance(list')
    /\ Goto("main", "check")
    /\ UNCHANGED <<kernel, op, batch, cur, todo, status, misfired>>

\* The heartbeat's write and the alarm's sendnonblocking, on a socket.  On one
\* whose peer has reset it the first write fails, any later one raises SIGPIPE;
\* sendnonblocking asserts that neither a failure nor a short write happens.
Writes(c) == conn[c].type \in Sockets
Reset(c) == desc[conn[c].fd].peer = "err"

Beat ==
    /\ Main("beat") /\ at # NoConn
    /\ \/ /\ Advance(list)
          /\ UNCHANGED status
       \/ /\ Writes(at) /\ Reset(at)
          /\ status' = "SIGPIPE"
          /\ UNCHANGED <<at, nxt>>
    /\ UNCHANGED <<table, kernel, pc, op, batch, cur, todo, misfired>>

Alarm ==
    /\ Main("alarm") /\ at # NoConn
    /\ \/ /\ Writes(at) => IsOpen(conn[at].fd) /\ ~Reset(at)
          /\ Advance(list)
          /\ UNCHANGED status
       \/ /\ Writes(at)
          /\ status' = "assert in sendnonblocking"
          /\ UNCHANGED <<at, nxt>>
       \/ /\ Writes(at) /\ Reset(at)
          /\ status' = "SIGPIPE"
          /\ UNCHANGED <<at, nxt>>
    /\ UNCHANGED <<table, kernel, pc, op, batch, cur, todo, misfired>>

\* The end of a traversal: back to the commands, or to the read loop.
EndTraversal ==
    /\ pc["main"] \in {"check", "beat", "alarm"} /\ at = NoConn
    /\ Goto("main", IF Main("alarm") THEN "read" ELSE "command")
    /\ UNCHANGED <<table, kernel, op, loop, status, misfired>>

--------------------------------------------------------------------------------
(***************************************************************************)
(* The world around the process.                                           *)
(***************************************************************************)

\* A second passes: checkstatus, the SIGALRM handler, writes "C" to the pipe
\* and, once a minute, "B"; its write to the reconnect pipe changes nothing, for
\* its reader does not wait for it.
Tick ==
    /\ \E minute \in {FALSE, Minutes} :
          cmds' = cmds \cup {"C"} \cup IF minute THEN {"B"} ELSE {}
    /\ Wake({CmdFd})
    /\ conn' = [c \in Conns |->
                   IF conn[c].type \in Sockets /\ conn[c].age <= Timeout
                   THEN [conn[c] EXCEPT !.age = @ + 1] ELSE conn[c]]
    /\ UNCHANGED <<tree, list, free, desc, reg, backlog, listening, pc, op, loop,
                   status, misfired>>

ClientArrives ==
    /\ listening /\ backlog < MaxBacklog
    /\ backlog' = backlog + 1
    /\ Wake({ListenFd})
    /\ UNCHANGED <<table, desc, reg, cmds, listening, pc, op, loop, status, misfired>>

\* Input, an orderly close, or a reset (a vanished device) from the other end.
PeerActs(f) ==
    /\ desc[f].peer \in {"up", "eof"}
    /\ \/ /\ desc[f].peer = "up" /\ desc[f].inq < MaxIn
          /\ desc' = [desc EXCEPT ![f].inq = @ + 1]
       \/ /\ desc[f].peer = "up" /\ desc[f].kind # "serial"
          /\ desc' = [desc EXCEPT ![f].peer = "eof"]
       \/ desc' = [desc EXCEPT ![f].peer = "err"]
    /\ Wake({f})
    /\ UNCHANGED <<table, reg, cmds, backlog, listening, pc, op, loop, status, misfired>>

OpenStep(t) == Insert(t) \/ Register(t) \/ OpenSerial(t)

MainStep == \/ OpenStep("main")
            \/ RegisterPipe \/ Listen \/ Wait \/ Dispatch \/ Accept
            \/ ReadPipe \/ ReadInput \/ ReadNothing
            \/ Close \/ EventClose
            \/ Command \/ Check \/ CheckDel \/ Beat \/ Alarm \/ EndTraversal

ReconnStep == \/ OpenStep("reconn")
              \/ CheckServer \/ CheckSerial
              \/ Socket \/ Connect \/ ConnectFails

World == Tick \/ ClientArrives \/ \E f \in Fds : PeerActs(f)

Next == status = "run" /\ (MainStep \/ ReconnStep \/ World)

Spec == Init /\ [][Next]_vars

\* The scheduler runs both threads and the timer keeps firing; the server
\* accepts a connection that is tried again and again, and no peer fills its
\* socket faster, for ever, than the loop's read empties it.
Run(A) == status = "run" /\ A
Fairness == /\ WF_vars(Run(MainStep))
            /\ WF_vars(Run(ReconnStep))
            /\ WF_vars(Run(Tick))
            /\ SF_vars(Run(Connect))
            /\ SF_vars(Run(ReadNothing))

FairSpec == Spec /\ Fairness

--------------------------------------------------------------------------------
MainPcs == {"boot", "openserial", "insert", "register", "listen", "next",
            "accept", "read", "command", "check", "checkdel", "beat",
            "alarm", "close", "del"}
ReconnPcs == {"server?", "socket", "connect", "serial?", "openserial",
              "insert", "register"}
Event == [fd : Fds \cup {CmdFd, ListenFd}, err : BOOLEAN, stale : BOOLEAN]
Operation == [fd : Fds \cup {0}, kind : Kinds \cup {"free"}, conn : Conns \cup {NoConn}]

TableType ==
    /\ tree \in [Keys -> Conns \cup {NoConn}]
    /\ list \in Seq(Conns) /\ free \in Seq(Conns)
    /\ conn \in [Conns -> [fd : Keys \cup {0}, type : Types, age : Ages]]
KernelType ==
    /\ desc \in [Fds -> [kind : Kinds \cup {"none"}, peer : {"none", "up", "eof", "err"},
                         inq : 0 .. MaxIn]]
    /\ reg \subseteq Fds \cup {CmdFd, ListenFd} /\ ready \subseteq reg
    /\ cmds \subseteq {"C", "B"}
    /\ backlog \in 0 .. MaxBacklog /\ listening \in BOOLEAN
ThreadType ==
    /\ DOMAIN pc = Threads /\ pc["main"] \in MainPcs /\ pc["reconn"] \in ReconnPcs
    /\ op \in [Threads -> Operation]
LoopType ==
    /\ batch \subseteq Event /\ cur \in Event \cup {NoEvent}
    /\ todo \subseteq {"C", "B"}
    /\ at \in Conns \cup {NoConn} /\ nxt \in Conns \cup {NoConn}

\* Type invariant of the process and of the kernel's state about it.
TypeOK == TableType /\ KernelType /\ ThreadType /\ LoopType /\ misfired \in BOOLEAN

\* The tree, the list and the free list partition the connection structures in
\* use: a structure is in the tree under its own descriptor exactly when it is
\* once on the list, and is never free at the same time, nor when a thread is
\* preparing it (connection.c:63-81,169-188; nothing checks it, and no lock
\* keeps the threads apart).
TableConsistent ==
    /\ \A f \in Keys : tree[f] # NoConn => conn[tree[f]].fd = f
    /\ Listed = {tree[f] : f \in Keys} \ {NoConn}
    /\ Cardinality(Listed) = Len(list) /\ Cardinality(FreeListed) = Len(free)
    /\ Listed \cap FreeListed = {}
    /\ \A t \in Threads : pc[t] = "insert" => op[t].conn \notin Listed \cup FreeListed

\* The window between a close of descriptor f and the removal of its connection.
Closing(f) == \/ Main("del") /\ cur.fd = f
              \/ Main("checkdel") /\ conn[at].fd = f
Opening(f) == \E t \in Threads :
                 /\ op[t].fd = f
                 /\ pc[t] \in {"connect", "insert"}

\* Outside that window a connection in the table owns the descriptor it names,
\* and that is of its type: what every lookup by number relies on (event.c:37,142),
\* with two threads opening and one closing.
EntryOwnsDescriptor ==
    ~misfired => \A f \in Fds : tree[f] # NoConn /\ ~Closing(f)
                    => desc[f].kind = conn[tree[f]].type

\* No descriptor leaks: an open one is in the table, or a thread is about to put
\* it there.  The loop never closes a descriptor it does not know.
NoLeak ==
    ~misfired => \A f \in Fds : IsOpen(f) => tree[f] # NoConn \/ Opening(f)

\* Every connection is watched: once its opener has gone on, its descriptor is
\* registered with epoll (eventhub.c:41-49 only prints a failure).
Monitored ==
    ~misfired => \A f \in Fds : IsOpen(f) /\ tree[f] # NoConn /\ ~Closing(f)
                    => f \in reg \/ \E t \in Threads : pc[t] = "register" /\ op[t].fd = f

\* Edge-triggered epoll strands nothing: a registered descriptor with an event is
\* on the ready list, in the batch, or being served (eventhub.c:116-120, "We must
\* read whatever data is available completely").
InputNotStranded ==
    \A f \in (reg \ {ListenFd}) :
        HasEvent(f) => f \in ready \/ cur.fd = f \/ \E e \in batch : e.fd = f

\* The reconnect thread checks the table, then opens: there is never a second
\* server connection; the serial port, that main opens unasked at startup, can
\* be opened twice, never more (main.c:55, reconn.c:19-29).
OpenedOncePerPeer ==
    LET Of(type) == {c \in Listed : conn[c].type = type}
    IN /\ Cardinality(Of("server")) <= 1
       /\ Cardinality(Of("serial")) <= 2

\* A connection to the server whose other end is there, in the table or on its
\* way there.  The thread's own unconnected socket is not one, nor an entry whose
\* peer has gone.
ServerUp == \E f \in Fds : desc[f].kind = "server" /\ desc[f].peer = "up"
NoneForServer == \A f \in Fds : desc[f].kind \in {"client", "serial"}

\* A server that is lost or was never reached is connected to again: the loop
\* notices the loss or the timeout, the entry leaves the table, the reconnect
\* thread sees that and tries until it succeeds, unless clients and the serial
\* port hold every descriptor (eventhub.c:69-75, connection.c:103-112,
\* reconn.c:17-45).
ServerReconnects ==
    ~ServerUp ~> ServerUp \/ NoneForServer \/ status # "run" \/ misfired

\* A socket that is too old is closed, whatever else happens
\* (connection.c:103-112).
ExpiredLeave ==
    LET overdue(f) == /\ status = "run" /\ tree[f] # NoConn
                      /\ conn[tree[f]].type \in Sockets /\ conn[tree[f]].age > Timeout
    IN \A f \in Fds : overdue(f) ~> ~overdue(f)

\* assert(0) in connrbtree_insert (connection.c:174): a descriptor is inserted
\* only when the table does not hold it.
InsertFindsNoEntry == status # "assert in connrbtree_insert"

\* assert(0) in sendnonblocking (socket.c:158,162).
SendsWhole == status # "assert in sendnonblocking"
================================================================================
