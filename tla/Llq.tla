---------------------------------- MODULE Llq ----------------------------------
(***************************************************************************)
(* The message queue of the RPC layer (queue.c, queue.h): a singly linked   *)
(* list behind a mutex (llqAccessSem) and a semaphore that counts the       *)
(* messages (llqCountSem).  Any thread may add and any may receive.         *)
(*                                                                         *)
(* A thread's calls are split at every wait and post, and where the head    *)
(* is read without the mutex (queue.c:147).  What is done under the mutex   *)
(* is one step: the only thing another thread reads meanwhile is whether    *)
(* head is NULL, and every value it can see is the one before or after.     *)
(***************************************************************************)
EXTENDS Integers, Sequences, FiniteSets

CONSTANTS Threads,   \* the threads that use the queue
          Message,   \* what they queue
          Urgent,    \* the messages llq_add is called for with prio 1
          NoMessage, \* the empty hand
          Cell,      \* bound: the nodes malloc can give out, as numbers
          NULL

ASSUME NullIsNoCell == NULL \notin Cell
ASSUME UrgentAssumption == Urgent \subseteq Message
ASSUME NoMessageIsNone == NoMessage \notin Message
ASSUME CellAssumption == Cell \subseteq Nat
ASSUME ThreadsFinite == IsFiniteSet(Threads)

VARIABLES head, tail,  \* of llq_t
          ptr, data,   \* of each node_t
          access,      \* llqAccessSem
          count,       \* llqCountSem
          at,          \* per thread: where it is in llq_add or llq_timedreceive
          item,        \* per thread: the message it adds or has received
          nodes        \* history: the nodes in use, in the order of the list

llqVars == <<head, tail, ptr, data, access, count, at, item, nodes>>

\* out: not in the queue's code.  llq_add: adding, linking, counting.
\* llq_timedreceive: waiting, granted, tested, removing; got and empty are its
\* two returns with a count taken.
At == {"out", "adding", "linking", "counting",
       "waiting", "blocked", "granted", "tested", "removing", "got", "empty"}

InMutex == {t \in Threads : at[t] \in {"linking", "removing"}}
\* Counted a message down and not yet taken it; linked one and not yet counted it.
Claimants == {t \in Threads : at[t] \in {"granted", "tested", "removing"}}
Uncounted == {t \in Threads : at[t] = "counting"}

Goto(t, l) == at' = [at EXCEPT ![t] = l]
InUse == {nodes[i] : i \in 1 .. Len(nodes)}
\* malloc gives out a node that is not in use; the first one stands for any.
Fresh == {c \in Cell \ InUse : \A d \in Cell \ InUse : c <= d}

LlqInit == /\ head = NULL /\ tail = NULL
           /\ ptr = [c \in Cell |-> NULL]
           /\ data = [c \in Cell |-> NoMessage]
           /\ access = 1 /\ count = 0
           /\ at = [t \in Threads |-> "out"]
           /\ item = [t \in Threads |-> NoMessage]
           /\ nodes = << >>

(***************************************************************************)
(* llq_add                                                                 *)
(***************************************************************************)

llq_add(t, m) ==
    /\ at[t] = "out"
    /\ Goto(t, "adding")
    /\ item' = [item EXCEPT ![t] = m]
    /\ UNCHANGED <<head, tail, ptr, data, access, count, nodes>>

AddLock(t) ==
    /\ at[t] = "adding"
    /\ access > 0
    /\ access' = access - 1
    /\ Goto(t, "linking")
    /\ UNCHANGED <<head, tail, ptr, data, count, item, nodes>>

\* The new node c becomes the head; it is the tail too if there was none.
addToHead(c, m) ==
    /\ ptr' = [ptr EXCEPT ![c] = head]
    /\ data' = [data EXCEPT ![c] = m]
    /\ head' = c
    /\ tail' = IF head = NULL THEN c ELSE tail
    /\ nodes' = <<c>> \o nodes

\* Slips to see the properties refuted: the last node's pointer left as it is,
addToTailUnlinked(c, m) ==
    /\ ptr' = [ptr EXCEPT ![c] = NULL]
    /\ data' = [data EXCEPT ![c] = m]
    /\ tail' = c
    /\ head' = IF tail = NULL THEN c ELSE head
    /\ nodes' = Append(nodes, c)

\* The new node c becomes the tail; it is the head too if there was none.
addToTail(c, m) ==
    /\ ptr' = IF tail = NULL THEN [ptr EXCEPT ![c] = NULL]
                             ELSE [ptr EXCEPT ![tail] = c, ![c] = NULL]
    /\ data' = [data EXCEPT ![c] = m]
    /\ tail' = c
    /\ head' = IF tail = NULL THEN c ELSE head
    /\ nodes' = Append(nodes, c)

\* every message at the tail,
LinkInOrder(t) ==
    /\ at[t] = "linking"
    /\ \E c \in Fresh : addToTail(c, item[t])
    /\ access' = access + 1
    /\ Goto(t, "counting")
    /\ UNCHANGED <<count, item>>

Link(t) ==
    /\ at[t] = "linking"
    /\ \E c \in Fresh : IF item[t] \in Urgent THEN addToHead(c, item[t])
                                                   ELSE addToTail(c, item[t])
    /\ access' = access + 1
    /\ Goto(t, "counting")
    /\ UNCHANGED <<count, item>>

\* a message linked and not counted,
CountNot(t) ==
    /\ at[t] = "counting"
    /\ Goto(t, "out")
    /\ item' = [item EXCEPT ![t] = NoMessage]
    /\ UNCHANGED <<head, tail, ptr, data, access, count, nodes>>

Count(t) ==
    /\ at[t] = "counting"
    /\ count' = count + 1
    /\ Goto(t, "out")
    /\ item' = [item EXCEPT ![t] = NoMessage]
    /\ UNCHANGED <<head, tail, ptr, data, access, nodes>>

(***************************************************************************)
(* llq_timedreceive, and llq_receive, which is the same without a timeout   *)
(***************************************************************************)

llq_timedreceive(t) ==
    /\ at[t] = "out"
    /\ Goto(t, "waiting")
    /\ item' = [item EXCEPT ![t] = NoMessage]
    /\ UNCHANGED <<head, tail, ptr, data, access, count, nodes>>

llq_receive(t) ==
    /\ at[t] = "out"
    /\ Goto(t, "blocked")
    /\ item' = [item EXCEPT ![t] = NoMessage]
    /\ UNCHANGED <<head, tail, ptr, data, access, count, nodes>>

Grant(t) ==
    /\ at[t] \in {"waiting", "blocked"}
    /\ count > 0
    /\ count' = count - 1
    /\ Goto(t, "granted")
    /\ UNCHANGED <<head, tail, ptr, data, access, item, nodes>>

\* sem_timedwait gives up only if it would have to wait; its deadline may have
\* passed before the call.  The return is -1.
GiveUp(t) ==
    /\ at[t] = "waiting"
    /\ count = 0
    /\ Goto(t, "out")
    /\ UNCHANGED <<head, tail, ptr, data, access, count, item, nodes>>

\* queue.c:147 - the head is looked at without the mutex.  If there is none the
\* count taken is not given back and the return is 0.
TestHead(t) ==
    /\ at[t] = "granted"
    /\ Goto(t, IF head # NULL THEN "tested" ELSE "empty")
    /\ UNCHANGED <<head, tail, ptr, data, access, count, item, nodes>>

TakeLock(t) ==
    /\ at[t] = "tested"
    /\ access > 0
    /\ access' = access - 1
    /\ Goto(t, "removing")
    /\ UNCHANGED <<head, tail, ptr, data, count, item, nodes>>

\* and a removal that takes the list for emptied.
RemoveDropsRest(t) ==
    /\ at[t] = "removing"
    /\ head # NULL
    /\ item' = [item EXCEPT ![t] = data[head]]
    /\ head' = NULL /\ tail' = NULL
    /\ nodes' = << >>
    /\ access' = access + 1
    /\ Goto(t, "got")
    /\ UNCHANGED <<ptr, data, count>>

\* The head is not tested again; HeadThere says that it need not be.  What a
\* freed node held is cleared: nobody reads it before malloc gives it out again.
Remove(t) ==
    /\ at[t] = "removing"
    /\ head # NULL
    /\ item' = [item EXCEPT ![t] = data[head]]
    /\ head' = ptr[head]
    /\ tail' = IF ptr[head] = NULL THEN NULL ELSE tail
    /\ ptr' = [ptr EXCEPT ![head] = NULL]
    /\ data' = [data EXCEPT ![head] = NoMessage]
    /\ nodes' = Tail(nodes)
    /\ access' = access + 1
    /\ Goto(t, "got")
    /\ UNCHANGED count

Return(t) ==
    /\ at[t] \in {"got", "empty"}
    /\ Goto(t, "out")
    /\ UNCHANGED <<head, tail, ptr, data, access, count, item, nodes>>

LlqStep(t) == \/ AddLock(t) \/ Link(t) \/ Count(t)
              \/ Grant(t) \/ GiveUp(t) \/ TestHead(t) \/ TakeLock(t) \/ Remove(t)
              \/ Return(t)

LlqNext == \E t \in Threads : \/ \E m \in Message : llq_add(t, m)
                              \/ llq_timedreceive(t) \/ llq_receive(t)
                              \/ LlqStep(t)

LlqSpec == LlqInit /\ [][LlqNext]_llqVars

(***************************************************************************)
(* Properties                                                              *)
(***************************************************************************)

LlqTypeOK ==
    /\ head \in Cell \cup {NULL} /\ tail \in Cell \cup {NULL}
    /\ ptr \in [Cell -> Cell \cup {NULL}]
    /\ data \in [Cell -> Message \cup {NoMessage}]
    /\ access \in {0, 1} /\ count \in Nat
    /\ at \in [Threads -> At]
    /\ item \in [Threads -> Message \cup {NoMessage}]
    /\ nodes \in Seq(Cell)

\* Whoever was granted a message finds one: the look at the head outside the
\* mutex (queue.c:147) never sees NULL, and the head is still there when the
\* mutex has been waited for (queue.c:152), whatever other receivers took.
HeadThere == \A t \in Threads : /\ at[t] \in {"granted", "tested", "removing"} => head # NULL
                                /\ at[t] # "empty"

\* Every message linked is counted once: those on the list are the count, the
\* ones granted and not yet taken, and the ones not yet counted.
CountMatchesList ==
    Len(nodes) = count + Cardinality(Claimants) + Cardinality(Uncounted)

\* One thread at a time is inside the mutex.
MutexHeld == access + Cardinality(InMutex) = 1

\* head, tail and the pointers are the list: nothing is lost, linked twice or
\* cut off, whichever end a message goes to and however the list empties.
PointersAreList ==
    /\ nodes = << >> <=> head = NULL
    /\ nodes = << >> <=> tail = NULL
    /\ nodes # << >> => /\ head = nodes[1]
                        /\ tail = nodes[Len(nodes)]
                        /\ ptr[tail] = NULL
    /\ \A i \in 1 .. Len(nodes) - 1 : ptr[nodes[i]] = nodes[i + 1]
    /\ \A i, j \in 1 .. Len(nodes) : nodes[i] = nodes[j] => i = j

\* The queue is intact at every step of its receivers and senders (queue.c).
QueueIntact == HeadThere /\ CountMatchesList /\ PointersAreList

\* The queue implements its abstract specification: a message is in the queue
\* from its linking to its removal, and a receiver holds it from then on.
Queue == INSTANCE MessageQueue WITH
             queue <- [i \in 1 .. Len(nodes) |-> data[nodes[i]]],
             handed <- [t \in Threads |->
                           IF at[t] \in {"adding", "linking", "counting"}
                           THEN NoMessage ELSE item[t]]
IsMessageQueue == Queue!Spec
================================================================================
