------------------------------ MODULE BlockQueue ------------------------------
(***************************************************************************)
(* block_queue<T> of block_queue.h: a bounded queue in a circular array,   *)
(* guarded by one mutex (m_mutex) and one condition variable (m_cond).     *)
(*                                                                         *)
(* Every method holds m_mutex from its first to its last access, so a      *)
(* method is one atomic step, split only where m_cond.wait or              *)
(* m_cond.timewait gives the mutex away.  pc records where a thread inside *)
(* pop is:                                                                 *)
(*   "idle"    not in pop (or just returned from it)                       *)
(*   "asleep"  blocked in wait/timewait, mutex released                    *)
(*   "woken"   wait/timewait will return true; contending for the mutex    *)
(*   "expired" wait/timewait will return false; contending for the mutex   *)
(* full, empty, front, back, size and max_size only read, and are the      *)
(* state functions below.                                                  *)
(***************************************************************************)
EXTENDS Integers, Sequences

CONSTANTS
  Items,         \* the values that are pushed
  Poppers,       \* the threads that call pop(item)
  TimedPoppers,  \* the threads that call pop(item, ms_timeout)
  Blank,         \* a default-constructed T, as `new T[max_size]` leaves it
  MaxSize        \* m_max_size

\* The constructor exits the process for max_size <= 0.
ASSUME MaxSizeAssumption == MaxSize \in Nat \ {0}
ASSUME ThreadsAssumption == Poppers \cap TimedPoppers = {}
ASSUME BlankAssumption == Blank \notin Items

VARIABLES m_array, m_size, m_front, m_back, pc, item

vars == <<m_array, m_size, m_front, m_back, pc, item>>
ring == <<m_array, m_size, m_front, m_back>>

Threads == Poppers \cup TimedPoppers
Slots   == 0 .. (MaxSize - 1)

TypeOK ==
  /\ m_array \in [Slots -> Items \cup {Blank}]
  /\ m_size \in 0 .. MaxSize
  /\ m_front \in -1 .. (MaxSize - 1)
  /\ m_back \in -1 .. (MaxSize - 1)
  /\ pc \in [Threads -> {"idle", "asleep", "woken", "expired"}]
  /\ item \in [Threads -> Items \cup {Blank}]

-----------------------------------------------------------------------------
(* The read-only methods. *)

full  == m_size >= MaxSize
empty == m_size = 0
size  == m_size

\* front(value): m_array[m_front], whatever m_front is; the read before slot 0
\* is undefined and may yield anything.
front ==
  IF m_front \in Slots THEN {m_array[m_front]} ELSE Items \cup {Blank}

\* back(value): m_array[m_back].
back ==
  IF m_back \in Slots THEN {m_array[m_back]} ELSE Items \cup {Blank}

-----------------------------------------------------------------------------
(* The constructor, and the methods that change the queue. *)

Init ==
  /\ m_array = [i \in Slots |-> Blank]
  /\ m_size = 0
  /\ m_front = -1
  /\ m_back = -1
  /\ pc = [c \in Threads |-> "idle"]
  /\ item = [c \in Threads |-> Blank]

\* Mutant of Broadcast: the wake-up is forgotten.
BroadcastForgotten == UNCHANGED pc

\* m_cond.broadcast(): nobody stays asleep.
Broadcast ==
  pc' = [c \in Threads |-> IF pc[c] = "asleep" THEN "woken" ELSE pc[c]]

\* Mutant of PushOk: the capacity test is off by one.
PushOneTooMany(x) ==
  /\ m_size <= MaxSize
  /\ m_back' = (m_back + 1) % MaxSize
  /\ m_array' = [m_array EXCEPT ![m_back'] = x]
  /\ m_size' = m_size + 1
  /\ Broadcast
  /\ UNCHANGED <<m_front, item>>

\* push on a queue with room.
PushOk(x) ==
  /\ m_size < MaxSize
  /\ m_back' = (m_back + 1) % MaxSize
  /\ m_array' = [m_array EXCEPT ![m_back'] = x]
  /\ m_size' = m_size + 1
  /\ Broadcast
  /\ UNCHANGED <<m_front, item>>

\* push on a full queue: wakes the consumers and returns false.
PushFull(x) ==
  /\ m_size >= MaxSize
  /\ Broadcast
  /\ UNCHANGED <<ring, item>>

\* Mutant of clear: m_back keeps its place.
ClearKeepsBack ==
  /\ m_size' = 0
  /\ m_front' = -1
  /\ UNCHANGED <<m_array, m_back, pc, item>>

\* clear empties the queue without touching the slots.
clear ==
  /\ m_size' = 0
  /\ m_front' = -1
  /\ m_back' = -1
  /\ UNCHANGED <<m_array, pc, item>>

\* Mutant of PopTake: the slot is read before m_front advances.
PopBeforeAdvance(c) ==
  /\ pc[c] \in {"idle", "woken"}
  /\ m_size > 0
  /\ m_front' = (m_front + 1) % MaxSize
  /\ item' = [item EXCEPT ![c] = IF m_front \in Slots THEN m_array[m_front] ELSE Blank]
  /\ m_size' = m_size - 1
  /\ pc' = [pc EXCEPT ![c] = "idle"]
  /\ UNCHANGED <<m_array, m_back>>

\* The body of both pops once the queue is seen non-empty: take the front
\* slot and return true.
PopTake(c) ==
  /\ pc[c] \in {"idle", "woken"}
  /\ m_size > 0
  /\ m_front' = (m_front + 1) % MaxSize
  /\ item' = [item EXCEPT ![c] = m_array[m_front']]
  /\ m_size' = m_size - 1
  /\ pc' = [pc EXCEPT ![c] = "idle"]
  /\ UNCHANGED <<m_array, m_back>>

\* pop(item) re-checks in a while loop, pop(item, ms) checks once with an if:
\* only the former goes back to sleep after a wake-up that found nothing.
PopWait(c) ==
  /\ pc[c] = "idle" \/ (c \in Poppers /\ pc[c] = "woken")
  /\ m_size <= 0
  /\ pc' = [pc EXCEPT ![c] = "asleep"]
  /\ UNCHANGED <<ring, item>>

\* pop(item, ms) woken to an empty queue: the second if returns false.
TimedGiveUp(c) ==
  /\ c \in TimedPoppers
  /\ pc[c] = "woken"
  /\ m_size <= 0
  /\ pc' = [pc EXCEPT ![c] = "idle"]
  /\ UNCHANGED <<ring, item>>

\* The condition variable (external) may wake a thread for no reason ...
SpuriousWake(c) ==
  /\ pc[c] = "asleep"
  /\ pc' = [pc EXCEPT ![c] = "woken"]
  /\ UNCHANGED <<ring, item>>

\* ... and its wait may end without success: the deadline of timewait passes,
\* or wait reports an error.  The thread must still get the mutex back.
WaitFails(c) ==
  /\ pc[c] = "asleep"
  /\ pc' = [pc EXCEPT ![c] = "expired"]
  /\ UNCHANGED <<ring, item>>

\* if (!m_cond.wait(...)) { unlock; return false; }
FailedReturn(c) ==
  /\ pc[c] = "expired"
  /\ pc' = [pc EXCEPT ![c] = "idle"]
  /\ UNCHANGED <<ring, item>>

Next ==
  \/ \E x \in Items : PushOk(x) \/ PushFull(x)
  \/ clear
  \/ \E c \in Threads :
       \/ PopTake(c) \/ PopWait(c) \/ TimedGiveUp(c)
       \/ SpuriousWake(c) \/ WaitFails(c) \/ FailedReturn(c)

\* A thread that loops on pop(item), as Log::async_write_log does, keeps
\* running: it takes an item it can take and leaves a wait that failed.
Fairness ==
  \A c \in Poppers : WF_vars(PopTake(c)) /\ WF_vars(FailedReturn(c))

Spec == Init /\ [][Next]_vars
FairSpec == Spec /\ Fairness

-----------------------------------------------------------------------------
(* Properties. *)

\* The queue the circular array stands for: the m_size slots that follow
\* m_front, oldest first.
Contents == [i \in 1 .. m_size |-> m_array[(m_front + i) % MaxSize]]

\* The indices agree with the counter after any mix of pushes, pops and clears,
\* also before the first pop (m_front = -1) and when the array wraps round:
\* the slot m_back is the last of the m_size slots that follow m_front.
RingInv ==
  IF m_size = 0 THEN m_front = m_back
                ELSE m_back = (m_front + m_size) % MaxSize

\* A thread sleeps in pop only while the queue is empty: no push is missed
\* between the emptiness test and the wait, and none leaves a sleeper behind.
NoSleeperWhileNonEmpty ==
  m_size > 0 => \A c \in Threads : pc[c] # "asleep"

\* back() hands out the item pushed last whenever it answers true.
BackIsNewest == m_size > 0 => back = {Contents[m_size]}

\* push, pop and clear implement the bounded FIFO: every item pushed and not
\* cleared is popped exactly once, in order, through every wrap of the array.
Fifo == INSTANCE BoundedFifo WITH
          queue <- Contents, got <- item, Takers <- Threads, Capacity <- MaxSize

ImplementsFifo == Fifo!FifoSpec

\* A full queue does not stay full while a consumer loops on pop, however the
\* wake-ups, failed waits and timed pops interleave.
FullQueueDrains == full ~> ~full

=============================================================================
