----------------------- MODULE ElasticThreadPoolProofs -----------------------
(***************************************************************************)
(* The elastic pool for any limits and any number of tasks.                *)
(*   Shape   the slots of m_threads and the limits of the live count; the  *)
(*           slots in use are the first ones, so a new thread never takes  *)
(*           the slot of another, and after the destructor nobody moves    *)
(*   Missed  m_mutex_pool has one holder between its test and its sleep,   *)
(*           and m_shutdown is up before the destructor notifies           *)
(*   Order   what was started and what is queued are numbered in a row     *)
(*   Counts  the live count, until shutdown, and the busy count            *)
(* Counts needs Shape: a thread that retires must be one that counts.      *)
(***************************************************************************)
EXTENDS ElasticThreadPool, SequenceTheorems, FiniteSetTheorems, TLAPS

Places == {"none", "ready", "tested", "asleep", "run", "exited"}

Shape ==
  /\ size \in MinNum .. MaxNum
  /\ m_live_num \in MinNum .. MaxNum
  /\ m_destory_num \in 0 .. 2
  /\ m_shutdown \in BOOLEAN
  /\ wpc \in [Threads -> Places]
  /\ \A i \in Threads : wpc[i] = "none" <=> i > size
  /\ mpc \in {"sleep", "live", "busy", "create", "retire", "ended"}
  /\ cpc \in {"idle", "notify", "flagged", "joining", "gone"}
  /\ cpc = "gone" => mpc = "ended" /\ \A i \in Threads : wpc[i] \in {"none", "exited"}

(* The sizes are natural numbers, and a slot is one. *)
LEMMA Sizes == /\ MinNum \in Nat /\ MaxNum \in Nat /\ MinNum <= MaxNum
               /\ Threads = 1 .. MaxNum /\ Threads \subseteq Nat
BY SizesAssumption DEF Threads

(* The manager creates between none and two threads, within both limits. *)
LEMMA NewcomersFit ==
  ASSUME Shape
  PROVE  /\ Newcomers \in 0 .. 2
         /\ size + Newcomers <= MaxNum /\ m_live_num + Newcomers <= MaxNum
BY Sizes DEF Shape, Newcomers, Min2

LEMMA InitShape == Init => Shape
<1> SUFFICES ASSUME Init PROVE Shape
  OBVIOUS
<1>1. \A i \in Threads : wpc[i] = "none" <=> i > size
  BY Sizes DEF Init
<1>2. wpc \in [Threads -> Places]
  BY DEF Init, Places
<1>3. MinNum \in MinNum .. MaxNum
  BY Sizes
<1>4. /\ size = MinNum /\ m_live_num = MinNum /\ m_destory_num = 0
      /\ mpc = "sleep" /\ cpc = "idle"
  BY DEF Init
<1>5. m_shutdown \in BOOLEAN
  BY DEF Init
<1> QED  BY <1>1, <1>2, <1>3, <1>4, <1>5 DEF Shape

(* A worker's step moves that worker only, which is one that runs. *)
LEMMA WorkerMoves ==
  ASSUME Shape, NEW i \in Threads, Worker(i) \/ SpuriousWake(i)
  PROVE  /\ wpc[i] \notin {"none", "exited"}
         /\ \E p \in Places \ {"none"} : wpc' = [wpc EXCEPT ![i] = p]
         /\ UNCHANGED <<size, m_shutdown, mpc, seen, cpc, added>>
<1>1. CASE Work(i)
  <2>1. \/ wpc' = [wpc EXCEPT ![i] = "exited"] \/ wpc' = [wpc EXCEPT ![i] = "run"] \/ wpc' = wpc
    BY <1>1 DEF Work
  <2>2. wpc' = wpc => wpc' = [wpc EXCEPT ![i] = "ready"]
    BY <1>1 DEF Work, Shape
  <2> QED  BY <1>1, <2>1, <2>2 DEF Work, manVars, mainVars, Places
<1>2. CASE TestFalse(i) \/ Sleep(i) \/ FinishTask(i) \/ SpuriousWake(i)
  BY <1>2 DEF TestFalse, Sleep, FinishTask, SpuriousWake, manVars, mainVars, Places
<1> QED  BY <1>1, <1>2 DEF Worker

LEMMA NextShape == Shape /\ [Next]_vars => Shape'
<1> SUFFICES ASSUME Shape, [Next]_vars PROVE Shape'
  OBVIOUS
<1>0. /\ size \in MinNum .. MaxNum /\ m_live_num \in MinNum .. MaxNum /\ m_destory_num \in 0 .. 2
      /\ wpc \in [Threads -> Places] /\ \A i \in Threads : wpc[i] = "none" <=> i > size
  BY DEF Shape
<1>1. ASSUME NEW i \in Threads, Worker(i) \/ SpuriousWake(i) PROVE Shape'
  <2>1. m_live_num' \in MinNum .. MaxNum /\ m_destory_num' \in 0 .. 2
    <3>1. CASE Work(i)
      BY <1>0, <3>1, Sizes DEF Work, Retire
    <3>2. CASE TestFalse(i) \/ Sleep(i) \/ FinishTask(i) \/ SpuriousWake(i)
      BY <1>0, <3>2 DEF TestFalse, Sleep, FinishTask, SpuriousWake, counters
    <3> QED  BY <1>1, <3>1, <3>2 DEF Worker
  <2>2. PICK p \in Places \ {"none"} : wpc' = [wpc EXCEPT ![i] = p]
    BY <1>1, WorkerMoves
  <2>3. wpc[i] \notin {"none", "exited"} /\ UNCHANGED <<size, m_shutdown, mpc, cpc>>
    BY <1>1, WorkerMoves
  <2>4. wpc' \in [Threads -> Places] /\ \A j \in Threads : wpc'[j] = "none" <=> j > size
    BY <1>0, <2>2, <2>3
  <2>5. cpc # "gone"
    BY <2>3 DEF Shape
  <2> QED  BY <2>1, <2>3, <2>4, <2>5 DEF Shape
<1>2. CASE ManagerLoop \/ ReadLive \/ ReadBusy
  <2>1. mpc # "ended" /\ mpc' \in {"live", "busy", "create", "ended"}
    BY <1>2 DEF ManagerLoop, ReadLive, ReadBusy
  <2>2. UNCHANGED <<size, m_live_num, m_destory_num, m_shutdown, wpc, cpc>>
    BY <1>2 DEF ManagerLoop, ReadLive, ReadBusy, counters, workerVars, mainVars
  <2> QED  BY <2>1, <2>2 DEF Shape
<1>3. CASE CreateThreads
  <2>1. mpc = "create" /\ mpc' = "retire" /\ UNCHANGED <<m_destory_num, m_shutdown, cpc>>
    BY <1>3 DEF CreateThreads, mainVars
  <2>2. CASE UNCHANGED <<size, m_live_num, wpc>>
    BY <2>1, <2>2 DEF Shape
  <2>3. CASE /\ size' = size + Newcomers /\ m_live_num' = m_live_num + Newcomers
             /\ wpc' = [i \in Threads |-> IF i \in size + 1 .. size' THEN "ready" ELSE wpc[i]]
    <3>1. size' \in MinNum .. MaxNum /\ m_live_num' \in MinNum .. MaxNum /\ size <= size'
      <4>1. /\ Newcomers \in Nat /\ size + Newcomers <= MaxNum
            /\ m_live_num + Newcomers <= MaxNum
        BY NewcomersFit
      <4> QED  BY <1>0, <2>3, <4>1, Sizes
    <3>2. wpc' \in [Threads -> Places]
      BY <1>0, <2>3 DEF Places
    <3>3. \A i \in Threads : wpc'[i] = "none" <=> i > size'
      BY <1>0, <2>3, <3>1, Sizes
    <3> QED  BY <2>1, <3>1, <3>2, <3>3 DEF Shape
  <2> QED  BY <1>3, <2>2, <2>3 DEF CreateThreads
<1>4. CASE RetireThreads \/ NotifyAll \/ NotifyOne
  <2>1. /\ wpc' \in [Threads -> Places]
        /\ \A i \in Threads : wpc'[i] = wpc[i] \/ (wpc[i] = "asleep" /\ wpc'[i] = "ready")
    BY <1>0, <1>4 DEF RetireThreads, NotifyAll, NotifyOne, Woken, Places
  <2>2. cpc # "gone" /\ cpc' # "gone"
    <3>1. CASE RetireThreads
      BY <3>1 DEF RetireThreads, mainVars, Shape
    <3>2. CASE NotifyAll \/ NotifyOne
      BY <3>2 DEF NotifyAll, NotifyOne
    <3> QED  BY <1>4, <3>1, <3>2
  <2>3. /\ UNCHANGED <<size, m_live_num, m_shutdown>> /\ m_destory_num' \in 0 .. 2
        /\ mpc' \in {mpc, "sleep"} /\ cpc' \in {cpc, "idle", "joining"}
    BY <1>0, <1>4 DEF RetireThreads, NotifyAll, NotifyOne, counters, manVars, mainVars
  <2>4. \A i \in Threads : wpc'[i] = "none" <=> i > size
    BY <1>0, <2>1
  <2> QED  BY <2>1, <2>2, <2>3, <2>4 DEF Shape
<1>5. CASE AddTask \/ SetShutdown
  BY <1>5 DEF AddTask, SetShutdown, counters, workerVars, manVars, Shape
<1>6. CASE JoinAll
  <2>1. \A i \in Threads : wpc[i] \in {"none", "exited"}
    BY <1>0, <1>6, Sizes DEF JoinAll
  <2> QED  BY <1>6, <2>1 DEF JoinAll, counters, workerVars, manVars, Shape
<1>7. CASE UNCHANGED vars
  BY <1>7 DEF vars, counters, workerVars, manVars, mainVars, Shape
<1> QED
  BY <1>1, <1>2, <1>3, <1>4, <1>5, <1>6, <1>7 DEF Next, Manager, Main, Ended

LEMMA ShapeInductive == Spec => []Shape
BY InitShape, NextShape, PTL DEF Spec

-----------------------------------------------------------------------------
(* Who may miss the notification of the destructor. *)

Missed ==
  /\ \A i, j \in Threads : wpc[i] = "tested" /\ wpc[j] = "tested" => i = j
  /\ cpc \in {"flagged", "joining", "gone"} => m_shutdown
  /\ MissedByOne

LEMMA InitMissed == Init => Missed
BY Sizes DEF Init, Missed, MissedByOne

(* Nobody new tests or sleeps. *)
LEMMA MissedKept ==
  ASSUME Missed, m_shutdown => m_shutdown',
         cpc' \in {"flagged", "joining", "gone"} => cpc \in {"flagged", "joining", "gone"},
         cpc' \in {"joining", "gone"} => cpc \in {"joining", "gone"},
         \A i \in Threads : /\ wpc'[i] = "tested" => wpc[i] = "tested"
                            /\ wpc'[i] \in {"tested", "asleep"} => wpc[i] \in {"tested", "asleep"}
  PROVE  Missed'
BY DEF Missed, MissedByOne

LEMMA NextMissed == Shape /\ Missed /\ [Next]_vars => Missed'
<1> SUFFICES ASSUME Shape, Missed, [Next]_vars PROVE Missed'
  OBVIOUS
<1>0. wpc \in [Threads -> Places]
  BY DEF Shape
<1>1. ASSUME NEW i \in Threads, TestFalse(i) PROVE Missed'
  <2>1. /\ wpc' = [wpc EXCEPT ![i] = "tested"] /\ UNCHANGED <<m_shutdown, cpc>>
        /\ ~m_shutdown /\ \A j \in Threads : wpc[j] # "tested"
    BY <1>1 DEF TestFalse, Predicate, PoolFree, mainVars
  <2>2. cpc' \notin {"flagged", "joining", "gone"}
    BY <2>1 DEF Missed
  <2> QED  BY <1>0, <2>1, <2>2 DEF Missed, MissedByOne
<1>2. ASSUME NEW i \in Threads, Sleep(i) \/ Work(i) \/ FinishTask(i) \/ SpuriousWake(i)
      PROVE  Missed'
  <2>1. UNCHANGED <<m_shutdown, cpc>>
    BY <1>2, WorkerMoves DEF Worker
  <2>2. \/ wpc[i] = "tested" /\ wpc' = [wpc EXCEPT ![i] = "asleep"]
        \/ \E p \in {"ready", "run", "exited"} : wpc' = [wpc EXCEPT ![i] = p]
        \/ wpc' = wpc
    BY <1>2 DEF Sleep, Work, FinishTask, SpuriousWake
  <2> QED  BY <1>0, <2>1, <2>2, MissedKept
<1>3. CASE ManagerLoop \/ ReadLive \/ ReadBusy \/ AddTask \/ JoinAll \/ UNCHANGED vars
  <2>1. UNCHANGED <<wpc, m_shutdown>> /\ (cpc' = cpc \/ cpc' = "notify" \/ cpc = "joining")
    BY <1>3 DEF ManagerLoop, ReadLive, ReadBusy, AddTask, JoinAll, vars, workerVars, mainVars
  <2> QED  BY <2>1, MissedKept
<1>4. CASE CreateThreads \/ RetireThreads \/ NotifyOne
  <2>1. m_shutdown' = m_shutdown /\ cpc' \in {cpc, "idle"}
    BY <1>4 DEF CreateThreads, RetireThreads, NotifyOne, mainVars
  <2>2. \A i \in Threads : wpc'[i] = wpc[i] \/ wpc'[i] = "ready"
    BY <1>0, <1>4 DEF CreateThreads, RetireThreads, NotifyOne, Woken
  <2> QED  BY <2>1, <2>2, MissedKept
<1>5. CASE SetShutdown
  BY <1>5 DEF SetShutdown, workerVars, Missed, MissedByOne
<1>6. CASE NotifyAll
  <2>1. wpc' = Woken /\ m_shutdown' = m_shutdown /\ m_shutdown
    BY <1>6 DEF NotifyAll, Missed
  <2>2. \A i \in Threads : /\ wpc'[i] # "asleep"
                           /\ wpc'[i] = "tested" => wpc[i] = "tested"
    BY <1>0, <2>1 DEF Woken
  <2> QED  BY <2>1, <2>2 DEF Missed, MissedByOne
<1> QED
  BY <1>1, <1>2, <1>3, <1>4, <1>5, <1>6 DEF Next, Worker, Manager, Main, Ended

(* Whatever the limits, the destructor's notification is missed by one     *)
(* worker at most: if it waits for ever, it waits for that one.            *)
THEOREM MissedByOneHolds == Spec => []MissedByOne
<1>1. Missed => MissedByOne
  BY DEF Missed
<1> QED  BY <1>1, InitMissed, NextMissed, ShapeInductive, PTL DEF Spec

-----------------------------------------------------------------------------
(* The order of the tasks. *)

Order ==
  /\ added \in 0 .. MaxTasks
  /\ m_queue \in Seq(1 .. MaxTasks) /\ started \in Seq(1 .. MaxTasks)
  /\ Len(started) + Len(m_queue) = added
  /\ \A k \in 1 .. Len(started) : started[k] = k
  /\ \A k \in 1 .. Len(m_queue) : m_queue[k] = Len(started) + k

LEMMA InitOrder == Init => Order
<1>1. MaxTasks \in Nat
  BY BoundsAssumption
<1>2. <<>> \in Seq(1 .. MaxTasks) /\ Len(<<>>) = 0
  BY EmptySeq
<1>3. Init => m_queue = <<>> /\ started = <<>> /\ added = 0
  BY DEF Init
<1> QED  BY <1>1, <1>2, <1>3 DEF Order

(* The front of the queue is started. *)
LEMMA OrderWhenStarted ==
  ASSUME Order, m_queue # <<>>, m_queue' = Tail(m_queue),
         started' = Append(started, Head(m_queue)), added' = added
  PROVE  Order'
<1> DEFINE S == 1 .. MaxTasks
<1>0. m_queue \in Seq(S) /\ started \in Seq(S) /\ added \in 0 .. MaxTasks /\ MaxTasks \in Nat
  BY BoundsAssumption DEF Order
<1> HIDE DEF S
<1>a. Len(m_queue) \in Nat \ {0} /\ Len(started) \in Nat
  BY <1>0, EmptySeq, LenProperties
<1>1. /\ Len(m_queue) \in Nat \ {0} /\ Len(started) \in Nat /\ added \in Nat
      /\ Head(m_queue) = m_queue[1] /\ Head(m_queue) \in S
      /\ Tail(m_queue) \in Seq(S) /\ Len(Tail(m_queue)) = Len(m_queue) - 1
      /\ \A k \in 1 .. Len(m_queue) - 1 : Tail(m_queue)[k] = m_queue[k + 1]
  BY <1>0, <1>a, HeadTailProperties
<1>2. /\ started' \in Seq(S) /\ Len(started') = Len(started) + 1
      /\ \A k \in 1 .. Len(started) : started'[k] = started[k]
      /\ started'[Len(started) + 1] = Head(m_queue)
  BY <1>0, <1>1, AppendProperties
<1>3. Head(m_queue) = Len(started) + 1
  BY <1>1 DEF Order
<1>4. \A k \in 1 .. Len(started') : started'[k] = k
  BY <1>1, <1>2, <1>3 DEF Order
<1>5. \A k \in 1 .. Len(m_queue') : m_queue'[k] = Len(started') + k
  <2> SUFFICES ASSUME NEW k \in 1 .. Len(m_queue) - 1
               PROVE  m_queue'[k] = Len(started) + 1 + k
    BY <1>1, <1>2
  <2>1. m_queue'[k] = m_queue[k + 1] /\ k + 1 \in 1 .. Len(m_queue)
    BY <1>1
  <2> QED  BY <1>1, <2>1 DEF Order
<1>6. Len(started') + Len(m_queue') = added'
  BY <1>1, <1>2 DEF Order
<1> QED  BY <1>0, <1>1, <1>2, <1>4, <1>5, <1>6 DEF Order, S

(* A task is added at the end. *)
LEMMA OrderWhenAdded ==
  ASSUME Order, added < MaxTasks, added' = added + 1,
         m_queue' = Append(m_queue, added + 1), started' = started
  PROVE  Order'
<1>1. Len(m_queue) \in Nat /\ Len(started) \in Nat /\ added \in Nat /\ MaxTasks \in Nat
  BY LenProperties, BoundsAssumption DEF Order
<1>2. Len(started) + Len(m_queue) = added
  BY DEF Order
<1>3. added + 1 \in 1 .. MaxTasks
  BY <1>1
<1>4. /\ m_queue' \in Seq(1 .. MaxTasks) /\ Len(m_queue') = Len(m_queue) + 1
      /\ \A k \in 1 .. Len(m_queue) : m_queue'[k] = m_queue[k]
      /\ m_queue'[Len(m_queue) + 1] = added + 1
  BY <1>3, AppendProperties DEF Order
<1>5. added + 1 = Len(started) + (Len(m_queue) + 1)
  BY <1>1, <1>2
<1>6. ASSUME NEW k \in 1 .. Len(m_queue') PROVE m_queue'[k] = Len(started) + k
  <2>1. CASE k \in 1 .. Len(m_queue)
    BY <1>4, <2>1 DEF Order
  <2>2. CASE k = Len(m_queue) + 1
    BY <1>4, <1>5, <2>2
  <2> QED  BY <1>1, <1>4, <2>1, <2>2
<1>7. Len(started') + Len(m_queue') = added'
  BY <1>4, <1>5
<1> QED  BY <1>3, <1>4, <1>6, <1>7 DEF Order

LEMMA NextOrder == Order /\ [Next]_vars => Order'
<1> SUFFICES ASSUME Order, [Next]_vars PROVE Order'
  OBVIOUS
<1>1. CASE UNCHANGED <<m_queue, added, started>>
  BY <1>1 DEF Order
<1>2. ASSUME NEW i \in Threads, Work(i) PROVE Order'
  <2>1. added' = added
    BY <1>2 DEF Work, mainVars
  <2>2. \/ UNCHANGED <<m_queue, started>>
        \/ /\ m_queue # <<>> /\ m_queue' = Tail(m_queue)
           /\ started' = Append(started, Head(m_queue))
    BY <1>2 DEF Work, TaskRest
  <2> QED  BY <1>1, <2>1, <2>2, OrderWhenStarted
<1>3. ASSUME NEW i \in Threads, TestFalse(i) \/ Sleep(i) \/ FinishTask(i) \/ SpuriousWake(i)
      PROVE  UNCHANGED <<m_queue, added, started>>
  BY <1>3 DEF TestFalse, Sleep, FinishTask, SpuriousWake, mainVars
<1>4. CASE Manager
  BY <1>1, <1>4
     DEF Manager, ManagerLoop, ReadLive, ReadBusy, CreateThreads, RetireThreads, mainVars
<1>5. CASE AddTask
  BY <1>5, OrderWhenAdded DEF AddTask, TaskAdded
<1>6. CASE NotifyOne \/ SetShutdown \/ NotifyAll \/ JoinAll
  BY <1>1, <1>6 DEF NotifyOne, SetShutdown, NotifyAll, JoinAll
<1>7. CASE UNCHANGED vars
  BY <1>1, <1>7 DEF vars, mainVars
<1> QED
  BY <1>1, <1>2, <1>3, <1>4, <1>5, <1>6, <1>7 DEF Next, Worker, Main, Ended

LEMMA OrderInductive == Spec => []Order
BY InitOrder, NextOrder, PTL DEF Spec

(* Tasks start in the order they were added, none twice and none left out, *)
(* however many workers there are and whenever they come and go.           *)
THEOREM TasksInOrderHolds == Spec => []TasksInOrder
<1>1. Order => TasksInOrder
  <2> SUFFICES ASSUME Order PROVE TasksInOrder
    OBVIOUS
  <2> DEFINE all == started \o m_queue
             row == [k \in 1 .. added |-> k]
  <2>1. /\ Len(started) \in Nat /\ Len(m_queue) \in Nat /\ added \in Nat
        /\ Len(started) + Len(m_queue) = added
    BY LenProperties DEF Order
  <2>2. /\ all \in Seq(1 .. MaxTasks) /\ Len(all) = added
        /\ \A k \in 1 .. added : all[k] = IF k <= Len(started) THEN started[k]
                                          ELSE m_queue[k - Len(started)]
    BY <2>1, ConcatProperties DEF Order
  <2>3. \A k \in 1 .. added : all[k] = k
    <3> SUFFICES ASSUME NEW k \in 1 .. added PROVE all[k] = k
      OBVIOUS
    <3>1. CASE k <= Len(started)
      BY <2>1, <2>2, <3>1 DEF Order
    <3>2. CASE k > Len(started)
      <4>1. k - Len(started) \in 1 .. Len(m_queue)
        BY <2>1, <3>2
      <4>2. m_queue[k - Len(started)] = Len(started) + (k - Len(started))
        BY <4>1 DEF Order
      <4> QED  BY <2>1, <2>2, <3>2, <4>2
    <3> QED  BY <2>1, <3>1, <3>2
  <2>4. all = [k \in 1 .. Len(all) |-> all[k]]
    BY <2>2, LenProperties
  <2> HIDE DEF all
  <2>5. all = row
    BY <2>2, <2>3, <2>4
  <2> QED  BY <2>5 DEF TasksInOrder, all
<1> QED  BY <1>1, OrderInductive, PTL

-----------------------------------------------------------------------------
(* The two counters. *)

Live == {i \in Threads : wpc[i] \notin {"none", "exited"}}
Busy == {i \in Threads : wpc[i] = "run"}

Counts ==
  /\ ~m_shutdown => m_live_num = Cardinality(Live)
  /\ m_busy_num = Cardinality(Busy)

LEMMA LiveFinite ==
  /\ IsFiniteSet(Live) /\ Cardinality(Live) \in Nat
  /\ IsFiniteSet(Busy) /\ Cardinality(Busy) \in 0 .. MaxNum
<1>1. IsFiniteSet(Threads) /\ Cardinality(Threads) = MaxNum
  BY Sizes, FS_Interval
<1>2. Live \in SUBSET Threads /\ Busy \in SUBSET Threads
  BY DEF Live, Busy
<1>3. IsFiniteSet(Live) /\ IsFiniteSet(Busy) /\ Cardinality(Busy) <= MaxNum
  BY <1>1, <1>2, FS_Subset
<1> QED  BY <1>3, FS_CardinalityType, Sizes

LEMMA InitCounts == Init => Counts
<1> SUFFICES ASSUME Init PROVE Counts
  OBVIOUS
<1>1. Live = 1 .. MinNum
  BY Sizes DEF Init, Live
<1>2. Busy = {}
  BY DEF Init, Busy
<1>3. Cardinality(Live) = MinNum /\ Cardinality(Busy) = 0
  BY <1>1, <1>2, FS_Interval, FS_EmptySet, Sizes
<1> QED  BY <1>3 DEF Init, Counts

(* A thread that goes on living, and does not begin or end a task. *)
LEMMA CountsUntouched ==
  ASSUME Counts, UNCHANGED <<m_busy_num, m_live_num>>, m_shutdown => m_shutdown',
         \A i \in Threads : /\ (wpc'[i] \in {"none", "exited"}) <=> (wpc[i] \in {"none", "exited"})
                            /\ (wpc'[i] = "run") <=> (wpc[i] = "run")
  PROVE  Counts'
<1>1. Live' = Live /\ Busy' = Busy
  BY DEF Live, Busy
<1> QED  BY <1>1 DEF Counts

LEMMA WorkCounts ==
  ASSUME Shape, Counts, NEW i \in Threads, Work(i)
  PROVE  Counts'
<1>0. wpc[i] = "ready" /\ wpc \in [Threads -> Places] /\ m_shutdown' = m_shutdown
  BY DEF Work, Shape
<1>1. CASE Retire(i)
  <2>1. m_live_num' = m_live_num - 1 /\ m_busy_num' = m_busy_num
        /\ wpc' = [wpc EXCEPT ![i] = "exited"]
    BY <1>1 DEF Work
  <2>2. Live' = Live \ {i} /\ i \in Live /\ Busy' = Busy
    BY <1>0, <2>1 DEF Live, Busy
  <2>3. Cardinality(Live') = Cardinality(Live) - 1
    BY <2>2, LiveFinite, FS_RemoveElement
  <2> QED  BY <1>0, <2>1, <2>2, <2>3 DEF Counts
<1>2. CASE ~Retire(i) /\ m_shutdown
  <2>1. m_busy_num' = m_busy_num /\ wpc' = [wpc EXCEPT ![i] = "exited"]
    BY <1>2 DEF Work
  <2>2. Busy' = Busy
    BY <1>0, <2>1 DEF Busy
  <2> QED  BY <1>0, <1>2, <2>1, <2>2 DEF Counts
<1>3. CASE ~Retire(i) /\ ~m_shutdown /\ m_queue # <<>>
  <2>1. m_live_num' = m_live_num /\ m_busy_num' = m_busy_num + 1
        /\ wpc' = [wpc EXCEPT ![i] = "run"]
    BY <1>3 DEF Work
  <2>2. Live' = Live /\ Busy' = Busy \cup {i} /\ i \notin Busy
    BY <1>0, <2>1 DEF Live, Busy
  <2>3. Cardinality(Busy') = Cardinality(Busy) + 1
    BY <2>2, LiveFinite, FS_AddElement
  <2> QED  BY <1>0, <2>1, <2>2, <2>3 DEF Counts
<1>4. CASE ~Retire(i) /\ ~m_shutdown /\ m_queue = <<>>
  <2>1. UNCHANGED <<m_live_num, m_busy_num, wpc>>
    BY <1>4 DEF Work
  <2> QED  BY <1>0, <2>1, CountsUntouched
<1> QED  BY <1>1, <1>2, <1>3, <1>4

LEMMA CreateCounts ==
  ASSUME Shape, Counts, CreateThreads
  PROVE  Counts'
<1>1. CASE UNCHANGED <<size, m_live_num, wpc>>
  BY <1>1, CountsUntouched DEF CreateThreads
<1>2. CASE /\ size' = size + Newcomers /\ m_live_num' = m_live_num + Newcomers
           /\ wpc' = [i \in Threads |-> IF i \in size + 1 .. size' THEN "ready" ELSE wpc[i]]
  <2> DEFINE new == size + 1 .. size'
  <2>1. /\ Newcomers \in Nat /\ size \in Nat /\ size' \in Nat /\ size' <= MaxNum
        /\ size' = size + Newcomers /\ m_live_num \in Nat
    BY <1>2, NewcomersFit, Sizes DEF Shape
  <2>2. new \subseteq Threads /\ \A i \in new : wpc[i] = "none"
    BY <2>1, Sizes DEF Shape
  <2>3. IsFiniteSet(new) /\ Cardinality(new) = Newcomers
    BY <2>1, FS_Interval
  <2> HIDE DEF new
  <2>4. wpc' = [i \in Threads |-> IF i \in new THEN "ready" ELSE wpc[i]]
    BY <1>2 DEF new
  <2>5. Live' = Live \cup new /\ Live \cap new = {} /\ Busy' = Busy
    BY <2>2, <2>4 DEF Live, Busy
  <2>6. Cardinality(Live') = Cardinality(Live) + Newcomers
    <3>1. Cardinality(Live \cup new) = Cardinality(Live) + Cardinality(new) - Cardinality(Live \cap new)
      BY <2>3, LiveFinite, FS_Union
    <3>2. Cardinality(Live \cap new) = 0
      BY <2>5, FS_EmptySet
    <3> QED  BY <2>1, <2>3, <2>5, <3>1, <3>2, LiveFinite
  <2>7. m_busy_num' = m_busy_num /\ m_shutdown' = m_shutdown /\ m_live_num' = m_live_num + Newcomers
    BY <1>2 DEF CreateThreads
  <2> QED  BY <2>5, <2>6, <2>7 DEF Counts
<1> QED  BY <1>1, <1>2 DEF CreateThreads

LEMMA NextCounts == Shape /\ Counts /\ [Next]_vars => Counts'
<1> SUFFICES ASSUME Shape, Counts, [Next]_vars PROVE Counts'
  OBVIOUS
<1>0. wpc \in [Threads -> Places]
  BY DEF Shape
<1>1. ASSUME NEW i \in Threads, FinishTask(i) PROVE Counts'
  <2>1. wpc[i] = "run" /\ wpc' = [wpc EXCEPT ![i] = "ready"]
        /\ m_busy_num' = m_busy_num - 1 /\ UNCHANGED <<m_live_num, m_shutdown>>
    BY <1>1 DEF FinishTask
  <2>2. Live' = Live /\ Busy' = Busy \ {i} /\ i \in Busy
    BY <1>0, <2>1 DEF Live, Busy
  <2>3. Cardinality(Busy') = Cardinality(Busy) - 1
    BY <2>2, LiveFinite, FS_RemoveElement
  <2> QED  BY <2>1, <2>2, <2>3 DEF Counts
<1>2. ASSUME NEW i \in Threads, TestFalse(i) \/ Sleep(i) \/ SpuriousWake(i) PROVE Counts'
  <2>1. /\ wpc[i] \in {"ready", "tested", "asleep"}
        /\ \E p \in {"ready", "tested", "asleep"} : wpc' = [wpc EXCEPT ![i] = p]
        /\ UNCHANGED <<m_busy_num, m_live_num, m_shutdown>>
    BY <1>2 DEF TestFalse, Sleep, SpuriousWake, counters
  <2> QED  BY <1>0, <2>1, CountsUntouched
<1>3. CASE ManagerLoop \/ ReadLive \/ ReadBusy \/ AddTask \/ JoinAll \/ UNCHANGED vars
  BY <1>3, CountsUntouched
     DEF ManagerLoop, ReadLive, ReadBusy, AddTask, JoinAll, vars, counters, workerVars
<1>4. CASE RetireThreads \/ NotifyAll \/ NotifyOne
  <2>1. \A i \in Threads : wpc'[i] = wpc[i] \/ (wpc[i] = "asleep" /\ wpc'[i] = "ready")
    BY <1>0, <1>4 DEF RetireThreads, NotifyAll, NotifyOne, Woken
  <2>2. UNCHANGED <<m_busy_num, m_live_num, m_shutdown>>
    BY <1>4 DEF RetireThreads, NotifyAll, NotifyOne, counters
  <2> QED  BY <2>1, <2>2, CountsUntouched
<1>5. CASE SetShutdown
  <2>1. m_shutdown' /\ UNCHANGED <<m_busy_num, m_live_num, wpc>>
    BY <1>5 DEF SetShutdown, counters, workerVars
  <2> QED  BY <2>1, CountsUntouched
<1> QED
  BY <1>1, <1>2, <1>3, <1>4, <1>5, WorkCounts, CreateCounts DEF Next, Worker, Manager, Main, Ended

LEMMA CountsInductive == Spec => []Counts
BY InitCounts, NextCounts, ShapeInductive, PTL DEF Spec

(* The live count stays within its limits and counts the threads that run, *)
(* although the manager decides on counts it has read earlier.             *)
THEOREM LiveCountExactHolds == Spec => []LiveCountExact
<1>1. Shape /\ Counts => LiveCountExact
  BY DEF Shape, Counts, Live, LiveCountExact
<1> QED  BY <1>1, ShapeInductive, CountsInductive, PTL

-----------------------------------------------------------------------------
(* The type invariant: what is left of it are the workers' tasks and what  *)
(* the manager has read.                                                   *)

RestTypes ==
  /\ task \in [Threads -> 0 .. MaxTasks]
  /\ spurious \in 0 .. MaxSpurious
  /\ seen \in [queue : 0 .. MaxTasks, live : 0 .. MaxNum, busy : 0 .. MaxNum]

LEMMA InitRestTypes == Init => RestTypes
BY Sizes, BoundsAssumption DEF Init, RestTypes

LEMMA NextRestTypes ==
  Shape /\ Order /\ Counts /\ RestTypes /\ [Next]_vars => RestTypes'
<1> SUFFICES ASSUME Shape, Order, Counts, RestTypes, [Next]_vars PROVE RestTypes'
  OBVIOUS
<1>0. /\ task \in [Threads -> 0 .. MaxTasks] /\ spurious \in 0 .. MaxSpurious
      /\ seen \in [queue : 0 .. MaxTasks, live : 0 .. MaxNum, busy : 0 .. MaxNum]
      /\ MaxTasks \in Nat /\ MaxSpurious \in Nat
  BY BoundsAssumption DEF RestTypes
<1>1. ASSUME NEW i \in Threads, Worker(i) \/ SpuriousWake(i) PROVE RestTypes'
  <2>1. seen' = seen
    BY <1>1, WorkerMoves
  <2>2. spurious' \in 0 .. MaxSpurious
    BY <1>0, <1>1 DEF Worker, TestFalse, Sleep, Work, FinishTask, SpuriousWake
  <2>3. task' \in [Threads -> 0 .. MaxTasks]
    <3>1. CASE Work(i)
      <4>1. m_queue # <<>> => Head(m_queue) \in 0 .. MaxTasks
        BY <1>0, HeadTailProperties DEF Order
      <4> QED  BY <1>0, <3>1, <4>1 DEF Work
    <3>2. CASE TestFalse(i) \/ Sleep(i) \/ FinishTask(i) \/ SpuriousWake(i)
      BY <1>0, <3>2 DEF TestFalse, Sleep, FinishTask, SpuriousWake
    <3> QED  BY <1>1, <3>1, <3>2 DEF Worker
  <2> QED  BY <1>0, <2>1, <2>2, <2>3 DEF RestTypes
<1>2. CASE Manager
  <2>1. UNCHANGED <<task, spurious>>
    BY <1>2 DEF Manager, ManagerLoop, ReadLive, ReadBusy, CreateThreads, RetireThreads, workerVars
  <2>2. Len(m_queue) \in 0 .. MaxTasks
    BY <1>0, LenProperties DEF Order
  <2>3. m_live_num \in 0 .. MaxNum /\ m_busy_num \in 0 .. MaxNum
    BY Sizes, LiveFinite DEF Shape, Counts
  <2>4. \/ seen' = seen \/ seen' = [seen EXCEPT !.queue = Len(m_queue)]
        \/ seen' = [seen EXCEPT !.live = m_live_num] \/ seen' = [seen EXCEPT !.busy = m_busy_num]
    BY <1>2 DEF Manager, ManagerLoop, ReadLive, ReadBusy, CreateThreads, RetireThreads
  <2>5. seen' \in [queue : 0 .. MaxTasks, live : 0 .. MaxNum, busy : 0 .. MaxNum]
    BY <1>0, <2>2, <2>3, <2>4
  <2> QED  BY <1>0, <2>1, <2>5 DEF RestTypes
<1>3. CASE Main \/ UNCHANGED vars
  BY <1>3 DEF Main, AddTask, NotifyOne, SetShutdown, NotifyAll, JoinAll, workerVars, manVars, vars,
              RestTypes
<1> QED  BY <1>1, <1>2, <1>3 DEF Next, Ended

(* The variables keep their types: the busy count never goes below zero    *)
(* and what the manager acts on was within the limits when it was read.    *)
THEOREM TypesHold == Spec => []TypeOK
<1>1. Shape /\ Order /\ Counts /\ RestTypes => TypeOK
  BY LiveFinite, Sizes DEF Shape, Places, Order, Counts, RestTypes, TypeOK
<1> QED
  BY <1>1, InitRestTypes, NextRestTypes, ShapeInductive, OrderInductive, CountsInductive, PTL DEF Spec
=============================================================================
