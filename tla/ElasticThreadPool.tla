-------------------------- MODULE ElasticThreadPool --------------------------
(***************************************************************************)
(* ThreadPool and TaskQueue of 9.线程池.cpp: a pool whose manager thread   *)
(* starts workers when tasks pile up and retires workers when they idle.   *)
(*                                                                         *)
(* Workers evaluate the predicate of m_not_empty.wait and go to sleep with *)
(* m_mutex_pool held, but add_task and the destructor change the state the *)
(* predicate reads, and notify, without that mutex.  wpc is the place of   *)
(* the i-th thread of m_threads:                                           *)
(*   "none"    not created              "ready"  about to lock             *)
(*   "tested"  holds m_mutex_pool, predicate false, about to sleep         *)
(*   "asleep"  in wait                  "run"    runs task[i]              *)
(*   "exited"  returned, not joined yet                                    *)
(* The manager is at "sleep", then reads the queue size, the live count    *)
(* and the busy count one after the other ("live", "busy"), and then       *)
(* creates ("create") and retires ("retire") on what it read; "ended" is   *)
(* after its loop.  main adds tasks one at a time and then destroys the    *)
(* pool: "idle", "notify", "flagged", "joining", "gone".                   *)
(***************************************************************************)
EXTENDS Integers, Sequences, FiniteSets, SequencesExt

CONSTANTS
  MinNum, MaxNum,  \* m_min_num, m_max_num
  MaxTasks,        \* bound: tasks main adds
  MaxSpurious      \* bound: wake-ups without a notification

ASSUME SizesAssumption == MinNum \in Nat /\ MaxNum \in Nat /\ MinNum <= MaxNum
ASSUME BoundsAssumption == {MaxTasks, MaxSpurious} \subseteq Nat

VARIABLES
  m_queue,                                      \* TaskQueue
  size,                                         \* m_threads.size()
  m_busy_num, m_live_num, m_destory_num, m_shutdown,
  wpc, task, spurious,
  mpc, seen,                                    \* the manager and what it read
  cpc, added, started                           \* main; tasks added; tasks started

counters   == <<m_busy_num, m_live_num, m_destory_num>>
workerVars == <<wpc, task, spurious>>
manVars    == <<mpc, seen>>
mainVars   == <<cpc, added>>
vars == <<m_queue, size, counters, m_shutdown, workerVars, manVars, mainVars, started>>

Threads == 1 .. MaxNum
Min2(a, b) == IF a < b THEN a ELSE b

TypeOK ==
  /\ m_queue \in Seq(1 .. MaxTasks)
  /\ size \in MinNum .. MaxNum
  /\ m_busy_num \in 0 .. MaxNum /\ m_live_num \in Int /\ m_destory_num \in 0 .. 2
  /\ m_shutdown \in BOOLEAN
  /\ wpc \in [Threads -> {"none", "ready", "tested", "asleep", "run", "exited"}]
  /\ task \in [Threads -> 0 .. MaxTasks]
  /\ spurious \in 0 .. MaxSpurious
  /\ mpc \in {"sleep", "live", "busy", "create", "retire", "ended"}
  /\ seen \in [queue : 0 .. MaxTasks, live : 0 .. MaxNum, busy : 0 .. MaxNum]
  /\ cpc \in {"idle", "notify", "flagged", "joining", "gone"}
  /\ added \in 0 .. MaxTasks
  /\ started \in Seq(1 .. MaxTasks)

\* The constructor.
Init ==
  /\ m_queue = <<>>
  /\ size = MinNum
  /\ m_busy_num = 0
  /\ m_live_num = MinNum
  /\ m_destory_num = 0
  /\ m_shutdown = FALSE
  /\ wpc = [i \in Threads |-> IF i <= MinNum THEN "ready" ELSE "none"]
  /\ task = [i \in Threads |-> 0]
  /\ spurious = 0
  /\ mpc = "sleep"
  /\ seen = [queue |-> 0, live |-> 0, busy |-> 0]
  /\ cpc = "idle"
  /\ added = 0
  /\ started = <<>>

\* m_mutex_pool is held across steps only by a worker between the predicate
\* and its sleep.
PoolFree == \A i \in Threads : wpc[i] # "tested"

\* m_not_empty.notify_all()
Woken == [i \in Threads |-> IF wpc[i] = "asleep" THEN "ready" ELSE wpc[i]]

-----------------------------------------------------------------------------
(* worker *)

Predicate == m_queue # <<>> \/ m_shutdown \/ m_destory_num > 0

\* wait: the predicate is false, the mutex is kept ...
TestFalse(i) ==
  /\ wpc[i] = "ready" /\ PoolFree
  /\ ~Predicate
  /\ wpc' = [wpc EXCEPT ![i] = "tested"]
  /\ UNCHANGED <<m_queue, size, counters, m_shutdown, task, spurious, manVars, mainVars, started>>

\* ... until the thread sleeps.
Sleep(i) ==
  /\ wpc[i] = "tested"
  /\ wpc' = [wpc EXCEPT ![i] = "asleep"]
  /\ UNCHANGED <<m_queue, size, counters, m_shutdown, task, spurious, manVars, mainVars, started>>

\* A condition variable (external) may wake a thread for no reason.
SpuriousWake(i) ==
  /\ wpc[i] = "asleep"
  /\ spurious < MaxSpurious
  /\ spurious' = spurious + 1
  /\ wpc' = [wpc EXCEPT ![i] = "ready"]
  /\ UNCHANGED <<m_queue, size, counters, m_shutdown, task, manVars, mainVars, started>>

\* Mutant of Retire: the minimum is not looked at.
RetireAlways(i) == m_destory_num > 0

\* A worker takes one of the retirement tokens and retires if it may.
Retire(i) == m_destory_num > 0 /\ m_live_num > MinNum

\* Mutant of TaskRest: the front task is not popped.
TaskRestAll == m_queue

\* What get_task leaves in the queue.
TaskRest == Tail(m_queue)

\* The locked section after wait returns with the predicate true.
Work(i) ==
  /\ wpc[i] = "ready" /\ PoolFree
  /\ Predicate
  /\ m_destory_num' = IF m_destory_num > 0 THEN m_destory_num - 1 ELSE 0
  /\ \/ /\ Retire(i)
        /\ m_live_num' = m_live_num - 1
        /\ wpc' = [wpc EXCEPT ![i] = "exited"]
        /\ UNCHANGED <<m_queue, m_busy_num, task, started>>
     \/ /\ ~Retire(i) /\ m_shutdown
        /\ wpc' = [wpc EXCEPT ![i] = "exited"]
        /\ UNCHANGED <<m_queue, m_busy_num, m_live_num, task, started>>
     \/ /\ ~Retire(i) /\ ~m_shutdown /\ m_queue # <<>>
        /\ task' = [task EXCEPT ![i] = Head(m_queue)]
        /\ started' = Append(started, Head(m_queue))
        /\ m_queue' = TaskRest
        /\ m_busy_num' = m_busy_num + 1
        /\ wpc' = [wpc EXCEPT ![i] = "run"]
        /\ UNCHANGED m_live_num
     \/ /\ ~Retire(i) /\ ~m_shutdown /\ m_queue = <<>>
        /\ UNCHANGED <<m_queue, m_busy_num, m_live_num, wpc, task, started>>
  /\ UNCHANGED <<size, m_shutdown, spurious, manVars, mainVars>>

\* The task returns; --m_busy_num.
FinishTask(i) ==
  /\ wpc[i] = "run"
  /\ wpc' = [wpc EXCEPT ![i] = "ready"]
  /\ task' = [task EXCEPT ![i] = 0]
  /\ m_busy_num' = m_busy_num - 1
  /\ UNCHANGED <<m_queue, size, m_live_num, m_destory_num, m_shutdown, spurious, manVars, mainVars, started>>

-----------------------------------------------------------------------------
(* manager *)

\* while (!m_shutdown) { sleep; read the queue size ...
ManagerLoop ==
  /\ mpc = "sleep"
  /\ mpc' = IF m_shutdown THEN "ended" ELSE "live"
  /\ seen' = IF m_shutdown THEN seen ELSE [seen EXCEPT !.queue = Len(m_queue)]
  /\ UNCHANGED <<m_queue, size, counters, m_shutdown, workerVars, mainVars, started>>

\* ... then the live count ...
ReadLive ==
  /\ mpc = "live"
  /\ mpc' = "busy"
  /\ seen' = [seen EXCEPT !.live = m_live_num]
  /\ UNCHANGED <<m_queue, size, counters, m_shutdown, workerVars, mainVars, started>>

\* ... and the busy count.
ReadBusy ==
  /\ mpc = "busy"
  /\ mpc' = "create"
  /\ seen' = [seen EXCEPT !.busy = m_busy_num]
  /\ UNCHANGED <<m_queue, size, counters, m_shutdown, workerVars, mainVars, started>>

\* The loop that creates threads passes over the slots of m_threads in use (an
\* exited thread stays joinable) and appends while it may: at most two, up to
\* m_max_num slots and m_max_num live threads.
Newcomers == Min2(2, Min2(MaxNum - size, MaxNum - m_live_num))

CreateThreads ==
  /\ mpc = "create"
  /\ IF seen.queue > seen.live /\ seen.live < MaxNum
       THEN /\ PoolFree
            /\ size' = size + Newcomers
            /\ m_live_num' = m_live_num + Newcomers
            /\ wpc' = [i \in Threads |-> IF i \in size + 1 .. size' THEN "ready" ELSE wpc[i]]
       ELSE UNCHANGED <<size, m_live_num, wpc>>
  /\ mpc' = "retire"
  /\ UNCHANGED <<m_queue, m_busy_num, m_destory_num, m_shutdown, task, spurious, seen, mainVars, started>>

\* Mutant of RetireThreads: the workers are not notified.
RetireSilently ==
  /\ mpc = "retire"
  /\ IF 2 * seen.busy < seen.live /\ seen.live > MinNum
       THEN PoolFree /\ m_destory_num' = 2
       ELSE UNCHANGED m_destory_num
  /\ mpc' = "sleep"
  /\ UNCHANGED <<m_queue, size, m_busy_num, m_live_num, m_shutdown, workerVars, seen, mainVars, started>>

RetireThreads ==
  /\ mpc = "retire"
  /\ IF 2 * seen.busy < seen.live /\ seen.live > MinNum
       THEN /\ PoolFree
            /\ m_destory_num' = 2
            /\ wpc' = Woken
       ELSE UNCHANGED <<m_destory_num, wpc>>
  /\ mpc' = "sleep"
  /\ UNCHANGED <<m_queue, size, m_busy_num, m_live_num, m_shutdown, task, spurious, seen, mainVars, started>>

-----------------------------------------------------------------------------
(* add_task and the destructor, called by main. *)

\* TaskQueue::add_task: the tasks are numbered as they come.
TaskAdded == Append(m_queue, added + 1)

AddTask ==
  /\ cpc = "idle"
  /\ added < MaxTasks
  /\ ~m_shutdown
  /\ added' = added + 1
  /\ m_queue' = TaskAdded
  /\ cpc' = "notify"
  /\ UNCHANGED <<size, counters, m_shutdown, workerVars, manVars, started>>

\* notify_one wakes one sleeper, if there is one.
NotifyOne ==
  /\ cpc = "notify"
  /\ cpc' = "idle"
  /\ \/ \E i \in Threads : wpc[i] = "asleep" /\ wpc' = [wpc EXCEPT ![i] = "ready"]
     \/ (\A i \in Threads : wpc[i] # "asleep") /\ UNCHANGED wpc
  /\ UNCHANGED <<m_queue, size, counters, m_shutdown, task, spurious, manVars, added, started>>

SetShutdown ==
  /\ cpc = "idle"
  /\ m_shutdown' = TRUE
  /\ cpc' = "flagged"
  /\ UNCHANGED <<m_queue, size, counters, workerVars, manVars, added, started>>

\* Mutant of NotifyAll: notify_one.
NotifyJustOne ==
  /\ cpc = "flagged"
  /\ \/ \E i \in Threads : wpc[i] = "asleep" /\ wpc' = [wpc EXCEPT ![i] = "ready"]
     \/ (\A i \in Threads : wpc[i] # "asleep") /\ UNCHANGED wpc
  /\ cpc' = "joining"
  /\ UNCHANGED <<m_queue, size, counters, m_shutdown, task, spurious, manVars, added, started>>

NotifyAll ==
  /\ cpc = "flagged"
  /\ wpc' = Woken
  /\ cpc' = "joining"
  /\ UNCHANGED <<m_queue, size, counters, m_shutdown, task, spurious, manVars, added, started>>

\* Join the manager, then every thread of m_threads.
JoinAll ==
  /\ cpc = "joining"
  /\ mpc = "ended"
  /\ \A i \in 1 .. size : wpc[i] = "exited"
  /\ cpc' = "gone"
  /\ UNCHANGED <<m_queue, size, counters, m_shutdown, workerVars, manVars, added, started>>

-----------------------------------------------------------------------------
Worker(i) == TestFalse(i) \/ Sleep(i) \/ Work(i) \/ FinishTask(i)
Manager   == ManagerLoop \/ ReadLive \/ ReadBusy \/ CreateThreads \/ RetireThreads
Main      == AddTask \/ NotifyOne \/ SetShutdown \/ NotifyAll \/ JoinAll

\* main has returned from the destructor, or waits for a thread that never ends.
Ended ==
  /\ mpc = "ended" /\ cpc \in {"joining", "gone"}
  /\ \A i \in 1 .. size : wpc[i] \in {"asleep", "exited"}
  /\ UNCHANGED vars

Next ==
  \/ \E i \in Threads : Worker(i) \/ SpuriousWake(i)
  \/ Manager
  \/ Main
  \/ Ended

Spec == Init /\ [][Next]_vars

\* Threads keep running, tasks end, and main completes the call it is in.
\* Whether main adds a task or destroys the pool is its own choice.
FairSpec ==
  /\ Spec
  /\ \A i \in Threads : WF_vars(Worker(i))
  /\ WF_vars(Manager)
  /\ WF_vars(NotifyOne) /\ WF_vars(NotifyAll) /\ WF_vars(JoinAll)

-----------------------------------------------------------------------------
(* Properties. *)

\* The live count stays between the two limits and is exact until shutdown,
\* although the manager acts on counts it read earlier without the mutex.
LiveCountExact ==
  /\ m_live_num \in MinNum .. MaxNum
  /\ ~m_shutdown =>
       m_live_num = Cardinality({i \in Threads : wpc[i] \notin {"none", "exited"}})

\* Tasks start in the order they were added, each once, whatever threads come
\* and go.
TasksInOrder == started \o m_queue = [k \in 1 .. added |-> k]

\* The destructor notifies without m_mutex_pool, which the workers hold from
\* their test to their sleep: at most one of them, the one in between, misses
\* the notification, whatever threads are created or retired meanwhile.  That
\* one is then joined for ever; no other sleeper is left for the destructor to hang on.
MissedByOne ==
  cpc \in {"joining", "gone"} =>
    \A i, j \in Threads : {wpc[i], wpc[j]} \subseteq {"tested", "asleep"} => i = j

\* Left alone, the pool shrinks to its minimum: the retirement notice of the
\* manager is not lost, for it is given with m_mutex_pool held.
IdlePoolShrinks == <>[]~m_shutdown => <>[](m_live_num = MinNum)

\* A queued task is taken, as main expects when it sleeps to let its tasks
\* complete.
TasksTaken == (m_queue # <<>>) ~> (m_queue = <<>> \/ m_shutdown)

=============================================================================
