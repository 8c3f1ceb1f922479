---------------------------- MODULE ConnectionPool ----------------------------
(***************************************************************************)
(* connection_pool and connectionRAII of sql_connection_pool.{h,cpp}: a    *)
(* list of open MySQL connections under a mutex, with a semaphore that     *)
(* counts them.  The size test of GetConnection reads the list without the *)
(* mutex, the semaphore is taken before the mutex and posted after it, so  *)
(* a call is several steps:                                                *)
(*   "out"       not in the pool, no connectionRAII object                 *)
(*   "checked"   past the unlocked size test, before reserve.wait          *)
(*   "reserved"  past reserve.wait, before the mutex                       *)
(*   "using"     a connectionRAII is alive; con[t] is its conRAII          *)
(*   "returned"  the connection is back in the list, before reserve.post   *)
(* A locked section has no blocking call inside and is one step.           *)
(***************************************************************************)
EXTENDS Integers, Sequences, FiniteSets, SequencesExt

CONSTANTS
  Conns,       \* the handles mysql_real_connect may return
  NULL,        \* the null handle
  Threads,     \* the threads that use the pool
  MaxConn      \* the argument of init

ASSUME MaxConnAssumption == MaxConn \in Nat
ASSUME NullAssumption == NULL \notin Conns
ASSUME ThreadsAssumption == IsFiniteSet(Threads)

VARIABLES
  connList, reserve, m_FreeConn, m_CurConn, m_MaxConn,
  phase,       \* "init", "up", "exited" by exit(1), "crashed" by undefined behaviour
  closed,      \* the connections mysql_close was called on
  pc, con

poolVars == <<connList, reserve, m_FreeConn, m_CurConn, m_MaxConn, phase, closed, pc, con>>

At(where) == {t \in Threads : pc[t] = where}
Holders   == {t \in Threads : con[t] # NULL}

TypeOK ==
  /\ connList \in Seq(Conns)
  /\ reserve \in Nat
  /\ {m_FreeConn, m_CurConn, m_MaxConn} \subseteq Int
  /\ phase \in {"init", "up", "exited", "crashed"}
  /\ closed \subseteq Conns
  /\ pc \in [Threads -> {"out", "checked", "reserved", "using", "returned"}]
  /\ con \in [Threads -> Conns \cup {NULL}]

-----------------------------------------------------------------------------
(* Construction and init. *)

PoolInit ==
  /\ connList = <<>>
  /\ reserve = 0
  /\ m_FreeConn = 0
  /\ m_CurConn = 0
  /\ m_MaxConn = 0
  /\ phase = "init"
  /\ closed = {}
  /\ pc = [t \in Threads |-> "out"]
  /\ con = [t \in Threads |-> NULL]

\* One turn of the loop of init: a new connection is opened and listed.
InitConnect(c) ==
  /\ phase = "init"
  /\ Len(connList) < MaxConn
  /\ c \notin ToSet(connList)
  /\ connList' = Append(connList, c)
  /\ m_FreeConn' = m_FreeConn + 1
  /\ UNCHANGED <<reserve, m_CurConn, m_MaxConn, phase, closed, pc, con>>

\* mysql_init or mysql_real_connect returns NULL: exit(1).
InitFails ==
  /\ phase = "init"
  /\ Len(connList) < MaxConn
  /\ phase' = "exited"
  /\ UNCHANGED <<connList, reserve, m_FreeConn, m_CurConn, m_MaxConn, closed, pc, con>>

\* The loop is over: the semaphore is made with the number of connections.
InitDone ==
  /\ phase = "init"
  /\ Len(connList) >= MaxConn
  /\ reserve' = m_FreeConn
  /\ m_MaxConn' = m_FreeConn
  /\ phase' = "up"
  /\ UNCHANGED <<connList, m_FreeConn, m_CurConn, closed, pc, con>>

-----------------------------------------------------------------------------
(* GetConnection, called by the constructor of connectionRAII. *)

\* The list looks empty: GetConnection returns NULL.
GetNull(t) ==
  /\ phase = "up"
  /\ pc[t] = "out"
  /\ connList = <<>>
  /\ pc' = [pc EXCEPT ![t] = "using"]
  /\ con' = [con EXCEPT ![t] = NULL]
  /\ UNCHANGED <<connList, reserve, m_FreeConn, m_CurConn, m_MaxConn, phase, closed>>

\* The list does not look empty.
GetCheck(t) ==
  /\ phase = "up"
  /\ pc[t] = "out"
  /\ connList # <<>>
  /\ pc' = [pc EXCEPT ![t] = "checked"]
  /\ UNCHANGED <<connList, reserve, m_FreeConn, m_CurConn, m_MaxConn, phase, closed, con>>

\* Mutant of sem_wait: the thread does not block at zero.
sem_wait_NoBlock == reserve' = reserve - 1

sem_wait == reserve > 0 /\ reserve' = reserve - 1

\* reserve.wait()
ReserveWait(t) ==
  /\ phase = "up"
  /\ pc[t] = "checked"
  /\ sem_wait
  /\ pc' = [pc EXCEPT ![t] = "reserved"]
  /\ UNCHANGED <<connList, m_FreeConn, m_CurConn, m_MaxConn, phase, closed, con>>

\* Mutant of pop_front: the connection is copied but not removed.
pop_front_Forgotten == connList

pop_front == Tail(connList)

\* The locked section.  front and pop_front of an empty list are undefined:
\* pop_front frees the list's own header, which ends the process.
TakeConn(t) ==
  /\ phase = "up"
  /\ pc[t] = "reserved"
  /\ IF connList = <<>>
       THEN /\ phase' = "crashed"
            /\ UNCHANGED <<connList, m_FreeConn, m_CurConn, pc, con>>
       ELSE /\ con' = [con EXCEPT ![t] = Head(connList)]
            /\ connList' = pop_front
            /\ m_FreeConn' = m_FreeConn - 1
            /\ m_CurConn' = m_CurConn + 1
            /\ pc' = [pc EXCEPT ![t] = "using"]
            /\ UNCHANGED phase
  /\ UNCHANGED <<reserve, m_MaxConn, closed>>

-----------------------------------------------------------------------------
(* ReleaseConnection, called by the destructor of connectionRAII. *)

\* ReleaseConnection(NULL) returns false.
ReleaseNull(t) ==
  /\ phase = "up"
  /\ pc[t] = "using"
  /\ con[t] = NULL
  /\ pc' = [pc EXCEPT ![t] = "out"]
  /\ UNCHANGED <<connList, reserve, m_FreeConn, m_CurConn, m_MaxConn, phase, closed, con>>

\* The locked section.
ReleaseConn(t) ==
  /\ phase = "up"
  /\ pc[t] = "using"
  /\ con[t] # NULL
  /\ connList' = Append(connList, con[t])
  /\ con' = [con EXCEPT ![t] = NULL]
  /\ m_FreeConn' = m_FreeConn + 1
  /\ m_CurConn' = m_CurConn - 1
  /\ pc' = [pc EXCEPT ![t] = "returned"]
  /\ UNCHANGED <<reserve, m_MaxConn, phase, closed>>

\* Mutant of sem_post: the semaphore is not posted.
sem_post_Lost == reserve' = reserve

sem_post == reserve' = reserve + 1

\* reserve.post()
ReservePost(t) ==
  /\ phase = "up"
  /\ pc[t] = "returned"
  /\ sem_post
  /\ pc' = [pc EXCEPT ![t] = "out"]
  /\ UNCHANGED <<connList, m_FreeConn, m_CurConn, m_MaxConn, phase, closed, con>>

-----------------------------------------------------------------------------
(* DestroyPool.  The destructor of the singleton calls it when main returns,
   while detached worker threads may still be running. *)

\* Mutant of clear: the list keeps the connections that were closed.
clear_Forgotten == connList

\* connList.clear()
clear == <<>>

DestroyPool ==
  /\ phase = "up" /\ connList # <<>>
  /\ closed' = closed \cup ToSet(connList)
  /\ m_CurConn' = 0
  /\ m_FreeConn' = 0
  /\ connList' = clear
  /\ UNCHANGED <<reserve, m_MaxConn, phase, pc, con>>

-----------------------------------------------------------------------------
GetStep(t)     == GetNull(t) \/ GetCheck(t) \/ ReserveWait(t) \/ TakeConn(t)
ReleaseStep(t) == ReleaseNull(t) \/ ReleaseConn(t) \/ ReservePost(t)
InitStep       == (\E c \in Conns : InitConnect(c)) \/ InitFails \/ InitDone

\* The process is gone.
Ended == phase \in {"exited", "crashed"} /\ UNCHANGED poolVars

Next ==
  \/ InitStep
  \/ \E t \in Threads : GetStep(t) \/ ReleaseStep(t)
  \/ DestroyPool
  \/ Ended

Spec == PoolInit /\ [][Next]_poolVars

\* A thread past a semaphore, or at the end of the scope of its
\* connectionRAII, runs on.  Whether a thread starts a new call is its own
\* business, and sem_wait serves any of its waiters.
PoolFairness ==
  \A t \in Threads :
    WF_poolVars(ReserveWait(t)) /\ WF_poolVars(TakeConn(t)) /\ WF_poolVars(ReleaseStep(t))

FairSpec == Spec /\ PoolFairness

-----------------------------------------------------------------------------
(* Properties. *)

\* Until the pool is destroyed the semaphore is exact: its value, the threads
\* that took it but not yet a connection and the threads that listed a
\* connection but have not posted yet add up to the listed connections.
ReserveAccounting ==
  phase = "up" /\ closed = {} =>
    reserve + Cardinality(At("reserved")) + Cardinality(At("returned")) = Len(connList)

\* Until the pool is destroyed GetConnection never calls front and pop_front on
\* an empty list, although the size test is made without the mutex and before.
NoEmptyPop == closed = {} => phase # "crashed"

\* No connection is listed twice, listed while a thread holds it or held by two
\* threads, and until the pool is destroyed none is lost.
ConnectionsConserved ==
  /\ IsInjective(connList)
  /\ \A t \in Holders : con[t] \notin ToSet(connList)
  /\ \A t, u \in Holders : con[t] = con[u] => t = u
  /\ phase = "up" /\ closed = {} => Len(connList) + Cardinality(Holders) = m_MaxConn

\* m_FreeConn and m_CurConn are the free connections and the ones in use, as
\* their comments in sql_connection_pool.h say, until the pool is destroyed.
CountersExact ==
  phase = "up" /\ closed = {} =>
    m_FreeConn = Len(connList) /\ m_CurConn = Cardinality(Holders)

\* With at least as many connections as threads GetConnection never returns
\* NULL before the pool is destroyed, whatever the unlocked size test observes.
NoNullWhenEnough ==
  closed = {} /\ Cardinality(Threads) <= MaxConn =>
    \A t \in At("using") : con[t] # NULL

\* Even with DestroyPool running at any moment, no thread holds and the list
\* never offers a connection that mysql_close was called on.
NoUseAfterClose ==
  closed \cap (ToSet(connList) \cup {con[t] : t \in Holders}) = {}

\* A thread blocked on the semaphore means that some thread is served later:
\* every connection taken comes back and is announced.
WaiterServed == (At("checked") # {}) ~> (At("reserved") # {} \/ phase # "up")

=============================================================================
