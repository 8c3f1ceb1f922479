--------------------------- MODULE ThreadPoolProofs ---------------------------
(***************************************************************************)
(* The request pool for any requests, workers, queue length and            *)
(* connections.  These invariants stand on the types of the variables:     *)
(*   Account    the semaphore of the queue, for QueueSemExact              *)
(*   Exclusive  who has a request in the Proactor model, for OneOwner      *)
(*   OwnMysql   whose connection a request points to, for OwnConnection;   *)
(*              it needs Exclusive                                         *)
(*   Handshake  main waits for the one request that is queued or served in *)
(*              the Reactor model, for NoStaleImprov                       *)
(* Every step of the workers is a step of the connection pool or leaves it *)
(* alone, and main destroys the pool when it returns (UsesPool), so the    *)
(* pool's own theorems hold of it here (CrashOnlyAtExitHolds, PoolSafe).   *)
(***************************************************************************)
EXTENDS ThreadPool, SequenceTheorems, FiniteSetTheorems, TLAPS

Places == {"idle", "woken", "took", "serve", "leave", "failed"}

(* main is between the push and its release. *)
Appending == main \in {"post", "await"}

Types ==
  /\ m_workqueue \in Seq(Requests) /\ m_queuestat \in Nat
  /\ wpc \in [Workers -> Places]
  /\ req \in [Workers -> Requests \cup {NULL}]
  /\ \A w \in Workers : wpc[w] \in {"took", "serve", "leave", "failed"} => req[w] \in Requests
  /\ event \in [Requests -> {"closed", "in", "out", "off"}]
  /\ improv \in [Requests -> BOOLEAN]
  /\ mysql = [r \in Requests |-> mysql[r]]
  /\ pc = [w \in Workers |-> pc[w]] /\ con = [w \in Workers |-> con[w]]
  /\ main \in {"idle", "post", "await", "exited"}
  /\ Appending => asked \in Requests

-----------------------------------------------------------------------------
(* The queue as a sequence. *)

LEMMA QueueAppend ==
  ASSUME NEW q \in Seq(Requests), NEW r \in Requests
  PROVE  /\ Append(q, r) \in Seq(Requests) /\ Len(Append(q, r)) = Len(q) + 1
         /\ ToSet(Append(q, r)) = ToSet(q) \cup {r}
         /\ IsInjective(q) /\ r \notin ToSet(q) => IsInjective(Append(q, r))
<1>1. /\ Append(q, r) \in Seq(Requests) /\ Len(Append(q, r)) = Len(q) + 1
      /\ DOMAIN q = 1 .. Len(q) /\ Len(q) \in Nat
      /\ DOMAIN Append(q, r) = 1 .. (Len(q) + 1)
      /\ \A i \in 1 .. Len(q) : Append(q, r)[i] = q[i]
      /\ Append(q, r)[Len(q) + 1] = r
  BY LenProperties, AppendProperties
<1>2. 1 .. (Len(q) + 1) = (1 .. Len(q)) \cup {Len(q) + 1}
  BY <1>1
<1>3. ToSet(Append(q, r)) = ToSet(q) \cup {r}
  BY <1>1, <1>2 DEF ToSet
<1>4. ASSUME IsInjective(q), r \notin ToSet(q) PROVE IsInjective(Append(q, r))
  BY <1>1, <1>2, <1>4 DEF ToSet, IsInjective
<1> QED  BY <1>1, <1>3, <1>4

LEMMA QueueTail ==
  ASSUME NEW q \in Seq(Requests), q # <<>>
  PROVE  /\ Head(q) \in Requests /\ Tail(q) \in Seq(Requests)
         /\ Len(q) \in Nat /\ Len(q) > 0 /\ Len(Tail(q)) = Len(q) - 1
         /\ Head(q) \in ToSet(q) /\ ToSet(Tail(q)) \subseteq ToSet(q)
         /\ IsInjective(q) => IsInjective(Tail(q)) /\ Head(q) \notin ToSet(Tail(q))
<1>1. /\ Len(q) \in Nat /\ Len(q) > 0 /\ DOMAIN q = 1 .. Len(q)
      /\ Tail(q) \in Seq(Requests) /\ Len(Tail(q)) = Len(q) - 1
      /\ DOMAIN Tail(q) = 1 .. (Len(q) - 1)
      /\ \A i \in 1 .. (Len(q) - 1) : Tail(q)[i] = q[i + 1]
      /\ Head(q) = q[1] /\ q[1] \in Requests
  BY EmptySeq, LenProperties, HeadTailProperties
<1>2. \A i \in 1 .. (Len(q) - 1) : i + 1 \in 1 .. Len(q) /\ i + 1 # 1
  BY <1>1
<1>3. Head(q) \in ToSet(q) /\ ToSet(Tail(q)) \subseteq ToSet(q)
  BY <1>1, <1>2 DEF ToSet
<1>4. ASSUME IsInjective(q) PROVE IsInjective(Tail(q)) /\ Head(q) \notin ToSet(Tail(q))
  <2>1. Head(q) \notin ToSet(Tail(q))
    BY <1>1, <1>2, <1>4 DEF ToSet, IsInjective
  <2>2. ASSUME NEW a \in 1 .. (Len(q) - 1), NEW b \in 1 .. (Len(q) - 1), Tail(q)[a] = Tail(q)[b]
        PROVE  a = b
    <3>1. a + 1 = b + 1
      BY <1>1, <1>2, <1>4, <2>2 DEF IsInjective
    <3> QED  BY <3>1
  <2> QED  BY <1>1, <2>1, <2>2 DEF IsInjective
<1> QED  BY <1>1, <1>3, <1>4

-----------------------------------------------------------------------------
(* What a worker's step in the connection pool leaves alone. *)

LEMMA PoolSteps ==
  ASSUME Types, NEW w \in Workers, Pool!GetStep(w) \/ Pool!ReleaseStep(w)
  PROVE  /\ pc' = [v \in Workers |-> pc'[v]] /\ con' = [v \in Workers |-> con'[v]]
         /\ \A v \in Workers \ {w} : pc'[v] = pc[v] /\ con'[v] = con[v]
BY DEF Types, Pool!GetStep, Pool!ReleaseStep, Pool!GetNull, Pool!GetCheck, Pool!ReserveWait,
       Pool!TakeConn, Pool!ReleaseNull, Pool!ReleaseConn, Pool!ReservePost

LEMMA PoolStartSteps ==
  ASSUME Pool!InitStep
  PROVE  UNCHANGED <<pc, con>>
BY DEF Pool!InitStep, Pool!InitConnect, Pool!InitFails, Pool!InitDone

-----------------------------------------------------------------------------
(* main returns only from its loop; the workers go on. *)
LEMMA ExitSteps ==
  ASSUME MainReturns
  PROVE  /\ main = "idle" /\ main' = "exited"
         /\ UNCHANGED <<m_workqueue, m_queuestat, wpc, req, asked, m_actor_model, event, m_state,
                       improv, timer_flag, mysql, pc, con>>
         /\ [Pool!DestroyPool]_(Pool!poolVars)
<1>1. CASE connList = <<>>
  BY <1>1 DEF MainReturns, queueVars, workerVars, httpVars, poolVars, Pool!poolVars
<1>2. CASE connList # <<>>
  BY <1>2 DEF MainReturns, queueVars, workerVars, httpVars, Pool!DestroyPool
<1> QED  BY <1>1, <1>2

LEMMA InitTypes == Init => Types
BY EmptySeq DEF Init, Types, Places, Appending, Pool!PoolInit

(* Every action keeps the types. *)
LEMMA NextTypes == Types /\ [Next]_vars => Types'
<1> SUFFICES ASSUME Types, [Next]_vars PROVE Types'
  OBVIOUS
<1> USE DEF Types, Places, Appending
<1>1. CASE PoolStart
  BY <1>1, PoolStartSteps DEF PoolStart, queueVars, workerVars, mainVars, httpVars
<1>2. ASSUME NEW r \in Requests, Accept(r) \/ MainSocketIO(r) \/ TimerExpires(r) \/ AppendFull(r)
      PROVE  Types'
  BY <1>2 DEF Accept, MainSocketIO, TimerExpires, AppendFull, queueVars, workerVars, mainVars, poolVars
<1>3. ASSUME NEW r \in Requests, AppendPush(r) PROVE Types'
  <2>1. m_workqueue' \in Seq(Requests)
    BY <1>3, QueueAppend DEF AppendPush
  <2> QED  BY <1>3, <2>1 DEF AppendPush, workerVars, poolVars
<1>4. CASE AppendPost
  BY <1>4 DEF AppendPost, sem_post, workerVars, httpVars, poolVars
<1>5. CASE MainNoticesImprov
  BY <1>5 DEF MainNoticesImprov, queueVars, workerVars, poolVars
<1>6. ASSUME NEW w \in Workers, QueueWait(w) PROVE Types'
  BY <1>6 DEF QueueWait, sem_wait, mainVars, httpVars, poolVars
<1>7. ASSUME NEW w \in Workers, TakeRequest(w) PROVE Types'
  <2>1. CASE m_workqueue = <<>>
    BY <1>7, <2>1 DEF TakeRequest, mainVars, httpVars, poolVars
  <2>2. CASE m_workqueue # <<>>
    <3>1. Head(m_workqueue) \in Requests /\ Tail(m_workqueue) \in Seq(Requests)
      BY <2>2, QueueTail
    <3>2. /\ wpc' = [wpc EXCEPT ![w] = "took"] /\ req' = [req EXCEPT ![w] = Head(m_workqueue)]
          /\ m_workqueue' = Tail(m_workqueue)
      BY <1>7, <2>2 DEF TakeRequest, pop_front
    <3>3. \A v \in Workers :
            wpc'[v] \in {"took", "serve", "leave", "failed"} => req'[v] \in Requests
      BY <3>1, <3>2
    <3> QED  BY <1>7, <3>1, <3>2, <3>3 DEF TakeRequest, mainVars, httpVars, poolVars
  <2> QED  BY <2>1, <2>2
<1>8. ASSUME NEW w \in Workers, BeginServe(w) PROVE Types'
  BY <1>8 DEF BeginServe, SetImprov, queueVars, mainVars, poolVars
<1>9. ASSUME NEW w \in Workers, IOFailed(w) PROVE Types'
  BY <1>9 DEF IOFailed, SetImprov, queueVars, mainVars, poolVars
<1>10. ASSUME NEW w \in Workers, SetTimerFlag(w) PROVE Types'
  BY <1>10 DEF SetTimerFlag, queueVars, mainVars, poolVars
<1>11. ASSUME NEW w \in Workers, WriteDone(w) PROVE Types'
  BY <1>11 DEF WriteDone, SetImprov, queueVars, mainVars, poolVars
<1>12. ASSUME NEW w \in Workers, GetConnection(w) PROVE Types'
  <2>1. mysql' = [r \in Requests |-> mysql'[r]]
    BY <1>12 DEF GetConnection
  <2> QED  BY <1>12, <2>1, PoolSteps DEF GetConnection, queueVars, workerVars, mainVars
<1>13. ASSUME NEW w \in Workers, Process(w) PROVE Types'
  BY <1>13 DEF Process, queueVars, mainVars, poolVars
<1>14. ASSUME NEW w \in Workers, ReleaseConnection(w) PROVE Types'
  BY <1>14, PoolSteps DEF ReleaseConnection, queueVars, mainVars, httpVars
<1>15. CASE UNCHANGED vars
  BY <1>15 DEF vars, queueVars, workerVars, mainVars, httpVars, poolVars
<1>16. CASE MainReturns
  BY <1>16, ExitSteps
<1> QED
  BY <1>1, <1>2, <1>3, <1>4, <1>5, <1>6, <1>7, <1>8, <1>9, <1>10, <1>11, <1>12, <1>13, <1>14, <1>15,
     <1>16
     DEF Next, MainStep, WorkerStep, Ended

LEMMA TypesInductive == Spec => []Types
BY InitTypes, NextTypes, PTL DEF Spec

-----------------------------------------------------------------------------
(* The semaphore of the queue. *)

Account ==
  Len(m_workqueue) = m_queuestat + Cardinality(AtWork("woken")) + (IF main = "post" THEN 1 ELSE 0)

LEMMA WokenFinite == IsFiniteSet(AtWork("woken")) /\ Cardinality(AtWork("woken")) \in Nat
<1>1. AtWork("woken") \in SUBSET Workers
  BY DEF AtWork
<1> QED  BY <1>1, WorkersAssumption, FS_Subset, FS_CardinalityType

(* A worker that goes to, or leaves, the place between semaphore and mutex. *)
LEMMA WokenMoves ==
  ASSUME Types, NEW w \in Workers, NEW p \in Places, wpc' = [wpc EXCEPT ![w] = p]
  PROVE  /\ wpc[w] = "idle" /\ p = "woken" =>
              Cardinality(AtWork("woken")') = Cardinality(AtWork("woken")) + 1
         /\ wpc[w] = "woken" /\ p # "woken" =>
              Cardinality(AtWork("woken")') = Cardinality(AtWork("woken")) - 1
         /\ wpc[w] # "woken" /\ p # "woken" => AtWork("woken")' = AtWork("woken")
<1>1. ASSUME wpc[w] = "idle", p = "woken"
      PROVE  Cardinality(AtWork("woken")') = Cardinality(AtWork("woken")) + 1
  <2>1. AtWork("woken")' = AtWork("woken") \cup {w} /\ w \notin AtWork("woken")
    BY <1>1 DEF AtWork, Types
  <2> QED  BY <2>1, WokenFinite, FS_AddElement
<1>2. ASSUME wpc[w] = "woken", p # "woken"
      PROVE  Cardinality(AtWork("woken")') = Cardinality(AtWork("woken")) - 1
  <2>1. AtWork("woken")' = AtWork("woken") \ {w} /\ w \in AtWork("woken")
    BY <1>2 DEF AtWork, Types
  <2> QED  BY <2>1, WokenFinite, FS_RemoveElement
<1>3. ASSUME wpc[w] # "woken", p # "woken" PROVE AtWork("woken")' = AtWork("woken")
  BY <1>3 DEF AtWork, Types
<1> QED  BY <1>1, <1>2, <1>3

LEMMA AccountUntouched ==
  ASSUME Account, UNCHANGED <<m_workqueue, m_queuestat>>,
         AtWork("woken")' = AtWork("woken"), (main' = "post") <=> (main = "post")
  PROVE  Account'
BY DEF Account

LEMMA InitAccount == Init => Account
<1> SUFFICES ASSUME Init PROVE Account
  OBVIOUS
<1>1. AtWork("woken") = {}
  BY DEF Init, AtWork
<1>2. Cardinality(AtWork("woken")) = 0 /\ Len(m_workqueue) = 0
  BY <1>1, FS_EmptySet, EmptySeq DEF Init
<1> QED  BY <1>2 DEF Init, Account

LEMMA NextAccount == Types /\ Account /\ [Next]_vars => Account'
<1> SUFFICES ASSUME Types, Account, [Next]_vars PROVE Account'
  OBVIOUS
<1>0. /\ m_workqueue \in Seq(Requests) /\ Len(m_workqueue) \in Nat /\ m_queuestat \in Nat
      /\ Cardinality(AtWork("woken")) \in Nat
  BY WokenFinite, LenProperties DEF Types
<1>a. ASSUME UNCHANGED wpc PROVE AtWork("woken")' = AtWork("woken")
  BY <1>a DEF AtWork
<1>1. CASE PoolStart
  BY <1>1, <1>a, AccountUntouched DEF PoolStart, queueVars, workerVars, mainVars
<1>2. ASSUME NEW r \in Requests, Accept(r) \/ MainSocketIO(r) \/ TimerExpires(r) \/ AppendFull(r)
      PROVE  Account'
  BY <1>2, <1>a, AccountUntouched
     DEF Accept, MainSocketIO, TimerExpires, AppendFull, queueVars, workerVars, mainVars
<1>3. ASSUME NEW r \in Requests, AppendPush(r) PROVE Account'
  <2>1. Len(m_workqueue') = Len(m_workqueue) + 1
    BY <1>0, <1>3, QueueAppend DEF AppendPush
  <2>2. main = "idle" /\ main' = "post" /\ m_queuestat' = m_queuestat
        /\ AtWork("woken")' = AtWork("woken")
    BY <1>3, <1>a DEF AppendPush, Delivered, workerVars
  <2> QED  BY <1>0, <2>1, <2>2 DEF Account
<1>4. CASE AppendPost
  <2>1. /\ main = "post" /\ main' # "post" /\ m_queuestat' = m_queuestat + 1
        /\ m_workqueue' = m_workqueue /\ AtWork("woken")' = AtWork("woken")
    BY <1>4, <1>a DEF AppendPost, sem_post, workerVars
  <2> QED  BY <1>0, <2>1 DEF Account
<1>5. CASE MainNoticesImprov
  BY <1>5, <1>a, AccountUntouched DEF MainNoticesImprov, queueVars, workerVars
<1>6. ASSUME NEW w \in Workers, QueueWait(w) PROVE Account'
  <2>1. Cardinality(AtWork("woken")') = Cardinality(AtWork("woken")) + 1
    BY <1>6, WokenMoves DEF QueueWait, Places
  <2>2. /\ m_queuestat' = m_queuestat - 1 /\ m_workqueue' = m_workqueue /\ main' = main
    BY <1>6 DEF QueueWait, sem_wait, mainVars
  <2> QED  BY <1>0, <2>1, <2>2 DEF Account
<1>7. ASSUME NEW w \in Workers, TakeRequest(w) PROVE Account'
  <2>1. wpc[w] = "woken" /\ m_queuestat' = m_queuestat /\ main' = main
    BY <1>7 DEF TakeRequest, mainVars
  <2>2. w \in AtWork("woken")
    BY <2>1 DEF AtWork
  <2>3. Cardinality(AtWork("woken")) # 0
    BY <2>2, WokenFinite, FS_EmptySet
  <2>4. m_workqueue # <<>>
    <3> SUFFICES ASSUME m_workqueue = <<>> PROVE FALSE
      OBVIOUS
    <3>1. Len(m_workqueue) = 0
      BY EmptySeq
    <3> QED  BY <1>0, <2>3, <3>1 DEF Account
  <2>5. wpc' = [wpc EXCEPT ![w] = "took"] /\ m_workqueue' = Tail(m_workqueue)
    BY <1>7, <2>4 DEF TakeRequest, pop_front
  <2>6. Cardinality(AtWork("woken")') = Cardinality(AtWork("woken")) - 1
    BY <2>1, <2>5, WokenMoves DEF Places
  <2>7. Len(m_workqueue') = Len(m_workqueue) - 1
    BY <1>0, <2>4, <2>5, QueueTail
  <2> QED  BY <1>0, <2>1, <2>6, <2>7 DEF Account
<1>8. ASSUME NEW w \in Workers, BeginServe(w) \/ IOFailed(w) \/ SetTimerFlag(w) \/ WriteDone(w) \/ Process(w)
      PROVE  Account'
  <2>1. AtWork("woken")' = AtWork("woken")
    BY <1>8, WokenMoves DEF BeginServe, IOFailed, SetTimerFlag, WriteDone, Process, Places
  <2> QED
    BY <1>8, <2>1, AccountUntouched
       DEF BeginServe, IOFailed, SetTimerFlag, WriteDone, Process, queueVars, mainVars
<1>9. ASSUME NEW w \in Workers, GetConnection(w) PROVE Account'
  BY <1>9, <1>a, AccountUntouched DEF GetConnection, queueVars, workerVars, mainVars
<1>10. ASSUME NEW w \in Workers, ReleaseConnection(w) PROVE Account'
  <2>1. AtWork("woken")' = AtWork("woken")
    <3>1. CASE pc'[w] = "out"
      BY <1>10, <3>1, WokenMoves DEF ReleaseConnection, Places
    <3>2. CASE pc'[w] # "out"
      BY <1>10, <3>2, <1>a DEF ReleaseConnection
    <3> QED  BY <3>1, <3>2
  <2> QED  BY <1>10, <2>1, AccountUntouched DEF ReleaseConnection, queueVars, mainVars
<1>11. CASE UNCHANGED vars
  BY <1>11, <1>a, AccountUntouched DEF vars, queueVars, workerVars, mainVars
<1>12. CASE MainReturns
  BY <1>12, <1>a, ExitSteps, AccountUntouched
<1> QED
  BY <1>1, <1>2, <1>3, <1>4, <1>5, <1>6, <1>7, <1>8, <1>9, <1>10, <1>11, <1>12
     DEF Next, MainStep, WorkerStep, Ended

(* The semaphore of the queue is exact although append posts it after the  *)
(* mutex is released and run takes it before: for any number of workers.   *)
THEOREM QueueSemExactHolds == Spec => []QueueSemExact
<1>1. Account => QueueSemExact
  BY DEF Account, QueueSemExact
<1> QED  BY <1>1, InitAccount, NextAccount, TypesInductive, PTL DEF Spec

-----------------------------------------------------------------------------
(* Who has a request in the Proactor model. *)

Owns(w) == wpc[w] \in {"took", "serve"}

Exclusive ==
  ~Reactor =>
    /\ main # "await"
    /\ IsInjective(m_workqueue)
    /\ \A r \in ToSet(m_workqueue) : event[r] = "off"
    /\ \A w \in Workers : Owns(w) => req[w] \notin ToSet(m_workqueue) /\ event[req[w]] = "off"
    /\ \A v, w \in Workers : Owns(v) /\ Owns(w) /\ req[v] = req[w] => v = w

LEMMA InitExclusive == Init => Exclusive
<1> SUFFICES ASSUME Init PROVE Exclusive
  OBVIOUS
<1>1. DOMAIN m_workqueue = {} /\ ToSet(m_workqueue) = {}
  BY DEF Init, ToSet
<1> QED  BY <1>1 DEF Init, Exclusive, Owns, IsInjective

(* A request that is neither queued nor owned may change its event. *)
LEMMA EventElsewhere ==
  ASSUME Types, Exclusive, UNCHANGED <<m_workqueue, m_actor_model, wpc, req>>, main' # "await",
         NEW r \in Requests, event[r] # "off", NEW e, event' = [event EXCEPT ![r] = e]
  PROVE  Exclusive'
BY DEF Types, Exclusive, Owns, Reactor

(* Owners may become fewer, and nothing else changes. *)
LEMMA FewerOwners ==
  ASSUME Exclusive, UNCHANGED <<m_workqueue, m_actor_model, event>>, main' = "await" => main = "await",
         \A w \in Workers : Owns(w)' => Owns(w) /\ req'[w] = req[w]
  PROVE  Exclusive'
BY DEF Exclusive, Reactor

LEMMA NextExclusive == Types /\ Exclusive /\ [Next]_vars => Exclusive'
<1> SUFFICES ASSUME Types, Exclusive, [Next]_vars PROVE Exclusive'
  OBVIOUS
<1>0. /\ m_workqueue \in Seq(Requests) /\ wpc \in [Workers -> Places]
      /\ req \in [Workers -> Requests \cup {NULL}] /\ event \in [Requests -> {"closed", "in", "out", "off"}]
  BY DEF Types
<1>1. CASE PoolStart
  BY <1>1, FewerOwners DEF PoolStart, queueVars, workerVars, mainVars, httpVars, Owns
<1>2. ASSUME NEW r \in Requests, Accept(r) \/ MainSocketIO(r) \/ AppendFull(r) PROVE Exclusive'
  <2>1. event[r] # "off" /\ \E e : event' = [event EXCEPT ![r] = e]
    BY <1>2 DEF Accept, MainSocketIO, AppendFull, Delivered
  <2>2. UNCHANGED <<m_workqueue, m_actor_model, wpc, req>> /\ main' # "await"
    BY <1>2 DEF Accept, MainSocketIO, AppendFull, Delivered, queueVars, workerVars, mainVars
  <2> QED  BY <2>1, <2>2, EventElsewhere
<1>3. ASSUME NEW r \in Requests, TimerExpires(r) PROVE Exclusive'
  BY <1>0, <1>3 DEF TimerExpires, queueVars, workerVars, mainVars, Exclusive, Owns, Reactor
<1>4. ASSUME NEW r \in Requests, AppendPush(r) PROVE Exclusive'
  <2> SUFFICES ASSUME ~Reactor PROVE Exclusive'
    BY <1>4 DEF AppendPush, Exclusive, Reactor
  <2>1. event[r] = "in" /\ event' = [event EXCEPT ![r] = "off"] /\ main' = "post"
        /\ m_workqueue' = Append(m_workqueue, r) /\ UNCHANGED <<wpc, req>>
    BY <1>4 DEF AppendPush, Delivered, workerVars
  <2>2. r \notin ToSet(m_workqueue) /\ \A w \in Workers : Owns(w) => req[w] # r
    BY <2>1 DEF Exclusive
  <2>3. ToSet(m_workqueue') = ToSet(m_workqueue) \cup {r} /\ IsInjective(m_workqueue')
    BY <1>0, <2>1, <2>2, QueueAppend DEF Exclusive
  <2>4. ToSet(m_workqueue) \subseteq Requests
    BY <1>0, LenProperties DEF ToSet
  <2>5. \A s \in ToSet(m_workqueue') : event'[s] = "off"
    BY <1>0, <2>1, <2>3, <2>4 DEF Exclusive
  <2>6. ASSUME NEW w \in Workers, Owns(w)'
        PROVE  Owns(w) /\ req'[w] \notin ToSet(m_workqueue') /\ event'[req'[w]] = "off"
    <3>1. Owns(w) /\ req'[w] = req[w] /\ req[w] \in Requests
      BY <2>1, <2>6 DEF Owns, Types
    <3> QED  BY <1>0, <2>1, <2>2, <2>3, <3>1 DEF Exclusive
  <2> QED  BY <2>1, <2>3, <2>5, <2>6 DEF Exclusive
<1>5. CASE AppendPost
  <2>1. ~Reactor => main' # "await"
    BY <1>5 DEF AppendPost
  <2> QED  BY <1>5, <2>1 DEF AppendPost, workerVars, httpVars, Exclusive, Owns, Reactor
<1>6. CASE MainNoticesImprov
  BY <1>6 DEF MainNoticesImprov, Exclusive, Reactor
<1>7. ASSUME NEW w \in Workers, QueueWait(w) PROVE Exclusive'
  <2>1. \A v \in Workers : Owns(v)' => Owns(v) /\ req'[v] = req[v]
    BY <1>0, <1>7 DEF QueueWait, Owns
  <2> QED  BY <1>7, <2>1, FewerOwners DEF QueueWait, mainVars, httpVars
<1>8. ASSUME NEW w \in Workers, TakeRequest(w) PROVE Exclusive'
  <2>1. CASE m_workqueue = <<>>
    <3>1. \A v \in Workers : Owns(v)' => Owns(v) /\ req'[v] = req[v]
      BY <1>0, <1>8, <2>1 DEF TakeRequest, Owns
    <3> QED  BY <1>8, <2>1, <3>1, FewerOwners DEF TakeRequest, mainVars, httpVars
  <2>2. CASE m_workqueue # <<>>
    <3> SUFFICES ASSUME ~Reactor PROVE Exclusive'
      BY <1>8 DEF TakeRequest, mainVars, Exclusive, Reactor
    <3> DEFINE h == Head(m_workqueue)
    <3>1. /\ wpc' = [wpc EXCEPT ![w] = "took"] /\ req' = [req EXCEPT ![w] = h]
          /\ m_workqueue' = Tail(m_workqueue) /\ UNCHANGED <<event, main, m_actor_model>>
      BY <1>8, <2>2 DEF TakeRequest, pop_front, mainVars, httpVars
    <3>2. /\ h \in ToSet(m_workqueue) /\ ToSet(m_workqueue') \subseteq ToSet(m_workqueue)
          /\ IsInjective(m_workqueue') /\ h \notin ToSet(m_workqueue')
      BY <1>0, <2>2, <3>1, QueueTail DEF Exclusive
    <3>3. event[h] = "off" /\ \A v \in Workers : Owns(v) => req[v] # h
      BY <3>2 DEF Exclusive
    <3>4. req'[w] = h /\ Owns(w)'
      BY <1>0, <3>1 DEF Owns
    <3>5. \A v \in Workers \ {w} : req'[v] = req[v] /\ (Owns(v)' <=> Owns(v))
      BY <1>0, <3>1 DEF Owns
    <3> HIDE DEF h
    <3>6. \A v \in Workers : Owns(v)' => req'[v] \notin ToSet(m_workqueue') /\ event'[req'[v]] = "off"
      BY <3>1, <3>2, <3>3, <3>4, <3>5 DEF Exclusive
    <3>7. \A u, v \in Workers : Owns(u)' /\ Owns(v)' /\ req'[u] = req'[v] => u = v
      BY <3>3, <3>4, <3>5 DEF Exclusive
    <3> QED  BY <3>1, <3>2, <3>6, <3>7 DEF Exclusive
  <2> QED  BY <2>1, <2>2
<1>9. ASSUME NEW w \in Workers, BeginServe(w) PROVE Exclusive'
  <2>1. \A v \in Workers : Owns(v)' => Owns(v) /\ req'[v] = req[v]
    BY <1>0, <1>9 DEF BeginServe, Owns
  <2> QED  BY <1>9, <2>1, FewerOwners DEF BeginServe, queueVars, mainVars
<1>10. ASSUME NEW w \in Workers, IOFailed(w) \/ WriteDone(w) PROVE Exclusive'
  BY <1>10 DEF IOFailed, WriteDone, mainVars, Exclusive, Reactor
<1>11. ASSUME NEW w \in Workers, SetTimerFlag(w) PROVE Exclusive'
  <2>1. \A v \in Workers : Owns(v)' => Owns(v) /\ req'[v] = req[v]
    BY <1>0, <1>11 DEF SetTimerFlag, Owns
  <2> QED  BY <1>11, <2>1, FewerOwners DEF SetTimerFlag, queueVars, mainVars
<1>12. ASSUME NEW w \in Workers, GetConnection(w) PROVE Exclusive'
  BY <1>12, FewerOwners DEF GetConnection, queueVars, workerVars, mainVars, Owns
<1>13. ASSUME NEW w \in Workers, Process(w) PROVE Exclusive'
  <2> SUFFICES ASSUME ~Reactor PROVE Exclusive'
    BY <1>13 DEF Process, mainVars, Exclusive, Reactor
  <2>1. /\ wpc[w] = "serve" /\ wpc' = [wpc EXCEPT ![w] = "leave"] /\ req[w] \in Requests
        /\ \A s \in Requests \ {req[w]} : event'[s] = event[s]
        /\ UNCHANGED <<m_workqueue, req, main, m_actor_model>>
    BY <1>0, <1>13 DEF Process, queueVars, mainVars, Types
  <2>2. Owns(w) /\ ~Owns(w)' /\ \A v \in Workers \ {w} : Owns(v)' <=> Owns(v)
    BY <1>0, <2>1 DEF Owns
  <2>3. \A v \in Workers : Owns(v)' => Owns(v) /\ req[v] # req[w] /\ req[v] \in Requests
    BY <2>1, <2>2 DEF Exclusive, Owns, Types
  <2>4. ToSet(m_workqueue) \subseteq Requests /\ req[w] \notin ToSet(m_workqueue)
    BY <1>0, <2>2, LenProperties DEF ToSet, Exclusive
  <2> QED  BY <2>1, <2>3, <2>4 DEF Exclusive
<1>14. ASSUME NEW w \in Workers, ReleaseConnection(w) PROVE Exclusive'
  <2>1. \A v \in Workers : Owns(v)' => Owns(v) /\ req'[v] = req[v]
    BY <1>0, <1>14 DEF ReleaseConnection, Owns
  <2> QED  BY <1>14, <2>1, FewerOwners DEF ReleaseConnection, queueVars, mainVars, httpVars
<1>15. CASE UNCHANGED vars
  BY <1>15, FewerOwners DEF vars, queueVars, workerVars, mainVars, httpVars, Owns
<1>16. CASE MainReturns
  BY <1>16, ExitSteps, FewerOwners DEF Owns
<1> QED
  BY <1>1, <1>2, <1>3, <1>4, <1>5, <1>6, <1>7, <1>8, <1>9, <1>10, <1>11, <1>12, <1>13, <1>14, <1>15,
     <1>16
     DEF Next, MainStep, WorkerStep, Ended

LEMMA ExclusiveInductive == Spec => []Exclusive
BY InitExclusive, NextExclusive, TypesInductive, PTL DEF Spec

(* In the Proactor model a request is in the queue once or with one worker *)
(* from the delivery of its event to the re-arming of its socket.          *)
THEOREM OneOwnerHolds == Spec => []OneOwner
<1>1. Types /\ Exclusive => OneOwner
  <2> SUFFICES ASSUME Types, Exclusive, ~Reactor PROVE OneOwner
    BY DEF OneOwner
  <2> DEFINE owners(r) == {w \in Workers : wpc[w] \in {"took", "serve"} /\ req[w] = r}
  <2>1. ASSUME NEW r \in Requests PROVE Cardinality(owners(r)) <= 1
    <3>1. \A v, w \in owners(r) : v = w
      BY DEF Exclusive, Owns
    <3>2. owners(r) = {} \/ \E w : owners(r) = {w}
      BY <3>1
    <3> HIDE DEF owners
    <3>3. CASE owners(r) = {}
      BY <3>3, FS_EmptySet
    <3>4. CASE \E w : owners(r) = {w}
      BY <3>4, FS_Singleton
    <3> QED  BY <3>2, <3>3, <3>4
  <2>2. ASSUME NEW r \in Requests, NEW w \in owners(r)
        PROVE  r \notin ToSet(m_workqueue) /\ event[r] = "off"
    BY DEF Exclusive, Owns
  <2> QED  BY <2>1, <2>2 DEF OneOwner, Exclusive
<1> QED  BY <1>1, ExclusiveInductive, TypesInductive, PTL

-----------------------------------------------------------------------------
(* Whose connection request->mysql is. *)

OwnMysql ==
  /\ \A w \in Workers : wpc[w] \notin {"serve", "leave"} => pc[w] = "out"
  /\ ~Reactor =>
       \A w \in Workers : wpc[w] = "serve" /\ pc[w] = "using" => mysql[req[w]] = con[w]

LEMMA InitOwnMysql == Init => OwnMysql
BY DEF Init, Pool!PoolInit, OwnMysql

(* Steps outside the connection pool by which nobody begins to serve with a
   connection in hand. *)
LEMMA OwnMysqlUntouched ==
  ASSUME Types, OwnMysql, UNCHANGED <<mysql, m_actor_model, pc, con>>,
         \A w \in Workers :
           /\ wpc[w] \in {"serve", "leave"} => wpc'[w] \in {"serve", "leave"}
           /\ wpc'[w] = "serve" /\ pc[w] = "using" => wpc[w] = "serve" /\ req'[w] = req[w]
  PROVE  OwnMysql'
BY DEF OwnMysql, Reactor

LEMMA NextOwnMysql == Types /\ Exclusive /\ OwnMysql /\ [Next]_vars => OwnMysql'
<1> SUFFICES ASSUME Types, Exclusive, OwnMysql, [Next]_vars PROVE OwnMysql'
  OBVIOUS
<1>0. /\ wpc \in [Workers -> Places] /\ req \in [Workers -> Requests \cup {NULL}]
      /\ \A w \in Workers : wpc[w] \notin {"serve", "leave"} => pc[w] = "out"
  BY DEF Types, OwnMysql
<1>1. CASE PoolStart
  BY <1>1, PoolStartSteps, OwnMysqlUntouched DEF PoolStart, workerVars, mainVars, httpVars
<1>2. CASE MainStep
  BY <1>2, OwnMysqlUntouched
     DEF MainStep, Accept, MainSocketIO, TimerExpires, AppendFull, AppendPush, AppendPost,
         MainNoticesImprov, workerVars, mainVars, httpVars, poolVars
<1>3. ASSUME NEW w \in Workers,
             QueueWait(w) \/ TakeRequest(w) \/ IOFailed(w) \/ SetTimerFlag(w) \/ WriteDone(w)
      PROVE  OwnMysql'
  <2>1. /\ wpc[w] \notin {"serve", "leave"}
        /\ \E p \in Places \ {"serve"} : wpc' = [wpc EXCEPT ![w] = p]
        /\ \A v \in Workers \ {w} : req'[v] = req[v]
    BY <1>0, <1>3 DEF QueueWait, TakeRequest, IOFailed, SetTimerFlag, WriteDone, Places
  <2>2. UNCHANGED <<mysql, m_actor_model, pc, con>>
    BY <1>3 DEF QueueWait, TakeRequest, IOFailed, SetTimerFlag, WriteDone, mainVars, httpVars, poolVars
  <2> QED  BY <1>0, <2>1, <2>2, OwnMysqlUntouched
<1>4. ASSUME NEW w \in Workers, BeginServe(w) \/ Process(w) PROVE OwnMysql'
  <2>1. /\ UNCHANGED <<mysql, m_actor_model, pc, con, req>>
        /\ \/ wpc[w] = "took" /\ wpc' = [wpc EXCEPT ![w] = "serve"]
           \/ wpc[w] = "serve" /\ wpc' = [wpc EXCEPT ![w] = "leave"]
    BY <1>4 DEF BeginServe, Process, mainVars, httpVars, poolVars
  <2> QED  BY <1>0, <2>1, OwnMysqlUntouched
<1>5. ASSUME NEW w \in Workers, GetConnection(w) PROVE OwnMysql'
  <2>1. /\ wpc[w] = "serve" /\ UNCHANGED <<wpc, req, m_actor_model>> /\ Pool!GetStep(w)
        /\ mysql' = IF pc'[w] = "using" THEN [mysql EXCEPT ![req[w]] = con'[w]] ELSE mysql
    BY <1>5 DEF GetConnection, GivenTo, workerVars, mainVars
  <2>2. \A v \in Workers \ {w} : pc'[v] = pc[v] /\ con'[v] = con[v]
    BY <2>1, PoolSteps
  <2>3. \A v \in Workers : wpc'[v] \notin {"serve", "leave"} => pc'[v] = "out"
    BY <1>0, <2>1, <2>2
  <2>4. ASSUME ~Reactor, NEW v \in Workers, wpc[v] = "serve", pc'[v] = "using"
        PROVE  mysql'[req[v]] = con'[v]
    <3>1. req[v] \in Requests /\ req[w] \in Requests /\ mysql = [r \in Requests |-> mysql[r]]
      BY <2>1, <2>4 DEF Types
    <3>2. CASE v = w
      BY <2>1, <2>4, <3>1, <3>2
    <3>3. CASE v # w
      <4>1. req[v] # req[w]
        BY <2>1, <2>4, <3>3 DEF Exclusive, Owns
      <4>2. mysql[req[v]] = con[v] /\ con'[v] = con[v]
        BY <2>2, <2>4, <3>3 DEF OwnMysql
      <4> QED  BY <2>1, <3>1, <4>1, <4>2
    <3> QED  BY <3>2, <3>3
  <2> QED  BY <2>1, <2>3, <2>4 DEF OwnMysql, Reactor
<1>6. ASSUME NEW w \in Workers, ReleaseConnection(w) PROVE OwnMysql'
  <2>1. /\ wpc[w] = "leave" /\ Pool!ReleaseStep(w) /\ UNCHANGED <<mysql, m_actor_model>>
        /\ wpc' = IF pc'[w] = "out" THEN [wpc EXCEPT ![w] = "idle"] ELSE wpc
        /\ \A v \in Workers \ {w} : req'[v] = req[v]
    BY <1>0, <1>6 DEF ReleaseConnection, mainVars, httpVars
  <2>2. \A v \in Workers \ {w} : pc'[v] = pc[v] /\ con'[v] = con[v]
    BY <2>1, PoolSteps
  <2>3. wpc'[w] # "serve" /\ (wpc'[w] # "leave" => pc'[w] = "out")
        /\ \A v \in Workers \ {w} : wpc'[v] = wpc[v]
    BY <1>0, <2>1
  <2> QED  BY <2>1, <2>2, <2>3 DEF OwnMysql, Reactor
<1>7. CASE UNCHANGED vars
  BY <1>7, OwnMysqlUntouched DEF vars, workerVars, mainVars, httpVars, poolVars
<1>8. CASE MainReturns
  BY <1>8, ExitSteps, OwnMysqlUntouched
<1> QED  BY <1>1, <1>2, <1>3, <1>4, <1>5, <1>6, <1>7, <1>8 DEF Next, WorkerStep, Ended

(* In the Proactor model process uses the connection of its own mysqlcon:  *)
(* no other worker overwrites request->mysql before process has returned.  *)
THEOREM OwnConnectionHolds == Spec => []OwnConnection
<1>1. OwnMysql => OwnConnection
  BY DEF OwnMysql, OwnConnection
<1> QED
  BY <1>1, InitOwnMysql, NextOwnMysql, ExclusiveInductive, TypesInductive, PTL DEF Spec

-----------------------------------------------------------------------------
(* What main waits for in the Reactor model: from the append to improv the *)
(* request it asked for is queued, or just taken, or its flag is set.      *)

Handshake ==
  /\ \A r \in Requests : improv[r] => Reactor /\ Appending /\ asked = r
  /\ Reactor /\ ~Appending => m_workqueue = <<>> /\ AtWork("took") = {}
  /\ Reactor /\ Appending =>
       \/ m_workqueue = <<asked>> /\ AtWork("took") = {} /\ ~improv[asked]
       \/ /\ m_workqueue = <<>> /\ ~improv[asked]
          /\ \E w \in Workers : AtWork("took") = {w} /\ req[w] = asked
       \/ m_workqueue = <<>> /\ AtWork("took") = {} /\ improv[asked]

LEMMA InitHandshake == Init => Handshake
BY DEF Init, Handshake, AtWork, Appending

(* Steps that leave the queue, the flags and the workers that took a request. *)
LEMMA HandshakeUntouched ==
  ASSUME Handshake, UNCHANGED <<m_workqueue, m_actor_model, improv, asked>>,
         Appending' <=> Appending,
         \A w \in Workers : /\ (wpc'[w] = "took") <=> (wpc[w] = "took")
                            /\ wpc[w] = "took" => req'[w] = req[w]
  PROVE  Handshake'
<1>1. AtWork("took")' = AtWork("took")
  BY DEF AtWork
<1>2. \A w \in Workers : AtWork("took") = {w} => req'[w] = req[w]
  BY DEF AtWork
<1> QED  BY <1>1, <1>2 DEF Handshake, Reactor

(* A worker that took a request is the one main waits for, and answers it. *)
LEMMA Answer ==
  ASSUME Types, Handshake, Reactor, NEW w \in Workers, wpc[w] = "took", SetImprov(req[w]),
         UNCHANGED <<m_workqueue, m_actor_model, main, asked>>,
         NEW p \in Places \ {"took"}, wpc' = [wpc EXCEPT ![w] = p]
  PROVE  Handshake'
<1>1. w \in AtWork("took")
  BY DEF AtWork
<1>2. Appending /\ m_workqueue = <<>> /\ AtWork("took") = {w} /\ req[w] = asked
  BY <1>1 DEF Handshake
<1>3. AtWork("took")' = {}
  BY <1>2 DEF AtWork, Types
<1>4. improv' = [improv EXCEPT ![asked] = TRUE] /\ asked \in Requests
  BY <1>2 DEF SetImprov, Types
<1>5. \A r \in Requests : improv'[r] => asked = r
  BY <1>4 DEF Handshake, Types
<1>6. improv'[asked]
  BY <1>4 DEF Types
<1> QED  BY <1>2, <1>3, <1>5, <1>6 DEF Handshake, Reactor, Appending

LEMMA NextHandshake == Types /\ Handshake /\ [Next]_vars => Handshake'
<1> SUFFICES ASSUME Types, Handshake, [Next]_vars PROVE Handshake'
  OBVIOUS
<1> USE DEF Appending
<1>0. wpc \in [Workers -> Places] /\ req \in [Workers -> Requests \cup {NULL}]
      /\ improv \in [Requests -> BOOLEAN] /\ m_workqueue \in Seq(Requests)
  BY DEF Types
<1>1. CASE PoolStart
  BY <1>1, HandshakeUntouched DEF PoolStart, queueVars, workerVars, mainVars, httpVars
<1>2. ASSUME NEW r \in Requests, Accept(r) \/ MainSocketIO(r) \/ TimerExpires(r) \/ AppendFull(r)
      PROVE  Handshake'
  BY <1>2, HandshakeUntouched
     DEF Accept, MainSocketIO, TimerExpires, AppendFull, queueVars, workerVars, mainVars
<1>3. ASSUME NEW r \in Requests, AppendPush(r) PROVE Handshake'
  <2>1. /\ main = "idle" /\ main' = "post" /\ asked' = r /\ m_workqueue' = Append(m_workqueue, r)
        /\ UNCHANGED <<improv, wpc, req, m_actor_model>>
    BY <1>3 DEF AppendPush, Delivered, workerVars
  <2>2. \A s \in Requests : ~improv[s]
    BY <2>1 DEF Handshake
  <2>3. AtWork("took")' = AtWork("took")
    BY <2>1 DEF AtWork
  <2>4. Reactor => m_workqueue' = <<asked'>>
    <3>1. Append(<<>>, r) = <<r>>
      OBVIOUS
    <3> QED  BY <2>1, <3>1 DEF Handshake
  <2> QED  BY <2>1, <2>2, <2>3, <2>4 DEF Handshake, Reactor
<1>4. CASE AppendPost
  <2>1. CASE Reactor
    BY <1>4, <2>1, HandshakeUntouched DEF AppendPost, workerVars, httpVars
  <2>2. CASE ~Reactor
    BY <1>4, <2>2 DEF AppendPost, httpVars, Handshake, Reactor
  <2> QED  BY <2>1, <2>2
<1>5. CASE MainNoticesImprov
  <2>1. /\ main = "await" /\ improv[asked] /\ main' = "idle" /\ asked \in Requests
        /\ improv' = [improv EXCEPT ![asked] = FALSE] /\ UNCHANGED <<m_workqueue, wpc, m_actor_model>>
    BY <1>5 DEF MainNoticesImprov, queueVars, workerVars, Types
  <2>2. Reactor /\ m_workqueue = <<>> /\ AtWork("took") = {}
    BY <2>1 DEF Handshake
  <2>3. \A r \in Requests : ~improv'[r]
    BY <1>0, <2>1 DEF Handshake
  <2>4. AtWork("took")' = AtWork("took")
    BY <2>1 DEF AtWork
  <2> QED  BY <2>1, <2>2, <2>3, <2>4 DEF Handshake
<1>6. ASSUME NEW w \in Workers, QueueWait(w) \/ SetTimerFlag(w) \/ Process(w) PROVE Handshake'
  <2>1. /\ wpc[w] # "took" /\ \E p \in Places \ {"took"} : wpc' = [wpc EXCEPT ![w] = p]
        /\ \A v \in Workers \ {w} : req'[v] = req[v]
    BY <1>0, <1>6 DEF QueueWait, SetTimerFlag, Process, Places
  <2> QED
    BY <1>0, <1>6, <2>1, HandshakeUntouched
       DEF QueueWait, SetTimerFlag, Process, queueVars, mainVars, httpVars
<1>7. ASSUME NEW w \in Workers, TakeRequest(w) PROVE Handshake'
  <2>1. wpc[w] = "woken" /\ UNCHANGED <<main, asked, m_actor_model, improv>>
    BY <1>7 DEF TakeRequest, mainVars, httpVars
  <2>2. CASE m_workqueue = <<>>
    BY <1>0, <1>7, <2>1, <2>2, HandshakeUntouched DEF TakeRequest
  <2>3. CASE m_workqueue # <<>>
    <3>1. /\ wpc' = [wpc EXCEPT ![w] = "took"] /\ req' = [req EXCEPT ![w] = Head(m_workqueue)]
          /\ m_workqueue' = Tail(m_workqueue)
      BY <1>7, <2>3 DEF TakeRequest, pop_front
    <3>2. ASSUME Reactor
          PROVE  /\ Appending /\ ~improv[asked] /\ m_workqueue' = <<>>
                 /\ AtWork("took")' = {w} /\ req'[w] = asked
      <4>1. Appending /\ m_workqueue = <<asked>> /\ AtWork("took") = {} /\ ~improv[asked]
        BY <2>3, <3>2 DEF Handshake
      <4>2. AtWork("took")' = {w}
        BY <1>0, <3>1, <4>1 DEF AtWork
      <4> QED  BY <1>0, <3>1, <4>1, <4>2
    <3> QED  BY <2>1, <3>2 DEF Handshake, Reactor
  <2> QED  BY <2>2, <2>3
<1>8. ASSUME NEW w \in Workers, BeginServe(w) PROVE Handshake'
  <2>1. CASE Reactor
    BY <1>8, <2>1, Answer DEF BeginServe, queueVars, mainVars, Places
  <2>2. CASE ~Reactor
    BY <1>8, <2>2 DEF BeginServe, mainVars, Handshake, Reactor
  <2> QED  BY <2>1, <2>2
<1>9. ASSUME NEW w \in Workers, IOFailed(w) \/ WriteDone(w) PROVE Handshake'
  BY <1>9, Answer DEF IOFailed, WriteDone, queueVars, mainVars, Places
<1>10. ASSUME NEW w \in Workers, GetConnection(w) PROVE Handshake'
  BY <1>10, HandshakeUntouched DEF GetConnection, queueVars, workerVars, mainVars
<1>11. ASSUME NEW w \in Workers, ReleaseConnection(w) PROVE Handshake'
  <2>1. /\ wpc[w] = "leave" /\ wpc'[w] # "took"
        /\ \A v \in Workers \ {w} : wpc'[v] = wpc[v] /\ req'[v] = req[v]
    BY <1>0, <1>11 DEF ReleaseConnection
  <2> QED  BY <1>11, <2>1, HandshakeUntouched DEF ReleaseConnection, queueVars, mainVars, httpVars
<1>12. CASE UNCHANGED vars
  BY <1>12, HandshakeUntouched DEF vars, queueVars, workerVars, mainVars, httpVars
<1>13. CASE MainReturns
  BY <1>13, ExitSteps, HandshakeUntouched
<1> QED
  BY <1>1, <1>2, <1>3, <1>4, <1>5, <1>6, <1>7, <1>8, <1>9, <1>10, <1>11, <1>12, <1>13
     DEF Next, MainStep, WorkerStep, Ended

LEMMA HandshakeInductive == Spec => []Handshake
BY InitHandshake, NextHandshake, TypesInductive, PTL DEF Spec

(* improv is only ever set for the request main waits for, although it is  *)
(* not guarded by a lock and stays set until main looks at it.             *)
THEOREM NoStaleImprovHolds == Spec => []NoStaleImprov
<1>1. Handshake => NoStaleImprov
  BY DEF Handshake, NoStaleImprov
<1> QED  BY <1>1, HandshakeInductive, PTL

-----------------------------------------------------------------------------
(* The workers use the connection pool as its own specification says. *)

PoolTheorems == INSTANCE ConnectionPoolProofs WITH Threads <- Workers

(* Every other step leaves the pool alone. *)
LEMMA PoolUntouched ==
  ASSUME [Next]_vars, ~PoolStart, ~MainReturns, ~\E w \in Workers : GetConnection(w) \/ ReleaseConnection(w)
  PROVE  UNCHANGED poolVars
<1>1. CASE MainStep
  BY <1>1 DEF MainStep, Accept, MainSocketIO, TimerExpires, AppendFull, AppendPush, AppendPost,
              MainNoticesImprov
<1>2. ASSUME NEW w \in Workers,
             \/ QueueWait(w) \/ TakeRequest(w) \/ BeginServe(w) \/ IOFailed(w)
             \/ SetTimerFlag(w) \/ WriteDone(w) \/ Process(w)
      PROVE  UNCHANGED poolVars
  BY <1>2 DEF QueueWait, TakeRequest, BeginServe, IOFailed, SetTimerFlag, WriteDone, Process
<1>3. CASE UNCHANGED vars
  BY <1>3 DEF vars
<1> QED  BY <1>1, <1>2, <1>3 DEF Next, WorkerStep, Ended

LEMMA PoolStep == [Next]_vars => [Pool!Next]_(Pool!poolVars)
<1> SUFFICES ASSUME [Next]_vars PROVE [Pool!Next]_(Pool!poolVars)
  OBVIOUS
<1>1. CASE PoolStart
  BY <1>1 DEF PoolStart, Pool!Next
<1>2. CASE \E w \in Workers : GetConnection(w) \/ ReleaseConnection(w)
  BY <1>2 DEF GetConnection, ReleaseConnection, Pool!Next
<1>3. UNCHANGED poolVars => UNCHANGED Pool!poolVars
  BY DEF poolVars, Pool!poolVars
<1>4. CASE MainReturns
  BY <1>4, ExitSteps DEF Pool!Next
<1> QED  BY <1>1, <1>2, <1>3, <1>4, PoolUntouched

(* What the workers do to the connection pool is a behaviour of            *)
(* ConnectionPool: GetConnection and ReleaseConnection in their order, and *)
(* DestroyPool when main returns while they are at it.                     *)
THEOREM UsesPool == Spec => Pool!Spec
<1>1. Init => Pool!PoolInit
  BY DEF Init
<1> QED  BY <1>1, PoolStep, PTL DEF Spec, Pool!Spec

(* Only the destructor that runs when main has returned closes connections. *)
LEMMA ClosedAtExit == Spec => [](closed # {} => main = "exited")
<1> DEFINE Late == closed # {} => main = "exited"
<1>1. Init => Late
  BY DEF Init, Pool!PoolInit
<1>2. Late /\ [Next]_vars => Late'
  <2> SUFFICES ASSUME Late, [Next]_vars, ~MainReturns
               PROVE  UNCHANGED closed /\ (main = "exited" => main' = "exited")
    BY ExitSteps
  <2>1. CASE PoolStart
    BY <2>1 DEF PoolStart, mainVars, Pool!InitStep, Pool!InitConnect, Pool!InitFails, Pool!InitDone
  <2>2. ASSUME NEW w \in Workers, GetConnection(w) PROVE UNCHANGED <<closed, main>>
    BY <2>2 DEF GetConnection, mainVars, Pool!GetStep, Pool!GetNull, Pool!GetCheck,
                Pool!ReserveWait, Pool!TakeConn
  <2>3. ASSUME NEW w \in Workers, ReleaseConnection(w) PROVE UNCHANGED <<closed, main>>
    BY <2>3 DEF ReleaseConnection, mainVars, Pool!ReleaseStep, Pool!ReleaseNull, Pool!ReleaseConn,
                Pool!ReservePost
  <2>4. CASE ~PoolStart /\ ~\E w \in Workers : GetConnection(w) \/ ReleaseConnection(w)
    <3>1. UNCHANGED closed
      BY <2>4, PoolUntouched DEF poolVars
    <3>2. main = "exited" => main' = "exited"
      BY <2>4 DEF Next, Ended, vars, MainStep, WorkerStep, mainVars, Accept, MainSocketIO,
                  TimerExpires, AppendFull, AppendPush, Delivered, AppendPost, MainNoticesImprov,
                  QueueWait, TakeRequest, BeginServe, IOFailed, SetTimerFlag, WriteDone, Process
    <3> QED  BY <3>1, <3>2
  <2> QED  BY <2>1, <2>2, <2>3, <2>4
<1> QED  BY <1>1, <1>2, PTL DEF Spec

(* The theorems of the pool hold of the pool the workers use. *)
LEMMA PoolFacts ==
  Pool!Spec => [](/\ Pool!TypeOK /\ Pool!NoEmptyPop
                  /\ Pool!ConnectionsConserved /\ Pool!NoUseAfterClose)
<1>1. PoolTheorems!IsFiniteSet(Workers) /\ NULL \notin Conns /\ MaxConn \in Nat
  BY WorkersAssumption, PoolAssumption DEF IsFiniteSet, PoolTheorems!IsFiniteSet
<1>2. Pool!PoolInit => PoolTheorems!PoolInit
  BY DEF Pool!PoolInit, PoolTheorems!PoolInit
<1>3. [Pool!Next]_(Pool!poolVars) => [PoolTheorems!Next]_(PoolTheorems!poolVars)
  BY DEF Pool!Next, Pool!InitStep, Pool!InitConnect, Pool!InitFails, Pool!InitDone,
         Pool!GetStep, Pool!GetNull, Pool!GetCheck, Pool!ReserveWait, Pool!TakeConn,
         Pool!ReleaseStep, Pool!ReleaseNull, Pool!ReleaseConn, Pool!ReservePost,
         Pool!DestroyPool, Pool!Ended, Pool!poolVars, Pool!sem_wait, Pool!sem_post, Pool!pop_front,
         Pool!clear, Pool!ToSet,
         PoolTheorems!Next, PoolTheorems!InitStep, PoolTheorems!InitConnect, PoolTheorems!InitFails,
         PoolTheorems!InitDone, PoolTheorems!GetStep, PoolTheorems!GetNull, PoolTheorems!GetCheck,
         PoolTheorems!ReserveWait, PoolTheorems!TakeConn, PoolTheorems!ReleaseStep,
         PoolTheorems!ReleaseNull, PoolTheorems!ReleaseConn, PoolTheorems!ReservePost,
         PoolTheorems!DestroyPool, PoolTheorems!Ended, PoolTheorems!poolVars, PoolTheorems!sem_wait,
         PoolTheorems!sem_post, PoolTheorems!pop_front, PoolTheorems!clear, PoolTheorems!ToSet
<1>4. PoolTheorems!TypeOK => Pool!TypeOK
  BY DEF PoolTheorems!TypeOK, Pool!TypeOK
<1>5. PoolTheorems!NoEmptyPop => Pool!NoEmptyPop
  BY DEF PoolTheorems!NoEmptyPop, Pool!NoEmptyPop
<1>6. PoolTheorems!ConnectionsConserved => Pool!ConnectionsConserved
  BY DEF PoolTheorems!ConnectionsConserved, Pool!ConnectionsConserved, PoolTheorems!IsInjective,
         Pool!IsInjective, PoolTheorems!ToSet, Pool!ToSet, PoolTheorems!Holders, Pool!Holders,
         PoolTheorems!Cardinality, Pool!Cardinality
<1>7. PoolTheorems!Spec => []PoolTheorems!TypeOK
  BY <1>1, PoolTheorems!PoolTypes
<1>8. PoolTheorems!Spec => []PoolTheorems!NoEmptyPop
  BY <1>1, PoolTheorems!NoEmptyPopHolds
<1>9. PoolTheorems!Spec => []PoolTheorems!ConnectionsConserved
  BY <1>1, PoolTheorems!ConservedHolds
<1>10. PoolTheorems!NoUseAfterClose => Pool!NoUseAfterClose
  BY DEF PoolTheorems!NoUseAfterClose, Pool!NoUseAfterClose, PoolTheorems!ToSet, Pool!ToSet,
         PoolTheorems!Holders, Pool!Holders
<1>11. PoolTheorems!Spec => []PoolTheorems!NoUseAfterClose
  BY <1>1, PoolTheorems!NoUseAfterCloseHolds
<1> QED
  BY <1>2, <1>3, <1>4, <1>5, <1>6, <1>7, <1>8, <1>9, <1>10, <1>11, PTL DEF Pool!Spec, PoolTheorems!Spec

(* As long as main is in its loop no worker takes the front of an empty    *)
(* list: a crash comes only after the destructor of the pool has closed    *)
(* connections under the detached workers.                                 *)
THEOREM CrashOnlyAtExitHolds == Spec => []CrashOnlyAtExit
<1>1. Pool!NoEmptyPop /\ (closed # {} => main = "exited") => CrashOnlyAtExit
  BY DEF Pool!NoEmptyPop, CrashOnlyAtExit
<1> QED  BY <1>1, UsesPool, PoolFacts, ClosedAtExit, PTL

(* Even while the destructor runs under them, and after it, workers never  *)
(* share a connection or use one that was closed.                          *)
THEOREM PoolSafe == Spec => [](Pool!ConnectionsConserved /\ Pool!NoUseAfterClose)
BY UsesPool, PoolFacts, PTL

-----------------------------------------------------------------------------
(* The type invariant: Types, the types of the pool, and the rest. *)

RestTypes ==
  /\ Len(m_workqueue) <= MaxRequests
  /\ m_actor_model \in {0, 1}
  /\ asked \in Requests \cup {NULL}
  /\ m_state \in [Requests -> {0, 1}]
  /\ timer_flag \in [Requests -> BOOLEAN]
  /\ mysql \in [Requests -> Conns \cup {NULL}]

LEMMA InitRestTypes == Init => RestTypes
<1>1. Len(<<>>) = 0 /\ 0 <= MaxRequests
  BY EmptySeq, MaxRequestsAssumption
<1> QED  BY <1>1 DEF Init, RestTypes

LEMMA NextRestTypes == Types /\ Pool!TypeOK' /\ RestTypes /\ [Next]_vars => RestTypes'
<1> SUFFICES ASSUME Types, Pool!TypeOK', RestTypes, [Next]_vars PROVE RestTypes'
  OBVIOUS
<1>0. m_workqueue \in Seq(Requests) /\ Len(m_workqueue) \in Nat /\ MaxRequests \in Nat
  BY LenProperties, MaxRequestsAssumption DEF Types
<1>a. m_state \in [Requests -> {0, 1}] /\ timer_flag \in [Requests -> BOOLEAN]
  BY DEF RestTypes
<1>1. CASE PoolStart
  BY <1>1 DEF PoolStart, queueVars, mainVars, httpVars, RestTypes
<1>2. ASSUME NEW r \in Requests, Accept(r) \/ MainSocketIO(r) \/ TimerExpires(r) \/ AppendFull(r)
      PROVE  RestTypes'
  BY <1>2 DEF Accept, MainSocketIO, TimerExpires, AppendFull, queueVars, mainVars, RestTypes
<1>3. ASSUME NEW r \in Requests, AppendPush(r) PROVE RestTypes'
  <2>1. Len(m_workqueue') <= MaxRequests
    BY <1>0, <1>3, QueueAppend DEF AppendPush
  <2>2. m_state' \in [Requests -> {0, 1}]
    BY <1>3, <1>a DEF AppendPush
  <2> QED  BY <1>3, <2>1, <2>2 DEF AppendPush, RestTypes
<1>4. CASE AppendPost
  BY <1>4 DEF AppendPost, httpVars, RestTypes
<1>5. CASE MainNoticesImprov
  <2>1. timer_flag' \in [Requests -> BOOLEAN]
    BY <1>5, <1>a DEF MainNoticesImprov
  <2> QED  BY <1>5, <2>1 DEF MainNoticesImprov, queueVars, RestTypes
<1>6. ASSUME NEW w \in Workers, TakeRequest(w) PROVE RestTypes'
  <2>1. CASE m_workqueue = <<>>
    BY <1>6, <2>1 DEF TakeRequest, mainVars, httpVars, RestTypes
  <2>2. CASE m_workqueue # <<>>
    <3>1. Len(m_workqueue') <= MaxRequests
      BY <1>0, <1>6, <2>2, QueueTail DEF TakeRequest, pop_front, RestTypes
    <3> QED  BY <1>6, <3>1 DEF TakeRequest, mainVars, httpVars, RestTypes
  <2> QED  BY <2>1, <2>2
<1>7. ASSUME NEW w \in Workers, SetTimerFlag(w) PROVE RestTypes'
  <2>1. timer_flag' \in [Requests -> BOOLEAN]
    BY <1>7, <1>a DEF SetTimerFlag
  <2> QED  BY <1>7, <2>1 DEF SetTimerFlag, queueVars, mainVars, RestTypes
<1>8. ASSUME NEW w \in Workers, GetConnection(w) PROVE RestTypes'
  <2>1. con'[w] \in Conns \cup {NULL}
    BY DEF Pool!TypeOK
  <2>2. mysql' \in [Requests -> Conns \cup {NULL}]
    BY <1>8, <2>1 DEF GetConnection, GivenTo, RestTypes
  <2> QED  BY <1>8, <2>2 DEF GetConnection, queueVars, mainVars, RestTypes
<1>9. ASSUME NEW w \in Workers,
             QueueWait(w) \/ BeginServe(w) \/ IOFailed(w) \/ WriteDone(w) \/ Process(w)
                          \/ ReleaseConnection(w)
      PROVE  RestTypes'
  BY <1>9 DEF QueueWait, BeginServe, IOFailed, WriteDone, Process, ReleaseConnection,
              queueVars, mainVars, httpVars, RestTypes
<1>10. CASE UNCHANGED vars
  BY <1>10 DEF vars, queueVars, mainVars, httpVars, RestTypes
<1>11. CASE MainReturns
  BY <1>11, ExitSteps DEF RestTypes
<1> QED
  BY <1>1, <1>2, <1>3, <1>4, <1>5, <1>6, <1>7, <1>8, <1>9, <1>10, <1>11
     DEF Next, MainStep, WorkerStep, Ended

(* The variables keep their types; the queue is never longer than          *)
(* m_max_requests, and request->mysql is always a handle or NULL.          *)
THEOREM TypesHold == Spec => []TypeOK
<1>1. Types /\ RestTypes /\ Pool!TypeOK => TypeOK
  BY DEF Types, Places, RestTypes, TypeOK
<1> QED
  BY <1>1, InitRestTypes, NextRestTypes, TypesInductive, UsesPool, PoolFacts, PTL DEF Spec
=============================================================================
