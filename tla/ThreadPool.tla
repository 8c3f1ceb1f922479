------------------------------ MODULE ThreadPool ------------------------------
(***************************************************************************)
(* threadpool<http_conn> of threadpool.h, composed with the connection     *)
(* pool it takes a MySQL connection from for every request it processes.   *)
(*                                                                         *)
(* The main thread and http_conn are not in the sources and are modelled   *)
(* from the way threadpool.h uses them and from http_conn::process and     *)
(* http_conn::write as webserve.md quotes them:  an event on a socket is   *)
(* delivered once (EPOLLONESHOT) and makes main append the http_conn; the  *)
(* socket is armed again inside process or write; and improv, which only   *)
(* main can be the reader of, tells it in the Reactor model that the read  *)
(* or the write it asked for is done.                                      *)
(*                                                                         *)
(* wpc is where a worker is in run:                                        *)
(*   "idle"    before m_queuestat.wait                                     *)
(*   "woken"   past it, before the mutex                                   *)
(*   "took"    owns req[w], which left the queue                           *)
(*   "serve"   in the scope of mysqlcon, up to the end of process          *)
(*   "leave"   process has returned, mysqlcon is being destroyed           *)
(*   "failed"  read_once or write failed: between improv and timer_flag    *)
(***************************************************************************)
EXTENDS Integers, Sequences, FiniteSets, SequencesExt

CONSTANTS
  Requests,      \* the http_conn objects
  Workers,       \* the m_thread_number threads
  MaxRequests,   \* m_max_requests
  Conns, NULL, MaxConn

\* The constructor throws for max_requests <= 0 and thread_number <= 0.
ASSUME MaxRequestsAssumption == MaxRequests \in Nat \ {0}
ASSUME WorkersAssumption == IsFiniteSet(Workers) /\ Workers # {}
ASSUME NoRequestAssumption == NULL \notin Requests
ASSUME PoolAssumption == MaxConn \in Nat /\ NULL \notin Conns

VARIABLES
  m_workqueue, m_queuestat,
  m_actor_model,       \* the argument of the constructor
  wpc, req,
  main,                \* main's place: "idle" in its loop, "post" and "await" in
                       \* append, "exited" when it has returned
  asked,               \* the http_conn main is appending or waits for
  event,               \* a socket: "closed", armed for "in" or "out", or "off"
  m_state, improv, timer_flag, mysql

VARIABLES
  connList, reserve, m_FreeConn, m_CurConn, m_MaxConn, phase, closed, pc, con

Pool == INSTANCE ConnectionPool WITH Threads <- Workers

queueVars  == <<m_workqueue, m_queuestat>>
workerVars == <<wpc, req>>
mainVars   == <<main, asked, m_actor_model>>
httpVars   == <<event, m_state, improv, timer_flag, mysql>>
poolVars   == <<connList, reserve, m_FreeConn, m_CurConn, m_MaxConn, phase, closed, pc, con>>
vars       == <<queueVars, workerVars, mainVars, httpVars, poolVars>>

\* The Reactor model, in which the workers do the reading and writing; else
\* the Proactor model, in which main does.
Reactor == m_actor_model = 1

AtWork(where) == {w \in Workers : wpc[w] = where}

TypeOK ==
  /\ m_workqueue \in Seq(Requests) /\ Len(m_workqueue) <= MaxRequests
  /\ m_queuestat \in Nat
  /\ wpc \in [Workers -> {"idle", "woken", "took", "serve", "leave", "failed"}]
  /\ req \in [Workers -> Requests \cup {NULL}]
  /\ main \in {"idle", "post", "await", "exited"} /\ m_actor_model \in {0, 1}
  /\ asked \in Requests \cup {NULL}
  /\ event \in [Requests -> {"closed", "in", "out", "off"}]
  /\ m_state \in [Requests -> {0, 1}]
  /\ improv \in [Requests -> BOOLEAN] /\ timer_flag \in [Requests -> BOOLEAN]
  /\ mysql \in [Requests -> Conns \cup {NULL}]
  /\ Pool!TypeOK

Init ==
  /\ m_workqueue = <<>>
  /\ m_queuestat = 0
  /\ wpc = [w \in Workers |-> "idle"]
  /\ req = [w \in Workers |-> NULL]
  /\ main = "idle"
  /\ asked = NULL
  /\ m_actor_model \in {0, 1}
  /\ event = [r \in Requests |-> "closed"]
  /\ m_state = [r \in Requests |-> 0]
  /\ improv = [r \in Requests |-> FALSE]
  /\ timer_flag = [r \in Requests |-> FALSE]
  /\ mysql = [r \in Requests |-> NULL]
  /\ Pool!PoolInit

-----------------------------------------------------------------------------
(* The main thread (external), and the two append methods it calls. *)

\* A client connects; the http_conn of its socket is set up and armed.
Accept(r) ==
  /\ phase = "up" /\ main = "idle"
  /\ event[r] = "closed"
  /\ event' = [event EXCEPT ![r] = "in"]
  /\ UNCHANGED <<queueVars, workerVars, mainVars, m_state, improv, timer_flag, mysql, poolVars>>

\* Proactor: main reads or writes the socket itself; a failed read closes it,
\* a write arms it again or closes it.
MainSocketIO(r) ==
  /\ phase = "up" /\ main = "idle" /\ ~Reactor
  /\ \/ event[r] = "in"  /\ event' = [event EXCEPT ![r] = "closed"]
     \/ event[r] = "out" /\ \E e \in {"in", "out", "closed"} : event' = [event EXCEPT ![r] = e]
  /\ UNCHANGED <<queueVars, workerVars, mainVars, m_state, improv, timer_flag, mysql, poolVars>>

\* What main appends: either event in the Reactor model, what it has read
\* itself in the Proactor model.
Delivered(r) ==
  /\ phase = "up" /\ main = "idle"
  /\ event[r] = "in" \/ (Reactor /\ event[r] = "out")

\* append and append_p up to the unlock.  Only append sets m_state.
AppendPush(r) ==
  /\ Delivered(r)
  /\ event' = [event EXCEPT ![r] = "off"]
  /\ Len(m_workqueue) < MaxRequests
  /\ m_state' = IF Reactor
                  THEN [m_state EXCEPT ![r] = IF event[r] = "out" THEN 1 ELSE 0]
                  ELSE m_state
  /\ m_workqueue' = Append(m_workqueue, r)
  /\ main' = "post"
  /\ asked' = r
  /\ UNCHANGED <<m_queuestat, workerVars, m_actor_model, improv, timer_flag, mysql, poolVars>>

\* The queue is full: false, and main gives the connection up.
AppendFull(r) ==
  /\ Delivered(r)
  /\ Len(m_workqueue) >= MaxRequests
  /\ event' = [event EXCEPT ![r] = "closed"]
  /\ UNCHANGED <<queueVars, workerVars, mainVars, m_state, improv, timer_flag, mysql, poolVars>>

\* Mutant of sem_post: the semaphore is not posted.
sem_post_Lost == m_queuestat' = m_queuestat

sem_post == m_queuestat' = m_queuestat + 1

\* m_queuestat.post(), after the mutex was released.
AppendPost ==
  /\ main = "post"
  /\ sem_post
  /\ main' = IF Reactor THEN "await" ELSE "idle"
  /\ asked' = IF Reactor THEN asked ELSE NULL
  /\ UNCHANGED <<m_workqueue, workerVars, m_actor_model, httpVars, poolVars>>

\* Reactor: main waits for improv, and closes the connection on timer_flag.
MainNoticesImprov ==
  /\ main = "await" /\ improv[asked]
  /\ main' = "idle"
  /\ asked' = NULL
  /\ improv' = [improv EXCEPT ![asked] = FALSE]
  /\ timer_flag' = [timer_flag EXCEPT ![asked] = FALSE]
  /\ event' = IF timer_flag[asked] THEN [event EXCEPT ![asked] = "closed"] ELSE event
  /\ UNCHANGED <<queueVars, workerVars, m_actor_model, m_state, mysql, poolVars>>

\* The timer of a connection on which nothing happens any more expires: main
\* closes it.  A timer outlasts the processing of a request.
TimerExpires(r) ==
  /\ main = "idle"
  /\ event[r] = "off"
  /\ r \notin ToSet(m_workqueue)
  /\ \A w \in Workers : req[w] = r => wpc[w] \notin {"took", "serve"}
  /\ event' = [event EXCEPT ![r] = "closed"]
  /\ UNCHANGED <<queueVars, workerVars, mainVars, m_state, improv, timer_flag, mysql, poolVars>>

\* main returns, and exit runs the destructor of the static connection_pool,
\* which calls DestroyPool: an empty list is left as it is.  The workers are
\* detached and nobody waits for them: until the process is gone they run on.
MainReturns ==
  /\ phase = "up" /\ main = "idle"
  /\ main' = "exited"
  /\ IF connList = <<>> THEN UNCHANGED poolVars ELSE Pool!DestroyPool
  /\ UNCHANGED <<queueVars, workerVars, asked, m_actor_model, httpVars>>

-----------------------------------------------------------------------------
(* run, the loop of a worker thread; a crash of one ends them all. *)

\* Mutant of sem_wait: the worker does not block at zero.
sem_wait_NoBlock == m_queuestat' = m_queuestat - 1

sem_wait == m_queuestat > 0 /\ m_queuestat' = m_queuestat - 1

\* m_queuestat.wait()
QueueWait(w) ==
  /\ phase = "up" /\ wpc[w] = "idle"
  /\ sem_wait
  /\ wpc' = [wpc EXCEPT ![w] = "woken"]
  /\ UNCHANGED <<m_workqueue, req, mainVars, httpVars, poolVars>>

\* Mutant of pop_front: front without pop_front.
pop_front_Forgotten == m_workqueue

pop_front == Tail(m_workqueue)

\* The locked section: continue on an empty queue, else take the front.
TakeRequest(w) ==
  /\ phase = "up" /\ wpc[w] = "woken"
  /\ IF m_workqueue = <<>>
       THEN /\ wpc' = [wpc EXCEPT ![w] = "idle"]
            /\ UNCHANGED <<m_workqueue, req>>
       ELSE /\ req' = [req EXCEPT ![w] = Head(m_workqueue)]
            /\ m_workqueue' = pop_front
            /\ wpc' = [wpc EXCEPT ![w] = "took"]
  /\ UNCHANGED <<m_queuestat, mainVars, httpVars, poolVars>>

\* Mutant of SetImprov: improv is set for a read only.
SetImprovForRead(r) == improv' = [improv EXCEPT ![r] = @ \/ m_state[r] = 0]

\* request->improv = 1
SetImprov(r) == improv' = [improv EXCEPT ![r] = TRUE]

\* Reactor, m_state 0: read_once (external) succeeds; improv is set and the
\* scope of mysqlcon begins.  Proactor: the scope begins at once.
BeginServe(w) ==
  /\ phase = "up" /\ wpc[w] = "took"
  /\ Reactor => m_state[req[w]] = 0
  /\ IF Reactor THEN SetImprov(req[w]) ELSE UNCHANGED improv
  /\ wpc' = [wpc EXCEPT ![w] = "serve"]
  /\ UNCHANGED <<queueVars, req, mainVars, event, m_state, timer_flag, mysql, poolVars>>

\* Reactor: read_once or write returns false: improv is set ...
\* write also returns false after it armed the socket for a new request, when
\* the connection is not kept alive.
IOFailed(w) ==
  /\ phase = "up" /\ Reactor
  /\ wpc[w] = "took"
  /\ SetImprov(req[w])
  /\ \E e \in {"off"} \cup (IF m_state[req[w]] = 1 THEN {"in"} ELSE {}) :
       event' = [event EXCEPT ![req[w]] = e]
  /\ wpc' = [wpc EXCEPT ![w] = "failed"]
  /\ UNCHANGED <<queueVars, req, mainVars, timer_flag, m_state, mysql, poolVars>>

\* ... and timer_flag after it; neither is guarded by a lock.
SetTimerFlag(w) ==
  /\ phase = "up" /\ wpc[w] = "failed"
  /\ timer_flag' = [timer_flag EXCEPT ![req[w]] = TRUE]
  /\ wpc' = [wpc EXCEPT ![w] = "idle"]
  /\ req' = [req EXCEPT ![w] = NULL]
  /\ UNCHANGED <<queueVars, mainVars, event, improv, m_state, mysql, poolVars>>

\* Reactor, m_state 1: write succeeds and arms the socket; improv is set.
WriteDone(w) ==
  /\ phase = "up" /\ Reactor
  /\ wpc[w] = "took"
  /\ m_state[req[w]] = 1
  /\ SetImprov(req[w])
  /\ \E e \in {"in", "out"} : event' = [event EXCEPT ![req[w]] = e]
  /\ wpc' = [wpc EXCEPT ![w] = "idle"]
  /\ req' = [req EXCEPT ![w] = NULL]
  /\ UNCHANGED <<queueVars, mainVars, m_state, timer_flag, mysql, poolVars>>

\* Mutant of GivenTo: request->mysql is only set when it is NULL.
GivenToOnce(w) == IF mysql[req[w]] = NULL THEN con'[w] ELSE mysql[req[w]]

\* *SQL = connPool->GetConnection()
GivenTo(w) == con'[w]

\* The constructor of mysqlcon: GetConnection, step by step, whose result goes
\* to request->mysql and to conRAII.
GetConnection(w) ==
  /\ wpc[w] = "serve"
  /\ Pool!GetStep(w)
  /\ mysql' = IF pc'[w] = "using" THEN [mysql EXCEPT ![req[w]] = GivenTo(w)] ELSE mysql
  /\ UNCHANGED <<queueVars, workerVars, mainVars, event, m_state, improv, timer_flag>>

\* Mutant of Process: improv is set again after process.
ProcessThenImprov(w) ==
  /\ phase = "up"
  /\ wpc[w] = "serve" /\ pc[w] = "using"
  /\ \E e \in {"in", "out", "closed"} : event' = [event EXCEPT ![req[w]] = e]
  /\ wpc' = [wpc EXCEPT ![w] = "leave"]
  /\ improv' = [improv EXCEPT ![req[w]] = TRUE]
  /\ UNCHANGED <<queueVars, req, mainVars, m_state, timer_flag, mysql, poolVars>>

\* request->process(): it arms the socket or closes the connection, and from
\* then on main may append the same http_conn again.
Process(w) ==
  /\ phase = "up"
  /\ wpc[w] = "serve" /\ pc[w] = "using"
  /\ \E e \in {"in", "out", "closed"} : event' = [event EXCEPT ![req[w]] = e]
  /\ wpc' = [wpc EXCEPT ![w] = "leave"]
  /\ UNCHANGED <<queueVars, req, mainVars, m_state, improv, timer_flag, mysql, poolVars>>

\* The destructor of mysqlcon: ReleaseConnection(conRAII), step by step.
ReleaseConnection(w) ==
  /\ wpc[w] = "leave"
  /\ Pool!ReleaseStep(w)
  /\ wpc' = IF pc'[w] = "out" THEN [wpc EXCEPT ![w] = "idle"] ELSE wpc
  /\ req' = IF pc'[w] = "out" THEN [req EXCEPT ![w] = NULL] ELSE req
  /\ UNCHANGED <<queueVars, mainVars, httpVars>>

-----------------------------------------------------------------------------
MainStep ==
  \/ \E r \in Requests : Accept(r) \/ MainSocketIO(r) \/ TimerExpires(r)
  \/ \E r \in Requests : AppendPush(r) \/ AppendFull(r)
  \/ AppendPost
  \/ MainNoticesImprov

WorkerStep(w) ==
  \/ QueueWait(w) \/ TakeRequest(w)
  \/ BeginServe(w) \/ IOFailed(w) \/ SetTimerFlag(w) \/ WriteDone(w)
  \/ GetConnection(w) \/ Process(w) \/ ReleaseConnection(w)

PoolStart ==
  /\ Pool!InitStep
  /\ UNCHANGED <<queueVars, workerVars, mainVars, httpVars>>

\* The process is gone, or may be gone at any moment.
Ended == (phase \in {"exited", "crashed"} \/ main = "exited") /\ UNCHANGED vars

Next ==
  \/ PoolStart
  \/ MainStep
  \/ MainReturns
  \/ \E w \in Workers : WorkerStep(w)
  \/ Ended

Spec == Init /\ [][Next]_vars

\* Worker threads that can run do; main finishes the append it has begun.
\* A semaphore serves any of its waiters, so nothing more is assumed of it.
\* Nothing is promised once main has returned.
Fairness ==
  /\ \A w \in Workers : WF_vars(WorkerStep(w))
  /\ WF_vars(AppendPost) /\ WF_vars(MainNoticesImprov)

FairSpec == Spec /\ Fairness

-----------------------------------------------------------------------------
(* Properties. *)

\* The queue semaphore is exact although it is posted after the mutex of the
\* queue is released, so the branch for an empty queue in run is never taken.
QueueSemExact ==
  phase = "up" =>
    Len(m_workqueue) = m_queuestat + Cardinality(AtWork("woken"))
                       + (IF main = "post" THEN 1 ELSE 0)

\* Proactor: between the delivery of an event and the re-arming of the socket an
\* http_conn is in exactly one place: once in the queue or with one worker.
OneOwner ==
  LET owners(r) == {w \in Workers : wpc[w] \in {"took", "serve"} /\ req[w] = r}
  IN  ~Reactor =>
      /\ IsInjective(m_workqueue)
      /\ \A r \in Requests :
           /\ Cardinality(owners(r)) <= 1
           /\ owners(r) # {} => r \notin ToSet(m_workqueue)
           /\ owners(r) # {} \/ r \in ToSet(m_workqueue) => event[r] = "off"

\* Proactor: process uses the connection of its own mysqlcon, although request->mysql is
\* overwritten by the next worker that serves the same http_conn.
OwnConnection ==
  ~Reactor =>
    \A w \in Workers : wpc[w] = "serve" /\ pc[w] = "using" => mysql[req[w]] = con[w]

\* improv is only ever set for the http_conn main waits for: it never takes
\* the flag of an earlier request for the answer to its own.
NoStaleImprov ==
  \A r \in Requests : improv[r] => asked = r

\* The static destructor pulls the connections from under detached workers, and
\* a worker between its semaphore and the mutex then pops an empty list.  That
\* is the only way to it: as long as main is in its loop no worker crashes.
CrashOnlyAtExit ==
  phase = "crashed" => main = "exited" /\ closed # {}

\* Accepted requests are taken, however many workers there are and however few
\* connections: again and again the queue is empty or a worker has just taken
\* its front, as long as main is in its loop.
RequestTaken == []<>(m_workqueue = <<>> \/ AtWork("took") # {} \/ main = "exited")

\* Reactor: main is released from every append that was accepted.
MainReleased == (main = "await") ~> (main = "idle")

=============================================================================
