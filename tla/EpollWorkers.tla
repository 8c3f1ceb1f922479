----------------------------- MODULE EpollWorkers -----------------------------
(***************************************************************************)
(* epollet.cpp: main waits on an edge-triggered epoll set and starts a     *)
(* thread for every event of a client.  The sockets of clients are         *)
(* registered EPOLLONESHOT, so an event switches a socket off until the    *)
(* thread that read it empty calls reset_oneshot.  A new thread is given   *)
(* the address of fds_for_new_worker, a variable of the loop body of main, *)
(* and reads it when it gets to run; main does not wait for it.            *)
(*                                                                         *)
(* A client stands for its socket; what it has sent is a number of pieces. *)
(* A thread is "new", "reading", "again" between EAGAIN and reset_oneshot, *)
(* or "spinning" on a descriptor that another thread has closed.           *)
(***************************************************************************)
EXTENDS Integers, Sequences, SequencesExt

CONSTANTS
  Clients,
  Listener,    \* serv_sock
  MaxSent      \* bound: pieces a client sends

ASSUME ListenerAssumption == Listener \notin Clients /\ MaxSent \in Nat

VARIABLES
  conn,        \* a client: "new", "waiting" to be accepted, "open" or "closed"
  sent, data,  \* pieces sent, and those of them not read yet
  fin,         \* the client has closed its end
  armed,       \* the sockets whose events epoll reports
  ready,       \* the descriptors with an event to report
  batch,       \* the events of epoll_wait that main has not handled yet
  fds_for_new_worker,
  threads,     \* the workers: what each was started for, what it reads, where it is
  stale,       \* some worker has read fds_for_new_worker too late
  up           \* main has not left its loop

netVars == <<conn, sent, data, fin>>
vars    == <<netVars, armed, ready, batch, fds_for_new_worker, threads, stale, up>>

Init ==
  /\ conn = [c \in Clients |-> "new"]
  /\ sent = [c \in Clients |-> 0] /\ data = [c \in Clients |-> 0]
  /\ fin = [c \in Clients |-> FALSE]
  /\ armed = {} /\ ready = {} /\ batch = {}
  /\ fds_for_new_worker = Listener
  /\ threads = <<>> /\ stale = FALSE /\ up = TRUE

-----------------------------------------------------------------------------
(* The clients and the kernel (external). *)

\* An arrival is an edge: it is reported if the socket is armed.
Edge(c) == IF c \in armed THEN ready \cup {c} ELSE ready

Connect(c) ==
  /\ up /\ conn[c] = "new"
  /\ conn' = [conn EXCEPT ![c] = "waiting"]
  /\ ready' = ready \cup {Listener}
  /\ UNCHANGED <<sent, data, fin, armed, batch, fds_for_new_worker, threads, stale, up>>

Send(c) ==
  /\ up /\ conn[c] \in {"waiting", "open"} /\ ~fin[c] /\ sent[c] < MaxSent
  /\ sent' = [sent EXCEPT ![c] = @ + 1]
  /\ data' = [data EXCEPT ![c] = @ + 1]
  /\ ready' = Edge(c)
  /\ UNCHANGED <<conn, fin, armed, batch, fds_for_new_worker, threads, stale, up>>

\* The client closes its end, or resets the connection and what it sent is gone.
CloseEnd(c) ==
  /\ up /\ conn[c] \in {"waiting", "open"} /\ ~fin[c]
  /\ fin' = [fin EXCEPT ![c] = TRUE]
  /\ \E left \in {data[c], 0} : data' = [data EXCEPT ![c] = left]
  /\ ready' = Edge(c)
  /\ UNCHANGED <<conn, sent, armed, batch, fds_for_new_worker, threads, stale, up>>

\* EPOLL_CTL_ADD and EPOLL_CTL_MOD report at once what is there already.
Arm(c) ==
  /\ armed' = armed \cup {c}
  /\ ready' = IF data[c] > 0 \/ fin[c] THEN ready \cup {c} ELSE ready

-----------------------------------------------------------------------------
(* main *)

\* Mutant of Disarm: the sockets are not registered EPOLLONESHOT.
DisarmNone(reported) == armed

\* EPOLLONESHOT: a socket that is reported is switched off.
Disarm(reported) == armed \ reported

\* epoll_wait reports all there is (up to MAX_EVENT_NUMBER).
Wait ==
  /\ up /\ batch = {} /\ ready # {}
  /\ batch' = ready
  /\ ready' = {}
  /\ armed' = Disarm(ready)
  /\ UNCHANGED <<netVars, fds_for_new_worker, threads, stale, up>>

\* One accept for an event of the listening socket, however many wait.
AcceptOne ==
  /\ up /\ Listener \in batch
  /\ batch' = batch \ {Listener}
  /\ \E c \in Clients :
       /\ conn[c] = "waiting"
       /\ conn' = [conn EXCEPT ![c] = "open"]
       /\ Arm(c)
  /\ UNCHANGED <<sent, data, fin, fds_for_new_worker, threads, stale, up>>

\* A thread is started for the socket and given the address of the variable.
StartWorker(c) ==
  /\ up /\ c \in batch \ {Listener}
  /\ batch' = batch \ {c}
  /\ fds_for_new_worker' = c
  /\ threads' = Append(threads, [for |-> c, sockfd |-> Listener, pc |-> "new"])
  /\ UNCHANGED <<netVars, armed, ready, stale, up>>

\* epoll_wait or accept fails: main returns, and the process ends.
Fail ==
  /\ up /\ (batch = {} \/ Listener \in batch)
  /\ up' = FALSE
  /\ UNCHANGED <<netVars, armed, ready, batch, fds_for_new_worker, threads, stale>>

-----------------------------------------------------------------------------
(* worker *)

At(t, where) == up /\ t \in DOMAIN threads /\ threads[t].pc = where

\* The argument is read.
Begin(t) ==
  /\ At(t, "new")
  /\ threads' = [threads EXCEPT ![t].sockfd = fds_for_new_worker, ![t].pc = "reading"]
  /\ stale' = (stale \/ fds_for_new_worker # threads[t].for)
  /\ UNCHANGED <<netVars, armed, ready, batch, fds_for_new_worker, up>>

\* recv returns data; the thread sleeps and comes back.
Receive(t) ==
  /\ At(t, "reading")
  /\ data[threads[t].sockfd] > 0 /\ conn[threads[t].sockfd] = "open"
  /\ data' = [data EXCEPT ![threads[t].sockfd] = @ - 1]
  /\ UNCHANGED <<conn, sent, fin, armed, ready, batch, fds_for_new_worker, threads, stale, up>>

\* recv returns 0: the socket is closed, which takes it out of the epoll set.
Hangup(t) ==
  /\ At(t, "reading")
  /\ LET c == threads[t].sockfd
     IN  /\ data[c] = 0 /\ fin[c] /\ conn[c] = "open"
         /\ conn' = [conn EXCEPT ![c] = "closed"]
         /\ armed' = armed \ {c}
         /\ ready' = ready \ {c}
  /\ threads' = RemoveAt(threads, t)
  /\ UNCHANGED <<sent, data, fin, batch, fds_for_new_worker, stale, up>>

\* recv returns -1 with EAGAIN; with any other error the thread tries again.
WouldBlock(t) ==
  /\ At(t, "reading")
  /\ LET c == threads[t].sockfd
     IN  /\ conn[c] = "closed" \/ (data[c] = 0 /\ ~fin[c])
         /\ threads' = [threads EXCEPT ![t].pc = IF conn[c] = "closed" THEN "spinning" ELSE "again"]
  /\ UNCHANGED <<netVars, armed, ready, batch, fds_for_new_worker, stale, up>>

\* Mutant of Rearm: the thread ends without reset_oneshot.
RearmNothing(t) ==
  /\ At(t, "again")
  /\ threads' = RemoveAt(threads, t)
  /\ UNCHANGED <<netVars, armed, ready, batch, fds_for_new_worker, stale, up>>

\* reset_oneshot, and the end of the thread.
Rearm(t) ==
  /\ At(t, "again")
  /\ IF conn[threads[t].sockfd] = "open" THEN Arm(threads[t].sockfd) ELSE UNCHANGED <<armed, ready>>
  /\ threads' = RemoveAt(threads, t)
  /\ UNCHANGED <<netVars, batch, fds_for_new_worker, stale, up>>

-----------------------------------------------------------------------------
ClientStep(c) == Connect(c) \/ Send(c) \/ CloseEnd(c)
MainStep      == Wait \/ AcceptOne \/ \E c \in Clients : StartWorker(c)
WorkerStep(t) == Begin(t) \/ Receive(t) \/ Hangup(t) \/ WouldBlock(t) \/ Rearm(t)
Threads       == 1 .. Len(threads)

\* main is gone, or waits, and every thread is gone or spins.
Quiet ==
  /\ ~up \/ (batch = {} /\ ready = {} /\ \A t \in Threads : threads[t].pc = "spinning")
  /\ UNCHANGED vars

Next ==
  \/ \E c \in Clients : ClientStep(c)
  \/ MainStep
  \/ \E t \in Threads : WorkerStep(t)
  \/ Fail
  \/ Quiet

Spec == Init /\ [][Next]_vars

\* main runs, and so does every thread; clients do what they like.
Work == \E t \in Threads : WorkerStep(t)
FairSpec == Spec /\ WF_vars(MainStep) /\ WF_vars(Work)

-----------------------------------------------------------------------------
(* Properties. *)

Served(c) == {t \in Threads : threads[t].for = c}

\* As long as every worker read its argument in time, an open connection is
\* with exactly one party: armed in epoll, reported but not handled, or served
\* by one thread; so no two threads read one socket and none is abandoned.
OneParty ==
  ~stale => \A c \in Clients : conn[c] = "open" =>
    \/ c \in armed \ batch /\ Served(c) = {}
    \/ c \in batch \ armed /\ Served(c) = {}
    \/ c \notin armed \cup batch /\ \E t \in Threads : Served(c) = {t}

\* Data on an open connection is read, though it may come between EAGAIN and
\* reset_oneshot, and though edges are reported once.
DataRead ==
  \A c \in Clients : (conn[c] = "open" /\ data[c] > 0) ~> (data[c] = 0 \/ stale \/ ~up)

\* A thread serves the socket it was started for.
OwnSocket == \A t \in Threads : threads[t].pc # "new" => threads[t].sockfd = threads[t].for

=============================================================================
