----------------------------- MODULE TimerServer -----------------------------
(***************************************************************************)
(* nonactive_conn.cpp: an echo server that closes connections on which     *)
(* nothing arrives.  Every accepted connection has a timer of 3 TIMESLOTs  *)
(* in timer_lst.  alarm(TIMESLOT) raises SIGALRM; the signal handler only  *)
(* writes the signal's number to a pipe that the event loop watches; the   *)
(* loop notes the timeout, and when it has handled all the events of the   *)
(* round it calls tick and sets the next alarm.                            *)
(*                                                                         *)
(* timer_lst (lst_timer.h, not in the sources) is used as a set of timers, *)
(* tick of which calls cb_func on every one that has expired and drops it. *)
(* Time is relative: what is left until the alarm, and until a timer       *)
(* expires.  A client stands for its descriptor, which is used again by a  *)
(* later connection; the bytes waiting on it are either some or none.      *)
(* cb_func's EPOLL_CTL_DEL goes to the file-scope epollfd, which is 0, and *)
(* fails: it is close that takes the descriptor out of the epoll set.      *)
(***************************************************************************)
EXTENDS Integers, Sequences, FiniteSets, SequencesExt

CONSTANTS
  Clients,
  Listener,    \* serv_sock
  Pipe,        \* pipefd[0]
  TIMESLOT

ASSUME TimeslotAssumption == TIMESLOT \in Nat \ {0}
ASSUME DescriptorAssumption == Listener # Pipe /\ {Listener, Pipe} \cap Clients = {}

VARIABLES
  conn,        \* a descriptor: "closed", "waiting" to be accepted, or "open"
  unread,      \* bytes wait on it
  fin,         \* the client has closed its end
  ready,       \* the descriptors with an event epoll has not reported yet
  batch,       \* the events of this round not handled yet
  main,        \* "wait" at epoll_wait, "round" after it, or "stopped"
  timeout, stop_server,
  signals,     \* the bytes in the pipe
  alarm,       \* what is left until SIGALRM; Off when no alarm is set
  timer_lst,   \* the connections with a timer in the list
  expire       \* what is left of each timer

netVars   == <<conn, unread, fin>>
timerVars == <<timer_lst, expire>>
vars      == <<netVars, ready, batch, main, timeout, stop_server, signals, alarm, timerVars>>

Off == -1
Up  == main # "stopped"

Init ==
  /\ conn = [c \in Clients |-> "closed"]
  /\ unread = [c \in Clients |-> FALSE] /\ fin = [c \in Clients |-> FALSE]
  /\ ready = {} /\ batch = {} /\ main = "wait"
  /\ timeout = FALSE /\ stop_server = FALSE
  /\ signals = <<>> /\ alarm = TIMESLOT
  /\ timer_lst = {} /\ expire = [c \in Clients |-> 0]

-----------------------------------------------------------------------------
(* The clients and time (external). *)

Connect(c) ==
  /\ Up /\ conn[c] = "closed"
  /\ conn' = [conn EXCEPT ![c] = "waiting"]
  /\ ready' = ready \cup {Listener}
  /\ UNCHANGED <<unread, fin, batch, main, timeout, stop_server, signals, alarm, timerVars>>

\* An arrival on a descriptor in the epoll set is an edge.
Edge(c) == IF conn[c] = "open" THEN ready \cup {c} ELSE ready

Send(c) ==
  /\ Up /\ conn[c] # "closed" /\ ~fin[c]
  /\ unread' = [unread EXCEPT ![c] = TRUE]
  /\ ready' = Edge(c)
  /\ UNCHANGED <<conn, fin, batch, main, timeout, stop_server, signals, alarm, timerVars>>

\* The client closes its end, or resets the connection and what it sent is gone.
Leave(c) ==
  /\ Up /\ conn[c] # "closed" /\ ~fin[c]
  /\ fin' = [fin EXCEPT ![c] = TRUE]
  /\ \E u \in {unread[c], FALSE} : unread' = [unread EXCEPT ![c] = u]
  /\ ready' = Edge(c)
  /\ UNCHANGED <<conn, batch, main, timeout, stop_server, signals, alarm, timerVars>>

Sooner(left) == IF left > 0 THEN left - 1 ELSE left

TimePasses ==
  /\ Up
  /\ alarm' = Sooner(alarm)
  /\ expire' = [c \in Clients |-> Sooner(expire[c])]
  /\ alarm' # alarm \/ expire' # expire
  /\ UNCHANGED <<netVars, ready, batch, main, timeout, stop_server, signals, timer_lst>>

-----------------------------------------------------------------------------
(* sig_handler, which may run between any two steps of main. *)
sig_handler(sig) ==
  /\ signals' = Append(signals, sig)
  /\ ready' = ready \cup {Pipe}

AlarmRaised ==
  /\ Up /\ alarm = 0
  /\ alarm' = Off
  /\ sig_handler("SIGALRM")
  /\ UNCHANGED <<netVars, batch, main, timeout, stop_server, timerVars>>

\* Somebody sends SIGTERM; a second one before the first is read adds nothing.
TermRaised ==
  /\ Up /\ "SIGTERM" \notin ToSet(signals)
  /\ sig_handler("SIGTERM")
  /\ UNCHANGED <<netVars, batch, main, timeout, stop_server, alarm, timerVars>>

-----------------------------------------------------------------------------
(* The event loop of main. *)

\* epoll_wait returns what there is.  Interrupted by a signal (EINTR) it makes a
\* round without events, which changes nothing.
Wait ==
  /\ main = "wait" /\ ready # {}
  /\ main' = "round"
  /\ batch' = ready
  /\ ready' = {}
  /\ UNCHANGED <<netVars, timeout, stop_server, signals, alarm, timerVars>>

\* cb_func: close the sockets cs, and what waits on them is gone.
cb_func(cs) ==
  /\ conn' = [c \in Clients |-> IF c \in cs THEN "closed" ELSE conn[c]]
  /\ unread' = [c \in Clients |-> unread[c] /\ c \notin cs]
  /\ fin' = [c \in Clients |-> fin[c] /\ c \notin cs]
  /\ ready' = ready \ cs

\* One accept for an event of the listening socket, however many wait; what
\* arrived on the connection before is reported when it joins the epoll set.
Accept(c) ==
  /\ main = "round" /\ Listener \in batch /\ conn[c] = "waiting"
  /\ batch' = batch \ {Listener}
  /\ conn' = [conn EXCEPT ![c] = "open"]
  /\ ready' = IF unread[c] \/ fin[c] THEN ready \cup {c} ELSE ready
  /\ timer_lst' = timer_lst \cup {c}
  /\ expire' = [expire EXCEPT ![c] = 3 * TIMESLOT]
  /\ UNCHANGED <<unread, fin, main, timeout, stop_server, signals, alarm>>

\* Mutant of Noted: only the first byte of the pipe is looked at.
NotedFirst(sig) == signals # <<>> /\ Head(signals) = sig

Noted(sig) == sig \in ToSet(signals)

\* recv empties the pipe; every signal in it is noted.
ReadSignals ==
  /\ main = "round" /\ Pipe \in batch
  /\ batch' = batch \ {Pipe}
  /\ timeout' = (timeout \/ Noted("SIGALRM"))
  /\ stop_server' = (stop_server \/ Noted("SIGTERM"))
  /\ signals' = <<>>
  /\ UNCHANGED <<netVars, ready, main, alarm, timerVars>>

\* One recv of at most BUFFER_SIZE - 1 bytes, which may leave some unread;
\* they are echoed and the timer starts anew.
Echo(c) ==
  /\ main = "round" /\ c \in batch /\ unread[c]
  /\ batch' = batch \ {c}
  /\ \E rest \in BOOLEAN : unread' = [unread EXCEPT ![c] = rest]
  /\ expire' = [expire EXCEPT ![c] = 3 * TIMESLOT]
  /\ UNCHANGED <<conn, fin, ready, main, timeout, stop_server, signals, alarm, timer_lst>>

\* Mutant of del_timer: a timer is dropped only when it expires.
del_timer_Late(c) == {d \in timer_lst : d # c \/ expire[c] > 0}

\* timer_lst.del_timer
del_timer(c) == timer_lst \ {c}

\* recv returns 0, or fails with something else than EAGAIN.
PeerGone(c) ==
  /\ main = "round" /\ c \in batch /\ ~unread[c] /\ fin[c]
  /\ batch' = batch \ {c}
  /\ cb_func({c})
  /\ timer_lst' = del_timer(c)
  /\ UNCHANGED <<main, timeout, stop_server, signals, alarm, expire>>

\* EAGAIN: an earlier recv has taken what this event announced.
NothingThere(c) ==
  /\ main = "round" /\ c \in batch /\ ~unread[c] /\ ~fin[c]
  /\ batch' = batch \ {c}
  /\ UNCHANGED <<netVars, ready, main, timeout, stop_server, signals, alarm, timerVars>>

\* Mutant of Expired: a connection the client has closed is left to the loop.
ExpiredWithPeer == {c \in timer_lst : expire[c] = 0 /\ ~fin[c]}

\* What tick finds expired.
Expired == {c \in timer_lst : expire[c] = 0}

\* tick, and the next alarm.
timer_handler ==
  /\ cb_func(Expired)
  /\ timer_lst' = timer_lst \ Expired
  /\ alarm' = TIMESLOT

\* All events of the round are handled: the timers are looked at, and the loop
\* goes on unless SIGTERM came.
EndRound ==
  /\ main = "round" /\ batch = {}
  /\ IF timeout THEN timer_handler ELSE UNCHANGED <<netVars, ready, timer_lst, alarm>>
  /\ timeout' = FALSE
  /\ main' = IF stop_server THEN "stopped" ELSE "wait"
  /\ UNCHANGED <<batch, stop_server, signals, expire>>

\* epoll_wait fails, accept fails, or send on a connection that the client has
\* closed raises SIGPIPE, which is not handled: the process ends.
Fail ==
  /\ \/ main = "wait"
     \/ main = "round" /\ (Listener \in batch \/ \E c \in batch \cap Clients : unread[c] /\ fin[c])
  /\ main' = "stopped"
  /\ UNCHANGED <<netVars, ready, batch, timeout, stop_server, signals, alarm, timerVars>>

-----------------------------------------------------------------------------
ClientStep(c) == Connect(c) \/ Send(c) \/ Leave(c)

MainStep ==
  \/ Wait \/ ReadSignals \/ EndRound
  \/ \E c \in Clients : Accept(c) \/ Echo(c) \/ PeerGone(c) \/ NothingThere(c)

Stopped == ~Up /\ UNCHANGED vars

Next ==
  \/ \E c \in Clients : ClientStep(c)
  \/ TimePasses \/ AlarmRaised \/ TermRaised
  \/ MainStep \/ Fail
  \/ Stopped

Spec == Init /\ [][Next]_vars

\* Time passes, signals are delivered and main runs.  Clients do as they like.
FairSpec == Spec /\ WF_vars(TimePasses) /\ WF_vars(AlarmRaised) /\ WF_vars(MainStep)

-----------------------------------------------------------------------------
(* Properties. *)

\* The connections with a timer are the open ones: a timer left behind would
\* close the next connection with the same descriptor, and a connection
\* without one would never be closed.
TimerPerConnection == Up => timer_lst = {c \in Clients : conn[c] = "open"}

\* The alarm is set, or SIGALRM is in the pipe and epoll will report or has
\* reported it, or it is noted for the end of this round: exactly one of them.
\* The loop sets the next alarm itself, so a signal lost on the way would be
\* the last one.
ClockNeverStops ==
  Up =>
    /\ Cardinality({i \in DOMAIN signals : signals[i] = "SIGALRM"})
         + (IF alarm # Off THEN 1 ELSE 0) + (IF timeout THEN 1 ELSE 0) = 1
    /\ signals # <<>> => Pipe \in ready \cup batch
    /\ timeout => main = "round"

\* A connection that stays open is one on which data keeps arriving; also when
\* a peer's last data and its end arrive together and the end is never read.
IdleClosed ==
  \A c \in Clients : []<>(conn[c] # "open" \/ ~Up) \/ []<><<Send(c)>>_vars

=============================================================================
