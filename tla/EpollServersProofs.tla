-------------------------- MODULE EpollServersProofs --------------------------
(***************************************************************************)
(* The two epoll servers.                                                  *)
(*                                                                         *)
(* nonactive_conn.cpp (TimerServer): the timers and the alarm of the       *)
(* server that closes idle connections, for any descriptors, any TIMESLOT  *)
(* and any order of signals, data and departures.  TimerPerConnection is   *)
(* inductive once the list is known to hold clients only.  ClockNeverStops *)
(* counts the places where the one alarm may be: its argument is about how *)
(* many bytes of the pipe are SIGALRM, and about no step but ReadSignals   *)
(* taking the pipe's event away, which needs that epoll_wait is only       *)
(* called when every event is handled (RoundOver).                         *)
(*                                                                         *)
(* epollet.cpp (EpollWorkers, as the instance Workers): as long as no      *)
(* worker has read its argument too late, OneParty is inductive together   *)
(* with three facts: only armed sockets have events to report, a client    *)
(* that was not accepted yet is with nobody, and a thread that has begun   *)
(* reads the socket it was started for.                                    *)
(***************************************************************************)
EXTENDS TimerServer, SequenceTheorems, FiniteSetTheorems, TLAPS

Signals == {"SIGALRM", "SIGTERM"}

(* The SIGALRMs in the pipe. *)
Alarms(s) == {i \in DOMAIN s : s[i] = "SIGALRM"}

TypeInv ==
  /\ conn \in [Clients -> {"closed", "waiting", "open"}]
  /\ signals \in Seq(Signals)
  /\ alarm \in Nat \cup {Off}
  /\ timer_lst \subseteq Clients

ServerInv == TypeInv /\ TimerPerConnection

(* Steps that touch neither the connections nor the timers. *)
LEMMA Untouched ==
  ASSUME ServerInv, UNCHANGED <<conn, timer_lst>>, Up' => Up,
         signals' \in Seq(Signals), alarm' \in Nat \cup {Off}
  PROVE  ServerInv'
BY DEF ServerInv, TypeInv, TimerPerConnection

(* cb_func and the list together close the connections cs. *)
LEMMA Closing ==
  ASSUME ServerInv, Up, NEW cs \in SUBSET Clients, cb_func(cs),
         timer_lst' = timer_lst \ cs, UNCHANGED signals, alarm' \in Nat \cup {Off}
  PROVE  ServerInv'
BY DEF ServerInv, TypeInv, TimerPerConnection, cb_func

LEMMA InitServerInv == Init => ServerInv
BY TimeslotAssumption, EmptySeq DEF Init, ServerInv, TypeInv, TimerPerConnection, Signals

LEMMA NextServerInv == ServerInv /\ [Next]_vars => ServerInv'
<1> SUFFICES ASSUME ServerInv, [Next]_vars PROVE ServerInv'
  OBVIOUS
<1>0. signals \in Seq(Signals) /\ alarm \in Nat \cup {Off} /\ timer_lst \subseteq Clients
  BY DEF ServerInv, TypeInv
<1>1. ASSUME NEW c \in Clients, Connect(c) PROVE ServerInv'
  BY <1>1 DEF Connect, ServerInv, TypeInv, TimerPerConnection, timerVars, Up
<1>2. ASSUME NEW c \in Clients, Send(c) \/ Leave(c) PROVE ServerInv'
  BY <1>0, <1>2, Untouched DEF Send, Leave, timerVars, Up
<1>3. CASE TimePasses
  <2>1. alarm' \in Nat \cup {Off}
    BY <1>0, <1>3 DEF TimePasses, Sooner, Off
  <2> QED  BY <1>0, <1>3, <2>1, Untouched DEF TimePasses, netVars, Up
<1>4. CASE AlarmRaised
  <2>1. signals' \in Seq(Signals)
    BY <1>0, <1>4, AppendProperties DEF AlarmRaised, sig_handler, Signals
  <2> QED  BY <1>0, <1>4, <2>1, Untouched DEF AlarmRaised, netVars, timerVars, Up
<1>5. CASE TermRaised
  <2>1. signals' \in Seq(Signals)
    BY <1>0, <1>5, AppendProperties DEF TermRaised, sig_handler, Signals
  <2> QED  BY <1>0, <1>5, <2>1, Untouched DEF TermRaised, netVars, timerVars, Up
<1>6. CASE Wait
  BY <1>0, <1>6, Untouched DEF Wait, netVars, timerVars, Up
<1>7. CASE ReadSignals
  <2>1. signals' \in Seq(Signals)
    BY <1>7, EmptySeq DEF ReadSignals
  <2> QED  BY <1>0, <1>7, <2>1, Untouched DEF ReadSignals, netVars, timerVars, Up
<1>8. CASE EndRound
  <2>1. CASE timeout
    <3>1. Expired \in SUBSET Clients
      BY <1>0 DEF Expired
    <3>2. alarm' \in Nat \cup {Off}
      BY <1>8, <2>1, TimeslotAssumption DEF EndRound, timer_handler
    <3> QED  BY <1>8, <2>1, <3>1, <3>2, Closing DEF EndRound, timer_handler, Up
  <2>2. CASE ~timeout
    BY <1>0, <1>8, <2>2, Untouched DEF EndRound, netVars, Up
  <2> QED  BY <2>1, <2>2
<1>9. ASSUME NEW c \in Clients, Accept(c) PROVE ServerInv'
  BY <1>9 DEF Accept, ServerInv, TypeInv, TimerPerConnection, Up
<1>10. ASSUME NEW c \in Clients, Echo(c) \/ NothingThere(c) PROVE ServerInv'
  BY <1>0, <1>10, Untouched DEF Echo, NothingThere, netVars, timerVars, Up
<1>11. ASSUME NEW c \in Clients, PeerGone(c) PROVE ServerInv'
  BY <1>0, <1>11, Closing DEF PeerGone, del_timer, Up
<1>12. CASE Fail
  BY <1>0, <1>12, Untouched DEF Fail, netVars, timerVars, Up
<1>13. CASE UNCHANGED vars
  BY <1>0, <1>13, Untouched DEF vars, netVars, timerVars, Up
<1> QED
  BY <1>1, <1>2, <1>3, <1>4, <1>5, <1>6, <1>7, <1>8, <1>9, <1>10, <1>11, <1>12, <1>13
     DEF Next, ClientStep, MainStep, Stopped

LEMMA ServerInductive == Spec => []ServerInv
BY InitServerInv, NextServerInv, PTL DEF Spec

(* The connections with a timer are exactly the open ones: whether the     *)
(* peer, an error or its timer ends a connection, cb_func and the list     *)
(* change together.                                                        *)
THEOREM TimerPerConnectionHolds == Spec => []TimerPerConnection
<1>1. ServerInv => TimerPerConnection
  BY DEF ServerInv
<1> QED  BY <1>1, ServerInductive, PTL

-----------------------------------------------------------------------------
(* The clock. *)

LEMMA AlarmsFinite ==
  ASSUME NEW s \in Seq(Signals)
  PROVE  /\ IsFiniteSet(Alarms(s)) /\ Cardinality(Alarms(s)) \in Nat
         /\ Cardinality(Alarms(s)) = 0 <=> "SIGALRM" \notin ToSet(s)
<1>1. DOMAIN s = 1 .. Len(s) /\ Len(s) \in Nat
  BY LenProperties
<1>2. IsFiniteSet(Alarms(s)) /\ Cardinality(Alarms(s)) \in Nat
  <2>1. IsFiniteSet(1 .. Len(s))
    BY <1>1, FS_Interval
  <2>2. Alarms(s) \in SUBSET (1 .. Len(s))
    BY <1>1 DEF Alarms
  <2> QED  BY <2>1, <2>2, FS_Subset, FS_CardinalityType
<1>3. Cardinality(Alarms(s)) = 0 <=> Alarms(s) = {}
  BY <1>2, FS_EmptySet
<1>4. Alarms(s) = {} <=> "SIGALRM" \notin ToSet(s)
  BY DEF Alarms, ToSet
<1> QED  BY <1>2, <1>3, <1>4

LEMMA NoneInEmptyPipe == Cardinality(Alarms(<<>>)) = 0
<1>1. Alarms(<<>>) = {}
  BY DEF Alarms
<1> QED  BY <1>1, FS_EmptySet

(* A SIGTERM leaves the SIGALRMs as they are. *)
LEMMA TermAppended ==
  ASSUME NEW s \in Seq(Signals)
  PROVE  Alarms(Append(s, "SIGTERM")) = Alarms(s)
<1>1. /\ DOMAIN s = 1 .. Len(s) /\ Len(s) \in Nat
      /\ DOMAIN Append(s, "SIGTERM") = 1 .. (Len(s) + 1)
      /\ \A i \in 1 .. Len(s) : Append(s, "SIGTERM")[i] = s[i]
      /\ Append(s, "SIGTERM")[Len(s) + 1] = "SIGTERM"
  BY LenProperties, AppendProperties DEF Signals
<1>2. 1 .. (Len(s) + 1) = (1 .. Len(s)) \cup {Len(s) + 1}
  BY <1>1
<1> QED  BY <1>1, <1>2 DEF Alarms

(* The first SIGALRM is one. *)
LEMMA FirstAlarmAppended ==
  ASSUME NEW s \in Seq(Signals), Alarms(s) = {}
  PROVE  Cardinality(Alarms(Append(s, "SIGALRM"))) = 1
<1>1. /\ DOMAIN s = 1 .. Len(s) /\ Len(s) \in Nat
      /\ DOMAIN Append(s, "SIGALRM") = 1 .. (Len(s) + 1)
      /\ \A i \in 1 .. Len(s) : Append(s, "SIGALRM")[i] = s[i]
      /\ Append(s, "SIGALRM")[Len(s) + 1] = "SIGALRM"
  BY LenProperties, AppendProperties DEF Signals
<1>2. 1 .. (Len(s) + 1) = (1 .. Len(s)) \cup {Len(s) + 1}
  BY <1>1
<1>3. Alarms(Append(s, "SIGALRM")) = {Len(s) + 1}
  BY <1>1, <1>2 DEF Alarms
<1> QED  BY <1>3, FS_Singleton

(* The three parts of ClockNeverStops, for a server that is up. *)
OneAlarm ==
  Cardinality(Alarms(signals)) + (IF alarm # Off THEN 1 ELSE 0) + (IF timeout THEN 1 ELSE 0) = 1
PipeSeen == signals # <<>> => Pipe \in ready \cup batch
Clock    == OneAlarm /\ PipeSeen /\ (timeout => main = "round")

LEMMA ClockIs == ClockNeverStops <=> (Up => Clock)
BY DEF ClockNeverStops, Clock, OneAlarm, PipeSeen, Alarms

LEMMA InitClock == Init => Clock
BY TimeslotAssumption, NoneInEmptyPipe DEF Init, Clock, OneAlarm, PipeSeen, Off

(* Steps that leave alarm, pipe and flag alone. *)
LEMMA ClockUntouched ==
  ASSUME Clock, UNCHANGED <<signals, timeout>>, (alarm' = Off) <=> (alarm = Off),
         Pipe \in ready \cup batch => Pipe \in ready' \cup batch',
         timeout => main' = "round"
  PROVE  Clock'
BY DEF Clock, OneAlarm, PipeSeen

(* A round ends only when all its events are handled, so that epoll_wait   *)
(* overwrites none.                                                        *)
RoundOver == main = "wait" => batch = {}

LEMMA NextRoundOver == RoundOver /\ [Next]_vars => RoundOver'
BY DEF RoundOver, Next, ClientStep, MainStep, Stopped, Connect, Send, Leave, TimePasses,
       AlarmRaised, TermRaised, Wait, ReadSignals, EndRound, Accept, Echo, PeerGone,
       NothingThere, Fail, vars

LEMMA NextClock == ServerInv /\ RoundOver /\ Up /\ Clock /\ Next /\ Up' => Clock'
<1> SUFFICES ASSUME ServerInv, RoundOver, Up, Clock, Next, Up' PROVE Clock'
  OBVIOUS
<1>0. /\ signals \in Seq(Signals) /\ alarm \in Nat \cup {Off} /\ timer_lst \subseteq Clients
      /\ Cardinality(Alarms(signals)) \in Nat
  BY AlarmsFinite DEF ServerInv, TypeInv
<1>a. timeout => main = "round"
  BY DEF Clock
<1>1. ASSUME NEW c \in Clients, Connect(c) \/ Send(c) \/ Leave(c) PROVE Clock'
  BY <1>1, <1>a, ClockUntouched DEF Connect, Send, Leave, Edge
<1>3. CASE TimePasses
  <2>1. (alarm' = Off) <=> (alarm = Off)
    BY <1>0, <1>3 DEF TimePasses, Sooner, Off
  <2> QED  BY <1>3, <1>a, <2>1, ClockUntouched DEF TimePasses
<1>4. CASE AlarmRaised
  <2>1. alarm = 0 /\ alarm' = Off /\ UNCHANGED <<timeout, batch, main>>
        /\ signals' = Append(signals, "SIGALRM") /\ Pipe \in ready'
    BY <1>4 DEF AlarmRaised, sig_handler
  <2>2. Cardinality(Alarms(signals)) = 0 /\ ~timeout
    BY <1>0, <2>1 DEF Clock, OneAlarm, Off
  <2>3. Alarms(signals) = {}
    BY <1>0, <2>2, AlarmsFinite, FS_EmptySet
  <2>4. Cardinality(Alarms(signals')) = 1
    BY <1>0, <2>1, <2>3, FirstAlarmAppended
  <2> QED  BY <2>1, <2>2, <2>4 DEF Clock, OneAlarm, PipeSeen
<1>5. CASE TermRaised
  <2>1. UNCHANGED <<alarm, timeout, batch, main>> /\ signals' = Append(signals, "SIGTERM")
        /\ Pipe \in ready'
    BY <1>5 DEF TermRaised, sig_handler
  <2>2. Alarms(signals') = Alarms(signals)
    BY <1>0, <2>1, TermAppended
  <2> QED  BY <2>1, <2>2 DEF Clock, OneAlarm, PipeSeen
<1>6. CASE Wait
  BY <1>6, <1>a, ClockUntouched DEF Wait, RoundOver
<1>7. CASE ReadSignals
  <2>1. signals' = <<>> /\ UNCHANGED <<alarm, main>> /\ main = "round"
        /\ (timeout' <=> (timeout \/ "SIGALRM" \in ToSet(signals)))
    BY <1>7 DEF ReadSignals, Noted
  <2>2. Cardinality(Alarms(signals')) = 0
    BY <2>1, NoneInEmptyPipe
  <2>3. Cardinality(Alarms(signals)) = 0 <=> "SIGALRM" \notin ToSet(signals)
    BY <1>0, AlarmsFinite
  <2>4. (IF alarm # Off THEN 1 ELSE 0) + (IF timeout' THEN 1 ELSE 0) = 1
    <3>1. Cardinality(Alarms(signals)) + (IF alarm # Off THEN 1 ELSE 0) + (IF timeout THEN 1 ELSE 0) = 1
      BY DEF Clock, OneAlarm
    <3> QED  BY <1>0, <2>1, <2>3, <3>1
  <2> QED  BY <2>1, <2>2, <2>4 DEF Clock, OneAlarm, PipeSeen
<1>8. CASE EndRound
  <2>1. Pipe \notin Clients
    BY DescriptorAssumption
  <2>2. UNCHANGED <<signals, batch>> /\ timeout' = FALSE
    BY <1>8 DEF EndRound
  <2>3. Pipe \in ready => Pipe \in ready'
    BY <1>0, <1>8, <2>1 DEF EndRound, timer_handler, cb_func, Expired
  <2>4. CASE timeout
    <3>1. alarm' # Off
      BY <1>8, <2>4, TimeslotAssumption DEF EndRound, timer_handler, Off
    <3>2. Cardinality(Alarms(signals)) = 0
      BY <1>0, <2>4 DEF Clock, OneAlarm
    <3> QED  BY <2>2, <2>3, <3>1, <3>2 DEF Clock, OneAlarm, PipeSeen
  <2>5. CASE ~timeout
    <3>1. alarm' = alarm
      BY <1>8, <2>5 DEF EndRound
    <3> QED  BY <2>2, <2>3, <2>5, <3>1 DEF Clock, OneAlarm, PipeSeen
  <2> QED  BY <2>4, <2>5
<1>9. ASSUME NEW c \in Clients, Accept(c) PROVE Clock'
  BY <1>9, <1>a, DescriptorAssumption, ClockUntouched DEF Accept
<1>10. ASSUME NEW c \in Clients, Echo(c) \/ NothingThere(c) PROVE Clock'
  BY <1>10, <1>a, DescriptorAssumption, ClockUntouched DEF Echo, NothingThere
<1>11. ASSUME NEW c \in Clients, PeerGone(c) PROVE Clock'
  BY <1>11, <1>a, DescriptorAssumption, ClockUntouched DEF PeerGone, cb_func
<1>12. CASE Fail
  BY <1>12 DEF Fail, Up
<1>13. CASE Stopped
  BY <1>13 DEF Stopped, Up
<1> QED
  BY <1>1, <1>3, <1>4, <1>5, <1>6, <1>7, <1>8, <1>9, <1>10, <1>11, <1>12, <1>13
     DEF Next, ClientStep, MainStep

(* A server that is stopped stays so. *)
LEMMA StoppedForGood == [Next]_vars /\ Up' => Up
BY DEF Next, ClientStep, MainStep, Stopped, Connect, Send, Leave, TimePasses, AlarmRaised,
       TermRaised, Wait, ReadSignals, EndRound, Accept, Echo, PeerGone, NothingThere, Fail, vars, Up

(* The alarm is in exactly one place, set, in the pipe, or noted, and      *)
(* nothing between sig_handler and timer_handler loses it.                 *)
THEOREM ClockNeverStopsHolds == Spec => []ClockNeverStops
<1>1. Init => ClockNeverStops
  BY InitClock, ClockIs
<1>2. ServerInv /\ RoundOver /\ ClockNeverStops /\ [Next]_vars => ClockNeverStops'
  <2> SUFFICES ASSUME ServerInv, RoundOver, ClockNeverStops, [Next]_vars, Up' PROVE ClockNeverStops'
    BY DEF ClockNeverStops
  <2>1. Up /\ Clock
    BY StoppedForGood, ClockIs
  <2>2. CASE Next
    <3>1. Clock'
      BY <2>1, <2>2, NextClock
    <3> QED  BY <3>1 DEF ClockNeverStops, Clock, OneAlarm, PipeSeen, Alarms
  <2>3. CASE UNCHANGED vars
    BY <2>3 DEF vars, ClockNeverStops, Up
  <2> QED  BY <2>2, <2>3
<1>3. Init => RoundOver
  BY DEF Init, RoundOver
<1> QED  BY <1>1, <1>2, <1>3, NextRoundOver, ServerInductive, PTL DEF Spec

-----------------------------------------------------------------------------
(* The worker threads of epollet.cpp, whose variables are their own. *)

CONSTANT MaxSent

VARIABLES w_conn, w_fin, w_ready, w_batch,
          sent, data, armed, fds_for_new_worker, threads, stale, up

Workers == INSTANCE EpollWorkers
             WITH conn <- w_conn, fin <- w_fin, ready <- w_ready, batch <- w_batch

Thread == [for : Clients, sockfd : Clients \cup {Listener}, pc : {"new", "reading", "again", "spinning"}]

Served(c) == {t \in 1 .. Len(threads) : threads[t].for = c}

(* c is armed, reported or served, and only one of them. *)
OneOf(c) ==
  \/ c \in armed \ w_batch /\ Served(c) = {}
  \/ c \in w_batch \ armed /\ Served(c) = {}
  \/ c \notin armed \cup w_batch /\ \E t : Served(c) = {t}

(* A client that was not accepted yet is with nobody. *)
NoneOf(c) == c \notin armed \cup w_batch /\ Served(c) = {}

Placed(c) ==
  /\ w_conn[c] \in {"new", "waiting"} => NoneOf(c)
  /\ w_conn[c] = "open" => OneOf(c)

WorkersTypes ==
  /\ w_conn \in [Clients -> {"new", "waiting", "open", "closed"}]
  /\ armed \subseteq Clients /\ w_batch \subseteq Clients \cup {Listener}
  /\ w_ready \subseteq armed \cup {Listener}
  /\ fds_for_new_worker \in Clients \cup {Listener}
  /\ threads \in Seq(Thread)
  /\ \A t \in 1 .. Len(threads) : threads[t].pc # "new" => threads[t].sockfd = threads[t].for

WorkersInv == WorkersTypes /\ \A c \in Clients : Placed(c)

LEMMA RemoveAtProperties ==
  ASSUME NEW S, NEW s \in Seq(S), NEW i \in 1 .. Len(s)
  PROVE  /\ RemoveAt(s, i) \in Seq(S) /\ Len(RemoveAt(s, i)) = Len(s) - 1
         /\ \A k \in 1 .. Len(s) - 1 : RemoveAt(s, i)[k] = s[IF k < i THEN k ELSE k + 1]
<1> DEFINE a == SubSeq(s, 1, i - 1)
           b == SubSeq(s, i + 1, Len(s))
<1>1. Len(s) \in Nat /\ i \in Nat /\ i >= 1 /\ i <= Len(s)
  OBVIOUS
<1>2. a \in Seq(S) /\ Len(a) = i - 1 /\ \A k \in 1 .. i - 1 : a[k] = s[k]
  BY <1>1
<1>3. b \in Seq(S) /\ Len(b) = Len(s) - i
  BY <1>1
<1>4. ASSUME NEW k \in 1 .. Len(s) - i PROVE b[k] = s[i + k]
  <2>1. b[k] = s[(i + 1) + k - 1] /\ (i + 1) + k - 1 = i + k
    BY <1>1
  <2> QED  BY <2>1
<1>5. RemoveAt(s, i) = a \o b
  BY DEF RemoveAt
<1> HIDE DEF a, b
<1>6. /\ a \o b \in Seq(S) /\ Len(a \o b) = (i - 1) + (Len(s) - i)
      /\ \A k \in 1 .. (i - 1) + (Len(s) - i) : (a \o b)[k] = IF k <= i - 1 THEN a[k] ELSE b[k - (i - 1)]
  <2>1. /\ a \o b \in Seq(S) /\ Len(a \o b) = Len(a) + Len(b)
        /\ \A k \in 1 .. Len(a) + Len(b) : (a \o b)[k] = IF k <= Len(a) THEN a[k] ELSE b[k - Len(a)]
    BY <1>2, <1>3, ConcatProperties, Zenon
  <2> QED  BY <1>2, <1>3, <2>1, Zenon
<1>7. (i - 1) + (Len(s) - i) = Len(s) - 1
  BY <1>1
<1>8. ASSUME NEW k \in 1 .. Len(s) - 1 PROVE (a \o b)[k] = s[IF k < i THEN k ELSE k + 1]
  <2>1. (a \o b)[k] = IF k <= i - 1 THEN a[k] ELSE b[k - (i - 1)]
    BY <1>6, <1>7
  <2>2. CASE k < i
    <3>1. k \in 1 .. i - 1 /\ k <= i - 1
      BY <1>1, <2>2
    <3> QED  BY <1>2, <2>1, <2>2, <3>1
  <2>3. CASE ~(k < i)
    <3>1. ~(k <= i - 1) /\ k - (i - 1) \in 1 .. Len(s) - i /\ i + (k - (i - 1)) = k + 1
      BY <1>1, <2>3
    <3>2. b[k - (i - 1)] = s[k + 1]
      BY <1>4, <3>1
    <3> QED  BY <2>1, <2>3, <3>1, <3>2
  <2> QED  BY <2>2, <2>3
<1> QED  BY <1>5, <1>6, <1>7, <1>8

(* A thread ends. *)
LEMMA ThreadEnds ==
  ASSUME threads \in Seq(Thread), NEW i \in 1 .. Len(threads), threads' = RemoveAt(threads, i)
  PROVE  /\ threads' \in Seq(Thread)
         /\ \A k \in 1 .. Len(threads') : \E j \in 1 .. Len(threads) : threads'[k] = threads[j]
         /\ \A c : Served(c) \subseteq {i} => Served(c)' = {}
         /\ \A c : (\E t : Served(c) = {t} /\ t # i) => \E u : Served(c)' = {u}
<1> DEFINE n == Len(threads)
           skip(k) == IF k < i THEN k ELSE k + 1
<1>1. /\ threads' \in Seq(Thread) /\ Len(threads') = n - 1
      /\ \A k \in 1 .. n - 1 : threads'[k] = threads[skip(k)]
  BY RemoveAtProperties
<1>2. n \in Nat /\ i \in 1 .. n
  OBVIOUS
<1>3. /\ \A k \in 1 .. n - 1 : skip(k) \in 1 .. n /\ skip(k) # i
      /\ \A k \in 1 .. n - 1 : \A l \in 1 .. n - 1 : skip(k) = skip(l) => k = l
  BY <1>2
<1>4. ASSUME NEW t \in 1 .. n, t # i PROVE \E k \in 1 .. n - 1 : skip(k) = t
  <2>1. CASE t < i
    <3>1. t \in 1 .. n - 1 /\ skip(t) = t
      BY <1>2, <2>1
    <3> QED  BY <3>1
  <2>2. CASE ~(t < i)
    <3>1. t - 1 \in 1 .. n - 1 /\ ~(t - 1 < i) /\ (t - 1) + 1 = t
      BY <1>2, <1>4, <2>2
    <3> QED  BY <3>1
  <2> QED  BY <2>1, <2>2
<1>5. /\ \A c : Served(c) = {t \in 1 .. n : threads[t].for = c}
      /\ \A c : Served(c)' = {k \in 1 .. n - 1 : threads'[k].for = c}
  BY <1>1 DEF Served
<1> HIDE DEF skip, n
<1>6. ASSUME NEW c, Served(c) \subseteq {i} PROVE Served(c)' = {}
  <2> SUFFICES ASSUME NEW k \in Served(c)' PROVE FALSE
    OBVIOUS
  <2>1. k \in 1 .. n - 1 /\ threads[skip(k)].for = c
    BY <1>1, <1>5
  <2>2. skip(k) \in Served(c) /\ skip(k) # i
    BY <1>3, <1>5, <2>1
  <2> QED  BY <1>6, <2>2
<1>7. ASSUME NEW c, NEW t, Served(c) = {t}, t # i PROVE \E u : Served(c)' = {u}
  <2>0. t \in 1 .. n
    BY <1>5, <1>7
  <2>1. PICK k \in 1 .. n - 1 : skip(k) = t
    BY <1>4, <1>7, <2>0
  <2>2. threads[t].for = c
    BY <1>5, <1>7
  <2>3. k \in Served(c)'
    BY <1>1, <1>5, <2>1, <2>2
  <2>4. ASSUME NEW l \in Served(c)' PROVE l = k
    <3>1. l \in 1 .. n - 1 /\ threads[skip(l)].for = c
      BY <1>1, <1>5
    <3>2. skip(l) \in Served(c)
      BY <1>3, <1>5, <3>1
    <3> QED  BY <1>3, <1>7, <2>1, <3>1, <3>2
  <2> QED  BY <2>3, <2>4
<1> QED  BY <1>1, <1>3, <1>6, <1>7 DEF n

(* A thread is started. *)
LEMMA ThreadStarts ==
  ASSUME threads \in Seq(Thread), NEW x \in Thread, threads' = Append(threads, x)
  PROVE  /\ threads' \in Seq(Thread)
         /\ \A k \in 1 .. Len(threads') : threads'[k] = x \/ \E j \in 1 .. Len(threads) : threads'[k] = threads[j]
         /\ \A c : c # x.for => Served(c)' = Served(c)
         /\ Served(x.for) = {} => \E u : Served(x.for)' = {u}
<1> DEFINE n == Len(threads)
<1>1. n \in Nat
  OBVIOUS
<1>2. /\ threads' \in Seq(Thread) /\ Len(threads') = n + 1 /\ threads'[n + 1] = x
      /\ \A k \in 1 .. n : threads'[k] = threads[k]
  BY AppendProperties
<1>3. \A k : k \in 1 .. n + 1 <=> k \in 1 .. n \/ k = n + 1
  BY <1>1
<1>4. /\ \A c : Served(c) = {t \in 1 .. n : threads[t].for = c}
      /\ \A c : Served(c)' = {k \in 1 .. n + 1 : threads'[k].for = c}
  BY <1>2 DEF Served
<1>5. n + 1 \notin 1 .. n
  BY <1>1
<1> HIDE DEF n
<1>6. ASSUME NEW c, c # x.for PROVE Served(c)' = Served(c)
  BY <1>2, <1>3, <1>4, <1>6
<1>7. ASSUME Served(x.for) = {} PROVE Served(x.for)' = {n + 1}
  <2>1. PICK c : c = x.for
    OBVIOUS
  <2>2. Served(c)' = {n + 1}
    BY <1>2, <1>3, <1>4, <1>7, <2>1
  <2> QED  BY <2>1, <2>2
<1>8. \A k \in 1 .. Len(threads') : threads'[k] = x \/ \E j \in 1 .. Len(threads) : threads'[k] = threads[j]
  BY <1>2, <1>3 DEF n
<1> QED  BY <1>2, <1>6, <1>7, <1>8

(* A thread goes on. *)
LEMMA ThreadMoves ==
  ASSUME threads \in Seq(Thread), NEW i \in 1 .. Len(threads), NEW x \in Thread,
         x.for = threads[i].for, threads' = [threads EXCEPT ![i] = x]
  PROVE  /\ threads' \in Seq(Thread) /\ Len(threads') = Len(threads)
         /\ \A k \in 1 .. Len(threads) : threads'[k] = IF k = i THEN x ELSE threads[k]
         /\ \A c : Served(c)' = Served(c)
<1>1. /\ threads' \in Seq(Thread) /\ Len(threads') = Len(threads)
      /\ \A k \in 1 .. Len(threads) : threads'[k] = IF k = i THEN x ELSE threads[k]
  OBVIOUS
<1>2. \A k \in 1 .. Len(threads) : threads'[k].for = threads[k].for
  BY <1>1
<1> QED  BY <1>1, <1>2 DEF Served

LEMMA PlacedStays ==
  ASSUME NEW c, Placed(c), Served(c)' = Served(c),
         c \in armed' <=> c \in armed, c \in w_batch' <=> c \in w_batch,
         w_conn'[c] = w_conn[c]
  PROVE  Placed(c)'
BY DEF Placed, NoneOf, OneOf

LEMMA ServedSame == ASSUME threads' = threads, NEW c PROVE Served(c)' = Served(c)
BY DEF Served

(* A step of a client. *)
LEMMA WorkersClients ==
  ASSUME WorkersInv, NEW c \in Clients, Workers!ClientStep(c)
  PROVE  WorkersInv'
<1>1. UNCHANGED <<armed, w_batch, fds_for_new_worker, threads>>
  BY DEF Workers!ClientStep, Workers!Connect, Workers!Send, Workers!CloseEnd
<1>2. w_ready' \subseteq armed \cup {Listener}
  BY DEF WorkersInv, WorkersTypes, Workers!ClientStep, Workers!Connect, Workers!Send, Workers!CloseEnd, Workers!Edge
<1>3. w_conn' = w_conn \/ (w_conn[c] = "new" /\ w_conn' = [w_conn EXCEPT ![c] = "waiting"])
  BY DEF Workers!ClientStep, Workers!Connect, Workers!Send, Workers!CloseEnd
<1>4. w_conn \in [Clients -> {"new", "waiting", "open", "closed"}]
  BY DEF WorkersInv, WorkersTypes
<1>5. w_conn' \in [Clients -> {"new", "waiting", "open", "closed"}]
  BY <1>3, <1>4
<1>6. WorkersTypes'
  BY <1>1, <1>2, <1>5 DEF WorkersInv, WorkersTypes
<1>7. ASSUME NEW d \in Clients PROVE Placed(d)'
  <2>1. Placed(d) /\ Served(d)' = Served(d)
    BY <1>1, ServedSame DEF WorkersInv
  <2>2. CASE w_conn'[d] = w_conn[d]
    BY <1>1, <2>1, <2>2, PlacedStays
  <2>3. CASE w_conn[d] = "new" /\ w_conn'[d] = "waiting"
    BY <1>1, <2>1, <2>3 DEF Placed, NoneOf
  <2> QED  BY <1>3, <1>4, <2>2, <2>3
<1> QED  BY <1>6, <1>7 DEF WorkersInv

(* A step of main. *)
LEMMA WorkersMain ==
  ASSUME WorkersInv, Workers!MainStep
  PROVE  WorkersInv'
<1>0. /\ w_conn \in [Clients -> {"new", "waiting", "open", "closed"}]
      /\ armed \subseteq Clients /\ w_batch \subseteq Clients \cup {Listener}
      /\ w_ready \subseteq armed \cup {Listener}
      /\ threads \in Seq(Thread) /\ Listener \notin Clients
      /\ \A t \in 1 .. Len(threads) : threads[t].pc # "new" => threads[t].sockfd = threads[t].for
      /\ \A c \in Clients : Placed(c)
  BY DescriptorAssumption DEF WorkersInv, WorkersTypes
<1>1. CASE Workers!Wait
  <2>1. /\ w_batch = {} /\ w_batch' = w_ready /\ w_ready' = {} /\ armed' = armed \ w_ready
        /\ UNCHANGED <<w_conn, fds_for_new_worker, threads>>
    BY <1>1 DEF Workers!Wait, Workers!Disarm, Workers!netVars
  <2>2. WorkersTypes'
    BY <1>0, <2>1 DEF WorkersInv, WorkersTypes
  <2>3. ASSUME NEW d \in Clients PROVE Placed(d)'
    <3>1. Placed(d) /\ Served(d)' = Served(d) /\ (d \in w_ready => d \in armed)
      BY <1>0, <2>1, ServedSame
    <3> QED  BY <2>1, <3>1 DEF Placed, NoneOf, OneOf
  <2> QED  BY <2>2, <2>3 DEF WorkersInv
<1>2. CASE Workers!AcceptOne
  <2>1. PICK c \in Clients : /\ w_conn[c] = "waiting" /\ w_conn' = [w_conn EXCEPT ![c] = "open"]
                             /\ Workers!Arm(c)
    BY <1>2 DEF Workers!AcceptOne
  <2>2. /\ w_batch' = w_batch \ {Listener} /\ UNCHANGED <<fds_for_new_worker, threads>>
    BY <1>2 DEF Workers!AcceptOne
  <2>3. armed' = armed \cup {c} /\ w_ready' \subseteq w_ready \cup {c}
    BY <2>1 DEF Workers!Arm
  <2>4. WorkersTypes'
    BY <1>0, <2>1, <2>2, <2>3 DEF WorkersInv, WorkersTypes
  <2>5. ASSUME NEW d \in Clients PROVE Placed(d)'
    <3>1. Placed(d) /\ Served(d)' = Served(d) /\ d # Listener
      BY <1>0, <2>2, ServedSame
    <3>2. d \in w_batch' <=> d \in w_batch
      BY <2>2, <3>1
    <3>3. CASE d # c
      <4>1. w_conn'[d] = w_conn[d]
        BY <1>0, <2>1, <3>3
      <4> QED  BY <2>3, <3>1, <3>2, <3>3, <4>1, PlacedStays
    <3>4. CASE d = c
      <4>1. w_conn'[d] = "open"
        BY <1>0, <2>1, <3>4
      <4>2. d \notin armed \cup w_batch /\ Served(d) = {}
        BY <2>1, <3>1, <3>4 DEF Placed, NoneOf
      <4> QED  BY <2>3, <3>1, <3>2, <3>4, <4>1, <4>2 DEF Placed, OneOf
    <3> QED  BY <3>3, <3>4
  <2> QED  BY <2>4, <2>5 DEF WorkersInv
<1>3. ASSUME NEW c \in Clients, Workers!StartWorker(c) PROVE WorkersInv'
  <2> DEFINE x == [for |-> c, sockfd |-> Listener, pc |-> "new"]
  <2>1. /\ c \in w_batch /\ w_batch' = w_batch \ {c} /\ fds_for_new_worker' = c
        /\ threads' = Append(threads, x) /\ UNCHANGED <<w_conn, armed, w_ready>>
    BY <1>3 DEF Workers!StartWorker, Workers!netVars
  <2>2. x \in Thread /\ x.for = c /\ x.pc = "new"
    BY DEF Thread
  <2> HIDE DEF x
  <2>3. /\ threads' \in Seq(Thread)
        /\ \A k \in 1 .. Len(threads') : threads'[k] = x \/ \E j \in 1 .. Len(threads) : threads'[k] = threads[j]
        /\ \A d : d # x.for => Served(d)' = Served(d)
        /\ Served(x.for) = {} => \E u : Served(x.for)' = {u}
    BY <1>0, <2>1, <2>2, ThreadStarts
  <2>4. \A t \in 1 .. Len(threads') : threads'[t].pc # "new" => threads'[t].sockfd = threads'[t].for
    BY <1>0, <2>2, <2>3
  <2>5. WorkersTypes'
    BY <1>0, <2>1, <2>3, <2>4 DEF WorkersInv, WorkersTypes
  <2>6. ASSUME NEW d \in Clients PROVE Placed(d)'
    <3>1. CASE d # c
      <4>1. Placed(d) /\ Served(d)' = Served(d) /\ (d \in w_batch' <=> d \in w_batch)
        BY <1>0, <2>1, <2>2, <2>3, <3>1
      <4> QED  BY <2>1, <4>1, PlacedStays
    <3>2. CASE d = c
      <4>1. Placed(d) /\ d \in w_batch /\ d \notin w_batch'
        BY <1>0, <2>1, <3>2
      <4>2. w_conn[d] \notin {"new", "waiting"}
        BY <4>1 DEF Placed, NoneOf
      <4>3. ASSUME w_conn[d] = "open" PROVE OneOf(d)'
        <5>1. Served(d) = {} /\ d \notin armed
          BY <4>1, <4>3 DEF Placed, OneOf
        <5>2. \E u : Served(d)' = {u}
          <6>1. d = x.for
            BY <2>2, <3>2
          <6> QED  BY <2>3, <5>1, <6>1
        <5> QED  BY <2>1, <4>1, <5>1, <5>2 DEF OneOf
      <4> QED  BY <2>1, <4>2, <4>3 DEF Placed
    <3> QED  BY <3>1, <3>2
  <2> QED  BY <2>5, <2>6 DEF WorkersInv
<1> QED  BY <1>1, <1>2, <1>3 DEF Workers!MainStep

LEMMA SetPc ==
  ASSUME NEW y, NEW a, NEW b, NEW c, y = [for |-> a, sockfd |-> b, pc |-> c], NEW p
  PROVE  [y EXCEPT !.pc = p] = [for |-> a, sockfd |-> b, pc |-> p]
OBVIOUS

LEMMA ThreadReads ==
  ASSUME NEW y \in Thread, NEW f, NEW p
  PROVE  [y EXCEPT !.sockfd = f, !.pc = p] = [for |-> y.for, sockfd |-> f, pc |-> p]
<1>1. [y EXCEPT !.sockfd = f] = [for |-> y.for, sockfd |-> f, pc |-> y.pc]
  BY DEF Thread
<1>2. [[y EXCEPT !.sockfd = f] EXCEPT !.pc = p] = [for |-> y.for, sockfd |-> f, pc |-> p]
  BY <1>1, SetPc
<1>3. [y EXCEPT !.sockfd = f, !.pc = p] = [[y EXCEPT !.sockfd = f] EXCEPT !.pc = p]
  OBVIOUS
<1> QED  BY <1>2, <1>3

(* A step of a worker that has read, or now reads, its own socket. *)
LEMMA WorkersThread ==
  ASSUME WorkersInv, NEW t \in 1 .. Len(threads), Workers!WorkerStep(t), ~stale'
  PROVE  WorkersInv'
<1>0. /\ w_conn \in [Clients -> {"new", "waiting", "open", "closed"}]
      /\ armed \subseteq Clients /\ w_ready \subseteq armed \cup {Listener}
      /\ threads \in Seq(Thread) /\ Listener \notin Clients
      /\ \A k \in 1 .. Len(threads) : threads[k].pc # "new" => threads[k].sockfd = threads[k].for
      /\ \A c \in Clients : Placed(c)
      /\ threads[t] \in Thread /\ fds_for_new_worker \in Clients \cup {Listener}
  BY DescriptorAssumption DEF WorkersInv, WorkersTypes
<1>1. PICK c : c = threads[t].for
  OBVIOUS
<1>2. c \in Clients /\ t \in Served(c)
  BY <1>0, <1>1 DEF Thread, Served
<1>3. UNCHANGED <<fds_for_new_worker, w_batch>>
  BY DEF Workers!WorkerStep, Workers!Begin, Workers!Receive, Workers!Hangup, Workers!WouldBlock, Workers!Rearm
<1>4. ASSUME NEW x \in Thread, x.for = c, x.pc # "new" => x.sockfd = c, threads' = [threads EXCEPT ![t] = x],
             UNCHANGED <<w_conn, armed, w_ready>>
      PROVE  WorkersInv'
  <2>1. /\ threads' \in Seq(Thread) /\ Len(threads') = Len(threads)
        /\ \A k \in 1 .. Len(threads) : threads'[k] = IF k = t THEN x ELSE threads[k]
        /\ \A d : Served(d)' = Served(d)
    BY <1>0, <1>1, <1>4, ThreadMoves
  <2>2. \A k \in 1 .. Len(threads') : threads'[k].pc # "new" => threads'[k].sockfd = threads'[k].for
    BY <1>0, <1>4, <2>1
  <2>3. WorkersTypes'
    BY <1>3, <1>4, <2>1, <2>2 DEF WorkersInv, WorkersTypes
  <2>4. ASSUME NEW d \in Clients PROVE Placed(d)'
    BY <1>0, <1>3, <1>4, <2>1, PlacedStays
  <2> QED  BY <2>3, <2>4 DEF WorkersInv
<1>5. CASE Workers!Begin(t)
  <2> DEFINE x == [for |-> c, sockfd |-> fds_for_new_worker, pc |-> "reading"]
  <2>1. /\ threads' = [threads EXCEPT ![t].sockfd = fds_for_new_worker, ![t].pc = "reading"]
        /\ stale' = (stale \/ fds_for_new_worker # threads[t].for)
        /\ UNCHANGED <<w_conn, armed, w_ready>>
    BY <1>5 DEF Workers!Begin, Workers!netVars
  <2>2. fds_for_new_worker = c
    BY <1>1, <2>1
  <2>3. x \in Thread
    BY <1>2, <2>2 DEF Thread
  <2>4. threads' = [threads EXCEPT ![t] = x]
    <3>1. threads' = [threads EXCEPT ![t] = [threads[t] EXCEPT !.sockfd = fds_for_new_worker, !.pc = "reading"]]
      BY <1>0, <2>1
    <3>2. PICK y : y = threads[t]
      OBVIOUS
    <3>3. y \in Thread /\ y.for = c
      BY <1>0, <1>1, <3>2
    <3>4. [y EXCEPT !.sockfd = fds_for_new_worker, !.pc = "reading"]
            = [for |-> y.for, sockfd |-> fds_for_new_worker, pc |-> "reading"]
      BY <3>3, ThreadReads, Zenon
    <3>5. [threads[t] EXCEPT !.sockfd = fds_for_new_worker, !.pc = "reading"] = x
      BY <3>2, <3>3, <3>4, Zenon
    <3> QED  BY <3>1, <3>5, Zenon
  <2>5. x.for = c /\ x.sockfd = c
    BY <2>2
  <2> HIDE DEF x
  <2> QED  BY <1>4, <2>1, <2>3, <2>4, <2>5
<1>6. CASE Workers!WouldBlock(t)
  <2>1. PICK p \in {"spinning", "again"} : threads' = [threads EXCEPT ![t].pc = p]
    BY <1>6 DEF Workers!WouldBlock
  <2> DEFINE x == [for |-> c, sockfd |-> threads[t].sockfd, pc |-> p]
  <2>2. threads[t].pc = "reading" /\ UNCHANGED <<w_conn, armed, w_ready>>
    BY <1>6 DEF Workers!WouldBlock, Workers!At, Workers!netVars
  <2>3. threads[t].sockfd = c
    BY <1>0, <1>1, <2>2
  <2>4. x \in Thread
    BY <1>2, <2>1, <2>3 DEF Thread
  <2>5. threads' = [threads EXCEPT ![t] = x]
    <3>1. threads' = [threads EXCEPT ![t] = [threads[t] EXCEPT !.pc = p]]
      BY <1>0, <2>1
    <3>2. [threads[t] EXCEPT !.pc = p] = x
      BY <1>0, <1>1 DEF Thread
    <3> QED  BY <3>1, <3>2
  <2>6. x.for = c /\ x.sockfd = c
    BY <2>3
  <2> HIDE DEF x
  <2> QED  BY <1>4, <2>2, <2>4, <2>5, <2>6
<1>7. CASE Workers!Receive(t)
  <2>1. UNCHANGED <<w_conn, armed, w_ready, threads>>
    BY <1>7 DEF Workers!Receive
  <2>2. WorkersTypes'
    BY <1>3, <2>1 DEF WorkersInv, WorkersTypes
  <2>3. ASSUME NEW d \in Clients PROVE Placed(d)'
    BY <1>0, <1>3, <2>1, ServedSame, PlacedStays
  <2> QED  BY <2>2, <2>3 DEF WorkersInv
<1>8. ASSUME threads' = RemoveAt(threads, t),
             w_conn' \in [Clients -> {"new", "waiting", "open", "closed"}], armed' \subseteq Clients,
             w_ready' \subseteq armed' \cup {Listener},
             \A d \in Clients : d # c => w_conn'[d] = w_conn[d] /\ (d \in armed' <=> d \in armed),
             w_conn'[c] \notin {"new", "waiting"},
             w_conn'[c] = "open" => w_conn[c] = "open" /\ c \in armed'
      PROVE  WorkersInv'
  <2>1. /\ threads' \in Seq(Thread)
        /\ \A k \in 1 .. Len(threads') : \E j \in 1 .. Len(threads) : threads'[k] = threads[j]
        /\ \A d : Served(d) \subseteq {t} => Served(d)' = {}
        /\ \A d : (\E u : Served(d) = {u} /\ u # t) => \E u : Served(d)' = {u}
    BY <1>0, <1>8, ThreadEnds
  <2>2. \A k \in 1 .. Len(threads') : threads'[k].pc # "new" => threads'[k].sockfd = threads'[k].for
    BY <1>0, <2>1
  <2>3. WorkersTypes'
    BY <1>3, <1>8, <2>1, <2>2 DEF WorkersInv, WorkersTypes
  <2>4. ASSUME NEW d \in Clients PROVE Placed(d)'
    <3>1. Placed(d)
      BY <1>0
    <3>2. CASE d # c
      <4>1. t \notin Served(d)
        BY <1>1, <3>2 DEF Served
      <4>2. /\ Served(d) = {} => Served(d)' = {}
            /\ (\E u : Served(d) = {u}) => \E u : Served(d)' = {u}
        BY <2>1, <4>1
      <4>3. w_conn'[d] = w_conn[d] /\ (d \in armed' <=> d \in armed) /\ (d \in w_batch' <=> d \in w_batch)
        BY <1>3, <1>8, <3>2
      <4> QED  BY <3>1, <4>2, <4>3 DEF Placed, NoneOf, OneOf
    <3>3. CASE d = c
      <4>1. ASSUME w_conn'[c] = "open" PROVE OneOf(c)'
        <5>1. Placed(c) /\ w_conn[c] = "open" /\ c \in armed'
          BY <1>8, <3>1, <3>3, <4>1
        <5>2. c \notin armed \cup w_batch /\ \E u : Served(c) = {u}
          BY <1>2, <5>1 DEF Placed, OneOf
        <5>3. Served(c) \subseteq {t}
          BY <1>2, <5>2
        <5>4. Served(c)' = {}
          BY <2>1, <5>3
        <5> QED  BY <1>3, <5>1, <5>2, <5>4 DEF OneOf
      <4> QED  BY <1>8, <3>3, <4>1 DEF Placed
    <3> QED  BY <3>2, <3>3
  <2> QED  BY <2>3, <2>4 DEF WorkersInv
<1>9. w_conn[c] \notin {"new", "waiting"}
  BY <1>0, <1>2 DEF Placed, NoneOf
<1>10. CASE Workers!Hangup(t)
  <2>1. threads[t].pc = "reading" /\ threads' = Workers!RemoveAt(threads, t)
    BY <1>10 DEF Workers!Hangup, Workers!At
  <2>2. threads[t].sockfd = c
    BY <1>0, <1>1, <2>1
  <2>3. w_conn' = [w_conn EXCEPT ![c] = "closed"] /\ armed' = armed \ {c} /\ w_ready' = w_ready \ {c}
    BY <1>10, <2>2 DEF Workers!Hangup
  <2>4. threads' = RemoveAt(threads, t)
    BY <2>1 DEF RemoveAt, Workers!RemoveAt
  <2>5. /\ w_conn' \in [Clients -> {"new", "waiting", "open", "closed"}] /\ w_conn'[c] = "closed"
        /\ \A d \in Clients : d # c => w_conn'[d] = w_conn[d] /\ (d \in armed' <=> d \in armed)
    BY <1>0, <1>2, <2>3
  <2>6. armed' \subseteq Clients /\ w_ready' \subseteq armed' \cup {Listener}
    BY <1>0, <2>3
  <2> QED  BY <1>8, <2>4, <2>5, <2>6
<1>11. CASE Workers!Rearm(t)
  <2>1. threads[t].pc = "again" /\ threads' = Workers!RemoveAt(threads, t) /\ w_conn' = w_conn
    BY <1>11 DEF Workers!Rearm, Workers!At, Workers!netVars
  <2>2. threads[t].sockfd = c
    BY <1>0, <1>1, <2>1
  <2>3. IF w_conn[c] = "open" THEN Workers!Arm(c) ELSE UNCHANGED <<armed, w_ready>>
    BY <1>11, <2>2 DEF Workers!Rearm
  <2>4. threads' = RemoveAt(threads, t)
    BY <2>1 DEF RemoveAt, Workers!RemoveAt
  <2>5. CASE w_conn[c] = "open"
    <3>1. armed' = armed \cup {c} /\ w_ready' \subseteq w_ready \cup {c}
      BY <2>3, <2>5 DEF Workers!Arm
    <3>2. armed' \subseteq Clients /\ w_ready' \subseteq armed' \cup {Listener} /\ c \in armed'
      BY <1>0, <1>2, <3>1
    <3>3. \A d \in Clients : d # c => w_conn'[d] = w_conn[d] /\ (d \in armed' <=> d \in armed)
      BY <2>1, <3>1
    <3> QED  BY <1>0, <1>8, <1>9, <2>1, <2>4, <3>2, <3>3
  <2>6. CASE w_conn[c] # "open"
    <3>1. UNCHANGED <<armed, w_ready>>
      BY <2>3, <2>6
    <3> QED  BY <1>0, <1>8, <1>9, <2>1, <2>4, <2>6, <3>1
  <2> QED  BY <2>5, <2>6
<1> QED  BY <1>5, <1>6, <1>7, <1>10, <1>11 DEF Workers!WorkerStep

LEMMA InitWorkers == Workers!Init => WorkersInv
<1> SUFFICES ASSUME Workers!Init PROVE WorkersInv
  OBVIOUS
<1>1. threads = <<>> /\ armed = {} /\ w_batch = {} /\ w_ready = {} /\ fds_for_new_worker = Listener
      /\ w_conn = [c \in Clients |-> "new"]
  BY DEF Workers!Init
<1>2. \A c : Served(c) = {}
  BY <1>1 DEF Served
<1>3. threads \in Seq(Thread) /\ 1 .. Len(threads) = {}
  BY <1>1, EmptySeq
<1>4. WorkersTypes
  BY <1>1, <1>3 DEF WorkersTypes
<1>5. \A c \in Clients : Placed(c)
  BY <1>1, <1>2 DEF Placed, NoneOf
<1> QED  BY <1>4, <1>5 DEF WorkersInv

LEMMA NextWorkers == (~stale => WorkersInv) /\ [Workers!Next]_(Workers!vars) => (~stale => WorkersInv)'
<1> SUFFICES ASSUME ~stale => WorkersInv, [Workers!Next]_(Workers!vars), ~stale' PROVE WorkersInv'
  OBVIOUS
<1>1. CASE \E c \in Clients : Workers!ClientStep(c)
  <2>1. stale' = stale
    BY <1>1 DEF Workers!ClientStep, Workers!Connect, Workers!Send, Workers!CloseEnd
  <2> QED  BY <1>1, <2>1, WorkersClients
<1>2. CASE Workers!MainStep
  <2>1. stale' = stale
    BY <1>2 DEF Workers!MainStep, Workers!Wait, Workers!AcceptOne, Workers!StartWorker
  <2> QED  BY <1>2, <2>1, WorkersMain
<1>3. CASE \E t \in Workers!Threads : Workers!WorkerStep(t)
  <2>1. PICK t \in 1 .. Len(threads) : Workers!WorkerStep(t)
    BY <1>3 DEF Workers!Threads
  <2>2. ~stale
    BY <2>1 DEF Workers!WorkerStep, Workers!Begin, Workers!Receive, Workers!Hangup, Workers!WouldBlock, Workers!Rearm
  <2> QED  BY <2>1, <2>2, WorkersThread
<1>4. CASE Workers!Fail \/ Workers!Quiet \/ UNCHANGED Workers!vars
  <2>1. UNCHANGED <<w_conn, armed, w_ready, w_batch, fds_for_new_worker, threads, stale>>
    BY <1>4 DEF Workers!Fail, Workers!Quiet, Workers!vars, Workers!netVars
  <2>2. WorkersInv
    BY <2>1
  <2>3. WorkersTypes'
    BY <2>1, <2>2 DEF WorkersInv, WorkersTypes
  <2>4. ASSUME NEW c \in Clients PROVE Placed(c)'
    BY <2>1, <2>2, ServedSame, PlacedStays DEF WorkersInv
  <2> QED  BY <2>3, <2>4 DEF WorkersInv
<1> QED  BY <1>1, <1>2, <1>3, <1>4 DEF Workers!Next

(* As long as no worker has read fds_for_new_worker too late, every open
   connection of epollet.cpp is armed, or reported and not handled, or served
   by one thread, and only one of the three: EPOLLONESHOT and reset_oneshot
   hand a socket from one to the next, for any clients, any number of pieces
   and any number of threads. *)
THEOREM OnePartyHolds == Workers!Spec => []Workers!OneParty
<1>1. (~stale => WorkersInv) => Workers!OneParty
  <2> SUFFICES ASSUME ~stale => WorkersInv, ~stale, NEW c \in Clients, w_conn[c] = "open"
               PROVE  \/ c \in armed \ w_batch /\ Workers!Served(c) = {}
                      \/ c \in w_batch \ armed /\ Workers!Served(c) = {}
                      \/ c \notin armed \cup w_batch /\ \E t \in Workers!Threads : Workers!Served(c) = {t}
    BY DEF Workers!OneParty
  <2>1. Workers!Served(c) = Served(c) /\ Served(c) \subseteq Workers!Threads
    BY DEF Workers!Served, Served, Workers!Threads
  <2>2. OneOf(c)
    BY DEF WorkersInv, Placed
  <2> QED  BY <2>1, <2>2 DEF OneOf
<1>2. Workers!Init => (~stale => WorkersInv)
  BY InitWorkers
<1> QED  BY <1>1, <1>2, NextWorkers, PTL DEF Workers!Spec
=============================================================================
