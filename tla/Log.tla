--------------------------------- MODULE Log ---------------------------------
(***************************************************************************)
(* The logger of log.h and log.cpp.  Writer threads run a LOG_* macro:     *)
(* write_log and then flush.  write_log takes m_mutex up to three times    *)
(* and gives it away in between, so one call is several steps:             *)
(*   "idle"     no call                                                    *)
(*   "sampled"  the time is read, before the first locked section          *)
(*   "counted"  line counted, file rotated if due                          *)
(*   "push"     full() said no, before push                                *)
(*   "sync"     synchronous, or full() said yes, before fputs              *)
(*   "flush"    the line is handed over, before flush                      *)
(* In asynchronous mode the thread of async_write_log pops lines from the  *)
(* block_queue and writes them: "pop" or "write".  The queue is used       *)
(* through its abstract specification, BoundedFifo.                        *)
(*                                                                         *)
(* A line is who wrote it, its number and the date in its time stamp; a    *)
(* file is the date in its name and its suffix, 0 for none.  A date is a   *)
(* number, and tm_mday of it its remainder, months being of one length.    *)
(* Text, level and time of day are left out.                               *)
(***************************************************************************)
EXTENDS Integers, Sequences, FiniteSets, SequencesExt

CONSTANTS
  Writers,     \* the threads that log
  SplitLines,  \* m_split_lines
  QueueSize,   \* max_queue_size of init, when the log is asynchronous
  MonthDays,   \* the days of a month
  MaxLines,    \* bound: lines a writer logs
  MaxDay       \* bound: the last day of the clock

ASSUME SplitLinesAssumption == SplitLines \in Nat \ {0}
ASSUME WritersAssumption == IsFiniteSet(Writers)
ASSUME MonthAssumption == MonthDays \in Nat \ {0}
ASSUME BoundsAssumption == {QueueSize, MaxLines} \subseteq Nat /\ MaxDay \in Nat \ {0}

Days    == 1 .. MaxDay
Lines   == [by : Writers, n : 1 .. MaxLines, day : Days]
NoLine  == [by |-> "nobody", n |-> 0, day |-> 0]
Flusher == "flush_log_thread"
tm_mday(d) == d % MonthDays

VARIABLES
  day,                      \* the clock
  m_is_async,               \* what init was asked for
  m_today, m_count, m_fp,
  files,                    \* what was written to each file, oldest first
  buffered,                 \* <<file, line>>: lines still in a stdio buffer
  pc, line, done,           \* per writer: place, current line, lines begun
  queue, got,               \* m_log_queue, and what the last pop returned
  refused,                  \* the lines push did not accept
  fpc                       \* place of the flush thread

fileVars   == <<m_today, m_count, m_fp, files, buffered>>
writerVars == <<pc, line, done>>
queueVars  == <<queue, got>>
vars       == <<day, m_is_async, fileVars, writerVars, queueVars, refused, fpc>>

m_log_queue == INSTANCE BoundedFifo WITH
                 Items <- Lines, Takers <- {Flusher}, Blank <- NoLine, Capacity <- QueueSize

\* At most one new file per counted line.
Files == Days \X (0 .. Cardinality(Writers) * MaxLines)

TypeOK ==
  /\ day \in Days /\ m_today \in 0 .. (MonthDays - 1)
  /\ m_count \in 0 .. Cardinality(Writers) * MaxLines
  /\ m_fp \in Files
  /\ files \in [Files -> Seq(Lines)]
  /\ buffered \subseteq {m_fp} \X ToSet(files[m_fp])
  /\ pc \in [Writers -> {"idle", "sampled", "counted", "push", "sync", "flush"}]
  /\ line \in [Writers -> Lines \cup {NoLine}]
  /\ done \in [Writers -> 0 .. MaxLines]
  /\ queue \in Seq(Lines) /\ Len(queue) <= QueueSize
  /\ got \in [{Flusher} -> Lines \cup {NoLine}]
  /\ refused \subseteq Lines /\ m_is_async \in BOOLEAN
  /\ fpc \in {"pop", "write"}

\* The state init leaves on day 1; a queue size of at least one makes the log
\* asynchronous.
Init ==
  /\ day = 1
  /\ m_today = tm_mday(1)
  /\ m_count = 0
  /\ m_fp = <<1, 0>>
  /\ files = [f \in Files |-> <<>>]
  /\ buffered = {}
  /\ pc = [w \in Writers |-> "idle"]
  /\ line = [w \in Writers |-> NoLine]
  /\ done = [w \in Writers |-> 0]
  /\ m_is_async \in {FALSE, QueueSize >= 1}
  /\ m_log_queue!FifoInit
  /\ refused = {}
  /\ fpc = "pop"

-----------------------------------------------------------------------------
(* The clock (external). *)
NextDay ==
  /\ day < MaxDay
  /\ day' = day + 1
  /\ UNCHANGED <<m_is_async, fileVars, writerVars, queueVars, refused, fpc>>

\* fputs(l, m_fp) into the stdio buffer.
fputs(l) ==
  /\ files' = [files EXCEPT ![m_fp] = Append(@, l)]
  /\ buffered' = buffered \cup {<<m_fp, l>>}
  /\ UNCHANGED <<m_today, m_count, m_fp>>

-----------------------------------------------------------------------------
(* write_log. *)

\* What the copy of *localtime(&t) may hold: the result is one static object
\* for all threads, so the time of a writer at the same place may be in it.
TimeRead(w) ==
  {day} \cup {line[v].day : v \in {u \in Writers \ {w} : pc[u] = "sampled"}}

\* gettimeofday and localtime, before any lock.
Sample(w) ==
  /\ pc[w] = "idle"
  /\ done[w] < MaxLines
  /\ done' = [done EXCEPT ![w] = @ + 1]
  /\ \E d \in TimeRead(w) :
       line' = [line EXCEPT ![w] = [by |-> w, n |-> done'[w], day |-> d]]
  /\ pc' = [pc EXCEPT ![w] = "sampled"]
  /\ UNCHANGED <<day, m_is_async, fileVars, queueVars, refused, fpc>>

\* The line is not of the day of the month the open file was made for.
NewDay(w) == m_today # tm_mday(line[w].day)

\* Mutant of SplitDue: off by one.
SplitDueLate == (m_count + 1) % (SplitLines + 1) = 0

\* The count, this line included, is a multiple of m_split_lines.
SplitDue == (m_count + 1) % SplitLines = 0

\* fflush(m_fp), alone or as a part of fclose.
Unbuffered == {b \in buffered : b[1] # m_fp}

Rotate(w) == NewDay(w) \/ SplitDue

\* Mutant of FlushRotated: m_fp is replaced without being flushed and closed.
FlushForgotten(w) == buffered

\* fflush and fclose of the file that is replaced.
FlushRotated(w) == IF Rotate(w) THEN Unbuffered ELSE buffered

\* fopen(new_log, "a") keeps what the file holds already.
fopen(f) == files

\* The first locked section: count the line; on another day, or when the count
\* is a multiple of m_split_lines, flush and close the file and open the next.
CountLine(w) ==
  /\ pc[w] = "sampled"
  /\ m_today' = IF NewDay(w) THEN tm_mday(line[w].day) ELSE m_today
  /\ m_count' = IF NewDay(w) THEN 0 ELSE m_count + 1
  /\ m_fp' = IF NewDay(w) THEN <<line[w].day, 0>>
             ELSE IF SplitDue THEN <<line[w].day, (m_count + 1) \div SplitLines>> ELSE m_fp
  /\ buffered' = FlushRotated(w)
  /\ files' = IF Rotate(w) THEN fopen(m_fp') ELSE files
  /\ pc' = [pc EXCEPT ![w] = "counted"]
  /\ UNCHANGED <<day, m_is_async, line, done, queueVars, refused, fpc>>

\* Mutant of NotFull: one too many is let through.
NotFullLate == Len(queue) <= QueueSize

\* !m_log_queue->full()
NotFull == Len(queue) < QueueSize

\* The second locked section formats the line in m_buf and copies it; then
\* full() decides, with the queue's mutex only, where the line goes.
FormatAndChoose(w) ==
  /\ pc[w] = "counted"
  /\ pc' = [pc EXCEPT ![w] = IF m_is_async /\ NotFull THEN "push" ELSE "sync"]
  /\ UNCHANGED <<day, m_is_async, fileVars, line, done, queueVars, refused, fpc>>

\* m_log_queue->push(log_str); its result is not looked at.
PushLine(w) ==
  /\ pc[w] = "push"
  /\ \/ m_log_queue!Put(line[w]) /\ UNCHANGED refused
     \/ /\ Len(queue) >= QueueSize
        /\ refused' = refused \cup {line[w]}
        /\ UNCHANGED queueVars
  /\ pc' = [pc EXCEPT ![w] = "flush"]
  /\ UNCHANGED <<day, m_is_async, fileVars, line, done, fpc>>

\* The third locked section: write the line to whatever file is open now.
WriteLine(w) ==
  /\ pc[w] = "sync"
  /\ fputs(line[w])
  /\ pc' = [pc EXCEPT ![w] = "flush"]
  /\ UNCHANGED <<day, m_is_async, line, done, queueVars, refused, fpc>>

\* flush, which every LOG_* macro calls after write_log.
Flush(w) ==
  /\ pc[w] = "flush"
  /\ buffered' = Unbuffered
  /\ pc' = [pc EXCEPT ![w] = "idle"]
  /\ UNCHANGED <<day, m_is_async, m_today, m_count, m_fp, files, line, done, queueVars, refused, fpc>>

-----------------------------------------------------------------------------
(* async_write_log, the loop of the flush thread. *)

AsyncPop ==
  /\ fpc = "pop"
  /\ m_log_queue!Take(Flusher)
  /\ fpc' = "write"
  /\ UNCHANGED <<day, m_is_async, fileVars, writerVars, refused>>

\* Mutant of AsyncNext: the thread ends after a line.
AsyncEnd == "ended"

\* while (m_log_queue->pop(single_log))
AsyncNext == "pop"

AsyncWrite ==
  /\ fpc = "write"
  /\ fputs(got[Flusher])
  /\ fpc' = AsyncNext
  /\ UNCHANGED <<day, m_is_async, writerVars, queueVars, refused>>

-----------------------------------------------------------------------------
WriterStep(w) ==
  \/ Sample(w) \/ CountLine(w) \/ FormatAndChoose(w)
  \/ PushLine(w) \/ WriteLine(w) \/ Flush(w)

\* Every writer has logged its lines and the queue is drained.
Finished ==
  /\ \A w \in Writers : pc[w] = "idle" /\ done[w] = MaxLines
  /\ queue = <<>> /\ fpc = "pop" /\ day = MaxDay
  /\ UNCHANGED vars

Next ==
  \/ NextDay
  \/ \E w \in Writers : WriterStep(w)
  \/ AsyncPop \/ AsyncWrite
  \/ Finished

Spec == Init /\ [][Next]_vars

\* The flush thread is a thread of its own that only waits for the queue.
FairSpec == Spec /\ WF_vars(AsyncPop) /\ WF_vars(AsyncWrite)

-----------------------------------------------------------------------------
(* Properties. *)

\* However the writers interleave, and even when one comes with the time of
\* an earlier day, the open file is the one that m_today and m_count name.
OpenFileNamed ==
  /\ tm_mday(m_fp[1]) = m_today
  /\ m_fp[2] = m_count \div SplitLines

Written(l) == UNION {{f} \X {k \in DOMAIN files[f] : files[f][k] = l} : f \in Files}
Queued(l)  == {i \in 1 .. Len(queue) : queue[i] = l}
InHand(l)  == {c \in {Flusher} : fpc = "write" /\ got[c] = l}

Traces(l) == Cardinality(Written(l)) + Cardinality(Queued(l)) + Cardinality(InHand(l))

Mine(w, n)   == {l \in Lines : l.by = w /\ l.n = n}
Logged(w, n) == pc[w] \in {"idle", "flush"} \/ n < done[w]

\* The line is written, queued or in the hand of the flush thread, once.
Kept(w, n) ==
  \E l \in Mine(w, n) : Traces(l) = 1 /\ \A m \in Mine(w, n) \ {l} : Traces(m) = 0

Lost(w, n) == \A l \in Mine(w, n) : Traces(l) = 0

\* Another writer has pushed since full() told w that there was room.
Overtaken(w) == queue # <<>> /\ queue[Len(queue)].by # w

\* Rotation (also back to a file that exists), the fallback of a full queue
\* and the hand-over to the flush thread neither drop nor repeat a line, and a
\* synchronous log loses nothing.  The code does lose a line in one way: push
\* refuses it, where webserve.md has the thread suspended, and write_log does
\* not look at the result.  That takes a race: whoever finds the queue full in
\* push was overtaken after full(), so a log with one writer loses nothing.
LoggedOnce ==
  /\ \A w \in Writers : \A n \in 1 .. done[w] : Logged(w, n) =>
       \/ Kept(w, n)
       \/ Lost(w, n) /\ m_is_async /\ Mine(w, n) \cap refused # {}
  /\ \A w \in Writers : pc[w] = "push" /\ Len(queue) >= QueueSize => Overtaken(w)

\* Synchronous mode: when a LOG_* macro returns its line is out of the stdio
\* buffer, even if another writer rotated the file between its fputs and its
\* flush.
SyncDurable ==
  ~m_is_async =>
    \A w \in Writers : pc[w] = "idle" => \A b \in buffered : b[2].by # w

\* A queued line is written to a file.
QueuedWritten ==
  \A l \in Lines : (l \in ToSet(queue)) ~> (Written(l) # {})

=============================================================================
