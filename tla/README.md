# TLA+ models of the concurrent code in My_notes

The repository is a collection of study notes.  Between the notes it keeps some
2200 lines of C++: the building blocks of a multi-threaded web server
(`计算机网络/图片/`, explained in `计算机网络/webserve.md`) and a thread pool with
a manager thread (`算法/手撕/9.线程池.cpp`), and small servers around poll, epoll,
signals and HTTP.  This directory models that code, model-checks it with TLC and
proves the main invariants with TLAPS.

## 1. Inventory

File names are relative to `src/计算机网络/图片/` unless a path is given.

| Component | State | Operations | Interacts with |
|---|---|---|---|
| `block_queue<T>` (`block_queue.h`) | circular array, `m_size`, `m_front`, `m_back`, one mutex, one condition variable | `push`, `pop`, timed `pop`, `clear`, `front`, `back`, `full`, `empty`, `size` | used by the logger |
| `connection_pool`, `connectionRAII` (`sql_connection_pool.{h,cpp}`) | list of connections, semaphore `reserve`, `m_FreeConn`, `m_CurConn`, mutex | `init`, `GetConnection`, `ReleaseConnection`, `DestroyPool`, RAII guard | used by the workers of the request pool; logs its errors |
| `threadpool<T>` (`threadpool.h`) | request list, semaphore `m_queuestat`, mutex; `m_state`, `improv`, `timer_flag`, `mysql` of the request | `append`, `append_p`, `run` | main thread, `http_conn`, connection pool |
| `Log` (`log.{h,cpp}`) | open file, `m_count`, `m_today`, queue, mutex | `init`, `write_log`, `flush`, `async_write_log`, the `LOG_*` macros | block_queue |
| `ThreadPool`, `TaskQueue` (`src/算法/手撕/9.线程池.cpp`) | task queue with its own mutex, `m_threads`, three atomic counters, `m_shutdown`, pool mutex and condition variable | `add_task`, `worker`, `manager`, constructor and destructor | stands alone |
| HTTP parser (`parse_line.cpp`, `process_read.cpp`, `httprequest.cpp`) | buffer and three indices, automaton state | `parse_line`, `parse_requestline`, `parse_headers`, `parse_content`, `process_read` | a client; called from `http_conn::process` |
| `epollet.cpp` | epoll set, worker threads, the argument of the newest one | event loop, `worker`, `reset_oneshot` | clients |
| `nonactive_conn.cpp` | signal pipe, alarm, timer list, client table | signal handler, timer handler, event loop | clients; `lst_timer.h`, not in the repository |
| `chat_serv.cpp`, `chat_client.cpp` | poll table, per-client buffers | accept, read, write, departure | each other |
| `nonblockconnect.cpp` | one socket | connect, select, SO_ERROR | - |
| `src/test.cpp` | - | prints a line | - |

`lock/locker.h` (mutex, semaphore, condition variable), the main thread of the
web server, `http_conn` and the timer list are not in the repository.
`webserve.md` quotes `http_conn::process` and `http_conn::write`.

What is hard in this code, and what makes it correct:

* **block_queue.**  Indices start at -1, wrap, and are reset by `clear`; consumers
  sleep and are woken by a broadcast; the timed pop tests with `if` where the other
  loops.  Correct when it is a FIFO queue and nobody sleeps while there is work.
* **connection pool.**  The size test is unlocked, the semaphore is taken before
  and posted after the mutex, and `DestroyPool` runs in the destructor of a static
  object while detached threads may use the pool.  Correct when connections are
  neither lost nor shared and the list is never popped empty.
* **request pool.**  The semaphore is posted outside the lock; the socket of a
  request is armed again inside `process`, while the worker still owns the
  connection guard; in the Reactor model main and workers talk through plain flags.
  Correct when a request has one owner, is taken, and uses its worker's connection.
* **logger.**  A call takes the mutex up to three times and releases it in between;
  the date is read before the first.  Correct when each line is written once, to
  the file of its day, and files have bounded length.
* **elastic pool.**  The predicate of the condition variable reads state that is
  changed without its mutex; the manager acts on counters it read earlier.  Correct
  when every task is taken, the counters are exact and the destructor returns.
* **HTTP parser.**  A request arrives in pieces that may end anywhere, also between
  CR and LF; the indices survive from one call to the next and the buffer is finite.
  Correct when the answer does not depend on how the bytes were cut.
* **epollet.**  One-shot events hand a socket from epoll to main to a thread and back,
  through a variable of the loop and a window between EAGAIN and re-arming.  Correct
  when a socket is with one party and its data is read.
* **nonactive_conn.**  The next alarm is set only by the loop that handled the last
  one, a signal travels through a pipe, and timers, peers and errors all close
  connections whose descriptors are used again.  Correct when open connections are
  the ones with a timer and idle ones are closed.
* **chat room.**  The table is changed while it is walked; `write_buf` points into
  the buffer of another user.  Correct when the table holds the open connections and
  messages reach the others in order.

`PROJECT.json` lists the hazards with their lines and the properties aimed at them.

## 2. Modules

| Module | Models |
|---|---|
| `BoundedFifo` | what `block_queue` promises: a FIFO queue of bounded capacity |
| `BlockQueue` | `block_queue.h`; refines `BoundedFifo` |
| `ConnectionPool` | `sql_connection_pool.{h,cpp}` |
| `ThreadPool` | `threadpool.h`, composed with `ConnectionPool` |
| `Log` | `log.{h,cpp}`, using the queue through `BoundedFifo` |
| `ElasticThreadPool` | `9.线程池.cpp` |
| `HttpParser` | `parse_line.cpp` with `process_read.cpp`, and `httprequest.cpp` |
| `EpollWorkers` | `epollet.cpp` |
| `TimerServer` | `nonactive_conn.cpp` |
| `ChatRoom` | `chat_serv.cpp` and its `chat_client.cpp` clients |
| `BlockQueueProofs`, `ConnectionPoolProofs`, `ThreadPoolProofs`, `LogProofs`, `ElasticThreadPoolProofs`, `HttpParserProofs`, `EpollServersProofs`, `ChatRoomProofs` | theorems |
| `MC*` | instances for TLC |

Common conventions.  A critical section without a blocking call is one step; a call
that unlocks, waits or reads shared state without a lock is split there, and a `pc`
variable says where the thread is.  In the single-threaded servers a step is the
handling of one event, and clients act between any two of them.  `Init` of a server
stands for `main` up to its loop; a failure there ends the process before the first
state.  An operator whose comment begins with "Mutant
of" is a deliberately wrong variant of the definition that follows it; it is used
only to see that a property notices the mistake.

**BlockQueue.**  `m_array`, `m_size`, `m_front`, `m_back` as in the class; `pc` and
`item` per consumer.  `PushOk`/`PushFull` are the two branches of `push`; `PopTake`
is the tail of both pops; `PopWait`, `TimedGiveUp`, `FailedReturn` are the ways
they do not take an item.  `SpuriousWake` and `WaitFails` are the condition
variable's.  A timed wait may fail at any moment, so every deadline is covered.
The destructor is not modelled: nothing in the sources deletes a queue.

**ConnectionPool.**  `GetConnection` is `GetNull` or `GetCheck`, `ReserveWait`,
`TakeConn`; `ReleaseConnection` is `ReleaseNull` or `ReleaseConn`, `ReservePost`.
`front`/`pop_front` of an empty list is undefined behaviour and is the phase
`"crashed"`.  `DestroyPool` may run at any moment once the pool is up; on an empty
list it changes nothing and is a stuttering step.  `sem_wait`, `sem_post`,
`pop_front` and `clear` are the calls of those names.

**ThreadPool.**  `AppendPush`, `AppendFull` and `AppendPost` are the two append
methods (only `append` sets `m_state`); `m_actor_model` is chosen in `Init`.  The actions with a worker argument are
`run`.  `GetConnection` and `ReleaseConnection` take the steps of the pool.  A
failed read or write is two steps, `IOFailed` and `SetTimerFlag`, because `improv`
and `timer_flag` are two unguarded stores.  External, and so an assumption: an
event is delivered once until the socket is armed again; main waits for `improv`
after an append in the Reactor model and then looks at `timer_flag`; it gives up a
connection whose append was refused; a connection's timer outlasts the processing
of a request.  `process` either arms the socket or closes the connection, and
`write` may arm the socket and still return false, as the code quoted in
`webserve.md` does.  `MainReturns` is the end of main at any moment it is in its loop:
exit destroys the static `connection_pool`, so `DestroyPool` runs while the detached
workers go on; the `threadpool` object itself is deleted by nobody in the sources.

**Log.**  `Sample`, `CountLine`, `FormatAndChoose`, then `PushLine` or `WriteLine`,
then `Flush`: one `LOG_*` macro; `m_is_async` is chosen in `Init`.  A date is a number, `tm_mday` its remainder by the
length of a month.  `localtime` returns one static object for all threads; a writer
may copy the date another one has just put there (`TimeRead`; a torn copy is not
modelled).  A line whose push the queue refuses goes to `refused`, a record for the
properties: the code ignores the result.  `files` is what was written to each file, `buffered` the part still in
a stdio buffer.  That the queue behaves as `BoundedFifo` is what `BlockQueue`
establishes; its `pop` is taken not to fail, as `pthread_cond_wait` does not, so the
exit of the loop of `async_write_log` is left out.

**ElasticThreadPool.**  `TestFalse` and `Sleep` are one call of `wait` cut between
the predicate, which holds `m_mutex_pool`, and the sleep.  `ManagerLoop`, `ReadLive`,
`ReadBusy`, `CreateThreads`, `RetireThreads` are a round of the manager; its sleep of
five seconds is any delay.  One thread adds the tasks and then destroys the pool,
as `main` does.

**HttpParser.**  `who` is the parser: `"demo"` is `httprequest.cpp`, `"conn"` the one
of `http_conn`.  A byte is CR, LF, NUL or a word.  `Receive`, `ReceiveFails` and
`ReceiveFull` are the outcomes of `recv`; `TakeLine` is a turn of the loop with a line
in it, `NoLine` its end.  `parse_line` is both scanners, which differ in one branch.
`Verdict` says, from all that was received, what a request deserves, the same for both
parsers: `BAD_REQUEST` for a wrong request line or line end in the head, as
`webserve.md` has it, `GET_REQUEST` for a complete request.  It knows nothing of
indices or reads.  `parse_headers` and `parse_content` of
`http_conn` are external: a body is complete when `BodyLength` bytes follow
`m_checked_idx`, which the turn of the loop has just made `m_start_line` (`start_line'`
in `Line`), so the count starts later when `parse_line` has run over a part of the
body; for a `"conn"` the read loop stands for main, which reads again
after `NO_REQUEST`.

**EpollWorkers.**  `armed`, `ready` and `batch` are what epoll watches, has to report
and has reported; `Arm` (`addfd`, `reset_oneshot`) reports at once what is there.
`Begin` reads `fds_for_new_worker`, whatever main has put there since; a worker with
a descriptor another one has closed is `"spinning"` in its `recv` loop.  `stale`
remembers that some worker read its argument too late.  The variable is at one
address in every turn of the loop, as compilers place it.

**TimerServer.**  Time is what is left of the alarm and of each timer.
`AlarmRaised`/`TermRaised` run `sig_handler` between any two steps of main;
`ReadSignals`, `Accept`, `Echo`, `PeerGone`, `NothingThere` are the branches of the
loop, `EndRound` what follows it.  A client stands for a descriptor and comes back on
it.  `timer_lst` is a set; `tick` calls `cb_func` on the expired timers and drops
them, as the code's use of it requires.

**ChatRoom.**  `i` is the loop variable, `fds` the table with the revents of the last
`poll`, `users` the records with `write_buf` as the descriptor whose `buf` it points
to.  `Leave` resets the connection when messages are unread in the client's socket,
as TCP does; then `poll` reports an error first.

## 3. Runs

| Run | Bounds | Shows |
|---|---|---|
| `queue` | capacity 3, 2 items, 2 consumers, 1 timed consumer | ring, wake-ups, refinement of `BoundedFifo`, a full queue drains |
| `conn_pool` | 4 threads, 3 connections, `DestroyPool` | semaphore and list, connections conserved, none used after it is closed; a waiting thread means one is served |
| `requests` | 2 requests, 2 workers, queue of 1, 1 connection, both models, main may return | semaphore exact, one owner, own connection, `improv` never stale, no crash before main returns, requests taken, main released |
| `log` | 2 writers, 2 lines each, files of 2, 2 days, queue of 1, both modes | open file is the named one, each line once unless its push was refused, and that only by a race, flushed when its macro returns, queued lines written |
| `elastic` | 1 to 3 threads, 3 tasks, 1 spurious wake-up | counters, order of tasks, who misses the destructor's notification, shrinking |
| `http` | some 900 inputs of up to 16 words, every cut into reads, buffer of 15, body of 3 | indices, answers independent of the cut, complete requests answered |
| `chat` | 3 clients for 2 places, 2, 1 and 0 messages | table, order of messages, departures and pending writes |
| `epoll` | 2 clients, 3 pieces each | one party per socket, data read |
| `timer` | 2 descriptors, used again and again, `TIMESLOT` 1 | a timer per connection, the chain of alarms, idle connections closed |

The bounds let the interesting cases happen: the array of three wraps with two or
more items in it; there are more threads than connections, and fewer workers than
requests, so that tests are stale and queues fill; log files rotate by lines and by
day between any two steps of two writers; the elastic pool grows by two, shrinks and
is destroyed with tasks queued; requests end inside, at and beyond the end of the
buffer, with every sequence of five line ends after a request line; one client is
one too many for the chat room, and places become free in the middle of a round; two
sockets are ready in one `epoll_wait`; timers, alarm and data meet in one round.
`MaxLines`, `MaxDay`, `MaxTasks` and `MaxSpurious` bound the length of a history.  So
does `MaxSent`; since a client that types before every `poll` is never sent anything
(POLLIN goes before POLLOUT), `NobodyForgotten` promises service only to a user whose
own typing does not wait to be read, and leans on no end of the typing.

Runs that end in a counterexample show where the code and what is written about it
differ:

| Run | Counterexample |
|---|---|
| `elastic_taken` | `notify_one` between predicate and sleep is lost; the task is not taken |
| `http_body` | a body in two reads with a line end in it: `parse_content` is given text from inside it |
| `epoll_socket` | two events one after the other, of one round or of two: the first worker reads the second socket |

The same models show, without a run of their own:

* `front()` of the queue reads the slot before the oldest item, and `m_array[-1]`
  before the first pop;
* after `DestroyPool` the semaphore still admits threads, which pop an empty list
  (`NoEmptyPop` is stated for a pool that was not destroyed, `CrashOnlyAtExit` for the
  server: the crash is reachable once main has returned, and only then);
* `DestroyPool` closes the listed connections only.  One that a worker holds when main
  returns stays open and goes back into the list of the destroyed pool, where
  `sql_connection_pool.h:22` says "销毁所有连接" (destroys all connections);
* two writers see the one free slot of the log's queue; the second push is refused, its
  result ignored and the line gone, where `webserve.md:155` has a thread that adds to a
  full queue suspended ("线程将会挂起").  `LoggedOnce` names this one exception;
* the destructor of the elastic pool joins for ever when its `notify_all` falls
  between a worker's predicate and its sleep, where `23.thread.md:153` says of the same
  loop that all threads have finished; `MissedByOne` says that it is one worker at most;
* `process_read` answers a line that ends in the wrong way with `NO_REQUEST` and reads
  on, where `webserve.md:593` has syntax errors end in `BAD_REQUEST` and `:565` reserves
  `NO_REQUEST` for incomplete requests.  `Verdict` follows the document;
  `ChunkingIrrelevant` names the exception;
* retired threads stay joinable in `m_threads`, so an elastic pool that has shrunk
  cannot grow again once all `m_max_num` slots are used;
* `DestroyPool` sets `m_CurConn` to 0 with connections in use;
* a line of the log is counted in one critical section and written in another, so
  with two writers it can end up in the file of another day, or in a file that then
  has more than `m_split_lines` lines; and since `m_today` is the day of the month, a
  line logged a month after the last one goes to the old file;
* a worker whose read or write failed sets `improv` before `timer_flag`.  Main can
  go on without seeing the failure and find the flag at a later request, where it
  closes a connection that a worker is serving.  `OneOwner` and `OwnConnection` are
  therefore claimed for the Proactor model only;
* the branch of `parse_line` for an LF whose CR was seen in an earlier call, which
  `httprequest.cpp` lets skip one byte too many, is dead (`ScanOrder`), though
  `webserve.md:501-502` describes it as taken;
* a full buffer is taken for a client that has closed;
* in `epollet.cpp` connections that arrive together are accepted one per later event,
  and a worker on a descriptor that another one has closed loops on `EBADF`;
* in `nonactive_conn.cpp` the `epollfd` of `main` hides the one `cb_func` uses, so its
  `EPOLL_CTL_DEL` goes to descriptor 0; a peer whose last data and end come in one
  event is closed only by its timer; a `send` to it ends the server by SIGPIPE;
* in the chat room a user who types before every `poll` is never sent anything;
  `events` never loses POLLOUT, so a server with an idle user polls
  without pause; a message that follows another before it is sent replaces it; the
  last message of a user who leaves is not relayed; and after a departure the copied
  record can make a user receive its own old message, so `RelayedInOrder` is stated
  for a room nobody has left.

Deadlock is checked in every run.  The stuttering steps `Ended`, `Finished`,
`Stopped`, `Quiet` and `Silent` stand for the ends the program really has: the process
is gone, every bounded activity is over, or a server waits for clients that do nothing.

**Fairness.**  `BlockQueue`: a thread that loops on `pop`, as `async_write_log` does,
takes what it can take.  `ConnectionPool`: a thread past a semaphore, or at the end
of its guard's scope, runs on; a semaphore serves any of its waiters, so
`WaiterServed` only promises that some thread is served.  `ThreadPool`: workers run
when they can, main finishes the append it began; new events are not assumed, and
`RequestTaken` promises nothing once main has returned.
`Log`: the flush thread runs.  `ElasticThreadPool`: workers and manager run, tasks
end, main completes the call it is in, but need not add tasks or destroy the pool.
`HttpParser`: what was sent arrives and the server goes on with it.
`ChatRoom`: the server's one thread runs.  `EpollWorkers`: main runs, and some thread
that can run does.  `TimerServer`: time passes, a due alarm is delivered, main runs.
Clients are never assumed to do anything.  All of it is weak fairness: threads that the operating system schedules.

## 4. Theorems

*BlockQueueProofs*, from `MaxSize > 0`, disjoint sets of consumers and a blank value
that is not an item.  The inductive invariant `IInv` is the type invariant with
`RingInv` and `NoSleeperWhileNonEmpty`.  Lemmas about remainders (`ModSmall`,
`ModWraps`, `StepThenOffset`, `SlotsDistinct`) carry the index arithmetic; `RingInv`
is needed to know that the slot a push writes is the one after the last, and differs
from the slots in use.  `Refinement` maps `Contents`, the `m_size` slots after
`m_front`, to the abstract queue: `PushOk` is `Put`, `PopTake` is `Take`, `clear` is
`Clear`, everything else stutters.

*ConnectionPoolProofs*, for a finite set of threads, any connections and `DestroyPool`
at any moment.  `TypeInv` and `Distinct` are inductive by themselves.  `Distinct` says
that the list repeats nothing and that no connection is both listed and held, held
twice, or closed and still around; with it and the link between where a thread is and
what it holds, `ConservedHolds` and `NoUseAfterCloseHolds` follow.  `Account`, the
equation between semaphore, list, counters and holders, holds until `DestroyPool`
runs: `PoolInv` is `TypeInv` and `closed = {} => Account`.  A thread at `"reserved"`
then implies a non-empty list, so `TakeConn` never crashes.  `NoNullHolds` needs one
step more, counting the threads that hold or are about to take a connection: with as
many connections as threads, one that is outside leaves the list non-empty.

*LogProofs*, from `SplitLines > 0`, a month of at least one day and finitely many
writers.  `OpenFileNamedHolds`: counting and rotating are one critical section, so the
name of the open file follows `m_today` and `m_count`; the arithmetic lemma `DivStep`
says that the suffix changes only at a multiple of `SplitLines`.  The run has two days;
that the day of the month may also repeat is covered by the theorem.
`SyncDurableHolds`: `Sync` says that all that is in the stdio buffer is of the open
file, because rotation flushes the file it closes, so one `fflush` empties the buffer;
and that in synchronous mode each such line is of a writer that has yet to flush.
`TypesHold` needs a bound on `m_count`: the pairs of a writer and a line number that
are past the first locked section (`Counted`) grow by one with every count.
`LoggedOnceHolds`: a line is known by its key, its writer and number.  `Once` says that
the keys in the files, in the queue, in the hand of the flush thread and of the refused
lines are disjoint sets, that no place holds a key twice, and that together they are
the keys of the lines that were logged; a hand-over moves one key from one set to
another, and the cardinalities of `Traces` follow at the end: one trace for a line that
was not refused (`OnePlace`), none for one that was (`NoPlace`), and only an
asynchronous log pushes.  `Late` says that the last line in a full queue is not of a
writer that is about to push: since `full()` told it of room somebody else has pushed.

*ThreadPoolProofs*, for any requests, workers, connections and length of the queue,
in both models of the server.  `Account` is the equation of the queue's semaphore,
whose value is a natural number by `Types`; a worker at `"woken"` therefore implies a non-empty
queue, which is what the step that takes from the queue needs to keep the equation,
and main posts only after it has queued.  `Exclusive` adds to `OneOwner` where the
epoll event of a request is while it is queued or served: EPOLLONESHOT keeps main
from appending it again, and only the worker that has it re-arms the event.
`OwnMysql` follows the pointer `request->mysql` from there: while a worker is inside
`process` nobody else has the request, so nobody overwrites it.  `Handshake` is the
protocol of main and the worker in the Reactor model: main waits for the one request
that is queued or being served, so `improv` can only be that request's.
`UsesPool` shows that the pool's variables behave as `ConnectionPool` says (a
refinement with the identity on them, a worker for a thread, `MainReturns` a
`DestroyPool` or a stutter), and `PoolSafe` then takes `ConnectionsConserved` and
`NoUseAfterClose` over from `ConnectionPoolProofs` instead of proving them again.
`CrashOnlyAtExitHolds` joins the pool's `NoEmptyPop`, which speaks of a pool that was
not destroyed, to `ClosedAtExit`: only the end of main closes connections.  The assumptions on the connections are those of `ConnectionPool`.

*ElasticThreadPoolProofs*, for any limits `MinNum <= MaxNum` and any number of tasks.
`Shape` says that the slots of `m_threads` in use are the first ones; `Missed` that
`m_mutex_pool` is with one thread at a time between its test and its sleep, and that
`m_shutdown` is up before the destructor notifies, so that whoever tests later does not
sleep: `MissedByOne`, the one thread the destructor may hang on; `Order` that what was started and what
is queued are numbered in a row; `Counts` relates the live and the busy count to where
the threads are, and needs `Shape`, since a thread that is created must take a slot
that did not count and one that retires a slot that did.

*HttpParserProofs*, for any alphabet, any inputs and any buffer.  `Window` holds the
indices with `ScanOrder` itself.  `StopFirst` says that the scanner stops at the first
line end at or after `checked_index` (the least element of a set of numbers exists by
the well-foundedness of `<`), so the byte before the stop ends no line, or was before
`checked_index` already: `NoCRBehind`.  `TurnFinds` concludes that the branch of
`parse_line` for an LF after a CR of an earlier call is never taken.
`ChunkingIrrelevantHolds` compares the answer with `Verdict`, which sees all that was
received at once.  No induction over the lines is needed: the invariant `Answers` says
which part of the definition is settled, in positions of what was received, so of no
particular cut into reads.  While lines are looked for, the buffer is the input with
NUL for the line ends before `start_line` (`Copied`), no line end lies between
`start_line` and `checked_index` and no stray one before (`Passed`); `Stage` adds what
each state of the automaton has established (the first line is good, no empty line so
far, the empty line and a length), `Waits` why the parser stopped, `Accepted` and
`Rejected` why it answered.  A wait with a wrong line end, which is `http_conn`'s alone,
is told from the others by `LineEndBad`.  A read only adds positions behind the old ones
(`PairsStay`, `StraysStay`, `LineStays`, `HeadStays`); a turn of the loop finds the
next pair or the first stray end (`TurnTells`), and the C string it hands on is the
line (`LineString`).  The `Verdict...` lemmas read the definition off these facts.
The theorem is stated for a client that sends no NUL (`NoNul`): to the code a NUL ends
a string, so a header line that begins with one is taken for the empty line, while
`Verdict` knows line ends only.  `ScanOrder` and the types do not need this.  The proof
found two slips in the model: a length was looked for in all that was in the buffer,
bytes after the empty line included, and two cases of `Verdict` overlapped.

*EpollServersProofs*, the two servers on epoll.  `EpollWorkers` appears in it as the
instance `Workers`, with variables of its own; from the assumptions of `TimerServer`
its part uses only that the listening socket is no client's.  `OnePartyHolds`, for any
clients and any number of threads: until a worker reads its argument too late,
`WorkersInv` holds, which is `OneParty` with three facts it rests on.  Only armed
sockets have events to report, so what `epoll_wait` reports was armed and is switched
off; a client not accepted yet is with nobody, so `accept` is the first to arm it; a
thread that has begun reads the socket it was started for, so what it re-arms or
closes is its own.  `ThreadEnds` follows the other threads through the removal of one.

For `TimerServer`, any clients and `TIMESLOT`: `TimerPerConnection` is
inductive once the list is known to hold clients only.  `ClockNeverStops` counts the
one alarm over the places it may be in: set, a SIGALRM byte of the pipe, or noted in
`timeout`.  Reading the pipe replaces the byte by the flag, the end of the round
replaces the flag by the next alarm.  It needs `RoundOver`, that `epoll_wait` is only
called when every event of the round is handled, so that no event of the pipe is
taken away without a read.

*ChatRoomProofs*, for finitely many clients and any `USER_LIMIN`.  `Table` is a one to
one correspondence of entries and open connections.  A departure renames one entry
(`Moved`), which keeps it; `accept` needs a descriptor that no entry has, which exists
by the pigeonhole principle (`FreeDescriptor`).  `Told`, that POLLOUT is in `events`
only where `write_buf` was set, survives the copying of records because the record
that is overwritten is the leaver's.  `RelayedInOrder` is not inductive: it needs
`Order`, which follows the messages of a client from its socket through the buffer of
its descriptor to what the others were sent.  At each place they rise, and those
further along are older (`ReadBefore`, `SentBefore`); what `write_buf` points to is
another user's buffer, and newer than all the user was sent (`Pointed`).  A read into
that buffer before it was sent keeps this, since what is in the socket is newer still:
messages are lost that way, never reordered.  `Unowned` is for `accept`: a descriptor
without a connection has a record nobody has written.  `Order` is claimed until the
first user leaves; after that a stale record may hold messages of an earlier owner.

Only model-checked: the liveness properties (`FullQueueDrains`, `WaiterServed`,
`RequestTaken`, `MainReleased`, `QueuedWritten`, `IdlePoolShrinks`, `RequestAnswered`,
`NobodyForgotten`, `DataRead`, `IdleClosed`), since fairness and ENABLED are outside the
prover.  Every other property of a passing run is stated by a theorem, for all values
of the constants (`ChunkingIrrelevant` for clients that send no NUL); the type invariant
of `ElasticThreadPool` is proved and not in a run.

## 5. Not modelled

The connect demo (`nonblockconnect.cpp`): one process, one connect, one select and one
SO_ERROR in a straight line, with no second actor and no state to keep; text of log
lines and their buffer; failing `fopen`; the logger's destructor, which leaves queued
lines unwritten; the constructor of `threadpool` failing halfway and its destructor,
both with detached threads on the object; a `pthread_create` that fails in
`epollet.cpp`, and descriptors used again there; exact deadlines of the timed pop and
of the timers; the words of a request beyond the small alphabet of `HttpParser`; a
message longer than the buffer of the chat room, and a `send` that is cut short;
`http_conn::write`, which exists only as a quotation in `webserve.md`.  The Markdown
notes are documentation.

## 6. What is left

Every program of the repository with state of its own but the connect demo is modelled
and checked, and the safety properties are proved.  What would be worth adding:

1. A definition of a request that treats NUL as the C strings do, and with it
   `ChunkingIrrelevant` without `NoNul`.
2. A constructor of `threadpool` that fails halfway and a `fopen` that fails, as
   actions of their own, if the code comes to handle them.
