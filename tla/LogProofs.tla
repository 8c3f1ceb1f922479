------------------------------ MODULE LogProofs ------------------------------
(***************************************************************************)
(* The logger for any number of writers, days and lines, any queue size    *)
(* and any m_split_lines.                                                  *)
(*   NameInv    the open file is one m_today and m_count name              *)
(*   Sync       what is in the stdio buffer is of the open file and, in    *)
(*              synchronous mode, of a writer that has yet to flush        *)
(*   FileTypes  m_count is bounded by the lines counted so far, and so is  *)
(*              the suffix of a file                                       *)
(*   Once       the files, the queue, the flush thread and the refused lines*)
(*              share out the lines that were logged, each to one of them  *)
(*   Late       a writer that comes to a full queue was overtaken          *)
(* All but the first rest on WriterTypes, which says whose line a writer   *)
(* has in hand.                                                            *)
(***************************************************************************)
EXTENDS Log, SequenceTheorems, FiniteSetTheorems, TLAPS

(* A multiple leaves no remainder. *)
LEMMA ModMultiple ==
  ASSUME NEW s \in Nat \ {0}, NEW k \in Int
  PROVE  (s * k) % s = 0
<1> DEFINE d == (s * k) \div s
           r == (s * k) % s
<1>1. d \in Int /\ r \in 0 .. (s - 1) /\ s * k = s * d + r
  BY Z3
<1>2. CASE k = d
  BY <1>1, <1>2, Z3
<1>3. CASE k > d
  <2>1. s * (k - d) >= s
    BY <1>1, <1>3, Z3
  <2> QED  BY <1>1, <2>1, Z3
<1>4. CASE k < d
  <2>1. s * (d - k) >= s
    BY <1>1, <1>4, Z3
  <2> QED  BY <1>1, <2>1, Z3
<1> QED  BY <1>1, <1>2, <1>3, <1>4

(* Counting one line more changes the suffix only at a multiple. *)
LEMMA DivStep ==
  ASSUME NEW s \in Nat \ {0}, NEW c \in Nat, (c + 1) % s # 0
  PROVE  (c + 1) \div s = c \div s
<1> DEFINE q == c \div s
           r == c % s
<1>1. q \in Int /\ r \in 0 .. (s - 1) /\ c = s * q + r
  BY Z3
<1>2. r + 1 # s
  <2> SUFFICES ASSUME r + 1 = s PROVE FALSE
    OBVIOUS
  <2>1. c + 1 = s * (q + 1)
    BY <1>1, Z3
  <2>2. (s * (q + 1)) % s = 0
    BY <1>1, ModMultiple
  <2> QED  BY <2>1, <2>2
<1> QED  BY <1>1, <1>2, Z3

NameInv == m_count \in Nat /\ OpenFileNamed

LEMMA InitNameInv == Init => NameInv
<1>1. 0 \div SplitLines = 0
  BY SplitLinesAssumption, Z3
<1> QED  BY <1>1 DEF Init, NameInv, OpenFileNamed

LEMMA NextNameInv == NameInv /\ [Next]_vars => NameInv'
<1> SUFFICES ASSUME NameInv, [Next]_vars PROVE NameInv'
  OBVIOUS
<1>1. ASSUME NEW w \in Writers, CountLine(w) PROVE NameInv'
  <2>1. m_count' \in Nat
    BY <1>1 DEF CountLine, NameInv
  <2>2. CASE NewDay(w)
    <3>1. m_fp' = <<line[w].day, 0>> /\ m_today' = tm_mday(line[w].day) /\ m_count' = 0
      BY <1>1, <2>2 DEF CountLine
    <3>2. 0 \div SplitLines = 0
      BY SplitLinesAssumption, Z3
    <3> QED  BY <2>1, <3>1, <3>2 DEF NameInv, OpenFileNamed
  <2>3. CASE ~NewDay(w) /\ SplitDue
    <3>1. /\ m_fp' = <<line[w].day, (m_count + 1) \div SplitLines>>
          /\ m_today' = tm_mday(line[w].day) /\ m_count' = m_count + 1
      BY <1>1, <2>3 DEF CountLine, NewDay
    <3> QED  BY <2>1, <3>1 DEF NameInv, OpenFileNamed
  <2>4. CASE ~NewDay(w) /\ ~SplitDue
    <3>1. m_fp' = m_fp /\ m_today' = m_today /\ m_count' = m_count + 1
      BY <1>1, <2>4 DEF CountLine
    <3>2. (m_count + 1) \div SplitLines = m_count \div SplitLines
      BY <2>4, SplitLinesAssumption, DivStep DEF SplitDue, NameInv
    <3> QED  BY <2>1, <3>1, <3>2 DEF NameInv, OpenFileNamed
  <2> QED  BY <2>2, <2>3, <2>4
<1>2. CASE UNCHANGED <<m_today, m_count, m_fp>>
  BY <1>2 DEF NameInv, OpenFileNamed
<1>3. ASSUME NEW w \in Writers,
             \/ Sample(w) \/ FormatAndChoose(w) \/ PushLine(w) \/ WriteLine(w) \/ Flush(w)
      PROVE  UNCHANGED <<m_today, m_count, m_fp>>
  BY <1>3 DEF Sample, FormatAndChoose, PushLine, WriteLine, Flush, fputs, fileVars
<1>4. ASSUME NextDay \/ AsyncPop \/ AsyncWrite \/ Finished \/ UNCHANGED vars
      PROVE  UNCHANGED <<m_today, m_count, m_fp>>
  BY <1>4 DEF NextDay, AsyncPop, AsyncWrite, Finished, fputs, fileVars, vars
<1> QED  BY <1>1, <1>2, <1>3, <1>4 DEF Next, WriterStep

(* The file write_log and the flush thread write to is a file of m_today
   with the suffix m_count / m_split_lines, in every reachable state. *)
THEOREM OpenFileNamedHolds == Spec => []OpenFileNamed
<1>1. NameInv => OpenFileNamed
  BY DEF NameInv
<1> QED  BY <1>1, InitNameInv, NextNameInv, PTL DEF Spec

-----------------------------------------------------------------------------
(* The writers.  Counted are the lines past the first locked section, as   *)
(* pairs of a writer and a number.                                         *)

Places == {"idle", "sampled", "counted", "push", "sync", "flush"}
Total  == Cardinality(Writers) * MaxLines
Counted == {k \in Writers \X (1 .. MaxLines) :
              k[2] <= done[k[1]] /\ ~(k[2] = done[k[1]] /\ pc[k[1]] = "sampled")}

WriterTypes ==
  /\ day \in Days
  /\ m_is_async \in BOOLEAN
  /\ pc \in [Writers -> Places]
  /\ done \in [Writers -> 0 .. MaxLines]
  /\ line \in [Writers -> Lines \cup {NoLine}]
  /\ \A w \in Writers : pc[w] # "idle" => /\ line[w] \in Lines
                                          /\ line[w].by = w /\ line[w].n = done[w]
  /\ \A w \in Writers : pc[w] = "push" => m_is_async

LEMMA Bounds == /\ MaxLines \in Nat /\ QueueSize \in Nat /\ MaxDay \in Nat \ {0}
                /\ SplitLines \in Nat \ {0} /\ MonthDays \in Nat \ {0}
BY BoundsAssumption, SplitLinesAssumption, MonthAssumption

LEMMA InitWriterTypes == Init => WriterTypes
<1> SUFFICES ASSUME Init PROVE WriterTypes
  OBVIOUS
<1>1. m_is_async \in BOOLEAN
  <2>1. (QueueSize >= 1) \in BOOLEAN
    BY Bounds
  <2> QED  BY <2>1, Zenon DEF Init
<1>2. day \in Days
  BY Bounds DEF Init, Days
<1>3. 0 \in 0 .. MaxLines
  BY Bounds
<1>4. /\ pc = [w \in Writers |-> "idle"]
      /\ line = [w \in Writers |-> NoLine]
      /\ done = [w \in Writers |-> 0]
  BY DEF Init
<1> QED  BY <1>1, <1>2, <1>3, <1>4 DEF WriterTypes, Places

(* A writer that goes on in write_log. *)
LEMMA WriterMoves ==
  ASSUME WriterTypes, NEW w \in Writers, pc[w] # "idle", NEW p \in Places,
         p = "push" => m_is_async,
         pc' = [pc EXCEPT ![w] = p], UNCHANGED <<day, m_is_async, line, done>>
  PROVE  WriterTypes'
BY DEF WriterTypes

LEMMA NextWriterTypes == WriterTypes /\ [Next]_vars => WriterTypes'
<1> SUFFICES ASSUME WriterTypes, [Next]_vars PROVE WriterTypes'
  OBVIOUS
<1>1. CASE NextDay
  <2>1. day' \in Days
    BY <1>1, Bounds DEF NextDay, WriterTypes, Days
  <2> QED  BY <1>1, <2>1 DEF NextDay, writerVars, WriterTypes
<1>2. ASSUME NEW w \in Writers, Sample(w) PROVE WriterTypes'
  <2>1. PICK d \in TimeRead(w) : line' = [line EXCEPT ![w] = [by |-> w, n |-> done'[w], day |-> d]]
    BY <1>2 DEF Sample
  <2>2. d \in Days
    BY DEF TimeRead, WriterTypes, Lines
  <2>3. done'[w] \in 1 .. MaxLines /\ done' \in [Writers -> 0 .. MaxLines]
    BY <1>2, Bounds DEF Sample, WriterTypes
  <2>4. [by |-> w, n |-> done'[w], day |-> d] \in Lines
    BY <2>2, <2>3 DEF Lines
  <2>5. pc' = [pc EXCEPT ![w] = "sampled"] /\ UNCHANGED <<day, m_is_async>>
        /\ \A v \in Writers \ {w} : done'[v] = done[v]
    BY <1>2 DEF Sample, WriterTypes
  <2>6. line' \in [Writers -> Lines \cup {NoLine}] /\ pc' \in [Writers -> Places]
    BY <2>1, <2>4, <2>5 DEF WriterTypes, Places
  <2>7. \A v \in Writers : pc'[v] # "idle" =>
          line'[v] \in Lines /\ line'[v].by = v /\ line'[v].n = done'[v]
    BY <2>1, <2>4, <2>5 DEF WriterTypes
  <2>8. \A v \in Writers : pc'[v] = "push" => m_is_async'
    BY <2>5 DEF WriterTypes
  <2> QED  BY <2>3, <2>5, <2>6, <2>7, <2>8 DEF WriterTypes
<1>3. ASSUME NEW w \in Writers,
             CountLine(w) \/ FormatAndChoose(w) \/ PushLine(w) \/ WriteLine(w)
      PROVE  WriterTypes'
  <2>1. pc[w] # "idle" /\ UNCHANGED <<day, m_is_async, line, done>>
    BY <1>3 DEF CountLine, FormatAndChoose, PushLine, WriteLine
  <2>2. \E p \in Places : (p = "push" => m_is_async) /\ pc' = [pc EXCEPT ![w] = p]
    BY <1>3 DEF CountLine, FormatAndChoose, PushLine, WriteLine, Places
  <2> QED  BY <2>1, <2>2, WriterMoves
<1>4. ASSUME NEW w \in Writers, Flush(w) PROVE WriterTypes'
  BY <1>4, WriterMoves DEF Flush, Places
<1>5. CASE AsyncPop \/ AsyncWrite \/ UNCHANGED vars
  BY <1>5 DEF AsyncPop, AsyncWrite, vars, writerVars, WriterTypes
<1> QED  BY <1>1, <1>2, <1>3, <1>4, <1>5 DEF Next, WriterStep, Finished

LEMMA WriterInductive == Spec => []WriterTypes
BY InitWriterTypes, NextWriterTypes, PTL DEF Spec

-----------------------------------------------------------------------------
(* Lines in the stdio buffer.  They are all of the open file, because       *)
(* rotation flushes the file it closes, so one fflush empties the buffer;   *)
(* in synchronous mode each of them is of a writer that has yet to flush.   *)

OneBuffer == \A b \in buffered : b[1] = m_fp
SyncIdle  == queue = <<>> /\ fpc = "pop"
Unflushed == \A b \in buffered : b[2].by \in Writers /\ pc[b[2].by] = "flush"

Sync == OneBuffer /\ (~m_is_async => SyncIdle /\ Unflushed)

LEMMA InitSync == Init => Sync
BY DEF Init, Sync, OneBuffer, SyncIdle, Unflushed, m_log_queue!FifoInit

(* Nothing happens to the buffer or the open file. *)
LEMMA SyncKept ==
  ASSUME Sync, WriterTypes, UNCHANGED <<m_is_async, buffered, m_fp>>,
         ~m_is_async => UNCHANGED <<queue, fpc>>,
         \/ pc' = pc
         \/ \E w \in Writers : pc[w] # "flush" /\ \E p \in Places : pc' = [pc EXCEPT ![w] = p]
  PROVE  Sync'
<1>1. OneBuffer'
  BY DEF Sync, OneBuffer
<1>2. ASSUME ~m_is_async PROVE SyncIdle' /\ Unflushed'
  BY <1>2 DEF Sync, SyncIdle, Unflushed, WriterTypes
<1> QED  BY <1>1, <1>2 DEF Sync

(* The open file is flushed. *)
LEMMA SyncFlushed ==
  ASSUME Sync, m_is_async' = m_is_async, buffered' = {}, UNCHANGED <<queue, fpc>>
  PROVE  Sync'
BY DEF Sync, OneBuffer, SyncIdle, Unflushed

LEMMA NextSync == Sync /\ WriterTypes /\ [Next]_vars => Sync'
<1> SUFFICES ASSUME Sync, WriterTypes, [Next]_vars PROVE Sync'
  OBVIOUS
<1>0. Unbuffered = {}
  BY DEF Unbuffered, Sync, OneBuffer
<1>1. CASE NextDay \/ UNCHANGED vars
  BY <1>1, SyncKept DEF NextDay, fileVars, writerVars, queueVars, vars
<1>2. ASSUME NEW w \in Writers, Sample(w) PROVE Sync'
  <2>1. /\ pc[w] = "idle" /\ pc' = [pc EXCEPT ![w] = "sampled"]
        /\ UNCHANGED <<m_is_async, buffered, m_fp, queue, fpc>>
    BY <1>2 DEF Sample, fileVars, queueVars
  <2>2. "sampled" \in Places /\ "idle" # "flush"
    BY DEF Places
  <2> QED  BY <2>1, <2>2, SyncKept
<1>3. ASSUME NEW w \in Writers, CountLine(w) PROVE Sync'
  <2>1. /\ pc[w] = "sampled" /\ pc' = [pc EXCEPT ![w] = "counted"]
        /\ UNCHANGED <<m_is_async, queue, fpc>>
    BY <1>3 DEF CountLine, queueVars
  <2>2. CASE Rotate(w)
    BY <1>0, <1>3, <2>1, <2>2, SyncFlushed DEF CountLine, FlushRotated
  <2>3. CASE ~Rotate(w)
    <3>1. buffered' = buffered /\ m_fp' = m_fp
      BY <1>3, <2>3 DEF CountLine, FlushRotated, Rotate
    <3>2. "counted" \in Places /\ "sampled" # "flush"
      BY DEF Places
    <3> QED  BY <2>1, <3>1, <3>2, SyncKept
  <2> QED  BY <2>2, <2>3
<1>4. ASSUME NEW w \in Writers, FormatAndChoose(w) PROVE Sync'
  <2>1. /\ pc[w] # "flush" /\ UNCHANGED <<m_is_async, buffered, m_fp, queue, fpc>>
        /\ \E p \in Places : pc' = [pc EXCEPT ![w] = p]
    BY <1>4 DEF FormatAndChoose, fileVars, queueVars, Places
  <2> QED  BY <2>1, SyncKept
<1>5. ASSUME NEW w \in Writers, PushLine(w) PROVE Sync'
  <2>1. m_is_async
    BY <1>5 DEF PushLine, WriterTypes
  <2>2. /\ pc[w] = "push" /\ pc' = [pc EXCEPT ![w] = "flush"]
        /\ UNCHANGED <<m_is_async, buffered, m_fp>>
    BY <1>5 DEF PushLine, fileVars
  <2>3. "flush" \in Places /\ "push" # "flush"
    BY DEF Places
  <2> QED  BY <2>1, <2>2, <2>3, SyncKept
<1>6. ASSUME NEW w \in Writers, WriteLine(w) PROVE Sync'
  <2>1. /\ buffered' = buffered \cup {<<m_fp, line[w]>>} /\ pc' = [pc EXCEPT ![w] = "flush"]
        /\ UNCHANGED <<m_is_async, m_fp, queue, fpc>>
    BY <1>6 DEF WriteLine, fputs, queueVars
  <2>2. line[w].by = w
    BY <1>6 DEF WriteLine, WriterTypes
  <2>3. OneBuffer'
    BY <2>1 DEF Sync, OneBuffer
  <2>4. ASSUME ~m_is_async PROVE SyncIdle' /\ Unflushed'
    BY <2>1, <2>2, <2>4 DEF Sync, SyncIdle, Unflushed, WriterTypes
  <2> QED  BY <2>1, <2>3, <2>4 DEF Sync
<1>7. ASSUME NEW w \in Writers, Flush(w) PROVE Sync'
  BY <1>0, <1>7, SyncFlushed DEF Flush, queueVars
<1>8. CASE AsyncPop
  <2>1. m_is_async
    BY <1>8 DEF AsyncPop, m_log_queue!Take, Sync, SyncIdle
  <2> QED  BY <1>8, <2>1, SyncKept DEF AsyncPop, fileVars, writerVars
<1>9. CASE AsyncWrite
  <2>1. m_is_async
    BY <1>9 DEF AsyncWrite, Sync, SyncIdle
  <2> QED  BY <1>9, <2>1 DEF AsyncWrite, fputs, Sync, OneBuffer
<1> QED  BY <1>1, <1>2, <1>3, <1>4, <1>5, <1>6, <1>7, <1>8, <1>9 DEF Next, WriterStep, Finished

(* When a LOG_* macro of a synchronous log returns, the writer's line has
   left the stdio buffer, whoever rotated the file or flushed it in the
   meantime: for any number of writers, any m_split_lines and any clock. *)
THEOREM SyncDurableHolds == Spec => []SyncDurable
<1>1. Sync => SyncDurable
  BY DEF Sync, Unflushed, SyncDurable
<1> QED  BY <1>1, InitSync, NextSync, WriterInductive, PTL DEF Spec

-----------------------------------------------------------------------------
(* m_count never exceeds the number of counted lines, so every suffix is    *)
(* that of a file in Files; a line in the buffer is one of the open file.   *)

FileTypes ==
  /\ m_today \in 0 .. (MonthDays - 1)
  /\ m_count \in Nat /\ m_count <= Cardinality(Counted)
  /\ m_fp \in Files
  /\ files \in [Files -> Seq(Lines)]
  /\ \A b \in buffered : \E i \in DOMAIN files[m_fp] : b = <<m_fp, files[m_fp][i]>>

QueueTypes ==
  /\ queue \in Seq(Lines) /\ Len(queue) <= QueueSize
  /\ got \in [{Flusher} -> Lines \cup {NoLine}]
  /\ fpc \in {"pop", "write"}
  /\ fpc = "write" => got[Flusher] \in Lines
  /\ refused \subseteq Lines

LEMMA AllPairs ==
  /\ IsFiniteSet(Writers \X (1 .. MaxLines))
  /\ Cardinality(Writers \X (1 .. MaxLines)) = Total /\ Total \in Nat
<1> DEFINE N == 1 .. MaxLines
<1>1. IsFiniteSet(N) /\ Cardinality(N) = MaxLines
  BY FS_Interval, Bounds
<1> HIDE DEF N
<1>2. IsFiniteSet(Writers \X N) /\ Cardinality(Writers \X N) = Total
  BY <1>1, WritersAssumption, FS_Product DEF Total
<1> QED  BY <1>2, FS_CardinalityType DEF N

(* Stated for any part of the pairs, so that it serves Counted and Counted'. *)
LEMMA PairsBounded ==
  ASSUME NEW C, C \subseteq Writers \X (1 .. MaxLines)
  PROVE  /\ IsFiniteSet(C) /\ Cardinality(C) \in Nat
         /\ Cardinality(C) <= Total /\ Total \in Nat
BY AllPairs, FS_Subset, FS_CardinalityType

LEMMA CountedBounded ==
  /\ IsFiniteSet(Counted) /\ Cardinality(Counted) \in Nat
  /\ Cardinality(Counted) <= Total /\ Total \in Nat
<1>1. Counted \subseteq Writers \X (1 .. MaxLines)
  BY DEF Counted
<1> QED  BY <1>1, PairsBounded

LEMMA CountedKept ==
  ASSUME WriterTypes, UNCHANGED done,
         \/ pc' = pc
         \/ \E w \in Writers, p \in Places :
              pc[w] # "sampled" /\ p # "sampled" /\ pc' = [pc EXCEPT ![w] = p]
  PROVE  Counted' = Counted
BY DEF WriterTypes, Counted

LEMMA CountedSample ==
  ASSUME WriterTypes, NEW w \in Writers, Sample(w)
  PROVE  Counted' = Counted
<1>1. /\ done \in [Writers -> 0 .. MaxLines] /\ pc \in [Writers -> Places] /\ pc[w] = "idle"
      /\ done' = [done EXCEPT ![w] = @ + 1] /\ pc' = [pc EXCEPT ![w] = "sampled"]
  BY DEF Sample, WriterTypes
<1>2. ASSUME NEW v \in Writers, NEW n \in 1 .. MaxLines
      PROVE  (n <= done'[v] /\ ~(n = done'[v] /\ pc'[v] = "sampled"))
             <=> (n <= done[v] /\ ~(n = done[v] /\ pc[v] = "sampled"))
  BY <1>1, <1>2, Bounds
<1> QED  BY <1>2 DEF Counted

LEMMA CountedMore ==
  ASSUME WriterTypes, NEW w \in Writers, CountLine(w)
  PROVE  Cardinality(Counted') = Cardinality(Counted) + 1
<1>1. /\ done \in [Writers -> 0 .. MaxLines] /\ pc \in [Writers -> Places] /\ pc[w] = "sampled"
      /\ done' = done /\ pc' = [pc EXCEPT ![w] = "counted"]
  BY DEF CountLine, WriterTypes
<1>2. done[w] \in 1 .. MaxLines
  BY <1>1 DEF WriterTypes, Lines
<1>3. <<w, done[w]>> \notin Counted
  BY <1>1 DEF Counted
<1>4. Counted' = Counted \cup {<<w, done[w]>>}
  <2>1. ASSUME NEW v \in Writers, NEW n \in 1 .. MaxLines
        PROVE  (n <= done'[v] /\ ~(n = done'[v] /\ pc'[v] = "sampled"))
               <=> (n <= done[v] /\ ~(n = done[v] /\ pc[v] = "sampled")) \/ <<v, n>> = <<w, done[w]>>
    BY <1>1, <1>2, <2>1, Bounds
  <2> QED  BY <1>2, <2>1 DEF Counted
<1> QED  BY <1>3, <1>4, CountedBounded, FS_AddElement

LEMMA DivBound ==
  ASSUME NEW c \in Nat, NEW s \in Nat \ {0}
  PROVE  c \div s \in 0 .. c
<1> DEFINE q == c \div s
           r == c % s
<1>1. q \in Int /\ r \in 0 .. (s - 1) /\ c = s * q + r
  BY Z3
<1>2. q >= 0
  <2> SUFFICES ASSUME q <= -1 PROVE FALSE
    BY <1>1
  <2>1. s * q <= -s
    BY <1>1, Z3
  <2> QED  BY <1>1, <2>1, Z3
<1>3. s * q >= q
  BY <1>1, <1>2, Z3
<1> QED  BY <1>1, <1>2, <1>3, Z3

LEMMA MDay == ASSUME NEW d \in Days PROVE tm_mday(d) \in 0 .. (MonthDays - 1)
BY Bounds, Z3 DEF tm_mday, Days

LEMMA InitFileTypes == Init => FileTypes /\ QueueTypes
<1> SUFFICES ASSUME Init PROVE FileTypes /\ QueueTypes
  OBVIOUS
<1>1. 1 \in Days
  BY Bounds DEF Days
<1>2. m_today \in 0 .. (MonthDays - 1)
  BY <1>1, MDay DEF Init
<1>3. m_count \in Nat /\ m_count <= Cardinality(Counted)
  BY CountedBounded DEF Init
<1>4. m_fp \in Files
  <2>1. 0 \in 0 .. Total
    BY CountedBounded
  <2> QED  BY <1>1, <2>1 DEF Init, Files, Total
<1>5. files \in [Files -> Seq(Lines)] /\ buffered = {}
  BY DEF Init
<1>6. QueueTypes
  BY Bounds DEF Init, QueueTypes, m_log_queue!FifoInit
<1> QED  BY <1>2, <1>3, <1>4, <1>5, <1>6 DEF FileTypes

LEMMA FileTypesKept ==
  ASSUME FileTypes, UNCHANGED fileVars, Counted' = Counted
  PROVE  FileTypes'
BY DEF FileTypes, fileVars

(* A line goes to the open file. *)
LEMMA FilePut ==
  ASSUME FileTypes, NEW l \in Lines, fputs(l), Counted' = Counted
  PROVE  FileTypes'
<1> DEFINE s == files[m_fp]
<1>1. files \in [Files -> Seq(Lines)] /\ m_fp \in Files
  BY DEF FileTypes
<1>2. files'[m_fp] = Append(s, l) /\ files' \in [Files -> Seq(Lines)]
  BY <1>1 DEF fputs
<1>3. /\ s \in Seq(Lines) /\ DOMAIN s \subseteq DOMAIN Append(s, l)
      /\ \A i \in DOMAIN s : Append(s, l)[i] = s[i]
      /\ Len(s) + 1 \in DOMAIN Append(s, l) /\ Append(s, l)[Len(s) + 1] = l
  BY <1>1
<1>4. m_fp' = m_fp /\ buffered' = buffered \cup {<<m_fp, l>>} /\ UNCHANGED <<m_today, m_count>>
  BY DEF fputs
<1>5. ASSUME NEW b \in buffered' PROVE \E i \in DOMAIN files'[m_fp] : b = <<m_fp, files'[m_fp][i]>>
  <2>1. CASE b = <<m_fp, l>>
    BY <1>2, <1>3, <2>1
  <2>2. CASE b \in buffered
    <3>1. PICK i \in DOMAIN s : b = <<m_fp, s[i]>>
      BY <2>2 DEF FileTypes
    <3> HIDE DEF s
    <3> QED  BY <1>2, <1>3, <3>1
  <2> QED  BY <1>4, <2>1, <2>2
<1> QED  BY <1>2, <1>4, <1>5 DEF FileTypes

(* The first locked section of write_log. *)
LEMMA FileCount ==
  ASSUME FileTypes, WriterTypes, NEW w \in Writers, CountLine(w)
  PROVE  FileTypes'
<1>1. line[w] \in Lines /\ line[w].day \in Days
  BY DEF CountLine, WriterTypes, Lines
<1>2. m_today' \in 0 .. (MonthDays - 1)
  BY <1>1, MDay DEF CountLine, FileTypes
<1>3. /\ m_count \in Nat /\ m_count <= Cardinality(Counted) /\ m_count' \in Nat
      /\ m_count' <= m_count + 1
  BY DEF CountLine, FileTypes
<1>4. /\ Cardinality(Counted') = Cardinality(Counted) + 1
      /\ Cardinality(Counted) \in Nat
  BY CountedMore, CountedBounded
<1>5. Cardinality(Counted') <= Total /\ Total \in Nat
  <2>1. Counted' \subseteq Writers \X (1 .. MaxLines)
    BY DEF Counted
  <2> QED  BY <2>1, PairsBounded
<1>6. m_count' <= Cardinality(Counted')
  BY <1>3, <1>4
<1>7. m_fp' \in Files
  <2>1. 0 \in 0 .. Total
    BY <1>5
  <2>2. (m_count + 1) \div SplitLines \in 0 .. Total
    <3> DEFINE q == (m_count + 1) \div SplitLines
    <3>1. q \in 0 .. (m_count + 1)
      BY <1>3, Bounds, DivBound
    <3> HIDE DEF q
    <3>2. q \in 0 .. Total
      BY <1>3, <1>4, <1>5, <3>1
    <3> QED  BY <3>2 DEF q
  <2>3. Files = Days \X (0 .. Total)
    BY DEF Files, Total
  <2>4. \/ m_fp' = <<line[w].day, 0>> \/ m_fp' = m_fp
        \/ m_fp' = <<line[w].day, (m_count + 1) \div SplitLines>>
    BY DEF CountLine
  <2>5. m_fp \in Files
    BY DEF FileTypes
  <2> QED  BY <1>1, <2>1, <2>2, <2>3, <2>4, <2>5
<1>8. files' = files
  BY DEF CountLine, fopen
<1>9. buffered' = {} \/ (buffered' = buffered /\ m_fp' = m_fp)
  <2>1. Unbuffered = {}
    BY DEF Unbuffered, FileTypes
  <2>2. ~Rotate(w) => m_fp' = m_fp
    BY DEF CountLine, Rotate
  <2>3. buffered' = IF Rotate(w) THEN Unbuffered ELSE buffered
    BY DEF CountLine, FlushRotated
  <2> QED  BY <2>1, <2>2, <2>3
<1>10. \A b \in buffered' : \E i \in DOMAIN files'[m_fp'] : b = <<m_fp', files'[m_fp'][i]>>
  BY <1>8, <1>9 DEF FileTypes
<1> QED  BY <1>2, <1>3, <1>6, <1>7, <1>8, <1>10 DEF FileTypes

LEMMA NextFileTypes == FileTypes /\ QueueTypes /\ WriterTypes /\ [Next]_vars => FileTypes'
<1> SUFFICES ASSUME FileTypes, QueueTypes, WriterTypes, [Next]_vars PROVE FileTypes'
  OBVIOUS
<1>1. CASE NextDay \/ AsyncPop \/ UNCHANGED vars
  BY <1>1, CountedKept, FileTypesKept DEF NextDay, AsyncPop, vars, writerVars, fileVars
<1>2. ASSUME NEW w \in Writers, Sample(w) PROVE FileTypes'
  BY <1>2, CountedSample, FileTypesKept DEF Sample
<1>3. ASSUME NEW w \in Writers, CountLine(w) PROVE FileTypes'
  BY <1>3, FileCount
<1>4. ASSUME NEW w \in Writers, FormatAndChoose(w) \/ PushLine(w) PROVE FileTypes'
  <2>1. UNCHANGED <<fileVars, done>>
        /\ \E p \in Places : pc[w] # "sampled" /\ p # "sampled" /\ pc' = [pc EXCEPT ![w] = p]
    BY <1>4 DEF FormatAndChoose, PushLine, Places
  <2> QED  BY <2>1, CountedKept, FileTypesKept
<1>5. ASSUME NEW w \in Writers, WriteLine(w) PROVE FileTypes'
  <2>1. line[w] \in Lines /\ fputs(line[w])
    BY <1>5 DEF WriteLine, WriterTypes
  <2>2. done' = done /\ pc[w] # "sampled" /\ pc' = [pc EXCEPT ![w] = "flush"]
    BY <1>5 DEF WriteLine
  <2>3. "flush" \in Places /\ "flush" # "sampled"
    BY DEF Places
  <2> QED  BY <2>1, <2>2, <2>3, CountedKept, FilePut
<1>6. ASSUME NEW w \in Writers, Flush(w) PROVE FileTypes'
  <2>1. done' = done /\ pc[w] # "sampled" /\ pc' = [pc EXCEPT ![w] = "idle"]
    BY <1>6 DEF Flush
  <2>2. "idle" \in Places /\ "idle" # "sampled"
    BY DEF Places
  <2>3. Counted' = Counted
    BY <2>1, <2>2, CountedKept
  <2>4. buffered' \subseteq buffered /\ UNCHANGED <<m_today, m_count, m_fp, files>>
    BY <1>6 DEF Flush, Unbuffered
  <2> QED  BY <2>3, <2>4 DEF FileTypes
<1>7. CASE AsyncWrite
  <2>1. got[Flusher] \in Lines /\ fputs(got[Flusher]) /\ UNCHANGED <<pc, done>>
    BY <1>7 DEF AsyncWrite, QueueTypes, writerVars
  <2> QED  BY <2>1, CountedKept, FilePut
<1> QED  BY <1>1, <1>2, <1>3, <1>4, <1>5, <1>6, <1>7 DEF Next, WriterStep, Finished

LEMMA NextQueueTypes == QueueTypes /\ WriterTypes /\ [Next]_vars => QueueTypes'
<1> SUFFICES ASSUME QueueTypes, WriterTypes, [Next]_vars PROVE QueueTypes'
  OBVIOUS
<1>1. ASSUME UNCHANGED <<queueVars, refused, fpc>> PROVE QueueTypes'
  BY <1>1 DEF QueueTypes, queueVars
<1>2. ASSUME NEW w \in Writers, PushLine(w) PROVE QueueTypes'
  <2>1. line[w] \in Lines /\ fpc' = fpc /\ got' = got
    BY <1>2 DEF PushLine, WriterTypes, m_log_queue!Put, queueVars
  <2>2. CASE m_log_queue!Put(line[w]) /\ UNCHANGED refused
    <3>1. queue' \in Seq(Lines) /\ Len(queue') = Len(queue) + 1 /\ Len(queue) < QueueSize
      BY <2>1, <2>2 DEF m_log_queue!Put, QueueTypes
    <3>2. Len(queue') <= QueueSize
      BY <3>1, Bounds DEF QueueTypes
    <3> QED  BY <2>1, <2>2, <3>1, <3>2 DEF QueueTypes
  <2>3. CASE refused' = refused \cup {line[w]} /\ UNCHANGED queueVars
    BY <2>1, <2>3 DEF QueueTypes, queueVars
  <2> QED  BY <1>2, <2>2, <2>3 DEF PushLine
<1>3. CASE AsyncPop
  <2>1. /\ queue # <<>> /\ queue' = Tail(queue) /\ got' = [got EXCEPT ![Flusher] = Head(queue)]
        /\ fpc' = "write" /\ refused' = refused
    BY <1>3 DEF AsyncPop, m_log_queue!Take
  <2>2. Head(queue) \in Lines /\ Tail(queue) \in Seq(Lines) /\ Len(Tail(queue)) = Len(queue) - 1
    BY <2>1 DEF QueueTypes
  <2>3. Len(queue') <= QueueSize
    BY <2>1, <2>2, Bounds DEF QueueTypes
  <2> QED  BY <2>1, <2>2, <2>3 DEF QueueTypes
<1>4. CASE AsyncWrite
  BY <1>4 DEF AsyncWrite, AsyncNext, QueueTypes, queueVars
<1>5. ASSUME NEW w \in Writers, Sample(w) \/ CountLine(w) \/ FormatAndChoose(w) \/ WriteLine(w) \/ Flush(w)
      PROVE  UNCHANGED <<queueVars, refused, fpc>>
  BY <1>5 DEF Sample, CountLine, FormatAndChoose, WriteLine, Flush
<1>6. ASSUME NextDay \/ UNCHANGED vars PROVE UNCHANGED <<queueVars, refused, fpc>>
  BY <1>6 DEF NextDay, vars
<1> QED  BY <1>1, <1>2, <1>3, <1>4, <1>5, <1>6 DEF Next, WriterStep, Finished

LEMMA TypesInductive == Spec => [](WriterTypes /\ FileTypes /\ QueueTypes)
BY InitWriterTypes, NextWriterTypes, InitFileTypes, NextFileTypes, NextQueueTypes, PTL DEF Spec

(* The state of the logger has its types: in particular a suffix is at most
   the number of lines all writers log, what the buffer holds is in the open
   file, and the queue never exceeds max_queue_size although writers push
   after an unlocked test of full. *)
THEOREM TypesHold == Spec => []TypeOK
<1>1. WriterTypes /\ FileTypes /\ QueueTypes => TypeOK
  <2> SUFFICES ASSUME WriterTypes, FileTypes, QueueTypes PROVE TypeOK
    OBVIOUS
  <2>1. m_count \in 0 .. Cardinality(Writers) * MaxLines
    BY CountedBounded DEF FileTypes, Total
  <2>2. buffered \subseteq {m_fp} \X ToSet(files[m_fp])
    BY DEF FileTypes, ToSet
  <2>3. m_is_async \in BOOLEAN
    BY DEF WriterTypes
  <2> QED  BY <2>1, <2>2, <2>3 DEF TypeOK, WriterTypes, FileTypes, QueueTypes, Places
<1> QED  BY <1>1, TypesInductive, PTL

-----------------------------------------------------------------------------
(* Where a line is.  A line is known by its writer and its number, its key.  *)
(* The keys in the files, in the queue, in the hand of the flush thread and  *)
(* of the refused lines are disjoint, each place holds a key once, and       *)
(* together they are the keys of the lines that were logged.                 *)

AllKeys == Writers \X (1 .. MaxLines)
Key(l)  == <<l.by, l.n>>

FileKeys    == {k \in AllKeys : \E f \in Files : \E i \in DOMAIN files[f] : Key(files[f][i]) = k}
QueueKeys   == {k \in AllKeys : \E i \in DOMAIN queue : Key(queue[i]) = k}
HandKeys    == {k \in AllKeys : fpc = "write" /\ Key(got[Flusher]) = k}
RefusedKeys == {k \in AllKeys : \E l \in refused : Key(l) = k}
LoggedKeys  == {k \in AllKeys : \/ k[2] < done[k[1]]
                                \/ k[2] = done[k[1]] /\ pc[k[1]] \in {"idle", "flush"}}

FilesDistinct ==
  \A f, g \in Files : \A i \in DOMAIN files[f], j \in DOMAIN files[g] :
    Key(files[f][i]) = Key(files[g][j]) => f = g /\ i = j
QueueDistinct   == \A i, j \in DOMAIN queue : Key(queue[i]) = Key(queue[j]) => i = j
RefusedDistinct == \A l, m \in refused : Key(l) = Key(m) => l = m

Apart ==
  /\ FileKeys \cap QueueKeys = {} /\ FileKeys \cap HandKeys = {}
  /\ FileKeys \cap RefusedKeys = {} /\ QueueKeys \cap HandKeys = {}
  /\ QueueKeys \cap RefusedKeys = {} /\ HandKeys \cap RefusedKeys = {}

Once ==
  /\ FilesDistinct /\ QueueDistinct /\ RefusedDistinct /\ Apart
  /\ LoggedKeys = FileKeys \cup QueueKeys \cup HandKeys \cup RefusedKeys
  /\ refused # {} => m_is_async

LEMMA KeyType == ASSUME NEW l \in Lines PROVE Key(l) \in AllKeys
BY DEF Lines, Key, AllKeys

LEMMA InitOnce == Init => Once
<1> SUFFICES ASSUME Init PROVE Once
  OBVIOUS
<1>1. FileKeys = {} /\ FilesDistinct
  BY DEF Init, FileKeys, FilesDistinct
<1>2. QueueKeys = {} /\ QueueDistinct
  BY DEF Init, QueueKeys, QueueDistinct, m_log_queue!FifoInit
<1>3. HandKeys = {} /\ RefusedKeys = {} /\ RefusedDistinct /\ refused = {}
  BY DEF Init, HandKeys, RefusedKeys, RefusedDistinct
<1>4. LoggedKeys = {}
  BY Bounds DEF Init, LoggedKeys, AllKeys
<1> QED  BY <1>1, <1>2, <1>3, <1>4 DEF Once, Apart

(* A line goes to the open file. *)
LEMMA PutKey ==
  ASSUME FileTypes, FilesDistinct, NEW l \in Lines, fputs(l), Key(l) \notin FileKeys
  PROVE  FilesDistinct' /\ FileKeys' = FileKeys \cup {Key(l)}
<1> DEFINE s == files[m_fp]
           t == Append(s, l)
<1>1. files \in [Files -> Seq(Lines)] /\ m_fp \in Files
  BY DEF FileTypes
<1>2. files'[m_fp] = t /\ \A g \in Files \ {m_fp} : files'[g] = files[g]
  BY <1>1 DEF fputs
<1>3. /\ DOMAIN t = DOMAIN s \cup {Len(s) + 1} /\ Len(s) + 1 \notin DOMAIN s
      /\ t[Len(s) + 1] = l /\ \A i \in DOMAIN s : t[i] = s[i]
  BY <1>1
<1>4. \A g \in Files : \A i \in DOMAIN files[g] : Key(files[g][i]) \in FileKeys
  BY <1>1, KeyType DEF FileKeys
<1>5. ASSUME NEW g \in Files, NEW i \in DOMAIN files'[g]
      PROVE  \/ g = m_fp /\ i = Len(s) + 1 /\ files'[g][i] = l
             \/ i \in DOMAIN files[g] /\ files'[g][i] = files[g][i]
  <2> HIDE DEF t
  <2>1. CASE g = m_fp
    BY <1>2, <1>3, <2>1
  <2>2. CASE g # m_fp
    BY <1>2, <2>2
  <2> QED  BY <2>1, <2>2
<1> HIDE DEF s
<1>6. FilesDistinct'
  <2> SUFFICES ASSUME NEW f \in Files, NEW g \in Files,
                      NEW i \in DOMAIN files'[f], NEW j \in DOMAIN files'[g],
                      Key(files'[f][i]) = Key(files'[g][j])
               PROVE  f = g /\ i = j
    BY DEF FilesDistinct
  <2>1. CASE i \in DOMAIN files[f] /\ files'[f][i] = files[f][i]
    <3>1. Key(files'[g][j]) \in FileKeys
      BY <1>4, <2>1
    <3> QED  BY <1>5, <2>1, <3>1 DEF FilesDistinct
  <2>2. CASE f = m_fp /\ i = Len(s) + 1 /\ files'[f][i] = l
    BY <1>4, <1>5, <2>2
  <2> QED  BY <1>5, <2>1, <2>2
<1>7. FileKeys' \subseteq FileKeys \cup {Key(l)}
  BY <1>4, <1>5 DEF FileKeys
<1>8. FileKeys \subseteq FileKeys'
  <2> SUFFICES ASSUME NEW g \in Files, NEW i \in DOMAIN files[g]
               PROVE  i \in DOMAIN files'[g] /\ files'[g][i] = files[g][i]
    BY DEF FileKeys
  <2>1. CASE g = m_fp
    BY <1>2, <1>3, <2>1 DEF s
  <2>2. CASE g # m_fp
    BY <1>2, <2>2
  <2> QED  BY <2>1, <2>2
<1>9. Key(l) \in FileKeys'
  BY <1>1, <1>2, <1>3, KeyType DEF FileKeys
<1> QED  BY <1>6, <1>7, <1>8, <1>9

(* A line is handed over: put in the queue, refused or written. *)
LEMMA LoggedMore ==
  ASSUME WriterTypes, NEW w \in Writers, pc[w] \in {"push", "sync"},
         pc' = [pc EXCEPT ![w] = "flush"], done' = done
  PROVE  /\ line[w] \in Lines /\ Key(line[w]) \notin LoggedKeys
         /\ LoggedKeys' = LoggedKeys \cup {Key(line[w])}
<1>1. /\ line[w] \in Lines /\ Key(line[w]) = <<w, done[w]>> /\ Key(line[w]) \in AllKeys
      /\ pc \in [Writers -> Places] /\ done \in [Writers -> 0 .. MaxLines]
  BY KeyType DEF WriterTypes, Key
<1>2. Key(line[w]) \notin LoggedKeys
  BY <1>1 DEF LoggedKeys
<1>3. ASSUME NEW k \in AllKeys PROVE k \in LoggedKeys' <=> k \in LoggedKeys \/ k = <<w, done[w]>>
  <2>1. PICK v \in Writers, n \in 1 .. MaxLines : k = <<v, n>>
    BY DEF AllKeys
  <2>2. CASE v = w
    BY <1>1, <2>1, <2>2 DEF LoggedKeys
  <2>3. CASE v # w
    BY <1>1, <2>1, <2>3 DEF LoggedKeys
  <2> QED  BY <2>2, <2>3
<1>4. LoggedKeys \subseteq AllKeys /\ LoggedKeys' \subseteq AllKeys
  BY DEF LoggedKeys
<1> QED  BY <1>1, <1>2, <1>3, <1>4

LEMMA LoggedKept ==
  ASSUME WriterTypes, done' = done,
         \/ pc' = pc
         \/ \E w \in Writers, p \in Places :
              /\ pc' = [pc EXCEPT ![w] = p]
              /\ pc[w] \in {"idle", "flush"} <=> p \in {"idle", "flush"}
  PROVE  LoggedKeys' = LoggedKeys
BY DEF WriterTypes, LoggedKeys, AllKeys

LEMMA LoggedSample ==
  ASSUME WriterTypes, NEW w \in Writers, Sample(w)
  PROVE  LoggedKeys' = LoggedKeys
<1>1. /\ done \in [Writers -> 0 .. MaxLines] /\ pc \in [Writers -> Places] /\ pc[w] = "idle"
      /\ done' = [done EXCEPT ![w] = @ + 1] /\ pc' = [pc EXCEPT ![w] = "sampled"]
  BY DEF Sample, WriterTypes
<1>2. ASSUME NEW k \in AllKeys PROVE k \in LoggedKeys' <=> k \in LoggedKeys
  <2>1. PICK v \in Writers, n \in 1 .. MaxLines : k = <<v, n>>
    BY DEF AllKeys
  <2>2. CASE v = w
    <3>1. done'[w] = done[w] + 1 /\ pc'[w] = "sampled" /\ done[w] \in 0 .. MaxLines
      BY <1>1
    <3>2. k \in LoggedKeys' <=> n < done[w] + 1
      BY <2>1, <2>2, <3>1 DEF LoggedKeys
    <3>3. k \in LoggedKeys <=> n < done[w] \/ n = done[w]
      BY <1>1, <2>1, <2>2 DEF LoggedKeys
    <3> QED  BY <3>1, <3>2, <3>3, Bounds
  <2>3. CASE v # w
    BY <1>1, <2>1, <2>3 DEF LoggedKeys
  <2> QED  BY <2>2, <2>3
<1>3. LoggedKeys \subseteq AllKeys /\ LoggedKeys' \subseteq AllKeys
  BY DEF LoggedKeys
<1> QED  BY <1>2, <1>3

(* No line is handed over. *)
LEMMA OnceKept ==
  ASSUME Once, LoggedKeys' = LoggedKeys, UNCHANGED <<files, queue, got, refused, fpc, m_is_async>>
  PROVE  Once'
<1>1. UNCHANGED <<FileKeys, QueueKeys, HandKeys, RefusedKeys>>
  BY DEF FileKeys, QueueKeys, HandKeys, RefusedKeys
<1>2. FilesDistinct' /\ QueueDistinct' /\ RefusedDistinct' /\ (refused' # {} => m_is_async')
  BY DEF Once, FilesDistinct, QueueDistinct, RefusedDistinct
<1>3. Apart' /\ (LoggedKeys = FileKeys \cup QueueKeys \cup HandKeys \cup RefusedKeys)'
  BY <1>1 DEF Once, Apart
<1> QED  BY <1>2, <1>3 DEF Once

LEMMA NextOnce == Once /\ WriterTypes /\ FileTypes /\ QueueTypes /\ [Next]_vars => Once'
<1> SUFFICES ASSUME Once, WriterTypes, FileTypes, QueueTypes, [Next]_vars PROVE Once'
  OBVIOUS
<1>0. FilesDistinct /\ QueueDistinct /\ RefusedDistinct /\ (refused # {} => m_is_async)
  BY DEF Once
<1>1. CASE NextDay \/ UNCHANGED vars
  BY <1>1, LoggedKept, OnceKept DEF NextDay, fileVars, writerVars, queueVars, vars
<1>2. ASSUME NEW w \in Writers, Sample(w) PROVE Once'
  BY <1>2, LoggedSample, OnceKept DEF Sample, fileVars, queueVars
<1>3. ASSUME NEW w \in Writers, CountLine(w) \/ FormatAndChoose(w) \/ Flush(w) PROVE Once'
  <2>1. UNCHANGED <<files, queue, got, refused, fpc, m_is_async, done>>
    BY <1>3 DEF CountLine, fopen, FormatAndChoose, Flush, fileVars, queueVars
  <2>2. PICK p \in Places : /\ pc' = [pc EXCEPT ![w] = p]
                            /\ pc[w] \in {"idle", "flush"} <=> p \in {"idle", "flush"}
    BY <1>3 DEF CountLine, FormatAndChoose, Flush, Places
  <2>3. \E v \in Writers, q \in Places :
          /\ pc' = [pc EXCEPT ![v] = q]
          /\ pc[v] \in {"idle", "flush"} <=> q \in {"idle", "flush"}
    BY <2>2, Zenon
  <2>4. LoggedKeys' = LoggedKeys
    BY <2>1, <2>3, LoggedKept
  <2> QED  BY <2>1, <2>4, OnceKept
<1>4. ASSUME NEW w \in Writers, PushLine(w) PROVE Once'
  <2> DEFINE k == Key(line[w])
  <2>1. /\ pc[w] = "push" /\ m_is_async /\ pc' = [pc EXCEPT ![w] = "flush"]
        /\ UNCHANGED <<done, files, fpc, m_is_async, got>>
    BY <1>4 DEF PushLine, WriterTypes, fileVars, m_log_queue!Put, queueVars
  <2>2. line[w] \in Lines /\ k \notin LoggedKeys /\ LoggedKeys' = LoggedKeys \cup {k}
    BY <2>1, LoggedMore
  <2>3. k \in AllKeys
    BY <2>2, KeyType
  <2>4. FilesDistinct' /\ UNCHANGED <<FileKeys, HandKeys>>
    BY <1>0, <2>1 DEF FilesDistinct, FileKeys, HandKeys
  <2>5. CASE m_log_queue!Put(line[w]) /\ UNCHANGED refused
    <3>1. queue \in Seq(Lines) /\ queue' = Append(queue, line[w])
      BY <2>5 DEF m_log_queue!Put, QueueTypes
    <3>2. /\ DOMAIN queue' = DOMAIN queue \cup {Len(queue) + 1} /\ Len(queue) + 1 \notin DOMAIN queue
          /\ queue'[Len(queue) + 1] = line[w] /\ \A i \in DOMAIN queue : queue'[i] = queue[i]
      BY <2>2, <3>1
    <3>3. \A i \in DOMAIN queue : Key(queue[i]) \in QueueKeys
      BY <3>1, KeyType DEF QueueKeys
    <3>4. k \notin QueueKeys
      BY <2>2 DEF Once
    <3>5. QueueKeys' = QueueKeys \cup {k}
      BY <2>3, <3>2 DEF QueueKeys
    <3>6. QueueDistinct'
      BY <1>0, <3>2, <3>3, <3>4 DEF QueueDistinct
    <3>7. RefusedDistinct' /\ RefusedKeys' = RefusedKeys /\ (refused' # {} => m_is_async')
      BY <1>0, <2>1, <2>5 DEF RefusedDistinct, RefusedKeys
    <3>8. Apart' /\ (LoggedKeys = FileKeys \cup QueueKeys \cup HandKeys \cup RefusedKeys)'
      BY <2>2, <2>4, <3>5, <3>7 DEF Once, Apart
    <3> QED  BY <2>4, <3>6, <3>7, <3>8 DEF Once
  <2>6. CASE refused' = refused \cup {line[w]} /\ UNCHANGED queueVars
    <3>1. QueueDistinct' /\ QueueKeys' = QueueKeys
      BY <1>0, <2>6 DEF QueueDistinct, QueueKeys, queueVars
    <3>2. \A l \in refused : Key(l) \in RefusedKeys
      BY KeyType DEF RefusedKeys, QueueTypes
    <3>3. k \notin RefusedKeys
      BY <2>2 DEF Once
    <3>4. RefusedKeys' = RefusedKeys \cup {k}
      BY <2>3, <2>6 DEF RefusedKeys
    <3>5. RefusedDistinct'
      BY <1>0, <2>6, <3>2, <3>3 DEF RefusedDistinct
    <3>6. Apart' /\ (LoggedKeys = FileKeys \cup QueueKeys \cup HandKeys \cup RefusedKeys)'
      BY <2>2, <2>4, <3>1, <3>4 DEF Once, Apart
    <3> QED  BY <2>1, <2>4, <3>1, <3>5, <3>6 DEF Once
  <2> QED  BY <1>4, <2>5, <2>6 DEF PushLine
<1>5. ASSUME NEW w \in Writers, WriteLine(w) PROVE Once'
  <2> DEFINE k == Key(line[w])
  <2>1. /\ pc[w] = "sync" /\ pc' = [pc EXCEPT ![w] = "flush"] /\ fputs(line[w])
        /\ UNCHANGED <<done, queue, got, refused, fpc, m_is_async>>
    BY <1>5 DEF WriteLine, queueVars
  <2>2. line[w] \in Lines /\ k \notin LoggedKeys /\ LoggedKeys' = LoggedKeys \cup {k}
    BY <2>1, LoggedMore
  <2>3. FilesDistinct' /\ FileKeys' = FileKeys \cup {k}
    <3>1. k \notin FileKeys
      BY <2>2 DEF Once
    <3> QED  BY <1>0, <2>1, <2>2, <3>1, PutKey
  <2>4. UNCHANGED <<QueueKeys, HandKeys, RefusedKeys>>
    BY <2>1 DEF QueueKeys, HandKeys, RefusedKeys
  <2>5. QueueDistinct' /\ RefusedDistinct' /\ (refused' # {} => m_is_async')
    BY <1>0, <2>1 DEF QueueDistinct, RefusedDistinct
  <2>6. Apart' /\ (LoggedKeys = FileKeys \cup QueueKeys \cup HandKeys \cup RefusedKeys)'
    BY <2>2, <2>3, <2>4 DEF Once, Apart
  <2> QED  BY <2>3, <2>5, <2>6 DEF Once
<1>6. CASE AsyncPop
  <2> DEFINE k == Key(Head(queue))
  <2>1. /\ fpc = "pop" /\ fpc' = "write" /\ queue # <<>> /\ queue' = Tail(queue)
        /\ got' = [got EXCEPT ![Flusher] = Head(queue)]
        /\ UNCHANGED <<files, pc, done, refused, m_is_async>>
    BY <1>6 DEF AsyncPop, m_log_queue!Take, fileVars, writerVars
  <2>2. /\ 1 \in DOMAIN queue /\ Head(queue) = queue[1] /\ Head(queue) \in Lines
        /\ \A i \in DOMAIN queue' : i + 1 \in DOMAIN queue /\ i + 1 # 1 /\ queue'[i] = queue[i + 1]
        /\ \A j \in DOMAIN queue \ {1} : j - 1 \in DOMAIN queue' /\ queue'[j - 1] = queue[j]
    BY <2>1 DEF QueueTypes
  <2>3. k \in AllKeys
    BY <2>2, KeyType
  <2>4. QueueDistinct'
    <3> SUFFICES ASSUME NEW i \in DOMAIN queue', NEW j \in DOMAIN queue', Key(queue'[i]) = Key(queue'[j])
                 PROVE  i = j
      BY DEF QueueDistinct
    <3>1. i + 1 = j + 1
      BY <1>0, <2>2 DEF QueueDistinct
    <3>2. i \in Int /\ j \in Int
      BY <2>1 DEF QueueTypes
    <3> QED  BY <3>1, <3>2
  <2>5. QueueKeys = QueueKeys' \cup {k}
    BY <2>2, <2>3 DEF QueueKeys
  <2>6. k \notin QueueKeys'
    BY <1>0, <2>2 DEF QueueKeys, QueueDistinct
  <2>7. HandKeys = {}
    BY <2>1 DEF HandKeys
  <2>8. HandKeys' = {k}
    BY <2>1, <2>3 DEF HandKeys, QueueTypes
  <2>9. FilesDistinct' /\ RefusedDistinct' /\ (refused' # {} => m_is_async')
        /\ UNCHANGED <<FileKeys, RefusedKeys>>
    BY <1>0, <2>1 DEF FilesDistinct, RefusedDistinct, FileKeys, RefusedKeys
  <2>10. LoggedKeys' = LoggedKeys
    BY <2>1, LoggedKept
  <2>11. Apart' /\ (LoggedKeys = FileKeys \cup QueueKeys \cup HandKeys \cup RefusedKeys)'
    BY <2>5, <2>6, <2>7, <2>8, <2>9, <2>10 DEF Once, Apart
  <2> QED  BY <2>4, <2>9, <2>11 DEF Once
<1>7. CASE AsyncWrite
  <2> DEFINE k == Key(got[Flusher])
  <2>1. /\ fpc = "write" /\ fpc' = "pop" /\ fputs(got[Flusher]) /\ got[Flusher] \in Lines
        /\ UNCHANGED <<pc, done, queue, refused, m_is_async>>
    BY <1>7 DEF AsyncWrite, AsyncNext, writerVars, queueVars, QueueTypes
  <2>2. HandKeys = {k} /\ HandKeys' = {}
    BY <2>1, KeyType DEF HandKeys
  <2>3. FilesDistinct' /\ FileKeys' = FileKeys \cup {k}
    <3>1. k \notin FileKeys
      BY <2>2 DEF Once, Apart
    <3> QED  BY <1>0, <2>1, <3>1, PutKey
  <2>4. QueueDistinct' /\ RefusedDistinct' /\ (refused' # {} => m_is_async')
        /\ UNCHANGED <<QueueKeys, RefusedKeys>>
    BY <1>0, <2>1 DEF QueueDistinct, RefusedDistinct, QueueKeys, RefusedKeys
  <2>5. LoggedKeys' = LoggedKeys
    BY <2>1, LoggedKept
  <2>6. Apart' /\ (LoggedKeys = FileKeys \cup QueueKeys \cup HandKeys \cup RefusedKeys)'
    BY <2>2, <2>3, <2>4, <2>5 DEF Once, Apart
  <2> QED  BY <2>3, <2>4, <2>6 DEF Once
<1> QED  BY <1>1, <1>2, <1>3, <1>4, <1>5, <1>6, <1>7 DEF Next, WriterStep, Finished

LEMMA OnceInductive == Spec => [](Once /\ WriterTypes /\ FileTypes /\ QueueTypes)
BY InitOnce, NextOnce, TypesInductive, PTL DEF Spec

(* The marks a line leaves, for a line in one place or in none. *)
LEMMA NoTraces ==
  ASSUME NEW l, Written(l) = {}, Queued(l) = {}, InHand(l) = {}
  PROVE  Traces(l) = 0
BY FS_EmptySet DEF Traces

LEMMA OneTrace ==
  ASSUME NEW l, NEW x,
         \/ Written(l) = {x} /\ Queued(l) = {} /\ InHand(l) = {}
         \/ Written(l) = {} /\ Queued(l) = {x} /\ InHand(l) = {}
         \/ Written(l) = {} /\ Queued(l) = {} /\ InHand(l) = {x}
  PROVE  Traces(l) = 1
<1>1. Cardinality({}) = 0
  BY FS_EmptySet
<1>2. Cardinality({x}) = 1
  BY FS_Singleton
<1>3. CASE Written(l) = {x} /\ Queued(l) = {} /\ InHand(l) = {}
  BY <1>1, <1>2, <1>3 DEF Traces
<1>4. CASE Written(l) = {} /\ Queued(l) = {x} /\ InHand(l) = {}
  BY <1>1, <1>2, <1>4 DEF Traces
<1>5. CASE Written(l) = {} /\ Queued(l) = {} /\ InHand(l) = {x}
  BY <1>1, <1>2, <1>5 DEF Traces
<1> QED  BY <1>3, <1>4, <1>5

(* What the sets of Traces hold, in terms of the keys. *)
LEMMA TraceKeys ==
  ASSUME FileTypes, QueueTypes, NEW l \in Lines
  PROVE  /\ Written(l) # {} => Key(l) \in FileKeys
         /\ Queued(l) # {} => Key(l) \in QueueKeys
         /\ InHand(l) # {} => Key(l) \in HandKeys
<1>1. Key(l) \in AllKeys
  BY KeyType
<1>2. Written(l) # {} => Key(l) \in FileKeys
  BY <1>1 DEF Written, FileKeys
<1>3. Queued(l) # {} => Key(l) \in QueueKeys
  BY <1>1 DEF Queued, QueueKeys, QueueTypes
<1>4. InHand(l) # {} => Key(l) \in HandKeys
  BY <1>1 DEF InHand, HandKeys
<1> QED  BY <1>2, <1>3, <1>4

(* A logged line that was not refused is in one place. *)
LEMMA OnePlace ==
  ASSUME Once, WriterTypes, FileTypes, QueueTypes, NEW k \in LoggedKeys \ RefusedKeys
  PROVE  \E l \in Lines : /\ Key(l) = k /\ Traces(l) = 1
                          /\ \A m \in Lines : Key(m) = k /\ m # l => Traces(m) = 0
<1>1. k \in FileKeys \cup QueueKeys \cup HandKeys /\ Apart
  BY DEF Once
<1>2. \A m \in Lines : Key(m) = k =>
        /\ k \notin FileKeys => Written(m) = {}
        /\ k \notin QueueKeys => Queued(m) = {}
        /\ k \notin HandKeys => InHand(m) = {}
  BY TraceKeys
<1>3. CASE k \in FileKeys
  <2>1. k \notin QueueKeys /\ k \notin HandKeys
    BY <1>1, <1>3 DEF Apart
  <2>0. PICK f \in Files : \E i \in DOMAIN files[f] : Key(files[f][i]) = k
    BY <1>3 DEF FileKeys
  <2>2. PICK i \in DOMAIN files[f] : Key(files[f][i]) = k
    BY <2>0
  <2>3. PICK l \in Lines : l = files[f][i]
    BY DEF FileTypes
  <2>4. \A g \in Files : \A j \in DOMAIN files[g] : Key(files[g][j]) = k => g = f /\ j = i
    BY <2>2 DEF Once, FilesDistinct
  <2>5. Written(l) = {<<f, i>>}
    BY <2>2, <2>3, <2>4 DEF Written
  <2>6. \A m \in Lines : Key(m) = k /\ m # l => Written(m) = {}
    BY <2>3, <2>4 DEF Written
  <2>7. Key(l) = k
    BY <2>2, <2>3
  <2>8. Traces(l) = 1
    BY <1>2, <2>1, <2>3, <2>5, <2>7, OneTrace
  <2>9. \A m \in Lines : Key(m) = k /\ m # l => Traces(m) = 0
    BY <1>2, <2>1, <2>6, NoTraces
  <2> QED  BY <2>3, <2>7, <2>8, <2>9
<1>4. CASE k \in QueueKeys
  <2>1. k \notin FileKeys /\ k \notin HandKeys
    BY <1>1, <1>4 DEF Apart
  <2>2. PICK i \in DOMAIN queue : Key(queue[i]) = k
    BY <1>4 DEF QueueKeys
  <2>3. PICK l \in Lines : l = queue[i] /\ DOMAIN queue = 1 .. Len(queue)
    BY DEF QueueTypes
  <2>4. \A j \in DOMAIN queue : Key(queue[j]) = k => j = i
    BY <2>2 DEF Once, QueueDistinct
  <2>5. Queued(l) = {i}
    BY <2>2, <2>3, <2>4 DEF Queued
  <2>6. \A m \in Lines : Key(m) = k /\ m # l => Queued(m) = {}
    BY <2>3, <2>4 DEF Queued
  <2>7. Key(l) = k
    BY <2>2, <2>3
  <2>8. Traces(l) = 1
    BY <1>2, <2>1, <2>3, <2>5, <2>7, OneTrace
  <2>9. \A m \in Lines : Key(m) = k /\ m # l => Traces(m) = 0
    BY <1>2, <2>1, <2>6, NoTraces
  <2> QED  BY <2>3, <2>7, <2>8, <2>9
<1>5. CASE k \in HandKeys
  <2>1. k \notin FileKeys /\ k \notin QueueKeys
    BY <1>1, <1>5 DEF Apart
  <2> DEFINE l == got[Flusher]
  <2>2. fpc = "write" /\ Key(l) = k
    BY <1>5 DEF HandKeys
  <2>3. l \in Lines
    BY <2>2 DEF QueueTypes
  <2>4. InHand(l) = {Flusher} /\ \A m \in Lines : Key(m) = k /\ m # l => InHand(m) = {}
    BY <2>2 DEF InHand
  <2> HIDE DEF l
  <2>5. Traces(l) = 1
    BY <1>2, <2>1, <2>2, <2>3, <2>4, OneTrace
  <2>6. \A m \in Lines : Key(m) = k /\ m # l => Traces(m) = 0
    BY <1>2, <2>1, <2>4, NoTraces
  <2> QED  BY <2>2, <2>3, <2>5, <2>6
<1> QED  BY <1>1, <1>3, <1>4, <1>5

(* A refused line is nowhere. *)
LEMMA NoPlace ==
  ASSUME Once, FileTypes, QueueTypes, NEW l \in Lines, Key(l) \in RefusedKeys
  PROVE  Traces(l) = 0
<1>1. Key(l) \notin FileKeys /\ Key(l) \notin QueueKeys /\ Key(l) \notin HandKeys
  BY DEF Once, Apart
<1> QED  BY <1>1, TraceKeys, NoTraces

(* Who comes to a full queue was overtaken after full(). *)
Late == \A w \in Writers : pc[w] = "push" =>
          QueueSize > 0 /\ (Len(queue) >= QueueSize => queue[Len(queue)].by # w)

LEMMA LateKept ==
  ASSUME Late, UNCHANGED queue, \A w \in Writers : pc'[w] = "push" => pc[w] = "push"
  PROVE  Late'
BY DEF Late

LEMMA NextLate == Late /\ WriterTypes /\ QueueTypes /\ [Next]_vars => Late'
<1> SUFFICES ASSUME Late, WriterTypes, QueueTypes, [Next]_vars PROVE Late'
  OBVIOUS
<1>0. /\ pc \in [Writers -> Places] /\ queue \in Seq(Lines)
      /\ Len(queue) \in Nat /\ QueueSize \in Nat /\ Len(queue) <= QueueSize
  BY Bounds, LenProperties DEF WriterTypes, QueueTypes
<1>1. ASSUME NEW w \in Writers, FormatAndChoose(w) PROVE Late'
  <2>1. queue' = queue /\ \A v \in Writers \ {w} : pc'[v] = pc[v]
    BY <1>0, <1>1 DEF FormatAndChoose, queueVars
  <2>2. pc'[w] = "push" => Len(queue) < QueueSize
    BY <1>0, <1>1 DEF FormatAndChoose, NotFull
  <2> QED  BY <1>0, <2>1, <2>2 DEF Late
<1>2. ASSUME NEW w \in Writers, PushLine(w) PROVE Late'
  <2>1. /\ \A v \in Writers : pc'[v] = "push" => v # w /\ pc[v] = "push"
        /\ line[w] \in Lines /\ line[w].by = w
    BY <1>0, <1>2 DEF PushLine, WriterTypes
  <2>2. CASE UNCHANGED queueVars
    BY <2>1, <2>2, LateKept DEF queueVars
  <2>3. CASE m_log_queue!Put(line[w])
    <3>1. queue' = Append(queue, line[w]) /\ Len(queue') = Len(queue) + 1
          /\ queue'[Len(queue')] = line[w]
      BY <1>0, <2>1, <2>3, AppendProperties DEF m_log_queue!Put
    <3> QED  BY <2>1, <3>1 DEF Late
  <2> QED  BY <1>2, <2>2, <2>3 DEF PushLine
<1>3. CASE AsyncPop
  <2>1. queue # <<>> /\ queue' = Tail(queue) /\ pc' = pc
    BY <1>3 DEF AsyncPop, m_log_queue!Take, writerVars
  <2>2. Len(queue') < QueueSize /\ Len(queue') \in Nat
    BY <1>0, <2>1, EmptySeq, HeadTailProperties
  <2> QED  BY <1>0, <2>1, <2>2 DEF Late
<1>4. ASSUME NEW w \in Writers, Sample(w) \/ CountLine(w) \/ WriteLine(w) \/ Flush(w) PROVE Late'
  <2>1. UNCHANGED queue /\ \A v \in Writers : pc'[v] = "push" => pc[v] = "push"
    BY <1>0, <1>4 DEF Sample, CountLine, WriteLine, Flush, queueVars
  <2> QED  BY <2>1, LateKept
<1>5. CASE NextDay \/ AsyncWrite \/ UNCHANGED vars
  BY <1>5, LateKept DEF NextDay, AsyncWrite, vars, queueVars, writerVars
<1> QED  BY <1>1, <1>2, <1>3, <1>4, <1>5 DEF Next, WriterStep, Finished

LEMMA LateInductive == Spec => []Late
<1>1. Init => Late
  BY DEF Init, Late
<1> QED  BY <1>1, NextLate, TypesInductive, PTL DEF Spec

(* A logged line is in a file, in the queue or in the hand of the flush
   thread, in one place and there once; the one exception is a line whose
   push an asynchronous log's queue refused, which is nowhere, and a push is
   refused only to a writer another one has overtaken.  For any number of
   writers, lines and days, any queue size and any m_split_lines. *)
THEOREM LoggedOnceHolds == Spec => []LoggedOnce
<1>1. ASSUME Once, WriterTypes, FileTypes, QueueTypes,
             NEW w \in Writers, NEW n \in 1 .. done[w], Logged(w, n)
      PROVE  \/ Kept(w, n)
             \/ Lost(w, n) /\ m_is_async /\ Mine(w, n) \cap refused # {}
  <2> USE <1>1
  <2>1. done[w] \in 0 .. MaxLines
    BY DEF WriterTypes
  <2>2. n \in 1 .. MaxLines /\ (n < done[w] \/ n = done[w])
    BY <2>1, Bounds
  <2>3. <<w, n>> \in LoggedKeys
    BY <2>2 DEF Logged, LoggedKeys, AllKeys
  <2>4. \A l \in Lines : Key(l) = <<w, n>> <=> l \in Mine(w, n)
    BY DEF Key, Mine
  <2>5. Mine(w, n) \subseteq Lines
    BY DEF Mine
  <2>6. CASE <<w, n>> \notin RefusedKeys
    <3>1. PICK l \in Lines : /\ Key(l) = <<w, n>> /\ Traces(l) = 1
                             /\ \A m \in Lines : Key(m) = <<w, n>> /\ m # l => Traces(m) = 0
      BY <2>3, <2>6, OnePlace
    <3> QED  BY <2>4, <2>5, <3>1 DEF Kept
  <2>7. CASE <<w, n>> \in RefusedKeys
    <3>1. PICK l \in refused : Key(l) = <<w, n>>
      BY <2>7 DEF RefusedKeys
    <3>2. l \in Mine(w, n) /\ m_is_async
      BY <2>4, <3>1 DEF QueueTypes, Once
    <3>3. Lost(w, n)
      BY <2>4, <2>5, <2>7, NoPlace DEF Lost
    <3> QED  BY <3>1, <3>2, <3>3
  <2> QED  BY <2>6, <2>7
<1>2. ASSUME Late, QueueTypes, NEW w \in Writers, pc[w] = "push", Len(queue) >= QueueSize
      PROVE  Overtaken(w)
  <2>1. QueueSize > 0 /\ queue[Len(queue)].by # w
    BY <1>2 DEF Late
  <2>2. queue # <<>>
    <3> SUFFICES ASSUME queue = <<>> PROVE FALSE
      OBVIOUS
    <3>1. Len(queue) = 0
      BY EmptySeq
    <3> QED  BY <1>2, <2>1, <3>1, Bounds
  <2> QED  BY <2>1, <2>2 DEF Overtaken
<1>3. Once /\ WriterTypes /\ FileTypes /\ QueueTypes /\ Late => LoggedOnce
  BY <1>1, <1>2 DEF LoggedOnce
<1> QED  BY <1>3, OnceInductive, LateInductive, PTL
=============================================================================
