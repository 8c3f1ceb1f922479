--------------------------- MODULE BlockQueueProofs ---------------------------
(***************************************************************************)
(* Proofs about block_queue for every capacity, item set and thread set:   *)
(* the type invariant, the index invariant RingInv, the absence of lost    *)
(* wake-ups, and that the circular array implements the bounded FIFO.      *)
(*                                                                         *)
(* RingInv is inductive together with TypeOK.  It is what ties the slot    *)
(* push writes (after m_back) to the slots pop has still to read (after    *)
(* m_front), so the refinement rests on it.                                *)
(***************************************************************************)
EXTENDS BlockQueue, SequenceTheorems, TLAPS

(* A remainder below the modulus, and one wrap above it. *)
LEMMA ModSmall ==
  ASSUME NEW n \in Nat \ {0}, NEW a \in 0 .. (n - 1)
  PROVE  a % n = a
BY Z3

LEMMA ModWraps ==
  ASSUME NEW n \in Nat \ {0}, NEW a \in n .. (2 * n - 1)
  PROVE  a % n = a - n
BY Z3

(* The remainder block_queue.h computes for the next slot is a slot. *)
LEMMA ModIsSlot ==
  ASSUME NEW a \in -1 .. (2 * MaxSize - 1)
  PROVE  a % MaxSize \in Slots
BY MaxSizeAssumption, Z3 DEF Slots

(* Stepping an index and then adding an offset is adding one more. *)
LEMMA StepThenOffset ==
  ASSUME NEW f \in -1 .. (MaxSize - 1), NEW k \in 0 .. (MaxSize - 1)
  PROVE  /\ (((f + 1) % MaxSize) + k) % MaxSize = (f + k + 1) % MaxSize
         /\ f + k >= 0 => (((f + k) % MaxSize) + 1) % MaxSize = (f + k + 1) % MaxSize
<1>1. CASE f + k + 1 < MaxSize
  BY <1>1, MaxSizeAssumption, ModSmall, Z3
<1>2. CASE f + k + 1 = MaxSize
  BY <1>2, MaxSizeAssumption, ModSmall, ModWraps, Z3
<1>3. CASE f + k + 1 > MaxSize
  <2>1. (f + k + 1) % MaxSize = f + k + 1 - MaxSize
    BY <1>3, MaxSizeAssumption, ModWraps
  <2>2. (((f + 1) % MaxSize) + k) % MaxSize = f + k + 1 - MaxSize
    <3>1. CASE f + 1 = MaxSize
      <4>1. (f + 1) % MaxSize = 0
        BY <3>1, MaxSizeAssumption, ModWraps
      <4> QED  BY <3>1, <4>1, MaxSizeAssumption, ModSmall
    <3>2. CASE f + 1 < MaxSize
      <4>1. (f + 1) % MaxSize = f + 1
        BY <3>2, MaxSizeAssumption, ModSmall
      <4> QED  BY <2>1, <4>1, MaxSizeAssumption
    <3> QED  BY <3>1, <3>2, MaxSizeAssumption
  <2>3. (f + k) % MaxSize = f + k - MaxSize
    BY <1>3, MaxSizeAssumption, ModWraps
  <2>4. ((f + k - MaxSize) + 1) % MaxSize = f + k + 1 - MaxSize
    BY <1>3, MaxSizeAssumption, ModSmall
  <2> QED  BY <2>1, <2>2, <2>3, <2>4
<1> QED  BY <1>1, <1>2, <1>3, MaxSizeAssumption

(* The MaxSize slots that follow an index are all different. *)
LEMMA SlotsDistinct ==
  ASSUME NEW f \in -1 .. (MaxSize - 1),
         NEW i \in 1 .. MaxSize, NEW j \in 1 .. MaxSize, i < j
  PROVE  (f + i) % MaxSize # (f + j) % MaxSize
<1>1. CASE f + j < MaxSize
  BY <1>1, MaxSizeAssumption, ModSmall, Z3
<1>2. CASE f + i < MaxSize /\ f + j >= MaxSize
  BY <1>2, MaxSizeAssumption, ModSmall, ModWraps, Z3
<1>3. CASE f + i >= MaxSize
  BY <1>3, MaxSizeAssumption, ModSmall, ModWraps, Z3
<1> QED  BY <1>1, <1>2, <1>3, MaxSizeAssumption

-----------------------------------------------------------------------------
(* The strengthened invariant: types, indices and the wait set together. *)
IInv == TypeOK /\ RingInv /\ NoSleeperWhileNonEmpty

LEMMA InitIInv == Init => IInv
BY MaxSizeAssumption DEF Init, IInv, TypeOK, RingInv, NoSleeperWhileNonEmpty, Slots, Threads

(* The three actions that move an index keep RingInv. *)
LEMMA PushKeepsRing ==
  ASSUME TypeOK, RingInv, NEW x \in Items, PushOk(x)
  PROVE  RingInv'
<1>1. CASE m_size = 0
  BY <1>1 DEF PushOk, RingInv
<1>2. CASE m_size > 0
  <2>1. /\ m_front \in -1 .. (MaxSize - 1)
        /\ m_size \in 0 .. (MaxSize - 1)
        /\ m_front + m_size >= 0
    BY <1>2, MaxSizeAssumption DEF PushOk, TypeOK
  <2>2. (((m_front + m_size) % MaxSize) + 1) % MaxSize = (m_front + m_size + 1) % MaxSize
    BY <2>1, StepThenOffset
  <2>3. m_back' = (m_front + m_size + 1) % MaxSize
    BY <1>2, <2>2 DEF PushOk, RingInv
  <2>4. m_front + m_size + 1 = m_front' + m_size' /\ m_size' # 0
    BY <2>1, MaxSizeAssumption DEF PushOk
  <2> QED  BY <2>3, <2>4 DEF RingInv
<1> QED  BY <1>1, <1>2, MaxSizeAssumption DEF TypeOK

LEMMA PopKeepsRing ==
  ASSUME TypeOK, RingInv, NEW c \in Threads, PopTake(c)
  PROVE  RingInv'
<1>1. m_back' = (m_front + m_size) % MaxSize /\ m_size > 0
  BY MaxSizeAssumption DEF PopTake, RingInv, TypeOK
<1>2. CASE m_size = 1
  BY <1>1, <1>2 DEF PopTake, RingInv
<1>3. CASE m_size > 1
  <2>1. m_front \in -1 .. (MaxSize - 1) /\ m_size - 1 \in 0 .. (MaxSize - 1)
    BY <1>3, MaxSizeAssumption DEF TypeOK
  <2>2. (((m_front + 1) % MaxSize) + (m_size - 1)) % MaxSize
          = (m_front + (m_size - 1) + 1) % MaxSize
    BY <2>1, StepThenOffset
  <2>3. m_front + (m_size - 1) + 1 = m_front + m_size /\ m_size - 1 # 0
    BY <1>3, <2>1, MaxSizeAssumption DEF TypeOK
  <2> QED  BY <1>1, <2>2, <2>3 DEF PopTake, RingInv
<1> QED  BY <1>1, <1>2, <1>3 DEF TypeOK

LEMMA NextIInv == IInv /\ [Next]_vars => IInv'
<1> SUFFICES ASSUME TypeOK, RingInv, NoSleeperWhileNonEmpty, [Next]_vars
             PROVE  IInv'
  BY DEF IInv
<1> USE MaxSizeAssumption
<1>1. ASSUME NEW x \in Items, PushOk(x) PROVE IInv'
  <2>1. m_back' \in Slots
    BY <1>1, ModIsSlot DEF PushOk, TypeOK
  <2>2. TypeOK'
    BY <1>1, <2>1 DEF PushOk, Broadcast, TypeOK, Slots
  <2>3. RingInv'
    BY <1>1, PushKeepsRing
  <2>4. NoSleeperWhileNonEmpty'
    BY <1>1 DEF PushOk, Broadcast, NoSleeperWhileNonEmpty
  <2> QED  BY <2>2, <2>3, <2>4 DEF IInv
<1>2. ASSUME NEW x \in Items, PushFull(x) PROVE IInv'
  <2>1. TypeOK'
    BY <1>2 DEF PushFull, Broadcast, TypeOK, ring
  <2>2. RingInv'
    BY <1>2 DEF PushFull, RingInv, ring
  <2>3. NoSleeperWhileNonEmpty'
    BY <1>2 DEF PushFull, Broadcast, NoSleeperWhileNonEmpty
  <2> QED  BY <2>1, <2>2, <2>3 DEF IInv
<1>3. CASE clear
  BY <1>3 DEF clear, IInv, TypeOK, RingInv, NoSleeperWhileNonEmpty
<1>4. ASSUME NEW c \in Threads, PopTake(c) PROVE IInv'
  <2>1. m_front' \in Slots
    BY <1>4, ModIsSlot DEF PopTake, TypeOK
  <2>2. TypeOK'
    BY <1>4, <2>1 DEF PopTake, TypeOK, Slots
  <2>3. RingInv'
    BY <1>4, PopKeepsRing
  <2>4. NoSleeperWhileNonEmpty'
    BY <1>4 DEF PopTake, NoSleeperWhileNonEmpty, TypeOK
  <2> QED  BY <2>2, <2>3, <2>4 DEF IInv
<1>5. ASSUME NEW c \in Threads,
             \/ PopWait(c) \/ TimedGiveUp(c) \/ SpuriousWake(c)
             \/ WaitFails(c) \/ FailedReturn(c)
      PROVE  IInv'
  <2>1. UNCHANGED <<ring, item>> /\ TypeOK'
    BY <1>5 DEF PopWait, TimedGiveUp, SpuriousWake, WaitFails, FailedReturn, TypeOK, ring
  <2>2. RingInv'
    BY <2>1 DEF RingInv, ring
  <2>3. NoSleeperWhileNonEmpty'
    BY <1>5 DEF PopWait, TimedGiveUp, SpuriousWake, WaitFails, FailedReturn,
                NoSleeperWhileNonEmpty, TypeOK, ring
  <2> QED  BY <2>1, <2>2, <2>3 DEF IInv
<1>6. CASE UNCHANGED vars
  BY <1>6 DEF vars, IInv, TypeOK, RingInv, NoSleeperWhileNonEmpty
<1> QED  BY <1>1, <1>2, <1>3, <1>4, <1>5, <1>6 DEF Next

(* Every reachable state of block_queue satisfies the strengthened invariant. *)
THEOREM Inductive == Spec => []IInv
<1> QED  BY InitIInv, NextIInv, PTL DEF Spec

(* block_queue's fields keep their types and bounds: m_size never passes
   m_max_size and every index is -1 or a slot. *)
THEOREM TypeCorrect == Spec => []TypeOK
<1>1. IInv => TypeOK  BY DEF IInv
<1> QED  BY <1>1, Inductive, PTL

(* m_front, m_back and m_size agree after every push, pop and clear. *)
THEOREM RingCorrect == Spec => []RingInv
<1>1. IInv => RingInv  BY DEF IInv
<1> QED  BY <1>1, Inductive, PTL

(* No thread sleeps in pop while the queue holds an item. *)
THEOREM NoLostWakeup == Spec => []NoSleeperWhileNonEmpty
<1>1. IInv => NoSleeperWhileNonEmpty  BY DEF IInv
<1> QED  BY <1>1, Inductive, PTL

-----------------------------------------------------------------------------
(* The refinement.  Cells is what a slot may hold. *)
Cells == Items \cup {Blank}

(* Contents is a sequence of m_size cells, read off the slots. *)
SeqView ==
  /\ Contents \in Seq(Cells)
  /\ Len(Contents) = m_size
  /\ \A i \in 1 .. m_size : Contents[i] = m_array[(m_front + i) % MaxSize]

LEMMA ContentsIsSeq == TypeOK => SeqView
<1> SUFFICES ASSUME TypeOK PROVE SeqView
  OBVIOUS
<1>1. m_size \in Nat
  BY MaxSizeAssumption DEF TypeOK
<1>2. ASSUME NEW i \in 1 .. m_size PROVE m_array[(m_front + i) % MaxSize] \in Cells
  <2>1. m_front + i \in -1 .. (2 * MaxSize - 1)
    BY <1>2, MaxSizeAssumption DEF TypeOK
  <2>2. (m_front + i) % MaxSize \in Slots
    BY <2>1, ModIsSlot
  <2> QED  BY <2>2 DEF TypeOK, Cells
<1>3. Contents \in [1 .. m_size -> Cells]
  BY <1>2 DEF Contents
<1>4. Contents \in Seq(Cells)
  BY <1>1, <1>3, SeqDef
<1>5. Len(Contents) = m_size
  BY <1>1, <1>3, <1>4, LenProperties DEF Contents
<1> QED  BY <1>4, <1>5 DEF Contents, SeqView

LEMMA ContentsIsSeqNext == TypeOK' => SeqView'
BY ContentsIsSeq, PTL

(* back() answers with the item pushed last, for every capacity. *)
THEOREM BackCorrect == Spec => []BackIsNewest
<1>1. IInv => BackIsNewest
  <2> SUFFICES ASSUME IInv, m_size > 0 PROVE back = {Contents[m_size]}
    BY DEF BackIsNewest
  <2>1. m_back = (m_front + m_size) % MaxSize /\ m_size \in 1 .. m_size
    BY MaxSizeAssumption DEF IInv, RingInv, TypeOK
  <2>2. m_front + m_size \in -1 .. (2 * MaxSize - 1)
    BY MaxSizeAssumption DEF IInv, TypeOK
  <2>3. m_back \in Slots
    BY <2>1, <2>2, ModIsSlot
  <2>4. Contents[m_size] = m_array[m_back]
    BY <2>1, ContentsIsSeq DEF IInv, SeqView
  <2> QED  BY <2>3, <2>4 DEF back
<1> QED  BY <1>1, Inductive, PTL

(* A push on a queue with room writes a slot no queued item occupies. *)
LEMMA PushIsPut ==
  ASSUME IInv, IInv', NEW x \in Items, PushOk(x)
  PROVE  Fifo!Put(x)
<1> USE MaxSizeAssumption
<1> DEFINE s == Contents
           t == Append(s, x)
<1>1. /\ s \in Seq(Cells) /\ Len(s) = m_size
      /\ \A i \in 1 .. m_size : s[i] = m_array[(m_front + i) % MaxSize]
  BY ContentsIsSeq DEF IInv, SeqView
<1>2. /\ s' \in Seq(Cells) /\ Len(s') = m_size'
      /\ \A i \in 1 .. m_size' : s'[i] = m_array'[(m_front' + i) % MaxSize]
  BY ContentsIsSeqNext DEF IInv, SeqView
<1>3. /\ m_front' = m_front /\ m_size' = m_size + 1
      /\ m_front \in -1 .. (MaxSize - 1) /\ m_size \in 0 .. (MaxSize - 1)
  BY DEF PushOk, IInv, TypeOK
<1>4. m_back' = (m_front + (m_size + 1)) % MaxSize
  BY <1>3 DEF IInv, RingInv
<1>5. /\ t \in Seq(Cells) /\ Len(t) = m_size + 1 /\ t[m_size + 1] = x
      /\ \A i \in 1 .. m_size : t[i] = s[i]
  BY <1>1, AppendProperties DEF Cells
<1>6. s'[m_size + 1] = x
  <2>1. m_size + 1 \in 1 .. m_size'
    BY <1>3
  <2>2. s'[m_size + 1] = m_array'[m_back']
    BY <1>2, <1>3, <1>4, <2>1
  <2>3. m_back' \in Slots
    BY <1>3, <1>4, ModIsSlot
  <2> QED  BY <2>2, <2>3 DEF PushOk, IInv, TypeOK
<1>7. ASSUME NEW i \in 1 .. m_size PROVE s'[i] = s[i]
  <2>1. i \in 1 .. MaxSize /\ m_size + 1 \in 1 .. MaxSize /\ i < m_size + 1 /\ i \in 1 .. m_size'
    BY <1>3, <1>7
  <2>2. (m_front + i) % MaxSize # m_back'
    BY <1>3, <1>4, <2>1, SlotsDistinct
  <2>3. m_front + i \in -1 .. (2 * MaxSize - 1)
    BY <1>3, <2>1
  <2>4. (m_front + i) % MaxSize \in Slots
    BY <2>3, ModIsSlot
  <2>5. m_array'[(m_front + i) % MaxSize] = m_array[(m_front + i) % MaxSize]
    BY <2>2, <2>4 DEF PushOk, IInv, TypeOK
  <2> QED  BY <1>1, <1>2, <1>3, <1>7, <2>1, <2>5
<1>8. \A i \in 1 .. Len(s') : s'[i] = t[i]
  BY <1>2, <1>3, <1>5, <1>6, <1>7
<1>9. s' = t
  <2> HIDE DEF s, t
  <2> QED  BY <1>2, <1>3, <1>5, <1>8, SeqEqual
<1> QED  BY <1>1, <1>3, <1>9 DEF Fifo!Put, PushOk

(* A pop takes the oldest queued item. *)
LEMMA PopIsTake ==
  ASSUME IInv, IInv', NEW c \in Threads, PopTake(c)
  PROVE  Fifo!Take(c)
<1> USE MaxSizeAssumption
<1> DEFINE s == Contents
           t == Tail(s)
<1>1. /\ s \in Seq(Cells) /\ Len(s) = m_size
      /\ \A i \in 1 .. m_size : s[i] = m_array[(m_front + i) % MaxSize]
  BY ContentsIsSeq DEF IInv, SeqView
<1>2. /\ s' \in Seq(Cells) /\ Len(s') = m_size'
      /\ \A i \in 1 .. m_size' : s'[i] = m_array'[(m_front' + i) % MaxSize]
  BY ContentsIsSeqNext DEF IInv, SeqView
<1>3. /\ m_front' = (m_front + 1) % MaxSize /\ m_size' = m_size - 1 /\ m_array' = m_array
      /\ m_front \in -1 .. (MaxSize - 1) /\ m_size \in 1 .. MaxSize
  BY DEF PopTake, IInv, TypeOK
<1>4. s # <<>> /\ Head(s) = s[1]
  BY <1>1, <1>3, EmptySeq
<1>5. /\ t \in Seq(Cells) /\ Len(t) = m_size - 1
      /\ \A i \in 1 .. (m_size - 1) : t[i] = s[i + 1]
  BY <1>1, <1>4, HeadTailProperties
<1>6. ASSUME NEW i \in 1 .. (m_size - 1) PROVE s'[i] = s[i + 1]
  <2>1. i \in 0 .. (MaxSize - 1) /\ i + 1 \in 1 .. m_size /\ i \in 1 .. m_size'
    BY <1>3, <1>6
  <2>2. (((m_front + 1) % MaxSize) + i) % MaxSize = (m_front + i + 1) % MaxSize
    BY <1>3, <2>1, StepThenOffset
  <2>3. m_front + i + 1 = m_front + (i + 1)
    BY <1>3, <2>1
  <2>4. s'[i] = m_array'[(m_front' + i) % MaxSize]
    BY <1>2, <2>1
  <2>5. s[i + 1] = m_array[(m_front + (i + 1)) % MaxSize]
    BY <1>1, <2>1
  <2> QED  BY <1>3, <2>2, <2>3, <2>4, <2>5
<1>7. \A i \in 1 .. Len(s') : s'[i] = t[i]
  BY <1>2, <1>3, <1>5, <1>6
<1>8. s' = t
  <2> HIDE DEF s, t
  <2> QED  BY <1>2, <1>3, <1>5, <1>7, SeqEqual
<1>9. item' = [item EXCEPT ![c] = Head(s)]
  <2>1. s[1] = m_array[m_front']
    BY <1>1, <1>3
  <2> QED  BY <1>3, <1>4, <2>1 DEF PopTake
<1> QED  BY <1>4, <1>8, <1>9 DEF Fifo!Take

(* Every execution of block_queue, projected on the queued items and on what
   the pops handed out, is an execution of the bounded FIFO. *)
THEOREM Refinement == Spec => ImplementsFifo
<1>1. Init => Fifo!FifoInit
  <2> SUFFICES ASSUME Init PROVE Fifo!FifoInit
    OBVIOUS
  <2>1. TypeOK /\ m_size = 0
    BY InitIInv DEF IInv, Init
  <2>2. Contents = <<>>
    BY <2>1, ContentsIsSeq, EmptySeq DEF SeqView
  <2> QED  BY <2>2 DEF Init, Fifo!FifoInit
<1>2. IInv /\ IInv' /\ [Next]_vars => [Fifo!FifoNext]_Fifo!fifoVars
  <2> SUFFICES ASSUME IInv, IInv', [Next]_vars
               PROVE  [Fifo!FifoNext]_Fifo!fifoVars
    OBVIOUS
  <2>1. ASSUME NEW x \in Items, PushOk(x) PROVE Fifo!FifoNext
    BY <2>1, PushIsPut DEF Fifo!FifoNext
  <2>2. ASSUME NEW c \in Threads, PopTake(c) PROVE Fifo!FifoNext
    BY <2>2, PopIsTake DEF Fifo!FifoNext
  <2>3. CASE clear
    <3>1. TypeOK' /\ m_size' = 0
      BY <2>3 DEF clear, IInv
    <3>2. Contents' = <<>>
      BY <3>1, ContentsIsSeqNext, EmptySeq DEF SeqView
    <3> QED  BY <2>3, <3>2 DEF clear, Fifo!FifoNext, Fifo!Clear
  <2>4. CASE UNCHANGED <<ring, item>>
    BY <2>4 DEF ring, Fifo!fifoVars, Contents
  <2>5. ASSUME \/ \E x \in Items : PushFull(x)
               \/ \E c \in Threads :
                    \/ PopWait(c) \/ TimedGiveUp(c) \/ SpuriousWake(c)
                    \/ WaitFails(c) \/ FailedReturn(c)
               \/ UNCHANGED vars
        PROVE UNCHANGED <<ring, item>>
    BY <2>5 DEF PushFull, PopWait, TimedGiveUp, SpuriousWake, WaitFails,
                FailedReturn, vars, ring
  <2> QED  BY <2>1, <2>2, <2>3, <2>4, <2>5 DEF Next
<1> QED  BY <1>1, <1>2, Inductive, PTL DEF Spec, ImplementsFifo, Fifo!FifoSpec

=============================================================================
