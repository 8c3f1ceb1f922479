------------------------- MODULE ConnectionPoolProofs -------------------------
(***************************************************************************)
(* Proofs about the connection pool for every number of threads and        *)
(* connections.  Types and the identity of the connections (Distinct) are  *)
(* inductive by themselves, DestroyPool included; the account of semaphore *)
(* and counters (Account) holds until DestroyPool runs.                    *)
(*                                                                         *)
(* That GetConnection never pops an empty list is not inductive: it needs  *)
(* the exact account of the semaphore, which in turn needs to know that    *)
(* the list and the semaphore start equal.  That GetConnection does not    *)
(* return NULL with enough connections needs the number of connections to  *)
(* be conserved, and that only a thread in "using" holds one.              *)
(***************************************************************************)
EXTENDS ConnectionPool, SequenceTheorems, FiniteSetTheorems, TLAPS

Places == {"out", "checked", "reserved", "using", "returned"}

-----------------------------------------------------------------------------
(* The account of the semaphore, the counters and the holders. *)
Account ==
  /\ phase # "crashed"
  /\ m_FreeConn = Len(connList)
  /\ \A t \in Threads : con[t] # NULL => pc[t] = "using"
  /\ phase = "init" =>
       /\ m_CurConn = 0
       /\ Len(connList) <= MaxConn
       /\ \A t \in Threads : pc[t] = "out" /\ con[t] = NULL
  /\ phase = "up" =>
       /\ reserve + Cardinality(At("reserved")) + Cardinality(At("returned")) = Len(connList)
       /\ m_CurConn = Cardinality(Holders)
       /\ m_MaxConn = MaxConn
       /\ Len(connList) + Cardinality(Holders) = MaxConn

(* init makes the semaphore with m_FreeConn, so the types need its value. *)
TypeInv == TypeOK /\ (phase = "init" => m_FreeConn = Len(connList))

(* The strengthened invariant. *)
PoolInv == TypeInv /\ (closed = {} => Account)

LEMMA FiniteCounts ==
  ASSUME NEW T \in SUBSET Threads
  PROVE  IsFiniteSet(T) /\ Cardinality(T) \in Nat
BY ThreadsAssumption, FS_Subset, FS_CardinalityType

LEMMA InitPoolInv == PoolInit => PoolInv
BY MaxConnAssumption, EmptySeq DEF PoolInit, PoolInv, TypeInv, Account, TypeOK

(* Every action keeps the types. *)
LEMMA NextTypeInv == TypeInv /\ [Next]_poolVars => TypeInv'
<1> SUFFICES ASSUME TypeInv, [Next]_poolVars PROVE TypeInv'
  OBVIOUS
<1> USE DEF TypeOK, TypeInv
<1>0. m_FreeConn \in Int /\ m_CurConn \in Int /\ m_MaxConn \in Int /\ Len(connList) \in Nat
  BY LenProperties
<1>1. ASSUME NEW c \in Conns, InitConnect(c) PROVE TypeInv'
  <2>1. connList' \in Seq(Conns) /\ Len(connList') = Len(connList) + 1
    BY <1>1, AppendProperties DEF InitConnect
  <2> QED  BY <1>0, <1>1, <2>1 DEF InitConnect
<1>2. CASE InitFails
  BY <1>2 DEF InitFails
<1>3. CASE InitDone
  BY <1>0, <1>3 DEF InitDone
<1>4. ASSUME NEW t \in Threads, GetNull(t) \/ GetCheck(t) \/ ReleaseNull(t) PROVE TypeInv'
  <2>1. /\ pc' \in [Threads -> {"out", "checked", "reserved", "using", "returned"}]
        /\ con' \in [Threads -> Conns \cup {NULL}]
    BY <1>4 DEF GetNull, GetCheck, ReleaseNull
  <2>2. UNCHANGED <<connList, reserve, m_FreeConn, m_CurConn, m_MaxConn, phase, closed>>
    BY <1>4 DEF GetNull, GetCheck, ReleaseNull
  <2> QED  BY <2>1, <2>2
<1>5. ASSUME NEW t \in Threads, ReserveWait(t) \/ ReservePost(t) PROVE TypeInv'
  BY <1>5 DEF ReserveWait, ReservePost, sem_wait, sem_post
<1>6. ASSUME NEW t \in Threads, TakeConn(t) PROVE TypeInv'
  <2>1. CASE connList = <<>>
    BY <1>6, <2>1 DEF TakeConn
  <2>2. CASE connList # <<>>
    <3>1. Head(connList) \in Conns /\ Tail(connList) \in Seq(Conns)
      BY <2>2, HeadTailProperties
    <3> QED  BY <1>0, <1>6, <2>2, <3>1 DEF TakeConn, pop_front
  <2> QED  BY <2>1, <2>2
<1>7. ASSUME NEW t \in Threads, ReleaseConn(t) PROVE TypeInv'
  <2>1. connList' \in Seq(Conns)
    BY <1>7, AppendProperties DEF ReleaseConn
  <2> QED  BY <1>0, <1>7, <2>1 DEF ReleaseConn
<1>8. CASE DestroyPool
  <2>1. closed' \subseteq Conns
    BY <1>8 DEF DestroyPool, ToSet
  <2> QED  BY <1>8, <2>1, EmptySeq DEF DestroyPool, clear
<1>9. CASE UNCHANGED poolVars
  BY <1>9 DEF poolVars
<1>10. CASE Ended
  BY <1>9, <1>10 DEF Ended
<1> QED
  BY <1>1, <1>2, <1>3, <1>4, <1>5, <1>6, <1>7, <1>8, <1>9, <1>10
  DEF Next, InitStep, GetStep, ReleaseStep

(* The type invariant, DestroyPool at any moment included. *)
THEOREM PoolTypes == Spec => []TypeOK
<1>1. PoolInit => TypeInv
  BY InitPoolInv DEF PoolInv
<1>2. TypeInv => TypeOK
  BY DEF TypeInv
<1> QED  BY <1>1, <1>2, NextTypeInv, PTL DEF Spec

(* A thread that starts to hold, or stops holding, a connection. *)
LEMMA HoldersGrow ==
  ASSUME NEW t \in Threads, con \in [Threads -> Conns \cup {NULL}], con[t] = NULL,
         NEW c \in Conns, con' = [con EXCEPT ![t] = c]
  PROVE  Cardinality(Holders') = Cardinality(Holders) + 1
<1>1. Holders' = Holders \cup {t} /\ t \notin Holders
  BY NullAssumption DEF Holders
<1>2. IsFiniteSet(Holders)
  BY FiniteCounts DEF Holders
<1> QED  BY <1>1, <1>2, FS_AddElement

LEMMA HoldersShrink ==
  ASSUME NEW t \in Threads, con \in [Threads -> Conns \cup {NULL}], con[t] # NULL,
         con' = [con EXCEPT ![t] = NULL]
  PROVE  Cardinality(Holders') = Cardinality(Holders) - 1
<1>1. Holders' = Holders \ {t} /\ t \in Holders
  BY DEF Holders
<1>2. IsFiniteSet(Holders)
  BY FiniteCounts DEF Holders
<1> QED  BY <1>1, <1>2, FS_RemoveElement

(* A step of one thread from place a to place b. *)
LEMMA MoveCounts ==
  ASSUME NEW t \in Threads, NEW b \in Places, pc \in [Threads -> Places], pc[t] # b,
         pc' = [pc EXCEPT ![t] = b]
  PROVE  /\ \A a \in Places :
              Cardinality(At(a)') =
                IF a = b THEN Cardinality(At(a)) + 1
                ELSE IF pc[t] = a THEN Cardinality(At(a)) - 1 ELSE Cardinality(At(a))
         /\ \A a \in Places : Cardinality(At(a)) \in Nat
<1>1. ASSUME NEW a \in Places PROVE IsFiniteSet(At(a)) /\ Cardinality(At(a)) \in Nat
  BY FiniteCounts DEF At
<1>2. At(b)' = At(b) \cup {t} /\ t \notin At(b)
  BY DEF At
<1>3. Cardinality(At(b)') = Cardinality(At(b)) + 1
  BY <1>1, <1>2, FS_AddElement
<1>4. ASSUME NEW a \in Places, a # b
      PROVE  Cardinality(At(a)') = IF pc[t] = a THEN Cardinality(At(a)) - 1
                                                ELSE Cardinality(At(a))
  <2>1. At(a)' = At(a) \ {t} /\ (t \in At(a) <=> pc[t] = a)
    BY <1>4 DEF At
  <2> QED  BY <1>1, <2>1, FS_RemoveElement
<1> QED  BY <1>1, <1>3, <1>4

(* Every action keeps the account of the semaphore, the list and the holders. *)
LEMMA NextAccount ==
  ASSUME TypeOK, Account, [Next]_poolVars, closed' = {}
  PROVE  Account'
<1> USE MaxConnAssumption, NullAssumption
<1>0. /\ connList \in Seq(Conns) /\ Len(connList) \in Nat /\ reserve \in Nat
      /\ pc \in [Threads -> Places] /\ con \in [Threads -> Conns \cup {NULL}]
      /\ Cardinality(Holders) \in Nat
  BY FiniteCounts DEF Account, TypeOK, Places, Holders
<1>1. ASSUME NEW c \in Conns, InitConnect(c) PROVE Account'
  <2>1. connList' \in Seq(Conns) /\ Len(connList') = Len(connList) + 1
    BY <1>0, <1>1, AppendProperties DEF InitConnect
  <2> QED  BY <1>0, <1>1, <2>1 DEF InitConnect, Account, TypeOK
<1>2. CASE InitFails
  BY <1>0, <1>2 DEF InitFails, Account, TypeOK
<1>3. CASE InitDone
  <2>1. At("reserved")' = {} /\ At("returned")' = {} /\ Holders' = {}
    BY <1>3 DEF InitDone, Account, At, Holders
  <2>2. /\ Cardinality(At("reserved")') = 0 /\ Cardinality(At("returned")') = 0
        /\ Cardinality(Holders') = 0
    BY <2>1, FS_EmptySet
  <2> QED  BY <1>0, <1>3, <2>2 DEF InitDone, Account, TypeOK
<1>4. ASSUME NEW t \in Threads, GetNull(t) PROVE Account'
  <2>1. con' = con /\ Holders' = Holders
    BY <1>0, <1>4 DEF GetNull, Account, Holders
  <2>2. At("reserved")' = At("reserved") /\ At("returned")' = At("returned")
    BY <1>0, <1>4 DEF GetNull, At
  <2> QED  BY <1>0, <1>4, <2>1, <2>2 DEF GetNull, Account, TypeOK, Places
<1>5. ASSUME NEW t \in Threads, GetCheck(t) PROVE Account'
  <2>1. Holders' = Holders
    BY <1>5 DEF GetCheck, Holders
  <2>2. At("reserved")' = At("reserved") /\ At("returned")' = At("returned")
    BY <1>0, <1>5 DEF GetCheck, At
  <2> QED  BY <1>0, <1>5, <2>1, <2>2 DEF GetCheck, Account, TypeOK, Places
<1>6. ASSUME NEW t \in Threads, ReserveWait(t) PROVE Account'
  <2>1. Holders' = Holders
    BY <1>6 DEF ReserveWait, Holders
  <2>2. /\ Cardinality(At("reserved")') = Cardinality(At("reserved")) + 1
        /\ Cardinality(At("returned")') = Cardinality(At("returned"))
        /\ Cardinality(At("reserved")) \in Nat /\ Cardinality(At("returned")) \in Nat
    BY <1>0, <1>6, MoveCounts DEF ReserveWait, sem_wait, Places
  <2> QED  BY <1>0, <1>6, <2>1, <2>2 DEF ReserveWait, sem_wait, Account, TypeOK, Places
<1>7. ASSUME NEW t \in Threads, TakeConn(t) PROVE Account'
  <2>1. /\ Cardinality(At("reserved")) \in Nat /\ Cardinality(At("returned")) \in Nat
        /\ Cardinality(At("reserved")) # 0
    <3>1. t \in At("reserved") /\ At("reserved") \in SUBSET Threads /\ At("returned") \in SUBSET Threads
      BY <1>7 DEF TakeConn, At
    <3> QED  BY <3>1, FiniteCounts, FS_EmptySet
  <2>2. connList # <<>>
    BY <1>0, <1>7, <2>1, EmptySeq DEF TakeConn, Account
  <2>3. /\ Head(connList) \in Conns /\ connList' \in Seq(Conns)
        /\ Len(connList') = Len(connList) - 1
    BY <1>0, <1>7, <2>2, HeadTailProperties DEF TakeConn, pop_front
  <2>4. con[t] = NULL
    BY <1>7 DEF TakeConn, Account
  <2>5. Cardinality(Holders') = Cardinality(Holders) + 1
    BY <1>0, <1>7, <2>2, <2>3, <2>4, HoldersGrow DEF TakeConn, pop_front
  <2>6. /\ Cardinality(At("reserved")') = Cardinality(At("reserved")) - 1
        /\ Cardinality(At("returned")') = Cardinality(At("returned"))
    BY <1>0, <1>7, <2>2, MoveCounts DEF TakeConn, Places
  <2>8. /\ phase = "up" /\ phase' = "up" /\ reserve' = reserve /\ m_MaxConn' = m_MaxConn
        /\ m_FreeConn' = m_FreeConn - 1 /\ m_CurConn' = m_CurConn + 1
    BY <1>7, <2>2 DEF TakeConn, pop_front
  <2>9. \A u \in Threads : con'[u] # NULL => pc'[u] = "using"
    BY <1>0, <1>7, <2>2 DEF TakeConn, Account
  <2>10. /\ m_FreeConn' = Len(connList')
         /\ reserve' + Cardinality(At("reserved")') + Cardinality(At("returned")') = Len(connList')
         /\ m_CurConn' = Cardinality(Holders') /\ m_MaxConn' = MaxConn
         /\ Len(connList') + Cardinality(Holders') = MaxConn
    <3>1. /\ m_FreeConn = Len(connList)
          /\ reserve + Cardinality(At("reserved")) + Cardinality(At("returned")) = Len(connList)
          /\ m_CurConn = Cardinality(Holders) /\ m_MaxConn = MaxConn
          /\ Len(connList) + Cardinality(Holders) = MaxConn
      BY <2>8 DEF TypeOK, Account
    <3>2. m_FreeConn' = Len(connList')
      BY <2>3, <2>8, <3>1
    <3>3. reserve' + Cardinality(At("reserved")') + Cardinality(At("returned")') = Len(connList')
      <4>1. reserve' = reserve /\ reserve \in Nat
        BY <1>0, <2>8
      <4>2. reserve + (Cardinality(At("reserved")) - 1) + Cardinality(At("returned"))
              = Len(connList) - 1
        BY <2>1, <3>1, <4>1
      <4> QED  BY <2>3, <2>6, <4>1, <4>2
    <3>4. m_CurConn' = Cardinality(Holders') /\ m_MaxConn' = MaxConn
      BY <2>5, <2>8, <3>1
    <3>5. Len(connList') + Cardinality(Holders') = MaxConn
      BY <1>0, <2>3, <2>5, <3>1
    <3> QED  BY <3>2, <3>3, <3>4, <3>5
  <2> QED  BY <2>8, <2>9, <2>10 DEF Account
<1>8. ASSUME NEW t \in Threads, ReleaseNull(t) PROVE Account'
  <2>1. Holders' = Holders
    BY <1>8 DEF ReleaseNull, Holders
  <2>2. At("reserved")' = At("reserved") /\ At("returned")' = At("returned")
    BY <1>0, <1>8 DEF ReleaseNull, At
  <2> QED  BY <1>0, <1>8, <2>1, <2>2 DEF ReleaseNull, Account, TypeOK, Places
<1>9. ASSUME NEW t \in Threads, ReleaseConn(t) PROVE Account'
  <2>1. con[t] \in Conns
    BY <1>0, <1>9 DEF ReleaseConn
  <2>2. connList' \in Seq(Conns) /\ Len(connList') = Len(connList) + 1
    BY <1>0, <1>9, <2>1, AppendProperties DEF ReleaseConn
  <2>3. Cardinality(Holders') = Cardinality(Holders) - 1
    BY <1>0, <1>9, HoldersShrink DEF ReleaseConn
  <2>4. /\ Cardinality(At("reserved")') = Cardinality(At("reserved"))
        /\ Cardinality(At("returned")') = Cardinality(At("returned")) + 1
        /\ Cardinality(At("reserved")) \in Nat /\ Cardinality(At("returned")) \in Nat
    BY <1>0, <1>9, MoveCounts DEF ReleaseConn, Places
  <2>6. /\ phase = "up" /\ phase' = "up" /\ reserve' = reserve /\ m_MaxConn' = m_MaxConn
        /\ m_FreeConn' = m_FreeConn + 1 /\ m_CurConn' = m_CurConn - 1
    BY <1>9 DEF ReleaseConn
  <2>7. \A u \in Threads : con'[u] # NULL => pc'[u] = "using"
    BY <1>0, <1>9 DEF ReleaseConn, Account
  <2>8. /\ m_FreeConn = Len(connList)
        /\ reserve + Cardinality(At("reserved")) + Cardinality(At("returned")) = Len(connList)
        /\ m_CurConn = Cardinality(Holders) /\ m_MaxConn = MaxConn
        /\ Len(connList) + Cardinality(Holders) = MaxConn
    BY <2>6 DEF TypeOK, Account
  <2>9. /\ m_FreeConn' = Len(connList') /\ m_CurConn' = Cardinality(Holders')
        /\ m_MaxConn' = MaxConn
    BY <2>2, <2>3, <2>6, <2>8
  <2>10. reserve' + Cardinality(At("reserved")') + Cardinality(At("returned")') = Len(connList')
    <3>1. reserve' = reserve /\ reserve \in Nat
      BY <1>0, <2>6
    <3>2. reserve + Cardinality(At("reserved")) + (Cardinality(At("returned")) + 1)
            = Len(connList) + 1
      BY <2>4, <2>8, <3>1
    <3> QED  BY <2>2, <2>4, <3>1, <3>2
  <2>11. Len(connList') + Cardinality(Holders') = MaxConn
    BY <1>0, <2>2, <2>3, <2>8
  <2> QED  BY <2>6, <2>7, <2>9, <2>10, <2>11 DEF Account
<1>10. ASSUME NEW t \in Threads, ReservePost(t) PROVE Account'
  <2>1. Holders' = Holders
    BY <1>10 DEF ReservePost, Holders
  <2>2. /\ Cardinality(At("reserved")') = Cardinality(At("reserved"))
        /\ Cardinality(At("returned")') = Cardinality(At("returned")) - 1
        /\ Cardinality(At("reserved")) \in Nat /\ Cardinality(At("returned")) \in Nat
    BY <1>0, <1>10, MoveCounts DEF ReservePost, Places
  <2> QED  BY <1>0, <1>10, <2>1, <2>2 DEF ReservePost, sem_post, Account, TypeOK, Places
<1>11. CASE DestroyPool
  <2>1. Len(connList) # 0
    BY <1>0, <1>11, EmptySeq DEF DestroyPool
  <2>2. connList[1] \in ToSet(connList)
    BY <1>0, <2>1 DEF ToSet
  <2> QED  BY <1>11, <2>2 DEF DestroyPool
<1>12. CASE UNCHANGED poolVars
  BY <1>12 DEF poolVars, Account, TypeOK, At, Holders
<1>13. CASE Ended
  BY <1>12, <1>13 DEF Ended
<1> QED
  BY <1>1, <1>2, <1>3, <1>4, <1>5, <1>6, <1>7, <1>8, <1>9, <1>10, <1>11, <1>12, <1>13
  DEF Next, InitStep, GetStep, ReleaseStep

(* A connection stays closed. *)
LEMMA ClosedGrows == [Next]_poolVars => closed \subseteq closed'
BY DEF Next, InitStep, InitConnect, InitFails, InitDone, GetStep, GetNull, GetCheck,
       ReserveWait, TakeConn, ReleaseStep, ReleaseNull, ReleaseConn, ReservePost,
       DestroyPool, Ended, poolVars

LEMMA NextPoolInv == PoolInv /\ [Next]_poolVars => PoolInv'
<1> SUFFICES ASSUME PoolInv, [Next]_poolVars PROVE PoolInv'
  OBVIOUS
<1>1. TypeInv'
  BY NextTypeInv DEF PoolInv
<1>2. closed' = {} => closed = {}
  BY ClosedGrows
<1> QED  BY <1>1, <1>2, NextAccount DEF PoolInv, TypeInv

(* Every reachable state satisfies the invariant. *)
THEOREM PoolInductive == Spec => []PoolInv
<1> QED  BY InitPoolInv, NextPoolInv, PTL DEF Spec

(* GetConnection never takes the front of an empty list, for any number of
   threads and connections. *)
THEOREM NoEmptyPopHolds == Spec => []NoEmptyPop
<1>1. PoolInv => NoEmptyPop
  BY DEF PoolInv, Account, NoEmptyPop
<1> QED  BY <1>1, PoolInductive, PTL

(* The semaphore counts the listed connections exactly. *)
THEOREM ReserveAccountingHolds == Spec => []ReserveAccounting
<1>1. PoolInv => ReserveAccounting
  BY DEF PoolInv, Account, ReserveAccounting
<1> QED  BY <1>1, PoolInductive, PTL

(* m_FreeConn and m_CurConn are what their comments say. *)
THEOREM CountersExactHolds == Spec => []CountersExact
<1>1. PoolInv => CountersExact
  BY DEF PoolInv, Account, CountersExact
<1> QED  BY <1>1, PoolInductive, PTL

-----------------------------------------------------------------------------
(* The identity of the connections.  IsInjective and ToSet are written out. *)
Listed(c) == \E i \in 1 .. Len(connList) : connList[i] = c

Distinct ==
  /\ \A i, j \in 1 .. Len(connList) : connList[i] = connList[j] => i = j
  /\ \A t \in Threads : con[t] # NULL => ~Listed(con[t])
  /\ \A t, u \in Threads : con[t] # NULL /\ con[t] = con[u] => t = u
  /\ \A c \in closed : ~Listed(c) /\ \A t \in Threads : con[t] # c
  /\ phase = "init" => closed = {} /\ \A t \in Threads : con[t] = NULL

LEMMA InitDistinct == PoolInit => Distinct
BY EmptySeq DEF PoolInit, Distinct, Listed

(* No action lists a connection twice, hands one to two threads or brings a
   closed one back. *)
LEMMA NextDistinct ==
  ASSUME TypeOK, Distinct, [Next]_poolVars,
         \A t \in Threads : con[t] # NULL => pc[t] = "using"
  PROVE  Distinct'
<1> USE NullAssumption
<1>0. /\ connList \in Seq(Conns) /\ Len(connList) \in Nat /\ closed \subseteq Conns
      /\ con \in [Threads -> Conns \cup {NULL}]
      /\ \A i \in 1 .. Len(connList) : connList[i] \in Conns
  BY LenProperties, ElementOfSeq DEF TypeOK
<1>1. ASSUME NEW c \in Conns, InitConnect(c) PROVE Distinct'
  <2>1. /\ Len(connList') = Len(connList) + 1 /\ connList'[Len(connList) + 1] = c
        /\ \A i \in 1 .. Len(connList) : connList'[i] = connList[i]
    BY <1>0, <1>1, AppendProperties DEF InitConnect
  <2>2. ~Listed(c)
    BY <1>0, <1>1 DEF InitConnect, Listed, ToSet
  <2>3. con' = con /\ closed' = closed /\ phase' = phase /\ phase = "init"
    BY <1>1 DEF InitConnect
  <2> QED  BY <1>0, <2>1, <2>2, <2>3 DEF Distinct, Listed
<1>2. ASSUME NEW t \in Threads, ReleaseConn(t) PROVE Distinct'
  <2>1. /\ Len(connList') = Len(connList) + 1 /\ connList'[Len(connList) + 1] = con[t]
        /\ \A i \in 1 .. Len(connList) : connList'[i] = connList[i]
    BY <1>0, <1>2, AppendProperties DEF ReleaseConn
  <2>2. /\ con' = [con EXCEPT ![t] = NULL] /\ con[t] # NULL
        /\ closed' = closed /\ phase' = phase /\ phase = "up"
    BY <1>2 DEF ReleaseConn
  <2>3. ~Listed(con[t]) /\ con[t] \notin closed
    BY <2>2 DEF Distinct
  <2>4. \A c : Listed(c)' => Listed(c) \/ c = con[t]
    BY <1>0, <2>1 DEF Listed
  <2>5. \A i, j \in 1 .. Len(connList') : connList'[i] = connList'[j] => i = j
    BY <1>0, <2>1, <2>3 DEF Distinct, Listed
  <2>6. \A u \in Threads : con'[u] # NULL => u # t /\ con'[u] = con[u]
    BY <1>0, <2>2
  <2> QED  BY <1>0, <2>2, <2>3, <2>4, <2>5, <2>6 DEF Distinct
<1>3. ASSUME NEW t \in Threads, TakeConn(t), connList # <<>> PROVE Distinct'
  <2>1. /\ Len(connList') = Len(connList) - 1 /\ Len(connList) > 0
        /\ \A i \in 1 .. Len(connList') : connList'[i] = connList[i + 1]
        /\ Head(connList) = connList[1]
    BY <1>0, <1>3, HeadTailProperties, EmptySeq DEF TakeConn, pop_front
  <2>2. /\ con' = [con EXCEPT ![t] = connList[1]] /\ closed' = closed
        /\ phase' = phase /\ phase = "up"
    BY <1>3, <2>1 DEF TakeConn
  <2>3. Listed(connList[1]) /\ connList[1] \in Conns
    BY <1>0, <2>1 DEF Listed
  <2>4. \A c : Listed(c)' => Listed(c) /\ c # connList[1]
    BY <1>0, <2>1 DEF Listed, Distinct
  <2>5. \A i, j \in 1 .. Len(connList') : connList'[i] = connList'[j] => i = j
    BY <1>0, <2>1 DEF Distinct
  <2>6. \A u \in Threads : con'[u] = IF u = t THEN connList[1] ELSE con[u]
    BY <1>0, <2>2
  <2> QED  BY <1>0, <2>2, <2>3, <2>4, <2>5, <2>6 DEF Distinct
<1>4. CASE DestroyPool
  <2>1. /\ closed' = closed \cup ToSet(connList) /\ connList' = <<>> /\ Len(connList') = 0
        /\ con' = con /\ phase' = phase /\ phase = "up"
    BY <1>4, EmptySeq DEF DestroyPool, clear
  <2>2. \A c \in ToSet(connList) : Listed(c) /\ c \in Conns
    BY <1>0 DEF ToSet, Listed
  <2>3. \A c : ~Listed(c)'
    BY <2>1 DEF Listed
  <2> QED  BY <1>0, <2>1, <2>2, <2>3 DEF Distinct
<1>5. ASSUME NEW t \in Threads, GetNull(t) PROVE Distinct'
  <2>1. con[t] = NULL /\ con' = con
    BY <1>0, <1>5 DEF GetNull
  <2> QED  BY <1>5, <2>1 DEF GetNull, Distinct, Listed
<1>6. ASSUME UNCHANGED <<connList, con, closed>>, phase' = "init" => phase = "init"
      PROVE  Distinct'
  BY <1>6 DEF Distinct, Listed
<1>7. ASSUME NEW t \in Threads,
             \/ GetCheck(t) \/ ReserveWait(t) \/ ReleaseNull(t) \/ ReservePost(t)
             \/ (TakeConn(t) /\ connList = <<>>)
      PROVE  Distinct'
  BY <1>6, <1>7 DEF GetCheck, ReserveWait, ReleaseNull, ReservePost, TakeConn
<1>8. CASE InitFails \/ InitDone \/ Ended \/ UNCHANGED poolVars
  BY <1>6, <1>8 DEF InitFails, InitDone, Ended, poolVars
<1> QED
  BY <1>1, <1>2, <1>3, <1>4, <1>5, <1>7, <1>8 DEF Next, InitStep, GetStep, ReleaseStep

(* Only a thread in the scope of its connectionRAII holds a connection. *)
LEMMA HoldersUse ==
  ASSUME TypeOK, [Next]_poolVars, \A t \in Threads : con[t] # NULL => pc[t] = "using"
  PROVE  \A t \in Threads : con'[t] # NULL => pc'[t] = "using"
BY DEF TypeOK, Next, InitStep, InitConnect, InitFails, InitDone, GetStep, GetNull, GetCheck,
       ReserveWait, TakeConn, ReleaseStep, ReleaseNull, ReleaseConn, ReservePost,
       DestroyPool, Ended, poolVars

IdentityInv ==
  /\ TypeInv /\ Distinct
  /\ \A t \in Threads : con[t] # NULL => pc[t] = "using"

LEMMA IdentityInductive == Spec => []IdentityInv
<1>1. PoolInit => IdentityInv
  <2>1. PoolInit => \A t \in Threads : con[t] = NULL
    BY DEF PoolInit
  <2> QED  BY <2>1, InitPoolInv, InitDistinct DEF PoolInv, IdentityInv
<1>2. IdentityInv /\ [Next]_poolVars => IdentityInv'
  BY NextTypeInv, NextDistinct, HoldersUse DEF IdentityInv, TypeInv
<1> QED  BY <1>1, <1>2, PTL DEF Spec

(* No connection is listed twice, shared or lost. *)
THEOREM ConservedHolds == Spec => []ConnectionsConserved
<1>1. IdentityInv /\ PoolInv => ConnectionsConserved
  <2> SUFFICES ASSUME IdentityInv, PoolInv PROVE ConnectionsConserved
    OBVIOUS
  <2>1. IsInjective(connList)
    BY LenProperties DEF IdentityInv, TypeInv, TypeOK, Distinct, IsInjective
  <2>2. \A t \in Holders : con[t] \notin ToSet(connList)
    BY LenProperties DEF IdentityInv, TypeInv, TypeOK, Distinct, Listed, Holders, ToSet
  <2>3. \A t, u \in Holders : con[t] = con[u] => t = u
    BY DEF IdentityInv, Distinct, Holders
  <2>4. phase = "up" /\ closed = {} => Len(connList) + Cardinality(Holders) = m_MaxConn
    BY DEF PoolInv, Account
  <2> QED  BY <2>1, <2>2, <2>3, <2>4 DEF ConnectionsConserved
<1> QED  BY <1>1, IdentityInductive, PoolInductive, PTL

(* DestroyPool at any moment leaves no closed connection in use or listed. *)
THEOREM NoUseAfterCloseHolds == Spec => []NoUseAfterClose
<1>1. IdentityInv => NoUseAfterClose
  <2> SUFFICES ASSUME IdentityInv, NEW c \in closed
               PROVE  c \notin ToSet(connList) /\ \A t \in Holders : con[t] # c
    BY DEF NoUseAfterClose
  <2>1. ~Listed(c) /\ \A t \in Threads : con[t] # c
    BY DEF IdentityInv, Distinct
  <2> QED  BY <2>1, LenProperties DEF IdentityInv, TypeInv, TypeOK, Listed, ToSet, Holders
<1> QED  BY <1>1, IdentityInductive, PTL

-----------------------------------------------------------------------------
(* With enough connections a thread that is served is not served NULL. *)
EnoughInv ==
  /\ PoolInv
  /\ closed = {} /\ Cardinality(Threads) <= MaxConn => \A t \in At("using") : con[t] # NULL

LEMMA NextEnoughInv == EnoughInv /\ [Next]_poolVars => EnoughInv'
<1> SUFFICES ASSUME EnoughInv, PoolInv, [Next]_poolVars, closed' = {},
                    Cardinality(Threads) <= MaxConn, NEW u \in At("using")'
             PROVE  con'[u] # NULL
  BY NextPoolInv DEF EnoughInv
<1>a. closed = {} /\ TypeOK /\ Account /\ Account'
  BY ClosedGrows, NextPoolInv DEF PoolInv, TypeInv
<1> USE NullAssumption
<1>0. /\ u \in Threads /\ pc'[u] = "using"
      /\ pc \in [Threads -> Places] /\ con \in [Threads -> Conns \cup {NULL}]
      /\ pc[u] = "using" => con[u] # NULL
  BY <1>a DEF At, EnoughInv, TypeOK, Places
<1>1. ASSUME NEW t \in Threads, GetNull(t) PROVE FALSE
  <2>1. Cardinality(Holders) = MaxConn
    <3>1. phase = "up" /\ Len(connList) = 0
      BY <1>1, EmptySeq DEF GetNull
    <3>2. Cardinality(Holders) \in Nat
      BY FiniteCounts DEF Holders
    <3> QED  BY <1>a, <3>1, <3>2, MaxConnAssumption DEF Account
  <2>2. Holders \in SUBSET Threads /\ Cardinality(Threads) \in Nat
    BY ThreadsAssumption, FS_CardinalityType DEF Holders
  <2>3. Cardinality(Holders) <= Cardinality(Threads)
    BY <2>2, ThreadsAssumption, FS_Subset
  <2>4. Holders = Threads
    BY <2>1, <2>2, <2>3, MaxConnAssumption, ThreadsAssumption, FS_Subset
  <2> QED  BY <1>1, <1>a, <2>4 DEF GetNull, Account, Holders
<1>2. ASSUME NEW t \in Threads, TakeConn(t) PROVE con'[u] # NULL
  <2>1. connList # <<>>
    BY <1>2, <1>a DEF TakeConn, Account
  <2>2. Head(connList) \in Conns
    BY <1>a, <2>1, HeadTailProperties DEF TypeOK
  <2> QED  BY <1>0, <1>2, <2>1, <2>2 DEF TakeConn
<1>3. ASSUME NEW t \in Threads,
             \/ GetCheck(t) \/ ReserveWait(t) \/ ReleaseNull(t) \/ ReleaseConn(t) \/ ReservePost(t)
      PROVE  con'[u] # NULL
  BY <1>0, <1>3 DEF GetCheck, ReserveWait, ReleaseNull, ReleaseConn, ReservePost
<1>4. CASE InitStep \/ DestroyPool \/ Ended \/ UNCHANGED poolVars
  BY <1>0, <1>4 DEF InitStep, InitConnect, InitFails, InitDone, DestroyPool, Ended, poolVars
<1> QED  BY <1>1, <1>2, <1>3, <1>4 DEF Next, GetStep, ReleaseStep

(* With no more threads than connections GetConnection never returns NULL. *)
THEOREM NoNullHolds == Spec => []NoNullWhenEnough
<1>1. PoolInit => EnoughInv
  <2>1. PoolInit => At("using") = {}
    BY DEF PoolInit, At
  <2> QED  BY <2>1, InitPoolInv DEF EnoughInv
<1>2. EnoughInv => NoNullWhenEnough
  BY DEF EnoughInv, NoNullWhenEnough
<1> QED  BY <1>1, <1>2, NextEnoughInv, PTL DEF Spec

=============================================================================
