----------------------------- MODULE BoundedFifo -----------------------------
(***************************************************************************)
(* What block_queue (src block_queue.h) promises its callers: a FIFO queue *)
(* of at most Capacity items.  A full queue refuses an item, so a refused  *)
(* push is a stuttering step here; nothing is lost or reordered between    *)
(* Put and Take, and only Clear may drop items.                            *)
(***************************************************************************)
EXTENDS Naturals, Sequences

CONSTANTS
  Items,     \* what may be queued
  Takers,    \* the threads that may take an item
  Blank,     \* the content of a taker's item before its first Take
  Capacity   \* the largest number of queued items

VARIABLES
  queue,     \* the queued items, oldest first
  got        \* got[c]: the item taker c received last

fifoVars == <<queue, got>>

FifoInit ==
  /\ queue = <<>>
  /\ got = [c \in Takers |-> Blank]

Put(x) ==
  /\ Len(queue) < Capacity
  /\ queue' = Append(queue, x)
  /\ UNCHANGED got

Take(c) ==
  /\ queue # <<>>
  /\ got' = [got EXCEPT ![c] = Head(queue)]
  /\ queue' = Tail(queue)

Clear ==
  /\ queue' = <<>>
  /\ UNCHANGED got

FifoNext ==
  \/ \E x \in Items : Put(x)
  \/ \E c \in Takers : Take(c)
  \/ Clear

FifoSpec == FifoInit /\ [][FifoNext]_fifoVars

=============================================================================
